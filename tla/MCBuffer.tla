------------------------------ MODULE MCBuffer ------------------------------
(***************************************************************************)
(* Buffer for TLC: objects are interchangeable, and so are addresses.      *)
(***************************************************************************)
EXTENDS Buffer, TLC

Symmetry == Permutations(Objects) \cup Permutations(Blocks)
=============================================================================
