--------------------------- MODULE MCChunkDecoder ---------------------------
(***************************************************************************)
(* ChunkDecoder for TLC: sizes of one digit.                               *)
(***************************************************************************)
EXTENDS ChunkDecoder

Digits == <<"1", "2", "3", "4", "5", "6", "7", "8", "9", "a", "b", "c", "d", "e", "f">>

HexDigits == [n \in 0..MaxBody |-> IF n = 0 THEN "0" ELSE Digits[n]]
=============================================================================
