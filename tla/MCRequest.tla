------------------------------ MODULE MCRequest ------------------------------
(* Request with the sets of callbacks that TLC tries. *)
EXTENDS Request

(* Every callback, and every callback but one that state depends on. *)
AllHandlers == {Callbacks}
SomeHandlers == {Callbacks, Callbacks \ {"onDisconnected"}, Callbacks \ {"onError"}}

(* Every choice of the callbacks a caller can make. *)
EveryHandlerSet == SUBSET Callbacks
=============================================================================
