--------------------------- MODULE HandlerContract ---------------------------
(***************************************************************************)
(* What the callbacks of ResponseHandler promise to the caller, without    *)
(* sockets, threads or time: which callback may be invoked after which.    *)
(* The counters say how often each was invoked (for body: how many units   *)
(* of data were handed over). A caller that leaves a callback null misses  *)
(* that event and nothing else.                                            *)
(***************************************************************************)
EXTENDS Naturals

VARIABLES installed, connects, headers, body, errors, closes

vars == <<installed, connects, headers, body, errors, closes>>

Init ==
  /\ installed \in SUBSET {"onConnected", "onParseHeaderDone", "onData",
                           "onDisconnected", "onError"}
  /\ connects = 0
  /\ headers = 0
  /\ body = 0
  /\ errors = 0
  /\ closes = 0

(* No error was reported and the end was not announced. *)
Open == errors = 0 /\ closes = 0

(* The connection of a hop is up; no header has been shown yet. *)
OnConnected ==
  /\ Open
  /\ headers = 0 /\ body = 0
  /\ connects' = connects + 1
  /\ UNCHANGED <<installed, headers, body, errors, closes>>

(* The one response header, of the last hop. *)
OnParseHeaderDone ==
  /\ Open
  /\ headers = 0 /\ body = 0
  /\ "onConnected" \in installed => connects > 0
  /\ headers' = 1
  /\ UNCHANGED <<installed, connects, body, errors, closes>>

(* Some of the body, after its header. *)
OnData ==
  /\ Open
  /\ "onParseHeaderDone" \in installed => headers = 1
  /\ body' > body
  /\ UNCHANGED <<installed, connects, headers, errors, closes>>

(* The one error. *)
OnError ==
  /\ Open
  /\ errors' = 1
  /\ UNCHANGED <<installed, connects, headers, body, closes>>

(* The end, the last callback of all. *)
OnDisconnected ==
  /\ closes = 0
  /\ closes' = 1
  /\ UNCHANGED <<installed, connects, headers, body, errors>>

Next == OnConnected \/ OnParseHeaderDone \/ OnData \/ OnError \/ OnDisconnected

Spec == Init /\ [][Next]_vars
=============================================================================
