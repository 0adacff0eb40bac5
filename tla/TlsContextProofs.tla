-------------------------- MODULE TlsContextProofs --------------------------
(***************************************************************************)
(* Proofs about TlsContext, for any number of workers and of sockets, and  *)
(* any hooks: one context is made, nobody uses it before it is ready, and  *)
(* whoever waits in call_once waits for a worker that is at work.          *)
(***************************************************************************)
EXTENDS TlsContext, TLAPS

Inside == {"newContext", "configure"}

(* What each state of the once_flag says of the context and the workers.   *)
OnceInv ==
  /\ flag = "unset" => made = 0
  /\ flag # "set" /\ ~terminated => applied = "none"
  /\ \A t \in Threads : pc[t] \in Inside => flag = "running"
  /\ \A t, u \in Threads : pc[t] \in Inside /\ pc[u] \in Inside => t = u
  /\ \A t \in Threads : pc[t] = "newContext" /\ ~terminated => made = 0
  /\ \A t \in Threads : pc[t] = "configure" /\ ~terminated => contextPtr = "raw"
  /\ \A t \in Threads : pc[t] \in {"newSsl", "connect"} => flag = "set"

(* What the shared pointer and the objects made from it say of the hook.   *)
UseInv ==
  /\ flag = "set" => /\ contextPtr = "raw" => applied = "none"
                     /\ contextPtr = "configured" => applied = "configure"
                     /\ contextPtr = "null" => applied = "reset"
  /\ \A t \in Threads :
       pc[t] = "connect" /\ ssl[t] = "null" => applied = "reset" \/ refused
  /\ ConfiguredBeforeUse
  /\ NullHasCause

Inv == TypeOK /\ OnceInv /\ UseInv

(* Nothing is made, set or used when the program starts.                   *)
LEMMA TlsInit == Init => Inv
<1> SUFFICES ASSUME Init PROVE Inv
  OBVIOUS
<1>1. TypeOK
  <2>1. terminated \in BOOLEAN /\ refused \in BOOLEAN /\ nullUsed \in BOOLEAN
    BY DEF Init
  <2> QED BY <2>1, TlsAssumption DEF Init, TypeOK, Steps, Contexts
<1>2. OnceInv
  BY DEF Init, OnceInv, Inside
<1>3. UseInv
  BY DEF Init, UseInv, ConfiguredBeforeUse, NullHasCause
<1> QED BY <1>1, <1>2, <1>3 DEF Inv

(* Every step of a worker, and the setting of the hook, keeps the account. *)
LEMMA TlsNext == Inv /\ [Next]_vars => Inv'
<1> SUFFICES ASSUME Inv, [Next]_vars PROVE Inv'
  OBVIOUS
<1> USE TlsAssumption
    DEF Inv, TypeOK, Steps, Contexts, OnceInv, UseInv, Inside, ConfiguredBeforeUse,
        NullHasCause, shared, GoTo
<1>1. ASSUME NEW t \in Threads, Construct(t), ~terminated PROVE Inv'
  BY <1>1 DEF Construct
<1>2. ASSUME NEW t \in Threads, CallOnce(t), ~terminated PROVE Inv'
  <2>1. CASE flag = "unset" /\ flag' = "running" /\ GoTo(t, "newContext")
    BY <1>2, <2>1 DEF CallOnce
  <2>2. CASE flag = "set" /\ GoTo(t, "newSsl") /\ UNCHANGED flag
    BY <1>2, <2>2 DEF CallOnce
  <2> QED BY <1>2, <2>1, <2>2 DEF CallOnce
<1>3. ASSUME NEW t \in Threads, NewContext(t), ~terminated PROVE Inv'
  <2>1. CASE terminated' = TRUE
    BY <1>3, <2>1 DEF NewContext
  <2>2. CASE UNCHANGED terminated
    BY <1>3, <2>2 DEF NewContext
  <2> QED BY <1>3, <2>1, <2>2 DEF NewContext
<1>4. ASSUME NEW t \in Threads, Configure(t), ~terminated PROVE Inv'
  <2>1. CASE hook = "throw"
    BY <1>4, <2>1 DEF Configure
  <2>2. CASE hook # "throw"
    BY <1>4, <2>2 DEF Configure
  <2> QED BY <2>1, <2>2
<1>5. ASSUME NEW t \in Threads, NewSsl(t), ~terminated PROVE Inv'
  <2>1. CASE ssl' = [ssl EXCEPT ![t] = contextPtr] /\ UNCHANGED refused
    <3>1. flag = "set" /\ contextPtr \in Contexts
      BY <1>5 DEF NewSsl
    <3> QED BY <1>5, <2>1, <3>1 DEF NewSsl
  <2>2. CASE ssl' = [ssl EXCEPT ![t] = "null"] /\ refused' = TRUE
    <3>1. refused' /\ refused' \in BOOLEAN
      BY <2>2
    <3> QED BY <1>5, <2>2, <3>1 DEF NewSsl
  <2> QED BY <1>5, <2>1, <2>2 DEF NewSsl
<1>6. ASSUME NEW t \in Threads, Handshake(t), ~terminated PROVE Inv'
  <2>1. nullUsed' \in BOOLEAN
    BY <1>6 DEF Handshake
  <2> QED BY <1>6, <2>1 DEF Handshake
<1>7. CASE SetHook /\ ~terminated
  BY <1>7 DEF SetHook
<1>8. CASE UNCHANGED vars
  BY <1>8 DEF vars
<1> QED BY <1>1, <1>2, <1>3, <1>4, <1>5, <1>6, <1>7, <1>8 DEF Next, Worker, Create

(* The account of the once_flag and of its users holds throughout.         *)
LEMMA TlsInvariant == Spec => []Inv
  BY TlsInit, TlsNext, PTL DEF Spec

(* Every variable keeps its type; in particular one context is made.       *)
THEOREM TypeCorrect == Spec => []TypeOK
<1>1. Inv => TypeOK
  BY DEF Inv
<1> QED BY <1>1, TlsInvariant, PTL

(* No worker makes an object from a context the hook is still at.          *)
THEOREM NeverUnconfigured == Spec => []ConfiguredBeforeUse
<1>1. Inv => ConfiguredBeforeUse
  BY DEF Inv, UseInv
<1> QED BY <1>1, TlsInvariant, PTL

(* A null pointer reaches SSL_connect only when the hook took the context  *)
(* away or OpenSSL refused an object.                                      *)
THEOREM NullIsExplained == Spec => []NullHasCause
<1>1. Inv => NullHasCause
  BY DEF Inv, UseInv
<1> QED BY <1>1, TlsInvariant, PTL

(* A context once shared is neither replaced nor changed.                  *)
THEOREM ContextNeverReplaced == Spec => ContextFixed
<1>1. Inv /\ [Next]_vars
      => [flag = "set" => UNCHANGED <<flag, contextPtr, applied, made>>]_vars
  <2> SUFFICES ASSUME Inv, Next, flag = "set"
               PROVE UNCHANGED <<flag, contextPtr, applied, made>>
    OBVIOUS
  <2>1. \A t \in Threads : pc[t] \notin Inside
    BY DEF Inv, OnceInv
  <2> QED BY <2>1 DEF Next, Worker, Create, SetHook, Construct, CallOnce, NewContext,
                      Configure, NewSsl, Handshake, shared, Inside
<1> QED BY <1>1, TlsInvariant, PTL DEF Spec, ContextFixed
-----------------------------------------------------------------------------
(* The safety half of CreateReturns: what a worker in call_once waits for *)

(* While the flag says that somebody runs the function, somebody does, the *)
(* worker has a next step, and no program is stopped in it unnoticed.      *)
WaitersAreServed ==
  \A t \in Threads :
    pc[t] = "callOnce" /\ ~terminated =>
      \/ flag \in {"unset", "set"}
      \/ \E u \in Threads \ {t} : pc[u] \in Inside

RunnerInv == flag = "running" /\ ~terminated => \E u \in Threads : pc[u] \in Inside

(* Only the worker that runs the function leaves it, and it sets the flag. *)
LEMMA RunnerNext == Inv /\ RunnerInv /\ [Next]_vars => RunnerInv'
<1> SUFFICES ASSUME Inv, RunnerInv, [Next]_vars, flag' = "running", ~terminated'
             PROVE \E u \in Threads : pc'[u] \in Inside
  BY DEF RunnerInv
<1> USE DEF Inv, TypeOK, Steps, Inside, GoTo
<1>1. ASSUME NEW t \in Threads, CallOnce(t), flag = "unset" PROVE pc'[t] \in Inside
  BY <1>1 DEF CallOnce
<1>2. ASSUME NEW t \in Threads, NewContext(t) PROVE pc'[t] \in Inside
  BY <1>2 DEF NewContext
<1>3. ASSUME NEW t \in Threads, Configure(t) PROVE FALSE
  BY <1>3 DEF Configure
<1>4. ASSUME NEW t \in Threads, pc[t] \notin Inside, flag = "running", ~terminated,
             \/ pc' = pc
             \/ \E step \in Steps : pc' = [pc EXCEPT ![t] = step]
      PROVE \E u \in Threads : pc'[u] \in Inside
  <2>1. PICK u \in Threads : pc[u] \in Inside
    BY <1>4 DEF RunnerInv
  <2> QED BY <1>4, <2>1
<1>5. ASSUME NEW t \in Threads, Worker(t), ~terminated
      PROVE \E u \in Threads : pc'[u] \in Inside
  <2>1. CASE Construct(t)
    BY <1>4, <1>5, <2>1 DEF Construct, shared
  <2>2. CASE CallOnce(t)
    BY <1>1, <2>2 DEF CallOnce
  <2>3. CASE NewContext(t) \/ Configure(t)
    BY <1>2, <1>3, <2>3
  <2>4. CASE NewSsl(t)
    BY <1>4, <1>5, <2>4 DEF NewSsl, shared
  <2>5. CASE Handshake(t)
    BY <1>4, <1>5, <2>5 DEF Handshake, shared
  <2> QED BY <1>5, <2>1, <2>2, <2>3, <2>4, <2>5 DEF Worker, Create
<1>6. CASE SetHook
  BY <1>6 DEF SetHook, RunnerInv
<1>7. CASE UNCHANGED vars
  BY <1>7 DEF vars, shared, RunnerInv
<1> QED BY <1>5, <1>6, <1>7 DEF Next

(* Nobody waits in call_once for nobody: unless the program is terminated, *)
(* a worker in it may go on itself or another worker is in the function,   *)
(* at a step that waits for nothing. What it takes for create() to return  *)
(* after that is that the operating system runs the workers.               *)
THEOREM NobodyWaitsInVain == Spec => []WaitersAreServed
<1>1. Init => RunnerInv
  BY DEF Init, RunnerInv
<1>2. Inv /\ RunnerInv => WaitersAreServed
  <2> SUFFICES ASSUME Inv, RunnerInv, NEW t \in Threads, pc[t] = "callOnce", ~terminated,
                      flag \notin {"unset", "set"}
               PROVE \E u \in Threads \ {t} : pc[u] \in Inside
    BY DEF WaitersAreServed
  <2>1. flag = "running"
    BY DEF Inv, TypeOK
  <2>2. PICK u \in Threads : pc[u] \in Inside
    BY <2>1 DEF RunnerInv
  <2> QED BY <2>2 DEF Inside
<1> QED BY <1>1, <1>2, RunnerNext, TlsInvariant, PTL DEF Spec
=============================================================================
