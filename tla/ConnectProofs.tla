--------------------------- MODULE ConnectProofs ---------------------------
(***************************************************************************)
(* Proofs about Connect, for every timeout and however far the clock is   *)
(* set back.                                                               *)
(***************************************************************************)
EXTENDS Connect, TLAPS

(* What makes OutcomeAllowed inductive: there is no connection before the  *)
(* system call, past config() the descriptor is the open one that the      *)
(* constructor got, and only a TLS socket reaches the handshake.           *)
OutcomeInv ==
  /\ pc = "config" => fd = created /\ link = "idle"
  /\ pc \in {"connect", "loop", "select", "soError", "sslConnect", "sslSelect"} =>
       fd = TRUE /\ created = TRUE
  /\ pc \in {"sslConnect", "sslSelect"} => kind = "tls"
  /\ OutcomeAllowed

(* What the loop has waited and what it may still wait, by the clock or in *)
(* the select under way, make one timeout and what the clock was set back; *)
(* the handshake may add one timeout.                                      *)
WaitInv ==
  /\ pc \in {"config", "connect"} => waited = 0 /\ setBack = 0
  /\ pc \in {"loop", "select"} => waited + remain <= Timeout + setBack
  /\ pc \notin {"sslSelect", "returned"} => waited <= Timeout + setBack
  /\ pc = "select" => waited + budget <= Timeout + setBack
  /\ pc = "sslSelect" => waited + budget <= 2 * Timeout + setBack
  /\ pc \in {"sslConnect", "sslSelect"} => kind = "tls"
  /\ WaitsWithinTimeout

(* A call of connect starts with every variable of its type. *)
LEMMA TypeInit == Init => TypeOK
<1> SUFFICES ASSUME Init PROVE TypeOK
  OBVIOUS
<1>1. /\ remain \in -1 .. Timeout + setBack
      /\ budget \in 0 .. Timeout + MaxSetBack
      /\ setBack \in 0..MaxSetBack
      /\ waited \in Nat
  BY ConnectAssumption DEF Init
<1>2. gaveUp \in BOOLEAN /\ fd \in BOOLEAN /\ created \in BOOLEAN
  BY DEF Init
<1> QED BY <1>1, <1>2 DEF Init, TypeOK, Links, ErrorCodes, ResultCodes

(* Every step keeps the types: the select under way is never given a       *)
(* negative timeout, because LoopHead tests remainTime first.              *)
LEMMA TypeNext == TypeOK /\ [Next]_vars => TypeOK'
<1> SUFFICES ASSUME TypeOK, [Next]_vars PROVE TypeOK'
  OBVIOUS
<1> USE ConnectAssumption DEF history
<1>1. CASE Config
  BY <1>1 DEF TypeOK, Config, SetResult, ResultCodes, ErrorCodes, ConfigFailures
<1>2. CASE ConnectCall
  BY <1>2 DEF TypeOK, ConnectCall, ReturnFromISocket, SetResult, ResultCodes, ErrorCodes,
              Links
<1>3. CASE LoopHead
  BY <1>3 DEF TypeOK, LoopHead, ReturnFromISocket, SetResult, ResultCodes, ErrorCodes
<1>4. CASE LoopSelect
  BY <1>4 DEF TypeOK, LoopSelect, Select, SetResult, ResultCodes, ErrorCodes
<1>5. CASE SoError
  BY <1>5 DEF TypeOK, SoError, ReturnFromISocket, SetResult, ResultCodes, ErrorCodes
<1>6. CASE SslConnect
  BY <1>6 DEF TypeOK, SslConnect, SetResult, ResultCodes, ErrorCodes
<1>7. CASE SslSelect
  BY <1>7 DEF TypeOK, SslSelect, Select, SetResult, ResultCodes, ErrorCodes
<1>8. CASE Network
  BY <1>8 DEF TypeOK, Network, Links
<1>9. CASE Tick
  BY <1>9 DEF TypeOK, Tick
<1>10. CASE SetClock
  BY <1>10 DEF TypeOK, SetClock
<1>11. CASE UNCHANGED vars
  BY <1>11 DEF TypeOK, vars
<1> QED BY <1>1, <1>2, <1>3, <1>4, <1>5, <1>6, <1>7, <1>8, <1>9, <1>10, <1>11
       DEF Next, Caller

(* Every variable keeps its type; the budget of a select is never negative *)
(* and never above the timeout and the set-back together.                  *)
THEOREM TypeCorrect == Spec => []TypeOK
  BY TypeInit, TypeNext, PTL DEF Spec

-----------------------------------------------------------------------------
(* A call that has not returned has no outcome to account for. *)
LEMMA OutcomeInit == Init => OutcomeInv
  BY DEF Init, OutcomeInv, OutcomeAllowed

(* The outcomes that Request allows, in the form the steps produce them. *)
LEMMA OutcomesOfPlain ==
  ASSUME NEW k, NEW c, NEW l
  PROVE  /\ [code |-> "CreateSocketFailed", fd |-> FALSE, link |-> "idle"]
              \in ConnectOutcomes(k, FALSE)
         /\ c \in ConfigFailures =>
              [code |-> c, fd |-> FALSE, link |-> "idle"] \in ConnectOutcomes(k, TRUE)
         /\ c \in {"ConnectGenericError", "Timeout"} /\ l \in Links =>
              [code |-> c, fd |-> TRUE, link |-> l] \in ConnectOutcomes(k, TRUE)
         /\ l \in {"connecting", "established"} =>
              [code |-> "Success", fd |-> TRUE, link |-> l] \in ConnectOutcomes(k, TRUE)
  BY DEF ConnectOutcomes

(* The outcomes of the TLS handshake, whatever became of the link          *)
(* meanwhile.                                                              *)
LEMMA OutcomesOfTls ==
  ASSUME NEW c \in {"Success", "Disconnected", "Failed", "Retry", "Timeout"}, NEW l \in Links
  PROVE  [code |-> c, fd |-> TRUE, link |-> l] \in ConnectOutcomes("tls", TRUE)
  BY DEF ConnectOutcomes

(* Every step of connect keeps what is known of its outcome: a failing     *)
(* config() has closed the descriptor, and nothing else closes it.         *)
LEMMA OutcomeNext == TypeOK /\ OutcomeInv /\ [Next]_vars => OutcomeInv'
<1> SUFFICES ASSUME TypeOK, OutcomeInv, [Next]_vars PROVE OutcomeInv'
  OBVIOUS
<1> USE DEF OutcomeInv, OutcomeAllowed, SetResult, ReturnFromISocket, history
<1>1. CASE Config
  BY <1>1, OutcomesOfPlain DEF TypeOK, Config
<1>2. CASE ConnectCall
  BY <1>2, OutcomesOfPlain DEF TypeOK, ConnectCall
<1>3. CASE LoopHead
  BY <1>3, OutcomesOfPlain DEF TypeOK, LoopHead
<1>4. CASE LoopSelect
  BY <1>4 DEF LoopSelect, Select
<1>5. CASE SoError
  BY <1>5, OutcomesOfPlain DEF TypeOK, SoError, Links
<1>6. CASE SslConnect
  BY <1>6, OutcomesOfTls DEF TypeOK, SslConnect
<1>7. CASE SslSelect
  BY <1>7, OutcomesOfTls DEF TypeOK, SslSelect, Select
<1>8. CASE Network
  BY <1>8 DEF Network
<1>9. CASE Tick
  BY <1>9 DEF Tick
<1>10. CASE SetClock
  BY <1>10 DEF SetClock
<1>11. CASE UNCHANGED vars
  BY <1>11 DEF vars
<1> QED BY <1>1, <1>2, <1>3, <1>4, <1>5, <1>6, <1>7, <1>8, <1>9, <1>10, <1>11
       DEF Next, Caller

(* Every outcome of connect is one that Request accounts for: a refused    *)
(* connection is no success of a plain socket, and the descriptor is       *)
(* closed exactly when config() failed.                                    *)
THEOREM OutcomesAllowed == Spec => []OutcomeAllowed
<1>1. OutcomeInv => OutcomeAllowed
  BY DEF OutcomeInv
<1> QED BY <1>1, TypeCorrect, OutcomeInit, OutcomeNext, PTL DEF Spec

-----------------------------------------------------------------------------
(* What makes SuccessMeansConnected inductive: a plain socket whose loop   *)
(* ended with a select that was ready is not connecting any more.          *)
ConnectedInv ==
  /\ pc = "soError" /\ ~gaveUp => link # "connecting"
  /\ pc \in {"sslConnect", "sslSelect"} => kind = "tls"
  /\ SuccessMeansConnected

(* Every step keeps that only a select that was not ready lets a plain     *)
(* socket succeed before it is connected.                                  *)
LEMMA ConnectedNext ==
  ASSUME TypeOK, ConnectedInv, [Next]_vars
  PROVE  ConnectedInv'
<1> USE DEF ConnectedInv, SuccessMeansConnected, SetResult, ReturnFromISocket, history
<1>1. CASE Config
  BY <1>1 DEF Config, ConfigFailures
<1>2. CASE ConnectCall
  BY <1>2 DEF ConnectCall
<1>3. CASE LoopHead
  BY <1>3 DEF LoopHead
<1>4. CASE LoopSelect
  BY <1>4 DEF LoopSelect, Select, CheckNeedRetry
<1>5. CASE SoError
  BY <1>5 DEF SoError, TypeOK, Links
<1>6. CASE SslConnect
  BY <1>6 DEF SslConnect
<1>7. CASE SslSelect
  BY <1>7 DEF SslSelect
<1>8. CASE Network
  BY <1>8 DEF Network
<1>9. CASE Tick
  BY <1>9 DEF Tick
<1>10. CASE SetClock
  BY <1>10 DEF SetClock
<1>11. CASE UNCHANGED vars
  BY <1>11 DEF vars
<1> QED BY <1>1, <1>2, <1>3, <1>4, <1>5, <1>6, <1>7, <1>8, <1>9, <1>10, <1>11
       DEF Next, Caller

(* A plain socket succeeds only with an established connection, unless the *)
(* last select of the loop timed out or failed.                            *)
THEOREM SuccessIsConnected == Spec => []SuccessMeansConnected
<1>1. Init => ConnectedInv
  BY DEF Init, ConnectedInv, SuccessMeansConnected
<1>2. TypeOK /\ ConnectedInv /\ [Next]_vars => ConnectedInv'
  BY ConnectedNext
<1>3. ConnectedInv => SuccessMeansConnected
  BY DEF ConnectedInv
<1> QED BY <1>1, <1>2, <1>3, TypeCorrect, PTL DEF Spec

-----------------------------------------------------------------------------
(* Every step keeps what was waited, and what the loop may still wait,     *)
(* within the timeout and the set-back, or one timeout more for TLS.       *)
LEMMA WaitNext ==
  ASSUME TypeOK, WaitInv, [Next]_vars
  PROVE  WaitInv'
<1> USE ConnectAssumption DEF TypeOK, WaitInv, WaitsWithinTimeout, history
<1>1. CASE Config
  BY <1>1 DEF Config, SetResult
<1>2. CASE ConnectCall
  BY <1>2 DEF ConnectCall, ReturnFromISocket, SetResult
<1>3. CASE LoopHead
  BY <1>3 DEF LoopHead, ReturnFromISocket, SetResult
<1>4. CASE LoopSelect
  BY <1>4 DEF LoopSelect
<1>5. CASE SoError
  BY <1>5 DEF SoError, ReturnFromISocket, SetResult
<1>6. CASE SslConnect
  BY <1>6 DEF SslConnect
<1>7. CASE SslSelect
  BY <1>7 DEF SslSelect
<1>8. CASE Network
  BY <1>8 DEF Network
<1>9. CASE Tick
  BY <1>9 DEF Tick
<1>10. CASE SetClock
  BY <1>10 DEF SetClock
<1>11. CASE UNCHANGED vars
  BY <1>11 DEF vars
<1> QED BY <1>1, <1>2, <1>3, <1>4, <1>5, <1>6, <1>7, <1>8, <1>9, <1>10, <1>11
       DEF Next, Caller

(* The retries of the loop wait no longer in all than the timeout and what *)
(* the clock was set back, however often they are interrupted, and the TLS *)
(* handshake adds at most one timeout to that.                             *)
THEOREM WaitBounded == Spec => []WaitsWithinTimeout
<1>1. Init => WaitInv
  BY ConnectAssumption DEF Init, WaitInv, WaitsWithinTimeout
<1>2. TypeOK /\ WaitInv /\ [Next]_vars => WaitInv'
  BY WaitNext
<1>3. WaitInv => WaitsWithinTimeout
  BY DEF WaitInv
<1> QED BY <1>1, <1>2, <1>3, TypeCorrect, PTL DEF Spec
=============================================================================
