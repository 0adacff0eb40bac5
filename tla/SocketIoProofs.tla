--------------------------- MODULE SocketIoProofs ---------------------------
(***************************************************************************)
(* Proofs about SocketIo, for every limit of attempts: the codes that      *)
(* Request assumes of send and receive, that no retry repeats what was     *)
(* done, and that the retries come to an end.                              *)
(***************************************************************************)
EXTENDS SocketIo, TLAPS

(* A call still under way has attempts left, has moved nothing, and has    *)
(* seen no fatal error but while it had to wait.                           *)
IoInv ==
  /\ pc = "attempt" =>
       /\ retryCount < MaxRetryCount
       /\ moved = 0
       /\ size = 0
       /\ kind = "plain" => code = "Success"
       /\ lost > 0 => isNeedRetry
  /\ lost <= retryCount
  /\ isNeedRetry => kind = "tls"
  /\ ssl => kind = "tls"
  /\ OutcomeAllowed
  /\ MovedOnce
  /\ FatalEnds

(* A call starts with every variable of its type, and with nothing done. *)
LEMMA IoInit == Init => TypeOK /\ IoInv
<1> SUFFICES ASSUME Init PROVE TypeOK /\ IoInv
  OBVIOUS
<1>1. TypeOK
  <2>1. ssl \in BOOLEAN /\ isNeedRetry \in BOOLEAN
    BY DEF Init
  <2> QED BY <2>1, IoAssumption DEF Init, TypeOK, ResultCodes
<1>2. IoInv
  <2>1. OutcomeAllowed /\ MovedOnce /\ FatalEnds
    BY DEF Init, OutcomeAllowed, MovedOnce, FatalEnds
  <2> QED BY <2>1, IoAssumption DEF Init, IoInv
<1> QED BY <1>1, <1>2

(* Every attempt keeps the types and the account of what was moved: only   *)
(* an attempt that failed is followed by another.                          *)
LEMMA IoNext == TypeOK /\ IoInv /\ [Next]_vars => TypeOK' /\ IoInv'
<1> SUFFICES ASSUME TypeOK, IoInv, [Next]_vars PROVE TypeOK' /\ IoInv'
  OBVIOUS
<1> USE IoAssumption
    DEF TypeOK, IoInv, OutcomeAllowed, MovedOnce, FatalEnds, SendFailures, ReceiveFailures,
        ResultCodes, call
<1>1. CASE PlainMoves
  BY <1>1 DEF PlainMoves
<1>2. CASE PlainClosed
  BY <1>2 DEF PlainClosed
<1>3. CASE PlainFails
  <2>1. CASE PlainAgain
    BY <1>3, <2>1 DEF PlainFails, PlainAgain
  <2>2. CASE ~PlainAgain
    <3>1. \/ PlainFailure(errno') \in SendFailures
          \/ op = "receive" /\ PlainFailure(errno') \in ReceiveFailures \cup {"Retry"}
      BY <1>3 DEF PlainFails, PlainFailure
    <3> QED BY <1>3, <2>2, <3>1 DEF PlainFails
  <2> QED BY <2>1, <2>2
<1>4. CASE NoSsl
  BY <1>4 DEF NoSsl
<1>5. CASE SslMoves
  BY <1>5 DEF SslMoves
<1>6. CASE SslClosed
  BY <1>6 DEF SslClosed
<1>7. CASE SslFails
  <2>1. CASE retryCount' >= MaxRetryCount
    BY <1>7, <2>1 DEF SslFails
  <2>2. CASE ~(retryCount' >= MaxRetryCount) /\ (isNeedRetry \/ errno' = "want")
    <3>1. isNeedRetry' /\ pc' = "attempt" /\ isNeedRetry' \in BOOLEAN
      BY <1>7, <2>2 DEF SslFails
    <3> QED BY <1>7, <2>2, <3>1 DEF SslFails
  <2>3. CASE ~(retryCount' >= MaxRetryCount) /\ ~(isNeedRetry \/ errno' = "want")
    <3>1. ~isNeedRetry' /\ pc' = "returned" /\ isNeedRetry' \in BOOLEAN
      BY <1>7, <2>3 DEF SslFails
    <3>2. errno' = "other" /\ lost = 0 /\ lost' = 1
      BY <1>7, <2>3 DEF SslFails
    <3> QED BY <1>7, <2>3, <3>1, <3>2 DEF SslFails
  <2> QED BY <2>1, <2>2, <2>3
<1>8. CASE UNCHANGED vars
  BY <1>8 DEF vars
<1> QED BY <1>1, <1>2, <1>3, <1>4, <1>5, <1>6, <1>7, <1>8 DEF Next

(* The types and the account hold throughout a call. *)
THEOREM IoInvariant == Spec => [](TypeOK /\ IoInv)
  BY IoInit, IoNext, PTL DEF Spec

(* No call attempts more often than the limit allows, and every variable   *)
(* keeps its type.                                                         *)
THEOREM TypeCorrect == Spec => []TypeOK
  BY IoInvariant, PTL

(* send and receive return the codes that Request handles, and no other:   *)
(* the interface between the two modules.                                  *)
THEOREM OutcomesAllowed == Spec => []OutcomeAllowed
<1>1. TypeOK /\ IoInv => OutcomeAllowed
  BY DEF IoInv
<1> QED BY <1>1, IoInvariant, PTL

(* No byte is sent twice or read and lost, however many attempts were      *)
(* interrupted before the one that moved it.                               *)
THEOREM NothingRepeated == Spec => []MovedOnce
<1>1. TypeOK /\ IoInv => MovedOnce
  BY DEF IoInv
<1> QED BY <1>1, IoInvariant, PTL

(* A fatal error ends the call at once, unless a TLS call had to wait      *)
(* before it.                                                              *)
THEOREM FatalErrorsEnd == Spec => []FatalEnds
<1>1. TypeOK /\ IoInv => FatalEnds
  BY DEF IoInv
<1> QED BY <1>1, IoInvariant, PTL
-----------------------------------------------------------------------------
(* What makes a call come to an end: the content of Returns *)

(* The attempts the call may still make. *)
Left == IF pc = "attempt" THEN MaxRetryCount - retryCount ELSE 0

AttemptsRunOut == [][Left' \in Nat /\ Left' < Left]_vars

(* A returned call takes no step, and every attempt, however it ends, uses *)
(* up one of those allowed: the retries of EINTR, WANT_READ and WANT_WRITE *)
(* never renew the count, and only the scheduling of the thread is left    *)
(* for Returns to ask for.                                                 *)
THEOREM AttemptsAreBounded == Spec => AttemptsRunOut
<1>1. TypeOK /\ IoInv /\ [Next]_vars => [Left' \in Nat /\ Left' < Left]_vars
  <2> SUFFICES ASSUME TypeOK, IoInv, Next PROVE Left' \in Nat /\ Left' < Left
    OBVIOUS
  <2>1. pc = "attempt" /\ retryCount \in Nat /\ retryCount < MaxRetryCount
    BY DEF Next, TypeOK, IoInv, PlainMoves, PlainClosed, PlainFails, NoSsl, SslMoves,
           SslClosed, SslFails
  <2>2. \/ pc' = "returned"
        \/ /\ pc' = "attempt"
           /\ retryCount' = retryCount + 1
           /\ retryCount' < MaxRetryCount
    <3>1. CASE PlainFails
      BY <2>1, <3>1 DEF PlainFails, PlainAgain
    <3>2. CASE SslFails
      <4>1. retryCount' >= MaxRetryCount => pc' = "returned"
        BY <3>2 DEF SslFails
      <4>2. pc' \in {"attempt", "returned"} /\ retryCount' = retryCount + 1
        BY <2>1, <3>2 DEF SslFails
      <4> QED BY <2>1, <4>1, <4>2, IoAssumption
    <3> QED BY <3>1, <3>2 DEF Next, PlainMoves, PlainClosed, NoSsl, SslMoves, SslClosed
  <2> QED BY <2>1, <2>2, IoAssumption DEF Left
<1> QED BY <1>1, IoInvariant, PTL DEF Spec, AttemptsRunOut
=============================================================================
