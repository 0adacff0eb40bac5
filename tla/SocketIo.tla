------------------------------ MODULE SocketIo ------------------------------
(***************************************************************************)
(* One call of socket_->send(data) or socket_->receive(): the loop around  *)
(* the system call in PlainSocket, and the one around SSL_write or         *)
(* SSL_read in SSLManager, which TSLSocket calls. An attempt is one turn   *)
(* of the loop; the kernel or OpenSSL decides how it ends.                 *)
(***************************************************************************)
EXTENDS HttpTypes

CONSTANTS
  MaxRetryCount,  \* kMaxRetryCount (1000)
  Units           \* bound: units to send, or that a read has room for

ASSUME IoAssumption ==
  /\ MaxRetryCount \in Nat \ {0}
  /\ Units \in Nat \ {0}

VARIABLES
  pc,           \* attempt or returned
  kind,         \* class of the socket: plain, tls
  op,           \* send or receive
  ssl,          \* whether a TLS socket got its SSL object
  retryCount,   \* retryCount
  isNeedRetry,  \* isNeedRetry
  code,         \* result.resultCode
  errno,        \* result.errorCode: "zero", "EINTR", "EAGAIN", "want", "other"
  size,         \* sendSize or data->length
  moved,        \* history: units the attempts moved between us and the peer
  lost          \* history: attempts that failed for good

vars == <<pc, kind, op, ssl, retryCount, isNeedRetry, code, errno, size, moved, lost>>

call == <<kind, op, ssl>>

Init ==
  /\ pc = "attempt"
  /\ kind \in {"plain", "tls"}
  /\ op \in {"send", "receive"}
  /\ ssl \in BOOLEAN
  /\ ssl => kind = "tls"
  /\ retryCount = 0
  /\ isNeedRetry = FALSE
  /\ code = "Success"
  /\ errno = "zero"
  /\ size = 0
  /\ moved = 0
  /\ lost = 0

-----------------------------------------------------------------------------
(* PlainSocket *)

(* Mutant of PlainAgain: one attempt too many. *)
PlainAgainOneMore == retryCount' <= MaxRetryCount /\ errno' = "EINTR"

(* Whether the loop goes round again, with what this turn leaves behind. *)
PlainAgain == retryCount' < MaxRetryCount /\ errno' = "EINTR"

(* Mutant of PlainMoves: send's errorCode keeps its value from before. *)
PlainMovesStale ==
  /\ pc = "attempt"
  /\ kind = "plain"
  /\ retryCount' = retryCount + 1
  /\ \E n \in 1..Units : size' = n /\ moved' = moved + n
  /\ UNCHANGED errno
  /\ pc' = IF op = "send" /\ PlainAgain THEN "attempt" ELSE "returned"
  /\ UNCHANGED <<call, isNeedRetry, code, lost>>

(* The system call moves bytes. It clears errorCode, which ends the loop   *)
(* of send; the one of receive is left with break.                         *)
PlainMoves ==
  /\ pc = "attempt"
  /\ kind = "plain"
  /\ retryCount' = retryCount + 1
  /\ \E n \in 1..Units : size' = n /\ moved' = moved + n
  /\ errno' = "zero"
  /\ pc' = "returned"
  /\ UNCHANGED <<call, isNeedRetry, code, lost>>

(* recv returns 0: the peer has closed. send never does for data.          *)
PlainClosed ==
  /\ pc = "attempt"
  /\ kind = "plain"
  /\ op = "receive"
  /\ retryCount' = retryCount + 1
  /\ errno' = "zero"
  /\ code' = "Disconnected"
  /\ pc' = "returned"
  /\ UNCHANGED <<call, isNeedRetry, size, moved, lost>>

(* Mutant of PlainFailure: send tells EAGAIN as receive does. *)
PlainFailureShared(e) ==
  CASE e = "EINTR"  -> "RetryReachMaxCount"
    [] e = "EAGAIN" -> "Retry"
    [] OTHER        -> "Failed"

(* The result code of a last attempt that failed. Only receive tells       *)
(* EAGAIN from the other errors.                                           *)
PlainFailure(e) ==
  CASE e = "EINTR"                       -> "RetryReachMaxCount"
    [] e = "EAGAIN" /\ op = "receive" -> "Retry"
    [] OTHER                             -> "Failed"

(* Mutant of PlainFails: any error is tried again. *)
PlainFailsRetried ==
  /\ pc = "attempt"
  /\ kind = "plain"
  /\ retryCount' = retryCount + 1
  /\ errno' \in {"EINTR", "EAGAIN", "other"}
  /\ lost' = lost + (IF errno' = "EINTR" THEN 0 ELSE 1)
  /\ IF retryCount' < MaxRetryCount
     THEN UNCHANGED <<pc, code>>
     ELSE pc' = "returned" /\ code' = PlainFailure(errno')
  /\ UNCHANGED <<call, isNeedRetry, size, moved>>

(* The system call fails. EINTR is tried again, as often as is allowed. *)
PlainFails ==
  /\ pc = "attempt"
  /\ kind = "plain"
  /\ retryCount' = retryCount + 1
  /\ errno' \in {"EINTR", "EAGAIN", "other"}
  /\ lost' = lost + (IF errno' = "EINTR" THEN 0 ELSE 1)
  /\ IF PlainAgain
     THEN UNCHANGED <<pc, code>>
     ELSE pc' = "returned" /\ code' = PlainFailure(errno')
  /\ UNCHANGED <<call, isNeedRetry, size, moved>>

-----------------------------------------------------------------------------
(* SSLManager, and the test of sslPtr in front of it *)

NoSsl ==
  /\ pc = "attempt"
  /\ kind = "tls"
  /\ ~ssl
  /\ code' = "Failed"
  /\ pc' = "returned"
  /\ UNCHANGED <<call, retryCount, isNeedRetry, errno, size, moved, lost>>

SslMoves ==
  /\ pc = "attempt"
  /\ ssl
  /\ retryCount' = retryCount + 1
  /\ \E n \in 1..Units : size' = n /\ moved' = moved + n
  /\ code' = "Success"
  /\ errno' = "zero"
  /\ pc' = "returned"
  /\ UNCHANGED <<call, isNeedRetry, lost>>

SslClosed ==
  /\ pc = "attempt"
  /\ ssl
  /\ retryCount' = retryCount + 1
  /\ code' = "Disconnected"
  /\ pc' = "returned"
  /\ UNCHANGED <<call, isNeedRetry, errno, size, moved, lost>>

(* Mutant of SslFails: the count of attempts is not looked at. *)
SslFailsUncounted ==
  /\ pc = "attempt"
  /\ ssl
  /\ retryCount' = IF retryCount < MaxRetryCount THEN retryCount + 1 ELSE retryCount
  /\ errno' \in {"want", "other"}
  /\ lost' = IF errno' = "other" /\ lost < MaxRetryCount THEN lost + 1 ELSE lost
  /\ code' = "Failed"
  /\ isNeedRetry' = (isNeedRetry \/ errno' = "want")
  /\ pc' = IF isNeedRetry' THEN "attempt" ELSE "returned"
  /\ UNCHANGED <<call, size, moved>>

(* SSL_write or SSL_read fails: out of attempts, or a turn that sets       *)
(* isNeedRetry and never clears it, so that after one WANT_READ or         *)
(* WANT_WRITE every error is tried again.                                  *)
SslFails ==
  /\ pc = "attempt"
  /\ ssl
  /\ retryCount' = retryCount + 1
  /\ errno' \in {"want", "other"}
  /\ lost' = lost + (IF errno' = "other" THEN 1 ELSE 0)
  /\ IF retryCount' >= MaxRetryCount
     THEN /\ code' = "RetryReachMaxCount"
          /\ pc' = "returned"
          /\ UNCHANGED isNeedRetry
     ELSE /\ code' = "Failed"
          /\ isNeedRetry' = (isNeedRetry \/ errno' = "want")
          /\ pc' = IF isNeedRetry' THEN "attempt" ELSE "returned"
  /\ UNCHANGED <<call, size, moved>>

Next ==
  \/ PlainMoves \/ PlainClosed \/ PlainFails
  \/ NoSsl \/ SslMoves \/ SslClosed \/ SslFails

Spec == Init /\ [][Next]_vars

(* The system calls do not block: the descriptor is non-blocking. *)
FairSpec == Spec /\ WF_vars(Next)

-----------------------------------------------------------------------------
(* Properties *)

TypeOK ==
  /\ pc \in {"attempt", "returned"}
  /\ kind \in {"plain", "tls"}
  /\ op \in {"send", "receive"}
  /\ ssl \in BOOLEAN
  /\ retryCount \in 0..MaxRetryCount
  /\ isNeedRetry \in BOOLEAN
  /\ code \in ResultCodes
  /\ errno \in {"zero", "EINTR", "EAGAIN", "want", "other"}
  /\ size \in 0..Units
  /\ moved \in Nat
  /\ lost \in 0..MaxRetryCount

(***************************************************************************)
(* Whatever the attempts met, the call returns what Request takes for its  *)
(* effect: a success with something moved, or one of the codes its steps   *)
(* handle. Retry, which Request answers by reading again, comes from       *)
(* PlainSocket::receive alone.                                             *)
(***************************************************************************)
OutcomeAllowed ==
  pc = "returned" =>
    \/ code = "Success" /\ size > 0
    \/ op = "send" /\ code \in SendFailures
    \/ op = "receive" /\ code \in ReceiveFailures \cup {"Disconnected"}
    \/ op = "receive" /\ code = "Retry" /\ kind = "plain"

(***************************************************************************)
(* What the caller is told was moved is what was moved: a loop that went   *)
(* on after a success, for an error code left from an attempt before it,   *)
(* would send data twice or lose data it had read.                         *)
(***************************************************************************)
MovedOnce ==
  pc = "returned" => moved = IF code = "Success" THEN size ELSE 0

(***************************************************************************)
(* An error that is not a reason to try again ends the call at once: in    *)
(* PlainSocket always, in SSLManager unless the call had to wait before.   *)
(***************************************************************************)
FatalEnds ==
  lost > 0 /\ ~isNeedRetry => lost = 1 /\ pc = "returned"

(* However often the attempts are interrupted, the call returns. *)
Returns == <>(pc = "returned")
=============================================================================
