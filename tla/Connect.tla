------------------------------- MODULE Connect -------------------------------
(***************************************************************************)
(* One call of socket_->connect(address, timeout): ISocket::connect with   *)
(* config() and checkConnectResult(), and the TLS handshake that           *)
(* TSLSocket::connect adds. The address Request passes is never null and   *)
(* of the socket's own family, so the two early returns about it are not   *)
(* reached. The kernel moves the TCP connection on between the steps. The  *)
(* loop measures its time with system_clock, which may be set.             *)
(***************************************************************************)
EXTENDS HttpTypes

CONSTANTS
  Kinds,       \* the socket classes tried: "plain", "tls"
  Timeout,     \* the argument timeout, in ticks
  MaxSetBack   \* bound: ticks by which the clock is set back during one call

ASSUME ConnectAssumption ==
  /\ Kinds \subseteq {"plain", "tls"}
  /\ Timeout \in Nat \ {0}
  /\ MaxSetBack \in Nat

VARIABLES
  pc,      \* next step of the call
  kind,    \* class of the socket
  created, \* whether socket() gave the constructor a descriptor
  fd,      \* socket_ # kInvalidSocket
  code,    \* result.resultCode
  errno,   \* result.errorCode: "zero", "EINTR", "EINPROGRESS", a TLS want, "other"
  link,    \* the TCP connection
  remain,  \* expiredTime - Time::nowTime(), once the loop is entered
  budget,  \* the part of its timeout the select under way has left
  waited,  \* history: ticks spent waiting in select
  setBack, \* history: ticks by which the clock was set back
  gaveUp   \* history: the loop ended with a select that was not ready

vars == <<pc, kind, created, fd, code, errno, link, remain, budget,
          waited, setBack, gaveUp>>

history == <<waited, setBack, gaveUp>>

WantCodes == {"SSL_ERROR_WANT_READ", "SSL_ERROR_WANT_WRITE"}
ErrorCodes == {"zero", "EINTR", "EINPROGRESS", "other"} \cup WantCodes

Init ==
  /\ pc = "config"
  /\ kind \in Kinds
  /\ created \in BOOLEAN
  /\ fd = created
  /\ code = "Success"
  /\ errno = "zero"
  /\ link = "idle"
  /\ remain = 0
  /\ budget = 0
  /\ waited = 0
  /\ setBack = 0
  /\ gaveUp = FALSE

SetResult(c, e) == code' = c /\ errno' = e

(* ISocket::connect returns: to the caller, or to TSLSocket::connect when  *)
(* that has a handshake to do.                                             *)
ReturnFromISocket(c, e) ==
  /\ SetResult(c, e)
  /\ pc' = IF kind = "tls" /\ c = "Success" THEN "sslConnect" ELSE "returned"

(* checkNeedRetry *)
CheckNeedRetry(e) == e \in {"EINTR", "EINPROGRESS"}

-----------------------------------------------------------------------------
(* ISocket::config: no descriptor, a failing fcntl, or success. *)
Config ==
  /\ pc = "config"
  /\ \/ /\ ~fd
        /\ SetResult("CreateSocketFailed", "other")
        /\ pc' = "returned"
        /\ UNCHANGED fd
     \/ /\ fd
        /\ \E c \in ConfigFailures : SetResult(c, "other")
        /\ pc' = "returned"
        /\ fd' = FALSE
     \/ /\ fd
        /\ pc' = "connect"
        /\ UNCHANGED <<fd, code, errno>>
  /\ UNCHANGED <<kind, created, link, remain, budget, history>>

(* Mutant of ConnectCall: EINPROGRESS is taken for a success. *)
ConnectCallTrusting ==
  /\ pc = "connect"
  /\ link' = "connecting"
  /\ ReturnFromISocket("Success", "zero")
  /\ UNCHANGED <<kind, created, fd, remain, budget, history>>

(* The system call connect on a non-blocking socket, and the early returns *)
(* of checkConnectResult: established at once, under way, interrupted (the *)
(* kernel goes on connecting), or failed. The loop starts with expiredTime *)
(* one timeout away.                                                       *)
ConnectCall ==
  /\ pc = "connect"
  /\ \/ /\ link' = "established"
        /\ ReturnFromISocket("Success", "zero")
        /\ UNCHANGED remain
     \/ /\ link' = "connecting"
        /\ \E e \in {"EINTR", "EINPROGRESS"} : SetResult("ConnectGenericError", e)
        /\ remain' = Timeout
        /\ pc' = "loop"
     \/ /\ ReturnFromISocket("ConnectGenericError", "other")
        /\ UNCHANGED <<link, remain>>
  /\ UNCHANGED <<kind, created, fd, budget, history>>

(* Mutant of LoopHead: the test for a negative remainTime is missing. *)
LoopHeadUntested ==
  /\ pc = "loop"
  /\ budget' = remain
  /\ pc' = "select"
  /\ UNCHANGED <<kind, created, fd, code, errno, link, remain, history>>

(* Mutant of LoopHead: every turn waits for the whole timeout again. *)
LoopHeadRestarts ==
  /\ pc = "loop"
  /\ budget' = Timeout
  /\ pc' = "select"
  /\ UNCHANGED <<kind, created, fd, code, errno, link, remain, history>>

(* The head of the loop in checkConnectResult: remainTime, or a timeout    *)
(* once it is negative.                                                    *)
LoopHead ==
  /\ pc = "loop"
  /\ IF remain < 0
     THEN ReturnFromISocket("Timeout", "zero") /\ UNCHANGED budget
     ELSE budget' = remain /\ pc' = "select" /\ UNCHANGED <<code, errno>>
  /\ UNCHANGED <<kind, created, fd, link, remain, history>>

(* What select returns, for the loop and for the handshake: ready, out of  *)
(* time, interrupted or failed. A socket that is not connecting any more   *)
(* is writable, and one that failed is readable too.                       *)
Select ==
  \/ link # "connecting" /\ SetResult("Success", "zero")
  \/ budget = 0 /\ SetResult("Timeout", "zero")
  \/ SetResult("Retry", "EINTR")
  \/ SetResult("Failed", "other")

LoopSelect ==
  /\ pc = "select"
  /\ Select
  /\ pc' = IF code' # "Success" /\ CheckNeedRetry(errno') THEN "loop" ELSE "soError"
  /\ gaveUp' = (code' \in {"Timeout", "Failed"})
  /\ UNCHANGED <<kind, created, fd, link, remain, budget, waited, setBack>>

(* Mutant of SoError: the pending error is read and not looked at. *)
SoErrorIgnored ==
  /\ pc = "soError"
  /\ ReturnFromISocket("Success", "zero")
  /\ UNCHANGED <<kind, created, fd, link, remain, budget, history>>

(* getsockopt(SO_ERROR), whose answer replaces whatever select returned. *)
SoError ==
  /\ pc = "soError"
  /\ \/ ReturnFromISocket("ConnectGenericError", "other")
     \/ link # "idle" /\ ReturnFromISocket("Success", "zero")
  /\ UNCHANGED <<kind, created, fd, link, remain, budget, history>>

(* SSLManager::connect, one SSL_connect, and the test of TSLSocket::connect*)
(* on its error, which waits once more for the whole timeout.              *)
SslConnect ==
  /\ pc = "sslConnect"
  /\ \/ /\ link = "established"
        /\ SetResult("Success", "zero")
        /\ pc' = "returned"
        /\ UNCHANGED budget
     \/ /\ SetResult("Disconnected", "zero")
        /\ pc' = "returned"
        /\ UNCHANGED budget
     \/ /\ SetResult("Failed", "other")
        /\ pc' = "returned"
        /\ UNCHANGED budget
     \/ /\ \E e \in WantCodes : SetResult("Failed", e)
        /\ budget' = Timeout
        /\ pc' = "sslSelect"
  /\ UNCHANGED <<kind, created, fd, link, remain, history>>

SslSelect ==
  /\ pc = "sslSelect"
  /\ Select
  /\ pc' = "returned"
  /\ UNCHANGED <<kind, created, fd, link, remain, budget, history>>

-----------------------------------------------------------------------------
(* The kernel: the handshake of TCP succeeds, or is refused; an            *)
(* established connection is reset.                                        *)
Network ==
  /\ pc # "returned"
  /\ \/ link = "connecting" /\ link' \in {"established", "idle"}
     \/ link = "established" /\ link' = "idle"
  /\ UNCHANGED <<pc, kind, created, fd, code, errno, remain, budget, history>>

(* Time passes. Inside a select it counts as waiting until the timeout of  *)
(* that select is over; what passes after that, or between two calls, is   *)
(* the scheduler's. Once the loop's time is over by a tick, more makes no  *)
(* difference.                                                             *)
Tick ==
  /\ pc \in {"loop", "select", "sslSelect"}
  /\ remain' = IF remain >= 0 THEN remain - 1 ELSE remain
  /\ IF pc # "loop" /\ budget > 0
     THEN budget' = budget - 1 /\ waited' = waited + 1
     ELSE UNCHANGED <<budget, waited>>
  /\ UNCHANGED <<pc, kind, created, fd, code, errno, link, setBack, gaveUp>>

(* system_clock is set while the loop is at work: back, which puts the     *)
(* expired time farther away, or ahead. A select under way keeps the       *)
(* timeout it was given.                                                   *)
SetClock ==
  /\ pc \in {"loop", "select"}
  /\ \/ /\ remain' \in remain + 1 .. remain + (MaxSetBack - setBack)
        /\ setBack' = setBack + (remain' - remain)
     \/ /\ remain' \in -1 .. remain - 1
        /\ UNCHANGED setBack
  /\ UNCHANGED <<pc, kind, created, fd, code, errno, link, budget, waited, gaveUp>>

Caller == Config \/ ConnectCall \/ LoopHead \/ LoopSelect \/ SoError
          \/ SslConnect \/ SslSelect

Next == Caller \/ Network \/ Tick \/ SetClock

Spec == Init /\ [][Next]_vars

(* The operating system runs the thread and the clock. *)
FairSpec == Spec /\ WF_vars(Caller) /\ WF_vars(Tick)

-----------------------------------------------------------------------------
(* Properties *)

TypeOK ==
  /\ pc \in {"config", "connect", "loop", "select", "soError", "sslConnect",
             "sslSelect", "returned"}
  /\ kind \in Kinds
  /\ created \in BOOLEAN
  /\ fd \in BOOLEAN
  /\ code \in ResultCodes
  /\ errno \in ErrorCodes
  /\ link \in Links
  /\ remain \in -1 .. Timeout + setBack
  /\ budget \in 0 .. Timeout + MaxSetBack
  /\ waited \in Nat
  /\ setBack \in 0..MaxSetBack
  /\ gaveUp \in BOOLEAN

(***************************************************************************)
(* Every way through connect ends in one of the outcomes the module        *)
(* Request takes for the effect of the call: a refused connection is never *)
(* a success of a plain socket, only the handshake returns Failed, Retry   *)
(* or Disconnected, and the descriptor is closed exactly when config()     *)
(* failed.                                                                 *)
(***************************************************************************)
OutcomeAllowed ==
  pc = "returned" =>
    [code |-> code, fd |-> fd, link |-> link] \in ConnectOutcomes(kind, created)

(***************************************************************************)
(* The retries of checkConnectResult wait no longer than the timeout they  *)
(* were given, however often select is interrupted: each turn computes the *)
(* time that remains anew. A clock set back meanwhile lengthens the wait   *)
(* by as much as it was set back and no more. The handshake of a TLS       *)
(* socket may wait for the whole timeout once more.                        *)
(***************************************************************************)
WaitsWithinTimeout ==
  waited <= setBack + (IF kind = "tls" THEN 2 * Timeout ELSE Timeout)

(***************************************************************************)
(* A successful connect of a plain socket means that the connection is     *)
(* established ("Callback when the connection is established", the README  *)
(* says of onConnected), whatever the interrupts, the clock and the peer   *)
(* did. The one exception: the loop ends with a select that timed out or   *)
(* failed, and getsockopt(SO_ERROR) overwrites that result.                *)
(***************************************************************************)
SuccessMeansConnected ==
  pc = "returned" /\ code = "Success" /\ kind = "plain" /\ ~gaveUp
    => link = "established"

(* connect returns: neither interrupts nor a silent peer hold it for ever, *)
(* and a clock that is set back only so far does not either.               *)
Returns == <>(pc = "returned")
=============================================================================
