----------------------------- MODULE TlsContext -----------------------------
(***************************************************************************)
(* The SSL context all requests share: SSLManager::shareContext, which     *)
(* makes it under std::call_once and hands it to the application's hook,   *)
(* and the constructor and handshake of the TSLSocket that use it. Every   *)
(* hop of an https request, on the worker of that request, makes a socket. *)
(***************************************************************************)
EXTENDS Naturals

CONSTANTS
  Threads,    \* the workers
  Hooks,      \* what the application's hook may do: "configure", "reset", "throw"
  MaxSockets  \* bound: TLS sockets made in all

ASSUME TlsAssumption ==
  /\ Hooks \subseteq {"configure", "reset", "throw"}
  /\ MaxSockets \in Nat

VARIABLES
  pc,          \* next step of each worker
  ssl,         \* sslPtr of its socket: "null", or the context it was made from
  flag,        \* the once_flag: "unset", "running", "set"
  contextPtr,  \* the shared context: "null", "raw" as made, "configured"
  hook,        \* HttpsHelper::configContext: "none" or what it does
  terminated,  \* an exception met a noexcept function: std::terminate
  made,        \* history: contexts made
  applied,     \* history: the hook that call_once saw, "none" before
  refused,     \* history: SSL_new failed at least once
  nullUsed,    \* history: SSL_connect was given a null pointer
  sockets      \* history: TLS sockets made

shared == <<flag, contextPtr, hook, made, applied>>
vars == <<pc, ssl, shared, terminated, refused, nullUsed, sockets>>

Contexts == {"null", "raw", "configured"}
Steps == {"idle", "callOnce", "newContext", "configure", "newSsl", "connect"}

Init ==
  /\ pc = [t \in Threads |-> "idle"]
  /\ ssl = [t \in Threads |-> "null"]
  /\ flag = "unset"
  /\ contextPtr = "null"
  /\ hook = "none"
  /\ terminated = FALSE
  /\ made = 0
  /\ applied = "none"
  /\ refused = FALSE
  /\ nullUsed = FALSE
  /\ sockets = 0

GoTo(t, step) == pc' = [pc EXCEPT ![t] = step]

-----------------------------------------------------------------------------
(* A hop of t constructs its TSLSocket, whose sslPtr comes from create().  *)
Construct(t) ==
  /\ pc[t] = "idle"
  /\ sockets < MaxSockets
  /\ sockets' = sockets + 1
  /\ GoTo(t, "callOnce")
  /\ UNCHANGED <<ssl, shared, terminated, refused, nullUsed>>

(* Mutant of CallOnce: a flag tested and set in place of call_once.        *)
(* Whoever finds it set goes on at once.                                   *)
CallOnceUnwaited(t) ==
  /\ pc[t] = "callOnce"
  /\ IF flag = "unset"
     THEN flag' = "running" /\ GoTo(t, "newContext")
     ELSE GoTo(t, "newSsl") /\ UNCHANGED flag
  /\ UNCHANGED <<ssl, contextPtr, hook, terminated, made, applied, refused, nullUsed, sockets>>

(* Mutant of CallOnce: no call_once, each caller makes a context unless    *)
(* one is finished.                                                        *)
CallOnceUnguarded(t) ==
  /\ pc[t] = "callOnce"
  /\ IF flag = "set"
     THEN GoTo(t, "newSsl") /\ UNCHANGED flag
     ELSE flag' = "running" /\ GoTo(t, "newContext")
  /\ UNCHANGED <<ssl, contextPtr, hook, terminated, made, applied, refused, nullUsed, sockets>>

(* std::call_once: the first caller runs the function, those that come     *)
(* while it runs wait for it, and later ones return.                       *)
CallOnce(t) ==
  /\ pc[t] = "callOnce"
  /\ \/ flag = "unset" /\ flag' = "running" /\ GoTo(t, "newContext")
     \/ flag = "set" /\ GoTo(t, "newSsl") /\ UNCHANGED flag
  /\ UNCHANGED <<ssl, contextPtr, hook, terminated, made, applied, refused, nullUsed, sockets>>

(* SSL_CTX_new. When it fails the exception leaves call_once and           *)
(* shareContext and meets create(), which is noexcept.                     *)
NewContext(t) ==
  /\ pc[t] = "newContext"
  /\ \/ /\ contextPtr' = "raw"
        /\ made' = made + 1
        /\ GoTo(t, "configure")
        /\ UNCHANGED terminated
     \/ /\ terminated' = TRUE
        /\ UNCHANGED <<contextPtr, made, pc>>
  /\ UNCHANGED <<ssl, flag, hook, applied, refused, nullUsed, sockets>>

(* Mutant of Configure: the flag is set, and the context shared, before    *)
(* the hook has been called.                                               *)
ConfigureLate(t) ==
  /\ pc[t] = "configure"
  /\ flag' = "set"
  /\ IF flag = "set"
     THEN applied' = hook /\ contextPtr' = "configured" /\ GoTo(t, "newSsl")
     ELSE UNCHANGED <<applied, contextPtr, pc>>
  /\ UNCHANGED <<ssl, hook, terminated, made, refused, nullUsed, sockets>>

(* Mutant of Configure: call_once ends without releasing those who wait.   *)
ConfigureKeepsFlag(t) ==
  /\ pc[t] = "configure"
  /\ applied' = hook
  /\ GoTo(t, "newSsl")
  /\ UNCHANGED <<ssl, flag, contextPtr, hook, terminated, made, refused, nullUsed, sockets>>

(* The hook, if there is one, gets the unique_ptr itself: it may configure *)
(* the context, reset the pointer, or throw out of create(). Then          *)
(* call_once is over.                                                      *)
Configure(t) ==
  /\ pc[t] = "configure"
  /\ applied' = hook
  /\ IF hook = "throw"
     THEN terminated' = TRUE /\ UNCHANGED <<pc, flag, contextPtr>>
     ELSE /\ contextPtr' = CASE hook = "configure" -> "configured"
                             [] hook = "reset" -> "null"
                             [] OTHER -> contextPtr
          /\ flag' = "set"
          /\ GoTo(t, "newSsl")
          /\ UNCHANGED terminated
  /\ UNCHANGED <<ssl, hook, made, refused, nullUsed, sockets>>

(* The rest of create(): SSL_new of the shared context, which gives null   *)
(* for a null context or when it fails.                                    *)
NewSsl(t) ==
  /\ pc[t] = "newSsl"
  /\ \/ ssl' = [ssl EXCEPT ![t] = contextPtr] /\ UNCHANGED refused
     \/ ssl' = [ssl EXCEPT ![t] = "null"] /\ refused' = TRUE
  /\ GoTo(t, "connect")
  /\ UNCHANGED <<shared, terminated, nullUsed, sockets>>

(* TSLSocket::connect. A TCP connection that failed is returned at once;   *)
(* else SSLManager::connect passes sslPtr to SSL_connect, whatever it is.  *)
(* The socket ends with the hop.                                           *)
Handshake(t) ==
  /\ pc[t] = "connect"
  /\ \/ UNCHANGED nullUsed
     \/ nullUsed' = (nullUsed \/ ssl[t] = "null")
  /\ ssl' = [ssl EXCEPT ![t] = "null"]
  /\ GoTo(t, "idle")
  /\ UNCHANGED <<shared, terminated, refused, sockets>>

(* The application sets its hook, at a moment when no call_once reads it:  *)
(* the std::function has no protection of its own.                         *)
SetHook ==
  /\ flag # "running"
  /\ hook = "none"
  /\ hook' \in Hooks
  /\ UNCHANGED <<pc, ssl, flag, contextPtr, terminated, made, applied, refused, nullUsed, sockets>>

Create(t) == CallOnce(t) \/ NewContext(t) \/ Configure(t) \/ NewSsl(t)

Worker(t) == Construct(t) \/ Create(t) \/ Handshake(t)

Next ==
  /\ ~terminated
  /\ SetHook \/ \E t \in Threads : Worker(t)

Spec == Init /\ [][Next]_vars

(* The operating system runs every worker. *)
FairSpec == Spec /\ \A t \in Threads : WF_vars(~terminated /\ Create(t))

-----------------------------------------------------------------------------
(* Properties *)

TypeOK ==
  /\ pc \in [Threads -> Steps]
  /\ ssl \in [Threads -> Contexts]
  /\ flag \in {"unset", "running", "set"}
  /\ contextPtr \in Contexts
  /\ hook \in {"none"} \cup Hooks
  /\ terminated \in BOOLEAN
  /\ made \in {0, 1}
  /\ applied \in {"none"} \cup Hooks
  /\ refused \in BOOLEAN
  /\ nullUsed \in BOOLEAN
  /\ sockets \in 0..MaxSockets

(***************************************************************************)
(* No worker makes a TLS object from the context while the hook is still   *)
(* at it (its trust store not loaded yet, say): whichever worker comes     *)
(* first, an object of the context as it was made means that there was no  *)
(* hook.                                                                   *)
(***************************************************************************)
ConfiguredBeforeUse ==
  \A t \in Threads :
    /\ ssl[t] = "raw" => flag = "set" /\ applied = "none"
    /\ ssl[t] = "configured" => applied = "configure"

(***************************************************************************)
(* SSLManager::connect does not test its pointer. It is null, which        *)
(* SSL_connect is not made for, only when the hook took the context away   *)
(* or OpenSSL refused an object: never because one worker overtook         *)
(* another.                                                                *)
(***************************************************************************)
NullHasCause == nullUsed => applied = "reset" \/ refused

(***************************************************************************)
(* The context a worker has used is the one all use: once shared, it is    *)
(* neither replaced nor changed, and a hook set later is without effect.   *)
(***************************************************************************)
ContextFixed == [][flag = "set" => UNCHANGED <<flag, contextPtr, applied, made>>]_vars

(* create() returns: no worker waits for ever in call_once for another,    *)
(* unless the program is terminated.                                       *)
CreateReturns ==
  \A t \in Threads : pc[t] = "callOnce" ~> pc[t] = "connect" \/ terminated
=============================================================================
