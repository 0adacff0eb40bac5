------------------------------ MODULE HttpTypes ------------------------------
(***************************************************************************)
(* The enumerations of Type.h and the record types the socket layer and    *)
(* the request layer exchange.                                             *)
(***************************************************************************)
EXTENDS Integers

(* enum class ResultCode *)
ResultCodes ==
  {"Success", "Failed", "CreateSocketFailed", "GetFlagsFailed",
   "SetFlagsFailed", "SetNoSigPipeFailed", "ConnectAddressError",
   "ConnectTypeInconsistent", "ConnectGenericError", "Retry",
   "RetryReachMaxCount", "Timeout", "UrlInvalid", "SchemeNotSupported",
   "GetAddressFailed", "MethodError", "Disconnected", "Completed",
   "RedirectError", "RedirectReachMaxCount", "ChunkSizeError"}

(* The std::function members of ResponseHandler; a member may be null. *)
Callbacks ==
  {"onConnected", "onParseHeaderDone", "onData", "onDisconnected", "onError"}

(* What ISocket the unique_ptr Request::socket_ owns, and whether that     *)
(* object's own socket_ is an open descriptor (FALSE: kInvalidSocket).     *)
Sockets == [kind : {"null", "plain", "tls"}, fd : BOOLEAN]

NullSocket == [kind |-> "null", fd |-> FALSE]

(* The TCP connection behind a descriptor, as the kernel sees it. *)
Links == {"idle", "connecting", "established"}

(* The ways ISocket::config fails; each closes the descriptor. The last    *)
(* one exists only in the Apple build.                                     *)
ConfigFailures == {"GetFlagsFailed", "SetFlagsFailed", "SetNoSigPipeFailed"}

(***************************************************************************)
(* What socket_->connect may return for a socket of a kind whose           *)
(* descriptor is open or not: the result code, whether the descriptor is   *)
(* still open afterwards, and how far the TCP connection has got. The      *)
(* module Connect derives this set from the code of ISocket::connect and   *)
(* TSLSocket::connect; the module Request uses it as the effect of one     *)
(* call. A success whose link is still "connecting" is what                *)
(* checkConnectResult returns when select gives up before the handshake;   *)
(* a TLS handshake can be interrupted after the peer has reset the link.   *)
(***************************************************************************)
ConnectOutcomes(kind, fd) ==
  IF ~fd
  THEN {[code |-> "CreateSocketFailed", fd |-> FALSE, link |-> "idle"]}
  ELSE [code : ConfigFailures, fd : {FALSE}, link : {"idle"}]
       \cup [code : {"ConnectGenericError"}, fd : {TRUE}, link : Links]
       \cup [code : {"Timeout"}, fd : {TRUE}, link : Links]
       \cup [code : {"Success"}, fd : {TRUE}, link : {"connecting", "established"}]
       \cup IF kind = "tls"
            THEN [code : {"Success", "Disconnected", "Failed", "Retry"}, fd : {TRUE},
                  link : Links]
            ELSE {}

(* The codes with which socket_->send fails, and those with which          *)
(* socket_->receive does so that Request reports as errors. The module     *)
(* SocketIo derives them.                                                  *)
SendFailures == {"Failed", "RetryReachMaxCount", "Disconnected"}
ReceiveFailures == {"Failed", "RetryReachMaxCount"}
=============================================================================
