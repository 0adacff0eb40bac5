------------------------------- MODULE Request -------------------------------
(***************************************************************************)
(* class Request: the worker thread a Request starts in its constructor,   *)
(* the owner that may cancel() it at any moment and whose destructor joins *)
(* the worker, the peer that answers (or does not), and the clock.         *)
(*                                                                         *)
(* The worker's program counter pc names the next thing the worker does.   *)
(* A read of the atomic isValid_ and the callback it guards are two steps, *)
(* because cancel() can run between them. A socket call is one step whose  *)
(* outcome is any the socket layer can return. Bytes are counted, not      *)
(* represented: a unit of request, header or body stands for some bytes.   *)
(***************************************************************************)
EXTENDS HttpTypes

CONSTANTS
  EnableHttps,       \* the build option ENABLE_HTTPS
  RedirectMaxCount,  \* redirectMaxCount in Request::redirect (7)
  CounterModulus,    \* redirectCount_ is a uint8_t: it counts modulo 256
  Int64Max,          \* INT64_MAX, the content length nobody announced
  Urls,              \* the classes of URL the caller and the peers use
  HandlerSets,       \* the sets of callbacks a caller installs
  RequestUnits,      \* bound: units of an encoded request
  MaxHeaderReads,    \* bound: reads over which a response header arrives
  MaxBody,           \* bound: units of a response body
  MaxRedirects,      \* bound: redirect responses in one chain of peers
  Ticks,             \* info_.timeout, in ticks of the clock
  MaxClockSets       \* bound: times system_clock is set during the request

ASSUME BuildAssumption == EnableHttps \in BOOLEAN
ASSUME CounterAssumption ==
  /\ RedirectMaxCount \in Nat
  /\ CounterModulus \in Nat
  /\ RedirectMaxCount < CounterModulus
ASSUME BoundAssumption ==
  /\ RequestUnits \in Nat \ {0}
  /\ MaxHeaderReads \in Nat \ {0}
  /\ MaxBody \in Nat
  /\ MaxRedirects \in Nat
  /\ Ticks \in Nat
  /\ MaxClockSets \in Nat
  /\ Int64Max \in Nat
  /\ MaxBody < Int64Max
ASSUME CallerAssumption ==
  /\ Urls \subseteq {"invalid", "unsupported", "http", "https"}
  /\ HandlerSets \subseteq SUBSET Callbacks

VARIABLES
  info,           \* info_ and handler_: method, url, allowRedirect, on (callbacks set)
  pc,             \* next step of the worker thread
  isValid,        \* isValid_
  redirectCount,  \* redirectCount_
  url,            \* class of the Url that url_ points to
  socket,         \* socket_
  err,            \* last code given to handleErrorResponse, "Success" if none
  ret,            \* where handleErrorResponse / disconnected return to
  unsent,         \* send(): units of dataView still to send
  rx,             \* receive(): its local variables
  link,           \* the TCP connection of the current socket
  peer,           \* what the peer still has to send on this connection
  remain,         \* getRemainTime()
  clockSets,      \* history: times system_clock was set
  user,           \* the owner of the Request: owning, joining, destroyed
  calls,          \* history: units handed to onData, invocations of the others
  late,           \* history: invocations begun after cancel()
  fds,            \* history: descriptors opened and closed
  hops,           \* history: redirect responses followed
  eof             \* history: the peer closed the connection while we read

vars == <<info, pc, isValid, redirectCount, url, socket, err, ret, unsent, rx,
          link, peer, remain, clockSets, user, calls, late, fds, hops, eof>>

worker   == <<redirectCount, url, socket, err, ret, unsent, rx>>
network  == <<link, peer>>
history  == <<calls, late, fds, hops, eof>>
owner    == <<info, isValid, user, remain, clockSets>>

WorkerSteps ==
  {"process", "onError", "disconnected", "onDisconnected", "resolve", "create",
   "checkTime", "connect", "canSend", "send", "isReceivable", "select", "recv",
   "responseHeader", "onParseHeaderDone", "body", "parseChunk", "responseData",
   "onData", "bodyEnd", "redirect", "redirectGo", "done", "terminated"}

(* What a peer may answer: an ordinary response with its framing, or a     *)
(* 301/302 with its Location ("empty": no such header).                    *)
Responses ==
  [status : {"OK"}, location : {"empty"},
   framing : {"length", "chunked", "close"}, length : 0..MaxBody]
  \cup
  [status : {"Found"}, location : Urls \cup {"empty"},
   framing : {"length"}, length : {0}]

NoResponse == [status |-> "OK", location |-> "empty", framing |-> "close", length |-> 0]

(* Units on the wire after the header: a chunked body ends with one more   *)
(* unit, the zero-sized chunk.                                             *)
WireLength(r) == r.length + (IF r.framing = "chunked" THEN 1 ELSE 0)

(* What a peer still has to send: its response, reads over which the       *)
(* header arrives, units of the body.                                      *)
PeerStates == [response : Responses, header : Nat, body : Nat]

(* The local variables of receive(): parseHeaderSuccess, contentLength,    *)
(* recvLength, whether transferCoding is "chunked", isCompleted, the bytes *)
(* to decode in dataPtr, and those handed to responseData.                 *)
ReceiveLocals ==
  [parsed : BOOLEAN, contentLength : Nat, recvLength : Nat,
   chunked : BOOLEAN, completed : BOOLEAN, view : Nat, piece : Nat]

(* Their values when receive() starts. *)
FreshRx ==
  [parsed |-> FALSE, contentLength |-> Int64Max, recvLength |-> 0,
   chunked |-> FALSE, completed |-> FALSE, view |-> 0, piece |-> 0]

isHttpScheme(u) == u = "http" \/ (EnableHttps /\ u = "https")

Init ==
  /\ info \in [method : {"Unknown", "Get"}, url : Urls, allowRedirect : BOOLEAN,
               on : HandlerSets]
  /\ pc = "process"
  /\ isValid = TRUE
  /\ redirectCount = 0
  /\ url = "invalid"
  /\ socket = NullSocket
  /\ err = "Success"
  /\ ret = "done"
  /\ unsent = 0
  /\ rx = FreshRx
  /\ link = "idle"
  /\ peer = [response |-> NoResponse, header |-> 0, body |-> 0]
  /\ remain = Ticks
  /\ clockSets = 0
  /\ user = "owning"
  /\ calls = [c \in Callbacks |-> 0]
  /\ late = [c \in Callbacks |-> 0]
  /\ fds = [opened |-> 0, closed |-> 0]
  /\ hops = 0
  /\ eof = FALSE

-----------------------------------------------------------------------------
(* Steps that several functions share *)

(* An invocation of a callback, if the caller installed it. *)
Invoke(cb, units) ==
  /\ calls' = IF cb \in info.on THEN [calls EXCEPT ![cb] = @ + units] ELSE calls
  /\ late'  = IF cb \in info.on /\ ~isValid THEN [late EXCEPT ![cb] = @ + 1] ELSE late

(* The test in front of the guarded callbacks. *)
Guarded(cb) == isValid /\ cb \in info.on

(* A call of handleErrorResponse that, when it returns, goes on at next. *)
HandleErrorResponse(code, next) ==
  /\ pc' = "onError"
  /\ err' = code
  /\ ret' = next

(* A call of disconnected(). *)
Disconnected(next) ==
  /\ pc' = "disconnected"
  /\ ret' = next
  /\ UNCHANGED err

(* A select under way was given getRemainTime() for its timeout: it is over*)
(* when no time remains, or earlier, if the clock was set meanwhile.       *)
SelectTimeIsUp == remain = 0 \/ clockSets > 0

(* Destroying an ISocket closes its descriptor only if it is a PlainSocket:*)
(* TSLSocket has no destructor of its own and SSL_free leaves the          *)
(* descriptor alone.                                                       *)
ClosedByDestructor(s) == IF s.kind = "plain" /\ s.fd THEN 1 ELSE 0

-----------------------------------------------------------------------------
(* Request::process *)
Process ==
  /\ pc = "process"
  /\ url' = IF info.method = "Unknown" THEN url ELSE info.url
  /\ \/ /\ info.method = "Unknown"
        /\ HandleErrorResponse("MethodError", "done")
     \/ /\ info.method # "Unknown"
        /\ info.url = "invalid"
        /\ HandleErrorResponse("UrlInvalid", "done")
     \/ /\ info.method # "Unknown"
        /\ info.url # "invalid"
        /\ ~isHttpScheme(info.url)
        /\ HandleErrorResponse("SchemeNotSupported", "done")
     \/ /\ info.method # "Unknown"
        /\ isHttpScheme(info.url)
        /\ pc' = "resolve"
        /\ UNCHANGED <<err, ret>>
  /\ UNCHANGED <<redirectCount, socket, unsent, rx, network, history, owner>>

(* handleErrorResponse: onError is not guarded by isValid_. *)
OnError ==
  /\ pc = "onError"
  /\ Invoke("onError", 1)
  /\ pc' = "disconnected"
  /\ UNCHANGED <<worker, network, owner, fds, hops, eof>>

(* disconnected(): the test ... *)
CheckDisconnected ==
  /\ pc = "disconnected"
  /\ pc' = IF Guarded("onDisconnected") THEN "onDisconnected" ELSE ret
  /\ UNCHANGED <<worker, network, owner, history>>

(* ... and the guarded part: the callback, then socket_.reset(). *)
OnDisconnected ==
  /\ pc = "onDisconnected"
  /\ Invoke("onDisconnected", 1)
  /\ fds' = [fds EXCEPT !.closed = @ + ClosedByDestructor(socket)]
  /\ socket' = NullSocket
  /\ pc' = ret
  /\ UNCHANGED <<redirectCount, url, err, ret, unsent, rx, network, owner, hops, eof>>

-----------------------------------------------------------------------------
(* Request::sendRequest: getaddrinfo *)
Resolve ==
  /\ pc = "resolve"
  /\ \/ HandleErrorResponse("GetAddressFailed", "done")
     \/ pc' = "create" /\ UNCHANGED <<err, ret>>
  /\ UNCHANGED <<redirectCount, url, socket, unsent, rx, network, owner, history>>

(* Mutant of CreateSocket: the previous hop's socket is not destroyed. *)
CreateSocketLeaks ==
  /\ pc = "create"
  /\ pc' = "checkTime"
  /\ socket' \in [kind : {IF url = "https" THEN "tls" ELSE "plain"}, fd : BOOLEAN]
  /\ fds' = [fds EXCEPT !.opened = @ + (IF socket'.fd THEN 1 ELSE 0)]
  /\ link' = "idle"
  /\ UNCHANGED <<err, ret, redirectCount, url, unsent, rx, peer, owner, calls, late, hops, eof>>

(* The socket of the hop replaces the one socket_ owned. Without HTTPS an  *)
(* https URL would leave socket_ null after reporting the error; whether   *)
(* the previous socket goes before or after that report is not told apart. *)
CreateSocket ==
  /\ pc = "create"
  /\ IF url = "https" /\ ~EnableHttps
     THEN /\ HandleErrorResponse("SchemeNotSupported", "checkTime")
          /\ socket' = NullSocket
     ELSE /\ pc' = "checkTime"
          /\ UNCHANGED <<err, ret>>
          /\ socket' \in [kind : {IF url = "https" THEN "tls" ELSE "plain"}, fd : BOOLEAN]
  /\ fds' = [opened |-> fds.opened + (IF socket'.fd THEN 1 ELSE 0),
             closed |-> fds.closed + ClosedByDestructor(socket)]
  /\ link' = "idle"
  /\ UNCHANGED <<redirectCount, url, unsent, rx, peer, owner, calls, late, hops, eof>>

(* Mutant of CheckTime: no return after the timeout is reported. *)
CheckTimeGoesOn ==
  /\ pc = "checkTime"
  /\ IF remain <= 0
     THEN HandleErrorResponse("Timeout", "connect")
     ELSE pc' = "connect" /\ UNCHANGED <<err, ret>>
  /\ UNCHANGED <<redirectCount, url, socket, unsent, rx, network, owner, history>>

(* No time left ends the hop before it connects. *)
CheckTime ==
  /\ pc = "checkTime"
  /\ IF remain <= 0
     THEN HandleErrorResponse("Timeout", "done")
     ELSE pc' = "connect" /\ UNCHANGED <<err, ret>>
  /\ UNCHANGED <<redirectCount, url, socket, unsent, rx, network, owner, history>>

(* socket_->connect and, on success, onConnected, which isValid_ does not  *)
(* guard.                                                                  *)
Connect ==
  /\ pc = "connect"
  /\ \E out \in ConnectOutcomes(socket.kind, socket.fd) :
       /\ socket' = [socket EXCEPT !.fd = out.fd]
       /\ fds' = [fds EXCEPT !.closed = @ + (IF socket.fd /\ ~out.fd THEN 1 ELSE 0)]
       /\ link' = out.link
       /\ IF out.code = "Success"
          THEN /\ Invoke("onConnected", 1)
               /\ pc' = "canSend"
               /\ UNCHANGED <<err, ret>>
          ELSE /\ HandleErrorResponse(out.code, "done")
               /\ UNCHANGED <<calls, late>>
  /\ UNCHANGED <<redirectCount, url, unsent, rx, peer, owner, hops, eof>>

-----------------------------------------------------------------------------
(* Request::send *)

(* canSend: select for writing. A connection still under way becomes       *)
(* writable when it is established or refused.                             *)
CanSend ==
  /\ pc = "canSend"
  /\ \/ /\ link' \in IF link = "connecting" THEN {"established", "idle"} ELSE {link}
        /\ unsent' = RequestUnits
        /\ pc' = "send"
        /\ UNCHANGED <<err, ret>>
     \/ /\ \E code \in {"Retry", "Failed"} \cup
                       (IF SelectTimeIsUp /\ link = "connecting" THEN {"Timeout"} ELSE {}) :
              HandleErrorResponse(code, "done")
        /\ UNCHANGED <<link, unsent>>
  /\ UNCHANGED <<redirectCount, url, socket, rx, peer, owner, history>>

(* One turn of the loop that sends dataView, left over or complete. When   *)
(* all is sent the peer has the request and decides what it will answer,   *)
(* and receive() starts with fresh locals.                                 *)
Send ==
  /\ pc = "send"
  /\ link = "established"
  /\ \E sent \in 1..unsent :
       /\ unsent' = unsent - sent
       /\ IF sent < unsent
          THEN UNCHANGED <<pc, rx, peer>>
          ELSE /\ pc' = "isReceivable"
               /\ rx' = FreshRx
               /\ \E r \in Responses, h \in 1..MaxHeaderReads :
                    /\ r.status = "Found" => hops < MaxRedirects
                    /\ peer' = [response |-> r, header |-> h, body |-> WireLength(r)]
  /\ UNCHANGED <<redirectCount, url, socket, err, ret, link, owner, history>>

SendFailed ==
  /\ pc = "send"
  /\ \E code \in SendFailures : HandleErrorResponse(code, "done")
  /\ UNCHANGED <<redirectCount, url, socket, unsent, rx, network, owner, history>>

-----------------------------------------------------------------------------
(* Request::isReceivable *)
IsReceivable ==
  /\ pc = "isReceivable"
  /\ IF isValid
     THEN pc' = "select" /\ UNCHANGED <<err, ret>>
     ELSE Disconnected("done")
  /\ UNCHANGED <<redirectCount, url, socket, unsent, rx, network, owner, history>>

(* select says readable: bytes, end of stream, or a spurious wake-up. It   *)
(* says so with no time left too, since a zero timeout is a poll.          *)
SelectReadable ==
  /\ pc = "select"
  /\ pc' = "recv"
  /\ UNCHANGED <<worker, network, owner, history>>

(* Mutant of SelectTimeout: a timeout is retried like an interrupt. *)
SelectTimeoutRetried ==
  /\ pc = "select"
  /\ SelectTimeIsUp
  /\ pc' = "isReceivable"
  /\ UNCHANGED <<worker, network, owner, history>>

(* select runs out of time: getRemainTime() was its timeout. *)
SelectTimeout ==
  /\ pc = "select"
  /\ SelectTimeIsUp
  /\ HandleErrorResponse("Timeout", "done")
  /\ UNCHANGED <<redirectCount, url, socket, unsent, rx, network, owner, history>>

(* EINTR is retried while there is time left. *)
SelectInterrupted ==
  /\ pc = "select"
  /\ IF remain > 0
     THEN pc' = "isReceivable" /\ UNCHANGED <<err, ret>>
     ELSE HandleErrorResponse("Retry", "done")
  /\ UNCHANGED <<redirectCount, url, socket, unsent, rx, network, owner, history>>

SelectFailed ==
  /\ pc = "select"
  /\ HandleErrorResponse("Failed", "done")
  /\ UNCHANGED <<redirectCount, url, socket, unsent, rx, network, owner, history>>

-----------------------------------------------------------------------------
(* Request::receive: what socket_->receive() returned *)

(* Nothing to read after all: EAGAIN, which only a plain socket tells. *)
RecvRetry ==
  /\ pc = "recv"
  /\ socket.kind = "plain"
  /\ pc' = "isReceivable"
  /\ UNCHANGED <<worker, network, owner, history>>

(* Mutant of RecvClosed: it returns without calling disconnected(). *)
RecvClosedSilently ==
  /\ pc = "recv"
  /\ pc' = "done"
  /\ eof' = TRUE
  /\ UNCHANGED <<worker, network, owner, calls, late, fds, hops>>

(* Zero bytes: the peer has closed, whatever it still owed. *)
RecvClosed ==
  /\ pc = "recv"
  /\ Disconnected("done")
  /\ eof' = TRUE
  /\ UNCHANGED <<redirectCount, url, socket, unsent, rx, network, owner,
                 calls, late, fds, hops>>

RecvFailed ==
  /\ pc = "recv"
  /\ \E code \in ReceiveFailures : HandleErrorResponse(code, "done")
  /\ UNCHANGED <<redirectCount, url, socket, unsent, rx, network, owner, history>>

(* Bytes that do not complete the header: parseResponseHeader returns      *)
(* false and the loop continues.                                           *)
RecvHeaderPart ==
  /\ pc = "recv"
  /\ ~rx.parsed
  /\ peer.header > 1
  /\ peer' = [peer EXCEPT !.header = @ - 1]
  /\ pc' = "isReceivable"
  /\ UNCHANGED <<worker, link, owner, history>>

(* Mutant of RecvHeader: the body bytes read with the header are lost. *)
RecvHeaderDropsBody ==
  /\ pc = "recv"
  /\ ~rx.parsed
  /\ peer.header = 1
  /\ \E n \in 0..peer.body : peer' = [peer EXCEPT !.header = 0, !.body = @ - n]
  /\ pc' = "responseHeader"
  /\ rx' = [rx EXCEPT !.parsed = TRUE, !.chunked = peer.response.framing = "chunked"]
  /\ UNCHANGED <<redirectCount, url, socket, err, ret, unsent, link, owner, history>>

(* Bytes that complete the header, with n units of the body behind it. A   *)
(* redirect that is followed drops them.                                   *)
RecvHeader ==
  /\ pc = "recv"
  /\ ~rx.parsed
  /\ peer.header = 1
  /\ \E n \in 0..peer.body :
       /\ peer' = [peer EXCEPT !.header = 0, !.body = @ - n]
       /\ IF peer.response.status = "Found" /\ info.allowRedirect
          THEN /\ pc' = "redirect"
               /\ hops' = hops + 1
               /\ rx' = [rx EXCEPT !.parsed = TRUE]
          ELSE /\ pc' = "responseHeader"
               /\ UNCHANGED hops
               /\ rx' = [rx EXCEPT
                           !.parsed = TRUE,
                           !.contentLength = IF peer.response.framing = "length"
                                             THEN peer.response.length ELSE @,
                           !.chunked = peer.response.framing = "chunked",
                           !.view = n]
  /\ UNCHANGED <<redirectCount, url, socket, err, ret, unsent, link, owner,
                 calls, late, fds, eof>>

(* Bytes after the header. In a chunked body they may be framing only. *)
RecvBody ==
  /\ pc = "recv"
  /\ rx.parsed
  /\ peer.body > 0
  /\ \E n \in (IF rx.chunked THEN 0 ELSE 1)..peer.body :
       /\ peer' = [peer EXCEPT !.body = @ - n]
       /\ rx' = [rx EXCEPT !.view = n]
  /\ pc' = "body"
  /\ UNCHANGED <<redirectCount, url, socket, err, ret, unsent, link, owner, history>>

(* responseHeader: test, then callback *)
ResponseHeader ==
  /\ pc = "responseHeader"
  /\ pc' = IF Guarded("onParseHeaderDone") THEN "onParseHeaderDone" ELSE "body"
  /\ UNCHANGED <<worker, network, owner, history>>

OnParseHeaderDone ==
  /\ pc = "onParseHeaderDone"
  /\ Invoke("onParseHeaderDone", 1)
  /\ pc' = "body"
  /\ UNCHANGED <<worker, network, owner, fds, hops, eof>>

(* The bytes in dataPtr: counted, then decoded or handed over whole. *)
Body ==
  /\ pc = "body"
  /\ rx' = [rx EXCEPT
              !.recvLength = @ + rx.view,
              !.completed = ~rx.chunked /\ rx.recvLength + rx.view >= rx.contentLength,
              !.piece = IF rx.chunked THEN 0 ELSE rx.view]
  /\ pc' = IF rx.chunked THEN "parseChunk"
           ELSE IF rx.view > 0 THEN "responseData" ELSE "bodyEnd"
  /\ UNCHANGED <<redirectCount, url, socket, err, ret, unsent, network, owner, history>>

(* Mutant of ResponseData: isValid_ is not tested. *)
ResponseDataUntested ==
  /\ pc = "responseData"
  /\ pc' = "onData"
  /\ UNCHANGED <<worker, network, owner, history>>

(* responseData: test, then callback *)
ResponseData ==
  /\ pc = "responseData"
  /\ pc' = IF Guarded("onData") THEN "onData"
           ELSE IF rx.chunked THEN "parseChunk" ELSE "bodyEnd"
  /\ UNCHANGED <<worker, network, owner, history>>

OnData ==
  /\ pc = "onData"
  /\ Invoke("onData", rx.piece)
  /\ pc' = IF rx.chunked THEN "parseChunk" ELSE "bodyEnd"
  /\ UNCHANGED <<worker, network, owner, fds, hops, eof>>

(* Mutant of BodyEnd: no return after disconnected(). *)
BodyEndGoesOn ==
  /\ pc = "bodyEnd"
  /\ IF rx.completed
     THEN Disconnected("isReceivable")
     ELSE pc' = "isReceivable" /\ UNCHANGED <<err, ret>>
  /\ UNCHANGED <<redirectCount, url, socket, unsent, rx, network, owner, history>>

(* The end of one turn of the loop in receive(). *)
BodyEnd ==
  /\ pc = "bodyEnd"
  /\ IF rx.completed
     THEN Disconnected("done")
     ELSE pc' = "isReceivable" /\ UNCHANGED <<err, ret>>
  /\ UNCHANGED <<redirectCount, url, socket, unsent, rx, network, owner, history>>

-----------------------------------------------------------------------------
(* Request::parseChunk on the bytes of one read. The unit that ends the    *)
(* body is in this read when the peer has nothing left to send.            *)
LastChunkIn == IF peer.body = 0 /\ rx.view > 0 THEN 1 ELSE 0

(* Payload of the next chunk, as far as the read has it. *)
ParseChunkData ==
  /\ pc = "parseChunk"
  /\ \E n \in 1..(rx.view - LastChunkIn) :
       rx' = [rx EXCEPT !.view = @ - n, !.piece = n]
  /\ pc' = "responseData"
  /\ UNCHANGED <<redirectCount, url, socket, err, ret, unsent, network, owner, history>>

(* The zero-sized chunk completes the response. *)
ParseLastChunk ==
  /\ pc = "parseChunk"
  /\ rx.view = LastChunkIn
  /\ rx.view > 0
  /\ rx' = [rx EXCEPT !.view = 0, !.completed = TRUE]
  /\ pc' = "bodyEnd"
  /\ UNCHANGED <<redirectCount, url, socket, err, ret, unsent, network, owner, history>>

(* Nothing left of the read. *)
ParseChunkEnd ==
  /\ pc = "parseChunk"
  /\ rx.view = 0
  /\ pc' = "bodyEnd"
  /\ UNCHANGED <<worker, network, owner, history>>

(* The read ends inside the size line of a chunk still to come. *)
ChunkSizeError ==
  /\ pc = "parseChunk"
  /\ rx.view = 0
  /\ peer.body > 0
  /\ HandleErrorResponse("ChunkSizeError", "done")
  /\ UNCHANGED <<redirectCount, url, socket, unsent, rx, network, owner, history>>

(* The read begins with the line break that ends the data of a chunk from  *)
(* an earlier read: std::stol gets an empty string and throws out of a     *)
(* noexcept function.                                                      *)
ParseChunkThrows ==
  /\ pc = "parseChunk"
  /\ rx.piece = 0
  /\ rx.recvLength > rx.view
  /\ pc' = "terminated"
  /\ UNCHANGED <<worker, network, owner, history>>

-----------------------------------------------------------------------------
(* Request::redirect: the tests that report an error. Reaching the limit   *)
(* is reported, but the function then goes on.                             *)
Redirect ==
  /\ pc = "redirect"
  /\ \/ /\ peer.response.location = "empty"
        /\ HandleErrorResponse("RedirectError", "done")
     \/ /\ peer.response.location # "empty"
        /\ redirectCount >= RedirectMaxCount
        /\ HandleErrorResponse("RedirectReachMaxCount", "redirectGo")
     \/ /\ peer.response.location # "empty"
        /\ redirectCount < RedirectMaxCount
        /\ pc' = "redirectGo"
        /\ UNCHANGED <<err, ret>>
  /\ UNCHANGED <<redirectCount, url, socket, unsent, rx, network, owner, history>>

RedirectGo ==
  /\ pc = "redirectGo"
  /\ redirectCount' = (redirectCount + 1) % CounterModulus
  /\ url' = peer.response.location
  /\ IF isHttpScheme(peer.response.location)
     THEN pc' = "resolve" /\ UNCHANGED <<err, ret>>
     ELSE HandleErrorResponse("RedirectError", "done")
  /\ UNCHANGED <<socket, unsent, rx, network, owner, history>>

-----------------------------------------------------------------------------
(* The owner of the Request, on any other thread or inside a callback. *)
Cancel ==
  /\ user # "destroyed"
  /\ pc # "terminated"
  /\ isValid
  /\ isValid' = FALSE
  /\ UNCHANGED <<info, pc, user, remain, clockSets, worker, network, history>>

(* ~Request: join() waits for the worker, then the members are destroyed. *)
Destroy ==
  /\ user = "owning"
  /\ pc # "terminated"
  /\ user' = "joining"
  /\ UNCHANGED <<info, pc, isValid, remain, clockSets, worker, network, history>>

Join ==
  /\ user = "joining"
  /\ pc = "done"
  /\ user' = "destroyed"
  /\ socket' = NullSocket
  /\ fds' = [fds EXCEPT !.closed = @ + ClosedByDestructor(socket)]
  /\ UNCHANGED <<info, pc, isValid, remain, clockSets, redirectCount, url, err, ret,
                 unsent, rx, network, calls, late, hops, eof>>

(* Mutant of Tick: getRemainTime() without the max with 0. *)
TickUnclamped ==
  /\ remain >= 0
  /\ user # "destroyed"
  /\ pc # "terminated"
  /\ remain' = remain - 1
  /\ UNCHANGED <<info, pc, isValid, user, clockSets, worker, network, history>>

(* system_clock moves forward. *)
Tick ==
  /\ remain > 0
  /\ user # "destroyed"
  /\ pc # "terminated"
  /\ remain' = remain - 1
  /\ UNCHANGED <<info, pc, isValid, user, clockSets, worker, network, history>>

(***************************************************************************)
(* system_clock is set. The elapsed time is an unsigned difference, so a   *)
(* clock set back below startStamp_ makes it huge and no time remains;     *)
(* when the clock passes startStamp_ again, the whole timeout does. Each   *)
(* of the two is one step of this kind.                                    *)
(***************************************************************************)
SetClock ==
  /\ clockSets < MaxClockSets
  /\ clockSets' = clockSets + 1
  /\ user # "destroyed"
  /\ pc # "terminated"
  /\ remain' \in 0..Ticks
  /\ UNCHANGED <<info, pc, isValid, user, worker, network, history>>

Worker ==
  \/ Process \/ OnError \/ CheckDisconnected \/ OnDisconnected
  \/ Resolve \/ CreateSocket \/ CheckTime \/ Connect
  \/ CanSend \/ Send \/ SendFailed
  \/ IsReceivable \/ SelectReadable \/ SelectTimeout \/ SelectInterrupted \/ SelectFailed
  \/ RecvRetry \/ RecvClosed \/ RecvFailed \/ RecvHeaderPart \/ RecvHeader \/ RecvBody
  \/ ResponseHeader \/ OnParseHeaderDone \/ Body \/ ResponseData \/ OnData \/ BodyEnd
  \/ ParseChunkData \/ ParseLastChunk \/ ParseChunkEnd \/ ChunkSizeError \/ ParseChunkThrows
  \/ Redirect \/ RedirectGo

Next == Worker \/ Cancel \/ Destroy \/ Join \/ Tick \/ SetClock

Spec == Init /\ [][Next]_vars

(***************************************************************************)
(* Fairness: the operating system runs the worker thread and lets the      *)
(* blocking calls it makes return, and time passes. A socket that has      *)
(* nothing to read is not reported readable for ever, so the select whose  *)
(* time is over ends the loop. Nothing obliges the owner to cancel or to   *)
(* destroy the Request, nor the peer to answer.                            *)
(***************************************************************************)
Fairness ==
  /\ WF_vars(Worker)
  /\ WF_vars(Tick)
  /\ WF_vars(Join)
  /\ SF_vars(remain = 0 /\ SelectTimeout)

FairSpec == Spec /\ Fairness

-----------------------------------------------------------------------------
(* Properties *)

TypeOK ==
  /\ info \in [method : {"Unknown", "Get"}, url : Urls, allowRedirect : BOOLEAN,
               on : HandlerSets]
  /\ pc \in WorkerSteps
  /\ isValid \in BOOLEAN
  /\ redirectCount \in 0..(CounterModulus - 1)
  /\ url \in Urls \cup {"invalid", "empty"}
  /\ socket \in Sockets
  /\ err \in ResultCodes
  /\ ret \in {"done", "redirectGo", "checkTime"}
  /\ unsent \in 0..RequestUnits
  /\ rx \in ReceiveLocals
  /\ link \in Links
  /\ peer \in PeerStates
  /\ remain \in 0..Ticks
  /\ clockSets \in 0..MaxClockSets
  /\ user \in {"owning", "joining", "destroyed"}
  /\ calls \in [Callbacks -> Nat]
  /\ late \in [Callbacks -> Nat]
  /\ fds \in [opened : Nat, closed : Nat]
  /\ hops \in Nat
  /\ eof \in BOOLEAN

(***************************************************************************)
(* socket_ is never dereferenced while it is null: not after disconnected()*)
(* reset it, not when redirect goes on past its limit, and not for an      *)
(* https URL in a build without HTTPS.                                     *)
(***************************************************************************)
NoNullDereference ==
  pc \in {"connect", "canSend", "send", "select", "recv"} => socket.kind # "null"

(***************************************************************************)
(* What cancel() still lets through: one guarded callback whose test was   *)
(* already passed, one onConnected of the hop under way, and two onError   *)
(* (the redirect limit and the end of the hop behind it).                  *)
(***************************************************************************)
CancelBound ==
  /\ late["onParseHeaderDone"] + late["onData"] + late["onDisconnected"] <= 1
  /\ late["onConnected"] <= 1
  /\ late["onError"] <= 2

(***************************************************************************)
(* onData never gets more than the peer's body, and a request that ends    *)
(* without an error, a cancel or an early close by the peer has handed all *)
(* of it over, however the reads were cut.                                 *)
(***************************************************************************)
BodyIntact ==
  /\ calls["onData"] <= peer.response.length
  /\ (/\ pc = "done" /\ err = "Success" /\ isValid /\ ~eof
      /\ "onData" \in info.on) => calls["onData"] = peer.response.length

(***************************************************************************)
(* Every descriptor a socket opened is closed once the Request is gone     *)
(* ("socket_.reset(); //release resource").                                *)
(***************************************************************************)
DescriptorsReleased == user = "destroyed" => fds.opened = fds.closed

(* The promises the callbacks make to the caller, as a specification. *)
Contract == INSTANCE HandlerContract
  WITH installed <- info.on, connects <- calls["onConnected"],
       headers <- calls["onParseHeaderDone"], body <- calls["onData"],
       errors <- calls["onError"], closes <- calls["onDisconnected"]

(***************************************************************************)
(* The calls of the handler's callbacks follow the contract: onConnected   *)
(* once per hop, then one onParseHeaderDone, then onData, at most one      *)
(* onError, and onDisconnected once, as the last of all.                   *)
(***************************************************************************)
FollowsContract == Contract!Spec

(* The worker ends: no chain of retries, reads and redirects is endless.   *)
Termination == <>(pc \in {"done", "terminated"})

(***************************************************************************)
(* A request that is not cancelled is concluded: onDisconnected is called  *)
(* in the end, after a response, an error or a close by the peer. That is  *)
(* what a caller waits for who sets a flag there.                          *)
(***************************************************************************)
Concluded ==
  "onDisconnected" \in info.on =>
    <>(calls["onDisconnected"] > 0 \/ ~isValid \/ pc = "terminated")

(***************************************************************************)
(* onDisconnected is the end of a request and is called once: the example  *)
(* and the tests take the first call for "done".                           *)
(***************************************************************************)
DisconnectedOnce == calls["onDisconnected"] <= 1
=============================================================================
