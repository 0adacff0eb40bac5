# A TLA+ model of http-request

http-request is a small C++ HTTP/1.1 client. A `Request` starts a worker thread
in its constructor; the thread resolves, connects, sends, reads, decodes and
follows redirects, and tells the caller what happens through five callbacks. The
caller may `cancel()` at any moment and destroys the `Request`, which joins the
thread. There is no pool and no shared state but an atomic flag and a TLS
context; what is hard is the order of things: callbacks against `cancel()`, error
paths that release the socket under functions still on the stack, redirects that
recurse, reads cut anywhere, selects that are interrupted or run out of time.

File names below are relative to the repository; `Request.cpp` is
`src/Request.cpp`, and so on.

## 1. Inventory

| Component | State | Operations | Interacts with | Hard part | What makes it correct |
|---|---|---|---|---|---|
| `Request` (Request.cpp, Request.h) | `isValid_`, `redirectCount_`, `socket_`, `url_`, `info_`, `startStamp_`; locals of `send`, `receive` | `process`, `sendRequest`, `send`, `receive`, `isReceivable`, `redirect`, `parseChunk`, `handleErrorResponse`, `disconnected`; `cancel`, `~Request` | socket (calls), caller (callbacks, atomic flag, join) | a second thread, releases in the middle of nested calls, recursion | no null dereference, bounded effect of `cancel`, order of callbacks, whole body, termination |
| `ResponseHandler` | which callbacks are set | invoked by the worker | caller | the promise is nowhere written down as a whole | one header, data after it, one error, one end |
| Socket connect (Socket.cpp, TSLSocket.cpp, SSLManager.cpp) | descriptor, the result being built | `config`, `connect`, `checkConnectResult`, `select`, TLS handshake | kernel, clock | interrupts, timeouts against a late handshake | outcome means what it says, waits within the timeout, returns |
| Chunk decoder (`parseChunk` and the loop of `receive`) | `chunkSize`, the bytes of one read | one call per read | the network's cuts | only the size survives from read to read | prefix of the body, completion only when whole |
| Socket send/receive (PlainSocket.cpp, SSLManager.cpp) | retry counters | `send`, `receive`, `write`, `read` | kernel, OpenSSL | retries of EINTR and of WANT_READ/WANT_WRITE | bounded retries, right code |
| TLS context (`SSLManager::shareContext`) | one `SSL_CTX` under `call_once` | first use creates it | all HTTPS requests | first use from several threads, failure | made once or reported |
| Header parser (`parseResponseHeader`, `StringUtil`) | none | pure | `receive` | values with separators in them, missing numbers | the field a peer sent is the field found |
| Url parser (Url.cpp) | fields of the URL | pure | `process`, `redirect` | IPv6, user info, missing port | the parts compose to the input |
| Request encoder (`htmlEncode`) | adds to `info_.headers` | once per hop | `send` | state left over from the hop before | the headers are those of this hop |
| `Data` (Data.hpp) | `rawData`, `length`, `capacity` | append, copy, move, resize | `receive`, caller | moved-from objects, growth | length within capacity, content kept |
| Clock (`Time`, `getRemainTime`) | `startStamp_` | difference, clamp | `sendRequest`, `isReceivable` | `system_clock` is not monotonic | remaining time in range and falling |

`Request` calls the socket synchronously and single-threadedly. Only three
things cross threads: `isValid_` (an atomic), the join in the destructor, and the
callbacks, which run on the worker.

The hazards, each at its line and with the properties that cover it, are listed
under `hazards` in `PROJECT.json`.

## 2. Plan

Done, in this order:

1. `Request` with `HttpTypes`, the core; `HandlerContract`, the abstract
   specification it implements.
2. `Connect`, which derives the set of outcomes `Request` assumes for one call of
   `socket_->connect` (`ConnectOutcomes` in `HttpTypes`): composition by a shared
   interface, checked on one side and used on the other.
3. `ChunkDecoder`, the bytes behind the counted units of `Request`.
4. `SocketIo`: the retry loops of `PlainSocket::send`/`receive` and
   `SSLManager::write`/`read`, deriving the result codes that `Request` assumes in
   `SendFailed`, `RecvRetry`, `RecvClosed` and `RecvFailed` (`SendFailures` and
   `ReceiveFailures` in `HttpTypes`), as `Connect` does for `connect`.
5. `TlsContext`: the context all HTTPS requests share, under its first use by
   several workers.
6. `Buffer`: `Data` over an explicit heap of blocks.
7. `Text`, `Url` and `Exchange`: the URL parser, the encoder and the header parser
   on texts of tokens, hop after hop.
8. The clock set ahead and back, in `Request` and in `Connect`.
9. Proofs: for `Request` types, `socket_` never null, descriptors, the whole body, the
   bound on callbacks after `cancel()` and the refinement of the contract; for
   `Exchange` the URL parser, the credentials, the end of the header, its fields and
   what may end the program; for the other modules every safety property their runs
   check.

To come, in this order:

10. The redirect counter over chains longer than the limit.

## 3. Modules

| Module | Models | Extends |
|---|---|---|
| `HttpTypes` | enumerations and records of Type.h and Socket.h, `ConnectOutcomes`, `SendFailures`, `ReceiveFailures` | Integers |
| `HandlerContract` | what the callbacks promise | Naturals |
| `Request` | class `Request`, its owner, peers and clock | `HttpTypes`; instances `HandlerContract` |
| `MCRequest` | the sets of callbacks TLC tries | `Request` |
| `Connect` | one call of `socket_->connect` | `HttpTypes` |
| `SocketIo` | one call of `socket_->send` or `socket_->receive` | `HttpTypes` |
| `ChunkDecoder` | `parseChunk` and the reads that feed it | Integers, SequencesExt |
| `MCChunkDecoder` | the digits of the sizes TLC tries | `ChunkDecoder` |
| `TlsContext` | `SSLManager::shareContext` and `create`, the workers that call them | Naturals |
| `Buffer` | `struct Data` and the heap | Integers, Sequences |
| `MCBuffer` | the symmetry of `Buffer` | `Buffer` |
| `Text` | `StringUtil`, the searches of `string_view`, base64 | SequencesExt, FiniteSetsExt |
| `Url` | `Url::parse`, with the reference it is compared with | `Text` |
| `Exchange` | the texts of a request, hop by hop: `htmlEncode`, `parseResponseHeader` | `Url` |
| `MCExchange` | the URLs, requests and answers TLC tries | `Exchange` |
| `RequestProofs` | theorems about `Request`: types, the socket, descriptors, the body | `Request`, TLAPS |
| `RequestCallbackProofs` | the bound after `cancel()`, the contract, how a request ends | `RequestProofs` |
| `ConnectProofs` | theorems about `Connect` | `Connect`, TLAPS |
| `SocketIoProofs` | theorems about `SocketIo` | `SocketIo`, TLAPS |
| `TlsContextProofs` | theorems about `TlsContext` | `TlsContext`, TLAPS |
| `BufferProofs` | theorems about `Buffer` | `Buffer`, TLAPS |
| `ChunkDecoderProofs` | theorems about `ChunkDecoder` | `ChunkDecoder`, TLAPS |
| `ExchangeProofs` | theorems about `Url` and `Exchange` | `Exchange`, TLAPS |

### Request

`pc` is the worker's next step and names the function it is in. The C++ stack is
folded into two variables: `handleErrorResponse` and `disconnected` are called
from many places, and `ret` says where the worker goes when they return. That is
"done" everywhere but in `redirect` past its limit, where the missing `return`
makes it "redirectGo", and in `sendRequest` for an https URL without HTTPS,
"checkTime" (never reached, which `SocketInv` proves).

What is one step: everything between two points where another actor can tell the
difference. The test of `isValid_` and the callback behind it are two steps. A
call of the socket layer is one step whose outcome is any the layer can return.
A callback is one step; that it may itself call `cancel()` is covered, since
`Cancel` can come before and after every step. Destroying the `Request` from its
own callback (a thread joining itself) is outside the model.

| Action | Code |
|---|---|
| `Process` | `process()` |
| `Resolve`, `CreateSocket`, `CheckTime`, `Connect` | `sendRequest()`, in its order |
| `CanSend`, `Send`, `SendFailed` | `send()`; when the last unit is sent the peer chooses its response |
| `IsReceivable`, `SelectReadable`, `SelectTimeout`, `SelectInterrupted`, `SelectFailed` | `isReceivable()` |
| `RecvRetry`, `RecvClosed`, `RecvFailed`, `RecvHeaderPart`, `RecvHeader`, `RecvBody` | what `socket_->receive()` returned, in `receive()` |
| `ResponseHeader`, `OnParseHeaderDone`; `ResponseData`, `OnData` | test and callback of `responseHeader()`, `responseData()` |
| `Body`, `BodyEnd` | the end of a turn of `receive()` |
| `ParseChunkData`, `ParseLastChunk`, `ParseChunkEnd`, `ChunkSizeError`, `ParseChunkThrows` | `parseChunk()` on counted units |
| `Redirect`, `RedirectGo` | `redirect()` before and after its limit |
| `OnError`, `CheckDisconnected`, `OnDisconnected` | `handleErrorResponse()`, `disconnected()` |
| `Cancel`, `Destroy`, `Join` | `cancel()`, `~Request()` |
| `Tick`, `SetClock` | the clock behind `getRemainTime()`: time passes, or `system_clock` is set |

Bytes are counted in units: a unit of a request, of a header or of a body stands
for some bytes. A chunked body has one more unit, its last chunk. Because units
hide where a chunk is cut, `ChunkSizeError` and `ParseChunkThrows` may happen
wherever a cut that causes them is possible; `ChunkDecoder` has the bytes. A
redirect loses the units read with its header, as in the code.

`calls`, `late`, `fds`, `hops` and `eof` are history: no guard of the worker reads
them. (`hops` bounds how many redirects the peers send: `MaxRedirects`.)

The time that remains is computed from `system_clock`. `SetClock` gives it any
value from 0 to the whole timeout: 0 if the clock is now before `startStamp_` (the
unsigned difference wraps to a huge elapsed time), the whole of it when the clock
passes `startStamp_` again. A select under way keeps the timeout it was given, so
once the clock was set its timeout may be over while time remains
(`SelectTimeIsUp`). `clockSets` counts the settings, which `MaxClockSets` bounds.

### HandlerContract

Five counters and five actions, no threads: `onConnected` once per hop, then one
`onParseHeaderDone`, then `onData`, at most one `onError`, and `onDisconnected`
once and last. `Request!Contract` maps the counters to `calls`.

### Connect

One call, with the kernel moving the TCP connection and the clock between its
steps. `errno` keeps only the classes the code tests. `remain` is `expiredTime`
minus the clock, so setting the clock changes it (`SetClock`); `budget` is what the
select under way still has of its timeout, which no clock changes. `waited`,
`setBack` and `gaveUp` are history. The two early returns of
`connect` about the address are not modelled: `Request` passes a non-null address
whose family it has just given to the socket.

### SocketIo

One call on a plain or a TLS socket, attempt by attempt; how an attempt ends is
the kernel's or OpenSSL's choice. `errno` keeps only the classes the code tests
("want" is `SSL_ERROR_WANT_READ` and `SSL_ERROR_WANT_WRITE`). `moved` counts what
all attempts moved, `lost` the errors no loop is meant to retry; both are history.
The loops of `send` and `receive` are one set of actions, and so are those of
`write` and `read`: they differ in a few outcomes, which test `op`. The size a
failed call returns (0 or -1) is not kept: `Request` looks at the code first.

### ChunkDecoder

A chunked body on the wire, cut into reads. `body`, the number of chunks (`last`) and
where each ends (`ends`) are the peer's choice, and `wire` is what it sends: for each
chunk its size, a line end, its data and another line end, and at last a chunk without
data. A cut is anywhere, or (`clean`) only where no line of the framing is cut.
`dataView` is a pair of places on the wire, `used` and `read`: what is in front of it
and how far it goes. The digits of a size are one token (`Hex`), which may be a byte of
a payload as well; so a size is never cut in its middle, which would only add another
way to be told a `ChunkSizeError` or a wrong size, and multiply the places. `Stol` models
what `std::stol(s, nullptr, 16)` does: skip white space, read digits, throw if there is
none.

| Action | Code |
|---|---|
| `Receive` | one read of `receive()` and the call of `parseChunk()` |
| `ChunkSizeError`, `ReadChunkSize` | a turn of its loop with `chunkSize <= 0` |
| `ReadChunkData` | a turn with `chunkSize > 0` |
| `ReadDone` | `dataView` is empty: back to `receive()` |

### TlsContext

Workers that make one TLS socket after the other, each through `create()` and so
through `call_once`. `flag` is the `once_flag`, `contextPtr` the shared pointer with
what is known of the context behind it: none, as OpenSSL made it ("raw"), or as the
application's hook left it ("configured"). The hook gets the `unique_ptr` itself and
may configure the context, reset the pointer or throw; the application sets it once,
at a moment when no `call_once` reads it, since the `std::function` has no protection
of its own. An exception there, or from `SSL_CTX_new` failing, leaves `create()`,
which is `noexcept`: `terminated`, and no step after it. `Handshake` gives
`SSL_connect` whatever `create()` returned, null included.

### Buffer

Objects, blocks and their bytes. A block is what `new uint8_t[n]` returned: it has
an owner, a size and bytes, and a byte nobody wrote yet is `Garbage`. Each action is
one member function of `Data`, on one object or on two, and allocations take any
block that is free. `append()` of an object to itself, `resize()` to 0 or to the
capacity and the moved-from object are all among them. Reading through a null
pointer ends the program (`crashed`). `receive()` uses a buffer as `ConstructSized`
and then `ReceiveInto` do. The size `append()` allocates is computed as a `float`,
which is exact below 2^24 bytes and taken as such here. In the repository itself
only pointers to `Data` are moved; move assignment is the application's to use.

### Text, Url, Exchange

A text is a sequence of tokens: a token is a separator some code looks for (`:`,
`/`, CR, the space), or a word no code looks into. What the parsers do is all about
where separators stand, so the words need no characters. `Text` has the helpers of
`StringUtil` and base64, whose bytes are numbers. `Url` has `ParseUrl` and beside it
`ComposeUrl`, the reference (RFC 3986, section 3), which is what the parser has to
undo. `Composable` is the part of that grammar the reference needs: no component has
an unescaped separator that would end it, so that the components can be told apart
again. `Base64Encode` keeps the code's loop, one function from the number of bytes
read to `val`, `valb` and the digits. (RFC 3986 asks for more; `:` in a user info, or `/`, `?`, `:` and `@` in a query
or a fragment, are allowed there and here.)

Four assumptions speak of these texts. `UrlAssumption`: the components URLs are composed
of are `Composable`; other URLs occur as well (`Inputs` and the values of Location are
any text without a line end), of which only what follows is claimed. `InputAssumption`:
what a caller hands over for the head of a request, its URL and the names and values of
its headers, has no line end in it, which the code does not look for; the body is any
text. `ByteAssumption`: each token a URL may have stands for one byte, any from 0 to
255, which is what base64 sees of it. `AnswerAssumption`: a server writes at least
one line, and no line is empty or has a line end in it, which is what makes it a line;
the body is any text. Lines that are no fields, and status lines of any form, are
among them.

`Exchange` is one request over its hops: `ParseHop` (the URL in `process` or
`redirect`), `Send` (`htmlEncode`, which leaves `Host`, `Content-Length` and
`Authorization` in `info_.headers` for the next hop), `Answer` (the server's choice of
lines and body), and `Read`, a read of any length, after which
`parseResponseHeader` runs on all that was read so far. The exceptions `std::stoi`,
`std::stoll` and `substr` throw are told from ordinary ends: nothing on the worker
catches them, and its functions are `noexcept`. Name and order of the fields are a
hash map's, so the order is any. The method is always one token, redirects are
allowed, and the user info is the only part that is turned into bytes.

## 4. Runs

All finish with no bound reached silently: a bound is a guard of the
environment (how many redirects, units or ticks there are), never of the worker.

| Run | Checks | Bounds and why they are enough |
|---|---|---|
| `request_safety` | `TypeOK`, `NoNullDereference`, `CancelBound`, `BodyIntact` | all four classes of URL; limit 1 with 2 redirects, so the limit is hit and passed; header and body over 2 units and reads, so both are split, joined and cut short; 1 tick, so the deadline falls between any two steps; the clock set once; handlers with and without `onDisconnected` and `onError`, on which state depends |
| `request_contract` | `FollowsContract` | all 32 sets of callbacks; limit 2 with 2 redirects: up to the limit, not past it |
| `request_plain_build` | `DescriptorsReleased`, `Termination`, `Concluded` | build without HTTPS; http and https URLs, so an https redirect is refused; the clock set twice, below `startStamp_` and past it again; otherwise as `request_safety` |
| `connect` | `TypeOK`, `OutcomeAllowed`, `WaitsWithinTimeout`, `SuccessMeansConnected`, `Returns` | timeout 3, the clock set back by up to 2 in one or two steps, ahead as often as it likes; any number of interrupts |
| `tls_context` | `TypeOK`, `ConfiguredBeforeUse`, `NullHasCause`, `ContextFixed`, `CreateReturns` | 3 workers, so that two wait while one is at it; 4 sockets, so that one comes after; every hook, set before or after |
| `buffer` | `TypeOK`, `Ownership`, `NoGarbage`, `StaleOnlyByMoveAssign`, `OperationsShow` | 2 objects and 3 blocks, one more than they can hold, which an assignment or `resize()` needs; sizes up to 3, so that `append()` fits, fills and overflows a block |
| `exchange` | `TypeOK`, `UrlAsComposed`, `MessageUnderstood`, `CredentialsDecode`, `FieldsAsSent`, `HeaderWhenComplete`, `TerminatedByMalformed`, `CredentialsKept` | all combinations of components with foreign separators in each; user infos of 1, 3 and 7 bytes: every remainder of base64, and more bytes than its `int` holds; answers of 9 status lines, one with ": " in it, with up to 2 fields of 10, after a redirect too, cut anywhere |
| `socket_io` | `TypeOK`, `OutcomeAllowed`, `MovedOnce`, `FatalEnds`, `Returns` | limit of 6 attempts (1000 in the code; no guard depends on which), so that errors of each kind precede each other; 3 units, so an attempt moves all or a part |
| `chunks` | `TypeOK`, `DeliveredIsPrefix`, `CompletedIsWhole`, `Completes` | every body of up to 3 bytes in every division into up to 3 chunks, so a chunk follows a chunk and data is split; the bytes are one that looks like a size and the two of a line end |

What they show:

- `NoNullDereference`: `disconnected()` destroys the socket while `send` and
  `receive` are on the stack; every path that calls it leaves them.
- `CancelBound`: after `cancel()` at most one guarded callback is begun (its test
  had been passed), at most one `onConnected`, at most two `onError` (the redirect
  limit and the hop behind it).
- `BodyIntact`: a request that ends without error, cancel or early close has
  handed over exactly the body.
- `FollowsContract`: the refinement, see section 6.
- `DescriptorsReleased`, `Termination`, `Concluded`: everything is closed,
  everything ends, and whoever waits for `onDisconnected` waits in vain only
  after `cancel()` (or if the program is terminated).
- `OutcomeAllowed`: `Request` takes no liberty with `connect`, and a refused
  connection is no success of a plain socket.
- `WaitsWithinTimeout`: interrupts do not stretch the timeout. TLS doubles it, and
  a clock that is set back adds as much as it was set back. `SuccessMeansConnected`:
  success of a plain socket is an established connection, with one exception, below.
- `ConfiguredBeforeUse`, `NullHasCause`, `ContextFixed`, `CreateReturns`: whichever
  worker comes first, the others wait for the hook, use the one context it left,
  and get null only if the hook took it away or OpenSSL refused an object.
- `Ownership`, `NoGarbage`, `OperationsShow`: no leak, no double delete, no byte
  shown that nobody wrote, and copies, moves, `append` and `resize` do to the bytes
  what their names say, `append` to itself included. `StaleOnlyByMoveAssign`: see below.
- `UrlAsComposed`, `MessageUnderstood`, `CredentialsDecode`: the parser undoes the
  composition of a URL, and a server that reads the request by the grammar finds
  target, headers, body and credentials.
- `FieldsAsSent`, `HeaderWhenComplete`, `TerminatedByMalformed`: the header handed
  over is the one sent, for lines of the form the parser wants, however its end is
  cut; only a malformed answer terminates the program. A well-formed one begins with
  "HTTP/": the status line too is taken for a field when ": " cuts it in two, and one
  that began with `Content-Length: ` would be the length.
- `CredentialsKept`: the `Authorization` of the first hop is the one of all hops,
  whatever the later URLs say.
- `OutcomeAllowed` of `SocketIo`: `Request` takes no liberty with `send` and
  `receive` either; the code Retry comes from a plain `receive` alone. `MovedOnce`:
  nothing is sent twice or read and lost by a retry. `FatalEnds`: an error that is
  no reason to try again ends the call, with one exception, below.
- `DeliveredIsPrefix`, `CompletedIsWhole`: wherever reads are cut, no byte of
  framing, none lost or doubled, unless the data of a chunk begins with CR LF
  (`Decodable`).
  `Completes`: with clean cuts the body is decoded to its end.

Three runs end in a violation: the model follows the code, and the code does not
do what is written of it.

| Run | What the trace shows |
|---|---|
| `request_redirect_limit` | `redirect()` reports `RedirectReachMaxCount` and has no `return`: a second connect, a second end |
| `request_https_descriptors` | `TSLSocket` has no destructor and nobody calls `close()`: an HTTPS request leaves its descriptor open |
| `chunk_noexcept` | a read that begins with the line end of the chunk before makes `std::stol` throw out of a `noexcept` function |

Some effects of the code show in passing properties by what these except:

- A close by the peer before `Content-Length` bytes is taken for completion, with no
  error (`BodyIntact` excepts an early close).
- When the last select of the connect loop times out or fails, `getsockopt` with
  `SO_ERROR` overwrites its result; `SO_ERROR` is 0 since nothing failed yet, and
  `connect` returns Success while the connection is still under way
  (`SuccessMeansConnected` excepts `gaveUp`).
- Data of a chunk that begins with CR LF loses it: the code skips a CR LF after the size line
  too. That is all `DeliveredIsPrefix` and `CompletedIsWhole` except (`Decodable`); CR LF
  anywhere else in a payload does no harm.
- Move assignment leaves the source with a length and no block; copying such an
  object, or resizing it, reads through null (`StaleOnlyByMoveAssign` says that
  nothing else makes one).
- `FieldsAsSent` speaks of lines with exactly one ": " and no space behind it, behind a
  status line without one: a reason phrase with ": " in it makes a field of the status
  line, whose name is all that stands in front. Of the
  others, a line without the space is dropped, one with ": " in its value too, and a
  value behind two spaces is erased, since `removePrefix` erases the whole string; a
  `Content-Length` so erased makes `std::stoll` throw (`TerminatedByMalformed`). A
  status line without the space before an empty reason terminates the program too.
- Brackets stay around the host of an IPv6 URL, and `Host` names no port: `UrlAsComposed`
  and `MessageUnderstood` state what the code does there.

Two more concern time and `cancel()`: after
`cancel()` the call of `disconnected()` in `isReceivable` does nothing, because its
body is guarded by the flag that was just cleared (`Concluded` excepts a
cancelled request); and a TLS connect may wait for two timeouts
(`WaitsWithinTimeout`). A third is not a property: with no time left select is a
poll, so a peer whose bytes are always ready is read past the deadline
(`SelectReadable` needs no time).

`SocketIo` adds three of the same kind. `isNeedRetry` is never cleared, so after
one WANT_READ or WANT_WRITE every error of that call is retried (the exception in
`FatalEnds`). A plain `send` that meets a full buffer (EAGAIN, which the
non-blocking socket gives) fails the request, where `receive` tells Retry
(`PlainFailure`). And a TLS `receive` woken by a part of a record tries a limited
number of times, a millisecond apart, and then fails the request with
RetryReachMaxCount, whatever is left of its timeout (`SslFails`).

Each property of a passing run is matched with a mutant of the code that breaks
it; the mutants stand beside the definitions they change, marked as such.

Deadlock checking is off: a finished request, a returned call of the socket and a
decoded body have nothing left to do.

## 5. Fairness

- `Request`: weak fairness of `Worker` (the operating system runs the thread and
  its blocking calls return), of `Tick` (time passes) and of `Join`. Strong fairness
  of `SelectTimeout` with no time left: a select with a zero timeout on a socket with nothing to read
  returns 0, so it cannot be that every such select reports a spurious wake-up or
  an interrupt. It needs strong fairness because each round of the loop leaves
  `select` in between. Nothing is assumed of the owner or the peer: a silent peer,
  and a `Request` nobody destroys, are included. Neither is the clock ever obliged to
  be set, and it is set a bounded number of times: one that is set back for ever
  would keep any deadline away.
- `Connect`: weak fairness of the caller's steps and of the clock, none of the
  network.
- `TlsContext`: weak fairness of the steps of `create()` of every worker, as long as
  the program is not terminated. `call_once` wakes those who wait; nobody is obliged
  to make a socket or to shake hands.
- `Buffer`, `Exchange`: none; they have no liveness.
- `SocketIo`: weak fairness of the caller's steps. The descriptor is non-blocking,
  so every attempt ends; how it ends is not assumed.
- `ChunkDecoder`: weak fairness of the whole (the peer sends all of the body).

## 6. Proofs

Proved for every value of the constants, from the named assumptions of the
modules (`BuildAssumption`, `CounterAssumption`, `BoundAssumption`,
`CallerAssumption`, `ConnectAssumption`, `IoAssumption`, `TlsAssumption`,
`BufferAssumption`, `ChunkAssumption`, `ExchangeAssumption`, `UrlAssumption`,
`InputAssumption`, `ByteAssumption`, `AnswerAssumption`):

| Theorem | States | Argument |
|---|---|---|
| `RequestProofs!TypeCorrect` | `Spec => []TypeOK` | inductive as it stands, one step per action |
| `RequestProofs!SocketNeverNull` | `Spec => []NoNullDereference` | `SocketInv` |
| `RequestProofs!DescriptorsAreReleased` | without HTTPS, or without https URLs, `Spec => []DescriptorsReleased` | `DescriptorInv` |
| `RequestProofs!LeaksAreBounded` | in any build, `Spec => []DescriptorsCounted` | `OpenedInv` |
| `RequestProofs!BodyIsIntact` | `Spec => []BodyIntact` | `BodyInv` |
| `RequestCallbackProofs!CancelIsBounded` | `Spec => []CancelBound` | `CancelInv` |
| `RequestCallbackProofs!RequestImplementsContract` | `MaxRedirects <= RedirectMaxCount` implies `Spec => FollowsContract` | `ContractInv`, then each step maps to a step of the contract or a stutter |
| `RequestCallbackProofs!EndIsAnnounced` | `Spec => []EndAnnounced`, the safety half of `Concluded` | `AnnouncedInv` |
| `RequestCallbackProofs!EndsAreCounted` | for any number of redirects, `Spec => []EndsCounted` | `CountedInv` |
| `RequestCallbackProofs!EndsOnceWithinLimit` | `Spec => [](hops <= RedirectMaxCount => DisconnectedOnce)` | from `EndsCounted` |
| `ConnectProofs!TypeCorrect` | `Spec => []TypeOK` | inductive |
| `ConnectProofs!OutcomesAllowed` | `Spec => []OutcomeAllowed` | `OutcomeInv` |
| `ConnectProofs!WaitBounded` | `Spec => []WaitsWithinTimeout` | `WaitInv` |
| `ConnectProofs!SuccessIsConnected` | `Spec => []SuccessMeansConnected` | `ConnectedInv` |
| `SocketIoProofs!TypeCorrect` | `Spec => []TypeOK` | `IoInv` |
| `SocketIoProofs!OutcomesAllowed` | `Spec => []OutcomeAllowed` | `IoInv` |
| `SocketIoProofs!NothingRepeated` | `Spec => []MovedOnce` | `IoInv` |
| `SocketIoProofs!FatalErrorsEnd` | `Spec => []FatalEnds` | `IoInv` |
| `SocketIoProofs!AttemptsAreBounded` | `Spec => AttemptsRunOut`, the content of `Returns` | `IoInv`, step by step |
| `TlsContextProofs!TypeCorrect` | `Spec => []TypeOK` | `OnceInv` |
| `TlsContextProofs!NeverUnconfigured` | `Spec => []ConfiguredBeforeUse` | `UseInv` |
| `TlsContextProofs!NullIsExplained` | `Spec => []NullHasCause` | `UseInv` |
| `TlsContextProofs!ContextNeverReplaced` | `Spec => ContextFixed` | `OnceInv`, step by step |
| `TlsContextProofs!NobodyWaitsInVain` | `Spec => []WaitersAreServed`, the safety half of `CreateReturns` | `RunnerInv` |
| `BufferProofs!TypeCorrect` | `Spec => []TypeOK` | with `Ownership` and `AbsentEmpty` |
| `BufferProofs!BlocksOwned` | `Spec => []Ownership` | with `TypeOK` and `AbsentEmpty` |
| `BufferProofs!NothingUninitialised` | `Spec => []NoGarbage` | `Written` |
| `BufferProofs!OnlyMoveAssignLeavesStale` | `Spec => []StaleOnlyByMoveAssign` | with the invariants above |
| `BufferProofs!OperationsShowTheirBytes` | `Spec => OperationsShow` | each operation from the invariants before it, by what it writes into a block |
| `ChunkDecoderProofs!TypeCorrect` | `Spec => []TypeOK` | inductive |
| `ChunkDecoderProofs!PrefixDelivered` | `Spec => []DeliveredIsPrefix` | `Placed` |
| `ChunkDecoderProofs!CompletedWhole` | `Spec => []CompletedIsWhole` | `Placed` |
| `ChunkDecoderProofs!CleanBodiesAreNeverStuck` | `Spec => []NeverStuck`, the safety half of `Completes` | `WholeInv` |
| `ChunkDecoderProofs!EveryTurnAdvances` | `Spec => Advances` | each step decreases a natural number, whatever the body |
| `ExchangeProofs!TypeCorrect` | `Spec => []TypeOK` | with the invariants below, which say that every text is made of tokens |
| `ExchangeProofs!ParseComposed` | `Composable(parts)` implies `ParseUrl(ComposeUrl(parts)) = UrlOf(parts)` | one separator after the other |
| `ExchangeProofs!UrlsReadAsComposed` | `Spec => []UrlAsComposed` | `UrlInv` and `ParseComposed` |
| `ExchangeProofs!CredentialsAreKept` | `Spec => CredentialsKept` | step by step |
| `ExchangeProofs!HeadersParsedWhenComplete` | `Spec => []HeaderWhenComplete` | `ReadInv` |
| `ExchangeProofs!OnlyMalformedTerminates` | `Spec => []TerminatedByMalformed` | `HeaderInv`, then the fields line by line |
| `ExchangeProofs!FieldsFound` | `Spec => []FieldsAsSent` | `HeaderInv`, then the fields line by line |
| `ExchangeProofs!MessagesAreUnderstood` | `Spec => []MessageUnderstood` | `TextInv` and `RequestIsUnderstood` |
| `ExchangeProofs!CredentialsCanBeDecoded` | `Spec => []CredentialsDecode` | `TextInv` and `Decodes` |

Why the invariants are needed:

- `SocketInv`. `NoNullDereference` speaks of five steps; to keep it one must know
  that the socket exists at every step from its creation on (`HoldingSocket`),
  that a hop is only begun for a URL the build can serve, and that `ret` never
  leads back to a step that uses the socket just released.
- `CancelInv`. A count of late callbacks is not inductive alone. It adds where the
  worker can be once one was made (`AfterLateConnect`, `AfterLateError`): before
  the next of its kind the worker meets the test of `isValid_` in `isReceivable`,
  and ends.
- `ContractInv`. It relates each stage of a hop to the callbacks made before it,
  and the redirect counter to the redirect responses seen, so that the limit is
  not reached and `ret` stays "done". Without the condition on `MaxRedirects` the
  theorem is false: `request_redirect_limit` shows it.
- `WaitInv`. What was waited and what remains, by the clock or in the select under
  way, make at most the timeout and the set-back; `waited` alone is not inductive.
- `ConnectedInv`. At `SO_ERROR` a socket whose last select was ready is not
  connecting any more.
- `OnceInv`. At most one worker is inside `call_once`, and only while the flag says
  so; that is what makes one context of many first uses.
- `UseInv`. What the pointer holds is explained by the hook `call_once` saw; a null
  object by a reset or a refusal.
- `Written`. The first `length` bytes of every block were written; `NoGarbage` as it
  stands says nothing of a block whose owner has moved on.
- `DescriptorInv`. Descriptors opened are those closed, and one more while a socket
  holds one; the error paths close in the middle of a hop, so it is stated at every
  step and not at the end only. It needs that no TLS socket is ever made: one leaves
  its descriptor open, as `request_https_descriptors` shows, so the theorem has the
  condition that the build is without HTTPS or no URL is https.
- `BodyInv`. `BodyIntact` speaks of the end of a request. On the way there the units the
  peer still has, those read and those handed over add up to what the response has on
  the wire, from the read that completes the header on; redirects hand nothing over;
  `isCompleted` is set by the announced length or the last chunk and by nothing else.
- `Placed`. A turn of the loop of `parseChunk` may begin in front of a chunk, behind the
  first bytes of its data, or in front of the line end behind it, and nowhere else; with
  `chunkSize` it says what was shown so far. That these are places of chunks follows from
  the layout of the wire, an induction over the chunks (`LeastNatural`: a nonempty set of
  naturals has a least element, from the library's theorem on finite sets, which does not
  take an operator).
- `SetBlockShows` and `ReplacesShows` are what `OperationsShowTheirBytes` rests on: what
  the bytes of an object are after a block was put under it, and that no other object
  shows the block that was changed, which is `Ownership`.
- `ParseComposed`. Each cut of `parse` finds the separator that was put there, because
  what is in front of it does not have it (`Free`); what was put together in front of
  that separator comes back whole, and the next cut works on it. The port needs the
  last colon, and for an IP literal that it stands behind the bracket.
- `ReadInv`. What was read and what is still to come are together the text the server
  sent, and no empty line was overlooked. That the first empty line ends the header and
  not something in the body (`BodyBegins`) is a fact about the whole text: its lines are
  laid out one after the other (`Flattens`, an induction over the lines), and none of
  them is empty.
- `HeaderInv`. What was handed over, or what ended the program, is a function of the
  lines the server wrote, `HeaderOf`, and not of the reads. That needs `HeaderLines`:
  `split` takes the text in front of the empty line apart into those lines. `Split` is
  recursive in a place of the text, so what it finds is first shown to exist at every
  place, from the end of the text backwards (`SplitExists`), then to be the rows of a
  text laid out row by row (`RowsSplit`). The fields are then what a sequence of results
  leaves (`FoldSteps`): the fold over the lines is recursive in a set of places, of
  which it takes the greatest. `AfterLines` and `LengthGood` are kept from one line to
  the next.
- `TextInv`. `MessageUnderstood` compares the message with the headers of this hop, which
  the hops before have added to, and with a URL that may be a Location. The invariant
  says that none of these ever has a line end, the ones out of an answer because the
  lines `split` makes have none (`UrlTexts`, `HeaderFieldsIn`), so that the message is the
  lines of `RequestLines` with their ends and an empty one behind them; that such a text
  is taken apart into its lines is what was shown for answers. The lines name each header
  once because `SetToSeq` lists a finite set (`SetSeq`).
- `LoopAt`, the invariant of the loop of `base64Encode`. After 3h + m bytes there are
  4h + m digits, `val` holds the last two bytes and `valb` says that 2m bits of them have
  no digit yet; the digits so far are the six bits at their places (`Spells`, `Six`). A
  turn makes one digit or, with the third byte of a group, two. `SixBits` says which bits
  of which bytes these are, and `Decodes` puts both together, for any number of bytes.
- `IoInv`. The properties of `SocketIo` speak of a call that has returned. The
  invariant adds what holds while it has not: attempts are left, nothing was
  moved yet, and a fatal error was only met by a call that had to wait before.
- `AnnouncedInv`. `EndAnnounced` speaks of the end; before it, an error code is set in
  front of `onError` and nowhere else, and a worker at `onDisconnected` has found the
  callback installed and the request valid.
- `CountedInv`. Each redirect past the limit is followed although it was reported, so it
  may cost one more `onError` and one more `onDisconnected`, and nothing else does. On
  the way the invariant has to tell the hop that was begun from the report that its limit
  is reached (`AtLimit`), and the redirect counter, which wraps, from the hops made.
- `OpenedInv`. A hop that has not come to its socket yet (`Unopened`) has opened no
  descriptor; the report of the limit belongs to the hop it lets go on.
- `WholeInv`. If no read ends inside a line, a read is decoded to its end, and ends in
  front of a chunk or inside the data of one, never between the two line ends.
- `RunnerInv`. While the flag says that a worker runs the function of `call_once`, one
  does, and leaves it only by setting the flag or with the program.
- The types of `Exchange`. That a literal such as "POST" is a string is out of the
  provers' reach, so its texts are of `Token`, the strings and the literals beside them;
  the rest is that every text was built from tokens (`RequestIsUnderstood`, `UrlTexts`)
  and that a code is read from the digits of one (`CodeIsRead`).

Every safety invariant and every action property of the passing runs is proved, two of
them with the condition the table gives. What causes the three violations is proved as
well, from the other side:

- `DisconnectedOnce` fails only past the limit of redirects (`EndsOnceWithinLimit`), and
  there by one call for each redirect too many (`EndsAreCounted`).
- `DescriptorsReleased` fails only with TLS sockets (`DescriptorsAreReleased`), and by at
  most one descriptor for each hop (`LeaksAreBounded`).
- `NoExceptionEscapes` fails only if a read ends inside a line of the framing, or the
  data of a chunk begin with a line end (`CleanBodiesAreNeverStuck`).

Only model-checked:

- Whatever needs fairness: `Termination`, `Concluded`, `Returns` of `Connect` and of
  `SocketIo`, `Completes`, `CreateReturns`. TLAPS as installed reasons about neither
  `ENABLED` nor `WF_`. Of four of them the part that is not about scheduling is proved:
  what is true at the end (`EndIsAnnounced`), that there is always a step to wait for
  (`CleanBodiesAreNeverStuck`, `NobodyWaitsInVain`), and that steps run out
  (`EveryTurnAdvances`, `AttemptsAreBounded`). `Connect` and `Request` have no such
  measure: an interrupted select is begun again for as long as the clock has not moved,
  so their end is a matter of the clock, which is fairness.
- That the three violations happen: they are counterexamples of a small instance.

## 7. Not modelled, and why

- `Request::init`/`clear`, request ids, case conversion: no state, no decision.
- `getaddrinfo`: one step with two outcomes. The code tries the first address only.
- The characters of headers, URLs and requests: `Exchange` has their tokens. The
  peers of `Request` answer with well-formed headers. A status line is looked for at
  the beginning of its line only, and an answer has at least one line.
- An interim answer (1xx) is taken for the final one, and a response with neither
  `Content-Length` nor chunks that keeps its connection open is read until the
  timeout: both are in `Request` as a framing that ends with the connection or the
  clock, and have no property of their own.
- Random request ids and the arithmetic of `TimeStamp` that nothing calls.
- The Windows branches differ in names of codes only, apart from one retry of
  `WSAETIMEDOUT` in `SSLManager`, which is left out.
- Moving an `ISocket`: not used.
- Two comments disagree with the code beside them and bear on no property:
  `RequestInfo::timeout` is "default 30s" in Request.h and 60 s in the code and in
  README.md, and `ipVersion` is "default V4" there and `Auto` in the code.

## 8. Running

    tlc -config Request_safety.cfg MCRequest
    tlc -config Request_contract.cfg MCRequest
    tlc -config Request_plain_build.cfg MCRequest
    tlc -config Connect.cfg Connect
    tlc -config SocketIo.cfg SocketIo
    tlc -config Chunk.cfg MCChunkDecoder
    tlc -config TlsContext.cfg TlsContext
    tlc -config Buffer.cfg MCBuffer
    tlc -config Exchange.cfg MCExchange
    tlapm RequestCallbackProofs.tla

and likewise the `.cfg` of each violation and the other proof modules.
