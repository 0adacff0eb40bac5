--------------------------- MODULE RequestProofs ---------------------------
(***************************************************************************)
(* Proofs about Request, for every build option, redirect limit, counter   *)
(* width, set of URLs, choice of callbacks and bound on the environment:   *)
(* types, the socket, descriptors, and the body that is handed over.       *)
(***************************************************************************)
EXTENDS Request, TLAPS

-----------------------------------------------------------------------------
(* Lemmas about the values the model is built from *)

(* Whatever connect returns is a result code, a descriptor that is open or *)
(* not, and a state of the TCP connection.                                 *)
LEMMA ConnectOutcomeType ==
  ASSUME NEW kind, NEW fd \in BOOLEAN, NEW out \in ConnectOutcomes(kind, fd)
  PROVE  out.code \in ResultCodes /\ out.fd \in BOOLEAN /\ out.link \in Links
<1>1. CASE ~fd
  <2>1. out = [code |-> "CreateSocketFailed", fd |-> FALSE, link |-> "idle"]
    BY <1>1 DEF ConnectOutcomes
  <2> QED BY <2>1 DEF ResultCodes, Links
<1>2. CASE fd
  <2>1. CASE out \in [code : ConfigFailures, fd : {FALSE}, link : {"idle"}]
    BY <2>1 DEF ResultCodes, ConfigFailures, Links
  <2>2. CASE out \notin [code : ConfigFailures, fd : {FALSE}, link : {"idle"}]
    BY <1>2, <2>2 DEF ConnectOutcomes, ResultCodes, Links
  <2> QED BY <2>1, <2>2
<1> QED BY <1>1, <1>2

(* A peer that sends some of what it owes is still a peer. *)
LEMMA PeerSends ==
  ASSUME NEW p \in PeerStates, NEW h \in Nat, NEW n \in 0..p.body
  PROVE  /\ [p EXCEPT !.header = h] \in PeerStates
         /\ [p EXCEPT !.body = @ - n] \in PeerStates
         /\ [p EXCEPT !.header = h, !.body = @ - n] \in PeerStates
<1>1. p.body - n \in Nat
  BY DEF PeerStates
<1> QED BY <1>1 DEF PeerStates

(* Counting an invocation keeps the counters natural numbers. *)
LEMMA InvokeType ==
  ASSUME TypeOK, NEW cb \in Callbacks, NEW units \in Nat, Invoke(cb, units)
  PROVE  calls' \in [Callbacks -> Nat] /\ late' \in [Callbacks -> Nat]
  BY DEF TypeOK, Invoke

-----------------------------------------------------------------------------
(* Type correctness, by induction over the steps *)

(* A request starts with every variable of its type. *)
LEMMA TypeInit == Init => TypeOK
<1> SUFFICES ASSUME Init PROVE TypeOK
  OBVIOUS
<1>1. peer \in PeerStates
  BY BoundAssumption DEF Init, NoResponse, Responses, PeerStates
<1>2. rx \in ReceiveLocals
  BY BoundAssumption DEF Init, FreshRx, ReceiveLocals
<1>3. calls \in [Callbacks -> Nat] /\ late \in [Callbacks -> Nat]
  BY DEF Init
<1>4. redirectCount \in 0..(CounterModulus - 1) /\ unsent \in 0..RequestUnits
      /\ remain \in 0..Ticks /\ clockSets \in 0..MaxClockSets
  BY CounterAssumption, BoundAssumption DEF Init
<1>5. socket \in Sockets
  BY DEF Init, NullSocket, Sockets
<1> QED BY <1>1, <1>2, <1>3, <1>4, <1>5 DEF Init, TypeOK, WorkerSteps, ResultCodes, Links

(* Every step of the worker, the owner and the clock keeps the types. *)
LEMMA TypeNext == TypeOK /\ [Next]_vars => TypeOK'
<1> SUFFICES ASSUME TypeOK, [Next]_vars PROVE TypeOK'
  OBVIOUS
<1> USE BuildAssumption, CallerAssumption
<1>1. CASE Process
  BY <1>1 DEF TypeOK, Process, HandleErrorResponse, ResultCodes, WorkerSteps,
    network, history, owner
<1>2. CASE OnError
  BY <1>2 DEF TypeOK, OnError, Invoke, Callbacks, WorkerSteps, worker,
    network, owner
<1>3. CASE CheckDisconnected
  BY <1>3 DEF TypeOK, CheckDisconnected, Guarded, WorkerSteps, worker,
    network, history, owner
<1>4. CASE OnDisconnected
  BY <1>4 DEF TypeOK, OnDisconnected, Invoke, ClosedByDestructor, Callbacks,
    NullSocket, Sockets, WorkerSteps, network, owner
<1>5. CASE Resolve
  BY <1>5 DEF TypeOK, Resolve, HandleErrorResponse, ResultCodes, WorkerSteps,
    network, history, owner
<1>6. CASE CreateSocket
  <2>1. socket' \in Sockets
    <3>1. socket' = NullSocket
          \/ socket' \in [kind : {IF url = "https" THEN "tls" ELSE "plain"}, fd : BOOLEAN]
      BY <1>6 DEF CreateSocket
    <3>2. {IF url = "https" THEN "tls" ELSE "plain"} \subseteq {"null", "plain", "tls"}
      OBVIOUS
    <3>3. CASE socket' = NullSocket
      BY <3>3 DEF Sockets, NullSocket
    <3>4. CASE socket' \in [kind : {IF url = "https" THEN "tls" ELSE "plain"}, fd : BOOLEAN]
      BY <3>2, <3>4 DEF Sockets
    <3> QED BY <3>1, <3>3, <3>4
  <2>2. fds' \in [opened : Nat, closed : Nat]
    BY <1>6 DEF TypeOK, CreateSocket, ClosedByDestructor
  <2> QED
    BY <1>6, <2>1, <2>2
    DEF TypeOK, CreateSocket, HandleErrorResponse, WorkerSteps, ResultCodes, Links, owner
<1>7. CASE CheckTime
  BY <1>7 DEF TypeOK, CheckTime, HandleErrorResponse, ResultCodes,
    WorkerSteps, network, history, owner
<1>8. CASE Connect
  <2>1. PICK out \in ConnectOutcomes(socket.kind, socket.fd) :
          /\ socket' = [socket EXCEPT !.fd = out.fd]
          /\ fds' = [fds EXCEPT !.closed = @ + (IF socket.fd /\ ~out.fd THEN 1 ELSE 0)]
          /\ link' = out.link
          /\ \/ Invoke("onConnected", 1) /\ pc' = "canSend" /\ UNCHANGED <<err, ret>>
             \/ HandleErrorResponse(out.code, "done") /\ UNCHANGED <<calls, late>>
    BY <1>8 DEF Connect
  <2>2. socket.fd \in BOOLEAN
    BY DEF TypeOK, Sockets
  <2>3. out.code \in ResultCodes /\ out.fd \in BOOLEAN /\ out.link \in Links
    BY <2>2, ConnectOutcomeType
  <2>4. socket' \in Sockets /\ fds' \in [opened : Nat, closed : Nat] /\ link' \in Links
    BY <2>1, <2>3 DEF TypeOK, Sockets
  <2>5. calls' \in [Callbacks -> Nat] /\ late' \in [Callbacks -> Nat]
    BY <2>1, InvokeType DEF TypeOK, Callbacks
  <2>6. err' \in ResultCodes /\ ret' \in {"done", "redirectGo", "checkTime"}
        /\ pc' \in WorkerSteps
    BY <2>1, <2>3 DEF TypeOK, HandleErrorResponse, WorkerSteps
  <2> QED BY <1>8, <2>4, <2>5, <2>6 DEF TypeOK, Connect, owner
<1>9. CASE CanSend
  BY <1>9, BoundAssumption DEF TypeOK, CanSend, HandleErrorResponse,
    ResultCodes, Links, WorkerSteps, history, owner
<1>10. CASE Send
  <2>1. unsent' \in 0..RequestUnits
    BY <1>10, BoundAssumption DEF TypeOK, Send
  <2>2. peer' \in PeerStates
    BY <1>10, BoundAssumption DEF TypeOK, Send, WireLength, Responses, PeerStates
  <2>3. FreshRx \in ReceiveLocals
    BY BoundAssumption DEF FreshRx, ReceiveLocals
  <2>4. rx' \in ReceiveLocals
    BY <1>10, <2>3 DEF TypeOK, Send
  <2> QED BY <1>10, <2>1, <2>2, <2>4 DEF TypeOK, Send, WorkerSteps, owner, history
<1>11. CASE SendFailed
  BY <1>11 DEF TypeOK, SendFailed, SendFailures, HandleErrorResponse, ResultCodes,
    WorkerSteps, network, history, owner
<1>12. CASE IsReceivable
  BY <1>12 DEF TypeOK, IsReceivable, Disconnected, WorkerSteps, network,
    history, owner
<1>13. CASE SelectReadable
  BY <1>13 DEF TypeOK, SelectReadable, WorkerSteps, worker, network, history,
    owner
<1>14. CASE SelectTimeout
  BY <1>14 DEF TypeOK, SelectTimeout, HandleErrorResponse, ResultCodes,
    WorkerSteps, network, history, owner
<1>15. CASE SelectInterrupted
  BY <1>15 DEF TypeOK, SelectInterrupted, HandleErrorResponse, ResultCodes,
    WorkerSteps, network, history, owner
<1>16. CASE SelectFailed
  BY <1>16 DEF TypeOK, SelectFailed, HandleErrorResponse, ResultCodes,
    WorkerSteps, network, history, owner
<1>17. CASE RecvRetry
  BY <1>17 DEF TypeOK, RecvRetry, WorkerSteps, worker, network, history, owner
<1>18. CASE RecvClosed
  BY <1>18 DEF TypeOK, RecvClosed, Disconnected, WorkerSteps, network, owner
<1>19. CASE RecvFailed
  BY <1>19 DEF TypeOK, RecvFailed, ReceiveFailures, HandleErrorResponse, ResultCodes,
    WorkerSteps, network, history, owner
<1>20. CASE RecvHeaderPart
  <2>1. peer.header - 1 \in Nat
    BY <1>20 DEF TypeOK, RecvHeaderPart, PeerStates
  <2>2. peer' \in PeerStates
    BY <1>20, <2>1 DEF TypeOK, RecvHeaderPart, PeerStates
  <2> QED BY <1>20, <2>2
          DEF TypeOK, RecvHeaderPart, WorkerSteps, worker, owner, history
<1>21. CASE RecvHeader
  <2>1. rx \in ReceiveLocals /\ peer \in PeerStates
    BY DEF TypeOK
  <2>2. PICK n \in 0..peer.body :
          /\ peer' = [peer EXCEPT !.header = 0, !.body = @ - n]
          /\ \/ rx' = [rx EXCEPT !.parsed = TRUE]
             \/ rx' = [rx EXCEPT
                         !.parsed = TRUE,
                         !.contentLength = IF peer.response.framing = "length"
                                           THEN peer.response.length ELSE @,
                         !.chunked = peer.response.framing = "chunked",
                         !.view = n]
    BY <1>21 DEF RecvHeader
  <2>3. peer' \in PeerStates
    BY <2>1, <2>2, PeerSends
  <2>4. peer.response.length \in Nat
    BY <2>1, BoundAssumption DEF PeerStates, Responses
  <2>5. n \in Nat
    BY <2>1 DEF PeerStates
  <2>6. rx' \in ReceiveLocals
    BY <2>1, <2>2, <2>4, <2>5 DEF ReceiveLocals
  <2>7. hops' \in Nat
    BY <1>21 DEF TypeOK, RecvHeader
  <2>8. pc' \in WorkerSteps
    BY <1>21 DEF RecvHeader, WorkerSteps
  <2> QED BY <1>21, <2>3, <2>6, <2>7, <2>8 DEF TypeOK, RecvHeader, owner
<1>22. CASE RecvBody
  <2>1. rx \in ReceiveLocals /\ peer \in PeerStates
    BY DEF TypeOK
  <2>2. PICK n \in 0..peer.body :
          peer' = [peer EXCEPT !.body = @ - n] /\ rx' = [rx EXCEPT !.view = n]
    BY <1>22, <2>1 DEF RecvBody, PeerStates
  <2>3. peer' \in PeerStates
    BY <2>1, <2>2, PeerSends DEF PeerStates
  <2>4. rx' \in ReceiveLocals
    BY <2>1, <2>2 DEF ReceiveLocals, PeerStates
  <2> QED BY <1>22, <2>3, <2>4 DEF TypeOK, RecvBody, WorkerSteps, owner, history
<1>23. CASE ResponseHeader
  BY <1>23 DEF TypeOK, ResponseHeader, Guarded, WorkerSteps, worker, network,
    history, owner
<1>24. CASE OnParseHeaderDone
  BY <1>24 DEF TypeOK, OnParseHeaderDone, Invoke, Callbacks, WorkerSteps,
    worker, network, owner
<1>25. CASE Body
  <2> DEFINE received  == rx.recvLength + rx.view
             completed == ~rx.chunked /\ rx.recvLength + rx.view >= rx.contentLength
             piece     == IF rx.chunked THEN 0 ELSE rx.view
  <2>1. rx \in ReceiveLocals
    BY DEF TypeOK
  <2>2. rx' = [rx EXCEPT !.recvLength = received, !.completed = completed,
                         !.piece = piece]
    BY <1>25 DEF Body
  <2>3. completed \in BOOLEAN
    OBVIOUS
  <2>4. received \in Nat /\ piece \in Nat
    BY <2>1 DEF ReceiveLocals
  <2>5. rx' \in ReceiveLocals
    <3> HIDE DEF received, completed, piece
    <3> QED BY <2>1, <2>2, <2>3, <2>4 DEF ReceiveLocals
  <2> QED BY <1>25, <2>5 DEF TypeOK, Body, WorkerSteps, network, history, owner
<1>26. CASE ResponseData
  BY <1>26 DEF TypeOK, ResponseData, Guarded, WorkerSteps, worker, network,
    history, owner
<1>27. CASE OnData
  BY <1>27 DEF TypeOK, OnData, Invoke, Callbacks, WorkerSteps, ReceiveLocals,
    worker, network, owner
<1>28. CASE BodyEnd
  BY <1>28 DEF TypeOK, BodyEnd, Disconnected, WorkerSteps, network, history,
    owner
<1>29. CASE ParseChunkData
  <2>1. PICK n \in 1..(rx.view - LastChunkIn) :
          rx' = [rx EXCEPT !.view = @ - n, !.piece = n]
    BY <1>29 DEF ParseChunkData
  <2>2. LastChunkIn \in 0..1
    BY DEF LastChunkIn
  <2>3. n \in Nat /\ rx.view - n \in Nat
    BY <2>1, <2>2 DEF TypeOK, ReceiveLocals
  <2>4. rx' \in ReceiveLocals
    BY <2>1, <2>3 DEF TypeOK, ReceiveLocals
  <2> QED BY <1>29, <2>4
          DEF TypeOK, ParseChunkData, WorkerSteps, network, history, owner
<1>30. CASE ParseLastChunk
  <2>1. rx \in ReceiveLocals
    BY DEF TypeOK
  <2>2. rx' = [rx EXCEPT !.view = 0, !.completed = TRUE]
    BY <1>30 DEF ParseLastChunk
  <2>3. rx' \in ReceiveLocals
    BY <2>1, <2>2 DEF ReceiveLocals
  <2> QED BY <1>30, <2>3
          DEF TypeOK, ParseLastChunk, WorkerSteps, network, history, owner
<1>31. CASE ParseChunkEnd
  BY <1>31 DEF TypeOK, ParseChunkEnd, WorkerSteps, worker, network, history,
    owner
<1>32. CASE ChunkSizeError
  BY <1>32 DEF TypeOK, ChunkSizeError, HandleErrorResponse, ResultCodes,
    WorkerSteps, network, history, owner
<1>33. CASE ParseChunkThrows
  BY <1>33 DEF TypeOK, ParseChunkThrows, WorkerSteps, worker, network,
    history, owner
<1>34. CASE Redirect
  BY <1>34 DEF TypeOK, Redirect, HandleErrorResponse, ResultCodes,
    WorkerSteps, network, history, owner
<1>35. CASE RedirectGo
  <2>1. redirectCount' \in 0..(CounterModulus - 1)
    BY <1>35, CounterAssumption DEF TypeOK, RedirectGo
  <2>2. url' \in Urls \cup {"invalid", "empty"}
    BY <1>35 DEF TypeOK, RedirectGo, PeerStates, Responses
  <2> QED BY <1>35, <2>1, <2>2
          DEF TypeOK, RedirectGo, HandleErrorResponse, WorkerSteps, ResultCodes,
              network, history, owner
<1>36. CASE Cancel
  BY <1>36 DEF TypeOK, Cancel, worker, network, history
<1>37. CASE Destroy
  BY <1>37 DEF TypeOK, Destroy, WorkerSteps, worker, network, history
<1>38. CASE Join
  BY <1>38 DEF TypeOK, Join, ClosedByDestructor, NullSocket, Sockets,
    WorkerSteps, network
<1>39. CASE Tick
  BY <1>39, BoundAssumption DEF TypeOK, Tick, WorkerSteps, worker, network,
    history
<1>40. CASE SetClock
  BY <1>40, BoundAssumption DEF TypeOK, SetClock, WorkerSteps, worker, network,
    history
<1>41. CASE UNCHANGED vars
  BY <1>41 DEF TypeOK, vars
<1> QED
  BY <1>1, <1>2, <1>3, <1>4, <1>5, <1>6, <1>7, <1>8, <1>9, <1>10, <1>11,
     <1>12, <1>13, <1>14, <1>15, <1>16, <1>17, <1>18, <1>19, <1>20, <1>21,
     <1>22, <1>23, <1>24, <1>25, <1>26, <1>27, <1>28, <1>29, <1>30, <1>31,
     <1>32, <1>33, <1>34, <1>35, <1>36, <1>37, <1>38, <1>39, <1>40, <1>41
     DEF Next, Worker

(* Every variable keeps its type: the redirect counter its width, the      *)
(* counts of bytes left to send and of time left never negative.           *)
THEOREM TypeCorrect == Spec => []TypeOK
  BY TypeInit, TypeNext, PTL DEF Spec

-----------------------------------------------------------------------------
(* The pointer socket_ is never dereferenced while it is null. The         *)
(* invariant says from which step of a hop on the socket exists, that a    *)
(* hop is only begun for a URL the build can serve, and that the report of *)
(* an error never goes back to a step that needs the socket it has just    *)
(* released.                                                               *)

(* receive() between the end of one turn and the bytes of the next; while  *)
(* it is waiting for the response header or for more of it.                *)
Reading == {"isReceivable", "select", "recv"}
ReadingHeader == pc \in Reading /\ ~rx.parsed

(* The steps between the creation of a hop's socket and its release. *)
HoldingSocket ==
  {"checkTime", "connect", "canSend", "send", "isReceivable", "select", "recv",
   "responseHeader", "onParseHeaderDone", "body", "parseChunk", "responseData",
   "onData", "bodyEnd"}

SocketInv ==
  /\ pc \in HoldingSocket => socket.kind # "null"
  /\ pc \in {"resolve", "create"} => isHttpScheme(url)
  /\ ret # "checkTime"
  /\ user = "destroyed" => pc = "done"

(* A request that has not started holds no socket and needs none. *)
LEMMA SocketInvInit == Init => SocketInv
  BY DEF Init, SocketInv, HoldingSocket

(* Every step keeps a socket behind the steps that use one: whoever        *)
(* releases it in disconnected() leaves the functions that would use it.   *)
LEMMA SocketInvNext == TypeOK /\ SocketInv /\ [Next]_vars => SocketInv'
<1> SUFFICES ASSUME TypeOK, SocketInv, [Next]_vars PROVE SocketInv'
  OBVIOUS
<1>1. CASE Process
  BY <1>1 DEF SocketInv, HoldingSocket, isHttpScheme, Process,
    HandleErrorResponse, network, history, owner
<1>2. CASE OnError
  BY <1>2 DEF SocketInv, HoldingSocket, OnError, Invoke, worker, network,
    owner
<1>3. CASE CheckDisconnected
  <2>1. ret \in {"done", "redirectGo"}
    BY DEF TypeOK, SocketInv
  <2>2. pc' \in {"onDisconnected", ret} /\ pc = "disconnected" /\ UNCHANGED <<ret, user>>
    BY <1>3 DEF CheckDisconnected, worker, owner
  <2> QED BY <2>1, <2>2 DEF SocketInv, HoldingSocket
<1>4. CASE OnDisconnected
  <2>1. ret \in {"done", "redirectGo"}
    BY DEF TypeOK, SocketInv
  <2>2. pc' = ret /\ pc = "onDisconnected" /\ UNCHANGED <<ret, user>>
    BY <1>4 DEF OnDisconnected, owner
  <2> QED BY <2>1, <2>2 DEF SocketInv, HoldingSocket
<1>5. CASE Resolve
  BY <1>5 DEF SocketInv, HoldingSocket, Resolve, HandleErrorResponse, network,
    history, owner
<1>6. CASE CreateSocket
  <2>1. socket' \in [kind : {IF url = "https" THEN "tls" ELSE "plain"}, fd : BOOLEAN]
        /\ pc' = "checkTime" /\ UNCHANGED <<err, ret, user>>
    BY <1>6 DEF SocketInv, isHttpScheme, CreateSocket, owner
  <2>2. socket'.kind # "null"
    BY <2>1
  <2>3. pc = "create"
    BY <1>6 DEF CreateSocket
  <2> QED BY <2>1, <2>2, <2>3 DEF SocketInv, HoldingSocket
<1>7. CASE CheckTime
  BY <1>7 DEF SocketInv, HoldingSocket, CheckTime, HandleErrorResponse,
    network, history, owner
<1>8. CASE Connect
  <2>1. socket'.kind = socket.kind
    BY <1>8 DEF TypeOK, Sockets, Connect
  <2> QED BY <1>8, <2>1 DEF SocketInv, HoldingSocket, Connect, HandleErrorResponse, owner
<1>9. CASE CanSend
  BY <1>9 DEF SocketInv, HoldingSocket, CanSend, HandleErrorResponse, history,
    owner
<1>10. CASE Send
  BY <1>10 DEF SocketInv, HoldingSocket, Send, history, owner
<1>11. CASE SendFailed
  BY <1>11 DEF SocketInv, HoldingSocket, SendFailed, HandleErrorResponse,
    network, history, owner
<1>12. CASE IsReceivable
  BY <1>12 DEF SocketInv, HoldingSocket, IsReceivable, Disconnected, network,
    history, owner
<1>13. CASE SelectReadable
  BY <1>13 DEF SocketInv, HoldingSocket, SelectReadable, worker, network,
    history, owner
<1>14. CASE SelectTimeout
  BY <1>14 DEF SocketInv, HoldingSocket, SelectTimeout, HandleErrorResponse,
    network, history, owner
<1>15. CASE SelectInterrupted
  BY <1>15 DEF SocketInv, HoldingSocket, SelectInterrupted,
    HandleErrorResponse, network, history, owner
<1>16. CASE SelectFailed
  BY <1>16 DEF SocketInv, HoldingSocket, SelectFailed, HandleErrorResponse,
    network, history, owner
<1>17. CASE RecvRetry
  BY <1>17 DEF SocketInv, HoldingSocket, RecvRetry, worker, network, history,
    owner
<1>18. CASE RecvClosed
  BY <1>18 DEF SocketInv, HoldingSocket, RecvClosed, Disconnected, network,
    owner
<1>19. CASE RecvFailed
  BY <1>19 DEF SocketInv, HoldingSocket, RecvFailed, HandleErrorResponse,
    network, history, owner
<1>20. CASE RecvHeaderPart
  BY <1>20 DEF SocketInv, HoldingSocket, RecvHeaderPart, worker, history,
    owner
<1>21. CASE RecvHeader
  BY <1>21 DEF SocketInv, HoldingSocket, RecvHeader, owner
<1>22. CASE RecvBody
  BY <1>22 DEF SocketInv, HoldingSocket, RecvBody, history, owner
<1>23. CASE ResponseHeader
  BY <1>23 DEF SocketInv, HoldingSocket, ResponseHeader, Guarded, worker,
    network, history, owner
<1>24. CASE OnParseHeaderDone
  BY <1>24 DEF SocketInv, HoldingSocket, OnParseHeaderDone, Invoke, worker,
    network, owner
<1>25. CASE Body
  BY <1>25 DEF SocketInv, HoldingSocket, Body, network, history, owner
<1>26. CASE ResponseData
  BY <1>26 DEF SocketInv, HoldingSocket, ResponseData, Guarded, worker,
    network, history, owner
<1>27. CASE OnData
  BY <1>27 DEF SocketInv, HoldingSocket, OnData, Invoke, worker, network,
    owner
<1>28. CASE BodyEnd
  BY <1>28 DEF SocketInv, HoldingSocket, BodyEnd, Disconnected, network,
    history, owner
<1>29. CASE ParseChunkData
  BY <1>29 DEF SocketInv, HoldingSocket, ParseChunkData, network, history,
    owner
<1>30. CASE ParseLastChunk
  BY <1>30 DEF SocketInv, HoldingSocket, ParseLastChunk, network, history,
    owner
<1>31. CASE ParseChunkEnd
  BY <1>31 DEF SocketInv, HoldingSocket, ParseChunkEnd, worker, network,
    history, owner
<1>32. CASE ChunkSizeError
  BY <1>32 DEF SocketInv, HoldingSocket, ChunkSizeError, HandleErrorResponse,
    network, history, owner
<1>33. CASE ParseChunkThrows
  BY <1>33 DEF SocketInv, HoldingSocket, ParseChunkThrows, worker, network,
    history, owner
<1>34. CASE Redirect
  BY <1>34 DEF SocketInv, HoldingSocket, Redirect, HandleErrorResponse,
    network, history, owner
<1>35. CASE RedirectGo
  BY <1>35 DEF SocketInv, HoldingSocket, isHttpScheme, RedirectGo,
    HandleErrorResponse, network, history, owner
<1>36. CASE Cancel
  BY <1>36 DEF SocketInv, HoldingSocket, Cancel, worker, network, history
<1>37. CASE Destroy
  BY <1>37 DEF SocketInv, HoldingSocket, Destroy, worker, network, history
<1>38. CASE Join
  BY <1>38 DEF SocketInv, HoldingSocket, Join, network
<1>39. CASE Tick
  BY <1>39 DEF SocketInv, HoldingSocket, Tick, worker, network, history
<1>40. CASE SetClock
  BY <1>40 DEF SocketInv, HoldingSocket, SetClock, worker, network, history
<1>41. CASE UNCHANGED vars
  BY <1>41 DEF vars, SocketInv, HoldingSocket
<1> QED
  BY <1>1, <1>2, <1>3, <1>4, <1>5, <1>6, <1>7, <1>8, <1>9, <1>10, <1>11,
     <1>12, <1>13, <1>14, <1>15, <1>16, <1>17, <1>18, <1>19, <1>20, <1>21,
     <1>22, <1>23, <1>24, <1>25, <1>26, <1>27, <1>28, <1>29, <1>30, <1>31,
     <1>32, <1>33, <1>34, <1>35, <1>36, <1>37, <1>38, <1>39, <1>40, <1>41
     DEF Next, Worker

(* Wherever the worker may still use socket_ it holds a socket. *)
THEOREM SocketInvariant == Spec => []SocketInv
  BY TypeCorrect, SocketInvInit, SocketInvNext, PTL DEF Spec

(* No step of send() or receive(), and no connect, finds socket_ null: not *)
(* after disconnected() released it, not when redirect() goes on past its  *)
(* limit, and not for an https URL in a build without HTTPS.               *)
THEOREM SocketNeverNull == Spec => []NoNullDereference
<1>1. SocketInv => NoNullDereference
  BY DEF SocketInv, NoNullDereference, HoldingSocket
<1> QED BY <1>1, SocketInvariant, PTL

-----------------------------------------------------------------------------
(* Every descriptor is closed in the end, as long as no hop uses TLS:      *)
(* TSLSocket has no destructor, so with it the property fails. The         *)
(* invariant is the account of the descriptors while the request runs.     *)

NoTls == ~EnableHttps \/ "https" \notin Urls

DescriptorInv ==
  /\ fds.opened = fds.closed + (IF socket.fd THEN 1 ELSE 0)
  /\ socket.kind # "tls"
  /\ socket.kind = "null" => ~socket.fd
  /\ user = "destroyed" => ~socket.fd

(* A hop is begun for an http URL, if it cannot use TLS. *)
LEMMA PlainHop ==
  ASSUME NoTls, TypeOK, SocketInv, pc = "create"
  PROVE  url = "http"
  BY DEF NoTls, TypeOK, SocketInv, isHttpScheme

(* A socket without a descriptor has none after a connect either.          *)
LEMMA ConnectOpensNothing ==
  ASSUME NEW kind, NEW out \in ConnectOutcomes(kind, FALSE)
  PROVE  ~out.fd
<1>1. out = [code |-> "CreateSocketFailed", fd |-> FALSE, link |-> "idle"]
  BY DEF ConnectOutcomes
<1> QED BY <1>1

(* The steps of the owner's side and of the worker between connect and the *)
(* end of a hop leave the account alone.                                   *)
LEMMA AccountUntouched ==
  ASSUME [Next]_vars
  PROVE  \/ OnDisconnected \/ CreateSocket \/ Connect \/ Join
         \/ UNCHANGED <<socket, fds>> /\ (user' = user \/ user' = "joining")
<1> USE DEF worker, network, history, owner
<1>1. CASE Worker
  <2>1. CASE Process \/ OnError \/ CheckDisconnected \/ Resolve \/ CheckTime
    BY <2>1 DEF Process, OnError, CheckDisconnected, Resolve, CheckTime
  <2>2. CASE CanSend \/ Send \/ SendFailed \/ IsReceivable \/ SelectReadable
    BY <2>2 DEF CanSend, Send, SendFailed, IsReceivable, SelectReadable
  <2>3. CASE SelectTimeout \/ SelectInterrupted \/ SelectFailed \/ RecvRetry \/ RecvClosed
    BY <2>3 DEF SelectTimeout, SelectInterrupted, SelectFailed, RecvRetry, RecvClosed
  <2>4. CASE RecvFailed \/ RecvHeaderPart \/ RecvHeader \/ RecvBody \/ ResponseHeader
    BY <2>4 DEF RecvFailed, RecvHeaderPart, RecvHeader, RecvBody, ResponseHeader
  <2>5. CASE OnParseHeaderDone \/ Body \/ ResponseData \/ OnData \/ BodyEnd
    BY <2>5 DEF OnParseHeaderDone, Body, ResponseData, OnData, BodyEnd
  <2>6. CASE ParseChunkData \/ ParseLastChunk \/ ParseChunkEnd \/ ChunkSizeError
    BY <2>6 DEF ParseChunkData, ParseLastChunk, ParseChunkEnd, ChunkSizeError
  <2>7. CASE ParseChunkThrows \/ Redirect \/ RedirectGo
    BY <2>7 DEF ParseChunkThrows, Redirect, RedirectGo
  <2> QED BY <1>1, <2>1, <2>2, <2>3, <2>4, <2>5, <2>6, <2>7 DEF Worker
<1>2. CASE Cancel \/ Destroy \/ Tick \/ SetClock
  BY <1>2 DEF Cancel, Destroy, Tick, SetClock
<1>3. CASE UNCHANGED vars
  BY <1>3 DEF vars
<1> QED BY <1>1, <1>2, <1>3 DEF Next

(* Every step that opens or closes a descriptor counts it, and whoever     *)
(* lets go of a socket closes what it has open.                            *)
LEMMA DescriptorInvNext ==
  ASSUME NoTls, TypeOK, SocketInv, DescriptorInv, [Next]_vars
  PROVE  DescriptorInv'
<1>0. /\ fds \in [opened : Nat, closed : Nat] /\ socket \in Sockets
      /\ socket.fd \in BOOLEAN /\ fds.opened \in Nat /\ fds.closed \in Nat
      /\ fds.opened = fds.closed + (IF socket.fd THEN 1 ELSE 0)
      /\ ClosedByDestructor(socket) = (IF socket.fd THEN 1 ELSE 0)
  BY DEF TypeOK, Sockets, DescriptorInv, ClosedByDestructor
<1>1. CASE OnDisconnected \/ Join
  <2>1. socket' = NullSocket /\ fds' = [fds EXCEPT !.closed = @ + ClosedByDestructor(socket)]
    BY <1>1 DEF OnDisconnected, Join
  <2>2. fds'.opened = fds.opened /\ fds'.closed = fds.closed + (IF socket.fd THEN 1 ELSE 0)
    BY <2>1, <1>0
  <2>3. ~socket'.fd /\ socket'.kind = "null"
    BY <2>1 DEF NullSocket
  <2>4. fds'.opened = fds'.closed
    BY <2>2, <1>0
  <2> QED BY <2>3, <2>4, <2>2, <1>0 DEF DescriptorInv
<1>2. CASE CreateSocket
  <2>1. url = "http"
    BY <1>2, PlainHop DEF CreateSocket
  <2>2. /\ socket' \in [kind : {"plain"}, fd : BOOLEAN]
        /\ fds' = [opened |-> fds.opened + (IF socket'.fd THEN 1 ELSE 0),
                   closed |-> fds.closed + ClosedByDestructor(socket)]
        /\ user' = user /\ pc = "create"
    BY <1>2, <2>1 DEF CreateSocket, owner
  <2>3. user' # "destroyed"
    BY <2>2 DEF SocketInv
  <2>4. fds'.opened = fds'.closed + (IF socket'.fd THEN 1 ELSE 0)
    BY <2>2, <1>0
  <2> QED BY <2>2, <2>3, <2>4 DEF DescriptorInv
<1>3. CASE Connect
  <2>1. PICK out \in ConnectOutcomes(socket.kind, socket.fd) :
          /\ socket' = [socket EXCEPT !.fd = out.fd]
          /\ fds' = [fds EXCEPT !.closed = @ + (IF socket.fd /\ ~out.fd THEN 1 ELSE 0)]
    BY <1>3 DEF Connect
  <2>2. out.fd \in BOOLEAN /\ (out.fd => socket.fd)
    <3>1. CASE ~socket.fd
      <4>1. socket.fd = FALSE /\ out \in ConnectOutcomes(socket.kind, FALSE)
        BY <1>0, <3>1
      <4>2. ~out.fd
        BY <4>1, ConnectOpensNothing
      <4>3. out.fd \in BOOLEAN
        BY <1>0, ConnectOutcomeType
      <4> QED BY <4>2, <4>3
    <3>2. CASE socket.fd
      BY <1>0, <2>1, <3>2, ConnectOutcomeType
    <3> QED BY <3>1, <3>2
  <2>3. socket'.fd = out.fd /\ socket'.kind = socket.kind
    BY <2>1, <1>0 DEF Sockets
  <2>4. fds'.opened = fds'.closed + (IF socket'.fd THEN 1 ELSE 0)
    BY <2>1, <2>2, <2>3, <1>0
  <2>5. pc = "connect" /\ user' = user
    BY <1>3 DEF Connect, owner
  <2> QED BY <2>2, <2>3, <2>4, <2>5 DEF DescriptorInv, SocketInv
<1>4. CASE UNCHANGED <<socket, fds>> /\ (user' = user \/ user' = "joining")
  BY <1>4 DEF DescriptorInv
<1> QED BY <1>1, <1>2, <1>3, <1>4, AccountUntouched

(* Without TLS every descriptor a socket opened is closed once the Request *)
(* is gone, however its hops ended: the sockets that the next hop replaced,*)
(* those that disconnected() reset and the last, which the destructor has. *)
THEOREM DescriptorsAreReleased ==
  ASSUME NoTls
  PROVE  Spec => []DescriptorsReleased
<1>1. Init => DescriptorInv
  BY DEF Init, DescriptorInv, NullSocket
<1>2. TypeOK /\ SocketInv /\ DescriptorInv /\ [Next]_vars => DescriptorInv'
  BY DescriptorInvNext
<1>3. TypeOK /\ DescriptorInv => DescriptorsReleased
  BY DEF TypeOK, DescriptorInv, DescriptorsReleased
<1> QED BY <1>1, <1>2, <1>3, TypeCorrect, SocketInvariant, PTL DEF Spec

(***************************************************************************)
(* With TLS that fails. How far it can fail, in any build and for any URLs,*)
(* is bounded: no descriptor is closed twice, not by disconnected() and    *)
(* the destructor nor by a failed connect and the next hop, and no hop     *)
(* opens more than one, so that at most one is leaked for each hop.        *)
(***************************************************************************)
DescriptorsCounted ==
  /\ fds.closed + (IF socket.fd THEN 1 ELSE 0) <= fds.opened
  /\ fds.opened <= hops + 1

(* The hop has no socket of its own yet; or the limit of redirects is being*)
(* reported, after which the next hop begins all the same.                 *)
Unopened ==
  \/ pc \in {"process", "resolve", "create", "redirect", "redirectGo"}
  \/ pc \in {"onError", "disconnected", "onDisconnected"} /\ ret = "redirectGo"

OpenedInv ==
  /\ fds.closed + (IF socket.fd THEN 1 ELSE 0) <= fds.opened
  /\ socket.kind = "null" => ~socket.fd
  /\ fds.opened <= IF Unopened THEN hops ELSE hops + 1

(* Only a redirect begins another hop.                                     *)
LEMMA HopsAreCounted ==
  ASSUME TypeOK, SocketInv, [Next]_vars
  PROVE  \/ CreateSocket
         \/ hops' = hops /\ (Unopened' => Unopened)
         \/ hops' = hops + 1
<1> USE DEF Unopened, WorkerSteps, TypeOK, SocketInv, HandleErrorResponse, Disconnected,
            worker, network, history, owner
<1>1. CASE Worker /\ ~CreateSocket
  <2>1. CASE Process \/ OnError \/ CheckDisconnected \/ Resolve \/ CheckTime
    BY <2>1 DEF Process, OnError, CheckDisconnected, Resolve, CheckTime
  <2>2. CASE CanSend \/ Send \/ SendFailed \/ IsReceivable \/ SelectReadable
    BY <2>2 DEF CanSend, Send, SendFailed, IsReceivable, SelectReadable
  <2>3. CASE SelectTimeout \/ SelectInterrupted \/ SelectFailed \/ RecvRetry \/ RecvClosed
    BY <2>3 DEF SelectTimeout, SelectInterrupted, SelectFailed, RecvRetry, RecvClosed
  <2>4. CASE RecvFailed \/ RecvHeaderPart \/ RecvBody \/ ResponseHeader \/ OnParseHeaderDone
    BY <2>4 DEF RecvFailed, RecvHeaderPart, RecvBody, ResponseHeader, OnParseHeaderDone
  <2>5. CASE Body \/ ResponseData \/ OnData \/ BodyEnd \/ ParseChunkData
    BY <2>5 DEF Body, ResponseData, OnData, BodyEnd, ParseChunkData
  <2>6. CASE ParseLastChunk \/ ParseChunkEnd \/ ChunkSizeError \/ ParseChunkThrows
    BY <2>6 DEF ParseLastChunk, ParseChunkEnd, ChunkSizeError, ParseChunkThrows
  <2>7. CASE Redirect \/ RedirectGo
    BY <2>7 DEF Redirect, RedirectGo
  <2>8. CASE OnDisconnected
    BY <2>8 DEF OnDisconnected
  <2>9. CASE Connect
    BY <2>9 DEF Connect
  <2>10. CASE RecvHeader
    <3>1. hops' = hops \/ hops' = hops + 1
      BY <2>10 DEF RecvHeader
    <3>2. hops' = hops => pc' = "responseHeader"
      BY <2>10 DEF RecvHeader
    <3> QED BY <3>1, <3>2
  <2> QED BY <1>1, <2>1, <2>2, <2>3, <2>4, <2>5, <2>6, <2>7, <2>8, <2>9, <2>10 DEF Worker
<1>2. CASE Cancel \/ Destroy \/ Tick \/ SetClock \/ Join
  BY <1>2 DEF Cancel, Destroy, Tick, SetClock, Join
<1>3. CASE UNCHANGED vars
  BY <1>3 DEF vars
<1> QED BY <1>1, <1>2, <1>3 DEF Next

(* A socket is closed at most once, by whoever lets go of it.              *)
LEMMA OpenedInvNext == TypeOK /\ SocketInv /\ OpenedInv /\ [Next]_vars => OpenedInv'
<1> SUFFICES ASSUME TypeOK, SocketInv, OpenedInv, [Next]_vars PROVE OpenedInv'
  OBVIOUS
<1> DEFINE Held == IF socket.fd THEN 1 ELSE 0
<1>0. /\ fds \in [opened : Nat, closed : Nat] /\ socket \in Sockets
      /\ socket.fd \in BOOLEAN /\ fds.opened \in Nat /\ fds.closed \in Nat /\ hops \in Nat
      /\ Held \in {0, 1} /\ fds.closed + Held <= fds.opened
      /\ ClosedByDestructor(socket) \in 0..Held
  BY DEF TypeOK, Sockets, OpenedInv, ClosedByDestructor
<1>1. fds.opened <= hops + 1 /\ (Unopened => fds.opened <= hops)
  BY <1>0 DEF OpenedInv
<1>2. CASE OnDisconnected \/ Join
  <2>1. /\ socket' = NullSocket /\ fds'.opened = fds.opened
        /\ fds'.closed = fds.closed + ClosedByDestructor(socket) /\ hops' = hops
    BY <1>2, <1>0 DEF OnDisconnected, Join, worker, history
  <2>2. Unopened' => Unopened
    BY <1>2 DEF OnDisconnected, Join, Unopened, worker, history, SocketInv, TypeOK, WorkerSteps
  <2>3. ~socket'.fd /\ socket'.kind = "null"
    BY <2>1 DEF NullSocket
  <2>4. fds'.closed <= fds'.opened /\ fds'.closed \in Nat
    BY <2>1, <1>0
  <2> QED BY <2>1, <2>2, <2>3, <2>4, <1>0, <1>1 DEF OpenedInv
<1>3. CASE CreateSocket
  <2>1. /\ fds'.opened = fds.opened + (IF socket'.fd THEN 1 ELSE 0)
        /\ fds'.closed = fds.closed + ClosedByDestructor(socket)
        /\ hops' = hops
    BY <1>3 DEF CreateSocket
  <2>4. socket'.fd \in BOOLEAN /\ (socket'.kind = "null" => ~socket'.fd)
    <3>1. CASE url = "https" /\ ~EnableHttps
      <4>1. socket' = NullSocket
        BY <1>3, <3>1 DEF CreateSocket
      <4> QED BY <4>1 DEF NullSocket
    <3>2. CASE ~(url = "https" /\ ~EnableHttps)
      <4>1. socket' \in [kind : {"tls", "plain"}, fd : BOOLEAN]
        BY <1>3, <3>2 DEF CreateSocket
      <4> QED BY <4>1
    <3> QED BY <3>1, <3>2
  <2>2. fds.opened <= hops
    BY <1>3, <1>1 DEF CreateSocket, Unopened
  <2>3. ~Unopened'
    BY <1>3 DEF CreateSocket, HandleErrorResponse, Unopened
  <2> QED BY <2>1, <2>2, <2>3, <2>4, <1>0 DEF OpenedInv
<1>4. CASE Connect
  <2>1. PICK out \in ConnectOutcomes(socket.kind, socket.fd) :
          /\ socket' = [socket EXCEPT !.fd = out.fd]
          /\ fds' = [fds EXCEPT !.closed = @ + (IF socket.fd /\ ~out.fd THEN 1 ELSE 0)]
    BY <1>4 DEF Connect
  <2>2. out.fd \in BOOLEAN /\ (out.fd => socket.fd)
    <3>1. CASE ~socket.fd
      <4>1. socket.fd = FALSE /\ out \in ConnectOutcomes(socket.kind, FALSE)
        BY <1>0, <3>1
      <4>2. ~out.fd
        BY <4>1, ConnectOpensNothing
      <4>3. out.fd \in BOOLEAN
        BY <1>0, ConnectOutcomeType
      <4> QED BY <4>2, <4>3
    <3>2. CASE socket.fd
      BY <1>0, <2>1, <3>2, ConnectOutcomeType
    <3> QED BY <3>1, <3>2
  <2>3. socket'.fd = out.fd /\ socket'.kind = socket.kind
    BY <2>1, <1>0 DEF Sockets
  <2>4. hops' = hops /\ (Unopened' => Unopened)
    BY <1>4 DEF Connect, HandleErrorResponse, Unopened
  <2>5. socket.kind # "null"
    BY <1>4 DEF Connect, SocketInv, HoldingSocket
  <2>6. /\ fds'.opened = fds.opened
        /\ fds'.closed = fds.closed + (IF socket.fd /\ ~out.fd THEN 1 ELSE 0)
    BY <2>1, <1>0
  <2> QED BY <2>2, <2>3, <2>4, <2>5, <2>6, <1>0, <1>1 DEF OpenedInv
<1>5. CASE UNCHANGED <<socket, fds>> /\ ~CreateSocket
  <2>1. (hops' = hops /\ (Unopened' => Unopened)) \/ hops' = hops + 1
    BY <1>5, HopsAreCounted
  <2> HIDE DEF Unopened
  <2> QED BY <1>5, <2>1, <1>0, <1>1 DEF OpenedInv
<1> QED BY <1>2, <1>3, <1>4, <1>5, AccountUntouched

(* Of the descriptors a request opens none is closed twice, and at most one*)
(* for each hop is leaked, with TLS and redirects past the limit too.      *)
THEOREM LeaksAreBounded == Spec => []DescriptorsCounted
<1>1. Init => OpenedInv
  BY DEF Init, OpenedInv, Unopened, NullSocket
<1>2. TypeOK /\ OpenedInv => DescriptorsCounted
  BY DEF TypeOK, OpenedInv, DescriptorsCounted
<1> QED BY <1>1, <1>2, OpenedInvNext, TypeCorrect, SocketInvariant, PTL DEF Spec

-----------------------------------------------------------------------------
(***************************************************************************)
(* onData gets the response body, whole and no more. BodyIntact speaks of  *)
(* the end of a request; the invariant is the account that receive() keeps *)
(* on the way there: the units the peer still has, those read and those    *)
(* handed over add up to what the response has on the wire, from the read  *)
(* that completes the header on.                                           *)
(***************************************************************************)

(* The steps of a hop before receive(), and of a redirect after it *)
Hops ==
  {"process", "resolve", "create", "checkTime", "connect", "canSend", "send", "redirect",
   "redirectGo"}

(* Bytes read and not counted yet, and bytes counted and being handed over *)
Uncounted == {"responseHeader", "onParseHeaderDone", "body"}
Handing == {"parseChunk", "responseData", "onData"}

(* The header is complete and is not that of a redirect to be followed. *)
InBody == pc \in Uncounted \cup Handing \cup {"bodyEnd"} \/ (pc \in Reading /\ rx.parsed)

(* Units counted by recvLength that onData will not have got: those it has *)
(* not got yet, and at the end of a chunked body the last, empty chunk.    *)
Pending ==
  IF pc \in {"responseData", "onData"} THEN rx.piece + (IF rx.chunked THEN rx.view ELSE 0)
  ELSE IF pc = "parseChunk" THEN rx.view
  ELSE IF pc = "bodyEnd" /\ rx.chunked /\ rx.completed THEN 1
  ELSE 0

(* The responses of redirects that are followed hand nothing over. *)
NothingHanded ==
  \/ pc \in Hops
  \/ ReadingHeader
  \/ pc \in {"onError", "disconnected", "onDisconnected"} /\ ret = "redirectGo"
  => calls["onData"] = 0

HeaderAwaited ==
  ReadingHeader => rx = FreshRx /\ peer.body = WireLength(peer.response)

FramingKnown ==
  InBody =>
    /\ rx.parsed
    /\ rx.chunked <=> peer.response.framing = "chunked"
    /\ ~rx.chunked => rx.contentLength = IF peer.response.framing = "length"
                                         THEN peer.response.length ELSE Int64Max
    /\ pc = "parseChunk" => rx.chunked

Accounted ==
  InBody =>
    /\ rx.recvLength + (IF pc \in Uncounted THEN rx.view ELSE 0) + peer.body
         = WireLength(peer.response)
    /\ calls["onData"] <= rx.recvLength - Pending
    /\ isValid /\ "onData" \in info.on => calls["onData"] = rx.recvLength - Pending

(* isCompleted is set when the announced length is reached or by the last  *)
(* chunk, and until then the last chunk is still to come.                  *)
CompletedAtEnd ==
  /\ pc \in {"responseData", "onData", "bodyEnd"} /\ ~rx.chunked /\ rx.completed
       => rx.recvLength >= rx.contentLength
  /\ InBody /\ rx.chunked =>
       \/ pc = "bodyEnd" /\ rx.completed /\ peer.body = 0
       \/ /\ pc \in Handing \cup {"bodyEnd"} => ~rx.completed
          /\ peer.body + (IF pc \in Uncounted \cup Handing THEN rx.view ELSE 0) > 0

EndedWhole ==
  /\ pc = "onError" \/ ret = "redirectGo" => err # "Success"
  /\ /\ pc \in {"disconnected", "onDisconnected", "done"}
     /\ err = "Success" /\ isValid /\ ~eof /\ "onData" \in info.on
     => calls["onData"] = peer.response.length

BodyInv ==
  /\ calls["onData"] <= peer.response.length
  /\ NothingHanded
  /\ HeaderAwaited
  /\ FramingKnown
  /\ Accounted
  /\ CompletedAtEnd
  /\ EndedWhole

-----------------------------------------------------------------------------
(* Lemmas: the kinds of steps that leave the account alone *)

(* What a response has on the wire: its body, and the last chunk.          *)
LEMMA ResponseLengths ==
  ASSUME TypeOK
  PROVE  /\ peer.response.length \in Nat /\ peer.response.length < Int64Max
         /\ peer.body \in Nat
         /\ WireLength(peer.response)
              = peer.response.length + (IF peer.response.framing = "chunked" THEN 1 ELSE 0)
         /\ calls["onData"] \in Nat
         /\ rx.recvLength \in Nat /\ rx.view \in Nat /\ rx.piece \in Nat
         /\ rx.contentLength \in Nat
         /\ rx.chunked \in BOOLEAN /\ rx.completed \in BOOLEAN /\ rx.parsed \in BOOLEAN
<1>1. peer \in PeerStates /\ rx \in ReceiveLocals /\ calls \in [Callbacks -> Nat]
  BY DEF TypeOK
<1>2. peer.response \in Responses /\ peer.body \in Nat
  BY <1>1 DEF PeerStates
<1>3. peer.response.length \in 0..MaxBody
  BY <1>2, BoundAssumption DEF Responses
<1> QED BY <1>1, <1>2, <1>3, BoundAssumption DEF WireLength, ReceiveLocals, Callbacks

(* An error leaves receive() and hands nothing over any more.              *)
LEMMA ErrorKeeps ==
  ASSUME BodyInv, NEW code, NEW next, HandleErrorResponse(code, next), code # "Success",
         next = "redirectGo" => calls["onData"] = 0,
         UNCHANGED <<peer, calls>>
  PROVE  BodyInv'
  BY DEF BodyInv, HandleErrorResponse, NothingHanded, HeaderAwaited, FramingKnown, Accounted,
         CompletedAtEnd, EndedWhole, InBody, Hops, Uncounted, Handing, ReadingHeader, Reading

(* disconnected() ends a request without an error only when the whole body *)
(* was handed over, the peer closed, or it was cancelled.                  *)
LEMMA DisconnectKeeps ==
  ASSUME BodyInv, Disconnected("done"), UNCHANGED <<info, isValid, peer, calls>>,
         err = "Success" /\ isValid /\ ~eof' /\ "onData" \in info.on
           => calls["onData"] = peer.response.length
  PROVE  BodyInv'
  BY DEF BodyInv, Disconnected, NothingHanded, HeaderAwaited, FramingKnown, Accounted,
         CompletedAtEnd, EndedWhole, InBody, Hops, Uncounted, Handing, ReadingHeader, Reading

(* From one step of a hop to the next nothing is received.                 *)
LEMMA HopKeeps ==
  ASSUME TypeOK, BodyInv, pc \in Hops, pc' \in Hops,
         calls'["onData"] = calls["onData"],
         UNCHANGED <<peer, err, ret>>
  PROVE  BodyInv'
  BY DEF BodyInv, NothingHanded, HeaderAwaited, FramingKnown, Accounted,
         CompletedAtEnd, EndedWhole, InBody, Hops, Uncounted, Handing, ReadingHeader, Reading

(* Waiting for the next bytes changes nothing, however often it is tried.  *)
LEMMA ReadingKeeps ==
  ASSUME TypeOK, BodyInv, pc \in Reading, pc' \in Reading,
         UNCHANGED <<info, isValid, rx, err, ret, calls>>,
         peer'.response = peer.response, peer'.body = peer.body
  PROVE  BodyInv'
  BY DEF BodyInv, NothingHanded, HeaderAwaited, FramingKnown, Accounted, Pending,
         CompletedAtEnd, EndedWhole, InBody, Hops, Uncounted, Handing, ReadingHeader, Reading

(* The owner can only make isValid_ false, and the clock touches none of   *)
(* this.                                                                   *)
LEMMA OwnerKeeps ==
  ASSUME TypeOK, BodyInv, UNCHANGED <<info, pc, rx, peer, err, ret, calls, eof>>,
         isValid' => isValid
  PROVE  BodyInv'
  BY DEF BodyInv, NothingHanded, HeaderAwaited, FramingKnown, Accounted, Pending,
         CompletedAtEnd, EndedWhole, InBody, Hops, Uncounted, Handing, ReadingHeader, Reading

-----------------------------------------------------------------------------
(* The invariant, step by step *)

(* Nothing is received before the worker starts. *)
LEMMA BodyInvInit == Init => BodyInv
<1> SUFFICES ASSUME Init PROVE BodyInv
  OBVIOUS
<1>1. TypeOK
  BY TypeInit
<1>2. calls["onData"] = 0 /\ pc = "process" /\ ret = "done" /\ err = "Success"
  BY DEF Init, Callbacks
<1>3. peer.response.length \in Nat
  BY <1>1, ResponseLengths
<1> QED BY <1>2, <1>3
        DEF BodyInv, NothingHanded, HeaderAwaited, FramingKnown, Accounted, CompletedAtEnd,
            EndedWhole, InBody, Hops, Uncounted, Handing, ReadingHeader, Reading

(* The steps that report an error, which no caller takes for an end. *)
LEMMA ErrorSteps ==
  ASSUME TypeOK, SocketInv, BodyInv,
         \/ SendFailed \/ SelectTimeout \/ SelectFailed \/ RecvFailed \/ ChunkSizeError
  PROVE  BodyInv'
<1> USE DEF network, history, HandleErrorResponse
<1>1. PICK code \in SendFailures \cup ReceiveFailures \cup {"Timeout", "ChunkSizeError"} :
        HandleErrorResponse(code, "done")
  BY DEF SendFailed, SelectTimeout, SelectFailed, RecvFailed, ChunkSizeError,
         SendFailures, ReceiveFailures
<1>2. code # "Success" /\ UNCHANGED <<peer, calls>>
  BY DEF SendFailed, SelectTimeout, SelectFailed, RecvFailed, ChunkSizeError,
         SendFailures, ReceiveFailures
<1> QED BY <1>1, <1>2, ErrorKeeps

(* The steps before the request is sent, and those of a redirect. *)
LEMMA HopSteps ==
  ASSUME TypeOK, SocketInv, BodyInv,
         \/ Process \/ Resolve \/ CreateSocket \/ CheckTime \/ Connect \/ CanSend
         \/ Redirect \/ RedirectGo
  PROVE  BodyInv'
<1> USE DEF network, history
<1>1. pc \in Hops /\ peer' = peer
  BY DEF Hops, Process, Resolve, CreateSocket, CheckTime, Connect, CanSend, Redirect, RedirectGo
<1>2. calls["onData"] = 0
  BY <1>1 DEF BodyInv, NothingHanded
<1>3. CASE pc' \in Hops /\ UNCHANGED <<err, ret>>
  <2>1. calls'["onData"] = calls["onData"]
    BY DEF Process, Resolve, CreateSocket, CheckTime, Connect, CanSend, Redirect, RedirectGo,
           Invoke, TypeOK, Callbacks, HandleErrorResponse
  <2> QED BY <1>1, <1>3, <2>1, HopKeeps
<1>4. CASE \E code, next : /\ HandleErrorResponse(code, next) /\ code # "Success"
                           /\ UNCHANGED calls
  BY <1>1, <1>2, <1>4, ErrorKeeps
<1>5. CASE Process
  BY <1>3, <1>4, <1>5 DEF Process, Hops
<1>6. CASE Resolve
  BY <1>3, <1>4, <1>6 DEF Resolve, Hops
<1>7. CASE CreateSocket
  BY <1>3, <1>4, <1>7 DEF CreateSocket, Hops
<1>8. CASE CheckTime
  BY <1>3, <1>4, <1>8 DEF CheckTime, Hops
<1>9. CASE Connect
  BY <1>3, <1>4, <1>9 DEF Connect, Hops
<1>10. CASE CanSend
  BY <1>3, <1>4, <1>10 DEF CanSend, Hops
<1>11. CASE Redirect
  BY <1>3, <1>4, <1>11 DEF Redirect, Hops
<1>12. CASE RedirectGo
  BY <1>3, <1>4, <1>12 DEF RedirectGo, Hops
<1> QED BY <1>5, <1>6, <1>7, <1>8, <1>9, <1>10, <1>11, <1>12

(* The steps of a worker that waits for the next bytes. *)
LEMMA WaitingSteps ==
  ASSUME TypeOK, BodyInv,
         \/ IsReceivable \/ SelectReadable \/ SelectInterrupted \/ RecvRetry
         \/ RecvClosed \/ RecvHeaderPart
  PROVE  BodyInv'
<1> USE DEF network, history, owner, worker
<1>1. UNCHANGED <<info, isValid, calls, rx>> /\ pc \in Reading
      /\ peer'.response = peer.response /\ peer'.body = peer.body
  BY DEF IsReceivable, SelectReadable, SelectInterrupted, RecvRetry, RecvClosed,
         RecvHeaderPart, Reading, TypeOK, PeerStates
<1>2. CASE pc' \in Reading /\ UNCHANGED <<err, ret>>
  BY <1>1, <1>2, ReadingKeeps
<1>3. CASE HandleErrorResponse("Retry", "done") /\ UNCHANGED peer
  BY <1>1, <1>3, ErrorKeeps
<1>4. CASE Disconnected("done") /\ UNCHANGED peer /\ (~isValid \/ eof')
  BY <1>1, <1>4, DisconnectKeeps
<1> QED
  BY <1>2, <1>3, <1>4
  DEF IsReceivable, SelectReadable, SelectInterrupted, RecvRetry, RecvClosed,
      RecvHeaderPart, Reading

(* The steps of the owner and of the clock. *)
LEMMA OwnerSteps ==
  ASSUME TypeOK, BodyInv, Cancel \/ Destroy \/ Join \/ Tick \/ SetClock \/ UNCHANGED vars
  PROVE  BodyInv'
  BY OwnerKeeps DEF Cancel, Destroy, Join, Tick, SetClock, vars, network, history, worker

(* The end of a request: its last callbacks hand no data over. *)
LEMMA EndSteps ==
  ASSUME TypeOK, SocketInv, BodyInv, OnError \/ CheckDisconnected \/ OnDisconnected
  PROVE  BodyInv'
<1> USE DEF network, history, owner, worker
<1>1. ret \in {"done", "redirectGo"}
  BY DEF TypeOK, SocketInv
<1>2. /\ pc \in {"onError", "disconnected", "onDisconnected"}
      /\ pc' \in {"disconnected", "onDisconnected", ret}
      /\ pc = "onError" => pc' = "disconnected"
      /\ UNCHANGED <<info, isValid, peer, err, ret, eof, rx>>
  BY DEF OnError, CheckDisconnected, OnDisconnected
<1>3. calls'["onData"] = calls["onData"]
  BY DEF OnError, CheckDisconnected, OnDisconnected, Invoke, TypeOK, Callbacks
<1> QED
  BY <1>1, <1>2, <1>3
  DEF BodyInv, NothingHanded, HeaderAwaited, FramingKnown, Accounted, CompletedAtEnd,
      EndedWhole, InBody, Hops, Uncounted, Handing, ReadingHeader, Reading

(* A turn of send(): with the last of the request the peer has its answer. *)
LEMMA SendStep ==
  ASSUME TypeOK, BodyInv, Send
  PROVE  BodyInv'
<1> USE DEF network, history, owner, worker
<1>1. CASE UNCHANGED <<pc, rx, peer>>
  BY <1>1, HopKeeps DEF Send, Hops
<1>2. CASE /\ pc' = "isReceivable"
           /\ rx' = FreshRx
           /\ \E r \in Responses, h \in 1..MaxHeaderReads :
                peer' = [response |-> r, header |-> h, body |-> WireLength(r)]
  <2>1. calls["onData"] = 0 /\ calls' = calls /\ UNCHANGED <<err, ret>>
    BY <1>2 DEF Send, BodyInv, NothingHanded, Hops
  <2>2. ~rx'.parsed
    BY <1>2 DEF FreshRx
  <2>3. peer'.body = WireLength(peer'.response)
    BY <1>2
  <2>4. peer'.response.length \in Nat
    BY <1>2, BoundAssumption DEF Responses
  <2> QED
    BY <1>2, <2>1, <2>2, <2>3, <2>4
    DEF Send, BodyInv, NothingHanded, HeaderAwaited, FramingKnown, Accounted,
        CompletedAtEnd, EndedWhole, InBody, Hops, Uncounted, Handing, ReadingHeader, Reading
<1> QED BY <1>1, <1>2 DEF Send

(* The bytes that complete the header start the account; a redirect that   *)
(* is followed drops what came with it.                                    *)
LEMMA HeaderStep ==
  ASSUME TypeOK, BodyInv, RecvHeader
  PROVE  BodyInv'
<1> USE DEF network, history, owner, worker
<1>1. /\ pc = "recv" /\ ReadingHeader /\ calls["onData"] = 0 /\ rx = FreshRx
      /\ peer.body = WireLength(peer.response)
      /\ rx \in ReceiveLocals /\ peer \in PeerStates
  BY DEF RecvHeader, ReadingHeader, Reading, BodyInv, NothingHanded, HeaderAwaited, TypeOK
<1>2. UNCHANGED <<info, isValid, err, ret, calls, eof>>
  BY DEF RecvHeader
<1>3. PICK n \in 0..peer.body :
        /\ peer' = [peer EXCEPT !.header = 0, !.body = @ - n]
        /\ \/ pc' = "redirect"
           \/ /\ pc' = "responseHeader"
              /\ rx' = [rx EXCEPT
                          !.parsed = TRUE,
                          !.contentLength = IF peer.response.framing = "length"
                                            THEN peer.response.length ELSE @,
                          !.chunked = peer.response.framing = "chunked",
                          !.view = n]
  BY DEF RecvHeader
<1>4. peer'.response = peer.response /\ peer'.body = peer.body - n
  BY <1>1, <1>3 DEF PeerStates
<1>5. CASE pc' = "redirect"
  BY <1>1, <1>2, <1>4, <1>5
  DEF BodyInv, NothingHanded, HeaderAwaited, FramingKnown, Accounted, CompletedAtEnd,
      EndedWhole, InBody, Hops, Uncounted, Handing, ReadingHeader, Reading
<1>6. CASE pc' = "responseHeader"
  <2>1. /\ rx'.parsed
        /\ rx'.chunked = (peer.response.framing = "chunked")
        /\ rx'.contentLength = IF peer.response.framing = "length"
                               THEN peer.response.length ELSE Int64Max
        /\ rx'.view = n /\ rx'.recvLength = 0 /\ rx'.completed = FALSE
    BY <1>1, <1>3, <1>6 DEF FreshRx
  <2>2. FramingKnown'
    BY <1>4, <1>6, <2>1 DEF FramingKnown
  <2>3. Accounted'
    BY <1>1, <1>2, <1>4, <1>6, <2>1, ResponseLengths DEF Accounted, Pending, Uncounted
  <2>4. n \in Nat /\ peer.body \in Nat /\ peer'.body + n = peer.body
    BY <1>4, ResponseLengths
  <2>5. rx'.chunked => peer'.body + rx'.view > 0
    <3> SUFFICES ASSUME rx'.chunked PROVE peer.body > 0
      BY <2>1, <2>4
    <3>1. peer.response.framing = "chunked"
      BY <2>1
    <3>2. WireLength(peer.response) = peer.response.length + 1 /\ peer.response.length \in Nat
      BY <3>1, ResponseLengths
    <3> QED BY <1>1, <3>2
  <2>6. (IF pc \in Uncounted \cup Handing THEN rx.view ELSE 0)' = rx'.view
    BY <1>6 DEF Uncounted
  <2>7. CompletedAtEnd'
    BY <1>6, <2>5, <2>6 DEF CompletedAtEnd, Handing
  <2> QED
    BY <1>1, <1>2, <1>4, <1>6, <2>2, <2>3, <2>7
    DEF BodyInv, NothingHanded, HeaderAwaited, EndedWhole, Hops, ReadingHeader, Reading
<1> QED BY <1>3, <1>5, <1>6

(* What a step of the body leaves to show: the account of the units.       *)
LEMMA BodyKeeps ==
  ASSUME TypeOK, BodyInv, InBody, InBody', peer'.response = peer.response,
         UNCHANGED <<info, err, ret>>, rx'.parsed \/ pc' \notin Reading,
         FramingKnown', Accounted', CompletedAtEnd',
         calls'["onData"] <= peer.response.length
  PROVE  BodyInv'
  BY DEF BodyInv, NothingHanded, HeaderAwaited, EndedWhole,
         InBody, Hops, Uncounted, Handing, ReadingHeader, Reading

(* More of the body is read, callbacks that take no data are called, or a  *)
(* turn of the loop begins again: nothing is counted or handed over.       *)
LEMMA UncountedSteps ==
  ASSUME TypeOK, BodyInv, RecvBody \/ ResponseHeader \/ OnParseHeaderDone \/ ResponseData
  PROVE  BodyInv'
<1> USE DEF network, history, owner, worker
<1>0. rx \in ReceiveLocals /\ peer \in PeerStates
  BY DEF TypeOK
<1>1. CASE RecvBody
  <2>1. InBody /\ InBody' /\ pc = "recv" /\ pc' = "body"
        /\ UNCHANGED <<info, isValid, err, ret, calls>>
    BY <1>1 DEF RecvBody, InBody, Reading, Uncounted
  <2>2. PICK n \in 0..peer.body :
          peer' = [peer EXCEPT !.body = @ - n] /\ rx' = [rx EXCEPT !.view = n]
    BY <1>0, <1>1 DEF RecvBody, PeerStates
  <2>3. /\ peer'.response = peer.response /\ peer'.body = peer.body - n /\ rx'.view = n
        /\ rx'.recvLength = rx.recvLength /\ rx'.chunked = rx.chunked /\ rx'.parsed = rx.parsed
        /\ rx'.contentLength = rx.contentLength /\ n \in Nat
    BY <1>0, <2>2 DEF ReceiveLocals, PeerStates
  <2>4. FramingKnown'
    BY <2>1, <2>3 DEF BodyInv, FramingKnown
  <2>5. Accounted'
    BY <2>1, <2>3, ResponseLengths DEF BodyInv, Accounted, Pending, Uncounted
  <2>6. CompletedAtEnd'
    BY <2>1, <2>3, ResponseLengths DEF BodyInv, CompletedAtEnd, Uncounted, Handing
  <2> QED BY <2>1, <2>3, <2>4, <2>5, <2>6, BodyKeeps DEF BodyInv, Reading
<1>2. CASE ResponseHeader \/ OnParseHeaderDone
  <2>1. /\ InBody /\ InBody' /\ pc \in Uncounted /\ pc' \in Uncounted
        /\ UNCHANGED <<info, isValid, err, ret, rx, peer>>
        /\ calls'["onData"] = calls["onData"]
    BY <1>2 DEF ResponseHeader, OnParseHeaderDone, InBody, Uncounted, Invoke, TypeOK, Callbacks
  <2>2. FramingKnown' /\ Accounted' /\ CompletedAtEnd'
    BY <2>1, ResponseLengths
    DEF BodyInv, FramingKnown, Accounted, Pending, CompletedAtEnd, Uncounted, Handing
  <2> QED BY <2>1, <2>2, BodyKeeps DEF BodyInv, Reading, Uncounted
<1>3. CASE ResponseData
  <2>1. /\ InBody /\ InBody' /\ pc = "responseData"
        /\ UNCHANGED <<info, isValid, err, ret, rx, peer, calls>>
        /\ \/ pc' = "onData"
           \/ pc' = IF rx.chunked THEN "parseChunk" ELSE "bodyEnd"
    BY <1>3 DEF ResponseData, InBody, Handing
  <2>2. isValid /\ "onData" \in info.on => pc' = "onData"
    BY <1>3 DEF ResponseData, Guarded
  <2>3. FramingKnown'
    BY <2>1 DEF BodyInv, FramingKnown
  <2>4. Accounted'
    BY <2>1, <2>2, ResponseLengths DEF BodyInv, Accounted, Pending, Uncounted
  <2>5. CompletedAtEnd'
    BY <2>1, ResponseLengths DEF BodyInv, CompletedAtEnd, Uncounted, Handing
  <2> QED BY <2>1, <2>3, <2>4, <2>5, BodyKeeps DEF BodyInv, Reading, Handing
<1> QED BY <1>1, <1>2, <1>3

(* The bytes read are counted once, and all of them.                       *)
LEMMA CountStep ==
  ASSUME TypeOK, BodyInv, Body
  PROVE  BodyInv'
<1> USE DEF network, history, owner, worker
<1>0. rx \in ReceiveLocals
  BY DEF TypeOK
<1>1. /\ InBody /\ InBody' /\ pc = "body"
      /\ UNCHANGED <<info, isValid, err, ret, calls, peer>>
      /\ pc' = IF rx.chunked THEN "parseChunk"
               ELSE IF rx.view > 0 THEN "responseData" ELSE "bodyEnd"
  BY DEF Body, InBody, Uncounted, Handing
<1>2. /\ rx'.recvLength = rx.recvLength + rx.view
      /\ rx'.chunked = rx.chunked /\ rx'.contentLength = rx.contentLength
      /\ rx'.view = rx.view /\ rx'.parsed = rx.parsed
      /\ rx'.completed = (~rx.chunked /\ rx.recvLength + rx.view >= rx.contentLength)
      /\ rx'.piece = IF rx.chunked THEN 0 ELSE rx.view
  BY <1>0 DEF Body, ReceiveLocals
<1>3. FramingKnown'
  BY <1>1, <1>2 DEF BodyInv, FramingKnown
<1>4. Accounted'
  BY <1>1, <1>2, ResponseLengths DEF BodyInv, Accounted, Pending, Uncounted
<1>5. CompletedAtEnd'
  BY <1>1, <1>2, ResponseLengths DEF BodyInv, CompletedAtEnd, Uncounted, Handing
<1> QED BY <1>1, <1>3, <1>4, <1>5, BodyKeeps DEF BodyInv, Reading

(* onData gets the piece that was counted, and not the last, empty chunk.  *)
LEMMA HandOver ==
  ASSUME TypeOK, BodyInv, OnData
  PROVE  BodyInv'
<1> USE DEF network, history, owner, worker
<1>1. /\ InBody /\ InBody' /\ pc = "onData"
      /\ UNCHANGED <<info, isValid, err, ret, rx, peer>>
      /\ pc' = IF rx.chunked THEN "parseChunk" ELSE "bodyEnd"
  BY DEF OnData, InBody, Handing
<1>2. calls'["onData"] = calls["onData"] + (IF "onData" \in info.on THEN rx.piece ELSE 0)
  BY ResponseLengths DEF OnData, Invoke, TypeOK, Callbacks
<1>3. FramingKnown'
  BY <1>1 DEF BodyInv, FramingKnown
<1>4. Accounted'
  BY <1>1, <1>2, ResponseLengths DEF BodyInv, Accounted, Pending, Uncounted, CompletedAtEnd
<1>5. CompletedAtEnd'
  BY <1>1, ResponseLengths DEF BodyInv, CompletedAtEnd, Uncounted, Handing
<1>6. calls'["onData"] <= peer.response.length
  BY <1>1, <1>2, ResponseLengths
  DEF BodyInv, Accounted, Pending, Uncounted, Handing, FramingKnown, CompletedAtEnd
<1> QED BY <1>1, <1>3, <1>4, <1>5, <1>6, BodyKeeps DEF Reading

(* The decoder takes the read apart into pieces of chunks, the last, empty *)
(* chunk, and nothing else.                                                *)
LEMMA ChunkSteps ==
  ASSUME TypeOK, BodyInv,
         ParseChunkData \/ ParseLastChunk \/ ParseChunkEnd \/ ParseChunkThrows
  PROVE  BodyInv'
<1> USE DEF network, history, owner, worker
<1>0. rx \in ReceiveLocals
  BY DEF TypeOK
<1>1. /\ InBody /\ pc = "parseChunk" /\ rx.chunked
      /\ UNCHANGED <<info, isValid, err, ret, calls, peer, eof>>
  BY DEF ParseChunkData, ParseLastChunk, ParseChunkEnd, ParseChunkThrows, InBody, Handing,
         BodyInv, FramingKnown
<1>2. /\ rx.recvLength + peer.body = WireLength(peer.response)
      /\ calls["onData"] <= rx.recvLength - rx.view
      /\ isValid /\ "onData" \in info.on => calls["onData"] = rx.recvLength - rx.view
      /\ ~rx.completed /\ peer.body + rx.view > 0
      /\ rx.parsed
  BY <1>1, ResponseLengths
  DEF BodyInv, Accounted, Pending, Uncounted, Handing, CompletedAtEnd, FramingKnown
<1>3. CASE ParseChunkData
  <2>1. PICK n \in 1..(rx.view - LastChunkIn) :
          rx' = [rx EXCEPT !.view = @ - n, !.piece = n]
    BY <1>3 DEF ParseChunkData
  <2>2. /\ rx'.view = rx.view - n /\ rx'.piece = n /\ rx'.recvLength = rx.recvLength
        /\ rx'.chunked /\ rx'.completed = rx.completed /\ rx'.parsed = rx.parsed
    BY <1>0, <1>1, <2>1 DEF ReceiveLocals
  <2>3. pc' = "responseData" /\ InBody'
    BY <1>3 DEF ParseChunkData, InBody, Handing
  <2>4. n \in Nat /\ rx.view - n \in Nat /\ peer.body + rx'.view > 0
    <3>1. LastChunkIn \in 0..1 /\ (peer.body = 0 => LastChunkIn = 1)
      BY <1>2, ResponseLengths DEF LastChunkIn
    <3>2. n \in Nat /\ rx.view - n >= LastChunkIn /\ rx.view \in Nat /\ peer.body \in Nat
      BY <3>1, ResponseLengths
    <3> QED BY <2>2, <3>1, <3>2
  <2>5. FramingKnown'
    BY <1>1, <1>2, <2>2, <2>3 DEF BodyInv, FramingKnown
  <2>6. Accounted'
    BY <1>1, <1>2, <2>2, <2>3, <2>4, ResponseLengths DEF Accounted, Pending, Uncounted
  <2>7. CompletedAtEnd'
    BY <1>1, <1>2, <2>2, <2>3, <2>4 DEF CompletedAtEnd, Uncounted, Handing
  <2> QED BY <1>1, <2>3, <2>5, <2>6, <2>7, BodyKeeps DEF BodyInv, Reading
<1>4. CASE ParseLastChunk
  <2>1. /\ rx'.view = 0 /\ rx'.recvLength = rx.recvLength
        /\ rx'.chunked /\ rx'.completed /\ rx'.parsed = rx.parsed
    BY <1>0, <1>1, <1>4 DEF ReceiveLocals, ParseLastChunk
  <2>2. pc' = "bodyEnd" /\ InBody' /\ peer.body = 0 /\ rx.view = 1
    BY <1>4 DEF ParseLastChunk, LastChunkIn, InBody
  <2>3. FramingKnown'
    BY <1>1, <1>2, <2>1, <2>2 DEF BodyInv, FramingKnown
  <2>4. Accounted'
    BY <1>1, <1>2, <2>1, <2>2, ResponseLengths DEF Accounted, Pending, Uncounted
  <2>5. CompletedAtEnd'
    BY <1>1, <2>1, <2>2 DEF CompletedAtEnd
  <2> QED BY <1>1, <2>2, <2>3, <2>4, <2>5, BodyKeeps DEF BodyInv, Reading
<1>5. CASE ParseChunkEnd
  <2>1. pc' = "bodyEnd" /\ InBody' /\ rx' = rx /\ rx.view = 0
    BY <1>5 DEF ParseChunkEnd, InBody
  <2>2. FramingKnown'
    BY <1>1, <1>2, <2>1 DEF BodyInv, FramingKnown
  <2>3. Accounted'
    BY <1>1, <1>2, <2>1, ResponseLengths DEF Accounted, Pending, Uncounted
  <2>4. CompletedAtEnd'
    BY <1>1, <1>2, <2>1 DEF CompletedAtEnd, Uncounted, Handing
  <2> QED BY <1>1, <2>1, <2>2, <2>3, <2>4, BodyKeeps DEF BodyInv, Reading
<1>6. CASE ParseChunkThrows
  <2>1. pc' = "terminated" /\ rx' = rx
    BY <1>6 DEF ParseChunkThrows
  <2> QED
    BY <1>1, <2>1
    DEF BodyInv, NothingHanded, HeaderAwaited, FramingKnown, Accounted, CompletedAtEnd,
        EndedWhole, InBody, Hops, Uncounted, Handing, ReadingHeader, Reading
<1> QED BY <1>3, <1>4, <1>5, <1>6

(* The end of a turn: a completed response was handed over whole. *)
LEMMA TurnEnds ==
  ASSUME TypeOK, BodyInv, BodyEnd
  PROVE  BodyInv'
<1> USE DEF network, history, owner, worker
<1>1. /\ InBody /\ pc = "bodyEnd" /\ rx.parsed
      /\ UNCHANGED <<info, isValid, rx, peer, calls, eof>>
  BY DEF BodyEnd, InBody, BodyInv, FramingKnown
<1>2. /\ rx.recvLength + peer.body = WireLength(peer.response)
      /\ isValid /\ "onData" \in info.on
           => calls["onData"] = rx.recvLength - (IF rx.chunked /\ rx.completed THEN 1 ELSE 0)
  BY <1>1, ResponseLengths DEF BodyInv, Accounted, Pending, Uncounted
<1>3. CASE rx.completed /\ Disconnected("done")
  <2>1. CASE rx.chunked
    <3>1. peer.body = 0 /\ peer.response.framing = "chunked"
      BY <1>1, <1>3, <2>1 DEF BodyInv, CompletedAtEnd, FramingKnown
    <3>2. rx.recvLength = peer.response.length + 1
      BY <1>2, <3>1, ResponseLengths
    <3>3. isValid /\ "onData" \in info.on => calls["onData"] = peer.response.length
      BY <1>2, <1>3, <2>1, <3>2, ResponseLengths
    <3> QED BY <1>1, <1>3, <3>3, DisconnectKeeps
  <2>2. CASE ~rx.chunked
    <3>1. rx.recvLength >= rx.contentLength /\ peer.response.framing # "chunked"
          /\ rx.contentLength = IF peer.response.framing = "length"
                                THEN peer.response.length ELSE Int64Max
      BY <1>1, <1>3, <2>2 DEF BodyInv, CompletedAtEnd, FramingKnown
    <3>2. rx.recvLength = peer.response.length
      BY <1>2, <3>1, BoundAssumption, ResponseLengths
    <3>3. isValid /\ "onData" \in info.on => calls["onData"] = peer.response.length
      BY <1>2, <2>2, <3>2, ResponseLengths
    <3> QED BY <1>1, <1>3, <3>3, DisconnectKeeps
  <2> QED BY <2>1, <2>2, ResponseLengths
<1>4. CASE ~rx.completed /\ pc' = "isReceivable" /\ UNCHANGED <<err, ret>>
  <2>1. InBody'
    BY <1>1, <1>4 DEF InBody, Reading
  <2>2. FramingKnown'
    BY <1>1, <1>4 DEF BodyInv, FramingKnown
  <2>3. Accounted'
    BY <1>1, <1>4, ResponseLengths DEF BodyInv, Accounted, Pending, Uncounted
  <2>4. CompletedAtEnd'
    BY <1>1, <1>4, ResponseLengths DEF BodyInv, CompletedAtEnd, Uncounted, Handing
  <2> QED BY <1>1, <1>4, <2>1, <2>2, <2>3, <2>4, BodyKeeps DEF BodyInv
<1> QED BY <1>3, <1>4 DEF BodyEnd

(* Every step keeps the account. *)
LEMMA BodyInvNext == TypeOK /\ SocketInv /\ BodyInv /\ [Next]_vars => BodyInv'
<1> SUFFICES ASSUME TypeOK, SocketInv, BodyInv, [Next]_vars PROVE BodyInv'
  OBVIOUS
<1>1. CASE Process \/ Resolve \/ CreateSocket \/ CheckTime \/ Connect \/ CanSend
           \/ Redirect \/ RedirectGo
  BY <1>1, HopSteps
<1>2. CASE OnError \/ CheckDisconnected \/ OnDisconnected
  BY <1>2, EndSteps
<1>3. CASE SendFailed \/ SelectTimeout \/ SelectFailed \/ RecvFailed \/ ChunkSizeError
  BY <1>3, ErrorSteps
<1>4. CASE Send
  BY <1>4, SendStep
<1>5. CASE IsReceivable \/ SelectReadable \/ SelectInterrupted \/ RecvRetry \/ RecvClosed
           \/ RecvHeaderPart
  BY <1>5, WaitingSteps
<1>6. CASE RecvHeader
  BY <1>6, HeaderStep
<1>7. CASE RecvBody \/ ResponseHeader \/ OnParseHeaderDone \/ ResponseData
  BY <1>7, UncountedSteps
<1>8. CASE Body
  BY <1>8, CountStep
<1>9. CASE OnData
  BY <1>9, HandOver
<1>10. CASE ParseChunkData \/ ParseLastChunk \/ ParseChunkEnd \/ ParseChunkThrows
  BY <1>10, ChunkSteps
<1>11. CASE BodyEnd
  BY <1>11, TurnEnds
<1>12. CASE Cancel \/ Destroy \/ Join \/ Tick \/ SetClock \/ UNCHANGED vars
  BY <1>12, OwnerSteps
<1> QED
  BY <1>1, <1>2, <1>3, <1>4, <1>5, <1>6, <1>7, <1>8, <1>9, <1>10, <1>11, <1>12
  DEF Next, Worker

-----------------------------------------------------------------------------
(* The account that receive() keeps of the units read, counted and handed  *)
(* over is right in every state of every request.                          *)
THEOREM BodyInvariant == Spec => []BodyInv
  BY TypeCorrect, SocketInvariant, BodyInvInit, BodyInvNext, PTL DEF Spec

(* However the reads are cut, onData never gets more than the peer's body, *)
(* and a request that ends without an error, a cancel or an early close by *)
(* the peer has handed all of it over.                                     *)
THEOREM BodyIsIntact == Spec => []BodyIntact
<1>1. BodyInv => BodyIntact
  BY DEF BodyInv, EndedWhole, BodyIntact
<1> QED BY <1>1, BodyInvariant, PTL
=============================================================================
