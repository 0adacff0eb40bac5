----------------------- MODULE RequestCallbackProofs ------------------------
(***************************************************************************)
(* Proofs about the callbacks Request makes: how much cancel() still lets  *)
(* through, that Request implements HandlerContract, and how a request is  *)
(* ended, past the limit of redirects too.                                 *)
(***************************************************************************)
EXTENDS RequestProofs

-----------------------------------------------------------------------------
(* CancelBound is not inductive: the invariant adds where the worker can   *)
(* be once a late callback was made, and that from there it reaches no     *)
(* further one of its kind before it tests isValid_ and ends.              *)

GatedCallbacks == {"onParseHeaderDone", "onData", "onDisconnected"}

(* Invocations, begun after cancel(), of the callbacks isValid_ guards. *)
LateGated == late["onParseHeaderDone"] + late["onData"] + late["onDisconnected"]

(* Where the worker can be after a late onConnected ... *)
AfterLateConnect == {"canSend", "send", "isReceivable", "onError", "disconnected", "done"}

(* ... and after a late onError, of the redirect limit or of the end. *)
AfterLateError ==
  {"disconnected", "redirectGo", "resolve", "create", "checkTime", "connect",
   "canSend", "send", "isReceivable", "onError", "done"}

NothingLate == isValid => \A cb \in Callbacks : late[cb] = 0

GatedOnce ==
  /\ LateGated <= 1
  /\ pc \in GatedCallbacks => LateGated = 0

ConnectedOnce ==
  /\ late["onConnected"] <= 1
  /\ late["onConnected"] = 1 =>
       /\ pc \in AfterLateConnect
       /\ pc \in {"onError", "disconnected"} => ret = "done"

ErrorTwice ==
  /\ late["onError"] <= 2
  /\ late["onError"] = 1 =>
       /\ pc \in AfterLateError
       /\ pc = "onError" => ret = "done"
  /\ late["onError"] = 2 => pc \in {"disconnected", "done"} /\ ret = "done"

CancelInv == NothingLate /\ GatedOnce /\ ConnectedOnce /\ ErrorTwice

(* A request that has not started has called nobody back. *)
LEMMA CancelInvInit == Init => CancelInv
  BY DEF Init, CancelInv, NothingLate, GatedOnce, ConnectedOnce, ErrorTwice, LateGated,
         GatedCallbacks, Callbacks

(* Every step of the worker, the owner and the clock keeps the account of  *)
(* what may still be called back after cancel().                           *)
LEMMA CancelInvNext == TypeOK /\ SocketInv /\ CancelInv /\ [Next]_vars => CancelInv'
<1> SUFFICES ASSUME TypeOK, SocketInv, CancelInv, [Next]_vars PROVE CancelInv'
  OBVIOUS
<1>0. /\ \A cb \in Callbacks : late[cb] \in Nat
      /\ DOMAIN late = Callbacks
      /\ isValid \in BOOLEAN
  BY DEF TypeOK
<1>1. CASE Process
  BY <1>1, <1>0 DEF CancelInv, NothingLate, GatedOnce, ConnectedOnce,
    ErrorTwice, LateGated, GatedCallbacks, AfterLateConnect, AfterLateError,
    Process, HandleErrorResponse, network, history, owner
<1>2. CASE OnError
  BY <1>2, <1>0 DEF CancelInv, NothingLate, GatedOnce, ConnectedOnce,
    ErrorTwice, LateGated, GatedCallbacks, AfterLateConnect, AfterLateError,
    Callbacks, OnError, Invoke, worker, network, owner
<1>3. CASE CheckDisconnected
  <2>1. late' = late /\ isValid' = isValid /\ ret' = ret /\ pc = "disconnected"
    BY <1>3 DEF CheckDisconnected, worker, owner, history
  <2>2. CASE isValid
    <3>1. \A cb \in Callbacks : late[cb] = 0
      BY <2>2 DEF CancelInv, NothingLate
    <3>2. LateGated = 0 /\ late["onConnected"] = 0 /\ late["onError"] = 0
      BY <3>1 DEF LateGated, Callbacks
    <3> QED BY <2>1, <3>1, <3>2 DEF CancelInv, NothingLate, GatedOnce, ConnectedOnce, ErrorTwice,
                          LateGated, GatedCallbacks, AfterLateConnect, AfterLateError
  <2>3. CASE ~isValid
    <3>1. pc' = ret
      BY <1>3, <2>3 DEF CheckDisconnected, Guarded
    <3>2. ret \in {"done", "redirectGo"}
      BY DEF TypeOK, SocketInv
    <3> QED BY <2>1, <2>3, <3>1, <3>2 DEF CancelInv, NothingLate, GatedOnce, ConnectedOnce, ErrorTwice,
                          LateGated, GatedCallbacks, AfterLateConnect, AfterLateError, SocketInv
  <2> QED BY <2>2, <2>3
<1>4. CASE OnDisconnected
  <2>1. pc = "onDisconnected" /\ pc' = ret /\ ret' = ret /\ isValid' = isValid
    BY <1>4 DEF OnDisconnected, owner
  <2>2. LateGated = 0 /\ late["onConnected"] = 0 /\ late["onError"] = 0
    BY <2>1, <1>0 DEF CancelInv, GatedOnce, ConnectedOnce, ErrorTwice, GatedCallbacks,
                     AfterLateConnect, AfterLateError, Callbacks
  <2>3. late["onParseHeaderDone"] = 0 /\ late["onData"] = 0 /\ late["onDisconnected"] = 0
    BY <1>0, <2>2 DEF LateGated, Callbacks
  <2>4. \/ late' = late
        \/ ~isValid /\ late' = [late EXCEPT !["onDisconnected"] = 1]
    BY <1>4, <1>0, <2>3 DEF OnDisconnected, Invoke, Callbacks
  <2>5. ret \in {"done", "redirectGo"}
    BY DEF TypeOK, SocketInv
  <2> QED BY <1>0, <2>1, <2>2, <2>3, <2>4, <2>5 DEF CancelInv, NothingLate, GatedOnce, ConnectedOnce, ErrorTwice,
                          LateGated, GatedCallbacks, AfterLateConnect, AfterLateError, Callbacks
<1>5. CASE Resolve
  BY <1>5, <1>0 DEF CancelInv, NothingLate, GatedOnce, ConnectedOnce,
    ErrorTwice, LateGated, GatedCallbacks, AfterLateConnect, AfterLateError,
    Resolve, HandleErrorResponse, network, history, owner
<1>6. CASE CreateSocket
  BY <1>6, <1>0 DEF CancelInv, NothingLate, GatedOnce, ConnectedOnce,
    ErrorTwice, LateGated, GatedCallbacks, AfterLateConnect, AfterLateError,
    SocketInv, isHttpScheme, CreateSocket, HandleErrorResponse, owner
<1>7. CASE CheckTime
  BY <1>7, <1>0 DEF CancelInv, NothingLate, GatedOnce, ConnectedOnce,
    ErrorTwice, LateGated, GatedCallbacks, AfterLateConnect, AfterLateError,
    CheckTime, HandleErrorResponse, network, history, owner
<1>8. CASE Connect
  BY <1>8, <1>0 DEF CancelInv, NothingLate, GatedOnce, ConnectedOnce,
    ErrorTwice, LateGated, GatedCallbacks, AfterLateConnect, AfterLateError,
    Callbacks, Connect, HandleErrorResponse, Invoke, owner
<1>9. CASE CanSend
  BY <1>9, <1>0 DEF CancelInv, NothingLate, GatedOnce, ConnectedOnce,
    ErrorTwice, LateGated, GatedCallbacks, AfterLateConnect, AfterLateError,
    CanSend, HandleErrorResponse, history, owner
<1>10. CASE Send
  BY <1>10, <1>0 DEF CancelInv, NothingLate, GatedOnce, ConnectedOnce,
    ErrorTwice, LateGated, GatedCallbacks, AfterLateConnect, AfterLateError,
    Send, history, owner
<1>11. CASE SendFailed
  BY <1>11, <1>0 DEF CancelInv, NothingLate, GatedOnce, ConnectedOnce,
    ErrorTwice, LateGated, GatedCallbacks, AfterLateConnect, AfterLateError,
    SendFailed, HandleErrorResponse, network, history, owner
<1>12. CASE IsReceivable
  <2>1. late' = late /\ isValid' = isValid /\ pc = "isReceivable"
    BY <1>12 DEF IsReceivable, owner, history
  <2>2. CASE isValid
    <3>1. \A cb \in Callbacks : late[cb] = 0
      BY <2>2 DEF CancelInv, NothingLate
    <3>2. LateGated = 0 /\ late["onConnected"] = 0 /\ late["onError"] = 0
      BY <3>1 DEF LateGated, Callbacks
    <3>3. pc' = "select"
      BY <1>12, <2>2 DEF IsReceivable
    <3> QED BY <2>1, <3>1, <3>2, <3>3 DEF CancelInv, NothingLate, GatedOnce, ConnectedOnce, ErrorTwice,
                          LateGated, GatedCallbacks, AfterLateConnect, AfterLateError
  <2>3. CASE ~isValid
    <3>1. pc' = "disconnected" /\ ret' = "done"
      BY <1>12, <2>3 DEF IsReceivable, Disconnected
    <3> QED BY <2>1, <2>3, <3>1 DEF CancelInv, NothingLate, GatedOnce, ConnectedOnce, ErrorTwice,
                          LateGated, GatedCallbacks, AfterLateConnect, AfterLateError
  <2> QED BY <2>2, <2>3
<1>13. CASE SelectReadable
  BY <1>13, <1>0 DEF CancelInv, NothingLate, GatedOnce, ConnectedOnce,
    ErrorTwice, LateGated, GatedCallbacks, AfterLateConnect, AfterLateError,
    SelectReadable, worker, network, history, owner
<1>14. CASE SelectTimeout
  BY <1>14, <1>0 DEF CancelInv, NothingLate, GatedOnce, ConnectedOnce,
    ErrorTwice, LateGated, GatedCallbacks, AfterLateConnect, AfterLateError,
    SelectTimeout, HandleErrorResponse, network, history, owner
<1>15. CASE SelectInterrupted
  BY <1>15, <1>0 DEF CancelInv, NothingLate, GatedOnce, ConnectedOnce,
    ErrorTwice, LateGated, GatedCallbacks, AfterLateConnect, AfterLateError,
    SelectInterrupted, HandleErrorResponse, network, history, owner
<1>16. CASE SelectFailed
  BY <1>16, <1>0 DEF CancelInv, NothingLate, GatedOnce, ConnectedOnce,
    ErrorTwice, LateGated, GatedCallbacks, AfterLateConnect, AfterLateError,
    SelectFailed, HandleErrorResponse, network, history, owner
<1>17. CASE RecvRetry
  BY <1>17, <1>0 DEF CancelInv, NothingLate, GatedOnce, ConnectedOnce,
    ErrorTwice, LateGated, GatedCallbacks, AfterLateConnect, AfterLateError,
    RecvRetry, worker, network, history, owner
<1>18. CASE RecvClosed
  BY <1>18, <1>0 DEF CancelInv, NothingLate, GatedOnce, ConnectedOnce,
    ErrorTwice, LateGated, GatedCallbacks, AfterLateConnect, AfterLateError,
    RecvClosed, Disconnected, network, owner
<1>19. CASE RecvFailed
  BY <1>19, <1>0 DEF CancelInv, NothingLate, GatedOnce, ConnectedOnce,
    ErrorTwice, LateGated, GatedCallbacks, AfterLateConnect, AfterLateError,
    RecvFailed, HandleErrorResponse, network, history, owner
<1>20. CASE RecvHeaderPart
  BY <1>20, <1>0 DEF CancelInv, NothingLate, GatedOnce, ConnectedOnce,
    ErrorTwice, LateGated, GatedCallbacks, AfterLateConnect, AfterLateError,
    RecvHeaderPart, worker, history, owner
<1>21. CASE RecvHeader
  BY <1>21, <1>0 DEF CancelInv, NothingLate, GatedOnce, ConnectedOnce,
    ErrorTwice, LateGated, GatedCallbacks, AfterLateConnect, AfterLateError,
    RecvHeader, owner
<1>22. CASE RecvBody
  BY <1>22, <1>0 DEF CancelInv, NothingLate, GatedOnce, ConnectedOnce,
    ErrorTwice, LateGated, GatedCallbacks, AfterLateConnect, AfterLateError,
    RecvBody, history, owner
<1>23. CASE ResponseHeader
  <2>1. late' = late /\ isValid' = isValid /\ ret' = ret /\ pc = "responseHeader"
    BY <1>23 DEF ResponseHeader, worker, owner, history
  <2>2. CASE isValid
    <3>1. \A cb \in Callbacks : late[cb] = 0
      BY <2>2 DEF CancelInv, NothingLate
    <3>2. LateGated = 0 /\ late["onConnected"] = 0 /\ late["onError"] = 0
      BY <3>1 DEF LateGated, Callbacks
    <3> QED BY <2>1, <3>1, <3>2 DEF CancelInv, NothingLate, GatedOnce, ConnectedOnce, ErrorTwice,
                          LateGated, GatedCallbacks, AfterLateConnect, AfterLateError
  <2>3. CASE ~isValid
    <3>1. pc' = "body"
      BY <1>23, <2>3 DEF ResponseHeader, Guarded
    <3>2. ret \in {"done", "redirectGo"}
      BY DEF TypeOK, SocketInv
    <3> QED BY <2>1, <2>3, <3>1, <3>2 DEF CancelInv, NothingLate, GatedOnce, ConnectedOnce, ErrorTwice,
                          LateGated, GatedCallbacks, AfterLateConnect, AfterLateError, SocketInv
  <2> QED BY <2>2, <2>3
<1>24. CASE OnParseHeaderDone
  BY <1>24, <1>0 DEF CancelInv, NothingLate, GatedOnce, ConnectedOnce,
    ErrorTwice, LateGated, GatedCallbacks, AfterLateConnect, AfterLateError,
    Callbacks, OnParseHeaderDone, Invoke, worker, network, owner
<1>25. CASE Body
  BY <1>25, <1>0 DEF CancelInv, NothingLate, GatedOnce, ConnectedOnce,
    ErrorTwice, LateGated, GatedCallbacks, AfterLateConnect, AfterLateError,
    Body, network, history, owner
<1>26. CASE ResponseData
  <2>1. late' = late /\ isValid' = isValid /\ ret' = ret /\ pc = "responseData"
    BY <1>26 DEF ResponseData, worker, owner, history
  <2>2. CASE isValid
    <3>1. \A cb \in Callbacks : late[cb] = 0
      BY <2>2 DEF CancelInv, NothingLate
    <3>2. LateGated = 0 /\ late["onConnected"] = 0 /\ late["onError"] = 0
      BY <3>1 DEF LateGated, Callbacks
    <3> QED BY <2>1, <3>1, <3>2 DEF CancelInv, NothingLate, GatedOnce, ConnectedOnce, ErrorTwice,
                          LateGated, GatedCallbacks, AfterLateConnect, AfterLateError
  <2>3. CASE ~isValid
    <3>1. pc' = (IF rx.chunked THEN "parseChunk" ELSE "bodyEnd")
      BY <1>26, <2>3 DEF ResponseData, Guarded
    <3>2. ret \in {"done", "redirectGo"}
      BY DEF TypeOK, SocketInv
    <3> QED BY <2>1, <2>3, <3>1, <3>2 DEF CancelInv, NothingLate, GatedOnce, ConnectedOnce, ErrorTwice,
                          LateGated, GatedCallbacks, AfterLateConnect, AfterLateError, SocketInv
  <2> QED BY <2>2, <2>3
<1>27. CASE OnData
  BY <1>27, <1>0 DEF CancelInv, NothingLate, GatedOnce, ConnectedOnce,
    ErrorTwice, LateGated, GatedCallbacks, AfterLateConnect, AfterLateError,
    Callbacks, OnData, Invoke, worker, network, owner
<1>28. CASE BodyEnd
  BY <1>28, <1>0 DEF CancelInv, NothingLate, GatedOnce, ConnectedOnce,
    ErrorTwice, LateGated, GatedCallbacks, AfterLateConnect, AfterLateError,
    BodyEnd, Disconnected, network, history, owner
<1>29. CASE ParseChunkData
  BY <1>29, <1>0 DEF CancelInv, NothingLate, GatedOnce, ConnectedOnce,
    ErrorTwice, LateGated, GatedCallbacks, AfterLateConnect, AfterLateError,
    ParseChunkData, network, history, owner
<1>30. CASE ParseLastChunk
  BY <1>30, <1>0 DEF CancelInv, NothingLate, GatedOnce, ConnectedOnce,
    ErrorTwice, LateGated, GatedCallbacks, AfterLateConnect, AfterLateError,
    ParseLastChunk, network, history, owner
<1>31. CASE ParseChunkEnd
  BY <1>31, <1>0 DEF CancelInv, NothingLate, GatedOnce, ConnectedOnce,
    ErrorTwice, LateGated, GatedCallbacks, AfterLateConnect, AfterLateError,
    ParseChunkEnd, worker, network, history, owner
<1>32. CASE ChunkSizeError
  BY <1>32, <1>0 DEF CancelInv, NothingLate, GatedOnce, ConnectedOnce,
    ErrorTwice, LateGated, GatedCallbacks, AfterLateConnect, AfterLateError,
    ChunkSizeError, HandleErrorResponse, network, history, owner
<1>33. CASE ParseChunkThrows
  BY <1>33, <1>0 DEF CancelInv, NothingLate, GatedOnce, ConnectedOnce,
    ErrorTwice, LateGated, GatedCallbacks, AfterLateConnect, AfterLateError,
    ParseChunkThrows, worker, network, history, owner
<1>34. CASE Redirect
  BY <1>34, <1>0 DEF CancelInv, NothingLate, GatedOnce, ConnectedOnce,
    ErrorTwice, LateGated, GatedCallbacks, AfterLateConnect, AfterLateError,
    Redirect, HandleErrorResponse, network, history, owner
<1>35. CASE RedirectGo
  BY <1>35, <1>0 DEF CancelInv, NothingLate, GatedOnce, ConnectedOnce,
    ErrorTwice, LateGated, GatedCallbacks, AfterLateConnect, AfterLateError,
    RedirectGo, HandleErrorResponse, network, history, owner
<1>36. CASE Cancel
  BY <1>36, <1>0 DEF CancelInv, NothingLate, GatedOnce, ConnectedOnce,
    ErrorTwice, LateGated, GatedCallbacks, AfterLateConnect, AfterLateError,
    Callbacks, Cancel, worker, network, history
<1>37. CASE Destroy
  BY <1>37, <1>0 DEF CancelInv, NothingLate, GatedOnce, ConnectedOnce,
    ErrorTwice, LateGated, GatedCallbacks, AfterLateConnect, AfterLateError,
    Destroy, worker, network, history
<1>38. CASE Join
  BY <1>38, <1>0 DEF CancelInv, NothingLate, GatedOnce, ConnectedOnce,
    ErrorTwice, LateGated, GatedCallbacks, AfterLateConnect, AfterLateError,
    Join, network
<1>39. CASE Tick
  BY <1>39, <1>0 DEF CancelInv, NothingLate, GatedOnce, ConnectedOnce,
    ErrorTwice, LateGated, GatedCallbacks, AfterLateConnect, AfterLateError,
    Tick, worker, network, history
<1>40. CASE SetClock
  BY <1>40, <1>0 DEF CancelInv, NothingLate, GatedOnce, ConnectedOnce,
    ErrorTwice, LateGated, GatedCallbacks, AfterLateConnect, AfterLateError,
    SetClock, worker, network, history
<1>41. CASE UNCHANGED vars
  BY <1>41 DEF vars, CancelInv, NothingLate, GatedOnce, ConnectedOnce,
    ErrorTwice, LateGated, GatedCallbacks, AfterLateConnect, AfterLateError
<1> QED
  BY <1>1, <1>2, <1>3, <1>4, <1>5, <1>6, <1>7, <1>8, <1>9, <1>10, <1>11,
     <1>12, <1>13, <1>14, <1>15, <1>16, <1>17, <1>18, <1>19, <1>20, <1>21,
     <1>22, <1>23, <1>24, <1>25, <1>26, <1>27, <1>28, <1>29, <1>30, <1>31,
     <1>32, <1>33, <1>34, <1>35, <1>36, <1>37, <1>38, <1>39, <1>40, <1>41
     DEF Next, Worker

(* At every moment the callbacks made since cancel() and those the worker  *)
(* may still make stay within their bounds.                                *)
THEOREM CancelInvariant == Spec => []CancelInv
  BY TypeCorrect, SocketInvariant, CancelInvInit, CancelInvNext, PTL DEF Spec

(* After cancel() at most one guarded callback still comes, the one whose  *)
(* test had been passed, at most one onConnected, and at most two onError. *)
THEOREM CancelIsBounded == Spec => []CancelBound
<1>1. CancelInv => CancelBound
  BY DEF CancelInv, GatedOnce, ConnectedOnce, ErrorTwice, LateGated, CancelBound
<1> QED BY <1>1, CancelInvariant, PTL

-----------------------------------------------------------------------------
(* Request implements HandlerContract as long as the peers send no more    *)
(* redirect responses than the limit allows (past it the worker goes on    *)
(* after the error and the contract is broken). The invariant relates each *)
(* stage of a hop to the callbacks made before it, and the redirect        *)
(* counter to the redirect responses seen, so that the limit is not hit.   *)

BeforeEnd == WorkerSteps \ {"disconnected", "onDisconnected", "done", "terminated"}

BeforeHeader ==
  \/ pc \in {"process", "resolve", "create", "checkTime", "connect", "canSend", "send",
            "redirect", "redirectGo", "responseHeader", "onParseHeaderDone"}
  \/ ReadingHeader

AfterConnect ==
  \/ pc \in {"canSend", "send", "responseHeader", "onParseHeaderDone"}
  \/ ReadingHeader

AfterHeader ==
  \/ pc \in {"body", "parseChunk", "responseData", "onData", "bodyEnd"}
  \/ pc \in Reading /\ rx.parsed

NotEnded ==
  /\ pc \in BeforeEnd => calls["onError"] = 0
  /\ pc \in BeforeEnd \cup {"disconnected", "onDisconnected"} => calls["onDisconnected"] = 0

HeaderFirst ==
  /\ BeforeHeader => calls["onParseHeaderDone"] = 0 /\ calls["onData"] = 0
  /\ AfterConnect /\ "onConnected" \in info.on => calls["onConnected"] > 0
  /\ AfterHeader /\ "onParseHeaderDone" \in info.on /\ (isValid \/ pc = "onData") =>
       calls["onParseHeaderDone"] = 1

RedirectsCounted ==
  /\ hops <= MaxRedirects
  /\ redirectCount <= hops
  /\ pc \in {"redirect", "redirectGo"} => redirectCount < hops
  /\ ReadingHeader /\ peer.response.status = "Found" => hops < MaxRedirects

(* The header was parsed before anything is done with the body. *)
HeaderParsed ==
  pc \in {"responseHeader", "onParseHeaderDone", "body", "parseChunk", "responseData",
          "onData", "bodyEnd"} => rx.parsed

ContractInv ==
  ret = "done" /\ NotEnded /\ HeaderFirst /\ HeaderParsed /\ RedirectsCounted

(* A request that has not started is in order: nothing connected, shown or *)
(* ended.                                                                  *)
LEMMA ContractInvInit == Init => ContractInv
  BY BoundAssumption
  DEF Init, ContractInv, NotEnded, HeaderFirst, HeaderParsed, RedirectsCounted, BeforeHeader,
      AfterConnect, AfterHeader, ReadingHeader, Reading, Callbacks, NoResponse

(* As long as the peers redirect no more often than the limit allows,      *)
(* every step keeps the callbacks in order: nothing is called after the    *)
(* end, and no header is shown twice.                                      *)
LEMMA ContractInvNext ==
  ASSUME MaxRedirects <= RedirectMaxCount, TypeOK, SocketInv, ContractInv, [Next]_vars
  PROVE  ContractInv'
<1>0. /\ \A cb \in Callbacks : calls[cb] \in Nat
      /\ DOMAIN calls = Callbacks
      /\ isValid \in BOOLEAN
      /\ hops \in Nat /\ redirectCount \in Nat /\ MaxRedirects \in Nat
  BY BoundAssumption DEF TypeOK
<1>00. rx \in ReceiveLocals /\ peer \in PeerStates
  BY DEF TypeOK
<1>1. CASE Process
  BY <1>1, <1>0, <1>00 DEF ContractInv, NotEnded, HeaderFirst, HeaderParsed,
    RedirectsCounted, BeforeEnd, BeforeHeader, AfterConnect, AfterHeader,
    ReadingHeader, Reading, WorkerSteps, Process, HandleErrorResponse,
    network, history, owner
<1>2. CASE OnError
  BY <1>2, <1>0 DEF ContractInv, NotEnded, HeaderFirst, HeaderParsed,
    RedirectsCounted, BeforeEnd, BeforeHeader, AfterConnect, AfterHeader,
    ReadingHeader, Reading, WorkerSteps, Callbacks, OnError, Invoke, worker,
    network, owner
<1>3. CASE CheckDisconnected
  BY <1>3, <1>0 DEF ContractInv, NotEnded, HeaderFirst, HeaderParsed,
    RedirectsCounted, BeforeEnd, BeforeHeader, AfterConnect, AfterHeader,
    ReadingHeader, Reading, WorkerSteps, CheckDisconnected, Guarded, worker,
    network, history, owner
<1>4. CASE OnDisconnected
  BY <1>4, <1>0, <1>00 DEF ContractInv, NotEnded, HeaderFirst, HeaderParsed,
    RedirectsCounted, BeforeEnd, BeforeHeader, AfterConnect, AfterHeader,
    ReadingHeader, Reading, WorkerSteps, Callbacks, OnDisconnected, Invoke,
    network, owner
<1>5. CASE Resolve
  BY <1>5, <1>0, <1>00 DEF ContractInv, NotEnded, HeaderFirst, HeaderParsed,
    RedirectsCounted, BeforeEnd, BeforeHeader, AfterConnect, AfterHeader,
    ReadingHeader, Reading, WorkerSteps, Resolve, HandleErrorResponse,
    network, history, owner
<1>6. CASE CreateSocket
  BY <1>6, <1>0, <1>00 DEF ContractInv, NotEnded, HeaderFirst, HeaderParsed,
    RedirectsCounted, BeforeEnd, BeforeHeader, AfterConnect, AfterHeader,
    ReadingHeader, Reading, WorkerSteps, SocketInv, isHttpScheme,
    CreateSocket, HandleErrorResponse, owner
<1>7. CASE CheckTime
  BY <1>7, <1>0, <1>00 DEF ContractInv, NotEnded, HeaderFirst, HeaderParsed,
    RedirectsCounted, BeforeEnd, BeforeHeader, AfterConnect, AfterHeader,
    ReadingHeader, Reading, WorkerSteps, CheckTime, HandleErrorResponse,
    network, history, owner
<1>8. CASE Connect
  BY <1>8, <1>0, <1>00 DEF ContractInv, NotEnded, HeaderFirst, HeaderParsed,
    RedirectsCounted, BeforeEnd, BeforeHeader, AfterConnect, AfterHeader,
    ReadingHeader, Reading, WorkerSteps, Callbacks, Connect,
    HandleErrorResponse, Invoke, owner
<1>9. CASE CanSend
  BY <1>9, <1>0, <1>00 DEF ContractInv, NotEnded, HeaderFirst, HeaderParsed,
    RedirectsCounted, BeforeEnd, BeforeHeader, AfterConnect, AfterHeader,
    ReadingHeader, Reading, WorkerSteps, CanSend, HandleErrorResponse,
    history, owner
<1>10. CASE Send
  BY <1>10, <1>0, <1>00 DEF ContractInv, NotEnded, HeaderFirst, HeaderParsed,
    RedirectsCounted, BeforeEnd, BeforeHeader, AfterConnect, AfterHeader,
    ReadingHeader, Reading, WorkerSteps, FreshRx, Send, history, owner
<1>11. CASE SendFailed
  BY <1>11, <1>0, <1>00 DEF ContractInv, NotEnded, HeaderFirst, HeaderParsed,
    RedirectsCounted, BeforeEnd, BeforeHeader, AfterConnect, AfterHeader,
    ReadingHeader, Reading, WorkerSteps, SendFailed, HandleErrorResponse,
    network, history, owner
<1>12. CASE IsReceivable
  BY <1>12, <1>0, <1>00 DEF ContractInv, NotEnded, HeaderFirst, HeaderParsed,
    RedirectsCounted, BeforeEnd, BeforeHeader, AfterConnect, AfterHeader,
    ReadingHeader, Reading, WorkerSteps, IsReceivable, Disconnected, network,
    history, owner
<1>13. CASE SelectReadable
  BY <1>13, <1>0 DEF ContractInv, NotEnded, HeaderFirst, HeaderParsed,
    RedirectsCounted, BeforeEnd, BeforeHeader, AfterConnect, AfterHeader,
    ReadingHeader, Reading, WorkerSteps, SelectReadable, worker, network,
    history, owner
<1>14. CASE SelectTimeout
  BY <1>14, <1>0, <1>00 DEF ContractInv, NotEnded, HeaderFirst, HeaderParsed,
    RedirectsCounted, BeforeEnd, BeforeHeader, AfterConnect, AfterHeader,
    ReadingHeader, Reading, WorkerSteps, SelectTimeout, HandleErrorResponse,
    network, history, owner
<1>15. CASE SelectInterrupted
  BY <1>15, <1>0, <1>00 DEF ContractInv, NotEnded, HeaderFirst, HeaderParsed,
    RedirectsCounted, BeforeEnd, BeforeHeader, AfterConnect, AfterHeader,
    ReadingHeader, Reading, WorkerSteps, SelectInterrupted,
    HandleErrorResponse, network, history, owner
<1>16. CASE SelectFailed
  BY <1>16, <1>0, <1>00 DEF ContractInv, NotEnded, HeaderFirst, HeaderParsed,
    RedirectsCounted, BeforeEnd, BeforeHeader, AfterConnect, AfterHeader,
    ReadingHeader, Reading, WorkerSteps, SelectFailed, HandleErrorResponse,
    network, history, owner
<1>17. CASE RecvRetry
  BY <1>17, <1>0 DEF ContractInv, NotEnded, HeaderFirst, HeaderParsed,
    RedirectsCounted, BeforeEnd, BeforeHeader, AfterConnect, AfterHeader,
    ReadingHeader, Reading, WorkerSteps, RecvRetry, worker, network, history,
    owner
<1>18. CASE RecvClosed
  BY <1>18, <1>0, <1>00 DEF ContractInv, NotEnded, HeaderFirst, HeaderParsed,
    RedirectsCounted, BeforeEnd, BeforeHeader, AfterConnect, AfterHeader,
    ReadingHeader, Reading, WorkerSteps, RecvClosed, Disconnected, network,
    owner
<1>19. CASE RecvFailed
  BY <1>19, <1>0, <1>00 DEF ContractInv, NotEnded, HeaderFirst, HeaderParsed,
    RedirectsCounted, BeforeEnd, BeforeHeader, AfterConnect, AfterHeader,
    ReadingHeader, Reading, WorkerSteps, RecvFailed, HandleErrorResponse,
    network, history, owner
<1>20. CASE RecvHeaderPart
  BY <1>20, <1>0, <1>00 DEF ContractInv, NotEnded, HeaderFirst, HeaderParsed,
    RedirectsCounted, BeforeEnd, BeforeHeader, AfterConnect, AfterHeader,
    ReadingHeader, Reading, WorkerSteps, RecvHeaderPart, worker, history,
    owner
<1>21. CASE RecvHeader
  <2>1. rx'.parsed = TRUE
    BY <1>21, <1>00 DEF RecvHeader, ReceiveLocals
  <2>2. pc = "recv" /\ ~rx.parsed /\ UNCHANGED <<info, isValid, redirectCount, ret, calls>>
    BY <1>21 DEF RecvHeader, owner
  <2>3. \/ pc' = "redirect" /\ hops' = hops + 1 /\ peer.response.status = "Found"
        \/ pc' = "responseHeader" /\ hops' = hops
    BY <1>21 DEF RecvHeader
  <2> QED BY <1>0, <2>1, <2>2, <2>3
          DEF ContractInv, NotEnded, HeaderFirst, HeaderParsed, RedirectsCounted, BeforeEnd,
              BeforeHeader, AfterConnect, AfterHeader, ReadingHeader, Reading, WorkerSteps
<1>22. CASE RecvBody
  BY <1>22, <1>0, <1>00 DEF ContractInv, NotEnded, HeaderFirst, HeaderParsed,
    RedirectsCounted, BeforeEnd, BeforeHeader, AfterConnect, AfterHeader,
    ReadingHeader, Reading, WorkerSteps, RecvBody, history, owner
<1>23. CASE ResponseHeader
  BY <1>23, <1>0 DEF ContractInv, NotEnded, HeaderFirst, HeaderParsed,
    RedirectsCounted, BeforeEnd, BeforeHeader, AfterConnect, AfterHeader,
    ReadingHeader, Reading, WorkerSteps, ResponseHeader, Guarded, worker,
    network, history, owner
<1>24. CASE OnParseHeaderDone
  BY <1>24, <1>0 DEF ContractInv, NotEnded, HeaderFirst, HeaderParsed,
    RedirectsCounted, BeforeEnd, BeforeHeader, AfterConnect, AfterHeader,
    ReadingHeader, Reading, WorkerSteps, Callbacks, OnParseHeaderDone, Invoke,
    worker, network, owner
<1>25. CASE Body
  BY <1>25, <1>0, <1>00 DEF ContractInv, NotEnded, HeaderFirst, HeaderParsed,
    RedirectsCounted, BeforeEnd, BeforeHeader, AfterConnect, AfterHeader,
    ReadingHeader, Reading, WorkerSteps, Body, network, history, owner
<1>26. CASE ResponseData
  BY <1>26, <1>0, <1>00 DEF ContractInv, NotEnded, HeaderFirst, HeaderParsed,
    RedirectsCounted, BeforeEnd, BeforeHeader, AfterConnect, AfterHeader,
    ReadingHeader, Reading, WorkerSteps, ResponseData, Guarded, worker,
    network, history, owner
<1>27. CASE OnData
  BY <1>27, <1>0, <1>00 DEF ContractInv, NotEnded, HeaderFirst, HeaderParsed,
    RedirectsCounted, BeforeEnd, BeforeHeader, AfterConnect, AfterHeader,
    ReadingHeader, Reading, WorkerSteps, Callbacks, OnData, Invoke, worker,
    network, owner
<1>28. CASE BodyEnd
  BY <1>28, <1>0, <1>00 DEF ContractInv, NotEnded, HeaderFirst, HeaderParsed,
    RedirectsCounted, BeforeEnd, BeforeHeader, AfterConnect, AfterHeader,
    ReadingHeader, Reading, WorkerSteps, BodyEnd, Disconnected, network,
    history, owner
<1>29. CASE ParseChunkData
  BY <1>29, <1>0, <1>00 DEF ContractInv, NotEnded, HeaderFirst, HeaderParsed,
    RedirectsCounted, BeforeEnd, BeforeHeader, AfterConnect, AfterHeader,
    ReadingHeader, Reading, WorkerSteps, ParseChunkData, network, history,
    owner
<1>30. CASE ParseLastChunk
  BY <1>30, <1>0, <1>00 DEF ContractInv, NotEnded, HeaderFirst, HeaderParsed,
    RedirectsCounted, BeforeEnd, BeforeHeader, AfterConnect, AfterHeader,
    ReadingHeader, Reading, WorkerSteps, ParseLastChunk, network, history,
    owner
<1>31. CASE ParseChunkEnd
  BY <1>31, <1>0, <1>00 DEF ContractInv, NotEnded, HeaderFirst, HeaderParsed,
    RedirectsCounted, BeforeEnd, BeforeHeader, AfterConnect, AfterHeader,
    ReadingHeader, Reading, WorkerSteps, ParseChunkEnd, worker, network,
    history, owner
<1>32. CASE ChunkSizeError
  BY <1>32, <1>0, <1>00 DEF ContractInv, NotEnded, HeaderFirst, HeaderParsed,
    RedirectsCounted, BeforeEnd, BeforeHeader, AfterConnect, AfterHeader,
    ReadingHeader, Reading, WorkerSteps, ChunkSizeError, HandleErrorResponse,
    network, history, owner
<1>33. CASE ParseChunkThrows
  BY <1>33, <1>0, <1>00 DEF ContractInv, NotEnded, HeaderFirst, HeaderParsed,
    RedirectsCounted, BeforeEnd, BeforeHeader, AfterConnect, AfterHeader,
    ReadingHeader, Reading, WorkerSteps, ParseChunkThrows, worker, network,
    history, owner
<1>34. CASE Redirect
  <2>1. redirectCount < RedirectMaxCount
    BY <1>34, <1>0, CounterAssumption DEF Redirect, ContractInv, RedirectsCounted
  <2>2. \/ pc' = "onError" /\ ret' = "done"
        \/ pc' = "redirectGo" /\ ret' = ret
    BY <1>34, <2>1, <1>0, CounterAssumption DEF Redirect, HandleErrorResponse
  <2>3. UNCHANGED <<info, isValid, redirectCount, rx, peer, calls, hops>> /\ pc = "redirect"
    BY <1>34 DEF Redirect, network, history, owner
  <2> QED BY <2>2, <2>3
          DEF ContractInv, NotEnded, HeaderFirst, HeaderParsed, RedirectsCounted, BeforeEnd,
              BeforeHeader, AfterConnect, AfterHeader, ReadingHeader, Reading, WorkerSteps
<1>35. CASE RedirectGo
  <2>1. redirectCount < hops /\ hops < CounterModulus
    BY <1>35, <1>0, CounterAssumption DEF RedirectGo, ContractInv, RedirectsCounted
  <2>2. redirectCount' <= hops
    BY <1>35, <2>1, <1>0, CounterAssumption DEF RedirectGo
  <2>3. UNCHANGED <<info, isValid, rx, peer, calls, hops>> /\ pc = "redirectGo"
        /\ pc' \in {"onError", "resolve"} /\ ret' = "done"
    BY <1>35 DEF RedirectGo, HandleErrorResponse, ContractInv, network, history, owner
  <2> QED BY <2>2, <2>3
          DEF ContractInv, NotEnded, HeaderFirst, HeaderParsed, RedirectsCounted, BeforeEnd,
              BeforeHeader, AfterConnect, AfterHeader, ReadingHeader, Reading, WorkerSteps
<1>36. CASE Cancel
  BY <1>36, <1>0 DEF ContractInv, NotEnded, HeaderFirst, HeaderParsed,
    RedirectsCounted, BeforeEnd, BeforeHeader, AfterConnect, AfterHeader,
    ReadingHeader, Reading, WorkerSteps, Cancel, worker, network, history
<1>37. CASE Destroy
  BY <1>37, <1>0 DEF ContractInv, NotEnded, HeaderFirst, HeaderParsed,
    RedirectsCounted, BeforeEnd, BeforeHeader, AfterConnect, AfterHeader,
    ReadingHeader, Reading, WorkerSteps, Destroy, worker, network, history
<1>38. CASE Join
  BY <1>38, <1>0, <1>00 DEF ContractInv, NotEnded, HeaderFirst, HeaderParsed,
    RedirectsCounted, BeforeEnd, BeforeHeader, AfterConnect, AfterHeader,
    ReadingHeader, Reading, WorkerSteps, Join, network
<1>39. CASE Tick
  BY <1>39, <1>0 DEF ContractInv, NotEnded, HeaderFirst, HeaderParsed,
    RedirectsCounted, BeforeEnd, BeforeHeader, AfterConnect, AfterHeader,
    ReadingHeader, Reading, WorkerSteps, Tick, worker, network, history
<1>40. CASE SetClock
  BY <1>40, <1>0 DEF ContractInv, NotEnded, HeaderFirst, HeaderParsed,
    RedirectsCounted, BeforeEnd, BeforeHeader, AfterConnect, AfterHeader,
    ReadingHeader, Reading, WorkerSteps, SetClock, worker, network, history
<1>41. CASE UNCHANGED vars
  BY <1>41 DEF vars, ContractInv, NotEnded, HeaderFirst, HeaderParsed,
    RedirectsCounted, BeforeEnd, BeforeHeader, AfterConnect, AfterHeader,
    ReadingHeader, Reading, WorkerSteps
<1> QED
  BY <1>1, <1>2, <1>3, <1>4, <1>5, <1>6, <1>7, <1>8, <1>9, <1>10, <1>11,
     <1>12, <1>13, <1>14, <1>15, <1>16, <1>17, <1>18, <1>19, <1>20, <1>21,
     <1>22, <1>23, <1>24, <1>25, <1>26, <1>27, <1>28, <1>29, <1>30, <1>31,
     <1>32, <1>33, <1>34, <1>35, <1>36, <1>37, <1>38, <1>39, <1>40, <1>41
     DEF Next, Worker

(* Where the worker is and which callbacks it has made always fit          *)
(* together, as long as redirects stay within the limit.                   *)
THEOREM ContractInvariant ==
  ASSUME MaxRedirects <= RedirectMaxCount
  PROVE  Spec => []ContractInv
<1>1. TypeOK /\ SocketInv /\ ContractInv /\ [Next]_vars => ContractInv'
  BY ContractInvNext
<1> QED BY TypeCorrect, SocketInvariant, ContractInvInit, <1>1, PTL DEF Spec

-----------------------------------------------------------------------------
(* The refinement. The steps that invoke a callback are the steps of the   *)
(* contract; every other step stutters.                                    *)

(* A request that has not started is the initial state of the contract. *)
LEMMA ContractInit == Init => Contract!Init
  BY CallerAssumption DEF Init, Contract!Init, Callbacks

(* What an invocation leaves alone. *)
LEMMA InvokeOthers ==
  ASSUME TypeOK, NEW cb \in Callbacks, NEW units \in Nat, Invoke(cb, units)
  PROVE  /\ \A other \in Callbacks \ {cb} : calls'[other] = calls[other]
         /\ calls' = calls \/ (cb \in info.on /\ calls'[cb] = calls[cb] + units)
  BY DEF TypeOK, Invoke

(* Every step of the request is a step of the contract, or changes nothing *)
(* the caller sees.                                                        *)
LEMMA ContractNext ==
  ASSUME TypeOK, ContractInv, [Next]_vars
  PROVE  [Contract!Next]_(Contract!vars)
<1>0. \A cb \in Callbacks : calls[cb] \in Nat
  BY DEF TypeOK
<1>1. CASE OnError
  <2>1. calls["onError"] = 0 /\ calls["onDisconnected"] = 0
    BY <1>1 DEF OnError, ContractInv, NotEnded, BeforeEnd, WorkerSteps
  <2>2. Invoke("onError", 1) /\ info' = info
    BY <1>1 DEF OnError, owner
  <2> QED BY <2>1, <2>2, InvokeOthers
          DEF Callbacks, Contract!Next, Contract!OnError, Contract!Open, Contract!vars
<1>2. CASE OnDisconnected
  <2>1. calls["onDisconnected"] = 0
    BY <1>2 DEF OnDisconnected, ContractInv, NotEnded
  <2>2. Invoke("onDisconnected", 1) /\ info' = info
    BY <1>2 DEF OnDisconnected, owner
  <2> QED BY <2>1, <2>2, InvokeOthers
          DEF Callbacks, Contract!Next, Contract!OnDisconnected, Contract!vars
<1>3. CASE Connect
  <2>1. /\ calls["onError"] = 0 /\ calls["onDisconnected"] = 0
        /\ calls["onParseHeaderDone"] = 0 /\ calls["onData"] = 0
    BY <1>3 DEF Connect, ContractInv, NotEnded, BeforeEnd, WorkerSteps, HeaderFirst,
                BeforeHeader
  <2>2. (Invoke("onConnected", 1) \/ calls' = calls) /\ info' = info
    BY <1>3 DEF Connect, owner
  <2> QED BY <2>1, <2>2, InvokeOthers
          DEF Callbacks, Contract!Next, Contract!OnConnected, Contract!Open, Contract!vars
<1>4. CASE OnParseHeaderDone
  <2>1. /\ calls["onError"] = 0 /\ calls["onDisconnected"] = 0
        /\ calls["onParseHeaderDone"] = 0 /\ calls["onData"] = 0
        /\ "onConnected" \in info.on => calls["onConnected"] > 0
    BY <1>4 DEF OnParseHeaderDone, ContractInv, NotEnded, BeforeEnd, WorkerSteps,
                HeaderFirst, BeforeHeader, AfterConnect
  <2>2. Invoke("onParseHeaderDone", 1) /\ info' = info
    BY <1>4 DEF OnParseHeaderDone, owner
  <2> QED BY <2>1, <2>2, InvokeOthers
          DEF Callbacks, Contract!Next, Contract!OnParseHeaderDone, Contract!Open,
              Contract!vars
<1>5. CASE OnData
  <2>1. /\ calls["onError"] = 0 /\ calls["onDisconnected"] = 0
        /\ "onParseHeaderDone" \in info.on => calls["onParseHeaderDone"] = 1
    BY <1>5 DEF OnData, ContractInv, NotEnded, BeforeEnd, WorkerSteps, HeaderFirst,
                AfterHeader
  <2>2. Invoke("onData", rx.piece) /\ info' = info /\ rx.piece \in Nat
    BY <1>5 DEF OnData, owner, TypeOK, ReceiveLocals
  <2>3. calls'["onData"] = calls["onData"] \/ calls'["onData"] > calls["onData"]
    BY <1>0, <2>2, InvokeOthers DEF Callbacks
  <2> QED BY <2>1, <2>2, <2>3, InvokeOthers
          DEF Callbacks, Contract!Next, Contract!OnData, Contract!Open, Contract!vars
<1>6. CASE UNCHANGED <<info, calls>>
  BY <1>6 DEF Contract!vars
<1>7. \/ OnError \/ OnDisconnected \/ Connect \/ OnParseHeaderDone \/ OnData
      \/ UNCHANGED <<info, calls>>
  <2> USE DEF worker, network, history, owner
  <2>1. CASE Process
    BY <2>1 DEF Process
  <2>2. CASE CheckDisconnected
    BY <2>2 DEF CheckDisconnected
  <2>3. CASE Resolve
    BY <2>3 DEF Resolve
  <2>4. CASE CreateSocket
    BY <2>4 DEF CreateSocket
  <2>5. CASE CheckTime
    BY <2>5 DEF CheckTime
  <2>6. CASE CanSend
    BY <2>6 DEF CanSend
  <2>7. CASE Send
    BY <2>7 DEF Send
  <2>8. CASE SendFailed
    BY <2>8 DEF SendFailed
  <2>9. CASE IsReceivable
    BY <2>9 DEF IsReceivable
  <2>10. CASE SelectReadable
    BY <2>10 DEF SelectReadable
  <2>11. CASE SelectTimeout
    BY <2>11 DEF SelectTimeout
  <2>12. CASE SelectInterrupted
    BY <2>12 DEF SelectInterrupted
  <2>13. CASE SelectFailed
    BY <2>13 DEF SelectFailed
  <2>14. CASE RecvRetry
    BY <2>14 DEF RecvRetry
  <2>15. CASE RecvClosed
    BY <2>15 DEF RecvClosed
  <2>16. CASE RecvFailed
    BY <2>16 DEF RecvFailed
  <2>17. CASE RecvHeaderPart
    BY <2>17 DEF RecvHeaderPart
  <2>18. CASE RecvHeader
    BY <2>18 DEF RecvHeader
  <2>19. CASE RecvBody
    BY <2>19 DEF RecvBody
  <2>20. CASE ResponseHeader
    BY <2>20 DEF ResponseHeader
  <2>21. CASE Body
    BY <2>21 DEF Body
  <2>22. CASE ResponseData
    BY <2>22 DEF ResponseData
  <2>23. CASE BodyEnd
    BY <2>23 DEF BodyEnd
  <2>24. CASE ParseChunkData
    BY <2>24 DEF ParseChunkData
  <2>25. CASE ParseLastChunk
    BY <2>25 DEF ParseLastChunk
  <2>26. CASE ParseChunkEnd
    BY <2>26 DEF ParseChunkEnd
  <2>27. CASE ChunkSizeError
    BY <2>27 DEF ChunkSizeError
  <2>28. CASE ParseChunkThrows
    BY <2>28 DEF ParseChunkThrows
  <2>29. CASE Redirect
    BY <2>29 DEF Redirect
  <2>30. CASE RedirectGo
    BY <2>30 DEF RedirectGo
  <2>31. CASE Cancel
    BY <2>31 DEF Cancel
  <2>32. CASE Destroy
    BY <2>32 DEF Destroy
  <2>33. CASE Join
    BY <2>33 DEF Join
  <2>34. CASE Tick
    BY <2>34 DEF Tick
  <2>35. CASE SetClock
    BY <2>35 DEF SetClock
  <2>36. CASE UNCHANGED vars
    BY <2>36 DEF vars
  <2> QED
    BY <2>1, <2>2, <2>3, <2>4, <2>5, <2>6, <2>7, <2>8, <2>9, <2>10, <2>11,
       <2>12, <2>13, <2>14, <2>15, <2>16, <2>17, <2>18, <2>19, <2>20, <2>21,
       <2>22, <2>23, <2>24, <2>25, <2>26, <2>27, <2>28, <2>29, <2>30, <2>31,
       <2>32, <2>33, <2>34, <2>35, <2>36 DEF Next, Worker
<1> QED BY <1>1, <1>2, <1>3, <1>4, <1>5, <1>6, <1>7

(* The callbacks follow the contract: onConnected once per hop, then one   *)
(* onParseHeaderDone, then onData, at most one onError and onDisconnected  *)
(* once, as the last of all, whatever callbacks the caller installed and   *)
(* whenever it cancels.                                                    *)
THEOREM RequestImplementsContract ==
  ASSUME MaxRedirects <= RedirectMaxCount
  PROVE  Spec => FollowsContract
<1>1. Spec => [](TypeOK /\ ContractInv)
  BY TypeCorrect, ContractInvariant, PTL
<1>2. TypeOK /\ ContractInv /\ [Next]_vars => [Contract!Next]_(Contract!vars)
  BY ContractNext
<1> QED BY <1>1, <1>2, ContractInit, PTL DEF Spec, FollowsContract, Contract!Spec

-----------------------------------------------------------------------------
(* How a request ends, whatever the peers send: without a condition on     *)
(* their redirects, so past the limit too.                                 *)

(* What a caller who waits for the end relies on                           *)
EndAnnounced ==
  /\ pc = "done" /\ isValid /\ "onDisconnected" \in info.on => calls["onDisconnected"] > 0
  /\ pc = "done" /\ "onError" \in info.on => (calls["onError"] > 0 <=> err # "Success")

AnnouncedInv ==
  /\ pc = "onDisconnected" => "onDisconnected" \in info.on
  /\ pc = "done" /\ isValid /\ "onDisconnected" \in info.on => calls["onDisconnected"] > 0
  /\ pc = "onError" => err # "Success"
  /\ pc # "onError" /\ err # "Success" /\ "onError" \in info.on => calls["onError"] > 0
  /\ calls["onError"] > 0 => err # "Success"

(* The redirect responses seen past the limit, when h were seen in all     *)
Past(h) == IF h > RedirectMaxCount THEN h - RedirectMaxCount ELSE 0

(* Each costs the caller one more onError and one more onDisconnected.     *)
EndsCounted ==
  /\ calls["onError"] <= 1 + Past(hops)
  /\ calls["onDisconnected"] <= 1 + Past(hops)

(* The worker is in the error it reports at the limit and then ignores.    *)
AtLimit == pc \in {"onError", "disconnected", "onDisconnected"} /\ ret = "redirectGo"

CountedInv ==
  /\ redirectCount <= hops
  /\ pc \in {"redirect", "redirectGo"} \/ AtLimit => redirectCount < hops
  /\ AtLimit => hops > RedirectMaxCount
  /\ pc = "redirect" \/ (AtLimit /\ pc = "onError") => calls["onError"] <= Past(hops - 1)
  /\ pc = "redirect" \/ AtLimit => calls["onDisconnected"] <= Past(hops - 1)
  /\ pc \notin {"disconnected", "onDisconnected", "done", "terminated"} \/ AtLimit =>
       calls["onError"] <= Past(hops)
  /\ pc \notin {"done", "terminated"} => calls["onDisconnected"] <= Past(hops)
  /\ EndsCounted

(* The steps that neither report an error, nor announce an end, nor follow *)
(* a redirect                                                              *)
Running ==
  WorkerSteps \ {"redirect", "onError", "disconnected", "onDisconnected", "done", "terminated"}

Quiet ==
  /\ UNCHANGED <<redirectCount, hops, info>>
  /\ calls'["onError"] = calls["onError"] /\ calls'["onDisconnected"] = calls["onDisconnected"]
  /\ isValid' => isValid
  /\ \/ pc \in Running /\ pc' \in (Running \ {"redirectGo"}) \cup {"terminated"} /\ err' = err
     \/ pc \in Running /\ pc' = "disconnected" /\ ret' = "done" /\ err' = err
     \/ pc \in Running /\ pc' = "onError" /\ ret' = "done" /\ err' # "Success"
     \/ pc' = pc /\ ret' = ret /\ err' = err

LEMMA FailuresAreErrors ==
  /\ "Success" \notin SendFailures /\ "Success" \notin ReceiveFailures
BY DEF SendFailures, ReceiveFailures

(* Every step but seven is quiet.                                          *)
LEMMA MostStepsAreQuiet ==
  ASSUME TypeOK, SocketInv, [Next]_vars
  PROVE  \/ Quiet \/ OnError \/ CheckDisconnected \/ OnDisconnected
         \/ RecvHeader \/ Redirect \/ RedirectGo
<1>0. DOMAIN calls = Callbacks /\ isValid \in BOOLEAN
  BY DEF TypeOK
<1> USE DEF Quiet, Running, WorkerSteps
<1>1. CASE Process
  BY <1>1, <1>0
  DEF Process, HandleErrorResponse, worker, network, history, owner
<1>2. CASE Resolve
  BY <1>2, <1>0
  DEF Resolve, HandleErrorResponse, worker, network, history, owner
<1>3. CASE CreateSocket
  BY <1>3, <1>0
  DEF CreateSocket, HandleErrorResponse, SocketInv, isHttpScheme, worker, network, history, owner
<1>4. CASE CheckTime
  BY <1>4, <1>0
  DEF CheckTime, HandleErrorResponse, worker, network, history, owner
<1>5. CASE Connect
  BY <1>5, <1>0
  DEF Connect, HandleErrorResponse, Invoke, Callbacks, worker, network, history, owner
<1>6. CASE CanSend
  BY <1>6, <1>0
  DEF CanSend, HandleErrorResponse, worker, network, history, owner
<1>7. CASE Send
  BY <1>7, <1>0
  DEF Send, worker, network, history, owner
<1>8. CASE SendFailed
  BY <1>8, FailuresAreErrors
  DEF SendFailed, HandleErrorResponse, worker, network, history, owner
<1>9. CASE IsReceivable
  BY <1>9, <1>0
  DEF IsReceivable, Disconnected, worker, network, history, owner
<1>10. CASE SelectReadable
  BY <1>10, <1>0
  DEF SelectReadable, worker, network, history, owner
<1>11. CASE SelectTimeout
  BY <1>11, <1>0
  DEF SelectTimeout, HandleErrorResponse, worker, network, history, owner
<1>12. CASE SelectInterrupted
  BY <1>12, <1>0
  DEF SelectInterrupted, HandleErrorResponse, worker, network, history, owner
<1>13. CASE SelectFailed
  BY <1>13, <1>0
  DEF SelectFailed, HandleErrorResponse, worker, network, history, owner
<1>14. CASE RecvRetry
  BY <1>14, <1>0
  DEF RecvRetry, worker, network, history, owner
<1>15. CASE RecvClosed
  BY <1>15, <1>0
  DEF RecvClosed, Disconnected, worker, network, history, owner
<1>16. CASE RecvFailed
  BY <1>16, FailuresAreErrors
  DEF RecvFailed, HandleErrorResponse, worker, network, history, owner
<1>17. CASE RecvHeaderPart
  BY <1>17, <1>0
  DEF RecvHeaderPart, worker, network, history, owner
<1>18. CASE RecvBody
  BY <1>18, <1>0
  DEF RecvBody, worker, network, history, owner
<1>19. CASE ResponseHeader
  BY <1>19, <1>0
  DEF ResponseHeader, Guarded, worker, network, history, owner
<1>20. CASE OnParseHeaderDone
  BY <1>20, <1>0
  DEF OnParseHeaderDone, Invoke, Callbacks, worker, network, history, owner
<1>21. CASE Body
  BY <1>21, <1>0
  DEF Body, worker, network, history, owner
<1>22. CASE ResponseData
  BY <1>22, <1>0
  DEF ResponseData, Guarded, worker, network, history, owner
<1>23. CASE OnData
  BY <1>23, <1>0
  DEF OnData, Invoke, Callbacks, worker, network, history, owner
<1>24. CASE BodyEnd
  BY <1>24, <1>0
  DEF BodyEnd, Disconnected, worker, network, history, owner
<1>25. CASE ParseChunkData
  BY <1>25, <1>0
  DEF ParseChunkData, worker, network, history, owner
<1>26. CASE ParseLastChunk
  BY <1>26, <1>0
  DEF ParseLastChunk, worker, network, history, owner
<1>27. CASE ParseChunkEnd
  BY <1>27, <1>0
  DEF ParseChunkEnd, worker, network, history, owner
<1>28. CASE ChunkSizeError
  BY <1>28, <1>0
  DEF ChunkSizeError, HandleErrorResponse, worker, network, history, owner
<1>29. CASE ParseChunkThrows
  BY <1>29, <1>0
  DEF ParseChunkThrows, worker, network, history, owner
<1>36. CASE Cancel
  BY <1>36 DEF Cancel, worker, network, history
<1>37. CASE Destroy
  BY <1>37 DEF Destroy, worker, network, history
<1>38. CASE Join
  BY <1>38 DEF Join, network
<1>39. CASE Tick
  BY <1>39 DEF Tick, worker, network, history
<1>40. CASE SetClock
  BY <1>40 DEF SetClock, worker, network, history
<1>41. CASE UNCHANGED vars
  BY <1>41 DEF vars
<1> HIDE DEF Quiet, Running, WorkerSteps
<1> QED
  BY <1>1, <1>2, <1>3, <1>4, <1>5, <1>6, <1>7, <1>8, <1>9, <1>10, <1>11,
     <1>12, <1>13, <1>14, <1>15, <1>16, <1>17, <1>18, <1>19, <1>20, <1>21,
     <1>22, <1>23, <1>24, <1>25, <1>26, <1>27, <1>28, <1>29,
     <1>36, <1>37, <1>38, <1>39, <1>40, <1>41 DEF Next, Worker

(* A request that has not started has reported and announced nothing.      *)
LEMMA EndInvInit == Init => AnnouncedInv /\ CountedInv
  BY CounterAssumption
  DEF Init, AnnouncedInv, CountedInv, AtLimit, EndsCounted, Past, Callbacks

(* Whoever reports an error gives its code, and whoever leaves the worker's *)
(* last function has passed disconnected().                                *)
LEMMA AnnouncedInvNext == TypeOK /\ SocketInv /\ AnnouncedInv /\ [Next]_vars => AnnouncedInv'
<1> SUFFICES ASSUME TypeOK, SocketInv, AnnouncedInv, [Next]_vars PROVE AnnouncedInv'
  OBVIOUS
<1>0. /\ DOMAIN calls = Callbacks /\ \A cb \in Callbacks : calls[cb] \in Nat
      /\ pc \in WorkerSteps /\ ret \in {"done", "redirectGo"}
  BY DEF TypeOK, SocketInv
<1>1. CASE Quiet
  BY <1>1 DEF Quiet, Running, WorkerSteps, AnnouncedInv
<1>2. CASE OnError
  BY <1>2, <1>0 DEF OnError, Invoke, Callbacks, AnnouncedInv, worker, owner
<1>3. CASE CheckDisconnected
  BY <1>3, <1>0 DEF CheckDisconnected, Guarded, AnnouncedInv, worker, owner, history
<1>4. CASE OnDisconnected
  BY <1>4, <1>0 DEF OnDisconnected, Invoke, Callbacks, AnnouncedInv, owner
<1>5. CASE RecvHeader
  BY <1>5 DEF RecvHeader, AnnouncedInv, owner
<1>6. CASE Redirect
  BY <1>6 DEF Redirect, HandleErrorResponse, AnnouncedInv, owner, history
<1>7. CASE RedirectGo
  BY <1>7 DEF RedirectGo, HandleErrorResponse, AnnouncedInv, owner, history
<1> QED BY <1>1, <1>2, <1>3, <1>4, <1>5, <1>6, <1>7, MostStepsAreQuiet

(***************************************************************************)
(* A request that was not cancelled is not over without onDisconnected,    *)
(* and onError has told of an error exactly when there was one, for every  *)
(* caller, peer, clock and number of redirects. With the termination of    *)
(* the worker this is what a caller waits for.                             *)
(***************************************************************************)
THEOREM EndIsAnnounced == Spec => []EndAnnounced
<1>1. AnnouncedInv => EndAnnounced
  BY DEF AnnouncedInv, EndAnnounced
<1> QED BY <1>1, TypeCorrect, SocketInvariant, EndInvInit, AnnouncedInvNext, PTL DEF Spec

(* One more redirect is at most one more past the limit.                   *)
LEMMA PastGrows ==
  ASSUME NEW h \in Nat
  PROVE  /\ Past(h) \in Nat /\ Past(h + 1) \in Nat
         /\ Past(h) <= Past(h + 1)
         /\ h + 1 > RedirectMaxCount => Past(h + 1) = Past(h) + 1
  BY CounterAssumption DEF Past

(* Only the error at the limit is reported without the end of the request, *)
(* and there is one such error to a redirect past it.                      *)
LEMMA CountedInvNext == TypeOK /\ SocketInv /\ CountedInv /\ [Next]_vars => CountedInv'
<1> SUFFICES ASSUME TypeOK, SocketInv, CountedInv, [Next]_vars PROVE CountedInv'
  OBVIOUS
<1>0. /\ DOMAIN calls = Callbacks /\ \A cb \in Callbacks : calls[cb] \in Nat
      /\ calls["onError"] \in Nat /\ calls["onDisconnected"] \in Nat
      /\ pc \in WorkerSteps /\ ret \in {"done", "redirectGo"}
      /\ hops \in Nat /\ redirectCount \in Nat /\ redirectCount \in 0..(CounterModulus - 1)
      /\ RedirectMaxCount \in Nat /\ CounterModulus \in Nat
  BY CounterAssumption DEF TypeOK, SocketInv, Callbacks
<1>00. /\ Past(hops) \in Nat /\ Past(hops + 1) \in Nat /\ Past(hops) <= Past(hops + 1)
       /\ hops # 0 => /\ Past(hops - 1) \in Nat /\ Past(hops - 1) <= Past(hops)
                      /\ hops > RedirectMaxCount => Past(hops) = Past(hops - 1) + 1
  <2>1. hops # 0 => hops - 1 \in Nat /\ (hops - 1) + 1 = hops
    BY <1>0
  <2> QED BY <1>0, <2>1, PastGrows
<1> USE DEF CountedInv, EndsCounted, AtLimit
<1>1. CASE Quiet
  BY <1>1, <1>0, <1>00 DEF Quiet, Running, WorkerSteps
<1>2. CASE OnError
  <2>1. /\ pc = "onError" /\ pc' = "disconnected" /\ UNCHANGED <<ret, hops, redirectCount>>
        /\ calls'["onDisconnected"] = calls["onDisconnected"]
        /\ calls'["onError"] \in {calls["onError"], calls["onError"] + 1}
    BY <1>2, <1>0 DEF OnError, Invoke, Callbacks, worker
  <2> QED BY <1>0, <1>00, <2>1
<1>3. CASE CheckDisconnected
  <2>1. /\ pc = "disconnected" /\ pc' \in {"onDisconnected", ret}
        /\ UNCHANGED <<ret, hops, redirectCount, calls>>
    BY <1>3 DEF CheckDisconnected, worker, history
  <2> QED BY <1>0, <1>00, <2>1
<1>4. CASE OnDisconnected
  <2>1. /\ pc = "onDisconnected" /\ pc' = ret /\ UNCHANGED <<ret, hops, redirectCount>>
        /\ calls'["onError"] = calls["onError"]
        /\ calls'["onDisconnected"] \in {calls["onDisconnected"], calls["onDisconnected"] + 1}
    BY <1>4, <1>0 DEF OnDisconnected, Invoke, Callbacks
  <2> QED BY <1>0, <1>00, <2>1
<1>5. CASE RecvHeader
  <2>1. /\ pc = "recv" /\ UNCHANGED <<ret, redirectCount, calls>>
        /\ \/ pc' = "redirect" /\ hops' = hops + 1
           \/ pc' = "responseHeader" /\ hops' = hops
    BY <1>5 DEF RecvHeader
  <2>2. (hops + 1) - 1 = hops
    BY <1>0
  <2>3. CASE pc' = "redirect" /\ hops' = hops + 1
    <3>1. hops' - 1 = hops
      BY <2>2, <2>3
    <3> QED BY <1>0, <1>00, <2>1, <2>3, <3>1
  <2>4. CASE pc' = "responseHeader" /\ hops' = hops
    BY <1>0, <1>00, <2>1, <2>4
  <2> QED BY <2>1, <2>3, <2>4
<1>6. CASE Redirect
  <2>1. /\ pc = "redirect" /\ UNCHANGED <<hops, redirectCount, calls>>
        /\ \/ pc' = "onError" /\ ret' = "done"
           \/ pc' = "onError" /\ ret' = "redirectGo" /\ redirectCount >= RedirectMaxCount
           \/ pc' = "redirectGo"
    BY <1>6 DEF Redirect, HandleErrorResponse, history
  <2> QED BY <1>0, <1>00, <2>1
<1>7. CASE RedirectGo
  <2>1. /\ pc = "redirectGo" /\ UNCHANGED <<hops, calls>>
        /\ redirectCount' = (redirectCount + 1) % CounterModulus
        /\ pc' = "resolve" \/ (pc' = "onError" /\ ret' = "done")
    BY <1>7 DEF RedirectGo, HandleErrorResponse, history
  <2>2. redirectCount' <= redirectCount + 1
    <3>1. CASE redirectCount + 1 = CounterModulus
      BY <1>0, <2>1, <3>1
    <3>2. CASE redirectCount + 1 # CounterModulus
      BY <1>0, <2>1, <3>2
    <3> QED BY <3>1, <3>2
  <2>3. redirectCount' <= hops
    <3>1. redirectCount < hops /\ redirectCount' \in Int
      BY <1>0, <2>1
    <3> QED BY <1>0, <2>2, <3>1
  <2> QED BY <1>0, <1>00, <2>1, <2>3
<1> QED BY <1>1, <1>2, <1>3, <1>4, <1>5, <1>6, <1>7, MostStepsAreQuiet

(***************************************************************************)
(* What goes wrong at the redirect limit, to its full extent: each         *)
(* redirect response past it costs one call of onError and one of          *)
(* onDisconnected too many, and nothing else ever does. The 8 bit counter, *)
(* which wraps and starts over, makes them fewer and not more.             *)
(***************************************************************************)
THEOREM EndsAreCounted == Spec => []EndsCounted
<1>1. CountedInv => EndsCounted
  BY DEF CountedInv
<1> QED BY <1>1, TypeCorrect, SocketInvariant, EndInvInit, CountedInvNext, PTL DEF Spec

(***************************************************************************)
(* Until a peer redirects past the limit, onDisconnected is called once,   *)
(* as the example and the tests take it: redirect()'s error without a      *)
(* return is the only cause of the violation TLC finds.                    *)
(***************************************************************************)
THEOREM EndsOnceWithinLimit == Spec => [](hops <= RedirectMaxCount => DisconnectedOnce)
<1>1. TypeOK /\ EndsCounted => (hops <= RedirectMaxCount => DisconnectedOnce)
  <2> SUFFICES ASSUME TypeOK, EndsCounted, hops <= RedirectMaxCount PROVE DisconnectedOnce
    OBVIOUS
  <2>1. Past(hops) = 0
    BY CounterAssumption DEF TypeOK, Past
  <2> QED BY <2>1 DEF EndsCounted, DisconnectedOnce
<1> QED BY <1>1, TypeCorrect, EndsAreCounted, PTL
=============================================================================
