---------------------------- MODULE ChunkDecoder ----------------------------
(***************************************************************************)
(* Request::parseChunk and the part of Request::receive that feeds it: a   *)
(* chunked body arrives in reads cut wherever the network cuts them, and   *)
(* each read is decoded as far as it goes. Only the size of the current    *)
(* chunk survives from one read to the next. dataView is kept the way a    *)
(* string_view is: as places in what it looks at.                          *)
(***************************************************************************)
EXTENDS Integers, SequencesExt

CONSTANTS
  Payload,  \* the bytes a body is made of
  MaxBody,  \* bound: bytes of a body
  Hex       \* the hexadecimal digits of a size, one token for each size

ASSUME ChunkAssumption ==
  /\ MaxBody \in Nat
  /\ DOMAIN Hex = 0..MaxBody
  /\ \A m, n \in 0..MaxBody : Hex[m] = Hex[n] => m = n
  /\ \A n \in 0..MaxBody : Hex[n] \notin {"CR", "LF"}

VARIABLES
  body,       \* what the peer sends: the data of all chunks
  last,       \* number of chunks before the last, empty one
  ends,       \* ends[i]: bytes of the body in the first i chunks
  wire,       \* the encoded body
  clean,      \* whether no read ends inside a line of the framing
  cuts,       \* how much of wire may have arrived when a read ends
  pc,         \* receive, parse, completed, failed or terminated
  read,       \* bytes of wire that have arrived: the end of dataView
  used,       \* bytes of wire in front of dataView
  chunkSize,  \* chunkSize, kInvalid (-1) at first
  delivered   \* history: the bytes given to responseData

sent == <<body, last, ends, wire, clean, cuts>>
vars == <<sent, pc, read, used, chunkSize, delivered>>

-----------------------------------------------------------------------------
(* The peer's side: RFC 7230 section 4.1, as parseChunk expects it. Chunks *)
(* are counted from 0; the chunk numbered last has no data. A chunk is its *)
(* size, a line end, its data and another line end.                        *)

(* Where a body of a length may be divided into n chunks, none empty.      *)
Divisions(length, n) ==
  {e \in [0..n -> 0..length] :
     e[0] = 0 /\ e[n] = length /\ \A i, j \in 0..n : i < j => e[i] < e[j]}

Size(i) == IF i = last THEN 0 ELSE ends[i + 1] - ends[i]

(* Bytes on the wire before a chunk, and in all *)
Start(i) == ends[i] + 5 * i
Total == Start(last) + 5

(* The byte at a place on the wire *)
Encoded(place) ==
  LET i == CHOOSE c \in 0..last : Start(c) < place /\ place <= Start(c) + Size(c) + 5
      k == place - Start(i)
  IN CASE k = 1                     -> Hex[Size(i)]
       [] k \in {2, Size(i) + 4}    -> "CR"
       [] k \in {3, Size(i) + 5}    -> "LF"
       [] k \in 4..(Size(i) + 3)    -> body[ends[i] + k - 3]

(* Where a read may end so that no line of the framing is cut: before a    *)
(* chunk, before some of its data, and at the end.                         *)
CleanCuts ==
  {Start(i) : i \in 1..last}
  \cup (UNION {(Start(i) + 3)..(Start(i) + 2 + Size(i)) : i \in 0..last})
  \cup {Total}

Init ==
  /\ body \in BoundedSeq(Payload, MaxBody)
  /\ last \in 0..Len(body)
  /\ ends \in Divisions(Len(body), last)
  /\ wire = [place \in 1..Total |-> Encoded(place)]
  /\ clean \in BOOLEAN
  /\ cuts = IF clean THEN CleanCuts ELSE 1..Total
  /\ pc = "receive"
  /\ read = 0
  /\ used = 0
  /\ chunkSize = -1
  /\ delivered = <<>>

-----------------------------------------------------------------------------
LineEndAt(place) == wire[place] = "CR" /\ wire[place + 1] = "LF"

(* dataView.find(kCRLF), as a place on the wire; 0 stands for npos. *)
FindCRLF ==
  LET places == {i \in (used + 1)..(read - 1) : LineEndAt(i)}
  IN IF places = {} THEN 0 ELSE Min(places)

(* std::stol(dataView up to a place, nullptr, 16) skips leading white      *)
(* space and reads the digits behind it; -1 stands for the exception when  *)
(* there is none. The digits of a size are one token, and all of it.       *)
Stol(upto) ==
  LET text == {i \in (used + 1)..upto : wire[i] \notin {"CR", "LF"}}
      values == {n \in DOMAIN Hex : text # {} /\ Hex[n] = wire[Min(text)]}
  IN IF values = {} THEN -1 ELSE CHOOSE n \in values : TRUE

(* The end of a turn of the loop in parseChunk drops a line end in front.  *)
SkipCRLF(place) == IF place + 2 <= read /\ LineEndAt(place + 1) THEN place + 2 ELSE place

-----------------------------------------------------------------------------
(* One read of the socket, appended to the empty recvDataPtr. *)
Receive ==
  /\ pc = "receive"
  /\ \E n \in cuts : n > read /\ read' = n
  /\ pc' = "parse"
  /\ UNCHANGED <<sent, used, chunkSize, delivered>>

(* A turn that finds no whole line where a size should be. *)
ChunkSizeError ==
  /\ pc = "parse"
  /\ used < read
  /\ chunkSize <= 0
  /\ FindCRLF = 0
  /\ pc' = "failed"
  /\ UNCHANGED <<sent, read, used, chunkSize, delivered>>

(* Mutant of ReadChunkSize: the line end is taken for one byte. *)
ReadChunkSizeOffByOne ==
  /\ pc = "parse"
  /\ chunkSize <= 0
  /\ FindCRLF > 0
  /\ LET size == Stol(FindCRLF - 1)
     IN /\ pc' = CASE size < 0 -> "terminated"
                   [] size = 0 -> "completed"
                   [] OTHER    -> "parse"
        /\ chunkSize' = IF size < 0 THEN chunkSize ELSE size
        /\ used' = IF size > 0 THEN SkipCRLF(FindCRLF) ELSE used
  /\ UNCHANGED <<sent, read, delivered>>

(* A turn that reads the line of a size: stol throws out of the noexcept   *)
(* function, or finds the last chunk, or the size of the next.             *)
ReadChunkSize ==
  /\ pc = "parse"
  /\ chunkSize <= 0
  /\ FindCRLF > 0
  /\ LET size == Stol(FindCRLF - 1)
     IN /\ pc' = CASE size < 0 -> "terminated"
                   [] size = 0 -> "completed"
                   [] OTHER    -> "parse"
        /\ chunkSize' = IF size < 0 THEN chunkSize ELSE size
        /\ used' = IF size > 0 THEN SkipCRLF(FindCRLF + 1) ELSE used
  /\ UNCHANGED <<sent, read, delivered>>

(* Mutant of ReadChunkData: a chunk is handed over only as far as the      *)
(* first read has it, and its rest is taken for the next size.             *)
ReadChunkDataForgets ==
  /\ pc = "parse"
  /\ used < read
  /\ chunkSize > 0
  /\ LET n == IF chunkSize < read - used THEN chunkSize ELSE read - used
     IN /\ delivered' = delivered \o SubSeq(wire, used + 1, used + n)
        /\ used' = SkipCRLF(used + n)
        /\ chunkSize' = 0
  /\ UNCHANGED <<sent, pc, read>>

(* Mutant of ReadChunkData: the size of the chunk does not bound it. *)
ReadChunkDataUnbounded ==
  /\ pc = "parse"
  /\ used < read
  /\ chunkSize > 0
  /\ delivered' = delivered \o SubSeq(wire, used + 1, read)
  /\ used' = read
  /\ chunkSize' = chunkSize - (read - used)
  /\ UNCHANGED <<sent, pc, read>>

(* A turn that hands over data, no more than the chunk and the read have.  *)
ReadChunkData ==
  /\ pc = "parse"
  /\ used < read
  /\ chunkSize > 0
  /\ LET n == IF chunkSize < read - used THEN chunkSize ELSE read - used
     IN /\ delivered' = delivered \o SubSeq(wire, used + 1, used + n)
        /\ used' = SkipCRLF(used + n)
        /\ chunkSize' = chunkSize - n
  /\ UNCHANGED <<sent, pc, read>>

(* The read is used up and receive() waits for the next one. *)
ReadDone ==
  /\ pc = "parse"
  /\ used = read
  /\ pc' = "receive"
  /\ UNCHANGED <<sent, read, used, chunkSize, delivered>>

Next == Receive \/ ChunkSizeError \/ ReadChunkSize \/ ReadChunkData \/ ReadDone

Spec == Init /\ [][Next]_vars

(* The peer sends all of the body and the worker thread runs. *)
FairSpec == Spec /\ WF_vars(Next)

-----------------------------------------------------------------------------
(* Properties *)

Bytes == Payload \cup {Hex[n] : n \in 0..MaxBody} \cup {"CR", "LF"}

TypeOK ==
  /\ body \in Seq(Payload) /\ Len(body) <= MaxBody
  /\ last \in Nat
  /\ ends \in [0..last -> Nat]
  /\ wire \in Seq(Bytes)
  /\ clean \in BOOLEAN
  /\ cuts \subseteq 1..Len(wire)
  /\ pc \in {"receive", "parse", "completed", "failed", "terminated"}
  /\ read \in 0..Len(wire)
  /\ used \in 0..read
  /\ chunkSize \in -1..MaxBody
  /\ delivered \in Seq(Bytes)

(***************************************************************************)
(* The one kind of body parseChunk cannot decode: the line end in front of *)
(* the data of a chunk is taken for framing, since the code drops one      *)
(* after the line of a size, too.                                          *)
(***************************************************************************)
Decodable ==
  \A i \in 0..(last - 1) :
    Size(i) >= 2 => ~(body[ends[i] + 1] = "CR" /\ body[ends[i] + 2] = "LF")

(***************************************************************************)
(* The data given to onData is the body so far: no byte of the framing, no *)
(* byte lost, doubled or out of order.                                     *)
(***************************************************************************)
DeliveredIsPrefix == Decodable => IsPrefix(delivered, body)

(***************************************************************************)
(* The response is complete only with the whole body handed over.          *)
(***************************************************************************)
CompletedIsWhole == Decodable /\ pc = "completed" => delivered = body

(***************************************************************************)
(* A well-formed body is decoded to its end, without an error or an        *)
(* exception, as long as no read ends inside a line of the framing, which  *)
(* is all that parseChunk carries no state over.                           *)
(***************************************************************************)
Completes == clean /\ Decodable => <>(pc = "completed")

(***************************************************************************)
(* parseChunk is declared noexcept: no exception leaves it, and the        *)
(* program is not terminated, on a well-formed body.                       *)
(***************************************************************************)
NoExceptionEscapes == pc # "terminated"
=============================================================================
