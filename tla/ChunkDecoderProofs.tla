------------------------- MODULE ChunkDecoderProofs -------------------------
(***************************************************************************)
(* Proofs about ChunkDecoder, for bodies of any length, divided into       *)
(* chunks in any way and cut into reads in any way: what is delivered is   *)
(* the body so far, and a response that is complete has all of it. The     *)
(* argument is where a turn of parseChunk may begin: in front of a chunk,  *)
(* in front of some of its data, or in front of the line end behind it.    *)
(* The last section shows which bodies are decoded without an error, and   *)
(* that no body is decoded for ever.                                       *)
(***************************************************************************)
EXTENDS ChunkDecoder, FiniteSetTheorems, SequenceTheorems, TLAPS

(* The division of the body into chunks *)
Divided ==
  /\ body \in Seq(Payload) /\ Len(body) <= MaxBody
  /\ last \in Nat
  /\ ends \in [0..last -> 0..Len(body)]
  /\ ends[0] = 0 /\ ends[last] = Len(body)
  /\ \A i, j \in 0..last : i < j => ends[i] < ends[j]

(* The bytes of a chunk on the wire *)
Framed(i) ==
  /\ wire[Start(i) + 1] = Hex[Size(i)]
  /\ wire[Start(i) + 2] = "CR"
  /\ wire[Start(i) + 3] = "LF"
  /\ \A k \in 1..Size(i) : wire[Start(i) + 3 + k] = body[ends[i] + k]
  /\ wire[Start(i) + 4 + Size(i)] = "CR"
  /\ wire[Start(i) + 5 + Size(i)] = "LF"

Layout ==
  /\ Divided
  /\ wire \in Seq(Bytes) /\ Len(wire) = Total
  /\ \A i \in 0..last : Framed(i)
  /\ cuts \subseteq 1..Total

(* A set of natural numbers has a least one.                               *)
LEMMA LeastNatural ==
  ASSUME NEW T, T \subseteq Nat, T # {}
  PROVE  \E m \in T : \A k \in T : m <= k
<1> DEFINE Below == {0..k : k \in T}
           Less == StrictSubsetOrdering(Nat)
           All == FiniteSubsetsOf(Nat)
<1>1. IsWellFoundedOn(Less, All)
  BY FS_StrictSubsetOrderingWellFounded
<1>2. Below \subseteq All /\ Below # {}
  <2>1. \A k \in T : IsFiniteSet(0..k) /\ 0..k \subseteq Nat
    BY FS_Interval
  <2> QED BY <2>1 DEF FiniteSubsetsOf
<1>3. \E x \in Below : \A y \in Below : <<y, x>> \notin Less
  <2> HIDE DEF Below, Less, All
  <2> QED BY <1>1, <1>2, WFMin
<1>4. PICK m \in T : \A k \in T : <<0..k, 0..m>> \notin Less
  BY <1>3
<1>5. ASSUME NEW k \in T PROVE m <= k
  <2>1. SUFFICES ASSUME k < m PROVE FALSE
    BY <1>4
  <2>2. 0..k \subseteq 0..m /\ 0..k # 0..m /\ 0..k \subseteq Nat /\ 0..m \subseteq Nat
    BY <2>1
  <2>3. <<0..k, 0..m>> \in Less
    BY <2>2 DEF StrictSubsetOrdering
  <2> QED BY <1>4, <2>3
<1> QED BY <1>5

(* A chunk's size is the number of bytes between its end and the end of    *)
(* the one before it; the last chunk has none, the others have some.       *)
LEMMA ChunkSizes ==
  ASSUME Divided, NEW i \in 0..last
  PROVE  /\ Len(body) \in Nat
         /\ ends[i] \in Nat /\ ends[i] + Size(i) <= Len(body)
         /\ Size(i) \in 0..MaxBody
         /\ Start(i) \in Nat
         /\ i = last => Size(i) = 0 /\ ends[i] = Len(body)
         /\ i # last => /\ i + 1 \in 0..last
                        /\ Size(i) > 0
                        /\ ends[i + 1] = ends[i] + Size(i)
                        /\ Start(i + 1) = Start(i) + 5 + Size(i)
<1>1. Len(body) \in Nat /\ last \in Nat /\ MaxBody \in Nat
  BY ChunkAssumption DEF Divided
<1>2. ends[i] \in 0..Len(body)
  BY DEF Divided
<1>3. CASE i = last
  BY <1>1, <1>2, <1>3 DEF Divided, Size, Start
<1>4. CASE i # last
  <2>1. i + 1 \in 0..last /\ i < i + 1
    BY <1>1, <1>4
  <2>2. ends[i + 1] \in 0..Len(body) /\ ends[i] < ends[i + 1]
    BY <2>1 DEF Divided
  <2>3. Size(i) = ends[i + 1] - ends[i]
    BY <1>4 DEF Size
  <2>4. Start(i) = ends[i] + 5 * i /\ Start(i + 1) = ends[i + 1] + 5 * (i + 1)
    BY DEF Start
  <2>5. Len(body) <= MaxBody /\ i \in Nat
    BY DEF Divided
  <2>6. i + 1 \in 0..last /\ Size(i) > 0 /\ ends[i + 1] = ends[i] + Size(i)
    BY <1>2, <2>1, <2>2, <2>3
  <2>7. Size(i) \in 0..MaxBody /\ ends[i] + Size(i) <= Len(body)
    BY <1>1, <1>2, <2>2, <2>3, <2>5
  <2>8. Start(i) \in Nat /\ Start(i + 1) = Start(i) + 5 + Size(i)
    BY <1>2, <2>4, <2>5, <2>6, <2>7
  <2> QED BY <1>1, <1>2, <1>4, <2>6, <2>7, <2>8
<1> QED BY <1>3, <1>4

(* Chunks follow one another on the wire. *)
LEMMA ChunksFollow ==
  ASSUME Divided, NEW i \in 0..last, NEW j \in 0..last, i < j
  PROVE  Start(i) + 5 + Size(i) <= Start(j)
<1>1. last \in Nat /\ i # last
  BY DEF Divided
<1>2. i + 1 \in 0..last /\ Start(i + 1) = Start(i) + 5 + Size(i)
  BY <1>1, ChunkSizes
<1>3. ends[i + 1] \in Nat /\ ends[j] \in Nat
  BY <1>2, ChunkSizes
<1>4. ends[i + 1] <= ends[j]
  <2>1. CASE i + 1 = j
    BY <2>1, <1>3
  <2>2. CASE i + 1 # j
    BY <2>2, <1>2, <1>3 DEF Divided
  <2> QED BY <2>1, <2>2
<1>5. Start(i + 1) <= Start(j)
  BY <1>3, <1>4 DEF Start
<1> QED BY <1>2, <1>5

(* A place on the wire belongs to one chunk, whose bytes Encoded gives.    *)
LEMMA EncodedInChunk ==
  ASSUME Divided, NEW i \in 0..last, NEW k \in 1..(Size(i) + 5)
  PROVE  Encoded(Start(i) + k) =
           CASE k = 1                     -> Hex[Size(i)]
             [] k \in {2, Size(i) + 4}    -> "CR"
             [] k \in {3, Size(i) + 5}    -> "LF"
             [] k \in 4..(Size(i) + 3)    -> body[ends[i] + k - 3]
<1> DEFINE place == Start(i) + k
           Within(c) == Start(c) < place /\ place <= Start(c) + Size(c) + 5
           found == CHOOSE c \in 0..last : Within(c)
<1>1. Start(i) \in Nat /\ Size(i) \in Nat /\ ends[i] \in Nat
  BY ChunkSizes
<1>2. Within(i)
  BY <1>1
<1>3. found \in 0..last /\ Within(found)
  BY <1>2
<1>4. Start(found) \in Nat /\ Size(found) \in Nat
  BY <1>3, ChunkSizes
<1>5. ~(found < i)
  BY <1>1, <1>2, <1>3, <1>4, ChunksFollow
<1>6. ~(i < found)
  BY <1>1, <1>2, <1>3, <1>4, ChunksFollow
<1>7. found = i
  BY <1>3, <1>5, <1>6 DEF Divided
<1>8. place - Start(i) = k
  BY <1>1
<1> QED BY <1>7, <1>8 DEF Encoded

(* Every place on the wire is a chunk's.                                   *)
LEMMA ChunkOfPlace ==
  ASSUME Divided, NEW place \in 1..Total
  PROVE  \E i \in 0..last : \E k \in 1..(Size(i) + 5) : place = Start(i) + k
<1> DEFINE Ends == {c \in 0..last : place <= Start(c) + Size(c) + 5}
<1>1. last \in Nat /\ last \in 0..last
  BY DEF Divided
<1>2. last \in Ends
  BY <1>1, ChunkSizes DEF Total
<1>3. PICK i \in Ends : \A c \in Ends : i <= c
  <2>1. Ends \subseteq Nat
    OBVIOUS
  <2> HIDE DEF Ends
  <2> QED BY <1>2, <2>1, LeastNatural
<1>4. i \in Nat /\ Start(i) \in Nat /\ Size(i) \in Nat
  BY ChunkSizes
<1>5. Start(i) < place
  <2>1. CASE i = 0
    BY <2>1 DEF Divided, Start
  <2>2. CASE i # 0
    <3>1. i - 1 \in 0..last /\ i - 1 \notin Ends /\ i - 1 # last
      BY <1>1, <1>3, <1>4, <2>2
    <3>2. ~(place <= Start(i - 1) + Size(i - 1) + 5)
      BY <3>1
    <3>3. (i - 1) + 1 = i
      BY <1>4
    <3>4. Start(i) = Start(i - 1) + 5 + Size(i - 1) /\ Start(i - 1) \in Nat /\ Size(i - 1) \in Nat
      BY <3>1, <3>3, ChunkSizes
    <3> QED BY <3>2, <3>4
  <2> QED BY <2>1, <2>2
<1>6. place - Start(i) \in 1..(Size(i) + 5) /\ place = Start(i) + (place - Start(i))
  BY <1>4, <1>5
<1> QED BY <1>6

(* The end of a chunk is on the wire. *)
LEMMA ChunkOnWire ==
  ASSUME Divided, NEW i \in 0..last
  PROVE  Total \in Nat /\ Start(i) + 5 + Size(i) <= Total /\ (i = last => Start(i) + 5 = Total)
<1>1. last \in Nat /\ last \in 0..last
  BY DEF Divided
<1>2. Start(last) \in Nat /\ Start(i) \in Nat /\ Size(i) \in Nat /\ (i = last => Size(i) = 0)
  BY <1>1, ChunkSizes
<1>3. CASE i = last
  BY <1>2, <1>3 DEF Total
<1>4. CASE i # last
  <2>1. i < last
    BY <1>1, <1>4
  <2> QED BY <1>1, <1>2, <2>1, ChunksFollow DEF Total
<1> QED BY <1>3, <1>4

(* What the peer sends has the layout the invariant speaks of.             *)
LEMMA LayoutInit == Init => Layout
<1> SUFFICES ASSUME Init PROVE Layout
  OBVIOUS
<1>1. Divided
  <2>1. PICK n \in 0..MaxBody : body \in [1..n -> Payload]
    BY DEF Init, BoundedSeq, SeqOf
  <2>2. n \in Nat /\ n <= MaxBody
    BY ChunkAssumption
  <2>3. body \in Seq(Payload) /\ Len(body) = n
    BY <2>1, <2>2
  <2> QED BY <2>2, <2>3 DEF Init, Divisions, Divided
<1>2. Total \in Nat
  BY <1>1, ChunkOnWire DEF Divided
<1>3. ASSUME NEW i \in 0..last
      PROVE  Framed(i) /\ \A k \in 1..(Size(i) + 5) : wire[Start(i) + k] \in Bytes
  <2>1. /\ Size(i) \in 0..MaxBody /\ Start(i) \in Nat /\ ends[i] \in Nat
        /\ ends[i] + Size(i) <= Len(body) /\ Start(i) + 5 + Size(i) <= Total
    BY <1>1, ChunkSizes, ChunkOnWire
  <2>2. MaxBody \in Nat
    BY ChunkAssumption
  <2>3. ASSUME NEW k \in 1..(Size(i) + 5)
        PROVE  wire[Start(i) + k] = Encoded(Start(i) + k)
    <3>1. Start(i) + k \in 1..Total
      BY <1>2, <2>1, <2>2
    <3> QED BY <3>1 DEF Init
  <2> DEFINE At(k) == wire[Start(i) + k]
  <2>4. ASSUME NEW k \in 1..(Size(i) + 5)
        PROVE  /\ k = 1 => At(k) = Hex[Size(i)]
               /\ k = 2 \/ k = 4 + Size(i) => At(k) = "CR"
               /\ k = 3 \/ k = 5 + Size(i) => At(k) = "LF"
               /\ k - 3 \in 1..Size(i) => At(k) = body[ends[i] + (k - 3)]
    <3>1. Encoded(Start(i) + k) =
            CASE k = 1                     -> Hex[Size(i)]
              [] k \in {2, Size(i) + 4}    -> "CR"
              [] k \in {3, Size(i) + 5}    -> "LF"
              [] k \in 4..(Size(i) + 3)    -> body[ends[i] + k - 3]
      BY <1>1, EncodedInChunk
    <3>2. At(k) = Encoded(Start(i) + k)
      BY <2>3
    <3>3. Size(i) \in Nat /\ ends[i] \in Nat
      BY <2>1, <2>2
    <3>4. k = 1 => At(k) = Hex[Size(i)]
      BY <3>1, <3>2, <3>3
    <3>5. k = 2 \/ k = 4 + Size(i) => At(k) = "CR"
      BY <3>1, <3>2, <3>3
    <3>6. k = 3 \/ k = 5 + Size(i) => At(k) = "LF"
      BY <3>1, <3>2, <3>3
    <3>7. k - 3 \in 1..Size(i) => At(k) = body[ends[i] + (k - 3)]
      BY <3>1, <3>2, <3>3
    <3> QED BY <3>4, <3>5, <3>6, <3>7
  <2> HIDE DEF At
  <2>5. At(1) = Hex[Size(i)] /\ At(2) = "CR" /\ At(3) = "LF"
    BY <2>1, <2>2, <2>4
  <2>6. At(4 + Size(i)) = "CR" /\ At(5 + Size(i)) = "LF"
    <3>1. 4 + Size(i) \in 1..(Size(i) + 5) /\ 5 + Size(i) \in 1..(Size(i) + 5)
      BY <2>1, <2>2
    <3> QED BY <2>4, <3>1
  <2>7. ASSUME NEW k \in 1..Size(i)
        PROVE  At(3 + k) = body[ends[i] + k] /\ body[ends[i] + k] \in Payload
    <3>1. 3 + k \in 1..(Size(i) + 5) /\ (3 + k) - 3 = k
      BY <2>1, <2>2
    <3>2. At(3 + k) = body[ends[i] + k]
      BY <2>4, <3>1
    <3>3. ends[i] + k \in 1..Len(body)
      BY <1>1, <2>1, <2>2 DEF Divided
    <3> QED BY <1>1, <3>2, <3>3 DEF Divided
  <2>8. Framed(i)
    <3>1. Start(i) + (4 + Size(i)) = Start(i) + 4 + Size(i) /\ Start(i) + (5 + Size(i)) = Start(i) + 5 + Size(i)
      BY <2>1, <2>2
    <3>2. \A k \in 1..Size(i) : Start(i) + (3 + k) = Start(i) + 3 + k
      BY <2>1, <2>2
    <3> QED BY <2>5, <2>6, <2>7, <3>1, <3>2 DEF Framed, At
  <2>9. ASSUME NEW k \in 1..(Size(i) + 5) PROVE At(k) \in Bytes
    <3>1. k \in {1, 2, 3, 4 + Size(i), 5 + Size(i)} \/ (k - 3 \in 1..Size(i) /\ 3 + (k - 3) = k)
      BY <2>1, <2>2
    <3>2. At(1) \in Bytes
      BY <2>1, <2>5 DEF Bytes
    <3>3. At(2) \in Bytes /\ At(3) \in Bytes /\ At(4 + Size(i)) \in Bytes /\ At(5 + Size(i)) \in Bytes
      BY <2>5, <2>6 DEF Bytes
    <3>4. \A n \in 1..Size(i) : At(3 + n) \in Bytes
      BY <2>7 DEF Bytes
    <3> QED BY <3>1, <3>2, <3>3, <3>4
  <2> QED BY <2>8, <2>9 DEF At
<1>4. wire \in Seq(Bytes) /\ Len(wire) = Total
  <2>1. \A place \in 1..Total : wire[place] \in Bytes
    BY <1>1, <1>3, ChunkOfPlace
  <2>2. wire \in [1..Total -> Bytes]
    BY <2>1 DEF Init
  <2> QED BY <1>2, <2>2
<1>5. cuts \subseteq 1..Total
  <2>1. ASSUME NEW i \in 0..last
        PROVE  /\ (Start(i) + 3)..(Start(i) + 2 + Size(i)) \subseteq 1..Total
               /\ i # 0 => Start(i) \in 1..Total
    <3>1. Start(i) \in Nat /\ Size(i) \in Nat /\ Start(i) + 5 + Size(i) <= Total /\ ends[i] \in Nat
      BY <1>1, ChunkSizes, ChunkOnWire
    <3>2. i # 0 => Start(i) > 0
      BY <3>1 DEF Start
    <3> QED BY <1>2, <3>1, <3>2
  <2>2. Total \in 1..Total
    <3>1. last \in 0..last
      BY <1>1 DEF Divided
    <3>2. Start(last) \in Nat
      BY <1>1, <3>1, ChunkSizes
    <3> QED BY <3>2 DEF Total
  <2>3. 1..last \subseteq 0..last /\ 0 \notin 1..last
    OBVIOUS
  <2>4. CleanCuts \subseteq 1..Total
    BY <2>1, <2>2, <2>3 DEF CleanCuts
  <2> QED BY <2>4 DEF Init
<1> QED BY <1>1, <1>3, <1>4, <1>5 DEF Layout

-----------------------------------------------------------------------------
(* Looking for a line end finds the first one of the read, or none.        *)
LEMMA FindsFirstLineEnd ==
  ASSUME used \in Nat, read \in Nat
  PROVE  \/ /\ FindCRLF = 0
            /\ \A place \in (used + 1)..(read - 1) : ~LineEndAt(place)
         \/ /\ FindCRLF \in (used + 1)..(read - 1)
            /\ LineEndAt(FindCRLF)
            /\ \A place \in (used + 1)..(read - 1) : LineEndAt(place) => FindCRLF <= place
<1> DEFINE places == {i \in (used + 1)..(read - 1) : LineEndAt(i)}
<1>1. CASE places = {}
  BY <1>1 DEF FindCRLF
<1>2. CASE places # {}
  <2>1. places \subseteq Nat
    OBVIOUS
  <2>2. \E m \in places : \A k \in places : m <= k
    <3> HIDE DEF places
    <3> QED BY <1>2, <2>1, LeastNatural
  <2>3. Min(places) \in places /\ \A k \in places : Min(places) <= k
    BY <2>2 DEF Min
  <2>4. FindCRLF = Min(places)
    BY <1>2 DEF FindCRLF
  <2> QED BY <2>3, <2>4
<1> QED BY <1>1, <1>2

(* The number read from a line is a size, or there is none; in an empty    *)
(* line there is none, and in a line that begins with a size it is that.   *)
LEMMA StolReadsSize ==
  ASSUME used \in Nat, NEW upto \in Nat
  PROVE  /\ Stol(upto) \in -1..MaxBody
         /\ upto <= used => Stol(upto) = -1
         /\ \A n \in 0..MaxBody : used < upto /\ wire[used + 1] = Hex[n] => Stol(upto) = n
<1> DEFINE text == {i \in (used + 1)..upto : wire[i] \notin {"CR", "LF"}}
           values == {n \in DOMAIN Hex : text # {} /\ Hex[n] = wire[Min(text)]}
<1>1. Stol(upto) = IF values = {} THEN -1 ELSE CHOOSE n \in values : TRUE
  BY DEF Stol
<1>2. values \subseteq 0..MaxBody
  BY ChunkAssumption
<1>3. Stol(upto) \in -1..MaxBody
  <2>1. MaxBody \in Nat
    BY ChunkAssumption
  <2>2. CASE values = {}
    BY <1>1, <2>1, <2>2
  <2>3. CASE values # {}
    <3>1. Stol(upto) \in values
      BY <1>1, <2>3
    <3> QED BY <1>2, <2>1, <3>1
  <2> QED BY <2>2, <2>3
<1>4. ASSUME upto <= used PROVE Stol(upto) = -1
  <2>1. text = {}
    BY <1>4
  <2> QED BY <1>1, <2>1
<1>5. ASSUME NEW n \in 0..MaxBody, used < upto, wire[used + 1] = Hex[n]
      PROVE  Stol(upto) = n
  <2>1. used + 1 \in text /\ \A k \in text : used + 1 <= k
    BY <1>5, ChunkAssumption
  <2>2. \A m, k \in text : m <= k /\ k <= m => m = k
    OBVIOUS
  <2>3. Min(text) = used + 1
    <3> HIDE DEF text
    <3> QED BY <2>1, <2>2 DEF Min
  <2>4. values = {n}
    BY <1>5, <2>1, <2>3, ChunkAssumption
  <2> QED BY <1>1, <2>4
<1> QED BY <1>3, <1>4, <1>5

(* Dropping a line end in front stays inside what has been read.           *)
LEMMA SkipsWithinRead ==
  ASSUME NEW place \in Nat, read \in Nat, place <= read
  PROVE  SkipCRLF(place) \in place..read
  BY DEF SkipCRLF

-----------------------------------------------------------------------------
(* Every variable has its type at first. *)
LEMMA TypeInit == Init => TypeOK
<1> SUFFICES ASSUME Init PROVE TypeOK
  OBVIOUS
<1>1. Layout /\ Len(body) \in Nat /\ MaxBody \in Nat
  BY LayoutInit, ChunkAssumption DEF Layout, Divided
<1>2. ends \in [0..last -> Nat]
  BY <1>1 DEF Layout, Divided
<1>3. Len(wire) \in Nat /\ cuts \subseteq 1..Len(wire)
  BY <1>1 DEF Layout
<1>4. delivered \in Seq(Bytes) /\ clean \in BOOLEAN
  BY DEF Init
<1>5. body \in Seq(Payload) /\ Len(body) <= MaxBody /\ last \in Nat /\ wire \in Seq(Bytes)
  BY <1>1 DEF Layout, Divided
<1>6. pc = "receive" /\ read = 0 /\ used = 0 /\ chunkSize = -1
  BY DEF Init
<1>7. read \in 0..Len(wire) /\ used \in 0..read /\ chunkSize \in -1..MaxBody
  BY <1>1, <1>3, <1>6
<1> QED BY <1>2, <1>3, <1>4, <1>5, <1>6, <1>7 DEF TypeOK

(* A turn that hands over data takes some, within the chunk and the read.  *)
LEMMA TakesSome ==
  ASSUME TypeOK, used < read, chunkSize > 0,
         NEW n, n = (IF chunkSize < read - used THEN chunkSize ELSE read - used)
  PROVE  /\ n \in Nat /\ n > 0 /\ n <= chunkSize /\ used + n <= read
         /\ n = chunkSize \/ used + n = read
         /\ Len(SubSeq(wire, used + 1, used + n)) = n
         /\ SubSeq(wire, used + 1, used + n) \in Seq(Bytes)
         /\ \A k \in 1..n : SubSeq(wire, used + 1, used + n)[k] = wire[used + k]
<1>1. used \in Nat /\ read \in Nat /\ Len(wire) \in Nat /\ read <= Len(wire) /\ chunkSize \in Int
  BY DEF TypeOK
<1>2. n \in Nat /\ n > 0 /\ n <= chunkSize /\ used + n <= read /\ (n = chunkSize \/ used + n = read)
  BY <1>1
<1>3. \A i \in (used + 1)..(used + n) : wire[i] \in Bytes
  BY <1>1, <1>2 DEF TypeOK
<1>4. /\ SubSeq(wire, used + 1, used + n) \in Seq(Bytes)
      /\ Len(SubSeq(wire, used + 1, used + n)) = n
      /\ \A k \in 1..n : SubSeq(wire, used + 1, used + n)[k] = wire[used + k]
  BY <1>1, <1>2, <1>3
<1> QED BY <1>2, <1>4

(* Every step keeps the types. *)
LEMMA TypeNext == TypeOK /\ [Next]_vars => TypeOK'
<1> SUFFICES ASSUME TypeOK, [Next]_vars PROVE TypeOK'
  OBVIOUS
<1>1. /\ used \in Nat /\ read \in Nat /\ used <= read /\ read <= Len(wire) /\ Len(wire) \in Nat
      /\ chunkSize \in -1..MaxBody /\ MaxBody \in Nat
  BY ChunkAssumption DEF TypeOK
<1>2. CASE Receive
  BY <1>1, <1>2 DEF Receive, TypeOK, sent
<1>3. CASE ChunkSizeError
  BY <1>3 DEF ChunkSizeError, TypeOK, sent
<1>4. CASE ReadChunkSize
  <2> USE <1>4 DEF ReadChunkSize
  <2>1. FindCRLF \in (used + 1)..(read - 1)
    BY <1>1, FindsFirstLineEnd
  <2>2. FindCRLF - 1 \in Nat /\ FindCRLF + 1 \in Nat /\ FindCRLF + 1 <= read
    BY <1>1, <2>1
  <2>3. Stol(FindCRLF - 1) \in -1..MaxBody
    BY <1>1, <2>2, StolReadsSize
  <2>4. SkipCRLF(FindCRLF + 1) \in 0..read
    BY <1>1, <2>1, <2>2, SkipsWithinRead
  <2>5. chunkSize' \in -1..MaxBody /\ used' \in 0..read /\ pc' \in {"parse", "completed", "terminated"}
    BY <1>1, <2>3, <2>4
  <2> QED BY <2>5 DEF TypeOK, sent
<1>5. CASE ReadChunkData
  <2> USE <1>5 DEF ReadChunkData
  <2> DEFINE n == IF chunkSize < read - used THEN chunkSize ELSE read - used
  <2>1. /\ n \in Nat /\ n > 0 /\ n <= chunkSize /\ used + n <= read
        /\ SubSeq(wire, used + 1, used + n) \in Seq(Bytes)
    BY TakesSome
  <2>2. SkipCRLF(used + n) \in 0..read
    BY <1>1, <2>1, SkipsWithinRead
  <2>3. used' \in 0..read /\ chunkSize' \in -1..MaxBody /\ delivered' \in Seq(Bytes)
    BY <1>1, <2>1, <2>2 DEF TypeOK
  <2> QED BY <2>3 DEF TypeOK, sent
<1>6. CASE ReadDone
  BY <1>6 DEF ReadDone, TypeOK, sent
<1>7. CASE UNCHANGED vars
  BY <1>7 DEF vars, TypeOK, sent
<1> QED BY <1>2, <1>3, <1>4, <1>5, <1>6, <1>7 DEF Next

(***************************************************************************)
(* The variables of parseChunk keep their types: dataView stays inside     *)
(* what has been read and chunkSize within the sizes the peer names.       *)
(***************************************************************************)
THEOREM TypeCorrect == Spec => []TypeOK
<1> QED BY TypeInit, TypeNext, PTL DEF Spec

-----------------------------------------------------------------------------
(* Where the decoder may stand: in a chunk's data, behind its first d      *)
(* bytes and with all of the body before it handed over, or between        *)
(* chunks, in front of the next or of the line end behind the one before.  *)
InData(i, d) ==
  /\ chunkSize = Size(i) - d
  /\ used = Start(i) + 3 + d
  /\ Len(delivered) = ends[i] + d

Between(i) ==
  /\ chunkSize <= 0
  /\ used = Start(i) \/ (i > 0 /\ used = Start(i) - 2)
  /\ Len(delivered) = ends[i]

Shown ==
  /\ Len(delivered) <= Len(body)
  /\ \A k \in 1..Len(delivered) : delivered[k] = body[k]

Placed ==
  /\ Shown
  /\ pc \in {"receive", "parse"} =>
       \E i \in 0..last : Between(i) \/ \E d \in 0..(Size(i) - 1) : InData(i, d)
  /\ pc = "completed" => Len(delivered) = Len(body)

Inv == TypeOK /\ Layout /\ (Decodable => Placed)

(* At first nothing is handed over and the first chunk is in front.        *)
LEMMA PlacedInit == Init => Placed
<1> SUFFICES ASSUME Init PROVE Placed
  OBVIOUS
<1>1. Divided /\ Len(body) \in Nat /\ last \in Nat
  BY LayoutInit DEF Layout, Divided
<1>2. delivered = <<>> /\ Len(delivered) = 0 /\ pc = "receive" /\ used = 0 /\ chunkSize = -1
  BY DEF Init
<1>3. 0 \in 0..last /\ Start(0) = 0 /\ ends[0] = 0
  BY <1>1 DEF Divided, Start
<1>4. Between(0)
  BY <1>2, <1>3 DEF Between
<1>5. Shown
  BY <1>1, <1>2 DEF Shown
<1> QED BY <1>2, <1>3, <1>4, <1>5 DEF Placed

(* What the peer sends stays as it is.                                     *)
LEMMA SentStays ==
  ASSUME UNCHANGED sent
  PROVE  /\ Layout => Layout'
         /\ Decodable' <=> Decodable
         /\ last' = last /\ body' = body /\ ends' = ends
         /\ \A i : Size(i)' = Size(i) /\ Start(i)' = Start(i)
  BY DEF sent, Layout, Divided, Framed, Total, Start, Size, Decodable

(* In front of a chunk the line of its size is found, if all of it has     *)
(* been read, and gives its size.                                          *)
LEMMA AtChunk ==
  ASSUME TypeOK, Layout, NEW i \in 0..last, used = Start(i), FindCRLF > 0
  PROVE  FindCRLF = used + 2 /\ Stol(FindCRLF - 1) = Size(i) /\ used + 3 <= read
<1>1. used \in Nat /\ read \in Nat
  BY DEF TypeOK
<1>2. Size(i) \in 0..MaxBody
  BY ChunkSizes DEF Layout
<1>3. wire[used + 1] = Hex[Size(i)] /\ wire[used + 2] = "CR" /\ wire[used + 3] = "LF"
  BY DEF Layout, Framed
<1>4. Hex[Size(i)] # "CR"
  BY <1>2, ChunkAssumption
<1>5. ~LineEndAt(used + 1)
  BY <1>3, <1>4 DEF LineEndAt
<1>6. (used + 2) + 1 = used + 3
  BY <1>1
<1>7. LineEndAt(used + 2)
  BY <1>3, <1>6 DEF LineEndAt
<1>8. /\ FindCRLF \in (used + 1)..(read - 1)
      /\ LineEndAt(FindCRLF)
      /\ \A place \in (used + 1)..(read - 1) : LineEndAt(place) => FindCRLF <= place
  BY <1>1, FindsFirstLineEnd
<1>9. FindCRLF # used + 1
  BY <1>5, <1>8
<1>10. used + 2 \in (used + 1)..(read - 1)
  BY <1>1, <1>8, <1>9
<1>11. FindCRLF = used + 2
  BY <1>1, <1>7, <1>8, <1>9, <1>10
<1>12. FindCRLF - 1 \in Nat /\ used < FindCRLF - 1
  BY <1>1, <1>11
<1>13. Stol(FindCRLF - 1) = Size(i)
  BY <1>1, <1>2, <1>3, <1>12, StolReadsSize
<1> QED BY <1>1, <1>10, <1>11, <1>13

(* In front of the line end behind a chunk no number is found.             *)
LEMMA AtLineEnd ==
  ASSUME TypeOK, Layout, NEW i \in 0..last, i > 0, used = Start(i) - 2, FindCRLF > 0
  PROVE  Stol(FindCRLF - 1) = -1
<1>1. used \in Nat /\ read \in Nat
  BY DEF TypeOK
<1>2. i - 1 \in 0..last /\ i - 1 # last /\ (i - 1) + 1 = i
  BY DEF Layout, Divided
<1>3. Start(i) = Start(i - 1) + 5 + Size(i - 1) /\ Start(i - 1) \in Nat /\ Size(i - 1) \in 0..MaxBody
  BY <1>2, ChunkSizes DEF Layout
<1>4. wire[Start(i - 1) + 4 + Size(i - 1)] = "CR" /\ wire[Start(i - 1) + 5 + Size(i - 1)] = "LF"
  BY <1>2 DEF Layout, Framed
<1>5. MaxBody \in Nat
  BY ChunkAssumption
<1>6. used + 1 = Start(i - 1) + 4 + Size(i - 1) /\ (used + 1) + 1 = Start(i - 1) + 5 + Size(i - 1)
  BY <1>3, <1>5
<1>7. LineEndAt(used + 1)
  BY <1>4, <1>6 DEF LineEndAt
<1>8. /\ FindCRLF \in (used + 1)..(read - 1)
      /\ \A place \in (used + 1)..(read - 1) : LineEndAt(place) => FindCRLF <= place
  BY <1>1, FindsFirstLineEnd
<1>9. used + 1 \in (used + 1)..(read - 1)
  BY <1>1, <1>8
<1>10. FindCRLF = used + 1
  BY <1>1, <1>7, <1>8, <1>9
<1>11. FindCRLF - 1 \in Nat /\ FindCRLF - 1 <= used
  BY <1>1, <1>10
<1> QED BY <1>1, <1>11, StolReadsSize

(* The line of a size is followed by the chunk's data; a chunk without     *)
(* data is the last, and the body is complete.                             *)
LEMMA ReadChunkSizePlaces ==
  ASSUME TypeOK, Layout, Decodable, Placed, ReadChunkSize
  PROVE  Placed'
<1> USE DEF ReadChunkSize
<1>1. UNCHANGED sent /\ UNCHANGED delivered /\ Shown'
  BY DEF sent, Placed, Shown
<1>2. used \in Nat /\ read \in Nat /\ chunkSize <= 0 /\ FindCRLF > 0
  BY DEF TypeOK
<1>3. PICK i \in 0..last : Between(i)
  <2>1. PICK i \in 0..last : Between(i) \/ \E d \in 0..(Size(i) - 1) : InData(i, d)
    BY DEF Placed
  <2>2. Size(i) \in Nat
    BY ChunkSizes DEF Layout
  <2>3. ~ \E d \in 0..(Size(i) - 1) : InData(i, d)
    BY <1>2, <2>2 DEF InData
  <2> QED BY <2>1, <2>3
<1>4. CASE used = Start(i)
  <2>1. FindCRLF = used + 2 /\ Stol(FindCRLF - 1) = Size(i) /\ used + 3 <= read
    BY <1>2, <1>4, AtChunk
  <2>2. /\ Size(i) \in Nat /\ Start(i) \in Nat /\ ends[i] \in Nat
        /\ i = last => Size(i) = 0 /\ ends[i] = Len(body)
        /\ i # last => Size(i) > 0
    BY ChunkSizes DEF Layout
  <2>3. CASE i = last
    <3>1. pc' = "completed"
      BY <2>1, <2>2, <2>3
    <3>2. Len(delivered) = Len(body)
      BY <1>3, <2>2, <2>3 DEF Between
    <3> QED BY <1>1, <3>1, <3>2, SentStays DEF Placed
  <2>4. CASE i # last
    <3>1. ~LineEndAt(used + 4)
      <4>1. \A k \in 1..Size(i) : wire[Start(i) + 3 + k] = body[ends[i] + k]
        BY DEF Layout, Framed
      <4>2. wire[used + 4] = body[ends[i] + 1]
        BY <1>4, <2>2, <2>4, <4>1
      <4>3. CASE Size(i) = 1
        <5>1. wire[Start(i) + 4 + Size(i)] = "CR"
          BY DEF Layout, Framed
        <5> QED BY <1>2, <1>4, <4>3, <5>1 DEF LineEndAt
      <4>4. CASE Size(i) >= 2
        <5>1. wire[(used + 4) + 1] = body[ends[i] + 2]
          BY <1>4, <2>2, <4>1, <4>4
        <5>2. i \in 0..(last - 1)
          BY <2>4 DEF Layout, Divided
        <5>3. ~(body[ends[i] + 1] = "CR" /\ body[ends[i] + 2] = "LF")
          BY <4>4, <5>2 DEF Decodable
        <5> QED BY <4>2, <5>1, <5>3 DEF LineEndAt
      <4> QED BY <2>2, <2>4, <4>3, <4>4
    <3>2. SkipCRLF(FindCRLF + 1) = used + 3
      <4>1. FindCRLF + 1 = used + 3 /\ (used + 3) + 1 = used + 4
        BY <1>2, <2>1
      <4> QED BY <3>1, <4>1 DEF SkipCRLF
    <3>3. pc' = "parse" /\ chunkSize' = Size(i) /\ used' = used + 3
      BY <2>1, <2>2, <2>4, <3>2
    <3>4. /\ chunkSize' = Size(i) - 0
          /\ used' = Start(i) + 3 + 0
          /\ Len(delivered) = ends[i] + 0
          /\ 0 \in 0..(Size(i) - 1)
      BY <1>3, <1>4, <2>2, <2>4, <3>3 DEF Between
    <3>5. InData(i, 0)' /\ 0 \in 0..(Size(i)' - 1)
      BY <1>1, <3>4, SentStays DEF InData
    <3>6. i \in 0..last'
      BY <1>1, SentStays
    <3> QED BY <1>1, <3>3, <3>5, <3>6 DEF Placed
  <2> QED BY <2>3, <2>4
<1>5. CASE used # Start(i)
  <2>1. i > 0 /\ used = Start(i) - 2
    BY <1>3, <1>5 DEF Between
  <2>2. Stol(FindCRLF - 1) = -1
    BY <1>2, <2>1, AtLineEnd
  <2>3. pc' = "terminated"
    BY <2>2
  <2> QED BY <1>1, <2>3 DEF Placed
<1> QED BY <1>4, <1>5

(* Data handed over is the next of the body, and behind a chunk's data     *)
(* comes its line end and then the next chunk.                             *)
LEMMA ReadChunkDataPlaces ==
  ASSUME TypeOK, Layout, Placed, ReadChunkData
  PROVE  Placed'
<1>1. PICK n : n = IF chunkSize < read - used THEN chunkSize ELSE read - used
  OBVIOUS
<1> DEFINE taken == SubSeq(wire, used + 1, used + n)
           given == Len(delivered)
<1>2. UNCHANGED sent /\ pc = "parse" /\ pc' = "parse" /\ delivered' = delivered \o taken
  BY <1>1 DEF sent, ReadChunkData
<1>3. chunkSize > 0 /\ used' = SkipCRLF(used + n) /\ chunkSize' = chunkSize - n
  BY <1>1 DEF ReadChunkData
<1>4. /\ n \in Nat /\ n > 0 /\ n <= chunkSize /\ used + n <= read
      /\ n = chunkSize \/ used + n = read
  BY <1>1, TakesSome DEF ReadChunkData
<1>5. Len(taken) = n /\ taken \in Seq(Bytes) /\ \A k \in 1..n : taken[k] = wire[used + k]
  BY <1>1, TakesSome DEF ReadChunkData
<1>6. used \in Nat /\ read \in Nat /\ chunkSize \in Int /\ given \in Nat
  BY DEF TypeOK
<1>7. delivered \in Seq(Bytes)
  BY DEF TypeOK
<1> HIDE DEF taken
<1>8. PICK i \in 0..last : \E d \in 0..(Size(i) - 1) : InData(i, d)
  BY <1>2, <1>3, <1>6 DEF Placed, Between
<1>9. PICK d \in 0..(Size(i) - 1) : InData(i, d)
  BY <1>8
<1>10. Size(i) \in Nat /\ Start(i) \in Nat /\ ends[i] \in Nat
  BY ChunkSizes DEF Layout
<1>11. Len(body) \in Nat /\ ends[i] + Size(i) <= Len(body)
  BY ChunkSizes DEF Layout
<1>12. d \in Nat /\ chunkSize = Size(i) - d /\ used = Start(i) + 3 + d /\ given = ends[i] + d
  BY <1>9 DEF InData
<1> HIDE DEF given
<1>13. \A k \in 1..n : wire[used + k] = body[given + k]
  <2> SUFFICES ASSUME NEW k \in 1..n PROVE wire[used + k] = body[given + k]
    OBVIOUS
  <2>1. d + k \in 1..Size(i)
    BY <1>4, <1>10, <1>12
  <2>2. Start(i) + 3 + (d + k) = used + k /\ ends[i] + (d + k) = given + k
    BY <1>4, <1>10, <1>12
  <2>3. \A j \in 1..Size(i) : wire[Start(i) + 3 + j] = body[ends[i] + j]
    BY DEF Layout, Framed
  <2> QED BY <2>1, <2>2, <2>3
<1>14. /\ Len(delivered') = given + n
       /\ \A k \in 1..(given + n) :
            delivered'[k] = IF k <= given THEN delivered[k] ELSE taken[k - given]
  BY <1>2, <1>4, <1>5, <1>7, ConcatProperties DEF given
<1>15. Shown'
  <2>1. given + n <= Len(body)
    <3>1. given + n <= ends[i] + Size(i)
      BY <1>4, <1>10, <1>12
    <3> QED BY <1>4, <1>6, <1>10, <1>11, <3>1
  <2>2. ASSUME NEW k \in 1..(given + n) PROVE delivered'[k] = body[k]
    <3>1. CASE k <= given
      <4>1. k \in 1..given
        BY <1>6, <3>1
      <4> QED BY <1>14, <3>1, <4>1 DEF Placed, Shown, given
    <3>2. CASE ~(k <= given)
      <4>1. k - given \in 1..n /\ given + (k - given) = k
        BY <1>4, <1>6, <3>2
      <4>2. delivered'[k] = taken[k - given]
        BY <1>14, <3>2
      <4>3. wire[used + (k - given)] = body[k]
        BY <1>13, <4>1
      <4> QED BY <1>5, <4>1, <4>2, <4>3
    <3> QED BY <3>1, <3>2
  <2> QED BY <1>2, <1>14, <2>1, <2>2, SentStays DEF Shown
<1>16. CASE n = chunkSize
  <2>1. chunkSize' = 0
    BY <1>3, <1>6, <1>16
  <2>2. d + n = Size(i)
    BY <1>4, <1>10, <1>12, <1>16
  <2>3. /\ i + 1 \in 0..last
        /\ ends[i + 1] = ends[i] + Size(i)
        /\ Start(i + 1) = Start(i) + 5 + Size(i)
    <3>1. i # last
      BY <1>4, <1>3, <1>10, <1>12, <2>2, ChunkSizes DEF Layout
    <3> QED BY <3>1, ChunkSizes DEF Layout
  <2>4. used + n = Start(i + 1) - 2 /\ given + n = ends[i + 1]
    <3>1. used + n = Start(i) + 3 + (d + n) /\ given + n = ends[i] + (d + n)
      BY <1>4, <1>10, <1>12
    <3> QED BY <1>10, <2>2, <2>3, <3>1
  <2>5. used' \in {used + n, used + n + 2}
    BY <1>3 DEF SkipCRLF
  <2>6. used' = Start(i + 1) \/ used' = Start(i + 1) - 2
    BY <1>10, <2>3, <2>4, <2>5
  <2>7. i + 1 > 0 /\ i + 1 \in 0..last'
    BY <1>2, <2>3, SentStays
  <2>8. Between(i + 1)'
    BY <1>2, <1>14, <2>1, <2>4, <2>6, <2>7, SentStays DEF Between
  <2> QED BY <1>2, <1>15, <2>7, <2>8 DEF Placed
<1>17. CASE n # chunkSize
  <2>1. used + n = read /\ n < chunkSize
    BY <1>3, <1>4, <1>6, <1>17
  <2>2. used' = used + n
    BY <1>3, <1>6, <2>1 DEF SkipCRLF
  <2>3. d + n \in 0..(Size(i) - 1)
    BY <1>4, <1>10, <1>12, <2>1
  <2>4. chunkSize' = Size(i) - (d + n)
    BY <1>3, <1>4, <1>10, <1>12
  <2>5. used' = Start(i) + 3 + (d + n) /\ given + n = ends[i] + (d + n)
    BY <1>4, <1>10, <1>12, <2>2
  <2>6. last' = last /\ ends' = ends /\ Size(i)' = Size(i) /\ Start(i)' = Start(i)
    BY <1>2, SentStays
  <2>7. InData(i, d + n)'
    BY <1>14, <2>4, <2>5, <2>6 DEF InData
  <2>8. i \in 0..last' /\ d + n \in 0..(Size(i)' - 1)
    BY <2>3, <2>6
  <2>9. \E e \in 0..(Size(i)' - 1) : InData(i, e)'
    BY <2>7, <2>8
  <2> QED BY <1>2, <1>15, <2>8, <2>9 DEF Placed
<1> QED BY <1>16, <1>17

(* Every step keeps the place.                                             *)
LEMMA InvNext == Inv /\ [Next]_vars => Inv'
<1> SUFFICES ASSUME Inv, [Next]_vars PROVE Inv'
  OBVIOUS
<1>1. UNCHANGED sent
  BY DEF Next, Receive, ChunkSizeError, ReadChunkSize, ReadChunkData, ReadDone, vars
<1>2. TypeOK' /\ Layout' /\ (Decodable' <=> Decodable)
  BY <1>1, TypeNext, SentStays DEF Inv
<1>3. ASSUME Decodable PROVE Placed'
  <2>1. TypeOK /\ Layout /\ Placed
    BY <1>3 DEF Inv
  <2>2. ASSUME UNCHANGED <<used, chunkSize, delivered>>,
               pc' \in {"receive", "parse"} => pc \in {"receive", "parse"},
               pc' = "completed" => pc = "completed"
        PROVE  Placed'
    <3>1. Shown'
      BY <1>1, <2>1, <2>2, SentStays DEF Placed, Shown
    <3>2. \A i, d : (InData(i, d)' <=> InData(i, d)) /\ (Between(i)' <=> Between(i))
      BY <1>1, <2>2, SentStays DEF InData, Between
    <3> QED BY <1>1, <2>1, <2>2, <3>1, <3>2, SentStays DEF Placed
  <2>3. CASE Receive
    BY <2>2, <2>3 DEF Receive
  <2>4. CASE ChunkSizeError
    BY <2>2, <2>4 DEF ChunkSizeError
  <2>5. CASE ReadChunkSize
    BY <1>3, <2>1, <2>5, ReadChunkSizePlaces
  <2>6. CASE ReadChunkData
    BY <2>1, <2>6, ReadChunkDataPlaces
  <2>7. CASE ReadDone
    BY <2>2, <2>7 DEF ReadDone
  <2>8. CASE UNCHANGED vars
    BY <2>2, <2>8 DEF vars
  <2> QED BY <2>3, <2>4, <2>5, <2>6, <2>7, <2>8 DEF Next
<1> QED BY <1>2, <1>3 DEF Inv

LEMMA InvInit == Init => Inv
<1> QED BY TypeInit, LayoutInit, PlacedInit DEF Inv

(* The decoder always stands where the invariant says.                     *)
THEOREM DecoderIsPlaced == Spec => []Inv
<1> QED BY InvInit, InvNext, PTL DEF Spec

(* Two sequences with the same elements are the same.                      *)
LEMMA ShownIsPrefix ==
  ASSUME TypeOK, Shown
  PROVE  /\ IsPrefix(delivered, body)
         /\ Len(delivered) = Len(body) => delivered = body
<1> DEFINE n == Len(delivered)
<1>1. body \in Seq(Payload) /\ delivered \in Seq(Bytes) /\ n \in Nat /\ n <= Len(body) /\ Len(body) \in Nat
  BY DEF TypeOK, Shown
<1>2. \A k \in 1..n : delivered[k] = body[k]
  BY DEF Shown
<1>3. SubSeq(delivered, 1, n) = [k \in 1..n |-> delivered[k]]
  BY <1>1
<1>4. SubSeq(body, 1, n) = [k \in 1..n |-> body[k]]
  BY <1>1
<1>5. SubSeq(delivered, 1, n) = SubSeq(body, 1, n)
  BY <1>2, <1>3, <1>4
<1>6. SubSeq(delivered, 1, n) = delivered
  BY <1>1
<1>7. n = Len(body) => SubSeq(body, 1, n) = body
  BY <1>1
<1> QED BY <1>1, <1>5, <1>6, <1>7 DEF IsPrefix

(***************************************************************************)
(* What the caller is given of a chunked body is the body so far, however  *)
(* the peer divides it into chunks and the network cuts it into reads.     *)
(***************************************************************************)
THEOREM PrefixDelivered == Spec => []DeliveredIsPrefix
<1>1. Inv => DeliveredIsPrefix
  BY ShownIsPrefix DEF Inv, Placed, DeliveredIsPrefix
<1> QED BY <1>1, DecoderIsPlaced, PTL

(***************************************************************************)
(* A chunked response is complete only with the whole body handed over.    *)
(***************************************************************************)
THEOREM CompletedWhole == Spec => []CompletedIsWhole
<1>1. Inv => CompletedIsWhole
  BY ShownIsPrefix DEF Inv, Placed, CompletedIsWhole
<1> QED BY <1>1, DecoderIsPlaced, PTL

-----------------------------------------------------------------------------
(* Completes without its fairness: a body read in clean cuts is never in   *)
(* an end but the right one, and every step brings that end nearer.        *)

(* In front of a chunk, or in its data; never in front of the line end     *)
(* behind a chunk, as Placed allows.                                       *)
AtFront(i) == chunkSize <= 0 /\ used = Start(i)

Whole ==
  /\ cuts = CleanCuts
  /\ read \in CleanCuts \cup {0}
  /\ pc \in {"receive", "parse", "completed"}
  /\ pc = "receive" => used = read
  /\ pc \in {"receive", "parse"} =>
       \E i \in 0..last : AtFront(i) \/ \E d \in 0..(Size(i) - 1) : InData(i, d)

WholeInv == clean /\ Decodable => Whole

(* A clean cut is neither in the line of a size nor in the line end behind *)
(* a chunk's data.                                                         *)
LEMMA CleanCutsSparesLines ==
  ASSUME Divided, NEW n \in CleanCuts, NEW i \in 0..last
  PROVE  /\ n > Start(i) => n >= Start(i) + 3
         /\ n >= Start(i) + 3 + Size(i) => n >= Start(i) + 5 + Size(i)
<1>1. Start(i) \in Nat /\ Size(i) \in Nat
  BY ChunkSizes
<1>2. ASSUME NEW j \in 0..last,
             n = Start(j) \/ n \in (Start(j) + 3)..(Start(j) + 2 + Size(j))
      PROVE  /\ n > Start(i) => n >= Start(i) + 3
             /\ n >= Start(i) + 3 + Size(i) => n >= Start(i) + 5 + Size(i)
  <2>1. Start(j) \in Nat /\ Size(j) \in Nat
    BY ChunkSizes
  <2>2. CASE i < j
    <3>1. Start(i) + 5 + Size(i) <= Start(j)
      BY <2>2, ChunksFollow
    <3> QED BY <1>1, <1>2, <2>1, <3>1
  <2>3. CASE j < i
    <3>1. Start(j) + 5 + Size(j) <= Start(i)
      BY <2>3, ChunksFollow
    <3> QED BY <1>1, <1>2, <2>1, <3>1
  <2>4. CASE i = j
    BY <1>1, <1>2, <2>4
  <2>5. last \in Nat
    BY DEF Divided
  <2> QED BY <2>2, <2>3, <2>4, <2>5
<1>3. CASE n = Total
  <2>1. last \in 0..last /\ last \in Nat
    BY DEF Divided
  <2>2. Start(last) \in Nat
    BY <2>1, ChunkSizes
  <2>3. CASE i = last
    <3>1. Size(i) = 0
      BY <2>3, ChunkSizes
    <3> QED BY <1>1, <1>3, <2>3, <3>1 DEF Total
  <2>4. CASE i # last
    <3>1. i < last
      BY <2>1, <2>4
    <3>2. Start(i) + 5 + Size(i) <= Start(last)
      BY <2>1, <3>1, ChunksFollow
    <3> QED BY <1>1, <1>3, <2>2, <3>2 DEF Total
  <2> QED BY <2>3, <2>4
<1>4. \/ \E j \in 0..last : n = Start(j) \/ n \in (Start(j) + 3)..(Start(j) + 2 + Size(j))
      \/ n = Total
  <2>1. 1..last \subseteq 0..last
    BY DEF Divided
  <2> QED BY <2>1 DEF CleanCuts
<1> QED BY <1>2, <1>3, <1>4

(* The line of a size is read whole, and is the line of a size.            *)
LEMMA WholeSize ==
  ASSUME Inv, Decodable, Whole, pc = "parse", used < read, chunkSize <= 0
  PROVE  /\ FindCRLF > 0
         /\ Stol(FindCRLF - 1) >= 0
<1>1. TypeOK /\ Layout /\ Divided /\ used \in Nat /\ read \in Nat
  BY DEF Inv, TypeOK, Layout
<1>2. PICK i \in 0..last : AtFront(i)
  <2>1. PICK i \in 0..last : AtFront(i) \/ \E d \in 0..(Size(i) - 1) : InData(i, d)
    BY DEF Whole
  <2>2. Size(i) \in Nat
    BY <1>1, ChunkSizes
  <2>3. ~ \E d \in 0..(Size(i) - 1) : InData(i, d)
    BY <1>1, <2>2 DEF InData
  <2> QED BY <2>1, <2>3
<1>3. used = Start(i) /\ Size(i) \in Nat /\ Start(i) \in Nat
  BY <1>1, <1>2, ChunkSizes DEF AtFront
<1>4. read >= used + 3
  <2>1. read \in CleanCuts
    BY <1>1 DEF Whole
  <2> QED BY <1>1, <1>3, <2>1, CleanCutsSparesLines
<1>5. FindCRLF > 0
  <2>1. wire[Start(i) + 2] = "CR" /\ wire[Start(i) + 3] = "LF"
    BY <1>1 DEF Layout, Framed
  <2>2. (used + 2) + 1 = used + 3
    BY <1>1
  <2>3. LineEndAt(used + 2)
    BY <1>3, <2>1, <2>2 DEF LineEndAt
  <2>4. used + 2 \in (used + 1)..(read - 1)
    BY <1>1, <1>4
  <2>5. FindCRLF = 0 \/ FindCRLF \in (used + 1)..(read - 1)
    BY <1>1, FindsFirstLineEnd
  <2>6. FindCRLF # 0
    BY <1>1, <2>3, <2>4, FindsFirstLineEnd
  <2> QED BY <1>1, <2>5, <2>6
<1>6. Stol(FindCRLF - 1) = Size(i)
  BY <1>1, <1>3, <1>5, AtChunk
<1> QED BY <1>3, <1>5, <1>6

(* Behind all of a chunk's data comes the next chunk, line end dropped.    *)
LEMMA WholeData ==
  ASSUME Inv, Decodable, Whole, ReadChunkData
  PROVE  \E i \in 0..last : AtFront(i)' \/ \E d \in 0..(Size(i)' - 1) : InData(i, d)'
<1>1. /\ TypeOK /\ Layout /\ Divided /\ Placed /\ used \in Nat /\ read \in Nat
      /\ chunkSize \in Int /\ last \in Nat
  BY DEF Inv, TypeOK, Layout
<1>2. PICK n : n = IF chunkSize < read - used THEN chunkSize ELSE read - used
  OBVIOUS
<1>3. /\ UNCHANGED sent /\ UNCHANGED read /\ pc = "parse" /\ pc' = "parse" /\ chunkSize > 0
      /\ used' = SkipCRLF(used + n) /\ chunkSize' = chunkSize - n
  BY <1>2 DEF sent, ReadChunkData
<1>4. /\ n \in Nat /\ n > 0 /\ n <= chunkSize /\ used + n <= read
      /\ n = chunkSize \/ used + n = read
  BY <1>1, <1>2, TakesSome DEF ReadChunkData
<1>5. Placed'
  BY <1>1, ReadChunkDataPlaces
<1>6. CASE n # chunkSize
  <2>1. chunkSize' > 0
    BY <1>1, <1>3, <1>4, <1>6
  <2>2. PICK i \in 0..last' : Between(i)' \/ \E d \in 0..(Size(i)' - 1) : InData(i, d)'
    BY <1>3, <1>5 DEF Placed
  <2>3. ~Between(i)'
    BY <1>1, <1>3, <1>4, <2>1 DEF Between
  <2> QED BY <1>3, <2>2, <2>3, SentStays
<1>7. CASE n = chunkSize
  <2>1. PICK i \in 0..last : \E d \in 0..(Size(i) - 1) : InData(i, d)
    BY <1>1, <1>3 DEF Whole, AtFront
  <2>2. PICK d \in 0..(Size(i) - 1) : InData(i, d)
    BY <2>1
  <2>3. Size(i) \in Nat /\ Start(i) \in Nat
    BY <1>1, ChunkSizes
  <2>4. d \in Nat /\ d < Size(i) /\ chunkSize = Size(i) - d /\ used = Start(i) + 3 + d
    BY <2>2, <2>3 DEF InData
  <2>5. i + 1 \in 0..last /\ Start(i + 1) = Start(i) + 5 + Size(i)
    <3>1. i # last
      BY <1>1, <2>3, <2>4, ChunkSizes
    <3> QED BY <1>1, <3>1, ChunkSizes
  <2>6. used + n = Start(i) + 3 + Size(i) /\ (used + n) + 2 = Start(i + 1)
    BY <1>7, <2>3, <2>4, <2>5
  <2>7. read >= Start(i) + 5 + Size(i)
    <3>1. read >= Start(i) + 3 + Size(i) /\ read # 0
      BY <1>1, <1>4, <2>3, <2>6
    <3>2. read \in CleanCuts
      BY <3>1 DEF Whole
    <3> QED BY <1>1, <3>1, <3>2, CleanCutsSparesLines
  <2>8. LineEndAt((used + n) + 1)
    <3>1. wire[Start(i) + 4 + Size(i)] = "CR" /\ wire[Start(i) + 5 + Size(i)] = "LF"
      BY <1>1 DEF Layout, Framed
    <3>2. /\ (used + n) + 1 = Start(i) + 4 + Size(i)
          /\ ((used + n) + 1) + 1 = Start(i) + 5 + Size(i)
      BY <2>3, <2>6
    <3> QED BY <3>1, <3>2 DEF LineEndAt
  <2>9. SkipCRLF(used + n) = Start(i + 1)
    BY <1>1, <2>3, <2>5, <2>6, <2>7, <2>8 DEF SkipCRLF
  <2>10. chunkSize' = 0
    BY <1>1, <1>3, <1>7
  <2>11. AtFront(i + 1)'
    BY <1>3, <2>9, <2>10, SentStays DEF AtFront
  <2> QED BY <2>5, <2>11
<1> QED BY <1>6, <1>7

(* Every step of a clean read keeps it whole.                              *)
LEMMA WholeNext == Inv /\ WholeInv /\ [Next]_vars => WholeInv'
<1> SUFFICES ASSUME Inv, WholeInv, [Next]_vars, clean', Decodable' PROVE Whole'
  BY DEF WholeInv
<1>1. UNCHANGED sent
  BY DEF Next, Receive, ChunkSizeError, ReadChunkSize, ReadChunkData, ReadDone, vars
<1>2. Decodable /\ Whole
  BY <1>1, SentStays DEF WholeInv, sent
<1>3. /\ cuts' = cuts /\ last' = last /\ CleanCuts' = CleanCuts
      /\ \A i : Size(i)' = Size(i) /\ Start(i)' = Start(i)
  <2>1. last' = last /\ \A i : Size(i)' = Size(i) /\ Start(i)' = Start(i)
    BY <1>1, SentStays
  <2>2. CleanCuts' = CleanCuts
    BY <1>1 DEF CleanCuts, Total, Start, Size, sent
  <2> QED BY <1>1, <2>1, <2>2 DEF sent
<1>4. used \in Nat /\ read \in Nat /\ used <= read /\ TypeOK /\ Layout
  BY DEF Inv, TypeOK
<1>5. ASSUME UNCHANGED <<used, chunkSize, delivered>>,
             pc' \in {"receive", "parse"} => pc \in {"receive", "parse"}
      PROVE  pc' \in {"receive", "parse"} =>
               \E i \in 0..last' : AtFront(i)' \/ \E d \in 0..(Size(i)' - 1) : InData(i, d)'
  <2>1. \A i, d : (InData(i, d)' <=> InData(i, d)) /\ (AtFront(i)' <=> AtFront(i))
    BY <1>1, <1>3, <1>5 DEF InData, AtFront, sent
  <2> QED BY <1>2, <1>3, <1>5, <2>1 DEF Whole
<1>6. CASE Receive
  <2>1. read' \in cuts /\ pc = "receive" /\ pc' = "parse"
    BY <1>6 DEF Receive
  <2>2. UNCHANGED <<used, chunkSize, delivered>>
    BY <1>6 DEF Receive
  <2> QED BY <1>2, <1>3, <1>5, <2>1, <2>2 DEF Whole
<1>7. CASE ChunkSizeError
  BY <1>2, <1>4, <1>7, WholeSize DEF ChunkSizeError
<1>8. CASE ReadChunkSize
  <2>0. FindCRLF > 0 /\ FindCRLF \in (used + 1)..(read - 1)
    BY <1>4, <1>8, FindsFirstLineEnd DEF ReadChunkSize
  <2>1. used < read /\ chunkSize <= 0 /\ pc = "parse"
    BY <1>4, <1>8, <2>0 DEF ReadChunkSize
  <2>2. Stol(FindCRLF - 1) \in Nat
    <3>1. FindCRLF - 1 \in Nat
      BY <1>4, <2>0
    <3>2. Stol(FindCRLF - 1) \in -1..MaxBody /\ MaxBody \in Nat
      BY <1>4, <3>1, StolReadsSize, ChunkAssumption
    <3> QED BY <1>2, <2>1, <3>2, WholeSize
  <2>3. read' = read
    BY <1>8 DEF ReadChunkSize
  <2>4. CASE Stol(FindCRLF - 1) = 0
    <3>1. pc' = "completed"
      BY <1>8, <2>4 DEF ReadChunkSize
    <3> QED BY <1>2, <1>3, <2>3, <3>1 DEF Whole
  <2>5. CASE Stol(FindCRLF - 1) # 0
    <3>1. pc' = "parse" /\ chunkSize' > 0 /\ chunkSize' \in Nat
      BY <1>8, <2>2, <2>5 DEF ReadChunkSize
    <3>2. Placed'
      BY <1>2, <1>8, ReadChunkSizePlaces DEF Inv
    <3>3. PICK i \in 0..last' : Between(i)' \/ \E d \in 0..(Size(i)' - 1) : InData(i, d)'
      BY <3>1, <3>2 DEF Placed
    <3>4. ~Between(i)'
      BY <3>1 DEF Between
    <3> QED BY <1>2, <1>3, <2>3, <3>1, <3>3, <3>4 DEF Whole
  <2> QED BY <2>4, <2>5
<1>9. CASE ReadChunkData
  <2>1. \E i \in 0..last : AtFront(i)' \/ \E d \in 0..(Size(i)' - 1) : InData(i, d)'
    BY <1>2, <1>9, WholeData
  <2>2. read' = read /\ pc' = "parse"
    BY <1>9 DEF ReadChunkData
  <2> QED BY <1>2, <1>3, <2>1, <2>2 DEF Whole
<1>10. CASE ReadDone
  <2>1. UNCHANGED <<used, read, chunkSize, delivered>> /\ used = read /\ pc = "parse" /\ pc' = "receive"
    BY <1>10 DEF ReadDone
  <2> QED BY <1>2, <1>3, <1>5, <2>1 DEF Whole
<1>11. CASE UNCHANGED vars
  <2>1. UNCHANGED <<pc, read, used, chunkSize, delivered>>
    BY <1>11 DEF vars
  <2> QED BY <1>2, <1>3, <1>5, <2>1 DEF Whole
<1> QED BY <1>6, <1>7, <1>8, <1>9, <1>10, <1>11 DEF Next

LEMMA WholeInit == Init => WholeInv
<1> SUFFICES ASSUME Init, clean PROVE Whole
  BY DEF WholeInv
<1>1. /\ pc = "receive" /\ used = 0 /\ read = 0 /\ chunkSize = -1 /\ cuts = CleanCuts
      /\ Divided
  BY LayoutInit DEF Init, Layout
<1>2. 0 \in 0..last /\ Start(0) = 0
  BY <1>1 DEF Divided, Start
<1>3. AtFront(0)
  BY <1>1, <1>2 DEF AtFront
<1> QED BY <1>1, <1>2, <1>3 DEF Whole

(* Where the decoder is told to wait, there is more to come.               *)
NeverStuck ==
  clean /\ Decodable =>
    /\ pc \in {"receive", "parse", "completed"}
    /\ pc = "receive" => \E n \in cuts : n > read

(***************************************************************************)
(* A well-formed body whose reads spare the lines of the framing meets no  *)
(* error and no exception, and parseChunk asks for another read only while *)
(* there is one: what it would take to hang or to fail cannot be reached.  *)
(* So the exception that the run of NoExceptionEscapes finds needs a read  *)
(* that cuts a line, or a body that is not Decodable.                      *)
(***************************************************************************)
THEOREM CleanBodiesAreNeverStuck == Spec => []NeverStuck
<1>1. Inv /\ WholeInv => NeverStuck
  <2> SUFFICES ASSUME Inv, Whole, pc = "receive" PROVE \E n \in cuts : n > read
    BY DEF WholeInv, NeverStuck, Whole
  <2>1. cuts = CleanCuts /\ used = read /\ Layout /\ Divided
    BY DEF Whole, Inv, Layout
  <2>2. PICK i \in 0..last : AtFront(i) \/ \E d \in 0..(Size(i) - 1) : InData(i, d)
    BY DEF Whole
  <2>3. Size(i) \in Nat /\ Start(i) \in Nat
    BY <2>1, ChunkSizes
  <2>4. read < Start(i) + 5 + Size(i)
    BY <2>1, <2>2, <2>3 DEF AtFront, InData
  <2>5. Total \in CleanCuts /\ Total \in Nat /\ last \in 0..last /\ last \in Nat
    <3>1. last \in 0..last /\ last \in Nat
      BY <2>1 DEF Divided
    <3>2. Start(last) \in Nat
      BY <2>1, <3>1, ChunkSizes
    <3> QED BY <3>1, <3>2 DEF CleanCuts, Total
  <2>6. Start(i) + 5 + Size(i) <= Total
    <3>1. CASE i = last
      BY <2>1, <2>3, <3>1, ChunkSizes DEF Total
    <3>2. CASE i # last
      <4>1. i < last
        BY <2>5, <3>2
      <4>2. Start(i) + 5 + Size(i) <= Start(last) /\ Start(last) \in Nat
        BY <2>1, <2>5, <4>1, ChunksFollow, ChunkSizes
      <4> QED BY <2>3, <4>2 DEF Total
    <3> QED BY <3>1, <3>2
  <2>7. Total > read
    <3>1. read \in Nat
      BY DEF Inv, TypeOK
    <3> QED BY <2>3, <2>4, <2>5, <2>6, <3>1
  <2> QED BY <2>1, <2>5, <2>7
<1> QED BY <1>1, InvInit, InvNext, WholeInit, WholeNext, PTL DEF Spec

(* What is left to look at, and, twice, to receive                         *)
Left == (Len(wire) - used) + 2 * (Len(wire) - read) + (IF pc = "parse" THEN 1 ELSE 0)

Advances == [][Left' \in Nat /\ Left' < Left]_vars

(* A later place in the text, or a turn that ends at the same place.       *)
LEMMA LessIsLeft ==
  ASSUME NEW size \in Nat, NEW u \in 0..size, NEW v \in 0..size, NEW r \in 0..size, NEW s \in 0..size,
         NEW b \in 0..1, NEW c \in 0..1,
         \/ s > r /\ v = u
         \/ s = r /\ v = u /\ b = 1 /\ c = 0
         \/ s = r /\ v > u /\ b = 1
  PROVE  /\ (size - v) + 2 * (size - s) + c \in Nat
         /\ (size - v) + 2 * (size - s) + c < (size - u) + 2 * (size - r) + b
OBVIOUS

(***************************************************************************)
(* No loop without progress: each read, each turn of parseChunk and each   *)
(* return from it leaves less to do, for every body and every cut, those   *)
(* it cannot decode included. The number of steps is bounded by the bytes  *)
(* on the wire; no chunk, however divided, can make the worker spin.       *)
(***************************************************************************)
THEOREM EveryTurnAdvances == Spec => Advances
<1>1. TypeOK /\ TypeOK' /\ [Next]_vars => [Left' \in Nat /\ Left' < Left]_vars
  <2> SUFFICES ASSUME TypeOK, TypeOK', Next PROVE Left' \in Nat /\ Left' < Left
    OBVIOUS
  <2> DEFINE size == Len(wire)
  <2>1. wire' = wire
    BY DEF Next, Receive, ChunkSizeError, ReadChunkSize, ReadChunkData, ReadDone, sent
  <2>2. /\ size \in Nat /\ used \in Nat /\ read \in Nat /\ used <= read /\ read <= size
        /\ used' \in Nat /\ read' \in Nat /\ used' <= read' /\ read' <= size
        /\ Len(wire') = size
    BY <2>1 DEF TypeOK
  <2> HIDE DEF size
  <2> DEFINE busy == IF pc = "parse" THEN 1 ELSE 0
             busy1 == IF pc' = "parse" THEN 1 ELSE 0
  <2>3. /\ Left = (size - used) + 2 * (size - read) + busy
        /\ Left' = (size - used') + 2 * (size - read') + busy1
    BY <2>1 DEF Left, size
  <2>4. busy \in 0..1 /\ busy1 \in 0..1
    OBVIOUS
  <2>5. \/ read' > read /\ used' = used
        \/ read' = read /\ used' = used /\ busy = 1 /\ busy1 = 0
        \/ read' = read /\ used' > used /\ busy = 1
    <3>1. CASE Receive
      BY <3>1 DEF Receive
    <3>2. CASE ChunkSizeError
      BY <3>2 DEF ChunkSizeError
    <3>3. CASE ReadChunkSize
      <4>1. FindCRLF \in (used + 1)..(read - 1)
        BY <2>2, <3>3, FindsFirstLineEnd DEF ReadChunkSize
      <4>2. FindCRLF + 1 \in Nat /\ FindCRLF + 1 <= read /\ FindCRLF + 1 > used
        BY <2>2, <4>1
      <4>3. SkipCRLF(FindCRLF + 1) \in (FindCRLF + 1)..read
        BY <2>2, <4>2, SkipsWithinRead
      <4>4. SkipCRLF(FindCRLF + 1) > used
        BY <2>2, <4>2, <4>3
      <4>5. FindCRLF - 1 \in Nat
        BY <2>2, <4>1
      <4>6. Stol(FindCRLF - 1) \in -1..MaxBody /\ MaxBody \in Nat
        BY <2>2, <4>5, StolReadsSize, ChunkAssumption
      <4> QED BY <3>3, <4>4, <4>6 DEF ReadChunkSize
    <3>4. CASE ReadChunkData
      <4>1. PICK n : n = IF chunkSize < read - used THEN chunkSize ELSE read - used
        OBVIOUS
      <4>2. n \in Nat /\ n > 0 /\ used + n <= read
        BY <3>4, <4>1, TakesSome DEF ReadChunkData
      <4>3. used' = SkipCRLF(used + n) /\ read' = read /\ pc = "parse"
        BY <3>4, <4>1 DEF ReadChunkData
      <4>4. used + n \in Nat
        BY <2>2, <4>2
      <4>5. SkipCRLF(used + n) \in (used + n)..read
        BY <2>2, <4>2, <4>4, SkipsWithinRead
      <4>6. used' > used
        BY <2>2, <4>2, <4>3, <4>5
      <4> QED BY <4>3, <4>6
    <3>5. CASE ReadDone
      BY <3>5 DEF ReadDone
    <3> QED BY <3>1, <3>2, <3>3, <3>4, <3>5 DEF Next
  <2> HIDE DEF busy, busy1
  <2>6. (size - used') + 2 * (size - read') + busy1 < (size - used) + 2 * (size - read) + busy
        /\ (size - used') + 2 * (size - read') + busy1 \in Nat
    <3>1. used \in 0..size /\ used' \in 0..size /\ read \in 0..size /\ read' \in 0..size
      BY <2>2
    <3> QED BY <2>2, <2>4, <2>5, <3>1, LessIsLeft
  <2> QED BY <2>3, <2>6
<1> QED BY <1>1, TypeInit, TypeNext, PTL DEF Spec, Advances
=============================================================================
