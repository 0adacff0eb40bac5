---------------------------- MODULE BufferProofs ----------------------------
(***************************************************************************)
(* Proofs about Buffer, for any number of objects and addresses and any    *)
(* sizes: every block has one owner, no uninitialised byte is shown, a     *)
(* length without a block comes from move assignment alone, and every      *)
(* operation shows the bytes it promises.                                  *)
(***************************************************************************)
EXTENDS Buffer, TLAPS

MaxCapacity == (3 * MaxSize) \div 2

(* The three properties as one invariant. What Ownership says of existing  *)
(* objects, and an object that does not exist being empty, together give   *)
(* it for all; NoGarbage is said of the block itself.                      *)
Written ==
  \A o \in objects : rawData[o] # Null =>
    \A i \in 1..length[o] : heap[rawData[o]][i] \in Bytes

AbsentEmpty ==
  \A o \in Objects \ objects : rawData[o] = Null /\ length[o] = 0 /\ capacity[o] = 0

Inv == TypeOK /\ Ownership /\ Written /\ AbsentEmpty /\ StaleOnlyByMoveAssign

(* A function on 1..n is a sequence of length n.                           *)
LEMMA FunctionIsSequence ==
  ASSUME NEW S, NEW n \in Nat, NEW f \in [1..n -> S]
  PROVE  f \in Seq(S) /\ Len(f) = n
  OBVIOUS

(* The bounds on sizes are numbers, and growth by half leaves room.        *)
LEMMA Growth ==
  ASSUME NEW n \in 0..MaxSize
  PROVE  /\ MaxCapacity \in Nat
         /\ MaxSize <= MaxCapacity
         /\ (3 * n) \div 2 \in Nat
         /\ n <= (3 * n) \div 2
         /\ (3 * n) \div 2 <= MaxCapacity
  BY BufferAssumption, Z3 DEF MaxCapacity

(* A new block is a sequence of its size.                                  *)
LEMMA FreshBlock ==
  ASSUME NEW n \in Nat
  PROVE  /\ Fresh(n) \in Seq(Cells) /\ Len(Fresh(n)) = n
         /\ Zeroed(n) \in Seq(Cells) /\ Len(Zeroed(n)) = n
<1>1. Fresh(n) \in [1..n -> Cells] /\ Zeroed(n) \in [1..n -> Cells]
  BY BufferAssumption DEF Fresh, Zeroed, Cells
<1> QED BY <1>1, FunctionIsSequence

(* Copying bytes into a block keeps its size; where they go it holds them, *)
(* elsewhere what it held.                                                 *)
LEMMA WriteBlock ==
  ASSUME NEW cells \in Seq(Cells), NEW at \in Nat, NEW s \in Seq(Bytes)
  PROVE  /\ Write(cells, at, s) \in Seq(Cells)
         /\ Len(Write(cells, at, s)) = Len(cells)
         /\ \A i \in 1..Len(cells) :
              Write(cells, at, s)[i] =
                IF at < i /\ i <= at + Len(s) THEN s[i - at] ELSE cells[i]
<1>1. Len(cells) \in Nat /\ Len(s) \in Nat
  OBVIOUS
<1>2. ASSUME NEW i \in 1..Len(cells), at < i, i <= at + Len(s) PROVE s[i - at] \in Bytes
  <2>1. i - at \in 1..Len(s)
    BY <1>1, <1>2
  <2> QED BY <2>1
<1>3. Write(cells, at, s) \in [1..Len(cells) -> Cells]
  BY <1>1, <1>2 DEF Write, Cells
<1>4. Write(cells, at, s) \in Seq(Cells) /\ Len(Write(cells, at, s)) = Len(cells)
  BY <1>1, <1>3, FunctionIsSequence
<1> QED BY <1>4, <1>1 DEF Write

(* The bytes of a range are a sequence of the bytes, and how many there    *)
(* are.                                                                    *)
LEMMA CutBytes ==
  ASSUME NEW s \in Seq(Bytes), NEW pos \in Nat, NEW len \in Nat
  PROVE  /\ Cut(s, pos, len) \in Seq(Bytes)
         /\ Len(Cut(s, pos, len)) =
              IF pos >= Len(s) THEN 0 ELSE IF len < Len(s) - pos THEN len ELSE Len(s) - pos
<1> DEFINE n == IF pos >= Len(s) THEN 0 ELSE IF len < Len(s) - pos THEN len ELSE Len(s) - pos
<1>1. Len(s) \in Nat /\ n \in Nat /\ (n > 0 => pos + n <= Len(s))
  OBVIOUS
<1>2. ASSUME NEW i \in 1..n PROVE s[pos + i] \in Bytes
  <2>1. pos + i \in 1..Len(s)
    BY <1>1, <1>2
  <2> QED BY <2>1
<1>3. Cut(s, pos, len) \in [1..n -> Bytes]
  BY <1>2 DEF Cut
<1> QED BY <1>1, <1>3, FunctionIsSequence

(* What an object shows is a sequence of bytes, of the object's length     *)
(* when it has a block.                                                    *)
LEMMA ViewBytes ==
  ASSUME Inv, NEW o \in objects
  PROVE  /\ View(o) \in Seq(Bytes)
         /\ Len(View(o)) = IF rawData[o] = Null THEN 0 ELSE length[o]
         /\ Len(View(o)) \in 0..length[o]
<1> DEFINE n == IF rawData[o] = Null THEN 0 ELSE length[o]
<1>1. n \in Nat /\ length[o] \in Nat
  BY BufferAssumption DEF Inv, TypeOK
<1>2. View(o) \in [1..n -> Bytes]
  BY DEF View, Inv, Written
<1> QED BY <1>1, <1>2, FunctionIsSequence

(* Giving an object a block that is its own or fresh, with bytes that are  *)
(* written as far as its length goes, keeps the account.                   *)
LEMMA SetBlockKeeps ==
  ASSUME Inv, NEW o \in Objects,
         NEW b \in (Blocks \ live) \cup ({rawData[o]} \ {Null}),
         NEW cells \in Seq(Cells), NEW len \in 0..MaxSize,
         Len(cells) <= MaxCapacity, len <= Len(cells),
         \A i \in 1..len : cells[i] \in Bytes,
         SetBlock(o, b, cells, len)
  PROVE  Inv'
<1> USE DEF Inv, SetBlock
<1>1. b \in Blocks /\ b # Null /\ Len(cells) \in 0..MaxCapacity
  <2>1. Len(cells) \in Nat
    OBVIOUS
  <2> QED BY <2>1, BufferAssumption DEF TypeOK, MaxCapacity
<1>2. TypeOK'
  <2>1. UNCHANGED <<crashed, moveAssigned>> /\ crashed' \in BOOLEAN /\ moveAssigned' \in BOOLEAN
    BY DEF TypeOK
  <2>2. heap' \in [Blocks -> Seq(Cells)]
    BY DEF TypeOK
  <2>3. capacity' \in [Objects -> 0..MaxCapacity] /\ length' \in [Objects -> 0..MaxSize]
    BY <1>1 DEF TypeOK, MaxCapacity
  <2>4. objects' \subseteq Objects /\ rawData' \in [Objects -> Blocks \cup {Null}] /\ live' \subseteq Blocks
    BY <1>1 DEF TypeOK
  <2> QED BY <2>1, <2>2, <2>3, <2>4 DEF TypeOK, MaxCapacity
<1>3. Ownership'
  <2>1. \A p \in objects : p # o => rawData[p] # b
    BY <1>1 DEF Ownership, TypeOK
  <2>2. \A p \in objects : p # o /\ rawData[p] # Null => rawData[p] # rawData[o]
    BY DEF Ownership, TypeOK
  <2>3. \A p \in objects' : rawData'[p] # Null =>
          /\ rawData'[p] \in live'
          /\ Len(heap'[rawData'[p]]) = capacity'[p]
          /\ length'[p] <= capacity'[p]
    <3> SUFFICES ASSUME NEW p \in objects', rawData'[p] # Null
                 PROVE  /\ rawData'[p] \in live'
                        /\ Len(heap'[rawData'[p]]) = capacity'[p]
                        /\ length'[p] <= capacity'[p]
      OBVIOUS
    <3>1. CASE p = o
      BY <1>1, <3>1 DEF TypeOK
    <3>2. CASE p # o
      BY <1>1, <2>1, <2>2, <3>2 DEF TypeOK, Ownership
    <3> QED BY <3>1, <3>2
  <2>4. \A p \in Objects \ objects' : rawData'[p] = Null
    BY DEF TypeOK, Ownership
  <2>5. \A p, q \in objects' : rawData'[p] = rawData'[q] /\ rawData'[p] # Null => p = q
    BY <2>1 DEF TypeOK, Ownership
  <2>6. \A x \in live' : \E p \in objects' : rawData'[p] = x
    BY <1>1 DEF TypeOK, Ownership
  <2> QED BY <2>3, <2>4, <2>5, <2>6 DEF Ownership
<1>4. Written'
  <2>1. \A p \in objects : p # o /\ rawData[p] # Null => rawData[p] # b /\ rawData[p] # rawData[o]
    BY <1>1 DEF Ownership, TypeOK
  <2> QED BY <1>1, <2>1 DEF TypeOK, Written, Ownership
<1>5. AbsentEmpty'
  BY DEF TypeOK, AbsentEmpty
<1>6. StaleOnlyByMoveAssign'
  <2>1. crashed' = crashed /\ moveAssigned' = moveAssigned
    OBVIOUS
  <2>2. \A p \in Objects : rawData'[p] = Null => rawData[p] = Null /\ length'[p] = length[p] /\ capacity'[p] = capacity[p]
    BY <1>1 DEF TypeOK
  <2> QED BY <2>1, <2>2 DEF StaleOnlyByMoveAssign
<1> QED BY <1>2, <1>3, <1>4, <1>5, <1>6

(* What the object shows then are those bytes, and no other object has a   *)
(* block of its own changed.                                               *)
LEMMA SetBlockShows ==
  ASSUME Inv, NEW o \in Objects,
         NEW b \in (Blocks \ live) \cup ({rawData[o]} \ {Null}),
         NEW cells, NEW len \in 0..MaxSize,
         SetBlock(o, b, cells, len)
  PROVE  View(o)' = [i \in 1..len |-> cells[i]] /\ OthersKept(o)
<1> USE DEF Inv, SetBlock
<1>1. b \in Blocks /\ b # Null
  BY BufferAssumption DEF TypeOK
<1>2. rawData'[o] = b /\ length'[o] = len /\ heap'[b] = cells
  BY <1>1 DEF TypeOK
<1>3. View(o)' = [i \in 1..len |-> cells[i]]
  BY <1>1, <1>2 DEF View
<1>4. ASSUME NEW q \in Objects \ {o} PROVE View(q)' = View(q)
  <2>1. rawData'[q] = rawData[q] /\ length'[q] = length[q]
    BY DEF TypeOK
  <2>2. CASE rawData[q] = Null
    BY <2>1, <2>2 DEF View
  <2>3. CASE rawData[q] # Null
    <3>1. q \in objects /\ rawData[q] \in live /\ rawData[q] \in Blocks
      BY <2>3 DEF TypeOK, Ownership
    <3>2. rawData[q] # b /\ rawData[q] # rawData[o]
      BY <2>3, <3>1 DEF TypeOK, Ownership
    <3>3. heap'[rawData[q]] = heap[rawData[q]]
      BY <3>1, <3>2
    <3> QED BY <2>1, <3>3 DEF View
  <2> QED BY <2>2, <2>3
<1> QED BY <1>3, <1>4 DEF OthersKept

(* The object o is given s to show, in a block with room for it.           *)
Replaces(o, s) ==
  \E b \in (Blocks \ live) \cup ({rawData[o]} \ {Null}), cells \in Seq(Cells) :
    /\ SetBlock(o, b, cells, Len(s))
    /\ Len(cells) <= MaxCapacity
    /\ Len(s) \in 0..MaxSize /\ Len(s) <= Len(cells)
    /\ \A i \in 1..Len(s) : cells[i] = s[i]

LEMMA ReplacesShows ==
  ASSUME Inv, NEW o \in Objects, NEW s \in Seq(Bytes), Replaces(o, s)
  PROVE  Inv' /\ View(o)' = s /\ OthersKept(o)
<1>1. PICK b \in (Blocks \ live) \cup ({rawData[o]} \ {Null}), cells \in Seq(Cells) :
        /\ SetBlock(o, b, cells, Len(s))
        /\ Len(cells) <= MaxCapacity
        /\ Len(s) \in 0..MaxSize /\ Len(s) <= Len(cells)
        /\ \A i \in 1..Len(s) : cells[i] = s[i]
  BY DEF Replaces
<1>2. \A i \in 1..Len(s) : cells[i] \in Bytes
  BY <1>1
<1>3. Inv'
  BY <1>1, <1>2, SetBlockKeeps
<1>4. View(o)' = [i \in 1..Len(s) |-> cells[i]] /\ OthersKept(o)
  BY <1>1, SetBlockShows
<1>5. [i \in 1..Len(s) |-> cells[i]] = s
  BY <1>1
<1> QED BY <1>3, <1>4, <1>5

(* So does taking the block from an object and deleting it.                *)
LEMMA ClearKeeps ==
  ASSUME Inv, NEW o \in objects, Clear(o),
         objects' = objects \/ objects' = objects \ {o}
  PROVE  Inv'
<1> USE DEF Inv, Clear
<1>0. o \in Objects /\ 0 \in 0..MaxCapacity /\ 0 \in 0..MaxSize
  BY BufferAssumption DEF TypeOK, MaxCapacity
<1>1. TypeOK'
  <2>1. crashed' \in BOOLEAN /\ moveAssigned' \in BOOLEAN
    BY DEF TypeOK
  <2>2. heap' \in [Blocks -> Seq(Cells)]
    BY DEF TypeOK
  <2> QED BY <1>0, <2>1, <2>2 DEF TypeOK, MaxCapacity
<1>2. \A p \in objects : p # o /\ rawData[p] # Null => rawData[p] # rawData[o]
  BY DEF Ownership, TypeOK
<1>3. Ownership'
  <2>1. \A p \in objects' : rawData'[p] # Null =>
          /\ rawData'[p] \in live'
          /\ Len(heap'[rawData'[p]]) = capacity'[p]
          /\ length'[p] <= capacity'[p]
    BY <1>0, <1>2 DEF TypeOK, Ownership
  <2>2. \A p \in Objects \ objects' : rawData'[p] = Null
    BY <1>0 DEF TypeOK, Ownership
  <2>3. \A p, q \in objects' : rawData'[p] = rawData'[q] /\ rawData'[p] # Null => p = q
    BY <1>0 DEF TypeOK, Ownership
  <2>4. \A x \in live' : \E p \in objects' : rawData'[p] = x
    BY <1>0 DEF TypeOK, Ownership
  <2> QED BY <2>1, <2>2, <2>3, <2>4 DEF Ownership
<1>4. Written'
  BY <1>0, <1>2 DEF TypeOK, Written, Ownership
<1>5. AbsentEmpty'
  BY <1>0 DEF TypeOK, AbsentEmpty
<1>6. StaleOnlyByMoveAssign'
  <2>1. crashed' = crashed /\ moveAssigned' = moveAssigned
    OBVIOUS
  <2>2. \A p \in Objects : rawData'[p] = Null =>
          \/ length'[p] = 0 /\ capacity'[p] = 0
          \/ rawData[p] = Null /\ length'[p] = length[p] /\ capacity'[p] = capacity[p]
    BY <1>0 DEF TypeOK
  <2> QED BY <2>1, <2>2 DEF StaleOnlyByMoveAssign
<1> QED BY <1>1, <1>3, <1>4, <1>5, <1>6

(* Reading the null pointer changes nothing else, and has its cause.       *)
LEMMA CrashKeeps ==
  ASSUME Inv, NEW p \in objects, ReadsNull(p), Crash
  PROVE  Inv'
<1> USE DEF Inv, Crash
<1>1. moveAssigned /\ moveAssigned' = moveAssigned
  <2>1. length[p] + capacity[p] > 0
    BY BufferAssumption DEF TypeOK, ReadsNull
  <2> QED BY <2>1 DEF TypeOK, StaleOnlyByMoveAssign, ReadsNull
<1>2. crashed' /\ crashed' \in BOOLEAN /\ moveAssigned' \in BOOLEAN
  BY DEF TypeOK
<1>3. TypeOK'
  BY <1>2 DEF TypeOK
<1>4. Ownership' /\ Written' /\ AbsentEmpty'
  BY DEF Ownership, Written, AbsentEmpty
<1>5. StaleOnlyByMoveAssign'
  BY <1>1 DEF StaleOnlyByMoveAssign
<1> QED BY <1>3, <1>4, <1>5

(* An input is a sequence of bytes of a length that is asked for.          *)
LEMMA InputBytes ==
  ASSUME NEW s \in Inputs
  PROVE  /\ s \in Seq(Bytes) /\ s \in Seq(Cells)
         /\ Len(s) \in Sizes
         /\ \A i \in 1..Len(s) : s[i] \in Bytes
<1>1. PICK n \in Sizes : s \in [1..n -> Bytes]
  BY DEF Inputs
<1>2. n \in Nat /\ s \in [1..n -> Cells]
  BY <1>1, BufferAssumption DEF Sizes, Cells
<1>3. s \in Seq(Bytes) /\ s \in Seq(Cells) /\ Len(s) = n
  BY <1>1, <1>2, FunctionIsSequence
<1> QED BY <1>1, <1>3

(* A new object made of bytes or of a size keeps the account.              *)
LEMMA ConstructKeeps ==
  ASSUME Inv, NEW o \in Objects, Construct(o)
  PROVE  Inv'
<1> USE DEF SetNew
<1>1. CASE ConstructEmpty(o)
  <2> USE <1>1 DEF ConstructEmpty, Inv
  <2>1. crashed' \in BOOLEAN /\ moveAssigned' \in BOOLEAN
    BY DEF TypeOK
  <2>2. TypeOK'
    BY <2>1 DEF TypeOK
  <2>3. rawData[o] = Null /\ length[o] = 0 /\ capacity[o] = 0
    BY DEF AbsentEmpty
  <2>4. Ownership' /\ Written' /\ AbsentEmpty'
    BY <2>3 DEF Ownership, Written, AbsentEmpty
  <2>5. StaleOnlyByMoveAssign'
    BY DEF StaleOnlyByMoveAssign
  <2> QED BY <2>2, <2>4, <2>5
<1>2. ASSUME NEW s \in Inputs, ConstructFrom(o, s) PROVE Inv'
  <2>1. s \in Seq(Cells) /\ Len(s) \in 0..MaxSize /\ \A i \in 1..Len(s) : s[i] \in Bytes
    BY InputBytes DEF Sizes
  <2>2. Len(s) <= MaxCapacity /\ Len(s) <= Len(s)
    BY <2>1, Growth, BufferAssumption
  <2>3. PICK b \in Blocks \ live : SetBlock(o, b, s, Len(s))
    BY <1>2 DEF ConstructFrom
  <2> QED BY <2>1, <2>2, <2>3, SetBlockKeeps
<1>3. ASSUME NEW n \in Sizes, NEW fill \in BOOLEAN, ConstructSized(o, n, fill) PROVE Inv'
  <2> DEFINE cells == IF fill THEN Zeroed(n) ELSE Fresh(n)
  <2>1. n \in Nat /\ n <= MaxCapacity /\ 0 \in 0..MaxSize
    BY Growth, BufferAssumption DEF Sizes
  <2>2. cells \in Seq(Cells) /\ Len(cells) = n
    BY <2>1, FreshBlock
  <2>3. PICK b \in Blocks \ live : SetBlock(o, b, cells, 0)
    BY <1>3 DEF ConstructSized
  <2>4. Len(cells) <= MaxCapacity /\ 0 <= Len(cells) /\ \A i \in 1..0 : cells[i] \in Bytes
    BY <2>1, <2>2
  <2> HIDE DEF cells
  <2> QED BY <2>1, <2>2, <2>3, <2>4, SetBlockKeeps
<1> QED BY <1>1, <1>2, <1>3 DEF Construct

(* Reading the null pointer leaves everything as it is shown.              *)
LEMMA CrashShows ==
  ASSUME NEW o \in Objects, NEW s, Crash
  PROVE  Shows(o, s) /\ OthersKept(o)
  BY DEF Crash, Shows, OthersKept, View

(* What is copied into the front of a fresh block is there.                *)
LEMMA CopiedFront ==
  ASSUME NEW n \in Nat, NEW s \in Seq(Bytes), Len(s) <= n
  PROVE  /\ Write(Fresh(n), 0, s) \in Seq(Cells) /\ Len(Write(Fresh(n), 0, s)) = n
         /\ \A i \in 1..Len(s) : Write(Fresh(n), 0, s)[i] = s[i]
<1> DEFINE fresh == Fresh(n)
<1>1. fresh \in Seq(Cells) /\ Len(fresh) = n /\ 0 \in Nat /\ Len(s) \in Nat
  BY FreshBlock
<1> HIDE DEF fresh
<1>2. /\ Write(fresh, 0, s) \in Seq(Cells) /\ Len(Write(fresh, 0, s)) = n
      /\ \A i \in 1..n :
           Write(fresh, 0, s)[i] = IF 0 < i /\ i <= 0 + Len(s) THEN s[i - 0] ELSE fresh[i]
  BY <1>1, WriteBlock
<1>3. ASSUME NEW i \in 1..Len(s) PROVE Write(fresh, 0, s)[i] = s[i]
  <2>1. i \in 1..n /\ 0 < i /\ i <= 0 + Len(s) /\ i - 0 = i
    BY <1>1
  <2> QED BY <1>2, <2>1
<1> QED BY <1>2, <1>3 DEF fresh

(* A copy has a block of the size of its source and shows what that shows. *)
LEMMA CopyShows ==
  ASSUME Inv, NEW o \in Objects, NEW p \in Objects, CopyConstruct(o, p) \/ CopyAssign(o, p)
  PROVE  Inv' /\ Shows(o, View(p)) /\ OthersKept(o)
<1> DEFINE shown == View(p)
           cells == Write(Fresh(capacity[p]), 0, shown)
<1>1. p \in objects
  BY DEF CopyConstruct, CopyAssign
<1>2. CASE ReadsNull(p)
  <2>1. Crash
    BY <1>2 DEF CopyConstruct, CopyAssign
  <2> QED BY <1>1, <1>2, <2>1, CrashKeeps, CrashShows
<1>3. CASE ~ReadsNull(p)
  <2>1. /\ capacity[p] \in Nat /\ capacity[p] <= MaxCapacity
        /\ length[p] \in 0..MaxSize /\ length[p] \in Nat
    BY BufferAssumption DEF Inv, TypeOK, MaxCapacity
  <2>2. shown \in Seq(Bytes) /\ Len(shown) = length[p]
    BY <1>1, <1>3, <2>1, ViewBytes DEF ReadsNull
  <2>3. length[p] <= capacity[p]
    BY <1>1, <1>3, <2>1 DEF Inv, Ownership, ReadsNull
  <2>4. PICK b \in (Blocks \ live) \cup ({rawData[o]} \ {Null}) :
          SetBlock(o, b, cells, length[p])
    BY <1>3 DEF CopyConstruct, CopyAssign, SetNew
  <2> HIDE DEF shown
  <2>5. /\ cells \in Seq(Cells) /\ Len(cells) = capacity[p]
        /\ \A i \in 1..Len(shown) : cells[i] = shown[i]
    BY <2>1, <2>2, <2>3, CopiedFront
  <2> HIDE DEF cells
  <2>6. Replaces(o, shown)
    BY <2>1, <2>2, <2>3, <2>4, <2>5 DEF Replaces
  <2> QED BY <2>2, <2>6, ReplacesShows DEF Shows, shown
<1> QED BY <1>2, <1>3

(* copy(pos, len) shows the range asked for, as far as there is one.       *)
LEMMA CopyRangeShows ==
  ASSUME Inv, NEW o \in Objects, NEW p \in Objects, NEW pos \in Sizes,
         NEW len \in -1..MaxSize, Copy(o, p, pos, len)
  PROVE  /\ Inv'
         /\ Shows(o, Cut(View(p), pos, IF len < 0 THEN length[p] - pos ELSE len))
         /\ OthersKept(o)
<1> DEFINE m == IF len < 0 THEN length[p] - pos ELSE len
           shown == View(p)
           part == Cut(shown, pos, m)
<1>1. p \in objects /\ length[p] \in 0..MaxSize /\ length[p] \in Nat /\ pos \in Nat
  BY BufferAssumption DEF Copy, Inv, TypeOK, Sizes
<1>2. shown \in Seq(Bytes) /\ Len(shown) = IF rawData[p] = Null THEN 0 ELSE length[p]
  BY <1>1, ViewBytes
<1>3. CASE Empty(p) \/ len = 0 \/ pos >= length[p]
  <2>1. ConstructEmpty(o) /\ Construct(o)
    BY <1>3 DEF Copy, Construct
  <2>2. UNCHANGED <<length, rawData, heap>>
    BY <2>1 DEF ConstructEmpty
  <2>3. OthersKept(o)
    BY <2>2 DEF OthersKept, View
  <2>4. rawData[o] = Null
    BY <2>1 DEF ConstructEmpty, Inv, AbsentEmpty
  <2>5. View(o)' = [i \in 1..0 |-> heap'[rawData'[o]][i]]
    BY <2>2, <2>4 DEF View
  <2>6. pos >= Len(shown) \/ m = 0 \/ Len(shown) = 0
    BY <1>1, <1>2, <1>3 DEF Empty
  <2>7. part = [i \in 1..0 |-> shown[pos + i]]
    <3> HIDE DEF shown, m
    <3>1. (IF pos >= Len(shown) THEN 0 ELSE IF m < Len(shown) - pos THEN m ELSE Len(shown) - pos) = 0
      BY <1>1, <1>2, <2>6
    <3> QED BY <3>1 DEF Cut
  <2>8. View(o)' = part
    BY <2>5, <2>7
  <2> QED BY <2>1, <2>3, <2>8, ConstructKeeps DEF Shows
<1>4. CASE ~(Empty(p) \/ len = 0 \/ pos >= length[p])
  <2>1. m \in Nat
    BY <1>1, <1>4, BufferAssumption
  <2>2. PICK b \in Blocks \ live : SetBlock(o, b, part, Len(part))
    BY <1>4 DEF Copy, SetNew
  <2> HIDE DEF m, shown
  <2>3. /\ part \in Seq(Bytes)
        /\ Len(part) = IF pos >= Len(shown) THEN 0
                       ELSE IF m < Len(shown) - pos THEN m ELSE Len(shown) - pos
    BY <1>1, <1>2, <2>1, CutBytes
  <2>4. Len(part) \in 0..MaxSize
    BY <1>1, <1>2, <2>1, <2>3, BufferAssumption
  <2>5. Len(part) <= MaxCapacity /\ Len(part) <= Len(part)
    BY <2>4, Growth, BufferAssumption
  <2> HIDE DEF part
  <2>6. part \in Seq(Cells)
    BY <2>3 DEF Cells
  <2>7. Replaces(o, part)
    BY <2>2, <2>4, <2>5, <2>6 DEF Replaces
  <2>8. Inv' /\ Shows(o, part) /\ OthersKept(o)
    BY <2>3, <2>7, ReplacesShows DEF Shows
  <2> QED BY <2>8 DEF part, m, shown
<1> QED BY <1>3, <1>4

(* A new object made from another keeps the account.                       *)
LEMMA ConstructOfKeeps ==
  ASSUME Inv, NEW o \in Objects, NEW p \in Objects, ConstructOf(o, p)
  PROVE  Inv'
<1>1. CASE CopyConstruct(o, p)
  BY <1>1, CopyShows
<1>2. CASE MoveConstruct(o, p)
  <2> USE <1>2 DEF MoveConstruct, Inv
  <2>0. o # p /\ 0 \in 0..MaxCapacity /\ 0 \in 0..MaxSize
    BY BufferAssumption DEF TypeOK, MaxCapacity
  <2>1. crashed' \in BOOLEAN /\ moveAssigned' \in BOOLEAN
    BY DEF TypeOK
  <2>2. TypeOK'
    BY <2>0, <2>1 DEF TypeOK, MaxCapacity
  <2>3. rawData[o] = Null /\ length[o] = 0 /\ capacity[o] = 0
    BY DEF AbsentEmpty
  <2>4. Ownership'
    <3>1. \A x \in objects' : rawData'[x] # Null =>
            /\ rawData'[x] \in live'
            /\ Len(heap'[rawData'[x]]) = capacity'[x]
            /\ length'[x] <= capacity'[x]
      BY <2>0, <2>3 DEF Ownership, TypeOK
    <3>2. \A x \in Objects \ objects' : rawData'[x] = Null
      BY <2>0, <2>3 DEF Ownership, TypeOK
    <3>3. \A x, y \in objects' : rawData'[x] = rawData'[y] /\ rawData'[x] # Null => x = y
      BY <2>0, <2>3 DEF Ownership, TypeOK
    <3>4. ASSUME NEW b \in live' PROVE \E x \in objects' : rawData'[x] = b
      <4>1. PICK x \in objects : rawData[x] = b
        BY DEF Ownership
      <4>2. CASE x = p
        BY <2>0, <4>1, <4>2 DEF TypeOK
      <4>3. CASE x # p
        BY <2>0, <4>1, <4>3 DEF TypeOK
      <4> QED BY <4>2, <4>3
    <3> QED BY <3>1, <3>2, <3>3, <3>4 DEF Ownership
  <2>5. Written' /\ AbsentEmpty'
    BY <2>0, <2>3 DEF Written, AbsentEmpty, TypeOK
  <2>6. StaleOnlyByMoveAssign'
    <3>1. \A x \in Objects : rawData'[x] = Null /\ length'[x] + capacity'[x] > 0
            => \E y \in Objects : rawData[y] = Null /\ length[y] + capacity[y] > 0
      BY <2>0 DEF TypeOK
    <3> QED BY <3>1 DEF StaleOnlyByMoveAssign
  <2> QED BY <2>2, <2>4, <2>5, <2>6
<1>3. ASSUME NEW pos \in Sizes, NEW len \in -1..MaxSize, Copy(o, p, pos, len) PROVE Inv'
  BY <1>3, CopyRangeShows
<1> QED BY <1>1, <1>2, <1>3 DEF ConstructOf, DetachData

(* resize() shows as much of what was shown as the new size has room for.  *)
LEMMA ResizeShows ==
  ASSUME Inv, NEW o \in Objects, NEW n \in Sizes, Resize(o, n)
  PROVE  Inv' /\ Shows(o, Cut(View(o), 0, n)) /\ OthersKept(o)
<1> DEFINE shown == View(o)
           kept == Cut(shown, 0, n)
           cells == Write(Fresh(n), 0, kept)
           len == IF n < length[o] THEN n ELSE length[o]
<1>1. /\ o \in objects /\ n \in Nat /\ n <= MaxCapacity /\ 0 \in Nat
      /\ length[o] \in 0..MaxSize /\ length[o] \in Nat
  BY Growth, BufferAssumption DEF Resize, Sizes, Inv, TypeOK
<1>2. CASE ReadsNull(o)
  <2>1. Crash
    BY <1>2 DEF Resize
  <2> QED BY <1>1, <1>2, <2>1, CrashKeeps, CrashShows
<1>3. CASE ~ReadsNull(o)
  <2>1. shown \in Seq(Bytes) /\ Len(shown) = length[o]
    BY <1>1, <1>3, ViewBytes DEF ReadsNull
  <2>2. PICK b \in Blocks \ live : SetBlock(o, b, cells, len)
    BY <1>3 DEF Resize, SetNew
  <2> HIDE DEF shown
  <2>3. /\ kept \in Seq(Bytes)
        /\ Len(kept) = IF 0 >= Len(shown) THEN 0
                       ELSE IF n < Len(shown) - 0 THEN n ELSE Len(shown) - 0
    BY <1>1, <2>1, CutBytes
  <2>4. Len(kept) = len /\ len \in 0..MaxSize /\ len <= n
    BY <1>1, <2>1, <2>3, BufferAssumption
  <2> HIDE DEF kept, len
  <2>5. /\ cells \in Seq(Cells) /\ Len(cells) = n
        /\ \A i \in 1..Len(kept) : cells[i] = kept[i]
    BY <1>1, <2>3, <2>4, CopiedFront
  <2> HIDE DEF cells
  <2>6. Replaces(o, kept)
    BY <1>1, <2>2, <2>4, <2>5 DEF Replaces
  <2>7. Inv' /\ Shows(o, kept) /\ OthersKept(o)
    BY <2>3, <2>6, ReplacesShows DEF Shows
  <2> QED BY <2>7 DEF kept, shown
<1> QED BY <1>2, <1>3

(* A change to one object keeps the account.                               *)
LEMMA ChangeKeeps ==
  ASSUME Inv, NEW o \in Objects, Change(o)
  PROVE  Inv'
<1>1. ASSUME NEW s \in Inputs, ReceiveInto(o, s) PROVE Inv'
  <2> DEFINE block == heap[rawData[o]]
             cells == Write(block, 0, s)
  <2>1. s \in Seq(Bytes) /\ Len(s) \in 0..MaxSize /\ Len(s) \in Nat /\ 0 \in Nat
    BY InputBytes, BufferAssumption DEF Sizes
  <2>2. /\ o \in objects /\ rawData[o] # Null /\ Len(s) <= capacity[o]
        /\ capacity[o] \in 0..MaxCapacity
    BY <1>1, <2>1 DEF ReceiveInto, Inv, TypeOK, MaxCapacity
  <2>7. SetBlock(o, rawData[o], cells, Len(s))
    BY <1>1 DEF ReceiveInto, SetInPlace
  <2>3. block \in Seq(Cells) /\ Len(block) = capacity[o] /\ rawData[o] \in {rawData[o]} \ {Null}
    BY <2>2 DEF Inv, TypeOK, Ownership
  <2> HIDE DEF block
  <2>4. /\ cells \in Seq(Cells) /\ Len(cells) = Len(block)
        /\ \A i \in 1..Len(block) :
              cells[i] = IF 0 < i /\ i <= 0 + Len(s) THEN s[i - 0] ELSE block[i]
    BY <2>1, <2>3, WriteBlock
  <2>5. ASSUME NEW i \in 1..Len(s) PROVE cells[i] \in Bytes
    <3>1. i \in 1..Len(block) /\ 0 < i /\ i <= 0 + Len(s) /\ i - 0 = i
      BY <2>1, <2>2, <2>3
    <3>2. cells[i] = s[i]
      BY <2>4, <3>1
    <3> QED BY <2>1, <3>1, <3>2
  <2>6. Len(cells) <= MaxCapacity /\ Len(s) <= Len(cells)
    BY <2>2, <2>3, <2>4
  <2> HIDE DEF cells
  <2> QED BY <2>1, <2>2, <2>3, <2>4, <2>5, <2>6, <2>7, SetBlockKeeps
<1>2. ASSUME NEW n \in Sizes, Resize(o, n) PROVE Inv'
  BY <1>2, ResizeShows
<1>3. CASE Destroy(o)
  BY <1>3, ClearKeeps DEF Destroy
<1>4. CASE ResetData(o)
  <2> USE <1>4 DEF ResetData, Inv
  <2>1. 0 \in 0..MaxSize /\ capacity[o] \in Nat
    BY BufferAssumption DEF TypeOK
  <2>2. Zeroed(capacity[o]) \in Seq(Cells) /\ Len(Zeroed(capacity[o])) = capacity[o]
    BY <2>1, FreshBlock
  <2>3. TypeOK'
    <3>1. crashed' \in BOOLEAN /\ moveAssigned' \in BOOLEAN
      BY DEF TypeOK
    <3> QED BY <2>1, <2>2, <3>1 DEF TypeOK
  <2>4. Ownership'
    BY <2>1, <2>2 DEF Ownership, TypeOK
  <2>5. Written'
    BY <2>1 DEF Written, Ownership, TypeOK
  <2>6. AbsentEmpty' /\ StaleOnlyByMoveAssign'
    BY <2>1, BufferAssumption DEF AbsentEmpty, StaleOnlyByMoveAssign, TypeOK
  <2> QED BY <2>3, <2>4, <2>5, <2>6
<1>5. CASE Destruct(o)
  BY <1>5, ClearKeeps DEF Destruct
<1> QED BY <1>1, <1>2, <1>3, <1>4, <1>5 DEF Change

(* Move assignment deletes the block of its target and hands over that of  *)
(* its source.                                                             *)
LEMMA MoveAssignKeeps ==
  ASSUME Inv, NEW o \in Objects, NEW p \in Objects, MoveAssign(o, p)
  PROVE  Inv'
<1> USE DEF MoveAssign, Inv
<1>0. o \in objects /\ p \in objects /\ o # p
  OBVIOUS
<1>1. TypeOK'
  <2>1. crashed' \in BOOLEAN
    BY DEF TypeOK
  <2>2. moveAssigned' \in BOOLEAN
    OBVIOUS
  <2>3. heap' \in [Blocks -> Seq(Cells)]
    BY DEF TypeOK
  <2> QED BY <1>0, <2>1, <2>2, <2>3 DEF TypeOK
<1>2. \A x \in objects : x # o /\ rawData[x] # Null => rawData[x] # rawData[o]
  BY <1>0 DEF Ownership
<1>3. Ownership'
  <2>1. ASSUME NEW x \in objects', rawData'[x] # Null
        PROVE  /\ rawData'[x] \in live'
               /\ Len(heap'[rawData'[x]]) = capacity'[x]
               /\ length'[x] <= capacity'[x]
    <3>1. CASE x = o
      <4>1. rawData'[x] = rawData[p] /\ capacity'[x] = capacity[p] /\ length'[x] = length[p]
        BY <1>0, <3>1 DEF TypeOK
      <4>2. rawData[p] \in live /\ rawData[p] # rawData[o] /\ rawData[p] \in Blocks
        BY <1>0, <1>2, <2>1, <4>1 DEF Ownership, TypeOK
      <4>3. heap'[rawData[p]] = heap[rawData[p]]
        BY <4>2
      <4> QED BY <1>0, <2>1, <4>1, <4>2, <4>3 DEF Ownership
    <3>2. CASE x # o
      <4>1. x # p /\ rawData'[x] = rawData[x] /\ capacity'[x] = capacity[x] /\ length'[x] = length[x]
        BY <1>0, <2>1, <3>2 DEF TypeOK
      <4>2. rawData[x] \in live /\ rawData[x] # rawData[o] /\ rawData[x] \in Blocks
        BY <1>0, <1>2, <2>1, <3>2, <4>1 DEF Ownership, TypeOK
      <4>3. heap'[rawData[x]] = heap[rawData[x]]
        BY <4>2
      <4> QED BY <1>0, <2>1, <4>1, <4>2, <4>3 DEF Ownership
    <3> QED BY <3>1, <3>2
  <2>2. \A x \in Objects \ objects' : rawData'[x] = Null
    BY <1>0 DEF Ownership, TypeOK
  <2>3. \A x, y \in objects' : rawData'[x] = rawData'[y] /\ rawData'[x] # Null => x = y
    BY <1>0 DEF Ownership, TypeOK
  <2>4. ASSUME NEW b \in live' PROVE \E x \in objects' : rawData'[x] = b
    <3>1. PICK x \in objects : rawData[x] = b
      BY DEF Ownership
    <3>2. x # o
      BY <3>1
    <3>3. CASE x = p
      BY <1>0, <3>1, <3>3 DEF TypeOK
    <3>4. CASE x # p
      BY <1>0, <3>1, <3>2, <3>4 DEF TypeOK
    <3> QED BY <3>3, <3>4
  <2> QED BY <2>1, <2>2, <2>3, <2>4 DEF Ownership
<1>4. Written'
  <2> SUFFICES ASSUME NEW x \in objects', rawData'[x] # Null, NEW i \in 1..length'[x]
               PROVE  heap'[rawData'[x]][i] \in Bytes
    BY DEF Written
  <2>1. CASE x = o
    <3>1. rawData'[x] = rawData[p] /\ length'[x] = length[p]
      BY <1>0, <2>1 DEF TypeOK
    <3>2. heap'[rawData[p]] = heap[rawData[p]]
      BY <1>0, <1>2, <3>1 DEF TypeOK
    <3> QED BY <1>0, <3>1, <3>2 DEF Written
  <2>2. CASE x # o
    <3>1. x # p /\ rawData'[x] = rawData[x] /\ length'[x] = length[x]
      BY <1>0, <2>2 DEF TypeOK
    <3>2. heap'[rawData[x]] = heap[rawData[x]]
      BY <1>0, <1>2, <2>2, <3>1 DEF TypeOK
    <3> QED BY <1>0, <3>1, <3>2 DEF Written
  <2> QED BY <2>1, <2>2
<1>5. AbsentEmpty'
  BY <1>0 DEF AbsentEmpty, TypeOK
<1>6. StaleOnlyByMoveAssign'
  BY DEF StaleOnlyByMoveAssign
<1> QED BY <1>1, <1>3, <1>4, <1>5, <1>6

(* Appending to a block that starts with what the object showed. *)
LEMMA AppendedBlock ==
  ASSUME NEW block \in Seq(Cells), NEW old \in Seq(Bytes), NEW added \in Seq(Bytes),
         Len(old) + Len(added) <= Len(block),
         \A i \in 1..Len(old) : block[i] = old[i]
  PROVE  /\ Write(block, Len(old), added) \in Seq(Cells)
         /\ Len(Write(block, Len(old), added)) = Len(block)
         /\ \A i \in 1..Len(old \o added) :
              Write(block, Len(old), added)[i] = (old \o added)[i]
<1>1. Len(old) \in Nat /\ Len(added) \in Nat /\ Len(block) \in Nat
      /\ Len(old \o added) = Len(old) + Len(added)
  OBVIOUS
<1>2. /\ Write(block, Len(old), added) \in Seq(Cells)
      /\ Len(Write(block, Len(old), added)) = Len(block)
      /\ \A i \in 1..Len(block) :
           Write(block, Len(old), added)[i] =
             IF Len(old) < i /\ i <= Len(old) + Len(added) THEN added[i - Len(old)] ELSE block[i]
  BY <1>1, WriteBlock
<1>3. ASSUME NEW i \in 1..Len(old \o added)
      PROVE  Write(block, Len(old), added)[i] = (old \o added)[i]
  <2>1. i \in 1..Len(block) /\ i <= Len(old) + Len(added)
    BY <1>1
  <2>2. (old \o added)[i] = IF i <= Len(old) THEN old[i] ELSE added[i - Len(old)]
    BY <1>1
  <2>3. CASE Len(old) < i
    BY <1>1, <1>2, <2>1, <2>2, <2>3
  <2>4. CASE ~(Len(old) < i)
    <3>1. i \in 1..Len(old)
      BY <1>1, <2>4
    <3> QED BY <1>2, <2>1, <2>2, <2>4, <3>1
  <2> QED BY <2>3, <2>4
<1> QED BY <1>2, <1>3

(* append() shows the two one after the other, onto the object itself too. *)
LEMMA AppendShows ==
  ASSUME Inv, NEW o \in Objects, NEW p \in Objects, AppendData(o, p)
  PROVE  Inv' /\ Shows(o, View(o) \o View(p)) /\ OthersKept(o)
<1> DEFINE old == View(o)
           more == View(p)
           room == IF rawData[o] = Null THEN 0 ELSE capacity[o]
           added == IF o = p THEN Len(old) ELSE length[p]
           expectLength == Len(old) + added
           larger == (3 * expectLength) \div 2
           start == Write(Fresh(larger), 0, old)
<1>1. /\ o \in objects /\ p \in objects
      /\ length[o] \in Nat /\ length[p] \in Nat /\ capacity[o] \in Nat
      /\ capacity[o] <= MaxCapacity
  BY Growth, BufferAssumption DEF AppendData, Inv, TypeOK, MaxCapacity
<1>2. /\ old \in Seq(Bytes) /\ Len(old) = (IF rawData[o] = Null THEN 0 ELSE length[o])
      /\ more \in Seq(Bytes) /\ Len(more) = (IF rawData[p] = Null THEN 0 ELSE length[p])
  BY <1>1, ViewBytes
<1>3. CASE o # p /\ ReadsNull(p)
  <2>1. Crash
    BY <1>3 DEF AppendData
  <2> QED BY <1>1, <1>3, <2>1, CrashKeeps, CrashShows
<1>4. CASE ~(o # p /\ ReadsNull(p))
  <2>1. added = Len(more) /\ expectLength \in Nat /\ expectLength <= MaxSize
    <3>1. added = Len(more)
      <4>1. CASE o = p
        BY <4>1
      <4>2. CASE o # p
        BY <1>1, <1>2, <1>4, <4>2 DEF ReadsNull
      <4> QED BY <4>1, <4>2
    <3>2. expectLength <= MaxSize
      BY DEF AppendData
    <3>3. Len(old) \in Nat /\ Len(more) \in Nat
      BY <1>2
    <3> QED BY <3>1, <3>2, <3>3
  <2>2. expectLength \in 0..MaxSize
    BY <2>1, BufferAssumption
  <2>3. CASE room < expectLength
    <3>1. larger \in Nat /\ expectLength <= larger /\ larger <= MaxCapacity
      BY <2>2, Growth
    <3>2. PICK b \in Blocks \ live :
            SetBlock(o, b, Write(start, Len(old), more), expectLength)
      BY <1>4, <2>3 DEF AppendData, SetNew
    <3> HIDE DEF old, more, larger
    <3>3. Len(old) \in Nat /\ Len(more) \in Nat /\ Len(old) + Len(more) <= larger
      BY <1>2, <2>1, <3>1
    <3>4. /\ start \in Seq(Cells) /\ Len(start) = larger
          /\ \A i \in 1..Len(old) : start[i] = old[i]
      BY <1>2, <3>1, <3>3, CopiedFront
    <3> HIDE DEF start
    <3>5. /\ Write(start, Len(old), more) \in Seq(Cells)
          /\ Len(Write(start, Len(old), more)) = larger
          /\ \A i \in 1..Len(old \o more) :
               Write(start, Len(old), more)[i] = (old \o more)[i]
      BY <1>2, <3>3, <3>4, AppendedBlock
    <3>6. old \o more \in Seq(Bytes) /\ Len(old \o more) = expectLength
      BY <1>2, <2>1
    <3> HIDE DEF expectLength
    <3>7. Replaces(o, old \o more)
      BY <2>2, <3>1, <3>2, <3>5, <3>6 DEF Replaces
    <3>8. Inv' /\ Shows(o, old \o more) /\ OthersKept(o)
      BY <3>6, <3>7, ReplacesShows DEF Shows
    <3> QED BY <3>8 DEF old, more
  <2>4. CASE ~(room < expectLength) /\ rawData[o] = Null
    <3>1. /\ capacity' = [capacity EXCEPT ![o] = 0]
          /\ length' = [length EXCEPT ![o] = 0]
          /\ UNCHANGED <<objects, rawData, live, heap, crashed, moveAssigned>>
      BY <1>4, <2>4 DEF AppendData
    <3>2. live \ {rawData[o]} = live /\ heap = [x \in Blocks |-> IF x = rawData[o] THEN <<>> ELSE heap[x]]
      <4>1. \A x \in Blocks : x # rawData[o]
        BY <2>4, BufferAssumption
      <4>2. live \ {rawData[o]} = live
        BY <4>1 DEF Inv, TypeOK
      <4>3. heap \in [Blocks -> Seq(Cells)]
        BY DEF Inv, TypeOK
      <4>4. heap = [x \in Blocks |-> heap[x]]
        BY <4>3
      <4>5. [x \in Blocks |-> heap[x]] =
              [x \in Blocks |-> IF x = rawData[o] THEN <<>> ELSE heap[x]]
        BY <4>1
      <4> QED BY <4>2, <4>4, <4>5
    <3>3. Clear(o) /\ objects' = objects
      <4>1. rawData' = [rawData EXCEPT ![o] = Null]
        BY <2>4, <3>1 DEF Inv, TypeOK
      <4> QED BY <3>1, <3>2, <4>1 DEF Clear
    <3>4. old \o more = <<>>
      <4> HIDE DEF old, more
      <4>1. Len(old) = 0 /\ Len(more) = 0
        BY <1>2, <2>1, <2>4
      <4> QED BY <1>2, <4>1
    <3>5. View(o)' = <<>>
      BY <2>4, <3>1 DEF View
    <3>6. OthersKept(o)
      BY <3>1 DEF OthersKept, View, Inv, TypeOK
    <3> QED BY <1>1, <3>3, <3>4, <3>5, <3>6, ClearKeeps DEF Shows
  <2>5. CASE ~(room < expectLength) /\ rawData[o] # Null
    <3> DEFINE block == heap[rawData[o]]
    <3>1. SetBlock(o, rawData[o], Write(block, Len(old), more), expectLength)
      BY <1>4, <2>5 DEF AppendData, SetInPlace
    <3>2. block \in Seq(Cells) /\ Len(block) = capacity[o] /\ rawData[o] \in {rawData[o]} \ {Null}
      BY <1>1, <2>5 DEF Inv, TypeOK, Ownership
    <3>3. \A i \in 1..Len(old) : block[i] = old[i]
      BY <1>1, <1>2, <2>5 DEF View
    <3>4. expectLength <= Len(block) /\ expectLength = Len(old) + Len(more)
      BY <1>1, <2>1, <2>5, <3>2
    <3> HIDE DEF block, old, more
    <3>5. /\ Write(block, Len(old), more) \in Seq(Cells)
          /\ Len(Write(block, Len(old), more)) = Len(block)
          /\ \A i \in 1..Len(old \o more) :
               Write(block, Len(old), more)[i] = (old \o more)[i]
      BY <1>2, <3>2, <3>3, <3>4, AppendedBlock
    <3>6. old \o more \in Seq(Bytes) /\ Len(old \o more) = expectLength
      BY <1>2, <3>4
    <3> HIDE DEF expectLength
    <3>7. Replaces(o, old \o more)
      BY <1>1, <2>2, <3>1, <3>2, <3>4, <3>5, <3>6 DEF Replaces
    <3>8. Inv' /\ Shows(o, old \o more) /\ OthersKept(o)
      BY <3>6, <3>7, ReplacesShows DEF Shows
    <3> QED BY <3>8 DEF old, more
  <2> QED BY <2>3, <2>4, <2>5
<1> QED BY <1>3, <1>4

(* Operations of two objects keep the account.                             *)
LEMMA CombineKeeps ==
  ASSUME Inv, NEW o \in Objects, NEW p \in Objects, Combine(o, p)
  PROVE  Inv'
  BY CopyShows, MoveAssignKeeps, AppendShows DEF Combine

(* Moving hands the bytes over, by construction or by assignment.          *)
LEMMA MoveShows ==
  ASSUME Inv, NEW o \in Objects, NEW p \in Objects, MoveConstruct(o, p) \/ MoveAssign(o, p)
  PROVE  MovesShow(o, p)
<1>1. /\ o # p /\ p \in objects
      /\ rawData' = [rawData EXCEPT ![o] = rawData[p], ![p] = Null]
      /\ length'[o] = length[p]
      /\ \A q \in Objects \ {o, p} : length'[q] = length[q]
  BY DEF MoveConstruct, MoveAssign, Inv, TypeOK
<1>2. /\ rawData'[o] = rawData[p] /\ rawData'[p] = Null
      /\ \A q \in Objects \ {o, p} : rawData'[q] = rawData[q]
  BY <1>1 DEF Inv, TypeOK
<1>3. ASSUME NEW q \in Objects, q # o, rawData[q] # Null
      PROVE  heap'[rawData[q]] = heap[rawData[q]]
  <2>1. q \in objects /\ rawData[q] \in Blocks
    BY <1>3 DEF Inv, Ownership, TypeOK
  <2>2. CASE MoveConstruct(o, p)
    BY <2>2 DEF MoveConstruct
  <2>3. CASE MoveAssign(o, p)
    <3>1. o \in objects
      BY <2>3 DEF MoveAssign
    <3>2. rawData[q] # rawData[o]
      BY <1>3, <2>1, <3>1 DEF Inv, Ownership
    <3> QED BY <2>1, <2>3, <3>2 DEF MoveAssign
  <2> QED BY <2>2, <2>3
<1>4. View(o)' = View(p)
  <2>1. CASE rawData[p] = Null
    BY <1>2, <2>1 DEF View
  <2>2. CASE rawData[p] # Null
    <3>1. heap'[rawData[p]] = heap[rawData[p]]
      BY <1>1, <1>3, <2>2
    <3>2. rawData'[o] = rawData[p] /\ length'[o] = length[p]
      BY <1>1, <1>2
    <3> QED BY <3>1, <3>2 DEF View
  <2> QED BY <2>1, <2>2
<1>5. View(p)' = <<>>
  BY <1>2 DEF View
<1>6. ASSUME NEW q \in Objects \ {o, p} PROVE View(q)' = View(q)
  <2>1. rawData'[q] = rawData[q] /\ length'[q] = length[q]
    BY <1>1, <1>2
  <2>2. CASE rawData[q] = Null
    BY <2>1, <2>2 DEF View
  <2>3. CASE rawData[q] # Null
    <3>1. heap'[rawData[q]] = heap[rawData[q]]
      BY <1>3, <2>3
    <3> QED BY <2>1, <3>1 DEF View
  <2> QED BY <2>2, <2>3
<1> QED BY <1>4, <1>5, <1>6 DEF MovesShow, Shows

(* There is nothing when the program starts.                               *)
LEMMA BufferInit == Init => Inv
<1> SUFFICES ASSUME Init PROVE Inv
  OBVIOUS
<1>1. TypeOK
  <2>1. crashed \in BOOLEAN /\ moveAssigned \in BOOLEAN
    BY DEF Init
  <2>2. 0 \in 0..((3 * MaxSize) \div 2) /\ 0 \in 0..MaxSize
    BY Growth, BufferAssumption DEF MaxCapacity
  <2> QED BY <2>1, <2>2 DEF Init, TypeOK
<1>2. Ownership /\ Written /\ AbsentEmpty
  BY DEF Init, Ownership, Written, AbsentEmpty
<1>3. StaleOnlyByMoveAssign
  BY DEF Init, StaleOnlyByMoveAssign
<1> QED BY <1>1, <1>2, <1>3 DEF Inv

(* The account holds throughout.                                           *)
LEMMA BufferInvariant == Spec => []Inv
<1>1. Inv /\ [Next]_vars => Inv'
  <2> SUFFICES ASSUME Inv, [Next]_vars PROVE Inv'
    OBVIOUS
  <2>1. CASE UNCHANGED vars
    BY <2>1 DEF vars, Inv, TypeOK, Ownership, Written, AbsentEmpty, StaleOnlyByMoveAssign
  <2>2. CASE Next
    BY <2>2, ConstructKeeps, ConstructOfKeeps, ChangeKeeps, CombineKeeps DEF Next
  <2> QED BY <2>1, <2>2
<1> QED BY <1>1, BufferInit, PTL DEF Spec

(* Every variable keeps its type, and no block is larger than half as much *)
(* again as was asked for.                                                 *)
THEOREM TypeCorrect == Spec => []TypeOK
<1>1. Inv => TypeOK
  BY DEF Inv
<1> QED BY <1>1, BufferInvariant, PTL

(* Every block has exactly one owner, who knows its size.                  *)
THEOREM BlocksOwned == Spec => []Ownership
<1>1. Inv => Ownership
  BY DEF Inv
<1> QED BY <1>1, BufferInvariant, PTL

(* No object shows a byte that nobody wrote.                               *)
THEOREM NothingUninitialised == Spec => []NoGarbage
<1>1. Inv => NoGarbage
  <2> SUFFICES ASSUME Inv, NEW o \in objects, NEW i \in 1..Len(View(o))
               PROVE  View(o)[i] # Garbage
    BY DEF NoGarbage
  <2>1. View(o) \in Seq(Bytes)
    BY ViewBytes
  <2>2. View(o)[i] \in Bytes
    BY <2>1
  <2> QED BY <2>2, BufferAssumption
<1> QED BY <1>1, BufferInvariant, PTL

(* A length without a block, and so a read of the null pointer, comes from *)
(* move assignment alone.                                                  *)
THEOREM OnlyMoveAssignLeavesStale == Spec => []StaleOnlyByMoveAssign
<1>1. Inv => StaleOnlyByMoveAssign
  BY DEF Inv
<1> QED BY <1>1, BufferInvariant, PTL

(* What the application sees of each operation is what it says, whatever   *)
(* blocks lie behind it: a copy or a move shows the bytes of its source,   *)
(* copy(pos, len) the range asked for, append() the two one after the      *)
(* other, resize() a prefix, and nothing else changes.                     *)
THEOREM OperationsShowTheirBytes == Spec => OperationsShow
<1> DEFINE Said ==
      \A o, p \in Objects :
        /\ CopyConstruct(o, p) \/ CopyAssign(o, p) => Shows(o, View(p)) /\ OthersKept(o)
        /\ MoveConstruct(o, p) \/ MoveAssign(o, p) => MovesShow(o, p)
        /\ AppendData(o, p) => Shows(o, View(o) \o View(p)) /\ OthersKept(o)
        /\ \A pos \in Sizes, len \in Sizes :
             Copy(o, p, pos, len) => Shows(o, Cut(View(p), pos, len)) /\ OthersKept(o)
        /\ \A n \in Sizes : Resize(o, n) => Shows(o, Cut(View(o), 0, n)) /\ OthersKept(o)
<1>1. ASSUME Inv PROVE Said
  <2> SUFFICES ASSUME NEW o \in Objects, NEW p \in Objects
               PROVE  /\ CopyConstruct(o, p) \/ CopyAssign(o, p)
                           => Shows(o, View(p)) /\ OthersKept(o)
                      /\ MoveConstruct(o, p) \/ MoveAssign(o, p) => MovesShow(o, p)
                      /\ AppendData(o, p) => Shows(o, View(o) \o View(p)) /\ OthersKept(o)
                      /\ \A pos \in Sizes, len \in Sizes :
                           Copy(o, p, pos, len)
                             => Shows(o, Cut(View(p), pos, len)) /\ OthersKept(o)
                      /\ \A n \in Sizes :
                           Resize(o, n) => Shows(o, Cut(View(o), 0, n)) /\ OthersKept(o)
    OBVIOUS
  <2>1. ASSUME NEW pos \in Sizes, NEW len \in Sizes, Copy(o, p, pos, len)
        PROVE  Shows(o, Cut(View(p), pos, len)) /\ OthersKept(o)
    <3>1. len \in -1..MaxSize /\ ~(len < 0)
      BY BufferAssumption DEF Sizes
    <3> QED BY <1>1, <2>1, <3>1, CopyRangeShows
  <2>2. \A n \in Sizes : Resize(o, n) => Shows(o, Cut(View(o), 0, n)) /\ OthersKept(o)
    BY <1>1, ResizeShows
  <2>3. CopyConstruct(o, p) \/ CopyAssign(o, p) => Shows(o, View(p)) /\ OthersKept(o)
    BY <1>1, CopyShows
  <2>4. MoveConstruct(o, p) \/ MoveAssign(o, p) => MovesShow(o, p)
    BY <1>1, MoveShows
  <2>5. AppendData(o, p) => Shows(o, View(o) \o View(p)) /\ OthersKept(o)
    BY <1>1, AppendShows
  <2> QED BY <2>1, <2>2, <2>3, <2>4, <2>5
<1>2. Inv => [Said]_vars
  BY <1>1
<1> QED BY <1>2, BufferInvariant, PTL DEF OperationsShow
=============================================================================
