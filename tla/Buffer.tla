------------------------------- MODULE Buffer -------------------------------
(***************************************************************************)
(* struct Data of Data.hpp: a byte buffer that owns a block of the heap    *)
(* through a raw pointer, with its constructors, assignments and           *)
(* operations. The heap is explicit, so that what new uint8_t[n] leaves    *)
(* uninitialised, and who has to delete a block, can be told.              *)
(***************************************************************************)
EXTENDS Integers, Sequences

CONSTANTS
  Objects,  \* the places for a Data: stack variables, unique_ptrs
  Blocks,   \* addresses new can return
  Null,     \* nullptr
  Bytes,    \* bytes an application or a peer provides
  MaxSize   \* bound: a length or size that is asked for

Zero == "zero"
Garbage == "garbage"

ASSUME BufferAssumption ==
  /\ Null \notin Blocks
  /\ Zero \in Bytes
  /\ Garbage \notin Bytes
  /\ MaxSize \in Nat

VARIABLES
  objects,       \* the objects that exist
  capacity, length, rawData,  \* the members of each
  live,          \* the blocks allocated and not deleted
  heap,          \* the bytes of each block
  crashed,       \* the null pointer was read
  moveAssigned   \* history: an object was emptied by move assignment

vars == <<objects, capacity, length, rawData, live, heap, crashed, moveAssigned>>

Cells == Bytes \cup {Garbage}

Init ==
  /\ objects = {}
  /\ capacity = [o \in Objects |-> 0]
  /\ length = [o \in Objects |-> 0]
  /\ rawData = [o \in Objects |-> Null]
  /\ live = {}
  /\ heap = [b \in Blocks |-> <<>>]
  /\ crashed = FALSE
  /\ moveAssigned = FALSE

-----------------------------------------------------------------------------
(* new uint8_t[n], std::fill_n(p, n, 0) and std::copy to a position *)
Fresh(n) == [i \in 1..n |-> Garbage]
Zeroed(n) == [i \in 1..n |-> Zero]
Write(cells, at, s) ==
  [i \in 1..Len(cells) |-> IF at < i /\ i <= at + Len(s) THEN s[i - at] ELSE cells[i]]

(* view(): nothing of a null pointer, else the first length bytes *)
View(o) == [i \in 1..(IF rawData[o] = Null THEN 0 ELSE length[o]) |-> heap[rawData[o]][i]]

(* empty() *)
Empty(o) == rawData[o] = Null \/ length[o] = 0

(* The len bytes of s from pos on, or what there is of them. *)
Cut(s, pos, len) ==
  [i \in 1..(IF pos >= Len(s) THEN 0 ELSE IF len < Len(s) - pos THEN len ELSE Len(s) - pos)
     |-> s[pos + i]]

(* Reading data.length bytes from rawData of an object: the null pointer,  *)
(* when there is something to read. The program does not go on.            *)
ReadsNull(o) == rawData[o] = Null /\ length[o] > 0
Crash ==
  /\ crashed' = TRUE
  /\ UNCHANGED <<objects, capacity, length, rawData, live, heap, moveAssigned>>

(* Object o gets a new block with the given bytes, or keeps its block and  *)
(* has its bytes changed; the block it had otherwise is deleted.           *)
SetBlock(o, b, cells, len) ==
  /\ objects' = objects \cup {o}
  /\ rawData' = [rawData EXCEPT ![o] = b]
  /\ capacity' = [capacity EXCEPT ![o] = Len(cells)]
  /\ length' = [length EXCEPT ![o] = len]
  /\ live' = (live \ {rawData[o]}) \cup {b}
  /\ heap' = [x \in Blocks |->
                IF x = b THEN cells ELSE IF x = rawData[o] THEN <<>> ELSE heap[x]]
  /\ UNCHANGED <<crashed, moveAssigned>>

SetNew(o, cells, len) == \E b \in Blocks \ live : SetBlock(o, b, cells, len)
SetInPlace(o, cells, len) == SetBlock(o, rawData[o], cells, len)

(* destroy() *)
Clear(o) ==
  /\ rawData' = [rawData EXCEPT ![o] = Null]
  /\ capacity' = [capacity EXCEPT ![o] = 0]
  /\ length' = [length EXCEPT ![o] = 0]
  /\ live' = live \ {rawData[o]}
  /\ heap' = [x \in Blocks |-> IF x = rawData[o] THEN <<>> ELSE heap[x]]
  /\ UNCHANGED <<crashed, moveAssigned>>

-----------------------------------------------------------------------------
(* Constructors and destructor *)

ConstructEmpty(o) ==
  /\ o \notin objects
  /\ objects' = objects \cup {o}
  /\ UNCHANGED <<capacity, length, rawData, live, heap, crashed, moveAssigned>>

(* Data(size, data), and from a std::string *)
ConstructFrom(o, s) ==
  /\ o \notin objects
  /\ SetNew(o, s, Len(s))

(* Data(size), filled with 0, and Data(size, func), left to func: both     *)
(* leave length at 0.                                                      *)
ConstructSized(o, n, fill) ==
  /\ o \notin objects
  /\ SetNew(o, IF fill THEN Zeroed(n) ELSE Fresh(n), 0)

(* PlainSocket::receive and SSLManager::read: the peer's bytes into the    *)
(* block, and length set to their number.                                  *)
ReceiveInto(o, s) ==
  /\ o \in objects /\ rawData[o] # Null
  /\ Len(s) \in 1..capacity[o]
  /\ SetInPlace(o, Write(heap[rawData[o]], 0, s), Len(s))

CopyConstruct(o, p) ==
  /\ o \notin objects /\ p \in objects
  /\ IF ReadsNull(p) THEN Crash
     ELSE SetNew(o, Write(Fresh(capacity[p]), 0, View(p)), length[p])

(* Mutant of MoveConstruct: the lengths of the source are not reset.       *)
MoveConstructStale(o, p) ==
  /\ o \notin objects /\ p \in objects
  /\ objects' = objects \cup {o}
  /\ rawData' = [rawData EXCEPT ![o] = rawData[p], ![p] = Null]
  /\ capacity' = [capacity EXCEPT ![o] = capacity[p]]
  /\ length' = [length EXCEPT ![o] = length[p]]
  /\ UNCHANGED <<live, heap, crashed, moveAssigned>>

MoveConstruct(o, p) ==
  /\ o \notin objects /\ p \in objects
  /\ objects' = objects \cup {o}
  /\ rawData' = [rawData EXCEPT ![o] = rawData[p], ![p] = Null]
  /\ capacity' = [capacity EXCEPT ![o] = capacity[p], ![p] = 0]
  /\ length' = [length EXCEPT ![o] = length[p], ![p] = 0]
  /\ UNCHANGED <<live, heap, crashed, moveAssigned>>

(* p.detachData(), whose result is a new object o *)
DetachData(o, p) == MoveConstruct(o, p)

(* ~Data() *)
Destruct(o) ==
  /\ o \in objects
  /\ objects' = objects \ {o}
  /\ Clear(o)

-----------------------------------------------------------------------------
(* Assignments *)

CopyAssign(o, p) ==
  /\ {o, p} \subseteq objects /\ o # p
  /\ IF ReadsNull(p) THEN Crash
     ELSE \E b \in (Blocks \ live) \cup ({rawData[o]} \ {Null}) :
            SetBlock(o, b, Write(Fresh(capacity[p]), 0, View(p)), length[p])

(* Mutant of MoveAssign: what o had is not destroyed.                      *)
MoveAssignLeaking(o, p) ==
  /\ {o, p} \subseteq objects /\ o # p
  /\ rawData' = [rawData EXCEPT ![o] = rawData[p], ![p] = Null]
  /\ capacity' = [capacity EXCEPT ![o] = capacity[p]]
  /\ length' = [length EXCEPT ![o] = length[p]]
  /\ moveAssigned' = TRUE
  /\ UNCHANGED <<objects, live, heap, crashed>>

(* The source loses its block and keeps its length and its capacity. *)
MoveAssign(o, p) ==
  /\ {o, p} \subseteq objects /\ o # p
  /\ rawData' = [rawData EXCEPT ![o] = rawData[p], ![p] = Null]
  /\ capacity' = [capacity EXCEPT ![o] = capacity[p]]
  /\ length' = [length EXCEPT ![o] = length[p]]
  /\ live' = live \ {rawData[o]}
  /\ heap' = [x \in Blocks |-> IF x = rawData[o] THEN <<>> ELSE heap[x]]
  /\ moveAssigned' = TRUE
  /\ UNCHANGED <<objects, crashed>>

-----------------------------------------------------------------------------
(* Operations *)

(* Mutant of Copy: the end of the range forgets its start.                 *)
CopyToEnd(o, p, pos, len) ==
  /\ o \notin objects /\ p \in objects
  /\ IF Empty(p) \/ len = 0 \/ pos >= length[p]
     THEN ConstructEmpty(o)
     ELSE SetNew(o, Cut(View(p), pos, IF len < 0 THEN length[p] ELSE len - pos),
                 Len(Cut(View(p), pos, IF len < 0 THEN length[p] ELSE len - pos)))

(* p.copy(pos, len), whose result is a new object o; len < 0 asks for the  *)
(* rest.                                                                   *)
Copy(o, p, pos, len) ==
  /\ o \notin objects /\ p \in objects
  /\ IF Empty(p) \/ len = 0 \/ pos >= length[p]
     THEN ConstructEmpty(o)
     ELSE LET part == Cut(View(p), pos, IF len < 0 THEN length[p] - pos ELSE len)
          IN SetNew(o, part, Len(part))

Destroy(o) ==
  /\ o \in objects
  /\ Clear(o)
  /\ UNCHANGED objects

ResetData(o) ==
  /\ o \in objects
  /\ length' = [length EXCEPT ![o] = 0]
  /\ heap' = [x \in Blocks |-> IF x = rawData[o] THEN Zeroed(capacity[o]) ELSE heap[x]]
  /\ UNCHANGED <<objects, capacity, rawData, live, crashed, moveAssigned>>

(* Mutant of Resize: the length becomes the size.                          *)
ResizeFull(o, n) ==
  /\ o \in objects /\ n # 0 /\ n # capacity[o]
  /\ ~ReadsNull(o)
  /\ SetNew(o, Write(Fresh(n), 0, Cut(View(o), 0, n)), n)

(* resize of a size that is neither 0, which destroys, nor the capacity,   *)
(* which changes nothing, whether there is a block or not *)
Resize(o, n) ==
  /\ o \in objects /\ n # 0 /\ n # capacity[o]
  /\ IF ReadsNull(o) THEN Crash
     ELSE SetNew(o, Write(Fresh(n), 0, Cut(View(o), 0, n)),
                 IF n < length[o] THEN n ELSE length[o])

(* Mutant of AppendData: the new block counts the old one's capacity too.  *)
AppendAccumulates(o, p) ==
  /\ {o, p} \subseteq objects /\ o # p
  /\ ~ReadsNull(p)
  /\ LET old == View(o)
         expectLength == Len(old) + length[p]
     IN /\ expectLength <= MaxSize
        /\ capacity[o] < expectLength
        /\ SetNew(o, Write(Write(Fresh(capacity[o] + (3 * expectLength) \div 2), 0, old),
                           Len(old), View(p)),
                  expectLength)

(* o.append(p), where p may be o: an object without a block starts from    *)
(* nothing; too small a block is replaced by one of half as much again.    *)
AppendData(o, p) ==
  /\ {o, p} \subseteq objects
  /\ LET old == View(o)
         room == IF rawData[o] = Null THEN 0 ELSE capacity[o]
         added == IF o = p THEN Len(old) ELSE length[p]
         expectLength == Len(old) + added
     IN /\ expectLength <= MaxSize
        /\ IF o # p /\ ReadsNull(p) THEN Crash
           ELSE IF room < expectLength
           THEN SetNew(o, Write(Write(Fresh((3 * expectLength) \div 2), 0, old),
                                Len(old), View(p)),
                       expectLength)
           ELSE IF rawData[o] = Null
           THEN /\ capacity' = [capacity EXCEPT ![o] = 0]
                /\ length' = [length EXCEPT ![o] = 0]
                /\ UNCHANGED <<objects, rawData, live, heap, crashed, moveAssigned>>
           ELSE SetInPlace(o, Write(heap[rawData[o]], Len(old), View(p)), expectLength)

-----------------------------------------------------------------------------
Sizes == 0..MaxSize
Inputs == UNION {[1..n -> Bytes] : n \in Sizes}

Construct(o) ==
  \/ ConstructEmpty(o)
  \/ \E s \in Inputs : ConstructFrom(o, s)
  \/ \E n \in Sizes, fill \in BOOLEAN : ConstructSized(o, n, fill)

ConstructOf(o, p) ==
  \/ CopyConstruct(o, p)
  \/ MoveConstruct(o, p)
  \/ DetachData(o, p)
  \/ \E pos \in Sizes, len \in -1..MaxSize : Copy(o, p, pos, len)

Change(o) ==
  \/ \E s \in Inputs : ReceiveInto(o, s)
  \/ \E n \in Sizes : Resize(o, n)
  \/ Destroy(o)
  \/ ResetData(o)
  \/ Destruct(o)

Combine(o, p) ==
  \/ CopyAssign(o, p)
  \/ MoveAssign(o, p)
  \/ AppendData(o, p)

Next ==
  /\ ~crashed
  /\ \E o \in Objects :
       \/ Construct(o)
       \/ Change(o)
       \/ \E p \in Objects : ConstructOf(o, p) \/ Combine(o, p)

Spec == Init /\ [][Next]_vars

-----------------------------------------------------------------------------
(* Properties *)

TypeOK ==
  /\ objects \subseteq Objects
  /\ capacity \in [Objects -> 0..((3 * MaxSize) \div 2)]
  /\ length \in [Objects -> 0..MaxSize]
  /\ rawData \in [Objects -> Blocks \cup {Null}]
  /\ live \subseteq Blocks
  /\ heap \in [Blocks -> Seq(Cells)]
  /\ crashed \in BOOLEAN
  /\ moveAssigned \in BOOLEAN

(***************************************************************************)
(* Every block is deleted by exactly one object: no two objects hold the   *)
(* same block, none holds one that was deleted, and no block is left       *)
(* without an object. A block has the size its object believes, and holds  *)
(* the bytes it counts.                                                    *)
(***************************************************************************)
Ownership ==
  /\ \A o \in objects : rawData[o] # Null =>
       /\ rawData[o] \in live
       /\ Len(heap[rawData[o]]) = capacity[o]
       /\ length[o] <= capacity[o]
  /\ \A o \in Objects \ objects : rawData[o] = Null
  /\ \A o, p \in objects : rawData[o] = rawData[p] /\ rawData[o] # Null => o = p
  /\ \A b \in live : \E o \in objects : rawData[o] = b

(***************************************************************************)
(* No byte is shown that nobody wrote: the unused part of a block made     *)
(* larger by resize() or append() stays behind length.                     *)
(***************************************************************************)
NoGarbage ==
  \A o \in objects : \A i \in 1..Len(View(o)) : View(o)[i] # Garbage

(***************************************************************************)
(* An object with a length and no block, which copying, resizing and       *)
(* comparing read as bytes, comes only from move assignment: moving by     *)
(* construction, detaching and destroying leave an object that is empty.   *)
(***************************************************************************)
StaleOnlyByMoveAssign ==
  crashed \/ (\E o \in Objects : rawData[o] = Null /\ length[o] + capacity[o] > 0)
    => moveAssigned

(***************************************************************************)
(* What each operation does to the bytes the application sees, whatever    *)
(* blocks lie behind them: copies and moves give the bytes of their        *)
(* source, copy(pos, len) the range asked for, append the two one after    *)
(* the other, resize a prefix, and no other object changes.                *)
(***************************************************************************)
Shows(o, s) == crashed' \/ View(o)' = s

OthersKept(o) == \A q \in Objects \ {o} : View(q)' = View(q)

MovesShow(o, p) ==
  /\ Shows(o, View(p))
  /\ Shows(p, <<>>)
  /\ \A q \in Objects \ {o, p} : View(q)' = View(q)

OperationsShow ==
  [][\A o, p \in Objects :
       /\ CopyConstruct(o, p) \/ CopyAssign(o, p) => Shows(o, View(p)) /\ OthersKept(o)
       /\ MoveConstruct(o, p) \/ MoveAssign(o, p) => MovesShow(o, p)
       /\ AppendData(o, p) => Shows(o, View(o) \o View(p)) /\ OthersKept(o)
       /\ \A pos \in Sizes, len \in Sizes :
            Copy(o, p, pos, len) => Shows(o, Cut(View(p), pos, len)) /\ OthersKept(o)
       /\ \A n \in Sizes : Resize(o, n) => Shows(o, Cut(View(o), 0, n)) /\ OthersKept(o)
    ]_vars
=============================================================================
