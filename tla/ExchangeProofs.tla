--------------------------- MODULE ExchangeProofs ---------------------------
(***************************************************************************)
(* Proofs about Url and Exchange, for components, headers, answers and     *)
(* bodies of any length and any words. First how searches and cuts of a    *)
(* text compose; then that the URL parser is inverse to composing a URL;   *)
(* then that the first empty line of an answer is the one its server       *)
(* wrote, and that split takes the lines in front of it apart as they were *)
(* written; then what the lines of a header leave, one after the other;    *)
(* then that Base64 spells its bytes and that a request is written in      *)
(* lines its reader finds again; and from these the properties of a        *)
(* request over all its hops.                                              *)
(***************************************************************************)
EXTENDS Exchange, FiniteSetTheorems, SequenceTheorems, TLAPS

(* A set of natural numbers has a least one.                               *)
LEMMA LeastNatural ==
  ASSUME NEW T, T \subseteq Nat, T # {}
  PROVE  \E m \in T : \A k \in T : m <= k
<1> DEFINE Below == {0..k : k \in T}
           Less == StrictSubsetOrdering(Nat)
           All == FiniteSubsetsOf(Nat)
<1>1. IsWellFoundedOn(Less, All)
  BY FS_StrictSubsetOrderingWellFounded
<1>2. Below \subseteq All /\ Below # {}
  <2>1. \A k \in T : IsFiniteSet(0..k) /\ 0..k \subseteq Nat
    BY FS_Interval
  <2> QED BY <2>1 DEF FiniteSubsetsOf
<1>3. \E x \in Below : \A y \in Below : <<y, x>> \notin Less
  <2> HIDE DEF Below, Less, All
  <2> QED BY <1>1, <1>2, WFMin
<1>4. PICK m \in T : \A k \in T : <<0..k, 0..m>> \notin Less
  BY <1>3
<1>5. ASSUME NEW k \in T PROVE m <= k
  <2>1. SUFFICES ASSUME k < m PROVE FALSE
    BY <1>4
  <2>2. 0..k \subseteq 0..m /\ 0..k # 0..m /\ 0..k \subseteq Nat /\ 0..m \subseteq Nat
    BY <2>1
  <2>3. <<0..k, 0..m>> \in Less
    BY <2>2 DEF StrictSubsetOrdering
  <2> QED BY <1>4, <2>3
<1> QED BY <1>5

-----------------------------------------------------------------------------
(* Searching and cutting a text *)

(* Texts. The provers do not know of a literal that it is a string, so the *)
(* literals the code writes are listed in Token.                           *)
Words == Seq(Token)

LEMMA WordsOfStrings ==
  ASSUME NEW s \in Seq(STRING)
  PROVE  s \in Words
<1>1. STRING \subseteq Token
  BY DEF Token
<1> QED BY <1>1, SeqMonotonic DEF Words

LEMMA SeparatorTokens ==
  /\ ":" \in Token /\ "/" \in Token /\ "?" \in Token /\ "#" \in Token
  /\ "@" \in Token /\ "]" \in Token /\ "[" \in Token /\ CR \in Token /\ LF \in Token
BY DEF Token, Separators

(* The pattern stands in s at i.                                           *)
At(s, pattern, i) == \A k \in 1..Len(pattern) : s[i + k - 1] = pattern[k]

Matches(s, pattern, from) ==
  {i \in from..(Len(s) - Len(pattern) + 1) : SubSeq(s, i, i + Len(pattern) - 1) = pattern}

LEMMA FindIsLeast ==
  ASSUME NEW s, NEW pattern, NEW from
  PROVE  /\ Matches(s, pattern, from) = {} => Find(s, pattern, from) = 0
         /\ Matches(s, pattern, from) # {} => Find(s, pattern, from) = Min(Matches(s, pattern, from))
BY DEF Find, Matches

(* find returns the first place at which the pattern stands, or npos.      *)
Found(s, pattern, from, pos) ==
  /\ pos \in Nat
  /\ pos # 0 => /\ pos \in from..(Len(s) - Len(pattern) + 1)
                /\ At(s, pattern, pos)
                /\ \A i \in from..(pos - 1) : ~At(s, pattern, i)
  /\ pos = 0 => \A i \in from..(Len(s) - Len(pattern) + 1) : ~At(s, pattern, i)

LEMMA FindIsFound ==
  ASSUME NEW s \in Words, NEW pattern \in Words, NEW from \in Nat \ {0},
         pattern # <<>>
  PROVE  Found(s, pattern, from, Find(s, pattern, from))
<1> DEFINE Reach == from..(Len(s) - Len(pattern) + 1)
           matches == Matches(s, pattern, from)
<1>0. /\ Len(s) \in Nat /\ Len(pattern) \in Nat /\ Len(pattern) > 0
      /\ s \in [1..Len(s) -> Token] /\ pattern \in [1..Len(pattern) -> Token]
  BY LenProperties, EmptySeq DEF Words
<1>1. ASSUME NEW i \in Reach PROVE SubSeq(s, i, i + Len(pattern) - 1) = pattern <=> At(s, pattern, i)
  <2> DEFINE sub == SubSeq(s, i, i + Len(pattern) - 1)
  <2>1. \A k \in i..(i + Len(pattern) - 1) : s[k] \in Token
    BY <1>0
  <2>2. /\ sub \in Seq(Token) /\ Len(sub) = Len(pattern)
        /\ \A k \in 1..Len(pattern) : sub[k] = s[i + k - 1]
    <3>1. i \in Int /\ i + Len(pattern) - 1 \in Int
      BY <1>0
    <3>2. /\ sub \in Seq(Token)
          /\ Len(sub) = IF i <= i + Len(pattern) - 1 THEN (i + Len(pattern) - 1) - i + 1 ELSE 0
          /\ \A k \in 1..((i + Len(pattern) - 1) - i + 1) : sub[k] = s[i + k - 1]
      BY <2>1, <3>1, SubSeqProperties
    <3> QED BY <1>0, <3>2
  <2>3. sub = pattern <=> \A k \in 1..Len(pattern) : sub[k] = pattern[k]
    BY <2>2, SeqEqual DEF Words
  <2> QED BY <2>2, <2>3 DEF At
<1>2. /\ matches = {} => Find(s, pattern, from) = 0
      /\ matches # {} => Find(s, pattern, from) = Min(matches)
  BY FindIsLeast
<1> USE DEF Matches
<1>3. CASE matches = {}
  <2>1. Find(s, pattern, from) = 0
    BY <1>2, <1>3
  <2>2. \A i \in Reach : ~At(s, pattern, i)
    BY <1>1, <1>3
  <2> QED BY <2>1, <2>2 DEF Found
<1>4. CASE matches # {}
  <2>1. matches \subseteq Nat
    BY <1>0
  <2>2. Find(s, pattern, from) \in matches /\ \A y \in matches : Find(s, pattern, from) <= y
    <3> HIDE DEF Matches
    <3>1. \E x \in matches : \A y \in matches : x <= y
      BY <1>4, <2>1, LeastNatural
    <3> QED BY <1>2, <1>4, <3>1 DEF Min
  <2>3. \A i \in Reach : At(s, pattern, i) => Find(s, pattern, from) <= i
    BY <1>1, <2>2
  <2>4. Find(s, pattern, from) \in Reach /\ At(s, pattern, Find(s, pattern, from))
    BY <1>1, <2>2
  <2> QED BY <1>0, <2>3, <2>4 DEF Found
<1> QED BY <1>3, <1>4


(* Only one place can be the first.                                        *)
LEMMA FindsAt ==
  ASSUME NEW s \in Words, NEW pattern \in Words, NEW from \in Nat \ {0},
         pattern # <<>>,
         NEW pos \in from..(Len(s) - Len(pattern) + 1),
         At(s, pattern, pos), \A i \in from..(pos - 1) : ~At(s, pattern, i)
  PROVE  Find(s, pattern, from) = pos
<1> DEFINE found == Find(s, pattern, from)
<1>1. Found(s, pattern, from, found)
  BY FindIsFound
<1>2. Len(s) \in Nat /\ Len(pattern) \in Nat
  BY LenProperties DEF Words
<1> HIDE DEF found
<1>3. found = pos
  BY <1>1, <1>2 DEF Found
<1> QED BY <1>3 DEF found

LEMMA FindsNot ==
  ASSUME NEW s \in Words, NEW pattern \in Words, NEW from \in Nat \ {0},
         pattern # <<>>,
         \A i \in from..(Len(s) - Len(pattern) + 1) : ~At(s, pattern, i)
  PROVE  Find(s, pattern, from) = 0
<1> DEFINE found == Find(s, pattern, from)
<1>1. Found(s, pattern, from, found)
  BY FindIsFound
<1>2. Len(s) \in Nat /\ Len(pattern) \in Nat
  BY LenProperties DEF Words
<1> HIDE DEF found
<1>3. found = 0
  BY <1>1, <1>2 DEF Found
<1> QED BY <1>3 DEF found

(* A text of one token, and the line end *)
LEMMA OneToken ==
  ASSUME NEW c \in Token
  PROVE  <<c>> \in Words /\ Len(<<c>>) = 1 /\ <<c>>[1] = c /\ <<c>> # <<>>
<1>1. <<c>> = Append(<<>>, c)
  OBVIOUS
<1>2. Append(<<>>, c) \in Seq(Token)
  BY EmptySeq, AppendProperties
<1> QED BY <1>1, <1>2 DEF Words

(* Two parts of a text                                                     *)
Parted(s, pos, left, right) ==
  /\ left \in Words /\ Len(left) = pos - 1
  /\ \A i \in 1..(pos - 1) : left[i] = s[i]
  /\ right \in Words /\ Len(right) = Len(s) - pos + 1
  /\ \A i \in 1..(Len(s) - pos + 1) : right[i] = s[pos + i - 1]

LEMMA Parts ==
  ASSUME NEW s \in Words, NEW pos \in Nat \ {0}, pos <= Len(s) + 1
  PROVE  Parted(s, pos, Upto(s, pos), From(s, pos))
<1>0. Len(s) \in Nat /\ s \in [1..Len(s) -> Token]
  BY LenProperties DEF Words
<1>1. /\ Upto(s, pos) \in Words
      /\ Len(Upto(s, pos)) = IF 1 <= pos - 1 THEN pos - 1 - 1 + 1 ELSE 0
      /\ \A i \in 1..(pos - 1 - 1 + 1) : Upto(s, pos)[i] = s[1 + i - 1]
  <2>1. 1 \in Int /\ pos - 1 \in Int /\ \A i \in 1..(pos - 1) : s[i] \in Token
    BY <1>0
  <2> QED BY <2>1, SubSeqProperties DEF Upto, Words
<1>2. /\ From(s, pos) \in Words
      /\ Len(From(s, pos)) = IF pos <= Len(s) THEN Len(s) - pos + 1 ELSE 0
      /\ \A i \in 1..(Len(s) - pos + 1) : From(s, pos)[i] = s[pos + i - 1]
  <2>1. pos \in Int /\ Len(s) \in Int /\ \A i \in pos..Len(s) : s[i] \in Token
    BY <1>0
  <2> QED BY <2>1, SubSeqProperties DEF From, Words
<1> QED BY <1>0, <1>1, <1>2 DEF Parted

Joined(a, b, s) ==
  /\ s \in Words
  /\ Len(a) \in Nat /\ Len(b) \in Nat /\ Len(s) = Len(a) + Len(b)
  /\ \A i \in 1..Len(a) : s[i] = a[i]
  /\ \A i \in 1..Len(b) : s[Len(a) + i] = b[i]

LEMMA Joins ==
  ASSUME NEW a \in Words, NEW b \in Words
  PROVE  Joined(a, b, a \o b)
<1>1. /\ a \o b \in Words
      /\ Len(a) \in Nat /\ Len(b) \in Nat /\ Len(a \o b) = Len(a) + Len(b)
      /\ \A i \in 1..(Len(a) + Len(b)) :
           (a \o b)[i] = IF i <= Len(a) THEN a[i] ELSE b[i - Len(a)]
  BY ConcatProperties, LenProperties DEF Words
<1> DEFINE s == a \o b
<1> HIDE DEF s
<1>2. /\ s \in Words
      /\ Len(a) \in Nat /\ Len(b) \in Nat /\ Len(s) = Len(a) + Len(b)
      /\ \A i \in 1..(Len(a) + Len(b)) : s[i] = IF i <= Len(a) THEN a[i] ELSE b[i - Len(a)]
  BY <1>1 DEF s
<1>3. Joined(a, b, s)
  BY <1>2 DEF Joined
<1> QED BY <1>3 DEF s

(* What was put together comes apart again.                                *)
LEMMA JoinedParts ==
  ASSUME NEW a \in Words, NEW b \in Words, NEW s \in Words, s = a \o b
  PROVE  Upto(s, Len(a) + 1) = a /\ From(s, Len(a) + 1) = b
<1>1. Joined(a, b, s)
  BY Joins
<1> DEFINE pos == Len(a) + 1
           left == Upto(s, pos)
           right == From(s, pos)
<1>2. pos \in Nat \ {0} /\ pos <= Len(s) + 1
  BY <1>1 DEF Joined
<1>3. Parted(s, pos, left, right)
  <2> HIDE DEF pos
  <2> QED BY <1>2, Parts
<1> HIDE DEF left, right
<1>4. left \in Words /\ Len(left) = Len(a) /\ \A i \in 1..Len(left) : left[i] = a[i]
  BY <1>1, <1>3 DEF Joined, Parted
<1>5. right \in Words /\ Len(right) = Len(b) /\ \A i \in 1..Len(right) : right[i] = b[i]
  <2>1. ASSUME NEW i \in 1..Len(b) PROVE right[i] = b[i]
    <3>1. pos + i - 1 = Len(a) + i /\ i \in 1..(Len(s) - pos + 1)
      BY <1>1 DEF Joined
    <3>2. right[i] = s[pos + i - 1]
      BY <1>3, <3>1 DEF Parted
    <3> QED BY <1>1, <3>1, <3>2 DEF Joined
  <2> QED BY <1>1, <1>3, <2>1 DEF Joined, Parted
<1>6. left = a /\ right = b
  BY <1>4, <1>5, SeqEqual DEF Words
<1> QED BY <1>6 DEF left, right

LEMMA Associates ==
  ASSUME NEW a \in Words, NEW b \in Words, NEW c \in Words
  PROVE  (a \o b) \o c = a \o (b \o c)
<1>1. a \in Seq(Token) /\ b \in Seq(Token) /\ c \in Seq(Token)
  BY DEF Words
<1> QED BY <1>1, ConcatAssociative

(* No token of s is c. *)
Without(s, c) == \A i \in 1..Len(s) : s[i] # c

LEMMA FreeIsWithout ==
  ASSUME NEW s \in Words, NEW T, Free(s, T), NEW c \in T
  PROVE  Without(s, c)
<1>1. DOMAIN s = 1..Len(s)
  BY LenProperties DEF Words
<1> QED BY <1>1 DEF Free, ToSet, Without

LEMMA JoinWithout ==
  ASSUME NEW a \in Words, NEW b \in Words, NEW c, Without(a, c), Without(b, c)
  PROVE  Without(a \o b, c)
<1> DEFINE s == a \o b
<1>1. Joined(a, b, s)
  BY Joins
<1> HIDE DEF s
<1>2. ASSUME NEW i \in 1..Len(s) PROVE s[i] # c
  <2>1. CASE i <= Len(a)
    BY <1>1, <2>1 DEF Joined, Without
  <2>2. CASE i > Len(a)
    <3> DEFINE k == i - Len(a)
    <3>1. k \in 1..Len(b) /\ i = Len(a) + k
      BY <1>1, <2>2 DEF Joined
    <3> QED BY <1>1, <3>1 DEF Joined, Without
  <2> QED BY <1>1, <2>1, <2>2 DEF Joined
<1>3. Without(s, c)
  BY <1>2 DEF Without
<1> QED BY <1>3 DEF s

LEMMA TokenAt ==
  ASSUME NEW s, NEW t, Len(t) = 1, NEW i \in Int
  PROVE  At(s, t, i) <=> s[i] = t[1]
<1>1. 1..Len(t) = {1}
  OBVIOUS
<1>2. i + 1 - 1 = i
  OBVIOUS
<1>3. At(s, t, i) <=> \A k \in {1} : s[i + k - 1] = t[k]
  BY <1>1 DEF At
<1> QED BY <1>2, <1>3

(* A separator that a text does not have is found where it is put.         *)
LEMMA TokenAbsent ==
  ASSUME NEW a \in Words, NEW t \in Words, Len(t) = 1, Without(a, t[1])
  PROVE  Find(a, t, 1) = 0
<1>0. t # <<>>
  OBVIOUS
<1>1. Len(a) \in Nat
  BY LenProperties DEF Words
<1>2. ASSUME NEW i \in 1..(Len(a) - Len(t) + 1) PROVE ~At(a, t, i)
  <2>1. i \in 1..Len(a) /\ i \in Int
    BY <1>1
  <2> QED BY <2>1, TokenAt DEF Without
<1>3. 1 \in Nat \ {0}
  OBVIOUS
<1> QED BY <1>0, <1>2, <1>3, FindsNot

LEMMA TokenFound ==
  ASSUME NEW s \in Words, NEW c \in Token, NEW n \in 1..Len(s), s[n] = c,
         \A i \in 1..(n - 1) : s[i] # c
  PROVE  Find(s, <<c>>, 1) = n
<1> DEFINE t == <<c>>
<1>1. t \in Words /\ Len(t) = 1 /\ t[1] = c /\ t # <<>>
  BY OneToken
<1> HIDE DEF t
<1>2. Len(s) \in Nat /\ 1 \in Nat \ {0}
  BY LenProperties DEF Words
<1>3. n \in 1..(Len(s) - Len(t) + 1) /\ n \in Int
  BY <1>1, <1>2
<1>4. At(s, t, n)
  BY <1>1, <1>3, TokenAt
<1>5. ASSUME NEW i \in 1..(n - 1) PROVE ~At(s, t, i)
  BY <1>1, <1>3, TokenAt
<1>6. Find(s, t, 1) = n
  BY <1>1, <1>2, <1>3, <1>4, <1>5, FindsAt
<1> QED BY <1>6 DEF t

LEMMA TokenIsCut ==
  ASSUME NEW a \in Words, NEW b \in Words, NEW c \in Token, Without(a, c)
  PROVE  LET s == a \o (<<c>> \o b) IN
         /\ s \in Words /\ Len(a) \in Nat
         /\ Find(s, <<c>>, 1) = Len(a) + 1
         /\ Upto(s, Len(a) + 1) = a
         /\ From(s, Len(a) + 1) = <<c>> \o b
         /\ From(s, Len(a) + 2) = b
<1> DEFINE t == <<c>>
           u == t \o b
           s == a \o u
<1>1. t \in Words /\ Len(t) = 1 /\ t[1] = c
  BY OneToken
<1> HIDE DEF t
<1>2. Joined(t, b, u)
  BY <1>1, Joins
<1>3. u \in Words
  BY <1>2 DEF Joined
<1>4. Joined(a, u, s)
  <2> HIDE DEF u
  <2> QED BY <1>3, Joins
<1>5. s \in Words /\ Len(a) \in Nat
  BY <1>4 DEF Joined
<1>6. Find(s, t, 1) = Len(a) + 1
  <2> HIDE DEF u, s
  <2>1. Len(u) \in Nat /\ Len(u) >= 1 /\ u[1] = c
    BY <1>1, <1>2 DEF Joined
  <2>2. Len(a) + 1 \in 1..Len(s) /\ s[Len(a) + 1] = c
    BY <1>4, <1>5, <2>1 DEF Joined
  <2>3. \A i \in 1..(Len(a) + 1 - 1) : s[i] # c
    BY <1>4, <1>5 DEF Joined, Without
  <2>4. Find(s, <<c>>, 1) = Len(a) + 1
    BY <1>5, <2>2, <2>3, TokenFound
  <2> QED BY <2>4 DEF t
<1>7. Upto(s, Len(a) + 1) = a /\ From(s, Len(a) + 1) = u
  <2> HIDE DEF u
  <2> QED BY <1>3, <1>5, JoinedParts
<1>8. From(s, Len(a) + 2) = b
  <2> DEFINE v == a \o t
  <2>1. Joined(a, t, v)
    BY <1>1, Joins
  <2>2. s = v \o b
    BY <1>1, ConcatAssociative, SMTT(20) DEF Words
  <2> HIDE DEF s, v
  <2>3. v \in Words /\ Len(v) = Len(a) + 1
    BY <1>1, <2>1 DEF Joined
  <2>4. From(s, Len(v) + 1) = b
    BY <1>5, <2>2, <2>3, JoinedParts
  <2>5. Len(v) + 1 = Len(a) + 2
    BY <1>5, <2>3
  <2> QED BY <2>4, <2>5
<1> HIDE DEF s, u
<1>9. /\ s \in Words /\ Len(a) \in Nat
      /\ Find(s, t, 1) = Len(a) + 1
      /\ Upto(s, Len(a) + 1) = a
      /\ From(s, Len(a) + 1) = u
      /\ From(s, Len(a) + 2) = b
  BY <1>5, <1>6, <1>7, <1>8
<1> QED BY <1>9 DEF s, u, t

(* A component led by a separator, which may be absent, is cut off.        *)
LEMMA LedIsCut ==
  ASSUME NEW a \in Words, NEW b \in Words, NEW c \in Token, Without(a, c)
  PROVE  LET s == a \o Led(c, b) IN
         /\ s \in Words
         /\ Before(s, Find(s, <<c>>, 1)) = a
         /\ After(s, Find(s, <<c>>, 1)) = b
<1> DEFINE t == <<c>>
           s == a \o Led(c, b)
<1>1. t \in Words /\ Len(t) = 1 /\ t[1] = c
  BY OneToken
<1>2. CASE b = <<>>
  <2>1. s = a
    BY <1>2, ConcatEmptySeq DEF Led, Words
  <2>2. Find(a, t, 1) = 0
    <3> HIDE DEF t
    <3> QED BY <1>1, TokenAbsent
  <2> QED BY <1>2, <2>1, <2>2 DEF Before, After
<1>3. CASE b # <<>>
  <2>1. s = a \o (t \o b)
    BY <1>3 DEF Led
  <2>2. /\ s \in Words /\ Len(a) \in Nat
        /\ Find(s, t, 1) = Len(a) + 1
        /\ Upto(s, Len(a) + 1) = a
        /\ From(s, Len(a) + 2) = b
    <3> HIDE DEF s
    <3> QED BY <2>1, TokenIsCut
  <2> HIDE DEF s, t
  <2>3. /\ Before(s, Find(s, t, 1)) = a
        /\ After(s, Find(s, t, 1)) = b
    BY <2>2 DEF Before, After
  <2> QED BY <2>2, <2>3 DEF s, t
<1> QED BY <1>2, <1>3

(* rfind: the last place of a token *)
LEMMA GreatestNatural ==
  ASSUME NEW n \in Nat, NEW T, T \subseteq 1..n, T # {}
  PROVE  \E m \in T : \A k \in T : k <= m
<1> DEFINE D == {n - k : k \in T}
<1>1. D \subseteq Nat /\ D # {}
  <2>1. \A k \in T : n - k \in Nat
    OBVIOUS
  <2>2. PICK k \in T : TRUE
    OBVIOUS
  <2>3. n - k \in D
    BY <2>2
  <2> QED BY <2>1, <2>3
<1>2. PICK d \in D : \A e \in D : d <= e
  <2> HIDE DEF D
  <2> QED BY <1>1, LeastNatural
<1>3. PICK m \in T : d = n - m
  BY DEF D
<1>4. \A k \in T : n - m <= n - k
  BY <1>2, <1>3
<1> QED BY <1>3, <1>4

LEMMA RFinds ==
  ASSUME NEW s \in Words, NEW c
  PROVE  /\ RFind(s, c) \in 0..Len(s) /\ Len(s) \in Nat
         /\ RFind(s, c) = 0 => Without(s, c)
         /\ RFind(s, c) # 0 =>
              /\ s[RFind(s, c)] = c
              /\ \A i \in (RFind(s, c) + 1)..Len(s) : s[i] # c
<1> DEFINE I == {i \in 1..Len(s) : s[i] = c}
<1>1. Len(s) \in Nat
  BY LenProperties DEF Words
<1>2. RFind(s, c) = IF I # {} THEN Max(I) ELSE 0
  BY DEF RFind, SelectLastInSeq
<1>3. CASE I = {}
  BY <1>1, <1>2, <1>3 DEF Without
<1>4. CASE I # {}
  <2>1. \E m \in I : \A k \in I : k <= m
    <3>1. I \subseteq 1..Len(s)
      OBVIOUS
    <3> HIDE DEF I
    <3> QED BY <1>1, <1>4, <3>1, GreatestNatural
  <2>2. RFind(s, c) \in I /\ \A k \in I : k <= RFind(s, c)
    <3>1. \A k \in I : k \in Int
      OBVIOUS
    <3> HIDE DEF I
    <3> QED BY <1>2, <1>4, <2>1, <3>1 DEF Max
  <2> QED BY <1>1, <2>2
<1> QED BY <1>3, <1>4

-----------------------------------------------------------------------------
(* A URL is read as it was composed.                                       *)

LEMMA LedWithout ==
  ASSUME NEW s \in Words, NEW by \in Token, NEW c, Without(s, c), by # c
  PROVE  Led(by, s) \in Words /\ Without(Led(by, s), c)
<1>1. CASE s = <<>>
  BY <1>1 DEF Led
<1>2. CASE s # <<>>
  <2> DEFINE t == <<by>>
             u == t \o s
  <2>1. t \in Words /\ Len(t) = 1 /\ t[1] = by
    BY OneToken
  <2>2. Without(t, c)
    <3> HIDE DEF t
    <3> QED BY <2>1 DEF Without
  <2> HIDE DEF t
  <2>3. Without(u, c) /\ u \in Words
    BY <2>1, <2>2, JoinWithout, ConcatProperties DEF Words
  <2> QED BY <1>2, <2>3 DEF Led, t
<1> QED BY <1>1, <1>2

(* The components of a composable URL, and the separators each is free of  *)
LEMMA Components ==
  ASSUME NEW parts, Composable(parts)
  PROVE  /\ parts.scheme \in Words /\ parts.userInfo \in Words /\ parts.host \in Words
         /\ parts.port \in Words /\ parts.path \in Words /\ parts.query \in Words
         /\ parts.fragment \in Words
         /\ Without(parts.scheme, ":")
         /\ \A c \in {"/", "?", "#", "@"} :
              Without(parts.userInfo, c) /\ Without(parts.host, c) /\ Without(parts.port, c)
         /\ Without(parts.port, ":") /\ Without(parts.port, "]")
         /\ Without(parts.path, "?") /\ Without(parts.path, "#") /\ Without(parts.query, "#")
<1>1. /\ parts.scheme \in Words /\ parts.userInfo \in Words /\ parts.host \in Words
      /\ parts.port \in Words /\ parts.path \in Words /\ parts.query \in Words
      /\ parts.fragment \in Words
  <2>1. /\ parts.scheme \in Seq(STRING) /\ parts.userInfo \in Seq(STRING)
        /\ parts.host \in Seq(STRING) /\ parts.port \in Seq(STRING)
        /\ parts.path \in Seq(STRING) /\ parts.query \in Seq(STRING)
        /\ parts.fragment \in Seq(STRING)
    BY DEF Composable
  <2> QED BY <2>1, WordsOfStrings
<1>2. Without(parts.scheme, ":")
  <2>1. Free(parts.scheme, Separators) /\ ":" \in Separators
    BY DEF Composable, CheckScheme, Separators
  <2> QED BY <1>1, <2>1, FreeIsWithout
<1> DEFINE cutting == {"/", "?", "#", "@"}
<1>3. ASSUME NEW c \in cutting
      PROVE  Without(parts.userInfo, c) /\ Without(parts.host, c) /\ Without(parts.port, c)
  <2>1. /\ Free(parts.userInfo, cutting) /\ Free(parts.host, cutting)
        /\ Free(parts.port, {":", "/", "?", "#", "@", "]"})
    BY DEF Composable
  <2>2. c \in {":", "/", "?", "#", "@", "]"}
    OBVIOUS
  <2> HIDE DEF cutting
  <2> QED BY <1>1, <1>3, <2>1, <2>2, FreeIsWithout
<1>4. /\ Without(parts.port, ":") /\ Without(parts.port, "]")
      /\ Without(parts.path, "?") /\ Without(parts.path, "#") /\ Without(parts.query, "#")
  <2>1. /\ Free(parts.port, {":", "/", "?", "#", "@", "]"})
        /\ Free(parts.path, {"?", "#"}) /\ Free(parts.query, {"#"})
    BY DEF Composable
  <2>2. Without(parts.port, ":") /\ Without(parts.port, "]")
    BY <1>1, <2>1, FreeIsWithout
  <2>3. Without(parts.path, "?") /\ Without(parts.path, "#")
    BY <1>1, <2>1, FreeIsWithout
  <2>4. Without(parts.query, "#")
    BY <1>1, <2>1, FreeIsWithout
  <2> QED BY <2>2, <2>3, <2>4
<1> QED BY <1>1, <1>2, <1>3, <1>4

(* The host of a composable URL is a name or an IP literal.                *)
IsName(host) == Without(host, ":") /\ Without(host, "[")
IsLiteral(host) ==
  /\ Len(host) > 1 /\ host[1] = "[" /\ host[Len(host)] = "]"
  /\ \A i \in 1..(Len(host) - 1) : host[i] # "]"

LEMMA Hosts ==
  ASSUME NEW parts, Composable(parts)
  PROVE  IsName(parts.host) \/ IsLiteral(parts.host)
<1> DEFINE host == parts.host
<1>1. host \in Words
  BY Components
<1>2. \/ Free(host, {":", "[", "]"})
      \/ /\ Len(host) > 1 /\ host[1] = "[" /\ host[Len(host)] = "]"
         /\ Free(Upto(host, Len(host)), {"]"})
  BY DEF Composable
<1> HIDE DEF host
<1>3. ASSUME Free(host, {":", "[", "]"}) PROVE IsName(host)
  BY <1>1, <1>3, FreeIsWithout DEF IsName
<1>4. ASSUME Len(host) > 1, Free(Upto(host, Len(host)), {"]"})
      PROVE  \A i \in 1..(Len(host) - 1) : host[i] # "]"
  <2> DEFINE inner == Upto(host, Len(host))
             n == Len(host)
  <2>1. n \in Nat \ {0} /\ n <= Len(host) + 1
    BY <1>1, <1>4, LenProperties DEF Words
  <2>2. Parted(host, n, inner, From(host, n))
    <3> HIDE DEF n
    <3>1. Parted(host, n, Upto(host, n), From(host, n))
      BY <1>1, <2>1, Parts
    <3> QED BY <3>1 DEF n
  <2>3. Free(inner, {"]"})
    BY <1>4
  <2> HIDE DEF inner
  <2>4. inner \in Words /\ Len(inner) = n - 1 /\ \A i \in 1..(n - 1) : inner[i] = host[i]
    BY <2>2 DEF Parted
  <2>5. Without(inner, "]")
    BY <2>3, <2>4, FreeIsWithout
  <2> QED BY <2>4, <2>5 DEF Without
<1>5. IsName(host) \/ IsLiteral(host)
  BY <1>2, <1>3, <1>4 DEF IsLiteral
<1> QED BY <1>5 DEF host

(* No ':' of a host is that of a port.                                     *)
LEMMA NoPort ==
  ASSUME NEW host \in Words, IsName(host) \/ IsLiteral(host)
  PROVE  PortPos(host) = 0
<1> DEFINE closing == Find(host, <<"]">>, 1)
           portPos == RFind(host, ":")
<1>1. /\ portPos \in 0..Len(host) /\ Len(host) \in Nat
      /\ portPos # 0 => host[portPos] = ":"
  BY RFinds
<1>2. ASSUME IsLiteral(host) PROVE host[1] = "[" /\ closing = Len(host)
  <2>0. "]" \in Token
    BY SeparatorTokens
  <2>1. Len(host) \in 1..Len(host)
    BY <1>1, <1>2 DEF IsLiteral
  <2> QED BY <1>2, <2>0, <2>1, TokenFound DEF IsLiteral
<1>3. ASSUME IsName(host) PROVE portPos = 0
  <2> HIDE DEF portPos
  <2> QED BY <1>1, <1>3 DEF Without, IsName
<1>4. portPos = 0 \/ (host[1] = "[" /\ ~(closing < portPos))
  <2> HIDE DEF closing, portPos
  <2> QED BY <1>1, <1>2, <1>3
<1> QED BY <1>4 DEF PortPos

(* The ':' of a port is the last one, and those of an IP literal are in    *)
(* front of its ']'.                                                       *)
LEMMA PortFound ==
  ASSUME NEW host \in Words, IsName(host) \/ IsLiteral(host),
         NEW port \in Words, Without(port, ":"),
         NEW colon \in Words, Len(colon) = 1, colon[1] = ":",
         NEW u \in Words, Joined(colon, port, u), NEW view \in Words, Joined(host, u, view)
  PROVE  PortPos(view) = Len(host) + 1
<1> DEFINE place == Len(host) + 1
<1>0. Len(host) \in Nat /\ Len(port) \in Nat
  BY DEF Joined
<1>1. /\ Len(view) = Len(host) + 1 + Len(port)
      /\ view[place] = ":"
      /\ \A i \in 1..Len(host) : view[i] = host[i]
      /\ \A i \in 1..Len(port) : view[place + i] = port[i]
  <2>1. /\ Len(u) = 1 + Len(port) /\ Len(view) = Len(host) + Len(u)
        /\ \A i \in 1..Len(host) : view[i] = host[i]
        /\ \A i \in 1..Len(u) : view[Len(host) + i] = u[i]
        /\ u[1] = ":"
        /\ \A i \in 1..Len(port) : u[1 + i] = port[i]
    BY DEF Joined
  <2>2. view[place] = ":"
    BY <1>0, <2>1
  <2>3. ASSUME NEW i \in 1..Len(port) PROVE view[place + i] = port[i]
    <3>1. 1 + i \in 1..Len(u) /\ Len(host) + (1 + i) = place + i
      BY <1>0, <2>1
    <3> QED BY <2>1, <3>1
  <2> QED BY <1>0, <2>1, <2>2, <2>3
<1>2. place \in 1..Len(view)
  BY <1>0, <1>1
<1>3. RFind(view, ":") = place
  <2> DEFINE found == RFind(view, ":")
  <2>1. /\ found \in 0..Len(view)
        /\ found = 0 => Without(view, ":")
        /\ found # 0 => /\ view[found] = ":"
                        /\ \A i \in (found + 1)..Len(view) : view[i] # ":"
    BY RFinds
  <2> HIDE DEF found
  <2>2. found # 0
    BY <1>1, <1>2, <2>1 DEF Without
  <2>3. ~(found < place)
    BY <1>1, <1>2, <2>1, <2>2
  <2>4. ASSUME found > place PROVE FALSE
    <3> DEFINE i == found - place
    <3>1. i \in 1..Len(port) /\ found = place + i
      BY <1>0, <1>1, <2>1, <2>4
    <3>2. view[found] = port[i]
      BY <1>1, <3>1
    <3> QED BY <2>1, <2>2, <3>1, <3>2 DEF Without
  <2>5. found = place
    BY <1>2, <2>1, <2>3, <2>4
  <2> QED BY <2>5 DEF found
<1>4. ASSUME IsName(host) PROVE view[1] # "["
  <2>1. CASE Len(host) = 0
    BY <1>1, <2>1
  <2>2. CASE Len(host) > 0
    <3>1. 1 \in 1..Len(host)
      BY <1>0, <2>2
    <3> QED BY <1>1, <1>4, <3>1 DEF Without, IsName
  <2> QED BY <1>0, <2>1, <2>2
<1>5. ASSUME IsLiteral(host) PROVE Find(view, <<"]">>, 1) = Len(host) /\ Len(host) \in 1..(place - 1)
  <2>0. "]" \in Token
    BY SeparatorTokens
  <2>1. Len(host) \in 1..Len(view) /\ Len(host) \in 1..(place - 1)
    BY <1>0, <1>1, <1>5 DEF IsLiteral
  <2>2. view[Len(host)] = "]"
    BY <1>0, <1>1, <1>5 DEF IsLiteral
  <2>3. \A i \in 1..(Len(host) - 1) : view[i] # "]"
    BY <1>0, <1>1, <1>5 DEF IsLiteral
  <2> QED BY <2>0, <2>1, <2>2, <2>3, TokenFound
<1>6. place # 0 /\ (view[1] # "[" \/ (Find(view, <<"]">>, 1) # 0 /\ Find(view, <<"]">>, 1) < place))
  BY <1>0, <1>4, <1>5
<1> HIDE DEF place
<1>7. PortPos(view) = place
  BY <1>3, <1>6 DEF PortPos
<1> QED BY <1>7 DEF place

LEMMA PortIsCut ==
  ASSUME NEW host \in Words, IsName(host) \/ IsLiteral(host), NEW port \in Words, Without(port, ":")
  PROVE  LET view == host \o Led(":", port) IN
         /\ view \in Words
         /\ PortPos(view) = 0 <=> port = <<>>
         /\ Before(view, PortPos(view)) = host
         /\ After(view, PortPos(view)) = port
<1> DEFINE view == host \o Led(":", port)
<1>1. CASE port = <<>>
  <2>1. view = host
    BY <1>1, ConcatEmptySeq DEF Led, Words
  <2>2. PortPos(host) = 0
    BY NoPort
  <2> QED BY <1>1, <2>1, <2>2 DEF Before, After
<1>2. CASE port # <<>>
  <2> DEFINE colon == <<":">>
             u == colon \o port
             v == host \o colon
  <2>1. view = host \o u
    BY <1>2 DEF Led
  <2>2. colon \in Words /\ Len(colon) = 1 /\ colon[1] = ":"
    <3>1. ":" \in Token
      BY SeparatorTokens
    <3> QED BY <3>1, OneToken
  <2> HIDE DEF view, colon
  <2>3. Joined(colon, port, u) /\ Joined(host, colon, v)
    BY <2>2, Joins
  <2>4. view = v \o port
    BY <2>1, <2>2, ConcatAssociative DEF Words
  <2>5. u \in Words /\ v \in Words /\ Len(v) = Len(host) + 1 /\ Len(host) \in Nat
    BY <2>2, <2>3 DEF Joined
  <2> HIDE DEF u, v
  <2>6. Joined(host, u, view)
    BY <2>1, <2>5, Joins
  <2>7. view \in Words
    BY <2>6 DEF Joined
  <2>8. PortPos(view) = Len(host) + 1
    BY <2>2, <2>3, <2>5, <2>6, <2>7, PortFound
  <2>9. Upto(view, Len(host) + 1) = host
    BY <2>1, <2>5, <2>7, JoinedParts
  <2>10. From(view, Len(v) + 1) = port
    BY <2>4, <2>5, <2>7, JoinedParts
  <2>11. Len(v) + 1 = Len(host) + 1 + 1
    BY <2>5
  <2>12. /\ PortPos(view) # 0
         /\ Before(view, PortPos(view)) = host
         /\ After(view, PortPos(view)) = port
    BY <2>5, <2>8, <2>9, <2>10, <2>11 DEF Before, After
  <2> QED BY <1>2, <2>7, <2>12 DEF view
<1> QED BY <1>1, <1>2

(* A text that begins with a token, behind one that does not have it       *)
LEMMA TextIsCut ==
  ASSUME NEW a \in Words, NEW b \in Words, NEW c \in Token, Without(a, c), Len(b) > 0, b[1] = c
  PROVE  LET s == a \o b IN
         /\ Len(a) \in Nat /\ Find(s, <<c>>, 1) = Len(a) + 1
         /\ Upto(s, Len(a) + 1) = a /\ From(s, Len(a) + 1) = b
<1> DEFINE s == a \o b
<1>1. Joined(a, b, s)
  BY Joins
<1> HIDE DEF s
<1>2. s \in Words /\ Len(a) + 1 \in 1..Len(s) /\ s[Len(a) + 1] = c
  BY <1>1 DEF Joined
<1>3. \A i \in 1..(Len(a) + 1 - 1) : s[i] # c
  BY <1>1 DEF Joined, Without
<1>4. Find(s, <<c>>, 1) = Len(a) + 1
  BY <1>2, <1>3, TokenFound
<1>5. Upto(s, Len(a) + 1) = a /\ From(s, Len(a) + 1) = b
  <2>1. s = a \o b
    BY DEF s
  <2> QED BY <1>2, <2>1, JoinedParts
<1>6. Len(a) \in Nat
  BY <1>1 DEF Joined
<1> QED BY <1>4, <1>5, <1>6 DEF s

(* Of authority and path, both come back.                                  *)
LEMMA PathIsCut ==
  ASSUME NEW a \in Words, NEW b \in Words, Without(a, "/"), b # <<>> => Head(b) = "/"
  PROVE  LET s == a \o b
             pos == Find(s, <<"/">>, 1)
         IN /\ Before(s, pos) = a
            /\ (IF pos = 0 THEN <<"/">> ELSE From(s, pos)) = IF b = <<>> THEN <<"/">> ELSE b
<1> DEFINE s == a \o b
           t == <<"/">>
           pos == Find(s, t, 1)
           Goal == /\ Before(s, pos) = a
                   /\ (IF pos = 0 THEN t ELSE From(s, pos)) = IF b = <<>> THEN t ELSE b
<1>0. "/" \in Token
  BY SeparatorTokens
<1>1. CASE b = <<>>
  <2>1. s = a
    BY <1>1, ConcatEmptySeq DEF Words
  <2>2. t \in Words /\ Len(t) = 1 /\ t[1] = "/"
    BY <1>0, OneToken
  <2>3. Find(a, t, 1) = 0
    <3> HIDE DEF t
    <3> QED BY <2>2, TokenAbsent
  <2>4. Goal
    BY <1>1, <2>1, <2>3 DEF Before
  <2> QED BY <2>4
<1>2. CASE b # <<>>
  <2>1. Len(b) > 0 /\ b[1] = "/"
    <3>1. Len(b) \in Nat /\ (Len(b) = 0 => b = <<>>)
      BY LenProperties, EmptySeq DEF Words
    <3>2. Head(b) = b[1]
      BY <1>2
    <3> QED BY <1>2, <3>1, <3>2
  <2>2. /\ Len(a) \in Nat /\ pos = Len(a) + 1
        /\ Upto(s, Len(a) + 1) = a /\ From(s, Len(a) + 1) = b
    BY <1>0, <2>1, TextIsCut
  <2> HIDE DEF s, pos, t
  <2>3. Goal
    BY <1>2, <2>2 DEF Before
  <2> QED BY <2>3 DEF s, pos, t
<1> QED BY <1>1, <1>2

(* The authority of a URL has no separator that begins a path, a query or  *)
(* a fragment, and its user info, host and port come back.                 *)
LEMMA AuthorityIsCut ==
  ASSUME NEW parts, Composable(parts)
  PROVE  LET view == Authority(parts)
             pos == Find(view, <<"@">>, 1)
             place == PortPos(HostAndPort(view))
         IN /\ view \in Words
            /\ Without(view, "/") /\ Without(view, "?") /\ Without(view, "#")
            /\ (IF pos = 0 THEN <<>> ELSE Upto(view, pos)) = parts.userInfo
            /\ Before(HostAndPort(view), place) = parts.host
            /\ After(HostAndPort(view), place) = parts.port
            /\ place = 0 <=> parts.port = <<>>
<1> DEFINE userInfo == parts.userInfo
           host == parts.host
           port == parts.port
           rest == host \o Led(":", port)
           at == <<"@">>
           view == Authority(parts)
           pos == Find(view, at, 1)
<1>0. ":" \in Token /\ "@" \in Token
  BY SeparatorTokens
<1>1. /\ userInfo \in Words /\ host \in Words /\ port \in Words
      /\ \A c \in {"/", "?", "#", "@"} : Without(userInfo, c) /\ Without(host, c) /\ Without(port, c)
      /\ Without(port, ":")
  BY Components
<1>2. /\ rest \in Words
      /\ PortPos(rest) = 0 <=> port = <<>>
      /\ Before(rest, PortPos(rest)) = host
      /\ After(rest, PortPos(rest)) = port
  BY <1>1, Hosts, PortIsCut
<1>3. \A c \in {"/", "?", "#", "@"} : Without(rest, c)
  <2>1. ASSUME NEW c \in {"/", "?", "#", "@"} PROVE Without(rest, c)
    <3>1. ":" # c
      OBVIOUS
    <3>2. Led(":", port) \in Words /\ Without(Led(":", port), c)
      BY <1>0, <1>1, <3>1, LedWithout
    <3> QED BY <1>1, <3>2, JoinWithout
  <2> QED BY <2>1
<1>4. at \in Words /\ Len(at) = 1 /\ at[1] = "@"
  BY <1>0, OneToken
<1>5. view = (IF userInfo = <<>> THEN <<>> ELSE userInfo \o at) \o rest
  BY DEF Authority
<1> HIDE DEF userInfo, host, port, rest, at, view
<1>6. /\ view \in Words
      /\ \A c \in {"/", "?", "#"} : Without(view, c)
      /\ (IF pos = 0 THEN <<>> ELSE Upto(view, pos)) = userInfo
      /\ HostAndPort(view) = rest
  <2>1. CASE userInfo = <<>>
    <3>1. view = rest
      BY <1>2, <1>5, <2>1, ConcatEmptySeq DEF Words
    <3>2. pos = 0
      BY <1>2, <1>3, <1>4, <3>1, TokenAbsent
    <3>3. From(rest, 1) = rest
      <4>1. <<>> \in Words /\ Len(<<>>) = 0 /\ rest = <<>> \o rest
        BY <1>2, EmptySeq, ConcatEmptySeq DEF Words
      <4>2. From(rest, Len(<<>>) + 1) = rest
        BY <1>2, <4>1, JoinedParts
      <4> QED BY <4>1, <4>2
    <3>4. HostAndPort(view) = From(view, pos + 1)
      BY DEF HostAndPort, at
    <3>5. HostAndPort(view) = rest
      BY <3>1, <3>2, <3>3, <3>4
    <3> QED BY <1>2, <1>3, <2>1, <3>1, <3>2, <3>5
  <2>2. CASE userInfo # <<>>
    <3>1. view = userInfo \o (at \o rest)
      <4>1. view = (userInfo \o at) \o rest
        BY <1>5, <2>2
      <4>2. userInfo \in Seq(Token) /\ at \in Seq(Token) /\ rest \in Seq(Token)
        BY <1>1, <1>2, <1>4 DEF Words
      <4>3. (userInfo \o at) \o rest = userInfo \o (at \o rest)
        BY <4>2, ConcatAssociative
      <4> QED BY <4>1, <4>3
    <3>2. /\ view \in Words /\ Len(userInfo) \in Nat
          /\ pos = Len(userInfo) + 1
          /\ Upto(view, Len(userInfo) + 1) = userInfo
          /\ From(view, Len(userInfo) + 2) = rest
      BY <1>0, <1>1, <1>2, <3>1, TokenIsCut DEF at
    <3>3. HostAndPort(view) = From(view, pos + 1)
      BY DEF HostAndPort, at
    <3>4. pos # 0 /\ pos + 1 = Len(userInfo) + 2
      BY <3>2
    <3>5. ASSUME NEW c \in {"/", "?", "#"} PROVE Without(view, c)
      <4>1. c # "@"
        OBVIOUS
      <4>2. Without(at, c)
        BY <1>4, <4>1 DEF Without
      <4>3. at \o rest \in Words /\ Without(at \o rest, c)
        BY <1>2, <1>3, <1>4, <4>2, JoinWithout, ConcatProperties DEF Words
      <4> QED BY <1>1, <3>1, <4>3, JoinWithout
    <3> QED BY <3>2, <3>3, <3>4, <3>5
  <2> QED BY <2>1, <2>2
<1>7. /\ view \in Words
      /\ Without(view, "/") /\ Without(view, "?") /\ Without(view, "#")
      /\ (IF pos = 0 THEN <<>> ELSE Upto(view, pos)) = userInfo
      /\ Before(HostAndPort(view), PortPos(HostAndPort(view))) = host
      /\ After(HostAndPort(view), PortPos(HostAndPort(view))) = port
      /\ PortPos(HostAndPort(view)) = 0 <=> port = <<>>
  BY <1>2, <1>6
<1> QED BY <1>7 DEF view, userInfo, host, port, at

(* What is behind the "://" of a composed URL is read as it was composed.  *)
LEMMA RestIsParsed ==
  ASSUME NEW parts, Composable(parts)
  PROVE  LET view1 == ((Authority(parts) \o parts.path) \o Led("?", parts.query))
                        \o Led("#", parts.fragment)
         IN view1 \in Words /\ ParseRest(parts.scheme, view1) = UrlOf(parts)
<1> DEFINE view4 == Authority(parts)
           view3 == view4 \o parts.path
           view2 == view3 \o Led("?", parts.query)
           view1 == view2 \o Led("#", parts.fragment)
<1>0. "?" \in Token /\ "#" \in Token /\ "/" \in Token /\ "?" # "#"
  BY SeparatorTokens
<1>1. /\ parts.path \in Words /\ parts.query \in Words /\ parts.fragment \in Words
      /\ Without(parts.path, "?") /\ Without(parts.path, "#") /\ Without(parts.query, "#")
      /\ parts.path # <<>> => Head(parts.path) = "/"
  BY Components DEF Composable
<1>2. /\ view4 \in Words
      /\ Without(view4, "/") /\ Without(view4, "?") /\ Without(view4, "#")
      /\ (IF Find(view4, <<"@">>, 1) = 0 THEN <<>> ELSE Upto(view4, Find(view4, <<"@">>, 1)))
           = parts.userInfo
      /\ Before(HostAndPort(view4), PortPos(HostAndPort(view4))) = parts.host
      /\ After(HostAndPort(view4), PortPos(HostAndPort(view4))) = parts.port
      /\ PortPos(HostAndPort(view4)) = 0 <=> parts.port = <<>>
  BY AuthorityIsCut
<1> HIDE DEF view4
<1>3. /\ view3 \in Words /\ Without(view3, "?") /\ Without(view3, "#")
      /\ Before(view3, Find(view3, <<"/">>, 1)) = view4
      /\ (IF Find(view3, <<"/">>, 1) = 0 THEN <<"/">> ELSE From(view3, Find(view3, <<"/">>, 1)))
           = IF parts.path = <<>> THEN <<"/">> ELSE parts.path
  <2>1. view3 \in Words
    BY <1>1, <1>2, ConcatProperties DEF Words
  <2>2. Without(view3, "?") /\ Without(view3, "#")
    BY <1>1, <1>2, JoinWithout
  <2> QED BY <1>1, <1>2, <2>1, <2>2, PathIsCut
<1> HIDE DEF view3
<1>4. /\ view2 \in Words /\ Without(view2, "#")
      /\ Before(view2, Find(view2, <<"?">>, 1)) = view3
      /\ After(view2, Find(view2, <<"?">>, 1)) = parts.query
  <2>1. Led("?", parts.query) \in Words /\ Without(Led("?", parts.query), "#")
    BY <1>0, <1>1, LedWithout
  <2>2. Without(view2, "#")
    BY <1>3, <2>1, JoinWithout
  <2> QED BY <1>0, <1>1, <1>3, <2>2, LedIsCut
<1> HIDE DEF view2
<1>5. /\ view1 \in Words
      /\ Before(view1, Find(view1, <<"#">>, 1)) = view2
      /\ After(view1, Find(view1, <<"#">>, 1)) = parts.fragment
  <2>1. "#" \in Token /\ view2 \in Words /\ parts.fragment \in Words /\ Without(view2, "#")
    BY <1>0, <1>1, <1>4
  <2> QED BY <2>1, LedIsCut
<1> HIDE DEF view1
<1>6. ParseRest(parts.scheme, view1) =
        [valid |-> TRUE, scheme |-> parts.scheme, fragment |-> parts.fragment,
         query |-> parts.query,
         path |-> IF parts.path = <<>> THEN <<"/">> ELSE parts.path,
         userInfo |-> parts.userInfo,
         port |-> IF PortPos(HostAndPort(view4)) = 0 THEN DefaultPort(parts.scheme) ELSE parts.port,
         host |-> parts.host]
  BY <1>2, <1>3, <1>4, <1>5, Zenon DEF ParseRest
<1>7. ParseRest(parts.scheme, view1) = UrlOf(parts)
  BY <1>2, <1>6 DEF UrlOf
<1> QED BY <1>5, <1>7 DEF view1, view2, view3, view4

(* The "://" is found behind a scheme, which has no ':'.                   *)
LEMMA PatternIsCut ==
  ASSUME NEW a \in Words, NEW b \in Words, NEW t \in Words, Len(t) > 0, Without(a, t[1])
  PROVE  LET s == (a \o t) \o b IN
         /\ Len(a) \in Nat
         /\ Find(s, t, 1) = Len(a) + 1
         /\ Upto(s, Len(a) + 1) = a
         /\ From(s, Len(a) + Len(t) + 1) = b
<1> DEFINE u == a \o t
           v == t \o b
           s == u \o b
<1>1. Joined(a, t, u) /\ Joined(t, b, v)
  BY Joins
<1>2. s = a \o v
  BY ConcatAssociative DEF Words
<1> HIDE DEF u, v
<1>3. u \in Words /\ v \in Words
  BY <1>1 DEF Joined
<1>4. Joined(u, b, s)
  BY <1>3, Joins
<1>5. s \in Words
  BY <1>4 DEF Joined
<1>6. From(s, Len(u) + 1) = b
  BY <1>3, <1>5, JoinedParts
<1> HIDE DEF s
<1>7. Upto(s, Len(a) + 1) = a
  BY <1>2, <1>3, <1>5, JoinedParts
<1>8. /\ Len(a) \in Nat /\ Len(t) \in Nat /\ Len(b) \in Nat
      /\ Len(u) = Len(a) + Len(t) /\ Len(s) = Len(a) + Len(t) + Len(b)
      /\ \A i \in 1..Len(a) : s[i] = a[i]
      /\ \A i \in 1..Len(t) : s[Len(a) + i] = t[i]
  BY <1>1, <1>4 DEF Joined
<1>9. Find(s, t, 1) = Len(a) + 1
  <2>1. At(s, t, Len(a) + 1)
    <3>1. ASSUME NEW k \in 1..Len(t) PROVE s[Len(a) + 1 + k - 1] = t[k]
      <4>1. Len(a) + 1 + k - 1 = Len(a) + k
        BY <1>8
      <4> QED BY <1>8, <4>1
    <3> QED BY <3>1 DEF At
  <2>2. ASSUME NEW i \in 1..(Len(a) + 1 - 1) PROVE ~At(s, t, i)
    <3>1. i \in 1..Len(a) /\ i + 1 - 1 = i /\ 1 \in 1..Len(t)
      BY <1>8
    <3>2. s[i] # t[1]
      BY <1>8, <3>1 DEF Without
    <3> QED BY <3>1, <3>2 DEF At
  <2>3. Len(a) + 1 \in 1..(Len(s) - Len(t) + 1) /\ 1 \in Nat \ {0} /\ t # <<>>
    BY <1>8
  <2> DEFINE place == Len(a) + 1
  <2>4. /\ place \in 1..(Len(s) - Len(t) + 1) /\ At(s, t, place)
        /\ \A i \in 1..(place - 1) : ~At(s, t, i)
    BY <2>1, <2>2, <2>3
  <2> HIDE DEF place
  <2>5. Find(s, t, 1) = place
    BY <1>5, <2>3, <2>4, FindsAt
  <2> QED BY <2>5 DEF place
<1> QED BY <1>6, <1>7, <1>8, <1>9 DEF s, u

LEMMA ThreeTokens ==
  ASSUME NEW c \in Token, NEW d \in Token, NEW e \in Token
  PROVE  <<c, d, e>> \in Words /\ Len(<<c, d, e>>) = 3 /\ <<c, d, e>>[1] = c
<1>1. <<c, d, e>> = Append(Append(Append(<<>>, c), d), e)
  OBVIOUS
<1>2. Append(Append(Append(<<>>, c), d), e) \in Seq(Token)
  BY EmptySeq, AppendProperties
<1> QED BY <1>1, <1>2 DEF Words

(* parse is inverse to composing.                                          *)
THEOREM ParseComposed ==
  ASSUME NEW parts, Composable(parts)
  PROVE  ParseUrl(ComposeUrl(parts)) = UrlOf(parts)
<1> DEFINE flag == <<":", "/", "/">>
           rest == ((Authority(parts) \o parts.path) \o Led("?", parts.query))
                     \o Led("#", parts.fragment)
           s == (parts.scheme \o flag) \o rest
           pos == Find(s, flag, 1)
<1>1. flag \in Words /\ Len(flag) = 3 /\ flag[1] = ":"
  BY SeparatorTokens, ThreeTokens
<1>2. rest \in Words /\ ParseRest(parts.scheme, rest) = UrlOf(parts)
  BY RestIsParsed
<1>3. parts.scheme \in Words /\ Without(parts.scheme, ":") /\ CheckScheme(parts.scheme)
  BY Components DEF Composable
<1>4. ComposeUrl(parts) = s
  BY DEF ComposeUrl
<1> HIDE DEF flag, rest
<1>5. /\ Len(parts.scheme) \in Nat
      /\ pos = Len(parts.scheme) + 1
      /\ Upto(s, Len(parts.scheme) + 1) = parts.scheme
      /\ From(s, Len(parts.scheme) + Len(flag) + 1) = rest
  <2>1. Len(flag) > 0 /\ Without(parts.scheme, flag[1])
    BY <1>1, <1>3
  <2> QED BY <1>1, <1>2, <1>3, <2>1, PatternIsCut
<1> HIDE DEF s
<1>6. pos # 0 /\ Upto(s, pos) = parts.scheme /\ From(s, pos + 3) = rest
  <2>1. pos # 0 /\ pos + 3 = Len(parts.scheme) + Len(flag) + 1
    BY <1>1, <1>5
  <2> QED BY <1>5, <2>1
<1>7. ParseUrl(s) = ParseRest(parts.scheme, rest)
  BY <1>3, <1>6 DEF ParseUrl, flag
<1> QED BY <1>2, <1>4, <1>7

-----------------------------------------------------------------------------
(* The header of an answer ends where the server ended it.                 *)

(* The texts put together so far, one after the other                      *)
Cat(f, seqs, n) ==
  f = [i \in 1..n |-> IF i = 1 THEN seqs[i] ELSE f[i-1] \o seqs[i]]

LEMMA CatExtends ==
  ASSUME NEW seqs, NEW k \in Nat, NEW f, Cat(f, seqs, k)
  PROVE  \E g : Cat(g, seqs, k + 1)
<1> DEFINE g == [i \in 1..(k + 1) |-> IF i = 1 THEN seqs[i] ELSE f[i-1] \o seqs[i]]
<1>1. \A i \in 1..k : f[i] = IF i = 1 THEN seqs[i] ELSE f[i-1] \o seqs[i]
  BY DEF Cat
<1>2. \A i \in 1..k : i \in 1..(k + 1) /\ g[i] = f[i]
  BY <1>1
<1>3. \A i \in 1..(k + 1) : i = 1 \/ g[i-1] = f[i-1]
  <2>1. \A i \in 1..(k + 1) : i = 1 \/ i - 1 \in 1..k
    OBVIOUS
  <2> HIDE DEF g
  <2> QED BY <1>2, <2>1
<1>4. g = [i \in 1..(k + 1) |-> IF i = 1 THEN seqs[i] ELSE g[i-1] \o seqs[i]]
  <2>1. \A i \in 1..(k + 1) : (IF i = 1 THEN seqs[i] ELSE f[i-1] \o seqs[i])
                               = (IF i = 1 THEN seqs[i] ELSE g[i-1] \o seqs[i])
    <3> HIDE DEF g
    <3> QED BY <1>3
  <2> DEFINE h == g
  <2>2. h = [i \in 1..(k + 1) |-> IF i = 1 THEN seqs[i] ELSE f[i-1] \o seqs[i]]
    OBVIOUS
  <2> HIDE DEF h
  <2>3. h = [i \in 1..(k + 1) |-> IF i = 1 THEN seqs[i] ELSE h[i-1] \o seqs[i]]
    <3>1. \A i \in 1..(k + 1) : (IF i = 1 THEN seqs[i] ELSE f[i-1] \o seqs[i])
                               = (IF i = 1 THEN seqs[i] ELSE h[i-1] \o seqs[i])
      BY <2>1 DEF h
    <3> QED BY <2>2, <3>1
  <2> QED BY <2>3 DEF h
<1> HIDE DEF g
<1> QED BY <1>4 DEF Cat

LEMMA CatExists ==
  ASSUME NEW seqs, NEW n \in Nat
  PROVE  \E f : Cat(f, seqs, n)
<1> DEFINE T == {k \in 0..n : ~\E f : Cat(f, seqs, k)}
<1>1. SUFFICES ASSUME T # {} PROVE FALSE
  <2>1. n \in 0..n
    OBVIOUS
  <2> QED BY <2>1
<1>2. PICK m \in T : \A k \in T : m <= k
  <2>1. T \subseteq Nat
    OBVIOUS
  <2> HIDE DEF T
  <2> QED BY <1>1, <2>1, LeastNatural
<1>3. m # 0
  <2>1. Cat([i \in 1..0 |-> 0], seqs, 0)
    BY DEF Cat
  <2> QED BY <2>1
<1>4. m - 1 \in 0..n /\ m - 1 \in Nat /\ m - 1 \notin T /\ m - 1 + 1 = m
  BY <1>2, <1>3
<1>5. PICK f : Cat(f, seqs, m - 1)
  BY <1>4
<1> DEFINE k == m - 1
<1>6. \E g : Cat(g, seqs, k + 1)
  <2>1. k \in Nat /\ Cat(f, seqs, k)
    BY <1>4, <1>5
  <2> HIDE DEF k
  <2> QED BY <2>1, CatExtends
<1>7. \E g : Cat(g, seqs, m)
  BY <1>4, <1>6
<1> QED BY <1>7

LEMMA Flattens ==
  ASSUME NEW seqs, Len(seqs) \in Nat, Len(seqs) # 0
  PROVE  \E f : Cat(f, seqs, Len(seqs)) /\ FlattenSeq(seqs) = f[Len(seqs)]
<1> DEFINE flatten == CHOOSE f : f = [i \in 1..Len(seqs) |-> IF i = 1 THEN seqs[i] ELSE f[i-1] \o seqs[i]]
<1>1. flatten = [i \in 1..Len(seqs) |-> IF i = 1 THEN seqs[i] ELSE flatten[i-1] \o seqs[i]]
  <2>1. \E f : f = [i \in 1..Len(seqs) |-> IF i = 1 THEN seqs[i] ELSE f[i-1] \o seqs[i]]
    BY CatExists, Zenon DEF Cat
  <2> QED BY <2>1, Zenon
<1>2. FlattenSeq(seqs) = flatten[Len(seqs)]
  BY Zenon DEF FlattenSeq
<1> QED BY <1>1, <1>2, Zenon DEF Cat

LEMMA LineEndTokens ==
  /\ CRLF \in Words /\ Len(CRLF) = 2 /\ CRLF[1] = CR /\ CRLF[2] = LF
  /\ CR # LF
<1>1. CRLF = Append(Append(<<>>, CR), LF)
  BY DEF CRLF
<1>2. Append(Append(<<>>, CR), LF) \in Seq(Token)
  BY EmptySeq, AppendProperties, SeparatorTokens
<1>3. Len(CRLF) = 2 /\ CRLF[1] = CR /\ CRLF[2] = LF
  BY DEF CRLF
<1>4. CR # LF
  BY DEF CR, LF
<1> QED BY <1>1, <1>2, <1>3, <1>4 DEF Words

(* Lines that are not empty: no line end follows another.                  *)
Lines(f) ==
  /\ f \in Words /\ Len(f) \in Nat /\ Len(f) >= 2
  /\ f[1] # CR /\ f[Len(f) - 1] = CR /\ f[Len(f)] = LF
  /\ \A i \in 1..(Len(f) - 2) : f[i] = CR => f[i + 2] # CR

LEMMA OneLine ==
  ASSUME NEW line \in Words, line # <<>>, Without(line, CR)
  PROVE  Lines(line \o CRLF)
<1> DEFINE f == line \o CRLF
<1>1. Joined(line, CRLF, f)
  BY LineEndTokens, Joins
<1>2. Len(line) \in Nat /\ Len(line) # 0
  BY LenProperties, EmptySeq DEF Words
<1> HIDE DEF f
<1>3. /\ f \in Words /\ Len(f) = Len(line) + 2
      /\ \A i \in 1..Len(line) : f[i] # CR
      /\ f[Len(line) + 1] = CR /\ f[Len(line) + 2] = LF
  BY <1>1, <1>2, LineEndTokens DEF Joined, Without
<1>4. Lines(f)
  BY <1>2, <1>3 DEF Lines
<1> QED BY <1>4 DEF f

LEMMA MoreLines ==
  ASSUME NEW a, Lines(a), NEW b, Lines(b)
  PROVE  Lines(a \o b)
<1> DEFINE f == a \o b
<1>1. Joined(a, b, f)
  BY Joins DEF Lines
<1> HIDE DEF f
<1>2. /\ Len(a) \in Nat /\ Len(b) \in Nat /\ Len(a) >= 2 /\ Len(b) >= 2
      /\ f \in Words /\ Len(f) = Len(a) + Len(b)
      /\ \A i \in 1..Len(a) : f[i] = a[i]
      /\ \A i \in 1..Len(b) : f[Len(a) + i] = b[i]
  BY <1>1 DEF Joined, Lines
<1>3. f[1] # CR
  BY <1>2 DEF Lines
<1>4. f[Len(f) - 1] = CR /\ f[Len(f)] = LF
  <2>1. Len(b) - 1 \in 1..Len(b) /\ Len(b) \in 1..Len(b)
        /\ Len(f) - 1 = Len(a) + (Len(b) - 1)
    BY <1>2
  <2>2. f[Len(a) + (Len(b) - 1)] = b[Len(b) - 1] /\ f[Len(a) + Len(b)] = b[Len(b)]
    BY <1>2, <2>1
  <2> QED BY <1>2, <2>1, <2>2 DEF Lines
<1>5. ASSUME NEW i \in 1..(Len(f) - 2), f[i] = CR PROVE f[i + 2] # CR
  <2>1. CASE i <= Len(a) - 2
    <3>1. i \in 1..(Len(a) - 2) /\ i \in 1..Len(a) /\ i + 2 \in 1..Len(a)
      BY <1>2, <2>1
    <3>2. a[i] = CR /\ f[i + 2] = a[i + 2]
      BY <1>2, <1>5, <3>1
    <3> QED BY <3>1, <3>2 DEF Lines
  <2>2. CASE i = Len(a) - 1
    <3>1. i + 2 = Len(a) + 1 /\ 1 \in 1..Len(b)
      BY <1>2, <2>2
    <3>2. f[i + 2] = b[1]
      BY <1>2, <3>1
    <3> QED BY <3>2 DEF Lines
  <2>3. CASE i = Len(a)
    <3>1. f[i] = LF
      BY <1>2, <2>3 DEF Lines
    <3> QED BY <1>5, <3>1, LineEndTokens
  <2>4. CASE i > Len(a)
    <3> DEFINE k == i - Len(a)
    <3>1. k \in 1..(Len(b) - 2) /\ k \in 1..Len(b) /\ k + 2 \in 1..Len(b)
          /\ i = Len(a) + k /\ i + 2 = Len(a) + (k + 2)
      BY <1>2, <2>4
    <3> HIDE DEF k
    <3>2. b[k] = CR /\ f[i + 2] = b[k + 2]
      BY <1>2, <1>5, <3>1
    <3> QED BY <3>1, <3>2 DEF Lines
  <2> QED BY <1>2, <2>1, <2>2, <2>3, <2>4
<1>6. Lines(f)
  BY <1>2, <1>3, <1>4, <1>5 DEF Lines
<1> QED BY <1>6 DEF f

LEMMA AllLines ==
  ASSUME NEW seqs, NEW n \in Nat \ {0}, \A i \in 1..n : Lines(seqs[i]),
         NEW f, Cat(f, seqs, n)
  PROVE  Lines(f[n])
<1> DEFINE T == {k \in 1..n : ~Lines(f[k])}
<1>0. \A i \in 1..n : f[i] = IF i = 1 THEN seqs[i] ELSE f[i-1] \o seqs[i]
  BY DEF Cat
<1>1. SUFFICES ASSUME T # {} PROVE FALSE
  <2>1. n \in 1..n
    OBVIOUS
  <2> QED BY <2>1
<1>2. PICK m \in T : \A k \in T : m <= k
  <2>1. T \subseteq Nat
    OBVIOUS
  <2> HIDE DEF T
  <2> QED BY <1>1, <2>1, LeastNatural
<1>3. m # 1
  <2>1. 1 \in 1..n /\ f[1] = seqs[1]
    BY <1>0
  <2> QED BY <1>2, <2>1
<1>4. m \in 1..n /\ m - 1 \in 1..n /\ m - 1 \notin T
  BY <1>2, <1>3
<1>5. Lines(f[m - 1]) /\ Lines(seqs[m]) /\ f[m] = f[m - 1] \o seqs[m]
  BY <1>0, <1>3, <1>4
<1>6. Lines(f[m])
  BY <1>5, MoreLines
<1> QED BY <1>2, <1>6

(* The text of a message: its lines, the empty line and the body           *)
AnswerLines(sent) == Ended(sent.lines)
AnswerText(sent) == AnswerLines(sent) \o CRLF \o sent.body

(* Lines that are not empty and have no line end in them                   *)
Plain(lines) ==
  /\ lines \in Seq(Words) /\ Len(lines) \in Nat \ {0}
  /\ \A k \in 1..Len(lines) :
       lines[k] \in Words /\ Len(lines[k]) \in Nat \ {0} /\ Without(lines[k], CR)

(* A message of such lines                                                 *)
Written(sent) ==
  Plain(sent.lines) /\ DOMAIN sent.lines = 1..Len(sent.lines) /\ sent.body \in Words

LEMMA AnswerHasLines ==
  ASSUME NEW sent, Written(sent)
  PROVE  Lines(AnswerLines(sent)) /\ sent.body \in Words
<1> DEFINE lines == sent.lines
           seqs == [i \in DOMAIN lines |-> lines[i] \o CRLF]
<1>1. Plain(lines) /\ DOMAIN lines = 1..Len(lines)
  BY DEF Written
<1> HIDE DEF lines
<1>2. Len(lines) \in Nat \ {0}
  BY <1>1 DEF Plain
<1>3. \A i \in 1..Len(lines) : Lines(seqs[i])
  <2>1. ASSUME NEW i \in 1..Len(lines) PROVE Lines(seqs[i])
    <3> DEFINE line == lines[i]
    <3>1. line \in Words /\ line # <<>> /\ Without(line, CR)
      BY <1>1, EmptySeq DEF Plain
    <3>2. seqs[i] = line \o CRLF
      BY <1>1
    <3> HIDE DEF line, seqs
    <3> QED BY <3>1, <3>2, OneLine
  <2> QED BY <2>1
<1>4. Len(seqs) = Len(lines)
  <2>1. DOMAIN seqs = 1..Len(lines)
    BY <1>1
  <2>2. seqs \in Seq({seqs[i] : i \in 1..Len(lines)})
    <3>1. seqs \in [1..Len(lines) -> {seqs[i] : i \in 1..Len(lines)}]
      BY <1>1
    <3> HIDE DEF seqs
    <3> QED BY <1>2, <3>1, SeqDef
  <2> HIDE DEF seqs
  <2> QED BY <1>2, <2>1, <2>2, LenProperties
<1> HIDE DEF seqs
<1>5. PICK f : Cat(f, seqs, Len(seqs)) /\ FlattenSeq(seqs) = f[Len(seqs)]
  BY <1>2, <1>4, Flattens
<1>6. Lines(FlattenSeq(seqs))
  BY <1>2, <1>3, <1>4, <1>5, AllLines
<1>7. sent.body \in Words
  BY DEF Written
<1> QED BY <1>6, <1>7 DEF AnswerLines, Ended, seqs, lines

(* So a server writes.                                                     *)
LEMMA AnswerWritten ==
  ASSUME NEW sent \in Answers
  PROVE  Written(sent)
<1> DEFINE lines == sent.lines
<1>1. /\ lines \in Seq(Seq(STRING)) /\ lines # <<>>
      /\ \A i \in DOMAIN lines : lines[i] # <<>> /\ Free(lines[i], {CR, LF})
  BY AnswerAssumption
<1> HIDE DEF lines
<1>2. /\ Len(lines) \in Nat \ {0} /\ DOMAIN lines = 1..Len(lines)
      /\ \A i \in 1..Len(lines) : lines[i] \in Seq(STRING)
  BY <1>1, LenProperties, EmptySeq, ElementOfSeq
<1>3. ASSUME NEW i \in 1..Len(lines)
      PROVE  lines[i] \in Words /\ Len(lines[i]) \in Nat \ {0} /\ Without(lines[i], CR)
  <2> DEFINE line == lines[i]
  <2>1. line \in Words /\ line # <<>> /\ Free(line, {CR, LF}) /\ CR \in {CR, LF}
    BY <1>1, <1>2, WordsOfStrings
  <2> HIDE DEF line
  <2>2. Without(line, CR)
    BY <2>1, FreeIsWithout
  <2>3. Len(line) \in Nat \ {0}
    BY <2>1, LenProperties, EmptySeq DEF Words
  <2> QED BY <2>1, <2>2, <2>3 DEF line
<1>4. lines \in Seq(Words)
  <2>1. lines \in [1..Len(lines) -> Words]
    <3>1. lines = [i \in 1..Len(lines) |-> lines[i]]
      BY <1>1, <1>2, LenProperties
    <3> QED BY <1>3, <3>1
  <2> DEFINE n == Len(lines)
  <2>2. n \in Nat /\ lines \in [1..n -> Words]
    BY <1>2, <2>1
  <2> HIDE DEF n
  <2> QED BY <2>2, SeqDef
<1>5. Plain(lines)
  BY <1>2, <1>3, <1>4 DEF Plain
<1>6. sent.body \in Words
  BY AnswerAssumption, WordsOfStrings
<1> QED BY <1>2, <1>5, <1>6 DEF lines, Written

(* The empty line: the end of a line twice                                 *)
LEMMA EmptyLineTokens ==
  LET e == CRLF \o CRLF IN
  /\ e \in Words /\ Len(e) = 4 /\ e # <<>>
  /\ e[1] = CR /\ e[2] = LF /\ e[3] = CR /\ e[4] = LF
<1> DEFINE e == CRLF \o CRLF
<1>1. Joined(CRLF, CRLF, e)
  BY LineEndTokens, Joins
<1> HIDE DEF e
<1>2. /\ e \in Words /\ Len(e) = 2 + 2
      /\ \A i \in 1..2 : e[i] = CRLF[i]
      /\ \A i \in 1..2 : e[2 + i] = CRLF[i]
  BY <1>1, LineEndTokens DEF Joined
<1>3. e[1] = CRLF[1] /\ e[2] = CRLF[2] /\ e[2 + 1] = CRLF[1] /\ e[2 + 2] = CRLF[2]
  BY <1>2
<1>4. e \in Words /\ Len(e) = 4 /\ e # <<>> /\ e[1] = CR /\ e[2] = LF /\ e[3] = CR /\ e[4] = LF
  BY <1>2, <1>3, LineEndTokens
<1> QED BY <1>4 DEF e

(* Behind lines that are not empty, the first empty line is the one the    *)
(* server wrote to end them, whatever the body is.                         *)
LEMMA EmptyLineFound ==
  ASSUME NEW f, Lines(f), NEW body \in Words
  PROVE  LET s == (f \o CRLF) \o body IN
         /\ s \in Words
         /\ Find(s, CRLF \o CRLF, 1) = Len(f) - 1
         /\ From(s, Len(f) + 3) = body
<1> DEFINE u == f \o CRLF
           s == u \o body
           e == CRLF \o CRLF
           place == Len(f) - 1
<1>1. Joined(f, CRLF, u)
  BY LineEndTokens, Joins DEF Lines
<1>2. u \in Words
  BY <1>1 DEF Joined
<1>3. Joined(u, body, s)
  <2> HIDE DEF u
  <2> QED BY <1>2, Joins
<1>4. s \in Words
  BY <1>3 DEF Joined
<1>5. From(s, Len(u) + 1) = body
  <2> HIDE DEF u
  <2> QED BY <1>2, <1>4, JoinedParts
<1>6. /\ e \in Words /\ Len(e) = 4 /\ e # <<>>
      /\ e[1] = CR /\ e[2] = LF /\ e[3] = CR /\ e[4] = LF
  BY EmptyLineTokens
<1> HIDE DEF u, s, e
<1>7. /\ Len(f) \in Nat /\ Len(f) >= 2 /\ Len(body) \in Nat
      /\ Len(u) = Len(f) + 2 /\ Len(s) = Len(f) + 2 + Len(body)
      /\ \A i \in 1..Len(f) : s[i] = f[i]
      /\ s[Len(f) + 1] = CR /\ s[Len(f) + 2] = LF
  <2>1. /\ Len(f) \in Nat /\ Len(f) >= 2 /\ Len(body) \in Nat
        /\ Len(u) = Len(f) + 2 /\ Len(s) = Len(u) + Len(body)
        /\ \A i \in 1..Len(f) : u[i] = f[i]
        /\ \A i \in 1..2 : u[Len(f) + i] = CRLF[i]
        /\ \A i \in 1..Len(u) : s[i] = u[i]
    BY <1>1, <1>3, LineEndTokens DEF Joined, Lines
  <2>2. u[Len(f) + 1] = CR /\ u[Len(f) + 2] = LF
    BY <2>1, LineEndTokens
  <2>3. Len(f) + 1 \in 1..Len(u) /\ Len(f) + 2 \in 1..Len(u)
        /\ \A i \in 1..Len(f) : i \in 1..Len(u)
    BY <2>1
  <2> QED BY <2>1, <2>2, <2>3
<1>8. At(s, e, place)
  <2>1. s[Len(f) - 1] = CR /\ s[Len(f)] = LF
    BY <1>7 DEF Lines
  <2>2. ASSUME NEW k \in 1..4 PROVE s[place + k - 1] = e[k]
    <3>1. CASE k = 1
      BY <1>6, <1>7, <2>1, <3>1
    <3>2. CASE k = 2
      BY <1>6, <1>7, <2>1, <3>2
    <3>3. CASE k = 3
      BY <1>6, <1>7, <2>1, <3>3
    <3>4. CASE k = 4
      BY <1>6, <1>7, <2>1, <3>4
    <3> QED BY <3>1, <3>2, <3>3, <3>4
  <2> HIDE DEF place
  <2> QED BY <1>6, <2>2 DEF At
<1>9. ASSUME NEW i \in 1..(place - 1) PROVE ~At(s, e, i)
  <2>1. i \in 1..(Len(f) - 2) /\ i \in 1..Len(f) /\ i + 2 \in 1..Len(f)
    BY <1>7
  <2>2. SUFFICES ASSUME At(s, e, i) PROVE FALSE
    OBVIOUS
  <2>3. s[i + 1 - 1] = e[1] /\ s[i + 3 - 1] = e[3]
    <3>1. 1 \in 1..Len(e) /\ 3 \in 1..Len(e)
      BY <1>6
    <3> QED BY <2>2, <3>1 DEF At
  <2>4. i + 1 - 1 = i /\ i + 3 - 1 = i + 2
    BY <2>1
  <2>5. f[i] = CR /\ f[i + 2] = CR
    BY <1>6, <1>7, <2>1, <2>3, <2>4
  <2> QED BY <2>1, <2>5 DEF Lines
<1>10. place \in 1..(Len(s) - Len(e) + 1) /\ 1 \in Nat \ {0}
  BY <1>6, <1>7
<1> HIDE DEF place
<1>11. Find(s, e, 1) = place
  BY <1>4, <1>6, <1>8, <1>9, <1>10, FindsAt
<1>12. Len(u) + 1 = Len(f) + 3
  BY <1>7
<1> QED BY <1>4, <1>5, <1>11, <1>12 DEF s, u, e, place

(* A text that was cut is the text again.                                  *)
LEMMA PartsJoin ==
  ASSUME NEW s \in Words, NEW pos \in Nat \ {0}, pos <= Len(s) + 1
  PROVE  /\ Upto(s, pos) \in Words /\ From(s, pos) \in Words
         /\ Len(Upto(s, pos)) = pos - 1
         /\ Upto(s, pos) \o From(s, pos) = s
<1> DEFINE a == Upto(s, pos)
           b == From(s, pos)
           t == a \o b
<1>1. Parted(s, pos, a, b)
  BY Parts
<1> HIDE DEF a, b
<1>2. a \in Words /\ b \in Words /\ Len(a) = pos - 1
  BY <1>1 DEF Parted
<1>3. Joined(a, b, t)
  BY <1>2, Joins
<1> HIDE DEF t
<1>4. Len(s) \in Nat /\ t \in Words /\ Len(t) = Len(s)
  BY <1>1, <1>3, LenProperties DEF Parted, Joined, Words
<1>5. ASSUME NEW i \in 1..Len(s) PROVE t[i] = s[i]
  <2>1. CASE i <= pos - 1
    BY <1>1, <1>3, <2>1 DEF Parted, Joined
  <2>2. CASE i > pos - 1
    <3> DEFINE k == i - (pos - 1)
    <3>1. k \in 1..Len(b) /\ k \in 1..(Len(s) - pos + 1)
          /\ i = Len(a) + k /\ i = pos + k - 1
      BY <1>1, <1>4, <2>2 DEF Parted
    <3> HIDE DEF k
    <3>2. t[Len(a) + k] = b[k] /\ b[k] = s[pos + k - 1]
      BY <1>1, <1>3, <3>1 DEF Parted, Joined
    <3> QED BY <3>1, <3>2
  <2> QED BY <1>4, <2>1, <2>2
<1>6. t = s
  BY <1>4, <1>5, SeqEqual DEF Words
<1> QED BY <1>2, <1>6 DEF t, a, b

(* What a text has beyond a place, more of it read or not                  *)
LEMMA FromJoined ==
  ASSUME NEW a \in Words, NEW b \in Words, NEW pos \in Nat \ {0}, pos <= Len(a) + 1
  PROVE  From(a \o b, pos) = From(a, pos) \o b
<1> DEFINE x == Upto(a, pos)
           y == From(a, pos)
           z == y \o b
           s == a \o b
<1>1. x \in Words /\ y \in Words /\ Len(x) = pos - 1 /\ x \o y = a
  BY PartsJoin
<1> HIDE DEF x, y
<1>2. s = x \o z
  <2>1. s = (x \o y) \o b
    BY <1>1
  <2>2. (x \o y) \o b = x \o (y \o b)
    <3>1. x \in Words /\ y \in Words
      BY <1>1
    <3> QED BY <3>1, Associates, ZenonT(30)
  <2> QED BY <2>1, <2>2
<1>3. s \in Words /\ z \in Words
  BY <1>1, ConcatProperties DEF Words
<1> HIDE DEF s, z
<1>4. From(s, Len(x) + 1) = z
  BY <1>1, <1>2, <1>3, JoinedParts
<1>5. Len(x) + 1 = pos
  BY <1>1
<1> QED BY <1>4, <1>5 DEF s, z, y

(* The lines f, and the empty line behind them, are the header of a.       *)
HeaderStands(f, a) ==
  /\ HeaderEnd(a) = Len(f) - 1 /\ Len(f) + 2 <= Len(a)
  /\ Lines(f) /\ \A i \in 1..Len(f) : a[i] = f[i]

(* The empty line found in what was read is the one behind the lines.      *)
LEMMA HeaderPlace ==
  ASSUME NEW sent, Written(sent), NEW a \in Words, NEW b \in Words,
         a \o b = AnswerText(sent), HeaderEnd(a) # 0
  PROVE  HeaderStands(AnswerLines(sent), a)
<1> DEFINE f == AnswerLines(sent)
           body == sent.body
           u == f \o CRLF
           s == u \o body
           e == CRLF \o CRLF
           end == Find(a, e, 1)
<1>1. Lines(f) /\ body \in Words
  BY AnswerHasLines
<1>2. s = a \o b
  BY DEF AnswerText
<1>3. /\ e \in Words /\ Len(e) = 4 /\ e # <<>>
  BY EmptyLineTokens
<1> HIDE DEF f
<1>14. Joined(f, CRLF, u)
  BY <1>1, LineEndTokens, Joins DEF Lines
<1> HIDE DEF body, e
<1>4. s \in Words /\ Find(s, e, 1) = Len(f) - 1
  BY <1>1, EmptyLineFound DEF e
<1> HIDE DEF u
<1>15. Joined(u, body, s)
  BY <1>1, <1>14, Joins DEF Joined
<1> HIDE DEF s
<1>5. Joined(a, b, s)
  BY <1>2, Joins
<1>6. Found(a, e, 1, end)
  BY <1>3, FindIsFound
<1>7. end # 0
  BY DEF HeaderEnd, e
<1> HIDE DEF end
<1>8. /\ Len(a) \in Nat /\ Len(b) \in Nat /\ Len(s) = Len(a) + Len(b)
      /\ \A i \in 1..Len(a) : s[i] = a[i]
      /\ end \in 1..(Len(a) - 3) /\ At(a, e, end)
      /\ \A i \in 1..(end - 1) : ~At(a, e, i)
  BY <1>3, <1>5, <1>6, <1>7 DEF Joined, Found
<1>9. ASSUME NEW i \in 1..(Len(a) - 3) PROVE At(s, e, i) <=> At(a, e, i)
  <2>1. \A k \in 1..4 : i + k - 1 \in 1..Len(a)
    BY <1>8
  <2>2. \A k \in 1..4 : s[i + k - 1] = a[i + k - 1]
    BY <1>8, <2>1
  <2> QED BY <1>3, <2>2 DEF At
<1>10. Find(s, e, 1) = end
  <2>1. At(s, e, end) /\ \A i \in 1..(end - 1) : ~At(s, e, i)
    <3>1. \A i \in 1..(end - 1) : i \in 1..(Len(a) - 3)
      BY <1>8
    <3> QED BY <1>8, <1>9, <3>1
  <2>2. end \in 1..(Len(s) - Len(e) + 1) /\ 1 \in Nat \ {0}
    BY <1>3, <1>8
  <2> QED BY <1>3, <1>4, <2>1, <2>2, FindsAt
<1>11. end = Len(f) - 1 /\ Len(f) + 2 <= Len(a) /\ Len(f) \in Nat
  BY <1>1, <1>4, <1>8, <1>10 DEF Lines
<1>12. \A i \in 1..Len(f) : a[i] = f[i]
  <2>1. \A i \in 1..Len(f) : s[i] = u[i] /\ u[i] = f[i]
    BY <1>14, <1>15 DEF Joined
  <2> QED BY <1>8, <1>11, <2>1
<1>13. HeaderEnd(a) = end
  BY DEF HeaderEnd, end, e
<1> QED BY <1>1, <1>11, <1>12, <1>13 DEF HeaderStands, f

(* Behind the empty line of what was read the body begins.                 *)
LEMMA BodyBegins ==
  ASSUME NEW sent, Written(sent), NEW a \in Words, NEW b \in Words,
         a \o b = AnswerText(sent), HeaderEnd(a) # 0
  PROVE  From(a, HeaderEnd(a) + Len(CRLF \o CRLF)) \o b = sent.body
<1> DEFINE f == AnswerLines(sent)
           body == sent.body
           s == (f \o CRLF) \o body
           pos == HeaderEnd(a) + 4
<1>1. Lines(f) /\ body \in Words
  BY AnswerHasLines
<1>2. s = a \o b
  BY DEF AnswerText
<1>3. Len(CRLF \o CRLF) = 4
  BY EmptyLineTokens
<1>4. HeaderEnd(a) = Len(f) - 1 /\ Len(f) + 2 <= Len(a)
  BY HeaderPlace DEF HeaderStands
<1> HIDE DEF f, body
<1>5. From(s, Len(f) + 3) = body
  BY <1>1, EmptyLineFound
<1> HIDE DEF s
<1>6. pos = Len(f) + 3 /\ pos \in Nat \ {0} /\ pos <= Len(a) + 1
  <2>1. Len(f) \in Nat /\ Len(a) \in Nat
    BY <1>1, LenProperties DEF Lines, Words
  <2> QED BY <1>4, <2>1
<1> HIDE DEF pos
<1>7. From(a \o b, pos) = From(a, pos) \o b
  BY <1>6, FromJoined
<1>8. From(a, pos) \o b = body
  BY <1>2, <1>5, <1>6, <1>7
<1>9. HeaderEnd(a) + Len(CRLF \o CRLF) = pos
  BY <1>3 DEF pos
<1> QED BY <1>8, <1>9 DEF body

-----------------------------------------------------------------------------
(* split takes lines apart again. *)

Piece(t) == IF t = <<>> THEN <<>> ELSE <<t>>

(* What split finds from a place on, when rest is what it finds elsewhere  *)
SplitFrom(rest, s, d, start) ==
  LET end == Find(s, d, start)
  IN IF end = 0 THEN Piece(From(s, start))
     ELSE Piece(SubSeq(s, start, end - 1)) \o rest[end + Len(d)]

Splits(g, s, d, low) ==
  g = [start \in low..(Len(s) + 1) |-> SplitFrom(g, s, d, start)]

(* split looks only further on. *)
LEMMA SplitLooksOn ==
  ASSUME NEW s \in Words, NEW d \in Words, d # <<>>, NEW start \in 1..(Len(s) + 1)
  PROVE  \/ Find(s, d, start) = 0
         \/ /\ Find(s, d, start) \in start..Len(s)
            /\ Find(s, d, start) + Len(d) \in (start + 1)..(Len(s) + 1)
<1>1. Found(s, d, start, Find(s, d, start))
  BY FindIsFound
<1>2. Len(s) \in Nat /\ Len(d) \in Nat /\ Len(d) # 0
  BY LenProperties, EmptySeq DEF Words
<1> DEFINE found == Find(s, d, start)
<1> HIDE DEF found
<1>3. \/ found = 0
      \/ found \in start..Len(s) /\ found + Len(d) \in (start + 1)..(Len(s) + 1)
  BY <1>1, <1>2 DEF Found, found
<1> QED BY <1>3 DEF found

LEMMA SplitExtends ==
  ASSUME NEW s \in Words, NEW d \in Words, d # <<>>, NEW low \in 1..(Len(s) + 1),
         NEW f, Splits(f, s, d, low + 1)
  PROVE  \E g : Splits(g, s, d, low)
<1> DEFINE D == low..(Len(s) + 1)
           g == [start \in D |-> SplitFrom(f, s, d, start)]
<1>0. Len(s) \in Nat
  BY LenProperties DEF Words
<1>1. \A start \in (low + 1)..(Len(s) + 1) : f[start] = SplitFrom(f, s, d, start)
  BY DEF Splits
<1>2. \A start \in (low + 1)..(Len(s) + 1) : start \in D /\ g[start] = f[start]
  BY <1>1
<1> HIDE DEF g
<1>3. \A start \in D : SplitFrom(f, s, d, start) = SplitFrom(g, s, d, start)
  <2>1. ASSUME NEW start \in D PROVE SplitFrom(f, s, d, start) = SplitFrom(g, s, d, start)
    <3> DEFINE end == Find(s, d, start)
    <3>1. end = 0 \/ end + Len(d) \in (start + 1)..(Len(s) + 1)
      <4>1. start \in 1..(Len(s) + 1)
        BY <1>0
      <4> QED BY <4>1, SplitLooksOn
    <3> HIDE DEF end
    <3>2. end = 0 \/ g[end + Len(d)] = f[end + Len(d)]
      <4>1. \A x \in (start + 1)..(Len(s) + 1) : x \in (low + 1)..(Len(s) + 1)
        BY <1>0
      <4> QED BY <1>2, <3>1, <4>1
    <3> QED BY <3>2 DEF SplitFrom, end
  <2> QED BY <2>1
<1>4. g = [start \in D |-> SplitFrom(f, s, d, start)]
  BY DEF g
<1>5. g = [start \in D |-> SplitFrom(g, s, d, start)]
  BY <1>3, <1>4
<1> QED BY <1>5 DEF Splits

LEMMA SplitExists ==
  ASSUME NEW s \in Words, NEW d \in Words, d # <<>>
  PROVE  \E f : Splits(f, s, d, 1)
<1> DEFINE n == Len(s) + 1
           T == {k \in 0..n : ~\E f : Splits(f, s, d, n + 1 - k)}
<1>0. n \in Nat \ {0}
  BY LenProperties DEF Words
<1>1. SUFFICES ASSUME T # {} PROVE FALSE
  <2>1. n \in 0..n /\ n \notin T /\ n + 1 - n = 1
    BY <1>0
  <2> QED BY <2>1
<1>2. PICK m \in T : \A k \in T : m <= k
  <2>1. T \subseteq Nat
    BY <1>0
  <2> HIDE DEF T
  <2> QED BY <1>1, <2>1, LeastNatural
<1>3. m # 0
  <2>1. (n + 1 - 0)..(Len(s) + 1) = {}
    BY <1>0
  <2>2. Splits([i \in {} |-> 0], s, d, n + 1 - 0)
    BY <2>1 DEF Splits
  <2> QED BY <2>2
<1>4. m - 1 \in 0..n /\ m - 1 \notin T
  BY <1>0, <1>2, <1>3
<1> DEFINE low == n + 1 - m
<1>5. low \in 1..(Len(s) + 1) /\ n + 1 - (m - 1) = low + 1
  BY <1>0, <1>2, <1>3
<1>6. \E f : Splits(f, s, d, low + 1)
  BY <1>4, <1>5
<1>7. \E g : Splits(g, s, d, low)
  <2> HIDE DEF low, n
  <2> QED BY <1>5, <1>6, SplitExtends
<1> QED BY <1>2, <1>7

(* split as its steps, each of which finds words *)
LEMMA SplitSteps ==
  ASSUME NEW s \in Words, NEW d \in Words, d # <<>>
  PROVE  \E f : Splits(f, s, d, 1) /\ Split(s, d) = f[1]
<1> DEFINE piece(t) == IF t = <<>> THEN <<>> ELSE <<t>>
           tokens == CHOOSE f : f = [start \in 1..(Len(s) + 1) |->
                       LET end == Find(s, d, start)
                       IN IF end = 0 THEN piece(From(s, start))
                          ELSE piece(SubSeq(s, start, end - 1)) \o f[end + Len(d)]]
<1>1. Splits(tokens, s, d, 1)
  BY SplitExists, Zenon DEF Splits, SplitFrom, Piece
<1>2. Split(s, d) = tokens[1]
  BY Zenon DEF Split
<1> QED BY <1>1, <1>2

LEMMA OnePiece ==
  ASSUME NEW S, NEW x \in S
  PROVE  <<x>> \in Seq(S) /\ Len(<<x>>) = 1 /\ <<x>>[1] = x
<1>1. <<x>> = Append(<<>>, x)
  OBVIOUS
<1>2. Append(<<>>, x) \in Seq(S)
  BY EmptySeq, AppendProperties
<1> QED BY <1>1, <1>2

LEMMA PieceFirst ==
  ASSUME NEW S, NEW x \in S, NEW r \in Seq(S)
  PROVE  /\ <<x>> \o r \in Seq(S)
         /\ Len(r) \in Nat /\ Len(<<x>> \o r) = 1 + Len(r)
         /\ (<<x>> \o r)[1] = x
         /\ \A i \in 1..Len(r) : (<<x>> \o r)[1 + i] = r[i]
<1> DEFINE p == <<x>>
           q == p \o r
<1>1. p \in Seq(S) /\ Len(p) = 1 /\ p[1] = x
  BY OnePiece
<1> HIDE DEF p
<1>2. /\ q \in Seq(S) /\ Len(r) \in Nat /\ Len(q) = Len(p) + Len(r)
      /\ \A i \in 1..(Len(p) + Len(r)) : q[i] = IF i <= Len(p) THEN p[i] ELSE r[i - Len(p)]
  BY <1>1, ConcatProperties, LenProperties
<1> HIDE DEF q
<1>3. q[1] = x
  BY <1>1, <1>2
<1>4. ASSUME NEW i \in 1..Len(r) PROVE q[1 + i] = r[i]
  <2>1. 1 + i \in 1..(Len(p) + Len(r)) /\ ~(1 + i <= Len(p)) /\ 1 + i - Len(p) = i
    BY <1>1, <1>2
  <2>2. q[1 + i] = r[1 + i - Len(p)]
    BY <1>2, <2>1
  <2> QED BY <2>1, <2>2
<1>5. /\ q \in Seq(S) /\ Len(r) \in Nat /\ Len(q) = 1 + Len(r)
      /\ q[1] = x /\ \A i \in 1..Len(r) : q[1 + i] = r[i]
  BY <1>1, <1>2, <1>3, <1>4
<1> QED BY <1>5 DEF q, p

(* What is cut out in front of a place *)
LEMMA CutOut ==
  ASSUME NEW s \in Words, NEW start \in 1..(Len(s) + 1), NEW end \in start..(Len(s) + 1)
  PROVE  LET t == SubSeq(s, start, end - 1) IN
         /\ t \in Words /\ Len(t) = end - start
         /\ \A i \in 1..(end - start) : t[i] = s[start + i - 1]
<1>0. Len(s) \in Nat /\ s \in [1..Len(s) -> Token]
  BY LenProperties DEF Words
<1>1. start \in Int /\ end - 1 \in Int /\ \A i \in start..(end - 1) : s[i] \in Token
  BY <1>0
<1> DEFINE t == SubSeq(s, start, end - 1)
<1>2. /\ t \in Seq(Token)
      /\ Len(t) = IF start <= end - 1 THEN end - 1 - start + 1 ELSE 0
      /\ \A i \in 1..(end - 1 - start + 1) : t[i] = s[start + i - 1]
  BY <1>1, SubSeqProperties
<1> HIDE DEF t
<1>3. t \in Words /\ Len(t) = end - start /\ \A i \in 1..(end - start) : t[i] = s[start + i - 1]
  BY <1>0, <1>2 DEF Words
<1> QED BY <1>3 DEF t

(* A sequence over a set is one over a larger set.                         *)
LEMMA SeqOfFewer ==
  ASSUME NEW S, NEW T, S \subseteq T, NEW s \in Seq(S)
  PROVE  s \in Seq(T)
<1>1. Len(s) \in Nat /\ s \in [1..Len(s) -> S]
  BY LenProperties
<1> DEFINE n == Len(s)
<1>2. n \in Nat /\ s \in [1..n -> T]
  BY <1>1
<1> HIDE DEF n
<1> QED BY <1>2, SeqDef

(* What is cut out of a text has the tokens of the text.                   *)
LEMMA CutIn ==
  ASSUME NEW T, NEW s \in Seq(T), NEW start \in Nat \ {0}, NEW end \in Int, end <= Len(s)
  PROVE  SubSeq(s, start, end) \in Seq(T)
<1>1. Len(s) \in Nat /\ s \in [1..Len(s) -> T]
  BY LenProperties
<1>2. start \in Int /\ \A i \in start..end : s[i] \in T
  BY <1>1
<1> QED BY <1>2, SubSeqProperties

(* Both parts of a text cut at a place have its tokens.                    *)
LEMMA PartsIn ==
  ASSUME NEW T, NEW s \in Seq(T), NEW pos \in Nat \ {0}, pos <= Len(s) + 1
  PROVE  Upto(s, pos) \in Seq(T) /\ From(s, pos) \in Seq(T)
<1>1. Len(s) \in Nat
  BY LenProperties
<1> DEFINE m == pos - 1
           n == Len(s)
<1>2. m \in Int /\ m <= Len(s) /\ n \in Int /\ n <= Len(s) /\ 1 \in Nat \ {0}
  BY <1>1
<1>3. SubSeq(s, 1, m) \in Seq(T)
  <2> HIDE DEF m, n
  <2> QED BY <1>2, CutIn
<1>4. SubSeq(s, pos, n) \in Seq(T)
  <2> HIDE DEF m, n
  <2> QED BY <1>2, CutIn DEF n
<1> QED BY <1>3, <1>4 DEF Upto, From

(* A piece that split keeps                                                *)
LEMMA PieceIn ==
  ASSUME NEW S, NEW t \in S
  PROVE  Piece(t) \in Seq(S)
<1>1. CASE t = <<>>
  BY <1>1, EmptySeq DEF Piece
<1>2. CASE t # <<>>
  BY <1>2, OnePiece DEF Piece
<1> QED BY <1>1, <1>2

(* The pieces of a text have its tokens.                                   *)
LEMMA SplitIn ==
  ASSUME NEW T, T \subseteq Token, NEW s \in Seq(T), NEW d \in Words, d # <<>>,
         NEW f, Splits(f, s, d, 1)
  PROVE  \A start \in 1..(Len(s) + 1) : f[start] \in Seq(Seq(T))
<1> DEFINE n == Len(s) + 1
           Bad == {k \in 0..(n - 1) : f[n - k] \notin Seq(Seq(T))}
<1>0. n \in Nat \ {0} /\ Len(s) \in Nat /\ s \in Words
  BY LenProperties, SeqOfFewer DEF Words
<1>1. \A start \in 1..n : f[start] = SplitFrom(f, s, d, start)
  BY DEF Splits
<1>2. Bad = {}
  <2>1. SUFFICES ASSUME Bad # {} PROVE FALSE
    OBVIOUS
  <2>2. PICK m \in Bad : \A k \in Bad : m <= k
    <3>1. Bad \subseteq Nat
      BY <1>0
    <3> HIDE DEF Bad
    <3> QED BY <2>1, <3>1, LeastNatural
  <2> DEFINE start == n - m
             end == Find(s, d, start)
  <2>3. start \in 1..n /\ start \in 1..(Len(s) + 1)
    BY <1>0, <2>2
  <2>4. \A x \in (start + 1)..n : f[x] \in Seq(Seq(T))
    <3>1. ASSUME NEW x \in (start + 1)..n PROVE f[x] \in Seq(Seq(T))
      <4>1. n - x \in 0..(n - 1) /\ n - x < m /\ n - (n - x) = x
        BY <1>0, <2>2, <2>3
      <4>2. n - x \notin Bad
        BY <2>2, <4>1
      <4> QED BY <4>1, <4>2
    <3> QED BY <3>1
  <2>5. f[start] = SplitFrom(f, s, d, start)
    BY <1>1, <2>3
  <2>6. f[start] \notin Seq(Seq(T))
    BY <2>2
  <2> HIDE DEF start
  <2>7. \/ end = 0
        \/ end \in start..Len(s) /\ end + Len(d) \in (start + 1)..(Len(s) + 1)
    BY <1>0, <2>3, SplitLooksOn
  <2>8. CASE end = 0
    <3>1. f[start] = Piece(From(s, start))
      BY <2>5, <2>8 DEF SplitFrom
    <3>2. From(s, start) \in Seq(T)
      BY <1>0, <2>3, PartsIn
    <3> QED BY <2>6, <3>1, <3>2, PieceIn
  <2>9. CASE end # 0
    <3> DEFINE last == end - 1
    <3>1. f[start] = Piece(SubSeq(s, start, last)) \o f[end + Len(d)]
      BY <2>5, <2>9 DEF SplitFrom
    <3> HIDE DEF end
    <3>2. start \in Nat \ {0} /\ last \in Int /\ last <= Len(s)
          /\ f[end + Len(d)] \in Seq(Seq(T))
      BY <1>0, <2>3, <2>4, <2>7, <2>9
    <3> HIDE DEF last
    <3>3. Piece(SubSeq(s, start, last)) \in Seq(Seq(T))
      BY <3>2, CutIn, PieceIn
    <3> QED BY <2>6, <3>1, <3>2, <3>3, ConcatProperties
  <2> QED BY <2>8, <2>9
<1>3. ASSUME NEW start \in 1..n PROVE f[start] \in Seq(Seq(T))
  <2> DEFINE k == n - start
  <2>1. k \in 0..(n - 1) /\ n - k = start
    BY <1>0
  <2> HIDE DEF k
  <2>2. k \notin Bad
    BY <1>2, Zenon
  <2>3. f[n - k] \in Seq(Seq(T))
    BY <2>1, <2>2
  <2> QED BY <2>1, <2>3
<1> QED BY <1>3

(* Split makes texts.                                                      *)
LEMMA SplitWords ==
  ASSUME NEW s \in Words, NEW d \in Words, d # <<>>, NEW f, Splits(f, s, d, 1)
  PROVE  \A start \in 1..(Len(s) + 1) : f[start] \in Seq(Words)
BY SplitIn DEF Words

-----------------------------------------------------------------------------
(* The lines of u begin at the places st, each but the last with its end.  *)
Rows(u, lines, st) ==
  /\ st[1] = 1
  /\ \A k \in 1..Len(lines) :
       /\ st[k] \in 1..Len(u) /\ st[k] + Len(lines[k]) <= Len(u) + 1
       /\ \A i \in 1..Len(lines[k]) : u[st[k] + i - 1] = lines[k][i]
  /\ \A k \in 1..(Len(lines) - 1) :
       /\ st[k + 1] = st[k] + Len(lines[k]) + 2
       /\ u[st[k] + Len(lines[k])] = CR /\ u[st[k] + Len(lines[k]) + 1] = LF
  /\ st[Len(lines)] + Len(lines[Len(lines)]) = Len(u) + 1

LEMMA RowFound ==
  ASSUME NEW u \in Words, NEW lines, NEW st, Plain(lines), Rows(u, lines, st),
         NEW k \in 1..Len(lines), NEW next, next = st[k] + Len(lines[k])
  PROVE  /\ Find(u, CRLF, st[k]) = IF k = Len(lines) THEN 0 ELSE next
         /\ SubSeq(u, st[k], next - 1) = lines[k]
<1> DEFINE line == lines[k]
           start == st[k]
<1>0. Len(u) \in Nat
  BY LenProperties DEF Words
<1>1. /\ line \in Words /\ Len(line) \in Nat \ {0} /\ Without(line, CR)
      /\ start \in 1..Len(u) /\ next = start + Len(line) /\ next <= Len(u) + 1
      /\ \A i \in 1..Len(line) : u[start + i - 1] = line[i]
  BY DEF Plain, Rows
<1>2. k # Len(lines) => u[next] = CR /\ u[next + 1] = LF /\ next + 2 \in 1..Len(u)
  <2>1. ASSUME k # Len(lines) PROVE u[next] = CR /\ u[next + 1] = LF /\ next + 2 \in 1..Len(u)
    <3>1. k \in 1..(Len(lines) - 1) /\ k + 1 \in 1..Len(lines)
      BY <2>1 DEF Plain
    <3> QED BY <3>1 DEF Rows
  <2> QED BY <2>1
<1>3. k = Len(lines) => next = Len(u) + 1
  BY DEF Rows
<1> HIDE DEF line, start
<1>4. SubSeq(u, start, next - 1) = line
  <2> DEFINE t == SubSeq(u, start, next - 1)
  <2>1. start \in 1..(Len(u) + 1) /\ next \in start..(Len(u) + 1) /\ next - start = Len(line)
    BY <1>0, <1>1
  <2>2. t \in Words /\ Len(t) = next - start /\ \A i \in 1..(next - start) : t[i] = u[start + i - 1]
    BY <2>1, CutOut
  <2> HIDE DEF t
  <2>3. t = line
    BY <1>1, <2>1, <2>2, SeqEqual DEF Words
  <2> QED BY <2>3 DEF t
<1>5. ASSUME NEW i \in start..(next - 1) PROVE ~At(u, CRLF, i)
  <2> DEFINE j == i - start + 1
  <2>1. j \in 1..Len(line) /\ start + j - 1 = i /\ i + 1 - 1 = i
    BY <1>0, <1>1
  <2>2. u[i] # CR
    BY <1>1, <2>1 DEF Without
  <2>3. 1 \in 1..Len(CRLF) /\ CRLF[1] = CR
    BY LineEndTokens
  <2> QED BY <2>1, <2>2, <2>3 DEF At
<1>6. CRLF \in Words /\ Len(CRLF) = 2 /\ CRLF[1] = CR /\ CRLF[2] = LF /\ CRLF # <<>>
  BY LineEndTokens
<1>7. start \in Nat \ {0}
  BY <1>0, <1>1
<1>8. CASE k = Len(lines)
  <2>1. \A i \in start..(Len(u) - Len(CRLF) + 1) : ~At(u, CRLF, i)
    <3>1. \A i \in start..(Len(u) - Len(CRLF) + 1) : i \in start..(next - 1)
      BY <1>0, <1>1, <1>3, <1>6, <1>8
    <3> QED BY <1>5, <3>1
  <2>2. Find(u, CRLF, start) = 0
    BY <1>6, <1>7, <2>1, FindsNot
  <2> QED BY <1>4, <1>8, <2>2 DEF line, start
<1>9. CASE k # Len(lines)
  <2>1. At(u, CRLF, next)
    <3>1. next + 1 - 1 = next /\ next + 2 - 1 = next + 1 /\ 1..Len(CRLF) = {1, 2}
      BY <1>1, <1>6
    <3>2. u[next] = CR /\ u[next + 1] = LF
      BY <1>2, <1>9
    <3> QED BY <1>6, <3>1, <3>2 DEF At
  <2>2. next \in start..(Len(u) - Len(CRLF) + 1)
    BY <1>0, <1>1, <1>2, <1>6, <1>9, SMTT(20)
  <2>3. Find(u, CRLF, start) = next
    BY <1>5, <1>6, <1>7, <2>1, <2>2, FindsAt
  <2> QED BY <1>4, <1>9, <2>3 DEF line, start
<1> QED BY <1>8, <1>9

(* split takes the lines apart again.                                      *)
LEMMA RowsSplit ==
  ASSUME NEW u \in Words, NEW lines, NEW st, Plain(lines), Rows(u, lines, st)
  PROVE  Split(u, CRLF) = lines
<1> DEFINE n == Len(lines)
<1>0. CRLF \in Words /\ Len(CRLF) = 2 /\ CRLF # <<>> /\ Len(u) \in Nat /\ n \in Nat \ {0}
  <2>1. CRLF \in Words /\ Len(CRLF) = 2
    BY LineEndTokens
  <2>2. CRLF # <<>>
    BY <2>1
  <2>3. Len(u) \in Nat
    BY LenProperties DEF Words
  <2> QED BY <2>1, <2>2, <2>3 DEF Plain
<1>1. PICK f : Splits(f, u, CRLF, 1) /\ Split(u, CRLF) = f[1]
  BY <1>0, SplitSteps
<1>2. \A start \in 1..(Len(u) + 1) : f[start] \in Seq(Words)
  BY <1>0, <1>1, SplitWords
<1>3. \A start \in 1..(Len(u) + 1) : f[start] = SplitFrom(f, u, CRLF, start)
  BY <1>1 DEF Splits
<1> DEFINE Rest(k) ==
             /\ f[st[k]] \in Seq(Words) /\ Len(f[st[k]]) = n - k + 1
             /\ \A i \in 1..(n - k + 1) : f[st[k]][i] = lines[k + i - 1]
<1>4. ASSUME NEW k \in 1..n, k = n PROVE Rest(k)
  <2> DEFINE start == st[k]
             line == lines[k]
  <2>1. /\ start \in 1..(Len(u) + 1) /\ line \in Words /\ line # <<>>
        /\ start + Len(line) = Len(u) + 1
    BY <1>0, <1>4 DEF Rows, Plain
  <2>2. Find(u, CRLF, start) = 0 /\ SubSeq(u, start, (start + Len(line)) - 1) = line
    <3>0. k \in 1..Len(lines)
      OBVIOUS
    <3> DEFINE next == start + Len(line)
    <3>1. next = start + Len(line)
      OBVIOUS
    <3> HIDE DEF next
    <3>2. /\ Find(u, CRLF, start) = IF k = Len(lines) THEN 0 ELSE next
          /\ SubSeq(u, start, next - 1) = line
      BY <3>0, <3>1, RowFound
    <3>3. Find(u, CRLF, start) = 0
      BY <1>4, <3>2
    <3> QED BY <3>2, <3>3 DEF next
  <2> HIDE DEF start, line
  <2>3. From(u, start) = line
    <3>1. (start + Len(line)) - 1 = Len(u)
      BY <1>0, <2>1
    <3> QED BY <2>2, <3>1 DEF From
  <2>4. f[start] = <<line>>
    BY <1>3, <2>1, <2>2, <2>3 DEF SplitFrom, Piece
  <2>5. f[start] \in Seq(Words) /\ Len(f[start]) = 1 /\ f[start][1] = line
    BY <2>1, <2>4, OnePiece
  <2>6. /\ f[start] \in Seq(Words) /\ Len(f[start]) = n - k + 1
        /\ \A i \in 1..(n - k + 1) : f[start][i] = lines[k + i - 1]
    <3>1. n - k + 1 = 1 /\ k + 1 - 1 = k
      BY <1>0, <1>4
    <3> QED BY <2>5, <3>1 DEF line
  <2> QED BY <2>6 DEF start
<1>5. ASSUME NEW k \in 1..(n - 1), Rest(k + 1) PROVE Rest(k)
  <2> DEFINE start == st[k]
             line == lines[k]
             next == start + Len(line)
             r == f[st[k + 1]]
  <2>1. /\ start \in 1..(Len(u) + 1) /\ line \in Words /\ line # <<>> /\ Len(line) \in Nat
        /\ st[k + 1] = next + 2
    <3>1. k \in 1..n
      BY <1>0
    <3> QED BY <1>0, <3>1 DEF Rows, Plain
  <2>2. Find(u, CRLF, start) = next /\ SubSeq(u, start, next - 1) = line
    <3>1. k \in 1..n /\ k # n /\ next = start + Len(line)
      BY <1>0
    <3> HIDE DEF next
    <3> QED BY <3>1, RowFound
  <2>3. /\ r \in Seq(Words) /\ Len(r) = n - k
        /\ \A i \in 1..(n - k) : r[i] = lines[k + i]
    <3>1. n - (k + 1) + 1 = n - k /\ \A i \in 1..(n - k) : k + 1 + i - 1 = k + i
      BY <1>0
    <3> QED BY <1>5, <3>1
  <2> HIDE DEF start, line, r
  <2>4. f[start] = <<line>> \o r
    <3>1. next # 0 /\ f[next + Len(CRLF)] = r
      BY <1>0, <2>1 DEF r
    <3> HIDE DEF next
    <3> QED BY <1>3, <2>1, <2>2, <3>1 DEF SplitFrom, Piece
  <2> DEFINE q == f[start]
  <2>5. /\ q \in Seq(Words) /\ Len(q) = 1 + Len(r) /\ q[1] = line
        /\ \A i \in 1..Len(r) : q[1 + i] = r[i]
    <3> DEFINE p == <<line>> \o r
    <3>0. line \in Words /\ r \in Seq(Words)
      BY <2>1, <2>3
    <3>1. /\ p \in Seq(Words) /\ Len(p) = 1 + Len(r) /\ p[1] = line
          /\ \A i \in 1..Len(r) : p[1 + i] = r[i]
      BY <3>0, PieceFirst
    <3>2. q = p
      BY <2>4
    <3> HIDE DEF p, q
    <3> QED BY <3>1, <3>2
  <2> HIDE DEF q
  <2>6. ASSUME NEW i \in 1..(n - k + 1) PROVE q[i] = lines[k + i - 1]
    <3>1. CASE i = 1
      <4>1. k + i - 1 = k
        BY <1>0, <3>1
      <4> QED BY <2>5, <3>1, <4>1 DEF line
    <3>2. CASE i # 1
      <4> DEFINE j == i - 1
      <4>1. j \in 1..(n - k) /\ 1 + j = i /\ k + j = k + i - 1
        BY <1>0, <3>2
      <4> HIDE DEF j
      <4>2. q[1 + j] = r[j] /\ r[j] = lines[k + j]
        BY <2>3, <2>5, <4>1
      <4> QED BY <4>1, <4>2
    <3> QED BY <3>1, <3>2
  <2>7. Len(q) = n - k + 1
    BY <1>0, <2>3, <2>5
  <2> QED BY <2>5, <2>6, <2>7 DEF q, start
<1>6. Rest(1)
  <2> DEFINE T == {m \in 0..(n - 1) : ~Rest(n - m)}
  <2>1. T = {}
    <3>1. SUFFICES ASSUME T # {} PROVE FALSE
      OBVIOUS
    <3>2. PICK m \in T : \A j \in T : m <= j
      <4>1. T \subseteq Nat
        BY <1>0
      <4> HIDE DEF T
      <4> QED BY <3>1, <4>1, LeastNatural
    <3> HIDE DEF Rest
    <3>3. m # 0
      <4>1. n - 0 = n /\ n \in 1..n
        BY <1>0
      <4> QED BY <1>4, <3>2, <4>1
    <3>4. m - 1 \in 0..(n - 1) /\ m - 1 \notin T /\ n - (m - 1) = (n - m) + 1 /\ n - m \in 1..(n - 1)
      BY <1>0, <3>2, <3>3
    <3>5. Rest((n - m) + 1)
      BY <3>4
    <3>6. Rest(n - m)
      BY <1>5, <3>4, <3>5
    <3> QED BY <3>2, <3>6
  <2> HIDE DEF Rest
  <2>2. n - 1 \in 0..(n - 1) /\ n - (n - 1) = 1
    BY <1>0
  <2>3. n - 1 \notin T
    <3> HIDE DEF T
    <3> QED BY <2>1, Zenon
  <2> QED BY <2>2, <2>3
<1>7. f[1] = lines
  <2>1. st[1] = 1 /\ n - 1 + 1 = n /\ \A i \in 1..n : 1 + i - 1 = i
    BY <1>0 DEF Rows
  <2>2. f[1] \in Seq(Words) /\ Len(f[1]) = n /\ \A i \in 1..n : f[1][i] = lines[i]
    BY <1>6, <2>1
  <2>3. lines \in Seq(Words)
    BY DEF Plain
  <2> QED BY <2>2, <2>3, SeqEqual
<1> QED BY <1>1, <1>7

(* A line and its end, behind a text                                       *)
EndsWith(s, m, line) ==
  /\ s \in Words /\ m \in Nat /\ Len(line) \in Nat /\ Len(s) = m + Len(line) + 2
  /\ \A i \in 1..Len(line) : s[m + i] = line[i]
  /\ s[m + Len(line) + 1] = CR /\ s[m + Len(line) + 2] = LF

LEMMA FirstLaid ==
  ASSUME NEW line \in Words
  PROVE  EndsWith(line \o CRLF, 0, line)
<1> DEFINE s == line \o CRLF
<1>1. Joined(line, CRLF, s)
  BY LineEndTokens, Joins
<1> HIDE DEF s
<1>2. /\ s \in Words /\ Len(line) \in Nat /\ Len(s) = Len(line) + 2
      /\ \A i \in 1..Len(line) : s[i] = line[i]
      /\ s[Len(line) + 1] = CR /\ s[Len(line) + 2] = LF
  BY <1>1, LineEndTokens DEF Joined
<1>3. EndsWith(s, 0, line)
  <2>1. /\ 0 + Len(line) + 2 = Len(line) + 2 /\ 0 + Len(line) + 1 = Len(line) + 1
        /\ \A i \in 1..Len(line) : 0 + i = i
    BY <1>2
  <2> QED BY <1>2, <2>1 DEF EndsWith
<1> QED BY <1>3 DEF s

LEMMA NextLaid ==
  ASSUME NEW a \in Words, NEW line \in Words
  PROVE  LET s == a \o (line \o CRLF) IN
         EndsWith(s, Len(a), line) /\ \A i \in 1..Len(a) : s[i] = a[i]
<1> DEFINE b == line \o CRLF
           s == a \o b
           m == Len(line)
           n == Len(a)
<1>1. EndsWith(b, 0, line)
  BY FirstLaid
<1>2. b \in Words
  BY <1>1 DEF EndsWith
<1>3. Joined(a, b, s)
  <2> HIDE DEF b
  <2> QED BY <1>2, Joins
<1> HIDE DEF b, s
<1>4. /\ m \in Nat /\ Len(b) = m + 2
      /\ \A i \in 1..m : b[i] = line[i]
      /\ b[m + 1] = CR /\ b[m + 2] = LF
  <2>1. \A i \in 1..m : 0 + i = i
    OBVIOUS
  <2>2. m \in Nat
    BY <1>1 DEF EndsWith
  <2>3. 0 + m + 2 = m + 2 /\ 0 + m + 1 = m + 1
    BY <2>2
  <2> QED BY <1>1, <2>1, <2>2, <2>3 DEF EndsWith
<1>5. /\ s \in Words /\ n \in Nat /\ Len(s) = n + Len(b)
      /\ \A i \in 1..n : s[i] = a[i]
      /\ \A i \in 1..Len(b) : s[n + i] = b[i]
  BY <1>3 DEF Joined
<1> HIDE DEF m, n
<1>6. s[n + (m + 1)] = CR /\ s[n + (m + 2)] = LF
  <2>1. m + 1 \in 1..Len(b) /\ m + 2 \in 1..Len(b)
    BY <1>4
  <2> QED BY <1>4, <1>5, <2>1
<1>7. \A i \in 1..m : s[n + i] = line[i]
  BY <1>4, <1>5
<1>8. n + (m + 1) = n + m + 1 /\ n + (m + 2) = n + m + 2
  BY <1>4, <1>5
<1>9. EndsWith(s, n, line)
  BY <1>4, <1>5, <1>6, <1>7, <1>8 DEF EndsWith, m
<1> QED BY <1>5, <1>9 DEF s, b, n

(* Lines put together: the k-th stands behind b[k] tokens, also in what    *)
(* more is put behind it.                                                  *)
Laid(lines, n, f, b) ==
  /\ b[1] = 0
  /\ \A k \in 1..n : EndsWith(f[k], b[k], lines[k])
  /\ \A k \in 2..n : b[k] = Len(f[k - 1]) /\ \A i \in 1..Len(f[k - 1]) : f[k][i] = f[k - 1][i]

LEMMA CatLaid ==
  ASSUME NEW lines, NEW n \in Nat \ {0}, \A k \in 1..n : lines[k] \in Words,
         NEW seqs, \A k \in 1..n : seqs[k] = lines[k] \o CRLF,
         NEW f, Cat(f, seqs, n)
  PROVE  \E b : Laid(lines, n, f, b)
<1> DEFINE b == [k \in 1..n |-> IF k = 1 THEN 0 ELSE Len(f[k - 1])]
<1>1. \A k \in 1..n : f[k] = IF k = 1 THEN seqs[k] ELSE f[k - 1] \o seqs[k]
  BY DEF Cat
<1>2. \A k \in 1..n : b[k] = IF k = 1 THEN 0 ELSE Len(f[k - 1])
  OBVIOUS
<1> HIDE DEF b
<1>3. EndsWith(f[1], b[1], lines[1]) /\ b[1] = 0
  <2>1. 1 \in 1..n
    OBVIOUS
  <2>2. f[1] = lines[1] \o CRLF /\ b[1] = 0
    BY <1>1, <1>2, <2>1
  <2> QED BY <2>1, <2>2, FirstLaid
<1>4. ASSUME NEW k \in 2..n, f[k - 1] \in Words
      PROVE  /\ EndsWith(f[k], b[k], lines[k]) /\ b[k] = Len(f[k - 1])
             /\ \A i \in 1..Len(f[k - 1]) : f[k][i] = f[k - 1][i]
  <2>1. k \in 1..n /\ k # 1
    OBVIOUS
  <2> DEFINE a == f[k - 1]
             line == lines[k]
             s == f[k]
  <2>2. a \in Words /\ line \in Words /\ s = a \o (line \o CRLF) /\ b[k] = Len(a)
    BY <1>1, <1>2, <1>4, <2>1
  <2> HIDE DEF a, line, s
  <2>3. EndsWith(s, Len(a), line) /\ \A i \in 1..Len(a) : s[i] = a[i]
    BY <2>2, NextLaid
  <2>4. EndsWith(s, b[k], line) /\ b[k] = Len(a)
    BY <2>2, <2>3
  <2> QED BY <2>3, <2>4 DEF a, line, s
<1>5. \A k \in 1..n : f[k] \in Words
  <2> DEFINE T == {k \in 1..n : f[k] \notin Words}
  <2>1. SUFFICES ASSUME T # {} PROVE FALSE
    OBVIOUS
  <2>2. PICK m \in T : \A j \in T : m <= j
    <3>1. T \subseteq Nat
      OBVIOUS
    <3> HIDE DEF T
    <3> QED BY <2>1, <3>1, LeastNatural
  <2>3. m # 1
    BY <1>3, <2>2 DEF EndsWith
  <2>4. m \in 2..n /\ m - 1 \in 1..n
    BY <2>2, <2>3
  <2>5. m - 1 \notin T
    BY <2>2, <2>4
  <2>6. f[m - 1] \in Words
    BY <2>4, <2>5
  <2>7. f[m] \in Words
    BY <1>4, <2>4, <2>6 DEF EndsWith
  <2> QED BY <2>2, <2>7
<1>6. \A k \in 2..n : k - 1 \in 1..n
  OBVIOUS
<1>7. \A k \in 1..n : k = 1 \/ k \in 2..n
  OBVIOUS
<1>8. Laid(lines, n, f, b)
  <2>1. \A k \in 2..n : /\ EndsWith(f[k], b[k], lines[k]) /\ b[k] = Len(f[k - 1])
                          /\ \A i \in 1..Len(f[k - 1]) : f[k][i] = f[k - 1][i]
    BY <1>4, <1>5, <1>6
  <2> QED BY <1>3, <1>7, <2>1 DEF Laid
<1> QED BY <1>8

(* A text begins another.                                                  *)
Begins(s, t) == Len(s) <= Len(t) /\ \A i \in 1..Len(s) : t[i] = s[i]

LEMMA LaidStays ==
  ASSUME NEW lines, NEW n \in Nat, NEW f, NEW b, Laid(lines, n, f, b), NEW k \in 1..n,
         NEW m \in k..n
  PROVE  Begins(f[k], f[m])
<1> DEFINE Kept(j) == Begins(f[k], f[j])
           T == {j \in k..n : ~Kept(j)}
<1>0. \A i \in 1..n : Len(f[i]) \in Nat
  BY LenProperties DEF Laid, EndsWith, Words
<1>1. Kept(k)
  BY <1>0 DEF Begins
<1>2. ASSUME NEW j \in (k + 1)..n, Kept(j - 1) PROVE Kept(j)
  <2>1. j \in 2..n /\ j \in 1..n /\ j - 1 \in 1..n
    OBVIOUS
  <2> DEFINE a == f[j - 1]
             s == f[j]
             t == f[k]
  <2>2. b[j] = Len(a) /\ \A i \in 1..Len(a) : s[i] = a[i]
    BY <2>1 DEF Laid
  <2>3. Len(s) = Len(a) + Len(lines[j]) + 2 /\ Len(lines[j]) \in Nat
    BY <2>1, <2>2 DEF Laid, EndsWith
  <2>4. Len(t) <= Len(a) /\ \A i \in 1..Len(t) : a[i] = t[i]
    BY <1>2 DEF Begins
  <2>5. Len(a) \in Nat /\ Len(t) \in Nat
    BY <1>0, <2>1
  <2> HIDE DEF a, s, t
  <2>6. Len(t) <= Len(s)
    BY <2>3, <2>4, <2>5
  <2>7. \A i \in 1..Len(t) : s[i] = t[i]
    BY <2>2, <2>4, <2>5
  <2> QED BY <2>6, <2>7 DEF s, t, Begins
<1> HIDE DEF Kept
<1>3. T = {}
  <2>1. SUFFICES ASSUME T # {} PROVE FALSE
    OBVIOUS
  <2>2. PICK j \in T : \A i \in T : j <= i
    <3>1. T \subseteq Nat
      OBVIOUS
    <3> HIDE DEF T
    <3> QED BY <2>1, <3>1, LeastNatural
  <2>3. j # k
    BY <1>1, <2>2
  <2>4. j \in (k + 1)..n /\ j - 1 \in k..n
    BY <2>2, <2>3
  <2>5. j - 1 \notin T
    BY <2>2, <2>4
  <2>6. Kept(j - 1)
    BY <2>4, <2>5
  <2> QED BY <1>2, <2>2, <2>4, <2>6
<1>4. Kept(m)
  BY <1>3
<1> QED BY <1>4 DEF Kept

LEMMA LaidWithin ==
  ASSUME NEW lines, NEW n \in Nat, NEW f, NEW b, Laid(lines, n, f, b)
  PROVE  \A k \in 1..n : Begins(f[k], f[n])
<1>1. ASSUME NEW k \in 1..n
      PROVE  Begins(f[k], f[n])
  <2>1. n \in k..n
    OBVIOUS
  <2> QED BY <2>1, LaidStays
<1> QED BY <1>1

LEMMA LaidRows ==
  ASSUME NEW lines, Plain(lines), NEW n, n = Len(lines),
         NEW f, NEW b, Laid(lines, n, f, b),
         NEW u \in Words, Len(u) = Len(f[n]) - 2, \A i \in 1..Len(u) : u[i] = f[n][i]
  PROVE  \E st : Rows(u, lines, st)
<1>8. n \in Nat
  BY DEF Plain
<1>7. \A k \in 1..n : Begins(f[k], f[n])
  BY <1>8, LaidWithin
<1> DEFINE st == [k \in 1..n |-> b[k] + 1]
<1>0. /\ n \in Nat \ {0} /\ Len(u) \in Nat /\ Len(f[n]) \in Nat /\ n \in 1..n
      /\ \A k \in 1..n : lines[k] \in Words /\ Len(lines[k]) \in Nat \ {0}
  <2>1. n \in Nat \ {0} /\ \A k \in 1..n : lines[k] \in Words /\ Len(lines[k]) \in Nat \ {0}
    BY DEF Plain
  <2>2. n \in 1..n
    BY <2>1
  <2>3. f[n] \in Words
    BY <2>2 DEF Laid, EndsWith
  <2> QED BY <2>1, <2>2, <2>3, LenProperties DEF Words
<1>1. \A k \in 1..n : st[k] = b[k] + 1
  OBVIOUS
<1> HIDE DEF st
<1>2. ASSUME NEW k \in 1..n
      PROVE  /\ b[k] \in Nat /\ b[k] + Len(lines[k]) <= Len(u)
             /\ st[k] \in 1..Len(u) /\ st[k] + Len(lines[k]) <= Len(u) + 1
             /\ \A i \in 1..Len(lines[k]) : u[st[k] + i - 1] = lines[k][i]
  <2> DEFINE m == b[k]
             l == Len(lines[k])
             line == lines[k]
             s == f[k]
             t == f[n]
  <2>1. /\ m \in Nat /\ l \in Nat \ {0} /\ Len(s) = m + l + 2 /\ \A i \in 1..l : s[m + i] = line[i]
    BY <1>0 DEF Laid, EndsWith
  <2>2. Len(s) <= Len(t) /\ \A i \in 1..Len(s) : t[i] = s[i]
    BY <1>7 DEF Begins
  <2>3. Len(u) = Len(t) - 2 /\ \A i \in 1..Len(u) : u[i] = t[i]
    OBVIOUS
  <2>4. st[k] = m + 1
    BY <1>1
  <2>5. Len(t) \in Nat
    BY <1>0
  <2> HIDE DEF m, l, line, s, t
  <2>6. m + l <= Len(u) /\ st[k] \in 1..Len(u) /\ st[k] + l <= Len(u) + 1
    BY <1>0, <2>1, <2>2, <2>3, <2>4, <2>5
  <2>7. ASSUME NEW i \in 1..l PROVE u[st[k] + i - 1] = line[i]
    <3>1. st[k] + i - 1 = m + i /\ m + i \in 1..Len(u) /\ m + i \in 1..Len(s)
      BY <1>0, <2>1, <2>4, <2>6
    <3>2. s[m + i] = line[i]
      BY <2>1
    <3>3. u[m + i] = t[m + i] /\ t[m + i] = s[m + i]
      BY <2>2, <2>3, <3>1
    <3> QED BY <3>1, <3>2, <3>3
  <2> QED BY <2>1, <2>6, <2>7 DEF m, l, line
<1>3. ASSUME NEW k \in 1..(n - 1)
      PROVE  /\ st[k + 1] = st[k] + Len(lines[k]) + 2
             /\ u[st[k] + Len(lines[k])] = CR /\ u[st[k] + Len(lines[k]) + 1] = LF
  <2>0. /\ k \in 1..n /\ k + 1 \in 1..n /\ k + 1 \in 2..n /\ (k + 1) - 1 = k
        /\ n \in (k + 1)..n /\ n \in k..n
    BY <1>0
  <2> DEFINE m == b[k]
             l == Len(lines[k])
             s == f[k]
             t == f[n]
  <2>1. /\ m \in Nat /\ l \in Nat \ {0} /\ Len(s) = m + l + 2
        /\ s[m + l + 1] = CR /\ s[m + l + 2] = LF
    BY <1>0, <2>0 DEF Laid, EndsWith
  <2>2. b[k + 1] = Len(s)
    BY <2>0 DEF Laid
  <2>3. b[k + 1] + Len(lines[k + 1]) <= Len(u) /\ Len(lines[k + 1]) \in Nat \ {0}
    BY <1>0, <1>2, <2>0
  <2>4. \A i \in 1..Len(s) : t[i] = s[i]
    BY <1>7, <2>0 DEF Begins
  <2>5. \A i \in 1..Len(u) : u[i] = t[i]
    OBVIOUS
  <2>6. st[k] = m + 1 /\ st[k + 1] = b[k + 1] + 1
    BY <1>1, <2>0
  <2> DEFINE j == b[k + 1]
             h == Len(lines[k + 1])
             p == st[k]
             q == st[k + 1]
  <2>9. j = Len(s) /\ j + h <= Len(u) /\ h \in Nat \ {0} /\ p = m + 1 /\ q = j + 1
    BY <2>2, <2>3, <2>6
  <2>10. Len(u) \in Nat
    BY <1>0
  <2> HIDE DEF m, l, s, t, j, h, p, q
  <2>11. j = m + l + 2 /\ m + l + 2 <= Len(u) /\ j \in Nat
    BY <2>1, <2>9, <2>10
  <2>7. /\ q = p + l + 2
        /\ p + l = m + l + 1 /\ p + l + 1 = m + l + 2
        /\ m + l + 1 \in 1..Len(s) /\ m + l + 2 \in 1..Len(s)
        /\ m + l + 1 \in 1..Len(u) /\ m + l + 2 \in 1..Len(u)
    <3>1. q = p + l + 2
      BY <2>1, <2>9, <2>11
    <3>2. p + l = m + l + 1 /\ p + l + 1 = m + l + 2
      BY <2>1, <2>9
    <3>3. m + l + 1 \in 1..Len(s) /\ m + l + 2 \in 1..Len(s)
      BY <2>1
    <3>4. m + l + 1 \in 1..Len(u) /\ m + l + 2 \in 1..Len(u)
      BY <2>1, <2>10, <2>11
    <3> QED BY <3>1, <3>2, <3>3, <3>4
  <2>8. u[p + l] = CR /\ u[p + l + 1] = LF
    BY <2>1, <2>4, <2>5, <2>7
  <2> QED BY <2>7, <2>8 DEF l, p, q
<1>4. st[n] + Len(lines[n]) = Len(u) + 1
  <2>1. /\ b[n] \in Nat /\ Len(lines[n]) \in Nat /\ Len(f[n]) = b[n] + Len(lines[n]) + 2
        /\ st[n] = b[n] + 1
    BY <1>0, <1>1 DEF Laid, EndsWith
  <2> QED BY <1>0, <2>1
<1>5. st[1] = 1
  <2>1. 1 \in 1..n /\ b[1] = 0
    BY <1>0 DEF Laid
  <2> QED BY <1>1, <2>1
<1>6. Rows(u, lines, st)
  BY <1>2, <1>3, <1>4, <1>5 DEF Rows
<1> QED BY <1>6

(* However it was read, the header has the lines the server wrote.         *)
LEMMA HeaderLines ==
  ASSUME NEW sent, Written(sent), NEW a \in Words, NEW b \in Words,
         a \o b = AnswerText(sent), HeaderEnd(a) # 0
  PROVE  Split(Upto(a, HeaderEnd(a)), CRLF) = sent.lines
<1> DEFINE lines == sent.lines
           n == Len(lines)
           seqs == [i \in DOMAIN lines |-> lines[i] \o CRLF]
           whole == AnswerLines(sent)
           end == HeaderEnd(a)
           u == Upto(a, end)
<1>1. Plain(lines) /\ DOMAIN lines = 1..n
  BY DEF Written
<1>2. n \in Nat \ {0} /\ \A k \in 1..n : lines[k] \in Words
  BY <1>1 DEF Plain
<1>3. whole = FlattenSeq(seqs)
  BY DEF AnswerLines, Ended
<1>4. /\ end = Len(whole) - 1 /\ Len(whole) + 2 <= Len(a)
      /\ Lines(whole) /\ \A i \in 1..Len(whole) : a[i] = whole[i]
  BY HeaderPlace DEF HeaderStands
<1>5. Len(whole) \in Nat /\ Len(whole) >= 2 /\ Len(a) \in Nat
  BY <1>4, LenProperties DEF Lines, Words
<1> HIDE DEF lines, whole, end
<1>6. \A k \in 1..n : seqs[k] = lines[k] \o CRLF
  BY <1>1
<1>7. Len(seqs) = n
  <2>1. DOMAIN seqs = 1..n
    BY <1>1
  <2>2. seqs \in Seq({seqs[i] : i \in 1..n})
    <3>1. seqs \in [1..n -> {seqs[i] : i \in 1..n}]
      BY <1>1
    <3> HIDE DEF seqs, n
    <3> QED BY <1>2, <3>1, SeqDef
  <2> HIDE DEF seqs, n
  <2> QED BY <1>2, <2>1, <2>2, LenProperties
<1> HIDE DEF seqs, n
<1>8. PICK f : Cat(f, seqs, n) /\ whole = f[n]
  <2>1. \E f : Cat(f, seqs, Len(seqs)) /\ FlattenSeq(seqs) = f[Len(seqs)]
    BY <1>2, <1>7, Flattens
  <2> QED BY <1>3, <1>7, <2>1
<1>9. PICK place : Laid(lines, n, f, place)
  BY <1>2, <1>6, <1>8, CatLaid
<1>10. u \in Words /\ Len(u) = Len(f[n]) - 2 /\ \A i \in 1..Len(u) : u[i] = f[n][i]
  <2>1. end \in Nat \ {0} /\ end <= Len(a) + 1
    BY <1>4, <1>5
  <2>2. Parted(a, end, u, From(a, end))
    BY <2>1, Parts
  <2> HIDE DEF u
  <2>3. u \in Words /\ Len(u) = end - 1 /\ \A i \in 1..(end - 1) : u[i] = a[i]
    BY <2>2 DEF Parted
  <2>5. Len(u) = Len(whole) - 2 /\ Len(u) \in Nat /\ Len(u) = end - 1
    BY <1>4, <1>5, <2>3
  <2>6. \A i \in 1..Len(u) : i \in 1..Len(whole) /\ i \in 1..(end - 1)
    BY <1>5, <2>5
  <2>4. Len(u) = Len(whole) - 2 /\ \A i \in 1..Len(u) : u[i] = whole[i]
    BY <1>4, <2>3, <2>5, <2>6
  <2> QED BY <1>8, <2>3, <2>4
<1> HIDE DEF u
<1>11. n = Len(lines)
  BY DEF n
<1>12. \E st : Rows(u, lines, st)
  BY <1>1, <1>9, <1>10, <1>11, LaidRows
<1>13. Split(u, CRLF) = lines
  BY <1>1, <1>10, <1>12, RowsSplit
<1> QED BY <1>13 DEF u, lines, end

-----------------------------------------------------------------------------
(* The lines of a header are gone through in their order. *)

(* What the fold over the first k lines is built from                      *)
Folded(it, base, seq, k) ==
  it = [s \in SUBSET (1..k) |->
          IF s = {} THEN base ELSE AddField(it[s \ {Max(s)}], seq[Max(s)])]

(* The greatest of some places, and those in front of it                   *)
LEMMA GreatestPlace ==
  ASSUME NEW k \in Nat, NEW s \in SUBSET (1..k), s # {}
  PROVE  /\ Max(s) \in s /\ \A i \in s : i <= Max(s)
         /\ s \ {Max(s)} \subseteq 1..(k - 1)
<1> DEFINE T == {k - i : i \in s}
<1>0. s \subseteq 1..k /\ \A i \in s : i \in 1..k
  OBVIOUS
<1>1. T \subseteq Nat /\ T # {}
  <2>1. \A i \in s : k - i \in Nat
    BY <1>0
  <2>2. \A j \in T : j \in Nat
    BY <2>1
  <2>3. PICK i : i \in s
    OBVIOUS
  <2>4. k - i \in T
    BY <2>3
  <2> QED BY <2>2, <2>4
<1>2. PICK m \in T : \A j \in T : m <= j
  <2> HIDE DEF T
  <2> QED BY <1>1, LeastNatural
<1>3. \E x \in s : \A y \in s : x >= y
  <2>1. PICK x \in s : m = k - x
    BY <1>2
  <2>2. \A y \in s : k - x <= k - y
    BY <1>2, <2>1
  <2>3. x \in Int /\ \A y \in s : y \in Int
    BY <1>0
  <2> QED BY <2>2, <2>3
<1> DEFINE x == Max(s)
<1>4. x \in s /\ \A y \in s : x >= y
  BY <1>3 DEF Max
<1> HIDE DEF x
<1>5. x \in 1..k /\ \A y \in s : y \in 1..k /\ y <= x
  BY <1>0, <1>4
<1>6. \A y \in s \ {x} : y \in 1..(k - 1)
  BY <1>5
<1> QED BY <1>4, <1>5, <1>6 DEF x

LEMMA FoldExtends ==
  ASSUME NEW base, NEW seq, NEW k \in Nat, NEW it, Folded(it, base, seq, k)
  PROVE  \E new : Folded(new, base, seq, k + 1)
<1> DEFINE step(h, s) == IF s = {} THEN base ELSE AddField(h[s \ {Max(s)}], seq[Max(s)])
           new == [s \in SUBSET (1..(k + 1)) |-> step(it, s)]
<1>1. \A s \in SUBSET (1..k) : it[s] = step(it, s) /\ s \in SUBSET (1..(k + 1))
  <2>1. 1..k \subseteq 1..(k + 1)
    OBVIOUS
  <2>2. \A s \in SUBSET (1..k) : s \in SUBSET (1..(k + 1))
    BY <2>1
  <2>3. it = [s \in SUBSET (1..k) |-> step(it, s)]
    BY DEF Folded
  <2> HIDE DEF step
  <2>4. \A s \in SUBSET (1..k) : it[s] = step(it, s)
    BY <2>3
  <2> QED BY <2>2, <2>4
<1>2. \A s \in SUBSET (1..k) : new[s] = it[s]
  <2> HIDE DEF step
  <2> QED BY <1>1
<1> HIDE DEF new
<1>3. ASSUME NEW s \in SUBSET (1..(k + 1)) PROVE step(it, s) = step(new, s)
  <2>1. CASE s = {}
    BY <2>1
  <2>2. CASE s # {}
    <3>1. k + 1 \in Nat /\ (k + 1) - 1 = k
      OBVIOUS
    <3>2. s \ {Max(s)} \in SUBSET (1..k)
      BY <2>2, <3>1, GreatestPlace
    <3>3. new[s \ {Max(s)}] = it[s \ {Max(s)}]
      BY <1>2, <3>2
    <3> QED BY <2>2, <3>3
  <2> QED BY <2>1, <2>2
<1>4. new = [s \in SUBSET (1..(k + 1)) |-> step(new, s)]
  <2>1. new = [s \in SUBSET (1..(k + 1)) |-> step(it, s)]
    BY DEF new
  <2> HIDE DEF step
  <2> QED BY <1>3, <2>1
<1> QED BY <1>4 DEF Folded

LEMMA FoldExists ==
  ASSUME NEW base, NEW seq, NEW n \in Nat
  PROVE  \E it : Folded(it, base, seq, n)
<1> DEFINE T == {k \in 0..n : ~\E it : Folded(it, base, seq, k)}
<1>1. SUFFICES ASSUME T # {} PROVE FALSE
  <2>1. n \in 0..n
    OBVIOUS
  <2> QED BY <2>1
<1>2. PICK m \in T : \A k \in T : m <= k
  <2>1. T \subseteq Nat
    OBVIOUS
  <2> HIDE DEF T
  <2> QED BY <1>1, <2>1, LeastNatural
<1>3. m # 0
  <2>1. 1..0 = {}
    OBVIOUS
  <2>2. Folded([s \in SUBSET (1..0) |-> base], base, seq, 0)
    BY <2>1 DEF Folded
  <2> QED BY <2>2
<1>4. m - 1 \in 0..n /\ m - 1 \in Nat /\ m - 1 \notin T /\ m - 1 + 1 = m
  BY <1>2, <1>3
<1>5. PICK it : Folded(it, base, seq, m - 1)
  BY <1>4
<1> DEFINE k == m - 1
<1>6. \E new : Folded(new, base, seq, k + 1)
  <2>1. k \in Nat /\ Folded(it, base, seq, k)
    BY <1>4, <1>5
  <2> HIDE DEF k
  <2> QED BY <2>1, FoldExtends
<1>7. \E new : Folded(new, base, seq, m)
  BY <1>4, <1>6
<1> QED BY <1>2, <1>7

Gathered(base, seq) == FoldLeft(AddField, base, seq)

(* The lines of a header are gone through in their order.                  *)
LEMMA FoldSteps ==
  ASSUME NEW base, NEW seq, NEW n \in Nat, DOMAIN seq = 1..n
  PROVE  \E r : /\ r[0] = base
                /\ \A k \in 1..n : r[k] = AddField(r[k - 1], seq[k])
                /\ Gathered(base, seq) = r[n]
<1> DEFINE it == CHOOSE it : it = [s \in SUBSET (DOMAIN seq) |->
                   IF s = {} THEN base ELSE AddField(it[s \ {Max(s)}], seq[Max(s)])]
<1>1. Folded(it, base, seq, n)
  <2>1. \E h : h = [s \in SUBSET (DOMAIN seq) |->
                   IF s = {} THEN base ELSE AddField(h[s \ {Max(s)}], seq[Max(s)])]
    <3>1. PICK h : Folded(h, base, seq, n)
      BY FoldExists
    <3>2. h = [s \in SUBSET (DOMAIN seq) |->
                 IF s = {} THEN base ELSE AddField(h[s \ {Max(s)}], seq[Max(s)])]
      BY <3>1 DEF Folded
    <3> QED BY <3>2, Zenon
  <2> QED BY <2>1, Zenon DEF Folded
<1>2. Gathered(base, seq) = it[DOMAIN seq]
  BY Zenon DEF Gathered, FoldLeft, MapThenFoldSet
<1> HIDE DEF it
<1>3. \A s \in SUBSET (1..n) :
        it[s] = IF s = {} THEN base ELSE AddField(it[s \ {Max(s)}], seq[Max(s)])
  BY <1>1 DEF Folded
<1> DEFINE r == [k \in 0..n |-> it[1..k]]
<1>4. r[0] = base
  <2>1. 1..0 = {} /\ 0 \in 0..n
    OBVIOUS
  <2> QED BY <1>3, <2>1
<1>5. ASSUME NEW k \in 1..n PROVE r[k] = AddField(r[k - 1], seq[k])
  <2>1. 1..k \in SUBSET (1..n) /\ k \in 0..n /\ k - 1 \in 0..n /\ 1..k # {}
    <3>1. 1..k \subseteq 1..n
      OBVIOUS
    <3>2. 1 \in 1..k
      OBVIOUS
    <3> QED BY <3>1, <3>2, SMTT(20)
  <2>2. Max(1..k) = k
    <3>1. k \in 1..k /\ \A y \in 1..k : k >= y
      OBVIOUS
    <3>2. \A x \in 1..k : (\A y \in 1..k : x >= y) => x = k
      OBVIOUS
    <3> QED BY <3>1, <3>2 DEF Max
  <2>3. (1..k) \ {k} = 1..(k - 1)
    OBVIOUS
  <2>4. it[1..k] = AddField(it[1..(k - 1)], seq[k])
    BY <1>3, <2>1, <2>2, <2>3
  <2> QED BY <2>1, <2>4
<1>6. Gathered(base, seq) = r[n]
  <2>1. n \in 0..n
    OBVIOUS
  <2> QED BY <1>2, <2>1
<1> HIDE DEF r
<1> QED BY <1>4, <1>5, <1>6

-----------------------------------------------------------------------------
(* One line of a header *)

Col == ":"
Blank == " "
Colon == <<Col, Blank>>

LEMMA ColonTokens ==
  /\ Colon \in Words /\ Len(Colon) = 2 /\ Colon # <<>> /\ Colon[1] = Col /\ Colon[2] = Blank
  /\ Col # Blank
<1>1. Col \in Token /\ Blank \in Token /\ Col # Blank
  BY DEF Token, Separators, Col, Blank
<1>2. Colon = Append(Append(<<>>, Col), Blank)
  BY DEF Colon
<1>3. Append(Append(<<>>, Col), Blank) \in Seq(Token)
  BY <1>1, EmptySeq, AppendProperties
<1>4. Len(Colon) = 2 /\ Colon[1] = Col /\ Colon[2] = Blank
  BY DEF Colon
<1>5. Colon # <<>>
  BY <1>4
<1> QED BY <1>1, <1>2, <1>3, <1>4, <1>5 DEF Words

(* A name, ": " and a value                                                *)
LEMMA CanonicalSplits ==
  ASSUME NEW line \in Words, Canonical(line)
  PROVE  LET pieces == Split(line, Colon) IN
         /\ Len(pieces) = 2 /\ pieces[1][1] = line[1]
         /\ pieces[2] = From(line, 4) /\ Head(pieces[2]) # Blank
<1> DEFINE rest == From(line, 4)
           first == SubSeq(line, 1, 2 - 1)
           n == Len(line)
<1>0. n \in Nat /\ n > 3 /\ line[2] = Col /\ line[3] = Blank /\ line[4] # Blank
      /\ Find(rest, Colon, 1) = 0
  BY LenProperties DEF Words, Canonical, Colon, Col, Blank
<1>1. PICK f : Splits(f, line, Colon, 1) /\ Split(line, Colon) = f[1]
  BY ColonTokens, SplitSteps
<1>2. \A start \in 1..(n + 1) : f[start] = SplitFrom(f, line, Colon, start)
  BY <1>1 DEF Splits
<1>3. Parted(line, 4, Upto(line, 4), rest)
  <2>1. 4 \in Nat \ {0} /\ 4 <= n + 1
    BY <1>0
  <2> QED BY <2>1, Parts
<1>4. first \in Words /\ Len(first) = 1 /\ first[1] = line[1]
  <2>1. 1 \in 1..(Len(line) + 1) /\ 2 \in 1..(Len(line) + 1) /\ 1 \in 1..(2 - 1) /\ 1 + 1 - 1 = 1
    BY <1>0
  <2>2. first \in Words /\ Len(first) = 2 - 1 /\ \A i \in 1..(2 - 1) : first[i] = line[1 + i - 1]
    BY <2>1, CutOut
  <2> HIDE DEF first
  <2> QED BY <2>1, <2>2
<1> HIDE DEF rest, first
<1>5. rest \in Words /\ Len(rest) = n - 3 /\ \A i \in 1..(n - 3) : rest[i] = line[3 + i]
  <2>1. \A i \in 1..(n - 3) : 4 + i - 1 = 3 + i
    OBVIOUS
  <2>2. Len(line) - 4 + 1 = n - 3
    BY <1>0
  <2> QED BY <1>3, <2>1, <2>2 DEF Parted
<1>6. Find(line, Colon, 1) = 2
  <2>1. At(line, Colon, 2)
    <3>1. line[2 + 1 - 1] = Colon[1] /\ line[2 + 2 - 1] = Colon[2]
      BY <1>0, ColonTokens
    <3>2. 1..Len(Colon) = {1, 2}
      BY ColonTokens
    <3> QED BY <3>1, <3>2 DEF At
  <2>2. ASSUME NEW i \in 1..(2 - 1) PROVE ~At(line, Colon, i)
    <3>1. line[i + 2 - 1] # Colon[2]
      BY <1>0, ColonTokens
    <3>2. 2 \in 1..Len(Colon)
      BY ColonTokens
    <3> QED BY <3>1, <3>2 DEF At
  <2>3. 2 \in 1..(Len(line) - Len(Colon) + 1) /\ 1 \in Nat \ {0}
    BY <1>0, ColonTokens
  <2> QED BY <2>1, <2>2, <2>3, ColonTokens, FindsAt
<1>7. Find(line, Colon, 4) = 0
  <2>1. Found(rest, Colon, 1, 0)
    <3>1. Found(rest, Colon, 1, Find(rest, Colon, 1))
      BY <1>5, ColonTokens, FindIsFound
    <3> QED BY <1>0, <3>1
  <2>2. ASSUME NEW i \in 4..(n - 2 + 1) PROVE ~At(line, Colon, i)
    <3> DEFINE j == i - 3
    <3>1. j \in 1..(Len(rest) - Len(Colon) + 1) /\ i = 3 + j
      BY <1>0, <1>5, ColonTokens
    <3> HIDE DEF j
    <3>2. ~At(rest, Colon, j)
      BY <2>1, <3>1 DEF Found
    <3>3. \A k \in 1..2 : line[i + k - 1] = rest[j + k - 1]
      <4>1. ASSUME NEW k \in 1..2 PROVE line[i + k - 1] = rest[j + k - 1]
        <5>1. j + k - 1 \in 1..(n - 3) /\ 3 + (j + k - 1) = i + k - 1
          BY <1>0, <1>5, <3>1, ColonTokens
        <5> QED BY <1>5, <5>1
      <4> QED BY <4>1
    <3> QED BY <3>2, <3>3, ColonTokens DEF At
  <2>3. 4 \in Nat \ {0} /\ \A i \in 4..(Len(line) - Len(Colon) + 1) : ~At(line, Colon, i)
    BY <2>2, ColonTokens
  <2> QED BY <2>3, ColonTokens, FindsNot
<1>8. f[4] = <<rest>>
  <2>1. 4 \in 1..(n + 1) /\ rest # <<>>
    BY <1>0, <1>5
  <2>2. f[4] = SplitFrom(f, line, Colon, 4)
    BY <1>2, <2>1
  <2> QED BY <1>7, <2>1, <2>2 DEF SplitFrom, Piece, rest
<1>9. f[1] = <<first>> \o <<rest>>
  <2>1. 1 \in 1..(n + 1) /\ 2 + Len(Colon) = 4
    BY <1>0, ColonTokens
  <2>2. f[1] = SplitFrom(f, line, Colon, 1)
    BY <1>2, <2>1
  <2>3. Piece(first) = <<first>>
    <3>1. first # <<>>
      BY <1>4
    <3> QED BY <3>1 DEF Piece
  <2>4. f[1] = Piece(first) \o f[4]
    <3> DEFINE end == Find(line, Colon, 1)
    <3>1. end # 0 /\ end = 2
      BY <1>6
    <3>2. f[1] = Piece(SubSeq(line, 1, end - 1)) \o f[end + Len(Colon)]
      BY <2>2, <3>1 DEF SplitFrom
    <3> HIDE DEF end
    <3> QED BY <2>1, <3>1, <3>2 DEF first
  <2> QED BY <1>8, <2>3, <2>4
<1> DEFINE pieces == Split(line, Colon)
           r == <<rest>>
<1>10. r \in Seq(Words) /\ Len(r) = 1 /\ r[1] = rest
  BY <1>5, OnePiece
<1> HIDE DEF r
<1>11. /\ Len(<<first>> \o r) = 1 + Len(r) /\ (<<first>> \o r)[1] = first
       /\ \A i \in 1..Len(r) : (<<first>> \o r)[1 + i] = r[i]
  <2> DEFINE p == <<first>> \o r
  <2>1. first \in Words /\ r \in Seq(Words)
    BY <1>4, <1>10
  <2>2. Len(p) = 1 + Len(r) /\ p[1] = first /\ \A i \in 1..Len(r) : p[1 + i] = r[i]
    BY <2>1, PieceFirst
  <2> QED BY <2>2
<1>12. pieces = <<first>> \o r
  BY <1>1, <1>9 DEF r
<1> HIDE DEF pieces
<1>13. Len(pieces) = 2 /\ pieces[1] = first /\ pieces[2] = rest
  <2>1. 1 \in 1..Len(r) /\ 1 + 1 = 2
    BY <1>10
  <2> QED BY <1>10, <1>11, <1>12, <2>1
<1>14. Head(rest) = line[4]
  <2>1. 1 \in 1..(n - 3) /\ 3 + 1 = 4
    BY <1>0
  <2>2. rest[1] = line[4]
    BY <1>5, <2>1
  <2>3. rest \in Seq(Token) /\ rest # <<>>
    BY <1>0, <1>5 DEF Words
  <2>4. Head(rest) = rest[1]
    BY <2>3
  <2> QED BY <2>2, <2>4
<1> QED BY <1>0, <1>4, <1>13, <1>14 DEF pieces, rest

LEMMA CanonicalAdds ==
  ASSUME NEW line \in Words, Canonical(line), NEW fields
  PROVE  AddField(fields, line) = Put(fields, line[1], From(line, 4))
<1> DEFINE pieces == Split(line, Colon)
<1>1. /\ Len(pieces) = 2 /\ pieces[1][1] = line[1]
      /\ pieces[2] = From(line, 4) /\ Head(pieces[2]) # Blank
  BY CanonicalSplits
<1>2. AddField(fields, line) = IF Len(pieces) = 2
                               THEN Put(fields, pieces[1][1], RemovePrefix(pieces[2], Blank))
                               ELSE fields
  BY DEF AddField, Colon, Col, Blank
<1> HIDE DEF pieces
<1>3. RemovePrefix(pieces[2], Blank) = pieces[2]
  BY <1>1 DEF RemovePrefix
<1> QED BY <1>1, <1>2, <1>3

(* A line that ": " does not cut                                           *)
LEMMA UncutAdds ==
  ASSUME NEW line \in Words, Find(line, Colon, 1) = 0, line # <<>>, NEW fields
  PROVE  AddField(fields, line) = fields
<1> DEFINE pieces == Split(line, Colon)
<1>1. PICK f : Splits(f, line, Colon, 1) /\ pieces = f[1]
  BY ColonTokens, SplitSteps
<1>2. f[1] = SplitFrom(f, line, Colon, 1)
  <2>1. 1 \in 1..(Len(line) + 1)
    BY LenProperties DEF Words
  <2> QED BY <1>1, <2>1 DEF Splits
<1>3. From(line, 1) = line
  <2>1. Len(line) \in Nat /\ Len(line) # 0 /\ 1 \in Nat \ {0} /\ 1 <= Len(line) + 1
    BY LenProperties, EmptySeq DEF Words
  <2> DEFINE t == From(line, 1)
  <2>2. Parted(line, 1, Upto(line, 1), t)
    BY <2>1, Parts
  <2> HIDE DEF t
  <2>3. t \in Words /\ Len(t) = Len(line) /\ \A i \in 1..Len(line) : t[i] = line[i]
    <3>1. Len(line) - 1 + 1 = Len(line) /\ \A i \in 1..Len(line) : 1 + i - 1 = i
      BY <2>1
    <3> QED BY <2>2, <3>1 DEF Parted
  <2>4. t = line
    BY <2>3, SeqEqual DEF Words
  <2> QED BY <2>4 DEF t
<1>4. pieces = <<line>>
  BY <1>1, <1>2, <1>3 DEF SplitFrom, Piece
<1>5. AddField(fields, line) = IF Len(pieces) = 2
                               THEN Put(fields, pieces[1][1], RemovePrefix(pieces[2], Blank))
                               ELSE fields
  BY DEF AddField, Colon, Col, Blank
<1> HIDE DEF pieces
<1>6. Len(pieces) = 1
  BY <1>4, OnePiece
<1> QED BY <1>5, <1>6

(* A line that begins with a word adds no field but one that begins so.    *)
LEMMA WordAdds ==
  ASSUME NEW line \in Words, line # <<>>, line[1] # Col, NEW fields
  PROVE  \/ AddField(fields, line) = fields
         \/ \E value : AddField(fields, line) = Put(fields, line[1], value)
<1> DEFINE pieces == Split(line, Colon)
           end == Find(line, Colon, 1)
           first == SubSeq(line, 1, end - 1)
<1>0. Len(line) \in Nat /\ Len(line) # 0
  BY LenProperties, EmptySeq DEF Words
<1>1. SUFFICES ASSUME end # 0
               PROVE  \/ AddField(fields, line) = fields
                      \/ \E value : AddField(fields, line) = Put(fields, line[1], value)
  BY UncutAdds
<1>2. PICK f : Splits(f, line, Colon, 1) /\ pieces = f[1]
  BY ColonTokens, SplitSteps
<1>3. Found(line, Colon, 1, end) /\ 1 \in 1..(Len(line) + 1)
  BY <1>0, ColonTokens, FindIsFound
<1>4. f[1] = SplitFrom(f, line, Colon, 1)
  BY <1>2, <1>3 DEF Splits
<1>5. pieces = Piece(first) \o f[end + Len(Colon)]
  BY <1>1, <1>2, <1>4 DEF SplitFrom
<1>6. f[end + Len(Colon)] \in Seq(Words)
  <2>1. end + Len(Colon) \in 1..(Len(line) + 1)
    <3>1. end \in 1..(Len(line) - Len(Colon) + 1)
      BY <1>1, <1>3 DEF Found
    <3> HIDE DEF end
    <3> QED BY <1>0, <3>1, ColonTokens
  <2> QED BY <1>2, <2>1, ColonTokens, SplitWords
<1>7. end \in 2..(Len(line) + 1)
  <2>1. end # 1
    <3>1. ~At(line, Colon, 1)
      <4>1. line[1 + 1 - 1] # Colon[1] /\ 1 \in 1..Len(Colon)
        BY ColonTokens
      <4> QED BY <4>1 DEF At
    <3> QED BY <1>1, <1>3, <3>1 DEF Found
  <2>2. end \in 1..(Len(line) - Len(Colon) + 1)
    BY <1>1, <1>3 DEF Found
  <2> HIDE DEF end
  <2> QED BY <1>0, <2>1, <2>2, ColonTokens
<1> HIDE DEF end
<1>8. first \in Words /\ first # <<>> /\ first[1] = line[1]
  <2>1. end \in 1..(Len(line) + 1) /\ 1 \in 1..(end - 1) /\ 1 + 1 - 1 = 1
    BY <1>0, <1>7
  <2>2. first \in Words /\ Len(first) = end - 1 /\ \A i \in 1..(end - 1) : first[i] = line[1 + i - 1]
    BY <1>3, <2>1, CutOut
  <2> HIDE DEF first
  <2>3. first # <<>>
    BY <1>7, <2>2
  <2> QED BY <2>1, <2>2, <2>3
<1>9. pieces = <<first>> \o f[end + Len(Colon)]
  <2> HIDE DEF first, pieces
  <2> QED BY <1>5, <1>8 DEF Piece
<1> DEFINE r == f[end + Len(Colon)]
<1>10. pieces[1] = first
  <2>1. (<<first>> \o r)[1] = first
    <3> HIDE DEF r, first
    <3> QED BY <1>6, <1>8, PieceFirst DEF r
  <2> HIDE DEF pieces
  <2> QED BY <1>9, <2>1
<1>11. AddField(fields, line) = IF Len(pieces) = 2
                                THEN Put(fields, pieces[1][1], RemovePrefix(pieces[2], Blank))
                                ELSE fields
  BY DEF AddField, Colon, Col, Blank
<1> HIDE DEF pieces, first
<1> QED BY <1>8, <1>10, <1>11

-----------------------------------------------------------------------------
(* The theorems *)

(* What a URL is read as is a function of its text alone.                  *)
UrlInv == pc = "send" => url = ParseUrl(text)

(***************************************************************************)
(* Every URL that is composed of components by RFC 3986, whatever they are *)
(* and however long, is read as these components on the hop that uses it.  *)
(***************************************************************************)
THEOREM UrlsReadAsComposed == Spec => []UrlAsComposed
<1>1. Init => UrlInv
  BY DEF Init, UrlInv
<1>2. UrlInv /\ [Next]_vars => UrlInv'
  <2> SUFFICES ASSUME UrlInv, [Next]_vars PROVE UrlInv'
    OBVIOUS
  <2> USE DEF UrlInv
  <2>1. CASE ParseHop
    BY <2>1 DEF ParseHop, End
  <2>2. CASE Send
    BY <2>2 DEF Send
  <2>3. CASE Answer
    BY <2>3 DEF Answer
  <2>4. ASSUME NEW n \in 1..Len(incoming), Read(n) PROVE UrlInv'
    <3>1. pc' # "send"
      BY <2>4 DEF Read, Parsed, End
    <3> QED BY <3>1
  <2>5. CASE UNCHANGED vars
    BY <2>5 DEF vars
  <2> QED BY <2>1, <2>2, <2>3, <2>4, <2>5 DEF Next
<1>3. UrlInv => UrlAsComposed
  <2>1. ASSUME UrlInv, NEW parts \in UrlParts, pc = "send", ComposeUrl(parts) = text
        PROVE  url = UrlOf(parts)
    <3>1. ParseUrl(ComposeUrl(parts)) = UrlOf(parts)
      BY UrlAssumption, ParseComposed
    <3> QED BY <2>1, <3>1 DEF UrlInv
  <2> QED BY <2>1 DEF UrlAsComposed
<1> QED BY <1>1, <1>2, <1>3, PTL DEF Spec

LEMMA PutKeeps ==
  ASSUME NEW fields, NEW name, NEW value, NEW other \in DOMAIN fields, other # name
  PROVE  /\ other \in DOMAIN Put(fields, name, value)
         /\ Put(fields, name, value)[other] = fields[other]
BY DEF Put

(***************************************************************************)
(* Once a request has an Authorization, its own or that of its first URL,  *)
(* no hop changes or drops it, whatever URLs the redirects name.           *)
(***************************************************************************)
THEOREM CredentialsAreKept == Spec => CredentialsKept
<1> DEFINE field == "Authorization"
           Kept == field \in DOMAIN headers =>
                     field \in DOMAIN headers' /\ headers'[field] = headers[field]
<1>1. [Next]_vars => Kept
  <2> SUFFICES ASSUME [Next]_vars, field \in DOMAIN headers
               PROVE  field \in DOMAIN headers' /\ headers'[field] = headers[field]
    OBVIOUS
  <2>1. CASE UNCHANGED headers
    BY <2>1
  <2>2. CASE Send
    <3> DEFINE sized == IF input.body = <<>> THEN headers
                        ELSE Put(headers, "Content-Length", <<ToString(Len(input.body))>>)
    <3>1. field \in DOMAIN sized /\ sized[field] = headers[field]
      <4>1. CASE input.body = <<>>
        BY <4>1
      <4>2. CASE input.body # <<>>
        <5>1. field # "Content-Length"
          OBVIOUS
        <5> HIDE DEF field
        <5> QED BY <4>2, <5>1, PutKeeps
      <4> QED BY <4>1, <4>2
    <3> HIDE DEF sized
    <3>2. headers' = Put(sized, "Host", url.host)
      BY <2>2 DEF Send, EncodeHeaders, sized
    <3>3. field # "Host"
      OBVIOUS
    <3> HIDE DEF field
    <3> QED BY <3>1, <3>2, <3>3, PutKeeps
  <2> QED BY <2>1, <2>2 DEF Next, ParseHop, Answer, Read, vars
<1> DEFINE Said == \A name \in {"Authorization"} \cap DOMAIN headers :
                     name \in DOMAIN headers' /\ headers'[name] = headers[name]
<1>2. [Next]_vars => [Said]_vars
  BY <1>1
<1> QED BY <1>2, PTL DEF Spec, CredentialsKept

(* What was read and what was not are together what the server sent, and   *)
(* no header was overlooked.                                               *)
ReadInv ==
  /\ pc = "read" =>
       /\ answer \in Answers
       /\ recvData \in Words /\ incoming \in Words
       /\ recvData \o incoming = AnswerText(answer)
       /\ HeaderEnd(recvData) = 0
  /\ pc # "done" => outcome = "none"
  /\ outcome = "header" => data \o incoming = answer.body

LEMMA EmptyHasNone ==
  <<>> \in Words /\ HeaderEnd(<<>>) = 0
<1> DEFINE e == CRLF \o CRLF
<1>1. e \in Words /\ Len(e) = 4 /\ e # <<>>
  BY EmptyLineTokens
<1>2. <<>> \in Words /\ Len(<<>>) = 0 /\ 1 \in Nat \ {0}
  BY EmptySeq DEF Words
<1> HIDE DEF e
<1>3. \A i \in 1..(Len(<<>>) - Len(e) + 1) : ~At(<<>>, e, i)
  BY <1>1, <1>2
<1>4. Find(<<>>, e, 1) = 0
  BY <1>1, <1>2, <1>3, FindsNot
<1> QED BY <1>2, <1>4 DEF HeaderEnd, e

(* A read adds to what was read, and takes it from what is to come.        *)
LEMMA ReadAppends ==
  ASSUME ReadInv, NEW n \in 1..Len(incoming), Read(n)
  PROVE  /\ pc = "read" /\ outcome = "none" /\ answer \in Answers /\ answer' = answer
         /\ recvData' \in Words /\ incoming' \in Words
         /\ recvData' \o incoming' = AnswerText(answer)
<1>1. /\ pc = "read" /\ outcome = "none" /\ answer \in Answers /\ answer' = answer
      /\ recvData \in Words /\ incoming \in Words
      /\ recvData \o incoming = AnswerText(answer)
      /\ recvData' = recvData \o SubSeq(incoming, 1, n)
      /\ incoming' = From(incoming, n + 1)
  BY DEF ReadInv, Read
<1> DEFINE left == Upto(incoming, n + 1)
           right == From(incoming, n + 1)
<1>2. left \in Words /\ right \in Words /\ left \o right = incoming
  <2> DEFINE pos == n + 1
  <2>1. pos \in Nat \ {0} /\ pos <= Len(incoming) + 1
    BY <1>1, LenProperties DEF Words
  <2>2. Upto(incoming, pos) \in Words /\ From(incoming, pos) \in Words
        /\ Upto(incoming, pos) \o From(incoming, pos) = incoming
    <3> HIDE DEF pos
    <3> QED BY <1>1, <2>1, PartsJoin
  <2> QED BY <2>2
<1>3. recvData' = recvData \o left
  <2>1. n + 1 - 1 = n
    OBVIOUS
  <2> QED BY <1>1, <2>1 DEF Upto
<1>4. incoming' = right
  BY <1>1
<1> HIDE DEF left, right
<1>5. recvData' \in Words /\ incoming' \in Words /\ recvData' \o incoming' = AnswerText(answer)
  <2>1. recvData \o left \in Words
    BY <1>1, <1>2, ConcatProperties DEF Words
  <2>2. (recvData \o left) \o right = recvData \o (left \o right)
    BY <1>1, <1>2, Associates
  <2> QED BY <1>1, <1>2, <1>3, <1>4, <2>1, <2>2
<1> QED BY <1>1, <1>5

LEMMA ReadKeepsReadInv ==
  ASSUME ReadInv, NEW n \in 1..Len(incoming), Read(n)
  PROVE  ReadInv'
<1>1. /\ pc = "read" /\ outcome = "none" /\ answer \in Answers /\ answer' = answer
      /\ recvData' \in Words /\ incoming' \in Words
      /\ recvData' \o incoming' = AnswerText(answer')
  BY ReadAppends
<1>2. CASE HeaderEnd(recvData') = 0
  <2>1. pc' = "read" /\ outcome' = "none"
    BY <1>1, <1>2 DEF Read
  <2> QED BY <1>1, <1>2, <2>1 DEF ReadInv
<1>3. CASE HeaderEnd(recvData') # 0
  <2>1. Parsed(recvData')
    BY <1>3 DEF Read
  <2>2. pc' # "read" /\ (pc' # "done" => outcome' = "none")
    BY <1>1, <2>1 DEF Parsed, End
  <2>3. outcome' = "header" =>
          data' = From(recvData', HeaderEnd(recvData') + Len(CRLF \o CRLF))
    BY <1>1, <2>1 DEF Parsed, End
  <2>4. From(recvData', HeaderEnd(recvData') + Len(CRLF \o CRLF)) \o incoming' = answer'.body
    BY <1>1, <1>3, AnswerWritten, BodyBegins
  <2>5. outcome' = "header" => data' \o incoming' = answer'.body
    BY <2>3, <2>4
  <2> QED BY <2>2, <2>5 DEF ReadInv
<1> QED BY <1>2, <1>3

LEMMA StepKeepsReadInv == ReadInv /\ [Next]_vars => ReadInv'
<1> SUFFICES ASSUME ReadInv, [Next]_vars PROVE ReadInv'
  OBVIOUS
<1>1. CASE ParseHop
  BY <1>1 DEF ParseHop, End, ReadInv
<1>2. CASE Send
  BY <1>2 DEF Send, ReadInv
<1>3. CASE Answer
  <2>1. /\ pc = "answer" /\ pc' = "read" /\ answer' \in Answers /\ recvData' = <<>>
        /\ incoming' = AnswerText(answer') /\ outcome' = outcome
    BY <1>3 DEF Answer, AnswerText, AnswerLines
  <2>2. AnswerText(answer') \in Words
    <3> DEFINE f == AnswerLines(answer')
               b == answer'.body
    <3>1. Lines(f) /\ b \in Words
      BY <2>1, AnswerWritten, AnswerHasLines
    <3>2. AnswerText(answer') = (f \o CRLF) \o b
      BY DEF AnswerText
    <3> HIDE DEF f, b
    <3> QED BY <3>1, <3>2, EmptyLineFound
  <2>3. <<>> \o incoming' = incoming'
    BY <2>1, <2>2, ConcatEmptySeq DEF Words
  <2>4. outcome' = "none"
    BY <2>1 DEF ReadInv
  <2> QED BY <2>1, <2>2, <2>3, <2>4, EmptyHasNone DEF ReadInv
<1>4. ASSUME NEW n \in 1..Len(incoming), Read(n) PROVE ReadInv'
  BY <1>4, ReadKeepsReadInv
<1>5. CASE UNCHANGED vars
  BY <1>5 DEF vars, ReadInv
<1> QED BY <1>1, <1>2, <1>3, <1>4, <1>5 DEF Next

(***************************************************************************)
(* However the reads cut an answer, its header is parsed with the read     *)
(* that completes it, and what is handed over behind it and what is still  *)
(* to come are together the body, for bodies of any content.               *)
(***************************************************************************)
THEOREM HeadersParsedWhenComplete == Spec => []HeaderWhenComplete
<1>1. Init => ReadInv
  BY DEF Init, ReadInv
<1>2. ReadInv => HeaderWhenComplete
  BY DEF ReadInv, HeaderWhenComplete, HeaderEnd
<1> QED BY <1>1, <1>2, StepKeepsReadInv, PTL DEF Spec

-----------------------------------------------------------------------------
(* What a header says is what its lines say. *)

VersionOf(lines) ==
  IF Head(lines[1]) = "HTTP/" THEN Put(NoFields, "Version", SubSeq(lines[1], 1, 2)) ELSE NoFields

(* What parseResponseHeader makes of the lines of a header                 *)
HeaderOf(lines) ==
  [fields |-> Gathered(VersionOf(lines), lines), code |-> StatusCode(lines[1])]

LEMMA HeaderIsOfLines ==
  ASSUME NEW received, NEW lines, Split(Upto(received, HeaderEnd(received)), CRLF) = lines
  PROVE  ParseResponseHeader(received) = HeaderOf(lines)
BY Zenon DEF ParseResponseHeader, HeaderOf, VersionOf, Gathered

(* What was handed over, or ended the program, is what the lines of the    *)
(* answer say.                                                             *)
HeaderInv ==
  /\ outcome = "header" => answer \in Answers /\ response = HeaderOf(answer.lines)
  /\ outcome = "terminated" =>
       /\ answer \in Answers
       /\ StatusThrows(answer.lines[1]) \/ LengthThrows(HeaderOf(answer.lines))

LEMMA StepKeepsHeaderInv == ReadInv /\ HeaderInv /\ [Next]_vars => HeaderInv'
<1> SUFFICES ASSUME ReadInv, HeaderInv, [Next]_vars PROVE HeaderInv'
  OBVIOUS
<1>1. CASE ParseHop
  <2>1. outcome' # "header" /\ outcome' # "terminated"
    BY <1>1 DEF ParseHop, End, ReadInv
  <2> QED BY <2>1 DEF HeaderInv
<1>2. CASE Send
  <2>1. outcome' = "none"
    BY <1>2 DEF Send, ReadInv
  <2> QED BY <2>1 DEF HeaderInv
<1>3. CASE Answer
  <2>1. outcome' = "none"
    BY <1>3 DEF Answer, ReadInv
  <2> QED BY <2>1 DEF HeaderInv
<1>4. ASSUME NEW n \in 1..Len(incoming), Read(n) PROVE HeaderInv'
  <2>1. /\ pc = "read" /\ outcome = "none" /\ answer \in Answers /\ answer' = answer
        /\ recvData' \in Words /\ incoming' \in Words
        /\ recvData' \o incoming' = AnswerText(answer)
    BY <1>4, ReadAppends
  <2>2. CASE HeaderEnd(recvData') = 0
    <3>1. outcome' = "none"
      BY <1>4, <2>1, <2>2 DEF Read
    <3> QED BY <3>1 DEF HeaderInv
  <2>3. CASE HeaderEnd(recvData') # 0
    <3> DEFINE lines == answer.lines
               header == ParseResponseHeader(recvData')
    <3>1. Split(Upto(recvData', HeaderEnd(recvData')), CRLF) = lines
      BY <2>1, <2>3, AnswerWritten, HeaderLines
    <3>2. header = HeaderOf(lines)
      BY <3>1, HeaderIsOfLines
    <3>3. Parsed(recvData')
      BY <1>4, <2>3 DEF Read
    <3> HIDE DEF lines, header
    <3>4. /\ outcome' = "header" => response' = header
          /\ outcome' = "terminated" => StatusThrows(lines[1]) \/ LengthThrows(header)
      BY <2>1, <3>1, <3>3 DEF Parsed, End, header
    <3> QED BY <2>1, <3>2, <3>4 DEF HeaderInv, lines
  <2> QED BY <2>2, <2>3
<1>5. CASE UNCHANGED vars
  BY <1>5 DEF vars, HeaderInv
<1> QED BY <1>1, <1>2, <1>3, <1>4, <1>5 DEF Next

(* A Content-Length that is a number, or none                              *)
ContentLength == "Content-Length"
LengthGood(fields) ==
  ContentLength \in DOMAIN fields =>
    fields[ContentLength] # <<>> /\ Head(fields[ContentLength]) \in Numbers

LEMMA CanonicalValue ==
  ASSUME NEW line \in Words, Canonical(line)
  PROVE  From(line, 4) # <<>> /\ Head(From(line, 4)) = line[4]
<1> DEFINE rest == From(line, 4)
           n == Len(line)
<1>1. n \in Nat /\ n > 3
  BY LenProperties DEF Words, Canonical
<1>2. Parted(line, 4, Upto(line, 4), rest)
  <2>1. 4 \in Nat \ {0} /\ 4 <= n + 1
    BY <1>1
  <2> QED BY <2>1, Parts
<1> HIDE DEF rest
<1>3. rest \in Seq(Token) /\ Len(rest) # 0 /\ rest[1] = line[4]
  <2> DEFINE m == n - 4 + 1
  <2>3. m \in Nat \ {0}
    <3> HIDE DEF n
    <3>1. n \in Nat /\ n >= 4
      BY <1>1
    <3> QED BY <3>1
  <2>1. Len(line) - 4 + 1 # 0 /\ 1 \in 1..(Len(line) - 4 + 1) /\ 4 + 1 - 1 = 4
    <3>1. m # 0 /\ 1 \in 1..m
      <4> HIDE DEF m
      <4> QED BY <2>3
    <3> QED BY <3>1
  <2>2. rest[1] = line[4 + 1 - 1]
    BY <1>2, <2>1 DEF Parted
  <2> QED BY <1>2, <2>1, <2>2 DEF Parted, Words
<1>4. rest # <<>> /\ Head(rest) = rest[1]
  BY <1>3
<1> QED BY <1>3, <1>4 DEF rest

(* r is what the lines leave, one after the other, on the fields of base.  *)
Gathering(r, base, lines) ==
  /\ r[0] = base
  /\ \A k \in 1..Len(lines) : r[k] = AddField(r[k - 1], lines[k])
  /\ Gathered(base, lines) = r[Len(lines)]

LEMMA GatheredSteps ==
  ASSUME NEW lines, Plain(lines), DOMAIN lines = 1..Len(lines), NEW base
  PROVE  \E r : Gathering(r, base, lines)
<1> DEFINE n == Len(lines)
<1>1. n \in Nat /\ DOMAIN lines = 1..n
  BY DEF Plain
<1>2. \E r : /\ r[0] = base
             /\ \A k \in 1..n : r[k] = AddField(r[k - 1], lines[k])
             /\ Gathered(base, lines) = r[n]
  <2> HIDE DEF n
  <2> QED BY <1>1, FoldSteps
<1> QED BY Zenon, <1>2 DEF Gathering

LEMMA WellFormedLength ==
  ASSUME NEW lines, Plain(lines), DOMAIN lines = 1..Len(lines), WellFormed(lines)
  PROVE  LengthGood(Gathered(VersionOf(lines), lines))
<1> DEFINE n == Len(lines)
           version == VersionOf(lines)
<1>1. /\ n \in Nat \ {0}
      /\ \A k \in 1..n : lines[k] \in Words /\ Len(lines[k]) \in Nat \ {0}
  BY DEF Plain
<1>r. PICK r : Gathering(r, version, lines)
  BY GatheredSteps
<1>2. /\ r[0] = version
       /\ \A k \in 1..n : r[k] = AddField(r[k - 1], lines[k])
       /\ Gathered(version, lines) = r[n]
  BY <1>r DEF Gathering
<1>3. LengthGood(r[0])
  <2>1. ContentLength \notin DOMAIN NoFields
    BY DEF NoFields
  <2>2. ContentLength # "Version"
    BY DEF ContentLength
  <2>3. ContentLength \notin DOMAIN version
    BY <2>1, <2>2 DEF VersionOf, Put
  <2> QED BY <1>2, <2>3 DEF LengthGood
<1> HIDE DEF version
<1>4. LengthGood(r[1])
  <2> DEFINE line == lines[1]
  <2>1. line \in Words /\ line # <<>> /\ line[1] # Col /\ line[1] # ContentLength
    <3>1. 1 \in 1..n
      BY <1>1
    <3>2. line \in Words /\ Len(line) # 0
      BY <1>1, <3>1
    <3>3. line # <<>>
      BY <3>2
    <3>4. line[1] = "HTTP/"
      BY DEF WellFormed
    <3>5. line[1] # Col /\ line[1] # ContentLength
      BY <3>4 DEF Col, ContentLength
    <3> QED BY <3>2, <3>3, <3>5
  <2> HIDE DEF line
  <2>2. r[1] = AddField(r[0], line)
    <3>1. 1 \in 1..n /\ 1 - 1 = 0
      BY <1>1
    <3>2. r[1] = AddField(r[1 - 1], lines[1])
      BY <1>2, <3>1
    <3> QED BY <3>1, <3>2 DEF line
  <2>3. r[1] = r[0] \/ \E value : r[1] = Put(r[0], line[1], value)
    BY <2>1, <2>2, WordAdds
  <2> QED BY <1>3, <2>1, <2>3, ZenonT(30) DEF LengthGood, Put
<1>5. ASSUME NEW k \in 2..n, LengthGood(r[k - 1]) PROVE LengthGood(r[k])
  <2> DEFINE line == lines[k]
             value == From(line, 4)
  <2>1. line \in Words /\ Canonical(line) /\ (line[1] = ContentLength => line[4] \in Numbers)
    <3>1. k \in 1..n
      BY <1>1
    <3>2. k \in 2..Len(lines)
      OBVIOUS
    <3>3. Canonical(line) /\ (line[1] = "Content-Length" => line[4] \in Numbers)
      BY <3>2 DEF WellFormed
    <3> QED BY <1>1, <3>1, <3>3 DEF ContentLength
  <2>2. r[k] = AddField(r[k - 1], line)
    <3>1. k \in 1..n
      BY <1>1
    <3> QED BY <1>2, <3>1
  <2> HIDE DEF line
  <2>3. r[k] = Put(r[k - 1], line[1], value)
    BY <2>1, <2>2, CanonicalAdds
  <2>4. value # <<>> /\ Head(value) = line[4]
    BY <2>1, CanonicalValue
  <2> HIDE DEF value
  <2>5. CASE line[1] = ContentLength
    <3>1. r[k][ContentLength] = value
      BY <2>3, <2>5 DEF Put
    <3> QED BY <2>1, <2>4, <2>5, <3>1 DEF LengthGood
  <2>6. CASE line[1] # ContentLength
    BY <1>5, <2>3, <2>6 DEF LengthGood, Put
  <2> QED BY <2>5, <2>6
<1>6. \A k \in 1..n : LengthGood(r[k])
  <2> DEFINE T == {k \in 1..n : ~LengthGood(r[k])}
  <2>1. SUFFICES ASSUME T # {} PROVE FALSE
    OBVIOUS
  <2>2. PICK m \in T : \A j \in T : m <= j
    <3>1. T \subseteq Nat
      OBVIOUS
    <3> HIDE DEF T
    <3> QED BY <2>1, <3>1, LeastNatural
  <2>3. m # 1
    BY <1>4, <2>2
  <2>4. m \in 2..n /\ m - 1 \in 1..n /\ ~(m <= m - 1)
    BY <1>1, <2>2, <2>3
  <2>5. LengthGood(r[m - 1])
    BY <2>2, <2>4
  <2> QED BY <1>5, <2>2, <2>4, <2>5
<1> QED BY <1>1, <1>2, <1>6 DEF version

(***************************************************************************)
(* No well-formed answer ends the program, however the reads cut it: neither *)
(* std::stoi of the status code nor that of Content-Length throws, for     *)
(* headers of any number of lines and with any repeated fields.            *)
(***************************************************************************)
THEOREM OnlyMalformedTerminates == Spec => []TerminatedByMalformed
<1>1. Init => ReadInv /\ HeaderInv
  BY DEF Init, ReadInv, HeaderInv
<1>2. HeaderInv => TerminatedByMalformed
  <2> SUFFICES ASSUME HeaderInv, outcome = "terminated", WellFormed(answer.lines) PROVE FALSE
    BY DEF TerminatedByMalformed
  <2> DEFINE lines == answer.lines
             fields == Gathered(VersionOf(lines), lines)
  <2>1. answer \in Answers /\ (StatusThrows(lines[1]) \/ LengthThrows(HeaderOf(lines)))
    BY DEF HeaderInv
  <2>2. Plain(lines) /\ DOMAIN lines = 1..Len(lines)
    BY <2>1, AnswerWritten DEF Written
  <2>3. WellFormed(lines)
    OBVIOUS
  <2>4. LengthGood(fields)
    <3> HIDE DEF lines
    <3> QED BY <2>2, <2>3, WellFormedLength
  <2> HIDE DEF lines
  <2>5. ~StatusThrows(lines[1])
    BY <2>3 DEF WellFormed, StatusThrows
  <2>6. ~LengthThrows(HeaderOf(lines))
    <3>1. HeaderOf(lines).fields = fields
      BY DEF HeaderOf
    <3> HIDE DEF fields
    <3> QED BY <2>4, <3>1 DEF LengthThrows, LengthGood, ContentLength
  <2> QED BY <2>1, <2>5, <2>6
<1> QED BY <1>1, <1>2, StepKeepsReadInv, StepKeepsHeaderInv, PTL DEF Spec

(* What the first k lines of a header leave, behind the status line        *)
AfterLines(lines, version, k, fields) ==
  /\ DOMAIN fields = {lines[i][1] : i \in 2..k} \cup DOMAIN version
  /\ \A i \in 2..k :
       (\A j \in (i + 1)..k : lines[j][1] # lines[i][1]) =>
         fields[lines[i][1]] = From(lines[i], 4)

LEMMA NextLineAdds ==
  ASSUME NEW lines, NEW version, NEW k \in Nat, k >= 2, NEW fields,
         AfterLines(lines, version, k - 1, fields)
  PROVE  AfterLines(lines, version, k, Put(fields, lines[k][1], From(lines[k], 4)))
<1> DEFINE name(i) == lines[i][1]
           value(i) == From(lines[i], 4)
           new == Put(fields, name(k), value(k))
<1>1. /\ DOMAIN fields = {name(i) : i \in 2..(k - 1)} \cup DOMAIN version
      /\ \A i \in 2..(k - 1) :
           (\A j \in (i + 1)..(k - 1) : name(j) # name(i)) => fields[name(i)] = value(i)
  BY DEF AfterLines
<1>2. DOMAIN new = DOMAIN fields \cup {name(k)}
  BY DEF Put
<1>3. new[name(k)] = value(k) /\ \A x \in DOMAIN fields : x # name(k) => new[x] = fields[x]
  BY DEF Put
<1>4. 2..k = 2..(k - 1) \cup {k}
  OBVIOUS
<1> HIDE DEF name, value, new
<1>5. {name(i) : i \in 2..k} = {name(i) : i \in 2..(k - 1)} \cup {name(k)}
  BY <1>4
<1>6. DOMAIN new = {name(i) : i \in 2..k} \cup DOMAIN version
  BY <1>1, <1>2, <1>5
<1>7. ASSUME NEW i \in 2..k, \A j \in (i + 1)..k : name(j) # name(i)
      PROVE  new[name(i)] = value(i)
  <2>1. CASE i = k
    BY <1>3, <2>1
  <2>2. CASE i # k
    <3>1. i \in 2..(k - 1) /\ k \in (i + 1)..k /\ \A j \in (i + 1)..(k - 1) : j \in (i + 1)..k
      BY <2>2
    <3>2. name(i) \in DOMAIN fields /\ name(i) # name(k) /\ fields[name(i)] = value(i)
      BY <1>1, <1>7, <3>1
    <3> QED BY <1>3, <3>2
  <2> QED BY <2>1, <2>2
<1> QED BY <1>6, <1>7 DEF AfterLines, new, name, value

LEMMA FieldsGathered ==
  ASSUME NEW lines, Plain(lines), DOMAIN lines = 1..Len(lines),
         Find(lines[1], Colon, 1) = 0, \A i \in 2..Len(lines) : Canonical(lines[i])
  PROVE  AfterLines(lines, VersionOf(lines), Len(lines), Gathered(VersionOf(lines), lines))
<1> DEFINE n == Len(lines)
           version == VersionOf(lines)
<1>1. /\ n \in Nat \ {0}
      /\ \A k \in 1..n : lines[k] \in Words /\ Len(lines[k]) \in Nat \ {0}
  BY DEF Plain
<1>r. PICK r : Gathering(r, version, lines)
  BY GatheredSteps
<1>2. /\ r[0] = version
       /\ \A k \in 1..n : r[k] = AddField(r[k - 1], lines[k])
       /\ Gathered(version, lines) = r[n]
  BY <1>r DEF Gathering
<1> HIDE DEF version
<1>3. AfterLines(lines, version, 1, r[1])
  <2> DEFINE line == lines[1]
  <2>1. 1 \in 1..n /\ 1 - 1 = 0
    BY <1>1
  <2>2. line \in Words /\ Len(line) # 0 /\ Find(line, Colon, 1) = 0
    BY <1>1, <2>1
  <2>3. line # <<>>
    BY <2>2
  <2>4. r[1] = AddField(r[0], line)
    <3>1. r[1] = AddField(r[1 - 1], lines[1])
      BY <1>2, <2>1
    <3> QED BY <2>1, <3>1
  <2> HIDE DEF line
  <2>5. r[1] = version
    BY <1>2, <2>2, <2>3, <2>4, UncutAdds
  <2>6. 2..1 = {}
    OBVIOUS
  <2> QED BY <2>5, <2>6 DEF AfterLines
<1>4. ASSUME NEW k \in 2..n, AfterLines(lines, version, k - 1, r[k - 1])
      PROVE  AfterLines(lines, version, k, r[k])
  <2> DEFINE line == lines[k]
  <2>1. k \in 1..n /\ k \in 2..Len(lines) /\ k \in Nat /\ k >= 2
    BY <1>1
  <2>2. line \in Words /\ Canonical(line) /\ r[k] = AddField(r[k - 1], line)
    BY <1>1, <1>2, <2>1
  <2> HIDE DEF line
  <2>3. r[k] = Put(r[k - 1], line[1], From(line, 4))
    BY <2>2, CanonicalAdds
  <2> QED BY <1>4, <2>1, <2>3, NextLineAdds DEF line
<1>5. \A k \in 1..n : AfterLines(lines, version, k, r[k])
  <2> DEFINE T == {k \in 1..n : ~AfterLines(lines, version, k, r[k])}
  <2>1. SUFFICES ASSUME T # {} PROVE FALSE
    OBVIOUS
  <2>2. PICK m \in T : \A j \in T : m <= j
    <3>1. T \subseteq Nat
      OBVIOUS
    <3> HIDE DEF T
    <3> QED BY <2>1, <3>1, LeastNatural
  <2>3. m # 1
    BY <1>3, <2>2
  <2>4. m \in 2..n /\ m - 1 \in 1..n /\ ~(m <= m - 1)
    BY <1>1, <2>2, <2>3
  <2>5. AfterLines(lines, version, m - 1, r[m - 1])
    BY <2>2, <2>4
  <2> QED BY <1>4, <2>2, <2>4, <2>5
<1> QED BY <1>1, <1>2, <1>5 DEF version

LEMMA VersionDomain ==
  ASSUME NEW lines
  PROVE  DOMAIN VersionOf(lines) = IF Head(lines[1]) = "HTTP/" THEN {"Version"} ELSE {}
<1>1. DOMAIN NoFields = {}
  BY DEF NoFields
<1> QED BY <1>1 DEF VersionOf, Put

(***************************************************************************)
(* The header handed over has exactly the fields the server wrote, each with *)
(* the last value written for it, for any number of canonical lines.       *)
(***************************************************************************)
THEOREM FieldsFound == Spec => []FieldsAsSent
<1>1. Init => ReadInv /\ HeaderInv
  BY DEF Init, ReadInv, HeaderInv
<1>2. HeaderInv => FieldsAsSent
  <2> SUFFICES ASSUME HeaderInv PROVE FieldsAsSent
    OBVIOUS
  <2> DEFINE lines == answer.lines
             n == Len(lines)
             names == {lines[i][1] : i \in 2..n}
             fields == Gathered(VersionOf(lines), lines)
             last(name) == Max({i \in 2..n : lines[i][1] = name})
  <2>1. ASSUME outcome = "header", Find(lines[1], Colon, 1) = 0,
               \A i \in 2..n : Canonical(lines[i])
        PROVE  /\ DOMAIN response.fields =
                    names \cup (IF Head(lines[1]) = "HTTP/" THEN {"Version"} ELSE {})
               /\ \A name \in names : response.fields[name] = From(lines[last(name)], 4)
    <3>1. answer \in Answers /\ response = HeaderOf(lines)
      BY <2>1 DEF HeaderInv
    <3>2. Plain(lines) /\ DOMAIN lines = 1..n
      BY <3>1, AnswerWritten DEF Written
    <3>3. response.fields = fields
      BY <3>1 DEF HeaderOf
    <3> HIDE DEF lines
    <3>4. AfterLines(lines, VersionOf(lines), n, fields)
      BY <2>1, <3>2, FieldsGathered
    <3>5. n \in Nat
      BY <3>2 DEF Plain
    <3> HIDE DEF fields, n
    <3>6. DOMAIN fields = names \cup (IF Head(lines[1]) = "HTTP/" THEN {"Version"} ELSE {})
      BY <3>4, VersionDomain DEF AfterLines
    <3>7. ASSUME NEW name \in names PROVE fields[name] = From(lines[last(name)], 4)
      <4> DEFINE places == {i \in 2..n : lines[i][1] = name}
                 m == Max(places)
      <4>1. places \subseteq 1..n
        BY <3>5
      <4>2. places # {}
        OBVIOUS
      <4>3. m \in places /\ \A i \in places : i <= m
        <5> HIDE DEF places
        <5> QED BY <3>5, <4>1, <4>2, GreatestPlace
      <4> HIDE DEF m
      <4>4. m \in 2..n /\ lines[m][1] = name
        BY <4>3
      <4>5. ASSUME NEW j \in (m + 1)..n PROVE lines[j][1] # name
        <5>1. j \in 2..n /\ ~(j <= m)
          BY <3>5, <4>4
        <5> QED BY <4>3, <5>1
      <4>6. fields[lines[m][1]] = From(lines[m], 4)
        BY <3>4, <4>4, <4>5 DEF AfterLines
      <4> QED BY <4>4, <4>6 DEF m
    <3> HIDE DEF names, last
    <3> QED BY <3>3, <3>6, <3>7
  <2> QED BY <2>1 DEF FieldsAsSent, Colon, Col, Blank
<1> QED BY <1>1, <1>2, StepKeepsReadInv, StepKeepsHeaderInv, PTL DEF Spec

(* Texts that have no line end in them *)
Inline == Seq(Token \ {CR})

(* A sequence whose elements are in a set is a sequence over it.           *)
LEMMA SeqRetyped ==
  ASSUME NEW S, NEW T, NEW s \in Seq(S), \A i \in 1..Len(s) : s[i] \in T
  PROVE  s \in Seq(T)
<1>1. Len(s) \in Nat /\ s \in [1..Len(s) -> S]
  BY LenProperties
<1> DEFINE n == Len(s)
<1>2. n \in Nat /\ s \in [1..n -> T]
  BY <1>1
<1> HIDE DEF n
<1> QED BY <1>2, SeqDef

(* A text without a line end is one whose words are not CR.                *)
LEMMA InlineIsPlain ==
  ASSUME NEW s
  PROVE  s \in Inline <=> s \in Words /\ Without(s, CR)
<1>1. ASSUME s \in Inline PROVE s \in Words /\ Without(s, CR)
  <2>1. s \in Seq(Token \ {CR})
    BY <1>1 DEF Inline
  <2>2. s \in Words
    <3>1. Token \ {CR} \subseteq Token
      OBVIOUS
    <3> QED BY <2>1, <3>1, SeqOfFewer DEF Words
  <2>3. \A i \in 1..Len(s) : s[i] \in Token \ {CR}
    BY <2>1, ElementOfSeq
  <2> QED BY <2>2, <2>3 DEF Without
<1>2. ASSUME s \in Words, Without(s, CR) PROVE s \in Inline
  <2>1. s \in Seq(Token) /\ \A i \in 1..Len(s) : s[i] \in Token
    BY <1>2, ElementOfSeq DEF Words
  <2>2. \A i \in 1..Len(s) : s[i] \in Token \ {CR}
    BY <1>2, <2>1 DEF Without
  <2> QED BY <2>1, <2>2, SeqRetyped DEF Inline
<1> QED BY <1>1, <1>2

(* So have the sides of a separator, or of none.                           *)
LEMMA SidesIn ==
  ASSUME NEW T, NEW s \in Seq(T), NEW pos \in 0..Len(s)
  PROVE  Before(s, pos) \in Seq(T) /\ After(s, pos) \in Seq(T)
<1>1. Len(s) \in Nat
  BY LenProperties
<1>2. CASE pos = 0
  BY <1>2, EmptySeq DEF Before, After
<1>3. CASE pos # 0
  <2> DEFINE next == pos + 1
  <2>1. /\ pos \in Nat \ {0} /\ pos <= Len(s) + 1
        /\ next \in Nat \ {0} /\ next <= Len(s) + 1
    BY <1>1, <1>3
  <2>2. Upto(s, pos) \in Seq(T)
    BY <2>1, PartsIn
  <2>3. From(s, next) \in Seq(T)
    <3> HIDE DEF next
    <3> QED BY <2>1, PartsIn
  <2> QED BY <1>3, <2>2, <2>3 DEF Before, After
<1> QED BY <1>2, <1>3

(* A token is found in a text or not at all.                               *)
LEMMA FindOne ==
  ASSUME NEW s \in Words, NEW c \in Token
  PROVE  Find(s, <<c>>, 1) \in 0..Len(s)
<1> DEFINE p == <<c>>
           found == Find(s, p, 1)
<1>1. p \in Words /\ Len(p) = 1 /\ p # <<>>
  BY OneToken
<1>2. Len(s) \in Nat /\ 1 \in Nat \ {0}
  BY LenProperties DEF Words
<1> HIDE DEF p
<1>3. Found(s, p, 1, found)
  BY <1>1, <1>2, FindIsFound
<1> HIDE DEF found
<1>4. found \in 0..Len(s)
  BY <1>1, <1>2, <1>3 DEF Found
<1> QED BY <1>4 DEF found, p

(* The components of a URL have its tokens, but for the path by default.   *)
ComponentsIn(u, T) ==
  /\ u.userInfo \in Seq(T) /\ u.host \in Seq(T) /\ u.query \in Seq(T)
  /\ u.path \in Seq(T \cup {"/"})

(* What is parsed behind the scheme has the tokens of the text.            *)
LEMMA RestTexts ==
  ASSUME NEW T, T \subseteq Token, NEW scheme, NEW view1 \in Seq(T)
  PROVE  ComponentsIn(ParseRest(scheme, view1), T)
<1> DEFINE fragmentPos == Find(view1, <<"#">>, 1)
           view2 == Before(view1, fragmentPos)
           queryPos == Find(view2, <<"?">>, 1)
           view3 == Before(view2, queryPos)
           pathPos == Find(view3, <<"/">>, 1)
           view4 == Before(view3, pathPos)
           userInfoPos == Find(view4, <<"@">>, 1)
           view5 == HostAndPort(view4)
           portPos == PortPos(view5)
           u == ParseRest(scheme, view1)
<1>0. ASSUME NEW s \in Seq(T), NEW c \in Token PROVE Find(s, <<c>>, 1) \in 0..Len(s)
  BY SeqOfFewer, FindOne DEF Words
<1>1. view2 \in Seq(T)
  <2>1. fragmentPos \in 0..Len(view1)
    BY <1>0, SeparatorTokens
  <2> HIDE DEF fragmentPos
  <2> QED BY <2>1, SidesIn
<1>2. view3 \in Seq(T) /\ After(view2, queryPos) \in Seq(T)
  <2> HIDE DEF view2
  <2>1. queryPos \in 0..Len(view2)
    BY <1>0, <1>1, SeparatorTokens
  <2> HIDE DEF queryPos
  <2> QED BY <1>1, <2>1, SidesIn
<1> DEFINE path == IF pathPos = 0 THEN <<"/">> ELSE From(view3, pathPos)
<1>3. view4 \in Seq(T) /\ path \in Seq(T \cup {"/"})
  <2> HIDE DEF view3
  <2>1. pathPos \in 0..Len(view3) /\ Len(view3) \in Nat
    BY <1>0, <1>2, SeparatorTokens, LenProperties
  <2> HIDE DEF pathPos
  <2>2. CASE pathPos = 0
    <3>1. <<"/">> \in Seq(T \cup {"/"})
      BY OnePiece
    <3> QED BY <1>2, <2>1, <2>2, <3>1, SidesIn
  <2>3. CASE pathPos # 0
    <3>1. From(view3, pathPos) \in Seq(T)
      BY <1>2, <2>1, <2>3, PartsIn
    <3>2. T \subseteq T \cup {"/"}
      OBVIOUS
    <3>3. From(view3, pathPos) \in Seq(T \cup {"/"})
      BY <3>1, <3>2, SeqOfFewer
    <3> QED BY <1>2, <2>1, <2>3, <3>3, SidesIn
  <2> QED BY <2>2, <2>3
<1> DEFINE userInfo == IF userInfoPos = 0 THEN <<>> ELSE Upto(view4, userInfoPos)
<1>4. view5 \in Seq(T) /\ userInfo \in Seq(T)
  <2> HIDE DEF view4
  <2>1. userInfoPos \in 0..Len(view4) /\ Len(view4) \in Nat
    BY <1>0, <1>3, SeparatorTokens, LenProperties
  <2>2. view5 = From(view4, userInfoPos + 1)
    BY DEF HostAndPort
  <2> HIDE DEF userInfoPos
  <2>3. From(view4, userInfoPos + 1) \in Seq(T)
    <3> DEFINE next == userInfoPos + 1
    <3>1. next \in Nat \ {0} /\ next <= Len(view4) + 1
      BY <2>1
    <3> HIDE DEF next
    <3>2. From(view4, next) \in Seq(T)
      BY <1>3, <3>1, PartsIn
    <3> QED BY <3>2 DEF next
  <2>4. userInfoPos # 0 => Upto(view4, userInfoPos) \in Seq(T)
    BY <1>3, <2>1, PartsIn
  <2> QED BY <2>2, <2>3, <2>4, EmptySeq
<1>5. Before(view5, portPos) \in Seq(T)
  <2> HIDE DEF view5
  <2>1. portPos \in 0..Len(view5)
    <3>1. view5 \in Words
      BY <1>4, SeqOfFewer DEF Words
    <3>2. RFind(view5, ":") \in 0..Len(view5) /\ Len(view5) \in Nat
      BY <3>1, RFinds
    <3> QED BY <3>2 DEF PortPos
  <2> HIDE DEF portPos
  <2> QED BY <1>4, <2>1, SidesIn
<1>6. /\ u.userInfo = userInfo /\ u.host = Before(view5, portPos)
      /\ u.query = After(view2, queryPos) /\ u.path = path
  BY DEF ParseRest
<1> HIDE DEF u, userInfo, view5, portPos, view2, queryPos, path
<1>7. ComponentsIn(u, T)
  BY <1>2, <1>3, <1>4, <1>5, <1>6 DEF ComponentsIn
<1> QED BY <1>7 DEF u

(* So has what ParseUrl reads.                                             *)
LEMMA UrlTexts ==
  ASSUME NEW T, T \subseteq Token, NEW theText \in Seq(T)
  PROVE  ComponentsIn(ParseUrl(theText), T)
<1> DEFINE flagPos == Find(theText, <<":", "/", "/">>, 1)
           scheme == Upto(theText, flagPos)
           rest == From(theText, flagPos + 3)
<1>1. ComponentsIn(EmptyUrl, T)
  BY EmptySeq DEF ComponentsIn, EmptyUrl
<1>2. ASSUME flagPos # 0 PROVE rest \in Seq(T)
  <2>1. theText \in Words
    BY SeqOfFewer DEF Words
  <2>2. /\ <<":", "/", "/">> \in Words /\ Len(<<":", "/", "/">>) = 3
        /\ <<":", "/", "/">> # <<>>
    <3>1. ":" \in Token /\ "/" \in Token
      BY SeparatorTokens
    <3>2. <<":", "/", "/">> \in Words /\ Len(<<":", "/", "/">>) = 3
      BY <3>1, ThreeTokens
    <3> QED BY <3>2
  <2> DEFINE p == <<":", "/", "/">>
  <2>3. p \in Words /\ Len(p) = 3 /\ p # <<>> /\ flagPos = Find(theText, p, 1)
    BY <2>2
  <2> HIDE DEF p
  <2>4. Found(theText, p, 1, flagPos)
    BY <2>1, <2>3, FindIsFound
  <2> HIDE DEF flagPos
  <2>5. flagPos + 3 \in Nat \ {0} /\ flagPos + 3 <= Len(theText) + 1
    BY <1>2, <2>1, <2>3, <2>4, LenProperties DEF Found, Words
  <2> DEFINE next == flagPos + 3
  <2>6. next \in Nat \ {0} /\ next <= Len(theText) + 1
    BY <2>5
  <2> HIDE DEF next
  <2>7. From(theText, next) \in Seq(T)
    BY <2>6, PartsIn
  <2> QED BY <2>7 DEF next
<1>3. ASSUME flagPos # 0 PROVE ComponentsIn(ParseRest(scheme, rest), T)
  <2> HIDE DEF rest, flagPos, scheme
  <2> QED BY <1>2, <1>3, RestTexts
<1>4. ParseUrl(theText) \in {EmptyUrl, ParseRest(scheme, rest)}
      /\ (flagPos = 0 => ParseUrl(theText) = EmptyUrl)
  BY DEF ParseUrl
<1> HIDE DEF flagPos, scheme, rest
<1> QED BY <1>1, <1>3, <1>4

-----------------------------------------------------------------------------
(* The values of fields have the tokens of their lines.                    *)
FieldsIn(fields, T) == \A name \in DOMAIN fields : fields[name] \in Seq(T)

(* A line adds a field with its tokens.                                    *)
LEMMA AddFieldIn ==
  ASSUME NEW T, T \subseteq Token, NEW line \in Seq(T), NEW fields, FieldsIn(fields, T)
  PROVE  FieldsIn(AddField(fields, line), T)
<1> DEFINE pieces == Split(line, Colon)
<1>1. Colon \in Words /\ Colon # <<>>
  BY ColonTokens
<1>2. pieces \in Seq(Seq(T))
  <2>1. line \in Words /\ 1 \in 1..(Len(line) + 1)
    BY SeqOfFewer, LenProperties DEF Words
  <2>2. PICK f : Splits(f, line, Colon, 1) /\ pieces = f[1]
    BY <1>1, <2>1, SplitSteps
  <2> QED BY <1>1, <2>1, <2>2, SplitIn
<1>3. AddField(fields, line) =
        IF Len(pieces) = 2 THEN Put(fields, pieces[1][1], RemovePrefix(pieces[2], " ")) ELSE fields
  BY DEF AddField, Colon, Col, Blank
<1> HIDE DEF pieces
<1>4. CASE Len(pieces) = 2
  <2>1. pieces[2] \in Seq(T)
    <3>1. 2 \in 1..Len(pieces)
      BY <1>4
    <3> QED BY <1>2, <3>1, ElementOfSeq
  <2>2. RemovePrefix(pieces[2], " ") \in Seq(T)
    BY <2>1, EmptySeq DEF RemovePrefix
  <2> QED BY <1>3, <1>4, <2>2, ZenonT(30) DEF FieldsIn, Put
<1>5. CASE Len(pieces) # 2
  BY <1>3, <1>5
<1> QED BY <1>4, <1>5

(* So do all lines, one after the other.                                   *)
LEMMA GatheredIn ==
  ASSUME NEW T, T \subseteq Token, NEW lines, Plain(lines), DOMAIN lines = 1..Len(lines),
         \A k \in 1..Len(lines) : lines[k] \in Seq(T), NEW base, FieldsIn(base, T)
  PROVE  FieldsIn(Gathered(base, lines), T)
<1> DEFINE n == Len(lines)
<1>r. PICK r : Gathering(r, base, lines)
  BY GatheredSteps
<1>1. /\ r[0] = base
      /\ \A k \in 1..n : r[k] = AddField(r[k - 1], lines[k])
      /\ Gathered(base, lines) = r[n]
  BY <1>r DEF Gathering
<1>2. n \in Nat
  BY DEF Plain
<1>3. ASSUME NEW k \in 1..n, FieldsIn(r[k - 1], T) PROVE FieldsIn(r[k], T)
  BY <1>1, <1>3, AddFieldIn
<1>4. \A k \in 0..n : FieldsIn(r[k], T)
  <2> DEFINE Bad == {k \in 0..n : ~FieldsIn(r[k], T)}
  <2>1. SUFFICES ASSUME Bad # {} PROVE FALSE
    OBVIOUS
  <2>2. PICK m \in Bad : \A j \in Bad : m <= j
    <3>1. Bad \subseteq Nat
      OBVIOUS
    <3> HIDE DEF Bad
    <3> QED BY <2>1, <3>1, LeastNatural
  <2>3. m # 0
    BY <1>1, <2>2
  <2>4. m \in 1..n /\ m - 1 \in 0..n /\ ~(m <= m - 1)
    BY <1>2, <2>2, <2>3
  <2>5. FieldsIn(r[m - 1], T)
    BY <2>2, <2>4
  <2> QED BY <1>3, <2>2, <2>4, <2>5
<1> QED BY <1>1, <1>2, <1>4

(* The fields of a header have the tokens of the answer.                   *)
LEMMA HeaderFieldsIn ==
  ASSUME NEW T, T \subseteq Token, NEW lines, Plain(lines), DOMAIN lines = 1..Len(lines),
         \A k \in 1..Len(lines) : lines[k] \in Seq(T), ~StatusThrows(lines[1])
  PROVE  FieldsIn(HeaderOf(lines).fields, T)
<1> DEFINE version == VersionOf(lines)
           line == lines[1]
<1>1. FieldsIn(NoFields, T)
  BY DEF FieldsIn, NoFields
<1>2. ASSUME Head(line) = "HTTP/" PROVE SubSeq(line, 1, 2) \in Seq(T)
  <2>1. Len(line) >= 5
    BY <1>2 DEF StatusThrows
  <2>2. line \in Seq(T)
    BY DEF Plain
  <2> HIDE DEF line
  <2>3. 1 \in Nat \ {0} /\ 2 \in Int /\ 2 <= Len(line)
    BY <2>1, <2>2, LenProperties
  <2> QED BY <2>2, <2>3, CutIn
<1>3. FieldsIn(version, T)
  <2>1. CASE Head(line) = "HTTP/"
    <3>1. version = Put(NoFields, "Version", SubSeq(line, 1, 2))
      BY <2>1 DEF VersionOf
    <3> HIDE DEF version, line
    <3> QED BY <1>1, <1>2, <2>1, <3>1 DEF FieldsIn, Put
  <2>2. CASE Head(line) # "HTTP/"
    BY <1>1, <2>2 DEF VersionOf
  <2> QED BY <2>1, <2>2
<1> HIDE DEF version
<1>4. FieldsIn(Gathered(version, lines), T)
  BY <1>3, GatheredIn
<1>5. HeaderOf(lines).fields = Gathered(version, lines)
  BY DEF HeaderOf, version
<1> QED BY <1>4, <1>5

(* The digits of Base64                                                    *)
Digits == {kBase64Content[v + 1] : v \in 0..63}

(* No digit is twice in the table.                                         *)
LEMMA TableDistinct ==
  ASSUME NEW i \in 1..64, NEW j \in 1..64, kBase64Content[i] = kBase64Content[j]
  PROVE  i = j
BY SMT DEF kBase64Content

(* A digit is worth the low six bits it was made of.                       *)
LEMMA DigitIs ==
  ASSUME NEW n \in Nat
  PROVE  Digit(n) \in Digits /\ Worth(Digit(n)) = n % 64
<1> DEFINE v == n % 64
<1>1. v \in 0..63
  OBVIOUS
<1>2. Digit(n) = kBase64Content[v + 1]
  BY DEF Digit
<1> HIDE DEF v
<1>3. \A x \in 0..63 : kBase64Content[x + 1] = kBase64Content[v + 1] => x = v
  <2>1. ASSUME NEW x \in 0..63, kBase64Content[x + 1] = kBase64Content[v + 1] PROVE x = v
    <3> DEFINE i == x + 1
               j == v + 1
    <3>1. i \in 1..64 /\ j \in 1..64 /\ kBase64Content[i] = kBase64Content[j]
      BY <1>1, <2>1
    <3> HIDE DEF i, j
    <3>2. i = j
      BY <3>1, TableDistinct
    <3> QED BY <1>1, <3>2 DEF i, j
  <2> QED BY <2>1
<1>4. Worth(Digit(n)) = v
  BY <1>1, <1>2, <1>3 DEF Worth
<1> QED BY <1>1, <1>2, <1>4 DEF Digits, v

(* What a shift is, by literals                                            *)
LEMMA Shifts ==
  ASSUME NEW n \in Nat
  PROVE  /\ Shift(n, 0) = n /\ Shift(n, 1) = n \div 2 /\ Shift(n, 2) = n \div 4
         /\ Shift(n, 3) = n \div 8 /\ Shift(n, 4) = n \div 16 /\ Shift(n, 5) = n \div 32
         /\ Shift(n, 6) = n \div 64 /\ Shift(n, 7) = n \div 128
<1> DEFINE table == <<1, 2, 4, 8, 16, 32, 64, 128>>
<1>1. /\ table[0 + 1] = 1 /\ table[1 + 1] = 2 /\ table[2 + 1] = 4 /\ table[3 + 1] = 8
      /\ table[4 + 1] = 16 /\ table[5 + 1] = 32 /\ table[6 + 1] = 64 /\ table[7 + 1] = 128
  BY SMT
<1>2. \A by : Shift(n, by) = n \div table[by + 1]
  BY Zenon DEF Shift
<1> HIDE DEF table
<1>3. n \div 1 = n
  OBVIOUS
<1> QED BY <1>1, <1>2, <1>3

(* The six bits at place j of the group h of three bytes, zero bytes       *)
(* behind the last                                                         *)
ByteAt(bytes, i) == IF i \in 1..Len(bytes) THEN bytes[i] ELSE 0

Six(bytes, h, j) ==
  CASE j = 0 -> ByteAt(bytes, 3 * h + 1) \div 4
    [] j = 1 -> (ByteAt(bytes, 3 * h + 1) % 4) * 16 + (ByteAt(bytes, 3 * h + 2) \div 16)
    [] j = 2 -> (ByteAt(bytes, 3 * h + 2) % 16) * 4 + (ByteAt(bytes, 3 * h + 3) \div 64)
    [] OTHER -> ByteAt(bytes, 3 * h + 3) % 64

(* Digits that spell the bytes, as far as they go                          *)
Spells(res, bytes) ==
  /\ res \in Seq(Digits)
  /\ \A h \in Nat, j \in 0..3 : 4 * h + j + 1 <= Len(res) =>
       Worth(res[4 * h + j + 1]) = Six(bytes, h, j)

(* The last of two bytes that are read, and the six bits where they meet   *)
Meets(val, p, c) ==
  /\ (val \div 4) % 64 = c \div 4
  /\ (val \div 16) % 64 = (p % 4) * 16 + (c \div 16)
  /\ (val \div 64) % 64 = (p % 16) * 4 + (c \div 64)
  /\ val % 64 = c % 64

(* Two bytes side by side hold the six bits where they meet.               *)
LEMMA Meet ==
  ASSUME NEW p \in 0..255, NEW c \in 0..255, NEW val, val = p * 256 + c
  PROVE  Meets(val, p, c)
<1>1. (val \div 4) % 64 = c \div 4
  BY SMT
<1>2. (val \div 16) % 64 = (p % 4) * 16 + (c \div 16)
  BY SMT
<1>3. (val \div 64) % 64 = (p % 16) * 4 + (c \div 64)
  BY SMT
<1>4. val % 64 = c % 64
  BY SMT
<1> QED BY <1>1, <1>2, <1>3, <1>4, Zenon DEF Meets

(* What is kept of val                                                     *)
Low(n) == n % 65536

(* After a byte, val holds it and the byte before it.                      *)
Reads(v, q, p, c) == Low(v * 256 + c) = p * 256 + c

(* What was read before these two is out of reach.                         *)
LEMMA Behind ==
  ASSUME NEW q \in 0..255, NEW p \in 0..255, NEW c \in 0..255, NEW v, v = q * 256 + p
  PROVE  Reads(v, q, p, c)
BY SMT DEF Low, Reads

(* The bits of the last byte that no digit has yet, zeros behind them      *)
LeftOvers(n, p) ==
  (n \div 16) % 64 = (p % 4) * 16 /\ (n \div 64) % 64 = (p % 16) * 4

(* Shifting val on puts them in place.                                     *)
LEMMA LeftOver ==
  ASSUME NEW q \in 0..255, NEW p \in 0..255, NEW n, n = (q * 256 + p) * 256
  PROVE  LeftOvers(n, p)
<1> DEFINE x == n \div 16
           y == n \div 64
<1>1. x = q * 4096 + p * 16 /\ y = q * 1024 + p * 4
  BY SMT
<1> HIDE DEF x, y
<1>2. x % 64 = (p % 4) * 16
  BY <1>1, SMT
<1>3. y % 64 = (p % 16) * 4
  BY <1>1, SMT
<1>4. (n \div 16) % 64 = (p % 4) * 16 /\ (n \div 64) % 64 = (p % 16) * 4
  BY <1>2, <1>3 DEF x, y
<1> QED BY <1>4 DEF LeftOvers

(* More digits behind those of a text                                      *)
Extended(a, e, bytes, h, m) ==
  Spells(a \o e, bytes) /\ Len(a \o e) = 4 * h + m + Len(e)

(* Digits that go on spelling may be appended.                             *)
LEMMA SpellsOn ==
  ASSUME NEW bytes, NEW a, Spells(a, bytes), NEW e \in Seq(Digits), NEW h \in Nat, NEW m \in 0..2,
         Len(a) = 4 * h + m, m + Len(e) <= 4,
         \A x \in 1..Len(e) : Worth(e[x]) = Six(bytes, h, m + x - 1)
  PROVE  Extended(a, e, bytes, h, m)
<1> DEFINE s == a \o e
<1>1. a \in Seq(Digits) /\ Len(a) \in Nat /\ Len(e) \in Nat
  BY LenProperties DEF Spells
<1>2. /\ s \in Seq(Digits) /\ Len(s) = Len(a) + Len(e)
      /\ \A i \in 1..Len(a) : s[i] = a[i]
      /\ \A i \in 1..Len(e) : s[Len(a) + i] = e[i]
  <2>1. \A i \in 1..(Len(a) + Len(e)) : s[i] = IF i <= Len(a) THEN a[i] ELSE e[i - Len(a)]
    BY <1>1, ConcatProperties
  <2>2. s \in Seq(Digits) /\ Len(s) = Len(a) + Len(e)
    BY <1>1, ConcatProperties
  <2> HIDE DEF s
  <2>3. ASSUME NEW i \in 1..Len(a) PROVE s[i] = a[i]
    BY <1>1, <2>1
  <2>4. ASSUME NEW i \in 1..Len(e) PROVE s[Len(a) + i] = e[i]
    <3> DEFINE k == Len(a) + i
    <3>1. k \in 1..(Len(a) + Len(e)) /\ ~(k <= Len(a)) /\ k - Len(a) = i
      BY <1>1
    <3> HIDE DEF k
    <3>2. s[k] = e[i]
      BY <2>1, <3>1
    <3> QED BY <3>2 DEF k
  <2> QED BY <2>2, <2>3, <2>4
<1> HIDE DEF s
<1>3. ASSUME NEW g \in Nat, NEW j \in 0..3, 4 * g + j + 1 <= Len(s)
      PROVE  Worth(s[4 * g + j + 1]) = Six(bytes, g, j)
  <2> DEFINE k == 4 * g + j + 1
  <2>1. k \in Nat /\ k >= 1 /\ k <= Len(a) + Len(e)
    BY <1>1, <1>2, <1>3
  <2>2. CASE k <= Len(a)
    <3>1. Worth(a[k]) = Six(bytes, g, j)
      BY <2>2 DEF Spells
    <3>2. k \in 1..Len(a)
      BY <1>1, <2>1, <2>2
    <3> HIDE DEF k
    <3>3. s[k] = a[k]
      BY <1>2, <3>2
    <3>4. Worth(s[k]) = Six(bytes, g, j)
      BY <3>1, <3>3
    <3> QED BY <3>4 DEF k
  <2>3. CASE ~(k <= Len(a))
    <3> DEFINE x == k - Len(a)
    <3>1. x \in 1..Len(e) /\ Len(a) + x = k
      BY <1>1, <2>1, <2>3
    <3>2. g = h /\ j = m + x - 1
      <4>1. x <= Len(e) /\ 4 * g + j + 1 = 4 * h + m + x /\ x >= 1
        BY <1>1, <3>1
      <4> HIDE DEF x, k
      <4>2. x \in Int /\ m + x <= 4
        BY <1>1, <3>1
      <4> QED BY <4>1, <4>2
    <3> HIDE DEF x, k
    <3>3. s[k] = e[x]
      BY <1>2, <3>1
    <3>4. Worth(e[x]) = Six(bytes, h, m + x - 1)
      BY <3>1
    <3>5. Worth(s[k]) = Six(bytes, g, j)
      BY <3>2, <3>3, <3>4
    <3> QED BY <3>5 DEF k
  <2> QED BY <2>2, <2>3
<1>4. Spells(s, bytes) /\ Len(s) = 4 * h + m + Len(e)
  <2>1. Len(s) = 4 * h + m + Len(e)
    BY <1>1, <1>2
  <2>2. Spells(s, bytes)
    BY <1>2, <1>3 DEF Spells
  <2> QED BY <2>1, <2>2
<1> QED BY <1>4 DEF s, Extended

(* Sequences of bytes                                                      *)
IsBytes(bytes) ==
  /\ Len(bytes) \in Nat /\ DOMAIN bytes = 1..Len(bytes)
  /\ \A i \in 1..Len(bytes) : bytes[i] \in 0..255

(* The loop has read h groups of three bytes and m more: val ends in the   *)
(* byte read last, which is all the digits to come need of it.             *)
LoopAt(t, bytes, h, m) ==
  /\ \E q \in 0..255 : t.val = q * 256 + ByteAt(bytes, 3 * h + m)
  /\ t.valb = 2 * m - 6
  /\ Spells(t.res, bytes) /\ Len(t.res) = 4 * h + m

(* A byte, or the zero behind the last                                     *)
LEMMA ByteIsByte ==
  ASSUME NEW bytes, IsBytes(bytes), NEW i
  PROVE  ByteAt(bytes, i) \in 0..255
<1>1. CASE i \in 1..Len(bytes)
  <2>1. bytes[i] \in 0..255
    BY <1>1, Zenon DEF IsBytes
  <2> QED BY <1>1, <2>1, Zenon DEF ByteAt
<1>2. CASE i \notin 1..Len(bytes)
  <2>1. 0 \in 0..255
    OBVIOUS
  <2> QED BY <1>2, <2>1, Zenon DEF ByteAt
<1> QED BY <1>1, <1>2

(* A function on 1..n is a sequence.                                       *)
LEMMA FunctionIsSeq ==
  ASSUME NEW S, NEW n \in Nat, NEW f \in [1..n -> S]
  PROVE  f \in Seq(S) /\ Len(f) = n
<1>1. f \in Seq(S)
  BY SeqDef
<1>2. DOMAIN f = 1..Len(f) /\ Len(f) \in Nat /\ DOMAIN f = 1..n
  BY <1>1, LenProperties
<1>3. Len(f) = n
  <2> DEFINE k == Len(f)
  <2>1. 1..k = 1..n /\ k \in Nat
    BY <1>2
  <2> HIDE DEF k
  <2>2. k = n
    BY <2>1
  <2> QED BY <2>2 DEF k
<1> QED BY <1>1, <1>3

(* What one turn writes: one digit, or two with the third byte of a group  *)
LEMMA OneDigit ==
  ASSUME NEW val \in Nat, NEW valb \in {2, 4}
  PROVE  /\ Emitted(val, valb) \in Seq(Digits) /\ Len(Emitted(val, valb)) = 1
         /\ Worth(Emitted(val, valb)[1]) = Shift(val, valb) % 64
<1> DEFINE d == Digit(Shift(val, valb))
           e == [k \in 1..1 |-> d]
<1>1. Shift(val, valb) \in Nat
  BY Shifts
<1>2. d \in Digits /\ Worth(d) = Shift(val, valb) % 64
  BY <1>1, DigitIs
<1>3. Emitted(val, valb) = e
  <2>1. 1..(valb \div 6 + 1) = 1..1
    BY SMT
  <2>2. \A k \in 1..1 : valb - 6 * (k - 1) = valb
    OBVIOUS
  <2> QED BY <2>1, <2>2, Zenon DEF Emitted
<1> HIDE DEF d
<1>4. e \in Seq(Digits) /\ Len(e) = 1 /\ e[1] = d
  BY <1>2
<1> QED BY <1>2, <1>3, <1>4

(* The digits of a turn that has six bits left from the turn before        *)
LEMMA TwoDigits ==
  ASSUME NEW val \in Nat
  PROVE  /\ Emitted(val, 6) \in Seq(Digits) /\ Len(Emitted(val, 6)) = 2
         /\ Worth(Emitted(val, 6)[1]) = Shift(val, 6) % 64
         /\ Worth(Emitted(val, 6)[2]) = Shift(val, 0) % 64
<1> DEFINE c == Digit(Shift(val, 6))
           d == Digit(Shift(val, 0))
           e == [k \in 1..2 |-> Digit(Shift(val, 6 - 6 * (k - 1)))]
<1>1. Shift(val, 6) \in Nat /\ Shift(val, 0) \in Nat
  BY Shifts
<1>2. /\ c \in Digits /\ Worth(c) = Shift(val, 6) % 64
      /\ d \in Digits /\ Worth(d) = Shift(val, 0) % 64
  BY <1>1, DigitIs
<1>3. Emitted(val, 6) = e
  <2>1. 1..(6 \div 6 + 1) = 1..2
    BY SMT
  <2> QED BY <2>1, Zenon DEF Emitted
<1>4. e[1] = c /\ e[2] = d
  <2>1. 1 \in 1..2 /\ 2 \in 1..2 /\ 6 - 6 * (1 - 1) = 6 /\ 6 - 6 * (2 - 1) = 0
    BY SMT
  <2> QED BY <2>1, Zenon
<1> HIDE DEF c, d
<1>5. e \in [1..2 -> Digits]
  <2>1. \A k \in 1..2 : e[k] \in Digits
    <3>1. \A k \in 1..2 : k = 1 \/ k = 2
      OBVIOUS
    <3> HIDE DEF e
    <3> QED BY <1>2, <1>4, <3>1
  <2> QED BY <2>1
<1> HIDE DEF e
<1>6. e \in Seq(Digits) /\ Len(e) = 2
  <2>1. 2 \in Nat
    OBVIOUS
  <2> QED BY <1>5, <2>1, FunctionIsSeq
<1> QED BY <1>2, <1>3, <1>4, <1>6

(* A turn, with its modulo written out                                     *)
Turned(new, t, val, valb) ==
  /\ new.val = val /\ new.valb = (valb % 6) - 6
  /\ new.res = t.res \o Emitted(val, valb)

(* This is what a turn does.                                               *)
LEMMA TurnIs ==
  ASSUME NEW t, NEW byte
  PROVE  Turned(Base64Turn(t, byte), t, Low(t.val * 256 + byte), t.valb + 8)
<1> DEFINE val == Low(t.val * 256 + byte)
           valb == t.valb + 8
           lost == (valb % 6) - 6
           res == t.res \o Emitted(val, valb)
           new == Base64Turn(t, byte)
<1>1. new = [val |-> val, valb |-> lost, res |-> res]
  BY SMT DEF Base64Turn, Low
<1> HIDE DEF val, valb, lost, res, new
<1>2. new.val = val /\ new.valb = lost /\ new.res = res
  BY <1>1
<1> QED BY <1>2 DEF val, valb, lost, res, new, Turned

(* What the bits come to in each of the three turns of a group             *)
Turning(t, m, p, c) ==
  /\ p \in 0..255 /\ c \in 0..255
  /\ Low(t.val * 256 + c) = p * 256 + c
  /\ t.valb + 8 = 2 * m + 2

(* What a turn leaves in val: the last two bytes                           *)
LEMMA TurnVal ==
  ASSUME NEW bytes, IsBytes(bytes), NEW h \in Nat, NEW m \in 0..2, NEW t, LoopAt(t, bytes, h, m),
         NEW p, p = ByteAt(bytes, 3 * h + m), NEW c, c = ByteAt(bytes, 3 * h + m + 1)
  PROVE  Turning(t, m, p, c)
<1>1. p \in 0..255 /\ c \in 0..255
  BY ByteIsByte
<1>2. PICK q \in 0..255 : t.val = q * 256 + p
  BY DEF LoopAt
<1>3. Low(t.val * 256 + c) = p * 256 + c
  <2> DEFINE v == t.val
  <2>1. v = q * 256 + p
    BY <1>2
  <2> HIDE DEF v
  <2>2. Reads(v, q, p, c)
    BY <1>1, <1>2, <2>1, Behind
  <2> QED BY <2>2 DEF v, Reads
<1>4. t.valb + 8 = 2 * m + 2
  <2>1. t.valb = 2 * m - 6
    BY DEF LoopAt
  <2> QED BY <2>1
<1> QED BY <1>1, <1>3, <1>4 DEF Turning

(* A turn that emits one digit keeps the invariant of the loop.            *)
LEMMA TurnOne ==
  ASSUME NEW bytes, IsBytes(bytes), NEW h \in Nat, NEW m \in 0..1, NEW t, LoopAt(t, bytes, h, m),
         NEW c, c = ByteAt(bytes, 3 * h + m + 1)
  PROVE  LoopAt(Base64Turn(t, c), bytes, h, m + 1)
<1> DEFINE p == ByteAt(bytes, 3 * h + m)
           val == p * 256 + c
           shift == 2 * m + 2
           e == Emitted(val, shift)
           new == Base64Turn(t, c)
<1>1. /\ p \in 0..255 /\ c \in 0..255
      /\ Low(t.val * 256 + c) = val
      /\ t.valb + 8 = shift
  <2>1. m \in 0..2
    OBVIOUS
  <2> HIDE DEF p
  <2>2. Turning(t, m, p, c)
    BY <2>1, TurnVal DEF p
  <2> QED BY <2>2 DEF Turning
<1> HIDE DEF p
<1>3. shift % 6 = shift /\ (shift % 6) - 6 = 2 * (m + 1) - 6 /\ shift \in {2, 4}
  BY SMT
<1>4. val \in Nat
  BY <1>1
<1> HIDE DEF val
<1>i. /\ (val \div 4) % 64 = c \div 4
      /\ (val \div 16) % 64 = (p % 4) * 16 + (c \div 16)
  <2>1. Meets(val, p, c)
    BY <1>1, Meet, ZenonT(30) DEF val
  <2> QED BY <2>1 DEF Meets
<1> HIDE DEF shift
<1>2. new.val = val /\ new.valb = (shift % 6) - 6 /\ new.res = t.res \o e
  <2> DEFINE theVal == Low(t.val * 256 + c)
             theShift == t.valb + 8
  <2>1. Turned(new, t, theVal, theShift)
    BY TurnIs, Zenon
  <2>2. theVal = val /\ theShift = shift
    BY <1>1
  <2> HIDE DEF theVal, theShift, new
  <2> QED BY <2>1, <2>2 DEF Turned
<1>5. /\ e \in Seq(Digits) /\ Len(e) = 1
      /\ Worth(e[1]) = Shift(val, shift) % 64
  BY <1>3, <1>4, OneDigit
<1> HIDE DEF e, new
<1>6. Worth(e[1]) = Six(bytes, h, m)
  <2>1. CASE m = 0
    <3>1. shift = 2 /\ 3 * h + m + 1 = 3 * h + 1
      BY <2>1 DEF shift
    <3>2. Shift(val, 2) = val \div 4
      BY <1>4, Shifts
    <3>4. Six(bytes, h, m) = c \div 4
      BY <2>1, <3>1 DEF Six
    <3> QED BY <1>5, <1>i, <3>1, <3>2, <3>4
  <2>2. CASE m = 1
    <3>1. shift = 4 /\ 3 * h + m = 3 * h + 1 /\ 3 * h + m + 1 = 3 * h + 2
      BY <2>2 DEF shift
    <3>2. Shift(val, 4) = val \div 16
      BY <1>4, Shifts
    <3>4. Six(bytes, h, m) = (p % 4) * 16 + (c \div 16)
      BY <2>2, <3>1 DEF Six, p
    <3> QED BY <1>5, <1>i, <3>1, <3>2, <3>4
  <2> QED BY <2>1, <2>2
<1>7. Spells(t.res, bytes) /\ Len(t.res) = 4 * h + m
  BY DEF LoopAt
<1> DEFINE s == t.res \o e
<1>8. Spells(s, bytes) /\ Len(s) = 4 * h + (m + 1)
  <2> DEFINE a == t.res
  <2>1. \A x \in 1..Len(e) : Worth(e[x]) = Six(bytes, h, m + x - 1)
    <3>1. 1..Len(e) = 1..1 /\ m + 1 - 1 = m
      BY <1>5
    <3>2. \A x \in 1..1 : x = 1
      OBVIOUS
    <3> QED BY <1>6, <3>1, <3>2
  <2>2. m \in 0..2 /\ m + Len(e) <= 4
    BY <1>5
  <2> HIDE DEF a
  <2>3. Spells(a, bytes) /\ Len(a) = 4 * h + m
    BY <1>7 DEF a
  <2>4. Extended(a, e, bytes, h, m)
    BY <1>5, <2>1, <2>2, <2>3, SpellsOn
  <2>5. 4 * h + m + Len(e) = 4 * h + (m + 1)
    BY <1>5
  <2> QED BY <2>4, <2>5 DEF a, Extended
<1> HIDE DEF s
<1>10. \E q \in 0..255 : new.val = q * 256 + ByteAt(bytes, 3 * h + (m + 1))
  <2>1. 3 * h + (m + 1) = 3 * h + m + 1
    OBVIOUS
  <2>2. c = ByteAt(bytes, 3 * h + (m + 1))
    BY <2>1
  <2>3. new.val = p * 256 + ByteAt(bytes, 3 * h + (m + 1))
    BY <1>2, <2>2 DEF val
  <2> QED BY <1>1, <2>3
<1>11. LoopAt(new, bytes, h, m + 1)
  BY <1>2, <1>3, <1>8, <1>10 DEF LoopAt, s
<1> QED BY <1>11 DEF new

(* So does one that emits two.                                             *)
LEMMA TurnTwo ==
  ASSUME NEW bytes, IsBytes(bytes), NEW h \in Nat, NEW t, LoopAt(t, bytes, h, 2),
         NEW c, c = ByteAt(bytes, 3 * h + 3)
  PROVE  LoopAt(Base64Turn(t, c), bytes, h + 1, 0)
<1> DEFINE p == ByteAt(bytes, 3 * h + 2)
           val == p * 256 + c
           e == Emitted(val, 6)
           new == Base64Turn(t, c)
<1>1. /\ p \in 0..255 /\ c \in 0..255
      /\ Low(t.val * 256 + c) = val
      /\ t.valb + 8 = 6
  <2>1. 2 \in 0..2 /\ 3 * h + 2 + 1 = 3 * h + 3 /\ 2 * 2 + 2 = 6
    OBVIOUS
  <2>2. c = ByteAt(bytes, 3 * h + 2 + 1)
    BY <2>1
  <2>3. Turning(t, 2, p, c)
    BY <2>1, <2>2, TurnVal
  <2> QED BY <2>1, <2>3 DEF Turning
<1> HIDE DEF p
<1>4. val \in Nat
  BY <1>1
<1> HIDE DEF val
<1>i. /\ (val \div 64) % 64 = (p % 16) * 4 + (c \div 64)
      /\ val % 64 = c % 64
  <2>1. Meets(val, p, c)
    BY <1>1, Meet, ZenonT(30) DEF val
  <2> QED BY <2>1 DEF Meets
<1>2. new.val = val /\ new.valb = -6 /\ new.res = t.res \o e
  <2> DEFINE theVal == Low(t.val * 256 + c)
             theShift == t.valb + 8
  <2>1. Turned(new, t, theVal, theShift)
    BY TurnIs, Zenon
  <2>2. theVal = val /\ theShift = 6
    BY <1>1
  <2>3. (6 % 6) - 6 = -6
    BY SMT
  <2> HIDE DEF theVal, theShift, new
  <2> QED BY <2>1, <2>2 , <2>3 DEF Turned
<1>5. /\ e \in Seq(Digits) /\ Len(e) = 2
      /\ Worth(e[1]) = Shift(val, 6) % 64
      /\ Worth(e[2]) = Shift(val, 0) % 64
  BY <1>4, TwoDigits
<1> HIDE DEF e, new
<1>6. Worth(e[1]) = Six(bytes, h, 2) /\ Worth(e[2]) = Six(bytes, h, 3)
  <2>1. Shift(val, 6) = val \div 64 /\ Shift(val, 0) = val
    BY <1>4, Shifts
  <2>2. Six(bytes, h, 2) = (p % 16) * 4 + (c \div 64) /\ Six(bytes, h, 3) = c % 64
    BY DEF Six, p
  <2> QED BY <1>5, <1>i, <2>1, <2>2
<1>7. Spells(t.res, bytes) /\ Len(t.res) = 4 * h + 2
  BY DEF LoopAt
<1> DEFINE s == t.res \o e
<1>8. Spells(s, bytes) /\ Len(s) = 4 * (h + 1) + 0
  <2> DEFINE a == t.res
  <2>1. \A x \in 1..Len(e) : Worth(e[x]) = Six(bytes, h, 2 + x - 1)
    <3>1. 1..Len(e) = 1..2 /\ 2 + 1 - 1 = 2 /\ 2 + 2 - 1 = 3
      BY <1>5
    <3>2. \A x \in 1..2 : x = 1 \/ x = 2
      OBVIOUS
    <3> QED BY <1>6, <3>1, <3>2
  <2>2. 2 \in 0..2 /\ 2 + Len(e) <= 4
    BY <1>5
  <2> HIDE DEF a
  <2>3. Spells(a, bytes) /\ Len(a) = 4 * h + 2
    BY <1>7 DEF a
  <2>4. Extended(a, e, bytes, h, 2)
    BY <1>5, <2>1, <2>2, <2>3, SpellsOn
  <2>5. 4 * h + 2 + Len(e) = 4 * (h + 1) + 0
    BY <1>5
  <2> QED BY <2>4, <2>5 DEF a, Extended
<1> HIDE DEF s
<1>10. \E q \in 0..255 : new.val = q * 256 + ByteAt(bytes, 3 * (h + 1) + 0)
  <2>1. 3 * (h + 1) + 0 = 3 * h + 3
    OBVIOUS
  <2>2. c = ByteAt(bytes, 3 * (h + 1) + 0)
    BY <2>1
  <2>3. new.val = p * 256 + ByteAt(bytes, 3 * (h + 1) + 0)
    BY <1>2, <2>2 DEF val
  <2> QED BY <1>1, <2>3
<1>11. LoopAt(new, bytes, h + 1, 0)
  <2>1. 2 * 0 - 6 = -6
    OBVIOUS
  <2> QED BY <1>2, <1>8, <1>10, <2>1 DEF LoopAt, s
<1> QED BY <1>11 DEF new

(* The bits of a number below 64 or 256, by literals                       *)
Bits(n) ==
  /\ Bit(n, 0) = n % 2 /\ Bit(n, 1) = (n \div 2) % 2 /\ Bit(n, 2) = (n \div 4) % 2
  /\ Bit(n, 3) = (n \div 8) % 2 /\ Bit(n, 4) = (n \div 16) % 2
  /\ Bit(n, 5) = (n \div 32) % 2 /\ Bit(n, 6) = (n \div 64) % 2
  /\ Bit(n, 7) = (n \div 128) % 2

(* Bit, by literals                                                        *)
LEMMA BitIs ==
  ASSUME NEW n \in Nat
  PROVE  Bits(n)
BY Shifts, ZenonT(30) DEF Bit, Bits

(* The bits of the six, from the highest, are those of the bytes.          *)
SameBits(n, from, c, first, last) ==
  \A x \in first..last : Bit(n, 5 - x) = Bit(c, from - x)

(* The first digit holds the first six bits of the first byte.             *)
LEMMA FirstSix ==
  ASSUME NEW c \in 0..255
  PROVE  SameBits(c \div 4, 7, c, 0, 5)
<1> DEFINE d == c \div 4
<1>1. c \in Nat /\ d \in Nat
  BY SMT
<1>2. /\ (d \div 32) % 2 = (c \div 128) % 2 /\ (d \div 16) % 2 = (c \div 64) % 2
      /\ (d \div 8) % 2 = (c \div 32) % 2 /\ (d \div 4) % 2 = (c \div 16) % 2
      /\ (d \div 2) % 2 = (c \div 8) % 2 /\ d % 2 = (c \div 4) % 2
  BY SMT
<1> HIDE DEF d
<1>3. /\ Bit(d, 5) = Bit(c, 7) /\ Bit(d, 4) = Bit(c, 6) /\ Bit(d, 3) = Bit(c, 5)
      /\ Bit(d, 2) = Bit(c, 4) /\ Bit(d, 1) = Bit(c, 3) /\ Bit(d, 0) = Bit(c, 2)
  <2>1. Bits(c) /\ Bits(d)
    BY <1>1, BitIs
  <2> QED BY <1>2, <2>1 DEF Bits
<1>4. ASSUME NEW x \in 0..5 PROVE Bit(d, 5 - x) = Bit(c, 7 - x)
  <2>1. x = 0 \/ x = 1 \/ x = 2 \/ x = 3 \/ x = 4 \/ x = 5
    OBVIOUS
  <2> QED BY <1>3, <2>1
<1> QED BY <1>4 DEF SameBits, d

(* The second digit holds its last two and four of the second byte.        *)
LEMMA SecondSix ==
  ASSUME NEW p \in 0..255, NEW c \in 0..255, NEW d, d = (p % 4) * 16 + (c \div 16)
  PROVE  SameBits(d, 1, p, 0, 1) /\ SameBits(d, 9, c, 2, 5)
<1>1. p \in Nat /\ c \in Nat /\ d \in Nat
  BY SMT
<1>2. (d \div 32) % 2 = (p \div 2) % 2 /\ (d \div 16) % 2 = p % 2
  BY SMT
<1>3. /\ (d \div 8) % 2 = (c \div 128) % 2 /\ (d \div 4) % 2 = (c \div 64) % 2
      /\ (d \div 2) % 2 = (c \div 32) % 2 /\ d % 2 = (c \div 16) % 2
  <2>1. (d \div 8) % 2 = (c \div 128) % 2
    BY SMT
  <2>2. (d \div 4) % 2 = (c \div 64) % 2
    BY SMT
  <2>3. (d \div 2) % 2 = (c \div 32) % 2
    BY SMT
  <2>4. d % 2 = (c \div 16) % 2
    BY SMT
  <2> QED BY <2>1, <2>2, <2>3, <2>4, Zenon
<1>4. /\ Bit(d, 5) = Bit(p, 1) /\ Bit(d, 4) = Bit(p, 0)
      /\ Bit(d, 3) = Bit(c, 7) /\ Bit(d, 2) = Bit(c, 6) /\ Bit(d, 1) = Bit(c, 5)
      /\ Bit(d, 0) = Bit(c, 4)
  <2>1. Bits(p) /\ Bits(c) /\ Bits(d)
    BY <1>1, BitIs
  <2> QED BY <1>2, <1>3, <2>1 DEF Bits
<1>5. ASSUME NEW x \in 0..1 PROVE Bit(d, 5 - x) = Bit(p, 1 - x)
  <2>1. x = 0 \/ x = 1
    OBVIOUS
  <2> QED BY <1>4, <2>1
<1>6. ASSUME NEW x \in 2..5 PROVE Bit(d, 5 - x) = Bit(c, 9 - x)
  <2>1. x = 2 \/ x = 3 \/ x = 4 \/ x = 5
    OBVIOUS
  <2> QED BY <1>4, <2>1
<1> QED BY <1>5, <1>6 DEF SameBits

(* The bits of the second byte that the third digit holds                  *)
LEMMA ThirdSame ==
  ASSUME NEW p \in Nat, NEW c \in Nat, NEW d \in Nat,
         (d \div 32) % 2 = (p \div 8) % 2, (d \div 16) % 2 = (p \div 4) % 2,
         (d \div 8) % 2 = (p \div 2) % 2, (d \div 4) % 2 = p % 2,
         (d \div 2) % 2 = (c \div 128) % 2, d % 2 = (c \div 64) % 2
  PROVE  SameBits(d, 3, p, 0, 3) /\ SameBits(d, 11, c, 4, 5)
<1>1. Bits(p) /\ Bits(c) /\ Bits(d)
  BY BitIs
<1>4. /\ Bit(d, 5) = Bit(p, 3) /\ Bit(d, 4) = Bit(p, 2)
      /\ Bit(d, 3) = Bit(p, 1) /\ Bit(d, 2) = Bit(p, 0) /\ Bit(d, 1) = Bit(c, 7)
      /\ Bit(d, 0) = Bit(c, 6)
  BY <1>1 DEF Bits
<1>5. ASSUME NEW x \in 0..3 PROVE Bit(d, 5 - x) = Bit(p, 3 - x)
  <2>1. x = 0 \/ x = 1 \/ x = 2 \/ x = 3
    OBVIOUS
  <2> QED BY <1>4, <2>1
<1>6. ASSUME NEW x \in 4..5 PROVE Bit(d, 5 - x) = Bit(c, 11 - x)
  <2>1. x = 4 \/ x = 5
    OBVIOUS
  <2> QED BY <1>4, <2>1
<1> QED BY <1>5, <1>6 DEF SameBits

(* The third digit holds the rest of the second byte and two of the third. *)
LEMMA ThirdSix ==
  ASSUME NEW p \in 0..255, NEW c \in 0..255, NEW d, d = (p % 16) * 4 + (c \div 64)
  PROVE  SameBits(d, 3, p, 0, 3) /\ SameBits(d, 11, c, 4, 5)
<1>1. p \in Nat /\ c \in Nat /\ d \in Nat
  BY SMT
<1>2. /\ (d \div 32) % 2 = (p \div 8) % 2 /\ (d \div 16) % 2 = (p \div 4) % 2
      /\ (d \div 8) % 2 = (p \div 2) % 2 /\ (d \div 4) % 2 = p % 2
  <2>1. (d \div 32) % 2 = (p \div 8) % 2
    BY SMT
  <2>2. (d \div 16) % 2 = (p \div 4) % 2
    BY SMT
  <2>3. (d \div 8) % 2 = (p \div 2) % 2
    BY SMT
  <2>4. (d \div 4) % 2 = p % 2
    BY SMT
  <2> QED BY <2>1, <2>2, <2>3, <2>4, Zenon
<1>3. (d \div 2) % 2 = (c \div 128) % 2 /\ d % 2 = (c \div 64) % 2
  BY SMT
<1> QED BY <1>1, <1>2, <1>3, ThirdSame, ZenonT(30)

(* The fourth digit holds the rest of the third byte.                      *)
LEMMA FourthSix ==
  ASSUME NEW c \in 0..255
  PROVE  SameBits(c % 64, 5, c, 0, 5)
<1> DEFINE d == c % 64
<1>1. c \in Nat /\ d \in Nat
  BY SMT
<1>2. /\ (d \div 32) % 2 = (c \div 32) % 2 /\ (d \div 16) % 2 = (c \div 16) % 2
      /\ (d \div 8) % 2 = (c \div 8) % 2 /\ (d \div 4) % 2 = (c \div 4) % 2
      /\ (d \div 2) % 2 = (c \div 2) % 2 /\ d % 2 = c % 2
  BY SMT
<1> HIDE DEF d
<1>3. /\ Bit(d, 5) = Bit(c, 5) /\ Bit(d, 4) = Bit(c, 4) /\ Bit(d, 3) = Bit(c, 3)
      /\ Bit(d, 2) = Bit(c, 2) /\ Bit(d, 1) = Bit(c, 1) /\ Bit(d, 0) = Bit(c, 0)
  <2>1. Bits(c) /\ Bits(d)
    BY <1>1, BitIs
  <2> QED BY <1>2, <2>1 DEF Bits
<1>4. ASSUME NEW x \in 0..5 PROVE Bit(d, 5 - x) = Bit(c, 5 - x)
  <2>1. x = 0 \/ x = 1 \/ x = 2 \/ x = 3 \/ x = 4 \/ x = 5
    OBVIOUS
  <2> QED BY <1>3, <2>1
<1> QED BY <1>4 DEF SameBits, d

(* Bit number b of the bytes in the order they are sent                    *)
BitOf(bytes, b) == Bit(ByteAt(bytes, (b \div 8) + 1), 7 - (b % 8))

(* Bit b of the bytes is bit x of the digit at place j of group h.         *)
BitStands(bytes, h, j, x, b) == Bit(Six(bytes, h, j), 5 - x) = BitOf(bytes, b)

(* The digits of a group hold the bits of its bytes in order.              *)
LEMMA SixBits ==
  ASSUME NEW bytes, IsBytes(bytes), NEW h \in Nat, NEW j \in 0..3, NEW x \in 0..5,
         NEW b, b = 24 * h + 6 * j + x
  PROVE  BitStands(bytes, h, j, x, b)
<1> DEFINE c1 == ByteAt(bytes, 3 * h + 1)
           c2 == ByteAt(bytes, 3 * h + 2)
           c3 == ByteAt(bytes, 3 * h + 3)
<1>1. c1 \in 0..255 /\ c2 \in 0..255 /\ c3 \in 0..255
  BY ByteIsByte
<1>2. ASSUME NEW q \in 0..2, NEW r \in 0..7, b = 24 * h + 8 * q + r
      PROVE  BitOf(bytes, b) = Bit(ByteAt(bytes, 3 * h + q + 1), 7 - r)
  <2>1. b \div 8 = 3 * h + q /\ b % 8 = r
    BY <1>2
  <2> QED BY <2>1 DEF BitOf
<1>3. ASSUME j = 0 PROVE Bit(Six(bytes, h, j), 5 - x) = BitOf(bytes, b)
  <2>1. Six(bytes, h, j) = c1 \div 4 /\ SameBits(c1 \div 4, 7, c1, 0, 5)
    BY <1>1, <1>3, FirstSix, SMTT(20) DEF Six
  <2> DEFINE q == 0
             r == x
  <2>2. q \in 0..2 /\ r \in 0..7 /\ b = 24 * h + 8 * q + r /\ 3 * h + q + 1 = 3 * h + 1
    BY <1>3
  <2>3. BitOf(bytes, b) = Bit(c1, 7 - r)
    <3> HIDE DEF q, r
    <3> QED BY <1>2, <2>2
  <2> QED BY <2>1, <2>3 DEF SameBits
<1>4. ASSUME j = 1 PROVE Bit(Six(bytes, h, j), 5 - x) = BitOf(bytes, b)
  <2> DEFINE d == (c1 % 4) * 16 + (c2 \div 16)
  <2>0. Six(bytes, h, j) = d
    BY <1>4 DEF Six
  <2> HIDE DEF c1, c2, c3, d
  <2>1. Six(bytes, h, j) = d /\ SameBits(d, 1, c1, 0, 1) /\ SameBits(d, 9, c2, 2, 5)
    BY <1>1, <2>0, SecondSix DEF d
  <2>2. CASE x <= 1
    <3>1. 6 + x \in 0..7 /\ b = 24 * h + 8 * 0 + (6 + x) /\ 3 * h + 0 + 1 = 3 * h + 1
          /\ 7 - (6 + x) = 1 - x /\ x \in 0..1 /\ 0 \in 0..2
      BY <1>4, <2>2
    <3>2. BitOf(bytes, b) = Bit(c1, 1 - x)
      BY <1>2, <3>1 DEF c1
    <3> QED BY <2>1, <3>1, <3>2 DEF SameBits
  <2>3. CASE x >= 2
    <3>1. x - 2 \in 0..7 /\ b = 24 * h + 8 * 1 + (x - 2) /\ 3 * h + 1 + 1 = 3 * h + 2
          /\ 7 - (x - 2) = 9 - x /\ x \in 2..5 /\ 1 \in 0..2
      BY <1>4, <2>3
    <3>2. BitOf(bytes, b) = Bit(c2, 9 - x)
      BY <1>2, <3>1 DEF c2
    <3> QED BY <2>1, <3>1, <3>2 DEF SameBits
  <2> QED BY <2>2, <2>3
<1>5. ASSUME j = 2 PROVE Bit(Six(bytes, h, j), 5 - x) = BitOf(bytes, b)
  <2> DEFINE d == (c2 % 16) * 4 + (c3 \div 64)
  <2>0. Six(bytes, h, j) = d
    BY <1>5 DEF Six
  <2> HIDE DEF c1, c2, c3, d
  <2>1. Six(bytes, h, j) = d /\ SameBits(d, 3, c2, 0, 3) /\ SameBits(d, 11, c3, 4, 5)
    BY <1>1, <2>0, ThirdSix DEF d
  <2>2. CASE x <= 3
    <3>1. 4 + x \in 0..7 /\ b = 24 * h + 8 * 1 + (4 + x) /\ 3 * h + 1 + 1 = 3 * h + 2
          /\ 7 - (4 + x) = 3 - x /\ x \in 0..3 /\ 1 \in 0..2
      BY <1>5, <2>2
    <3>2. BitOf(bytes, b) = Bit(c2, 3 - x)
      BY <1>2, <3>1 DEF c2
    <3> QED BY <2>1, <3>1, <3>2 DEF SameBits
  <2>3. CASE x >= 4
    <3>1. x - 4 \in 0..7 /\ b = 24 * h + 8 * 2 + (x - 4) /\ 3 * h + 2 + 1 = 3 * h + 3
          /\ 7 - (x - 4) = 11 - x /\ x \in 4..5 /\ 2 \in 0..2
      BY <1>5, <2>3
    <3>2. BitOf(bytes, b) = Bit(c3, 11 - x)
      BY <1>2, <3>1 DEF c3
    <3> QED BY <2>1, <3>1, <3>2 DEF SameBits
  <2> QED BY <2>2, <2>3
<1>6. ASSUME j = 3 PROVE Bit(Six(bytes, h, j), 5 - x) = BitOf(bytes, b)
  <2>1. Six(bytes, h, j) = c3 % 64 /\ SameBits(c3 % 64, 5, c3, 0, 5)
    BY <1>1, <1>6, FourthSix, SMTT(20) DEF Six
  <2>2. 2 + x \in 0..7 /\ b = 24 * h + 8 * 2 + (2 + x) /\ 3 * h + 2 + 1 = 3 * h + 3
        /\ 7 - (2 + x) = 5 - x /\ 2 \in 0..2
    BY <1>6
  <2>3. BitOf(bytes, b) = Bit(c3, 5 - x)
    BY <1>2, <2>2
  <2> QED BY <2>1, <2>3 DEF SameBits
<1>7. Bit(Six(bytes, h, j), 5 - x) = BitOf(bytes, b)
  BY <1>3, <1>4, <1>5, <1>6
<1> QED BY <1>7 DEF BitStands

(* Before the loop                                                         *)
StartTurn == [val |-> 0, valb |-> -6, res |-> <<>>]

(* t is the first n turns of the loop.                                     *)
Turns(t, bytes, n) ==
  t = [i \in 0..n |-> IF i = 0 THEN StartTurn ELSE Base64Turn(t[i - 1], bytes[i])]

(* Turns can go on by one.                                                 *)
LEMMA TurnsExtend ==
  ASSUME NEW bytes, NEW k \in Nat, NEW t, Turns(t, bytes, k)
  PROVE  \E g : Turns(g, bytes, k + 1)
<1> DEFINE g == [i \in 0..(k + 1) |-> IF i = 0 THEN StartTurn ELSE Base64Turn(t[i - 1], bytes[i])]
<1>1. \A i \in 0..k : t[i] = IF i = 0 THEN StartTurn ELSE Base64Turn(t[i - 1], bytes[i])
  BY DEF Turns
<1>2. \A i \in 0..k : i \in 0..(k + 1) /\ g[i] = t[i]
  BY <1>1
<1>3. \A i \in 0..(k + 1) : i = 0 \/ g[i - 1] = t[i - 1]
  <2>1. \A i \in 0..(k + 1) : i = 0 \/ i - 1 \in 0..k
    OBVIOUS
  <2> HIDE DEF g
  <2> QED BY <1>2, <2>1
<1>4. g = [i \in 0..(k + 1) |-> IF i = 0 THEN StartTurn ELSE Base64Turn(g[i - 1], bytes[i])]
  <2> DEFINE h == g
  <2>1. h = [i \in 0..(k + 1) |-> IF i = 0 THEN StartTurn ELSE Base64Turn(t[i - 1], bytes[i])]
    OBVIOUS
  <2>2. \A i \in 0..(k + 1) : i = 0 \/ h[i - 1] = t[i - 1]
    BY <1>3
  <2> HIDE DEF h
  <2>3. h = [i \in 0..(k + 1) |-> IF i = 0 THEN StartTurn ELSE Base64Turn(h[i - 1], bytes[i])]
    <3>1. \A i \in 0..(k + 1) :
            (IF i = 0 THEN StartTurn ELSE Base64Turn(t[i - 1], bytes[i]))
              = (IF i = 0 THEN StartTurn ELSE Base64Turn(h[i - 1], bytes[i]))
      BY <2>2
    <3> QED BY <2>1, <3>1
  <2> QED BY <2>3 DEF h
<1> HIDE DEF g
<1> QED BY <1>4 DEF Turns

(* There are turns for all bytes.                                          *)
LEMMA TurnsExist ==
  ASSUME NEW bytes, NEW n \in Nat
  PROVE  \E t : Turns(t, bytes, n)
<1> DEFINE T == {k \in 0..n : ~\E t : Turns(t, bytes, k)}
<1>1. SUFFICES ASSUME T # {} PROVE FALSE
  <2>1. n \in 0..n
    OBVIOUS
  <2> QED BY <2>1
<1>2. PICK m \in T : \A k \in T : m <= k
  <2>1. T \subseteq Nat
    OBVIOUS
  <2> HIDE DEF T
  <2> QED BY <1>1, <2>1, LeastNatural
<1>3. m # 0
  <2> DEFINE t == [i \in 0..0 |-> StartTurn]
  <2>1. Turns(t, bytes, 0)
    <3>1. \A i \in 0..0 : i = 0
      OBVIOUS
    <3>2. t = [i \in 0..0 |-> IF i = 0 THEN StartTurn ELSE Base64Turn(t[i - 1], bytes[i])]
      BY <3>1
    <3> HIDE DEF t
    <3> QED BY <3>2 DEF Turns
  <2> QED BY <2>1
<1> DEFINE k == m - 1
<1>4. k \in 0..n /\ k \in Nat /\ k \notin T /\ k + 1 = m
  BY <1>2, <1>3
<1>5. PICK t : Turns(t, bytes, k)
  BY <1>4
<1>6. \E g : Turns(g, bytes, k + 1)
  <2> HIDE DEF k
  <2> QED BY <1>4, <1>5, TurnsExtend
<1>7. \E g : Turns(g, bytes, m)
  BY <1>4, <1>6
<1> QED BY <1>2, <1>7

(* The loop is its last turn.                                              *)
LEMMA LoopIs ==
  ASSUME NEW bytes, Len(bytes) \in Nat
  PROVE  \E t : Turns(t, bytes, Len(bytes)) /\ Base64Loop(bytes) = t[Len(bytes)]
<1> DEFINE turn == CHOOSE t : t = [i \in 0..Len(bytes) |->
                     IF i = 0 THEN [val |-> 0, valb |-> -6, res |-> <<>>]
                     ELSE Base64Turn(t[i - 1], bytes[i])]
<1>1. Turns(turn, bytes, Len(bytes))
  <2>1. \E t : t = [i \in 0..Len(bytes) |->
                     IF i = 0 THEN [val |-> 0, valb |-> -6, res |-> <<>>]
                     ELSE Base64Turn(t[i - 1], bytes[i])]
    BY TurnsExist, Zenon DEF Turns, StartTurn
  <2> QED BY <2>1, Zenon DEF Turns, StartTurn
<1>2. Base64Loop(bytes) = turn[Len(bytes)]
  BY Zenon DEF Base64Loop
<1> QED BY <1>1, <1>2, Zenon

(* The loop has read all that is left of n bytes in groups of three.       *)
Counted(i, h, m) == h \in Nat /\ m \in 0..2 /\ i = 3 * h + m

(* Every number is one of groups of three and a rest.                      *)
LEMMA Grouped ==
  ASSUME NEW i \in Nat
  PROVE  \E h, m : Counted(i, h, m)
<1>1. i \div 3 \in Nat /\ i % 3 \in 0..2 /\ i = 3 * (i \div 3) + (i % 3)
  BY SMT
<1> QED BY <1>1 DEF Counted

(* The invariant of the loop after i bytes                                 *)
LoopGood(t, bytes, i) == \A h, m : Counted(i, h, m) => LoopAt(t, bytes, h, m)

(* It holds before the loop.                                               *)
LEMMA LoopBegins ==
  ASSUME NEW bytes
  PROVE  LoopGood(StartTurn, bytes, 0)
<1>1. SUFFICES ASSUME NEW h, NEW m, Counted(0, h, m) PROVE LoopAt(StartTurn, bytes, h, m)
  BY DEF LoopGood
<1>2. h = 0 /\ m = 0
  BY <1>1 DEF Counted
<1>3. ByteAt(bytes, 0) = 0
  BY DEF ByteAt
<1>4. StartTurn.val = 0 /\ StartTurn.valb = -6 /\ StartTurn.res = <<>>
  BY DEF StartTurn
<1>5. Spells(<<>>, bytes) /\ Len(<<>>) = 0
  <2>1. <<>> \in Seq(Digits) /\ Len(<<>>) = 0
    BY EmptySeq
  <2>2. \A g \in Nat, j \in 0..3 : ~(4 * g + j + 1 <= 0)
    OBVIOUS
  <2> QED BY <2>1, <2>2 DEF Spells
<1>6. 3 * h + m = 0 /\ 2 * m - 6 = -6 /\ 4 * h + m = 0
  BY <1>2
<1>7. \E q \in 0..255 : StartTurn.val = q * 256 + ByteAt(bytes, 3 * h + m)
  <2>1. StartTurn.val = 0 * 256 + ByteAt(bytes, 3 * h + m) /\ 0 \in 0..255
    BY <1>3, <1>4, <1>6
  <2> QED BY <2>1
<1> QED BY <1>4, <1>5, <1>6, <1>7 DEF LoopAt

(* A turn keeps it.                                                        *)
LEMMA LoopGoesOn ==
  ASSUME NEW bytes, IsBytes(bytes), NEW i \in 1..Len(bytes), NEW t, LoopGood(t, bytes, i - 1)
  PROVE  LoopGood(Base64Turn(t, bytes[i]), bytes, i)
<1> DEFINE c == bytes[i]
<1>0. i \in Nat /\ i - 1 \in Nat
  BY DEF IsBytes
<1>1. c = ByteAt(bytes, i)
  BY DEF ByteAt
<1> HIDE DEF c
<1>2. SUFFICES ASSUME NEW h, NEW m, Counted(i, h, m)
               PROVE  LoopAt(Base64Turn(t, c), bytes, h, m)
  BY DEF LoopGood, c
<1>3. CASE m = 0
  <2> DEFINE g == h - 1
  <2>1. Counted(i - 1, g, 2) /\ g \in Nat /\ 3 * g + 3 = i /\ g + 1 = h
    BY <1>0, <1>2, <1>3 DEF Counted
  <2> HIDE DEF g
  <2>2. LoopAt(t, bytes, g, 2)
    BY <2>1 DEF LoopGood
  <2>3. c = ByteAt(bytes, 3 * g + 3)
    BY <1>1, <2>1
  <2>4. LoopAt(Base64Turn(t, c), bytes, g + 1, 0)
    BY <2>1, <2>2, <2>3, TurnTwo
  <2> QED BY <1>3, <2>1, <2>4
<1>4. CASE m # 0
  <2> DEFINE k == m - 1
  <2>1. Counted(i - 1, h, k) /\ h \in Nat /\ k \in 0..1 /\ 3 * h + k + 1 = i /\ k + 1 = m
    BY <1>0, <1>2, <1>4 DEF Counted
  <2> HIDE DEF k
  <2>2. LoopAt(t, bytes, h, k)
    BY <2>1 DEF LoopGood
  <2>3. c = ByteAt(bytes, 3 * h + k + 1)
    BY <1>1, <2>1
  <2>4. LoopAt(Base64Turn(t, c), bytes, h, k + 1)
    BY <2>1, <2>2, <2>3, TurnOne
  <2> QED BY <2>1, <2>4
<1> QED BY <1>3, <1>4

(* It holds after the loop.                                                *)
LEMMA LoopRuns ==
  ASSUME NEW bytes, IsBytes(bytes)
  PROVE  LoopGood(Base64Loop(bytes), bytes, Len(bytes))
<1> DEFINE n == Len(bytes)
<1>0. n \in Nat
  BY DEF IsBytes
<1>1. PICK t : Turns(t, bytes, n) /\ Base64Loop(bytes) = t[n]
  BY <1>0, LoopIs
<1>2. /\ t[0] = StartTurn
      /\ \A i \in 1..n : t[i] = Base64Turn(t[i - 1], bytes[i])
  <2>1. \A i \in 0..n : t[i] = IF i = 0 THEN StartTurn ELSE Base64Turn(t[i - 1], bytes[i])
    BY <1>1 DEF Turns
  <2>2. 0 \in 0..n /\ \A i \in 1..n : i \in 0..n /\ i # 0
    BY <1>0
  <2> QED BY <2>1, <2>2
<1>3. \A i \in 0..n : LoopGood(t[i], bytes, i)
  <2> DEFINE Bad == {i \in 0..n : ~LoopGood(t[i], bytes, i)}
  <2>1. SUFFICES ASSUME Bad # {} PROVE FALSE
    OBVIOUS
  <2>2. PICK m \in Bad : \A k \in Bad : m <= k
    <3>1. Bad \subseteq Nat
      OBVIOUS
    <3> HIDE DEF Bad
    <3> QED BY <2>1, <3>1, LeastNatural
  <2>3. m # 0
    BY <1>2, <2>2, LoopBegins
  <2>4. m \in 1..n /\ m - 1 \in 0..n /\ ~(m <= m - 1)
    BY <1>0, <2>2, <2>3
  <2>5. LoopGood(t[m - 1], bytes, m - 1)
    BY <2>2, <2>4
  <2>6. LoopGood(t[m], bytes, m)
    BY <1>2, <2>4, <2>5, LoopGoesOn
  <2> QED BY <2>2, <2>6
<1> QED BY <1>0, <1>1, <1>3

(* What a text of n bytes comes to: h groups, and m bytes more that take   *)
(* m + 1 digits if there are any.                                          *)
Used(h, m) == 4 * h + (IF m = 0 THEN 0 ELSE m + 1)

(* The digit for the bits left at the end                                  *)
WithLast(t) == Append(t.res, Digit(Shift(t.val * 256, t.valb + 8)))

(* It spells the rest of the bytes.                                        *)
LEMMA LastDigit ==
  ASSUME NEW bytes, IsBytes(bytes), NEW h \in Nat, NEW m \in 1..2, Len(bytes) = 3 * h + m,
         NEW t, LoopAt(t, bytes, h, m)
  PROVE  Spells(WithLast(t), bytes) /\ Len(WithLast(t)) = 4 * h + m + 1
<1> DEFINE p == ByteAt(bytes, 3 * h + m)
           n == t.val * 256
           shift == t.valb + 8
           d == Digit(Shift(n, shift))
           a == t.res
           e == <<d>>
<1>1. p \in 0..255
  BY ByteIsByte
<1>2. PICK q \in 0..255 : t.val = q * 256 + p
  BY DEF LoopAt
<1>3. n \in Nat /\ n = (q * 256 + p) * 256
  <2> HIDE DEF p
  <2> QED BY <1>1, <1>2
<1>4. shift = 2 * m + 2 /\ Spells(a, bytes) /\ Len(a) = 4 * h + m
  BY DEF LoopAt
<1>5. ByteAt(bytes, 3 * h + m + 1) = 0
  <2>1. 3 * h + m + 1 \notin 1..Len(bytes)
    OBVIOUS
  <2> QED BY <2>1 DEF ByteAt
<1>6. /\ (n \div 16) % 64 = (p % 4) * 16
      /\ (n \div 64) % 64 = (p % 16) * 4
  <2> HIDE DEF n, p
  <2>1. LeftOvers(n, p)
    BY <1>1, <1>2, <1>3, LeftOver, ZenonT(30)
  <2> QED BY <2>1 DEF LeftOvers
<1> HIDE DEF n, shift
<1>7. Shift(n, shift) \in Nat /\ Shift(n, shift) % 64 = Six(bytes, h, m)
  <2>0. Shift(n, 4) = n \div 16 /\ Shift(n, 6) = n \div 64 /\ n \div 16 \in Nat /\ n \div 64 \in Nat
    <3>1. n \in Nat
      BY <1>3
    <3>2. Shift(n, 4) = n \div 16 /\ Shift(n, 6) = n \div 64
      BY <3>1, Shifts
    <3>3. n \div 16 \in Nat /\ n \div 64 \in Nat
      BY <3>1
    <3> QED BY <3>2, <3>3
  <2>1. CASE m = 1
    <3>1. shift = 4 /\ 3 * h + m = 3 * h + 1 /\ 3 * h + m + 1 = 3 * h + 2
      BY <1>4, <2>1
    <3>2. Six(bytes, h, m) = (p % 4) * 16 + (0 \div 16)
      BY <1>5, <2>1, <3>1 DEF Six
    <3>3. (p % 4) * 16 + (0 \div 16) = (p % 4) * 16
      <4> HIDE DEF p
      <4> QED BY <1>1
    <3> HIDE DEF p
    <3> QED BY <1>6, <2>0, <3>1, <3>2, <3>3
  <2>2. CASE m = 2
    <3>1. shift = 6 /\ 3 * h + m = 3 * h + 2 /\ 3 * h + m + 1 = 3 * h + 3
      BY <1>4, <2>2
    <3>2. Six(bytes, h, m) = (p % 16) * 4 + (0 \div 64)
      BY <1>5, <2>2, <3>1 DEF Six
    <3>3. (p % 16) * 4 + (0 \div 64) = (p % 16) * 4
      <4> HIDE DEF p
      <4> QED BY <1>1
    <3> HIDE DEF p
    <3> QED BY <1>6, <2>0, <3>1, <3>2, <3>3
  <2> QED BY <2>1, <2>2
<1>8. d \in Digits /\ Worth(d) = Six(bytes, h, m)
  BY <1>7, DigitIs
<1> HIDE DEF d
<1>9. e \in Seq(Digits) /\ Len(e) = 1 /\ e[1] = d
  BY <1>8, OnePiece
<1>10. Append(a, d) = a \o e
  <2>1. a \in Seq(Digits)
    BY <1>4 DEF Spells
  <2> HIDE DEF a
  <2> QED BY <1>8, <2>1, AppendIsConcat
<1>11. Extended(a, e, bytes, h, m)
  <2>1. \A x \in 1..Len(e) : Worth(e[x]) = Six(bytes, h, m + x - 1)
    <3>1. 1..Len(e) = 1..1 /\ m + 1 - 1 = m
      BY <1>9
    <3>2. \A x \in 1..1 : x = 1
      OBVIOUS
    <3> QED BY <1>8, <1>9, <3>1, <3>2
  <2>2. m \in 0..2 /\ m + Len(e) <= 4
    BY <1>9
  <2> HIDE DEF a, e
  <2> QED BY <1>4, <1>9, <2>1, <2>2, SpellsOn
<1> HIDE DEF a, e
<1>12. Spells(Append(a, d), bytes) /\ Len(Append(a, d)) = 4 * h + m + 1
  BY <1>9, <1>10, <1>11 DEF Extended
<1>13. WithLast(t) = Append(a, d)
  BY Zenon DEF WithLast, a, d, n, shift
<1> QED BY <1>12, <1>13

(* base64Encode: digits that spell the bytes, padded                       *)
Encoding(out, bytes, h, m) ==
  \E res : Spells(res, bytes) /\ Len(res) = Used(h, m) /\ out = Padded(res)

(* Base64Encode spells the bytes, in whole groups.                         *)
LEMMA Encodes ==
  ASSUME NEW bytes, IsBytes(bytes), NEW h, NEW m, Counted(Len(bytes), h, m)
  PROVE  Encoding(Base64Encode(bytes), bytes, h, m)
<1> DEFINE all == Base64Loop(bytes)
           last == WithLast(all)
           res == IF all.valb > -6 THEN last ELSE all.res
<1>1. h \in Nat /\ m \in 0..2 /\ Len(bytes) = 3 * h + m
  BY DEF Counted
<1>2. LoopAt(all, bytes, h, m)
  BY LoopRuns DEF LoopGood
<1>3. Base64Encode(bytes) = Padded(res)
  BY Zenon DEF Base64Encode, WithLast
<1> HIDE DEF all
<1>4. all.valb = 2 * m - 6 /\ Spells(all.res, bytes) /\ Len(all.res) = 4 * h + m
  BY <1>2 DEF LoopAt
<1>5. CASE m = 0
  <2>1. ~(all.valb > -6) /\ Used(h, m) = 4 * h + m
    BY <1>1, <1>4, <1>5 DEF Used
  <2>2. res = all.res
    BY <2>1
  <2> HIDE DEF res
  <2> QED BY <1>3, <1>4, <2>1, <2>2 DEF Encoding
<1>6. CASE m # 0
  <2>1. all.valb > -6 /\ Used(h, m) = 4 * h + m + 1 /\ m \in 1..2
    BY <1>1, <1>4, <1>6 DEF Used
  <2>2. res = last
    BY <2>1
  <2>3. Spells(last, bytes) /\ Len(last) = 4 * h + m + 1
    BY <1>1, <1>2, <2>1, LastDigit
  <2> HIDE DEF res, last
  <2> QED BY <1>3, <2>1, <2>2, <2>3 DEF Encoding
<1> QED BY <1>5, <1>6

(* What fills the last group                                               *)
Pad == "="

(* Behind the digits stand as many "=" as fill them up.                    *)
LEMMA Pads ==
  ASSUME NEW res \in Seq(Digits), NEW h \in Nat, NEW m \in 0..2, Len(res) = Used(h, m)
  PROVE  /\ Padded(res) \in Seq(Digits \cup {Pad})
         /\ Len(Padded(res)) = 4 * h + (IF m = 0 THEN 0 ELSE 4)
         /\ \A i \in 1..Len(res) : Padded(res)[i] = res[i]
         /\ \A i \in (Len(res) + 1)..Len(Padded(res)) : Padded(res)[i] = Pad
<1> DEFINE k == (4 - (Len(res) % 4)) % 4
           pad == [i \in 1..k |-> Pad]
           S == Digits \cup {Pad}
           out == res \o pad
<1>1. /\ k \in Nat /\ Len(res) \in Nat
      /\ Len(res) + k = 4 * h + (IF m = 0 THEN 0 ELSE 4)
  <2>1. CASE m = 0
    <3>1. Len(res) = 4 * h
      BY <2>1 DEF Used
    <3>2. k = 0
      BY <3>1
    <3> QED BY <2>1, <3>1, <3>2
  <2>2. CASE m = 1
    <3>1. Len(res) = 4 * h + 2
      BY <2>2 DEF Used
    <3>2. k = 2
      BY <3>1
    <3> QED BY <2>2, <3>1, <3>2
  <2>3. CASE m = 2
    <3>1. Len(res) = 4 * h + 3
      BY <2>3 DEF Used
    <3>2. k = 1
      BY <3>1
    <3> QED BY <2>3, <3>1, <3>2
  <2> QED BY <2>1, <2>2, <2>3
<1>2. Padded(res) = out
  BY Zenon DEF Padded, Pad
<1> HIDE DEF k
<1>3. pad \in Seq(S) /\ Len(pad) = k /\ \A i \in 1..k : pad[i] = Pad
  <2>1. pad \in [1..k -> S] /\ \A i \in 1..k : pad[i] = Pad
    OBVIOUS
  <2> HIDE DEF pad, S
  <2>2. pad \in Seq(S) /\ Len(pad) = k
    BY <1>1, <2>1, FunctionIsSeq
  <2> QED BY <2>1, <2>2
<1>4. res \in Seq(S)
  <2>1. Digits \subseteq S
    OBVIOUS
  <2> HIDE DEF S
  <2> QED BY <2>1, SeqOfFewer
<1> HIDE DEF pad, S
<1>5. /\ out \in Seq(S) /\ Len(out) = Len(res) + k
      /\ \A i \in 1..(Len(res) + k) : out[i] = IF i <= Len(res) THEN res[i] ELSE pad[i - Len(res)]
  BY <1>1, <1>3, <1>4, ConcatProperties
<1> HIDE DEF out
<1>6. ASSUME NEW i \in 1..Len(res) PROVE out[i] = res[i]
  <2>1. i \in 1..(Len(res) + k) /\ i <= Len(res)
    BY <1>1
  <2> QED BY <1>5, <2>1
<1>7. ASSUME NEW i \in (Len(res) + 1)..Len(out) PROVE out[i] = Pad
  <2>1. i \in 1..(Len(res) + k) /\ ~(i <= Len(res)) /\ i - Len(res) \in 1..k
    BY <1>1, <1>5
  <2> QED BY <1>3, <1>5, <2>1
<1> QED BY <1>1, <1>2, <1>5, <1>6, <1>7 DEF S

(* What a decoder finds in the digits                                      *)
Decoded(digits, bytes) ==
  LET used == (8 * Len(bytes) + 5) \div 6
  IN /\ Len(digits) = 4 * ((Len(bytes) + 2) \div 3)
     /\ \A i \in (used + 1)..Len(digits) : digits[i] = "="
     /\ \A b \in 0..(6 * used - 1) :
          Bit(Worth(digits[(b \div 6) + 1]), 5 - (b % 6))
            = IF b < 8 * Len(bytes) THEN Bit(bytes[(b \div 8) + 1], 7 - (b % 8)) ELSE 0

(* The bits behind the last byte are zero.                                 *)
LEMMA ZeroBits ==
  ASSUME NEW y \in 0..7
  PROVE  Bit(0, y) = 0
<1>1. Bits(0)
  BY BitIs
<1>2. /\ 0 % 2 = 0 /\ (0 \div 2) % 2 = 0 /\ (0 \div 4) % 2 = 0 /\ (0 \div 8) % 2 = 0
      /\ (0 \div 16) % 2 = 0 /\ (0 \div 32) % 2 = 0 /\ (0 \div 64) % 2 = 0 /\ (0 \div 128) % 2 = 0
  BY SMT
<1>3. y = 0 \/ y = 1 \/ y = 2 \/ y = 3 \/ y = 4 \/ y = 5 \/ y = 6 \/ y = 7
  OBVIOUS
<1> QED BY <1>1, <1>2, <1>3 DEF Bits

(* The digits decode to the bytes, bit by bit.                             *)
LEMMA Decodes ==
  ASSUME NEW bytes, IsBytes(bytes)
  PROVE  Base64Encode(bytes) \in Seq(Digits \cup {Pad}) /\ Decoded(Base64Encode(bytes), bytes)
<1> DEFINE n == Len(bytes)
           out == Base64Encode(bytes)
           used == (8 * n + 5) \div 6
<1>1. n \in Nat
  BY DEF IsBytes
<1>2. PICK h, m : Counted(n, h, m)
  BY <1>1, Grouped
<1>3. PICK res : Spells(res, bytes) /\ Len(res) = Used(h, m) /\ out = Padded(res)
  BY <1>2, Encodes DEF Encoding
<1>4. h \in Nat /\ m \in 0..2 /\ n = 3 * h + m
  BY <1>2 DEF Counted
<1>5. /\ out \in Seq(Digits \cup {Pad})
      /\ Len(out) = 4 * h + (IF m = 0 THEN 0 ELSE 4)
      /\ \A i \in 1..Len(res) : out[i] = res[i]
      /\ \A i \in (Len(res) + 1)..Len(out) : out[i] = Pad
  BY <1>3, <1>4, Pads DEF Spells
<1> HIDE DEF out, n
<1>6. used = Len(res) /\ Len(out) = 4 * ((n + 2) \div 3)
  <2>1. CASE m = 0
    <3>1. n = 3 * h /\ Len(res) = 4 * h /\ Len(out) = 4 * h
      BY <1>3, <1>4, <1>5, <2>1 DEF Used
    <3> QED BY <1>4, <3>1
  <2>2. CASE m = 1
    <3>1. n = 3 * h + 1 /\ Len(res) = 4 * h + 2 /\ Len(out) = 4 * h + 4
      BY <1>3, <1>4, <1>5, <2>2 DEF Used
    <3> QED BY <1>4, <3>1
  <2>3. CASE m = 2
    <3>1. n = 3 * h + 2 /\ Len(res) = 4 * h + 3 /\ Len(out) = 4 * h + 4
      BY <1>3, <1>4, <1>5, <2>3 DEF Used
    <3> QED BY <1>4, <3>1
  <2> QED BY <1>4, <2>1, <2>2, <2>3
<1>7. ASSUME NEW b \in 0..(6 * used - 1)
      PROVE  Bit(Worth(out[(b \div 6) + 1]), 5 - (b % 6)) = BitOf(bytes, b)
  <2> DEFINE g == b \div 24
             j == (b % 24) \div 6
             x == b % 6
  <2>1. g \in Nat /\ j \in 0..3 /\ x \in 0..5 /\ b = 24 * g + 6 * j + x
    BY SMT
  <2> HIDE DEF g, j, x
  <2>2. b \div 6 = 4 * g + j /\ b % 6 = x
    BY <2>1
  <2>3. 4 * g + j + 1 \in 1..Len(res) /\ Len(res) \in Nat
    <3>1. Len(res) \in Nat
      BY <1>3, LenProperties DEF Spells
    <3>2. b <= 6 * Len(res) - 1
      BY <1>6, <3>1
    <3> QED BY <2>1, <3>1, <3>2
  <2>4. out[4 * g + j + 1] = res[4 * g + j + 1]
    BY <1>5, <2>3
  <2>5. Worth(res[4 * g + j + 1]) = Six(bytes, g, j)
    BY <1>3, <2>1, <2>3 DEF Spells
  <2>6. Bit(Six(bytes, g, j), 5 - x) = BitOf(bytes, b)
    <3>1. BitStands(bytes, g, j, x, b)
      BY <2>1, SixBits
    <3> QED BY <3>1 DEF BitStands
  <2> QED BY <2>2, <2>4, <2>5, <2>6
<1>8. ASSUME NEW b \in 0..(6 * used - 1)
      PROVE  BitOf(bytes, b) = IF b < 8 * n THEN Bit(bytes[(b \div 8) + 1], 7 - (b % 8)) ELSE 0
  <2> DEFINE i == (b \div 8) + 1
             y == 7 - (b % 8)
  <2>1. b \in Nat
    OBVIOUS
  <2>2. y \in 0..7 /\ i \in Nat /\ (i \in 1..n <=> b < 8 * n)
    BY <1>1, <2>1
  <2>3. BitOf(bytes, b) = Bit(ByteAt(bytes, i), y)
    BY DEF BitOf
  <2> HIDE DEF i, y
  <2>4. ByteAt(bytes, i) = IF b < 8 * n THEN bytes[i] ELSE 0
    BY <2>2 DEF ByteAt, n
  <2>5. Bit(0, y) = 0
    BY <2>2, ZeroBits
  <2>6. BitOf(bytes, b) = IF b < 8 * n THEN Bit(bytes[i], y) ELSE 0
    BY <2>3, <2>4, <2>5
  <2> QED BY <2>6 DEF i, y
<1>9. \A i \in (used + 1)..Len(out) : out[i] = "="
  BY <1>5, <1>6 DEF Pad
<1> HIDE DEF used
<1>10. \A b \in 0..(6 * used - 1) :
          Bit(Worth(out[(b \div 6) + 1]), 5 - (b % 6))
            = IF b < 8 * n THEN Bit(bytes[(b \div 8) + 1], 7 - (b % 8)) ELSE 0
  BY <1>7, <1>8
<1>11. Decoded(out, bytes)
  BY <1>6, <1>9, <1>10, Zenon DEF Decoded, used, n
<1> QED BY <1>5, <1>11 DEF out

(* SetToSeq lists exactly the elements of a finite set.                    *)
LEMMA SetSeq ==
  ASSUME NEW S, IsFiniteSet(S)
  PROVE  /\ SetToSeq(S) \in Seq(S) /\ DOMAIN SetToSeq(S) = 1..Len(SetToSeq(S))
         /\ Len(SetToSeq(S)) \in Nat
         /\ {SetToSeq(S)[i] : i \in 1..Len(SetToSeq(S))} = S
<1> DEFINE n == Cardinality(S)
           f == SetToSeq(S)
<1>1. n \in Nat /\ ExistsBijection(1..n, S)
  BY FS_CardinalityType
<1>2. PICK g : g \in Bijection(1..n, S)
  BY <1>1 DEF ExistsBijection
<1>3. g \in [1..n -> S] /\ IsInjective(g)
  BY <1>2 DEF Bijection, Injection, IsInjective
<1>4. f \in [1..n -> S] /\ IsInjective(f)
  BY <1>3, Zenon DEF SetToSeq
<1> HIDE DEF f, n
<1>5. f \in Injection(1..n, S)
  BY <1>4 DEF Injection, IsInjective
<1>6. IsFiniteSet(1..n) /\ Cardinality(1..n) = n
  <2>1. 1 \in Int /\ n \in Int
    BY <1>1
  <2>2. IsFiniteSet(1..n) /\ Cardinality(1..n) = IF 1 > n THEN 0 ELSE n - 1 + 1
    BY <2>1, FS_Interval
  <2> QED BY <1>1, <2>2
<1>7. f \in Surjection(1..n, S)
  BY <1>5, <1>6, FS_Injection DEF n
<1>8. f \in Seq(S) /\ Len(f) = n
  BY <1>1, <1>4, FunctionIsSeq
<1>9. {f[i] : i \in 1..n} = S
  BY <1>4, <1>7 DEF Surjection
<1>10. DOMAIN f = 1..n
  BY <1>4
<1> QED BY <1>1, <1>8, <1>9, <1>10 DEF f

-----------------------------------------------------------------------------
(* What a request is written with                                          *)
SafeName(name) == name \in Token \ {CR}

(* Fields that can be written in lines                                     *)
SafeFields(fields) ==
  IsFiniteSet(DOMAIN fields)
  /\ \A name \in DOMAIN fields : SafeName(name) /\ fields[name] \in Inline

(* Two names htmlEncode writes                                             *)
Host == "Host"
Auth == "Authorization"

(* What htmlEncode writes itself has no line end.                          *)
LEMMA EncoderTokens ==
  /\ SafeName(Host) /\ SafeName(ContentLength) /\ SafeName(Auth) /\ SafeName(Pad)
  /\ SafeName("POST") /\ SafeName("HTTP/1.1") /\ SafeName("Basic")
  /\ SafeName(" ") /\ SafeName(":") /\ SafeName("?") /\ SafeName("/")
  /\ Host # ContentLength /\ Host # Auth /\ ContentLength # Auth
<1>1. /\ Host \in Token /\ ContentLength \in Token /\ Auth \in Token /\ Pad \in Token
      /\ "POST" \in Token /\ "HTTP/1.1" \in Token /\ "Basic" \in Token
  BY Zenon DEF Token, Literals, Host, ContentLength, Auth, Pad
<1>2. " " \in Token /\ ":" \in Token /\ "?" \in Token /\ "/" \in Token
  BY Zenon DEF Token, Separators
<1>3. /\ Host # CR /\ ContentLength # CR /\ Auth # CR /\ Pad # CR
      /\ "POST" # CR /\ "HTTP/1.1" # CR /\ "Basic" # CR
      /\ " " # CR /\ ":" # CR /\ "?" # CR /\ "/" # CR
  BY DEF Host, ContentLength, Auth, Pad, CR
<1>4. Host # ContentLength /\ Host # Auth /\ ContentLength # Auth
  BY DEF Host, ContentLength, Auth
<1> QED BY <1>1, <1>2, <1>3, <1>4, Zenon DEF SafeName

(* Nor has Base64.                                                         *)
LEMMA DigitsAreSafe == Digits \cup {Pad} \subseteq Token \ {CR}
<1>1. \A i \in 1..64 : kBase64Content[i] # "CR"
  BY SMT DEF kBase64Content
<1>2. ASSUME NEW v \in 0..63 PROVE kBase64Content[v + 1] \in Token \ {CR}
  <2> DEFINE i == v + 1
  <2>1. i \in 1..64
    OBVIOUS
  <2> HIDE DEF i
  <2>2. kBase64Content[i] \in Token
    BY <2>1, Zenon DEF Token, Literals
  <2>3. kBase64Content[i] \in Token \ {CR}
    BY <1>1, <2>1, <2>2, Zenon DEF CR
  <2> QED BY <2>3 DEF i
<1>3. Pad \in Token \ {CR}
  BY EncoderTokens DEF SafeName
<1> QED BY <1>2, <1>3, Zenon DEF Digits

(* Short texts of tokens without a line end                                *)
LEMMA TextOfOne ==
  ASSUME NEW a, SafeName(a)
  PROVE  <<a>> \in Inline
BY OnePiece DEF SafeName, Inline

(* Two tokens                                                              *)
LEMMA TextOfTwo ==
  ASSUME NEW a, NEW b, SafeName(a), SafeName(b)
  PROVE  <<a, b>> \in Inline /\ Len(<<a, b>>) = 2
BY DEF SafeName, Inline

(* Three tokens                                                            *)
LEMMA TextOfThree ==
  ASSUME NEW a, NEW b, NEW c, SafeName(a), SafeName(b), SafeName(c)
  PROVE  <<a, b, c>> \in Inline /\ Len(<<a, b, c>>) = 3 /\ <<a, b, c>>[1] = a
BY DEF SafeName, Inline

(* Texts without a line end join to one.                                   *)
LEMMA InlineJoins ==
  ASSUME NEW a \in Inline, NEW b \in Inline
  PROVE  a \o b \in Inline /\ Len(a \o b) = Len(a) + Len(b) /\ Len(a) \in Nat /\ Len(b) \in Nat
BY ConcatProperties, LenProperties DEF Inline

(* Adding a header keeps fields safe.                                      *)
LEMMA PutSafe ==
  ASSUME NEW fields, SafeFields(fields), NEW name, SafeName(name), NEW value \in Inline
  PROVE  /\ SafeFields(Put(fields, name, value))
         /\ name \in DOMAIN Put(fields, name, value) /\ Put(fields, name, value)[name] = value
<1> DEFINE new == Put(fields, name, value)
<1>1. /\ DOMAIN new = DOMAIN fields \cup {name} /\ new[name] = value
      /\ \A other \in DOMAIN fields : other # name => new[other] = fields[other]
  BY DEF Put
<1> HIDE DEF new
<1>2. IsFiniteSet(DOMAIN new)
  BY <1>1, FS_AddElement DEF SafeFields
<1>3. ASSUME NEW other \in DOMAIN new PROVE SafeName(other) /\ new[other] \in Inline
  BY <1>1, <1>3 DEF SafeFields
<1>4. SafeFields(new)
  BY <1>2, <1>3 DEF SafeFields
<1> QED BY <1>1, <1>4 DEF new

(* Tokens that stand for bytes                                             *)
Known == (Token \ {CR}) \cap DOMAIN ByteOf

(* The bytes of a user info are bytes.                                     *)
LEMMA BytesAreBytes ==
  ASSUME NEW userInfo \in Seq(Known)
  PROVE  IsBytes(Bytes(userInfo)) /\ Len(Bytes(userInfo)) = Len(userInfo)
<1> DEFINE n == Len(userInfo)
           bytes == Bytes(userInfo)
<1>1. n \in Nat /\ \A i \in 1..n : userInfo[i] \in DOMAIN ByteOf
  BY LenProperties, ElementOfSeq DEF Known
<1>2. bytes = [i \in 1..n |-> ByteOf[userInfo[i]]]
  BY DEF Bytes
<1>3. \A i \in 1..n : ByteOf[userInfo[i]] \in 0..255
  BY <1>1, ByteAssumption
<1> HIDE DEF bytes, n
<1>4. bytes \in [1..n -> 0..255]
  BY <1>2, <1>3
<1>5. Len(bytes) = n
  BY <1>1, <1>4, FunctionIsSeq
<1>6. IsBytes(bytes)
  BY <1>1, <1>4, <1>5 DEF IsBytes
<1> QED BY <1>5, <1>6 DEF bytes, n

(* The value of Authorization has no line end and ends in the digits.      *)
LEMMA BasicIsSafe ==
  ASSUME NEW userInfo \in Seq(Known)
  PROVE  /\ Basic(userInfo) \in Inline
         /\ From(Basic(userInfo), 3) = Base64Encode(Bytes(userInfo))
<1> DEFINE code == Base64Encode(Bytes(userInfo))
           begin == <<"Basic", " ">>
<1>1. code \in Inline
  <2>1. code \in Seq(Digits \cup {Pad})
    BY BytesAreBytes, Decodes
  <2> HIDE DEF code
  <2> QED BY <2>1, DigitsAreSafe, SeqOfFewer DEF Inline
<1>2. begin \in Inline /\ Len(begin) = 2
  <2>1. SafeName("Basic") /\ SafeName(" ")
    BY EncoderTokens
  <2> QED BY <2>1, TextOfTwo
<1>3. Basic(userInfo) = begin \o code
  BY Zenon DEF Basic
<1> HIDE DEF begin, code
<1>4. begin \o code \in Inline
  BY <1>1, <1>2, InlineJoins
<1>5. From(begin \o code, 3) = code
  <2> DEFINE s == begin \o code
  <2>1. begin \in Words /\ code \in Words /\ s \in Words /\ s = begin \o code
    BY <1>1, <1>2, <1>4, InlineIsPlain
  <2> HIDE DEF s
  <2>2. From(s, Len(begin) + 1) = code
    BY <2>1, JoinedParts
  <2>3. Len(begin) + 1 = 3
    BY <1>2
  <2> QED BY <2>1, <2>2, <2>3
<1> QED BY <1>3, <1>4, <1>5 DEF code

(* The components of a URL that go into a message                          *)
SafeUrl(u) ==
  /\ u.userInfo \in Seq(Known)
  /\ u.host \in Inline /\ u.path \in Inline /\ u.query \in Inline

(* ParseUrl makes such components of a text without a line end.            *)
LEMMA ComponentsAreSafe ==
  ASSUME NEW u, ComponentsIn(u, Known)
  PROVE  SafeUrl(u)
<1>1. Known \subseteq Token \ {CR} /\ Known \cup {"/"} \subseteq Token \ {CR}
  BY EncoderTokens, Zenon DEF Known, SafeName
<1>2. /\ u.userInfo \in Seq(Known) /\ u.host \in Seq(Known) /\ u.query \in Seq(Known)
      /\ u.path \in Seq(Known \cup {"/"})
  BY DEF ComponentsIn
<1> DEFINE S == Known \cup {"/"}
<1>3. u.path \in Inline
  <2>1. S \subseteq Token \ {CR} /\ u.path \in Seq(S)
    BY <1>1, <1>2
  <2> HIDE DEF S
  <2> QED BY <2>1, SeqOfFewer DEF Inline
<1>4. u.host \in Inline /\ u.query \in Inline
  BY <1>1, <1>2, SeqOfFewer DEF Inline
<1> QED BY <1>2, <1>3, <1>4 DEF SafeUrl

(* What htmlEncode puts among the headers                                  *)
Encoded(new, fields, u, body) ==
  /\ SafeFields(new)
  /\ Host \in DOMAIN new /\ new[Host] = u.host
  /\ body # <<>> => new[ContentLength] = <<ToString(Len(body))>>
  /\ Auth \notin DOMAIN fields /\ u.userInfo # <<>> => new[Auth] = Basic(u.userInfo)

(* EncodeHeaders makes safe fields and puts in what is missing.            *)
LEMMA HeadersEncoded ==
  ASSUME NEW fields, SafeFields(fields), NEW u, SafeUrl(u),
         NEW body, SafeName(ToString(Len(body)))
  PROVE  Encoded(EncodeHeaders(fields, u, body), fields, u, body)
<1> DEFINE size == <<ToString(Len(body))>>
           sized == IF body = <<>> THEN fields ELSE Put(fields, ContentLength, size)
           hosted == Put(sized, Host, u.host)
           given == Auth \in DOMAIN fields \/ u.userInfo = <<>>
           new == IF given THEN hosted ELSE Put(hosted, Auth, Basic(u.userInfo))
<1>0. /\ SafeName(Host) /\ SafeName(ContentLength) /\ SafeName(Auth)
      /\ Host # ContentLength /\ Host # Auth /\ ContentLength # Auth
  BY EncoderTokens
<1>1. size \in Inline
  BY TextOfOne
<1>2. u.host \in Inline /\ Basic(u.userInfo) \in Inline
  BY BasicIsSafe DEF SafeUrl
<1>3. EncodeHeaders(fields, u, body) = new
  BY Zenon DEF EncodeHeaders, ContentLength, Host, Auth
<1> HIDE DEF size
<1>4. /\ SafeFields(sized)
      /\ body # <<>> => ContentLength \in DOMAIN sized /\ sized[ContentLength] = size
  BY <1>0, <1>1, PutSafe
<1> HIDE DEF sized
<1>5. /\ SafeFields(hosted) /\ Host \in DOMAIN hosted /\ hosted[Host] = u.host
      /\ body # <<>> => ContentLength \in DOMAIN hosted /\ hosted[ContentLength] = size
  <2>1. SafeFields(hosted) /\ Host \in DOMAIN hosted /\ hosted[Host] = u.host
    <3>1. SafeFields(sized) /\ SafeName(Host) /\ u.host \in Inline
      BY <1>0, <1>2, <1>4
    <3> QED BY <3>1, PutSafe, Zenon
  <2>2. ASSUME body # <<>>
        PROVE  ContentLength \in DOMAIN hosted /\ hosted[ContentLength] = size
    BY <1>0, <1>4, <2>2, PutKeeps
  <2> QED BY <2>1, <2>2
<1> HIDE DEF hosted
<1>6. CASE given
  <2>1. new = hosted
    BY <1>6
  <2> QED BY <1>3, <1>5, <1>6, <2>1 DEF Encoded, size
<1>7. CASE ~given
  <2>1. new = Put(hosted, Auth, Basic(u.userInfo))
    BY <1>7
  <2> HIDE DEF new
  <2>2. SafeFields(new) /\ new[Auth] = Basic(u.userInfo)
    BY <1>0, <1>2, <1>5, <2>1, PutSafe
  <2>3. Host \in DOMAIN new /\ new[Host] = u.host
    BY <1>0, <1>5, <2>1, PutKeeps
  <2>4. body # <<>> => new[ContentLength] = size
    BY <1>0, <1>5, <2>1, PutKeeps
  <2> QED BY <1>3, <2>2, <2>3, <2>4 DEF Encoded, size
<1> QED BY <1>6, <1>7

-----------------------------------------------------------------------------
(* The first line of a request                                             *)
Target(u) ==
  <<"POST", " ">> \o u.path \o (IF u.query = <<>> THEN <<>> ELSE <<"?">> \o u.query)
    \o <<" ", "HTTP/1.1">>

(* The request line is a text without a line end, and not empty.           *)
LEMMA TargetIsText ==
  ASSUME NEW u, SafeUrl(u)
  PROVE  Target(u) \in Inline /\ Len(Target(u)) \in Nat \ {0}
<1> DEFINE a == <<"POST", " ">>
           b == u.path
           mark == <<"?">>
           q == IF u.query = <<>> THEN <<>> ELSE mark \o u.query
           z == <<" ", "HTTP/1.1">>
<1>0. /\ SafeName("POST") /\ SafeName(" ") /\ SafeName("?") /\ SafeName("HTTP/1.1")
  BY EncoderTokens
<1>1. a \in Inline /\ Len(a) = 2 /\ z \in Inline /\ mark \in Inline
  BY <1>0, TextOfOne, TextOfTwo
<1>2. b \in Inline /\ u.query \in Inline
  BY DEF SafeUrl
<1>3. Target(u) = ((a \o b) \o q) \o z
  BY Zenon DEF Target
<1> HIDE DEF a, b, mark, z
<1>4. q \in Inline
  <2>1. <<>> \in Inline
    BY EmptySeq DEF Inline
  <2> QED BY <1>1, <1>2, <2>1, InlineJoins
<1> HIDE DEF q
<1>5. /\ a \o b \in Inline /\ Len(a \o b) = 2 + Len(b) /\ Len(b) \in Nat
  <2>1. a \in Inline /\ b \in Inline /\ Len(a) = 2
    BY <1>1, <1>2
  <2>2. a \o b \in Inline /\ Len(a \o b) = Len(a) + Len(b) /\ Len(b) \in Nat
    BY <2>1, InlineJoins, Zenon
  <2> QED BY <2>1, <2>2
<1> DEFINE c == a \o b
<1>6. c \o q \in Inline /\ Len(c \o q) = Len(c) + Len(q) /\ Len(q) \in Nat
  <2> HIDE DEF c
  <2>1. c \in Inline
    BY <1>5 DEF c
  <2> QED BY <1>4, <2>1, InlineJoins
<1> DEFINE d == c \o q
<1>7. d \o z \in Inline /\ Len(d \o z) = Len(d) + Len(z) /\ Len(z) \in Nat
  <2> HIDE DEF d
  <2>1. d \in Inline
    BY <1>6 DEF d
  <2> QED BY <1>1, <2>1, InlineJoins
<1>8. Len(d \o z) \in Nat \ {0}
  BY <1>5, <1>6, <1>7
<1> QED BY <1>3, <1>7, <1>8

(* The line of a header                                                    *)
FieldLine(fields, name) == <<name, ":", " ">> \o fields[name]

(* The name is its first token, the value begins at its fourth.            *)
LEMMA FieldLineIsText ==
  ASSUME NEW fields, SafeFields(fields), NEW name \in DOMAIN fields
  PROVE  /\ FieldLine(fields, name) \in Inline /\ Len(FieldLine(fields, name)) \in Nat \ {0}
         /\ FieldLine(fields, name)[1] = name
         /\ From(FieldLine(fields, name), 4) = fields[name]
<1> DEFINE a == <<name, ":", " ">>
           b == fields[name]
           s == a \o b
<1>1. a \in Inline /\ Len(a) = 3 /\ a[1] = name /\ b \in Inline
  <2>1. SafeName(name) /\ SafeName(":") /\ SafeName(" ") /\ b \in Inline
    BY EncoderTokens DEF SafeFields
  <2> QED BY <2>1, TextOfThree
<1>2. FieldLine(fields, name) = s
  BY Zenon DEF FieldLine
<1> HIDE DEF a, b
<1>3. s \in Inline /\ Len(s) = 3 + Len(b) /\ Len(b) \in Nat
  BY <1>1, InlineJoins
<1>4. a \in Words /\ b \in Words /\ s \in Words /\ s = a \o b
  BY <1>1, <1>3, InlineIsPlain
<1> HIDE DEF s
<1>5. From(s, 4) = b
  <2>1. From(s, Len(a) + 1) = b
    BY <1>4, JoinedParts
  <2>2. Len(a) + 1 = 4
    BY <1>1
  <2> QED BY <2>1, <2>2
<1>6. s[1] = name
  <2>1. Joined(a, b, s)
    BY <1>4, Joins
  <2>2. 1 \in 1..Len(a)
    BY <1>1
  <2> QED BY <1>1, <2>1, <2>2 DEF Joined
<1> QED BY <1>2, <1>3, <1>5, <1>6 DEF b

(* The lines of a request: its first line and one for each header          *)
RowsOf(lines, fields, u) ==
  /\ lines[1] = Target(u)
  /\ {<<lines[i][1], From(lines[i], 4)>> : i \in 2..Len(lines)}
       = {<<name, fields[name]>> : name \in DOMAIN fields}

(* HtmlEncode writes these lines, an empty one and the body.               *)
LEMMA RequestIsWritten ==
  ASSUME NEW fields, SafeFields(fields), NEW u, SafeUrl(u), NEW lines, lines = RequestLines(fields, u)
  PROVE  /\ Plain(lines) /\ DOMAIN lines = 1..Len(lines)
         /\ RowsOf(lines, fields, u)
<1> DEFINE names == SetToSeq(DOMAIN fields)
           n == Len(names)
           first == <<Target(u)>>
           others == [i \in 1..n |-> FieldLine(fields, names[i])]
<1>1. /\ n \in Nat /\ DOMAIN names = 1..n
      /\ {names[i] : i \in 1..n} = DOMAIN fields
  BY SetSeq DEF SafeFields
<1>2. lines = first \o others
  BY Zenon DEF RequestLines, Target, FieldLine
<1> HIDE DEF names, n
<1>3. \A i \in 1..n : names[i] \in DOMAIN fields
  BY <1>1
<1>4. ASSUME NEW i \in 1..n
      PROVE  /\ others[i] \in Inline /\ Len(others[i]) \in Nat \ {0}
             /\ others[i][1] = names[i] /\ From(others[i], 4) = fields[names[i]]
  <2>1. others[i] = FieldLine(fields, names[i]) /\ names[i] \in DOMAIN fields
    BY <1>3
  <2> HIDE DEF others
  <2> QED BY <2>1, FieldLineIsText
<1>5. others \in Seq(Inline) /\ Len(others) = n
  <2>1. others \in [1..n -> Inline]
    BY <1>4
  <2> HIDE DEF others
  <2> QED BY <1>1, <2>1, FunctionIsSeq
<1> HIDE DEF others
<1>6. /\ lines \in Seq(Inline) /\ Len(lines) = 1 + n
      /\ lines[1] = Target(u) /\ \A i \in 1..n : lines[1 + i] = others[i]
  BY <1>2, <1>5, TargetIsText, PieceFirst
<1>7. DOMAIN lines = 1..Len(lines)
  BY <1>6, LenProperties
<1>8. ASSUME NEW k \in 1..Len(lines)
      PROVE  lines[k] \in Words /\ Len(lines[k]) \in Nat \ {0} /\ Without(lines[k], CR)
  <2>1. lines[k] \in Inline
    BY <1>6, ElementOfSeq
  <2>2. Len(lines[k]) \in Nat \ {0}
    <3>1. CASE k = 1
      BY <1>6, <3>1, TargetIsText
    <3>2. CASE k # 1
      <4> DEFINE i == k - 1
      <4>1. i \in 1..n /\ 1 + i = k
        BY <1>1, <1>6, <3>2
      <4> HIDE DEF i
      <4> QED BY <1>4, <1>6, <4>1
    <3> QED BY <3>1, <3>2
  <2> QED BY <2>1, <2>2, InlineIsPlain
<1>9. lines \in Seq(Words)
  <2>1. \A k \in 1..Len(lines) : lines[k] \in Words
    BY <1>8
  <2> QED BY <1>6, <2>1, SeqRetyped
<1>10. Plain(lines)
  BY <1>1, <1>6, <1>8, <1>9 DEF Plain
<1>11. RowsOf(lines, fields, u)
  <2> DEFINE have == {<<lines[i][1], From(lines[i], 4)>> : i \in 2..Len(lines)}
             want == {<<name, fields[name]>> : name \in DOMAIN fields}
  <2>1. ASSUME NEW i \in 2..Len(lines) PROVE <<lines[i][1], From(lines[i], 4)>> \in want
    <3> DEFINE k == i - 1
    <3>1. k \in 1..n /\ 1 + k = i
      BY <1>1, <1>6
    <3> HIDE DEF k
    <3>2. lines[i][1] = names[k] /\ From(lines[i], 4) = fields[names[k]]
      BY <1>4, <1>6, <3>1
    <3> QED BY <1>3, <3>1, <3>2
  <2>2. ASSUME NEW name \in DOMAIN fields PROVE <<name, fields[name]>> \in have
    <3>1. PICK k \in 1..n : names[k] = name
      BY <1>1
    <3> DEFINE i == 1 + k
    <3>2. i \in 2..Len(lines) /\ lines[i] = others[k]
      BY <1>1, <1>6
    <3> HIDE DEF i
    <3>3. lines[i][1] = name /\ From(lines[i], 4) = fields[name]
      BY <1>4, <3>1, <3>2
    <3> QED BY <3>2, <3>3
  <2>3. have = want
    BY <2>1, <2>2
  <2> QED BY <1>6, <2>3 DEF RowsOf
<1> QED BY <1>7, <1>10, <1>11

(* What a server finds in a request                                        *)
Understood(text0, fields, u, body) ==
  LET end == Find(text0, CRLF \o CRLF, 1)
      lines == Split(Upto(text0, end), CRLF)
      rest == From(text0, end + 4)
  IN /\ end # 0
     /\ RowsOf(lines, fields, u)
     /\ rest = IF body = <<>> THEN <<>> ELSE body \o CRLF

(* And a reader of HTTP finds them again.                                  *)
LEMMA RequestIsUnderstood ==
  ASSUME NEW fields, SafeFields(fields), NEW u, SafeUrl(u), NEW body \in Words
  PROVE  /\ Understood(HtmlEncode(fields, u, body), fields, u, body)
         /\ HtmlEncode(fields, u, body) \in Words
<1> DEFINE lines == RequestLines(fields, u)
           tail == IF body = <<>> THEN <<>> ELSE body \o CRLF
           sent == [lines |-> lines, body |-> tail]
           s == HtmlEncode(fields, u, body)
           end == HeaderEnd(s)
<1>1. Plain(lines) /\ DOMAIN lines = 1..Len(lines) /\ RowsOf(lines, fields, u)
  BY RequestIsWritten
<1>2. s = AnswerText(sent)
  <2>1. sent.lines = lines /\ sent.body = tail
    OBVIOUS
  <2> HIDE DEF sent, lines
  <2>2. AnswerText(sent) = Ended(lines) \o CRLF \o tail
    BY <2>1 DEF AnswerText, AnswerLines
  <2>3. s = Ended(lines) \o CRLF \o tail
    BY Zenon DEF HtmlEncode, lines
  <2> QED BY <2>2, <2>3
<1> HIDE DEF lines
<1>3. tail \in Words /\ <<>> \in Words
  BY LineEndTokens, ConcatProperties, EmptySeq DEF Words
<1> HIDE DEF tail
<1>4. Written(sent)
  BY <1>1, <1>3 DEF Written
<1>5. sent.lines = lines /\ sent.body = tail
  OBVIOUS
<1> HIDE DEF sent, s
<1>6. Lines(AnswerLines(sent))
  BY <1>4, AnswerHasLines
<1>7. s \in Words /\ end # 0
  <2> DEFINE f == AnswerLines(sent)
  <2>1. s = (f \o CRLF) \o tail
    BY <1>2, <1>5 DEF AnswerText
  <2>2. Len(f) \in Nat /\ Len(f) >= 2
    BY <1>6 DEF Lines
  <2>3. Lines(f)
    BY <1>6
  <2> HIDE DEF f
  <2>4. /\ (f \o CRLF) \o tail \in Words
        /\ Find((f \o CRLF) \o tail, CRLF \o CRLF, 1) = Len(f) - 1
    BY <1>3, <2>3, EmptyLineFound
  <2>5. end = Len(f) - 1
    BY <2>1, <2>4 DEF HeaderEnd
  <2> QED BY <2>1, <2>2, <2>4, <2>5
<1>8. s \o <<>> = s
  <2>1. s \in Seq(Token)
    BY <1>7 DEF Words
  <2> QED BY <2>1, ConcatEmptySeq
<1>9. Split(Upto(s, end), CRLF) = lines
  <2>1. s \o <<>> = AnswerText(sent)
    BY <1>2, <1>8
  <2> QED BY <1>3, <1>4, <1>5, <1>7, <2>1, HeaderLines
<1>10. From(s, end + 4) = tail
  <2>1. s \o <<>> = AnswerText(sent)
    BY <1>2, <1>8
  <2>2. From(s, end + Len(CRLF \o CRLF)) \o <<>> = tail
    BY <1>3, <1>4, <1>5, <1>7, <2>1, BodyBegins
  <2>3. Len(CRLF \o CRLF) = 4
    BY EmptyLineTokens
  <2> DEFINE pos == end + 4
  <2>4. From(s, pos) \o <<>> = tail
    BY <2>2, <2>3
  <2>5. From(s, pos) \in Seq(Token)
    <3>1. HeaderStands(AnswerLines(sent), s)
      BY <1>3, <1>4, <1>7, <2>1, HeaderPlace
    <3>2. Len(AnswerLines(sent)) \in Nat /\ Len(AnswerLines(sent)) >= 2
      BY <1>6 DEF Lines
    <3>3. pos \in Nat \ {0} /\ pos <= Len(s) + 1
      BY <3>1, <3>2, <1>7, LenProperties DEF HeaderStands, Words
    <3> HIDE DEF pos
    <3> QED BY <1>7, <3>3, PartsJoin DEF Words
  <2> HIDE DEF pos
  <2>6. From(s, pos) \o <<>> = From(s, pos)
    BY <2>5, ConcatEmptySeq
  <2>7. From(s, pos) = tail
    BY <2>4, <2>6
  <2> QED BY <2>7 DEF pos
<1>11. Understood(s, fields, u, body)
  <2>1. Find(s, CRLF \o CRLF, 1) = end
    BY DEF HeaderEnd
  <2> HIDE DEF end
  <2> QED BY <1>1, <1>7, <1>9, <1>10, <2>1 DEF Understood, tail
<1> QED BY <1>7, <1>11 DEF s

(* The URL and the headers of each hop are texts without a line end, and   *)
(* the message is what the headers and the URL were encoded to.            *)
TextInv ==
  /\ input \in Inputs /\ hops \in Nat
  /\ SafeFields(headers)
  /\ pc = "parseUrl" => text \in Seq(Known)
  /\ pc \in {"send", "answer"} => SafeUrl(url)
  /\ pc \in {"parseUrl", "send"} /\ hops = 0 => headers = input.headers
  /\ pc = "answer" =>
       /\ message = HtmlEncode(headers, url, input.body)
       /\ \E fields : /\ Encoded(headers, fields, url, input.body)
                      /\ hops = 0 => fields = input.headers

(* What callers ask with                                                   *)
LEMMA CallersTexts ==
  ASSUME NEW asked \in Inputs
  PROVE  /\ asked.url \in Seq(Known) /\ SafeFields(asked.headers)
         /\ asked.body \in Words /\ SafeName(ToString(Len(asked.body)))
<1>1. /\ asked.url \in Seq(STRING) /\ Free(asked.url, {CR, LF})
      /\ IsFiniteSet(DOMAIN asked.headers)
      /\ \A name \in DOMAIN asked.headers :
           /\ name \in STRING \ {CR, LF}
           /\ asked.headers[name] \in Seq(STRING) /\ Free(asked.headers[name], {CR, LF})
      /\ asked.body \in Seq(STRING)
      /\ ToString(Len(asked.body)) \in STRING \ {CR, LF}
      /\ ToSet(asked.url) \subseteq DOMAIN ByteOf
  BY InputAssumption, ByteAssumption
<1>2. \A name \in STRING \ {CR, LF} : SafeName(name)
  BY Zenon DEF SafeName, Token
<1>3. ASSUME NEW t \in Seq(STRING), Free(t, {CR, LF}) PROVE t \in Inline
  <2>1. t \in Words
    BY WordsOfStrings
  <2>2. Without(t, CR)
    BY <1>3, <2>1, FreeIsWithout
  <2> QED BY <2>1, <2>2, InlineIsPlain
<1>4. asked.url \in Seq(Known)
  <2> DEFINE t == asked.url
  <2>1. t \in Inline /\ ToSet(t) \subseteq DOMAIN ByteOf
    BY <1>1, <1>3
  <2> HIDE DEF t
  <2>2. ASSUME NEW i \in 1..Len(t) PROVE t[i] \in Known
    <3>1. t[i] \in Token \ {CR}
      BY <2>1, ElementOfSeq DEF Inline
    <3>2. t[i] \in ToSet(t)
      <4>1. DOMAIN t = 1..Len(t)
        BY <2>1, LenProperties DEF Inline
      <4> QED BY <4>1 DEF ToSet
    <3> QED BY <2>1, <3>1, <3>2 DEF Known
  <2>3. t \in Seq(Known)
    BY <2>1, <2>2, SeqRetyped DEF Inline
  <2> QED BY <2>3 DEF t
<1>5. SafeFields(asked.headers)
  BY <1>1, <1>2, <1>3 DEF SafeFields
<1> QED BY <1>1, <1>2, <1>4, <1>5, WordsOfStrings

(* What servers answer has known tokens and no line end in a line.         *)
LEMMA ServersTexts ==
  ASSUME NEW sent \in Answers
  PROVE  \A k \in 1..Len(sent.lines) : sent.lines[k] \in Seq(Known)
<1> DEFINE lines == sent.lines
<1>1. Plain(lines) /\ DOMAIN lines = 1..Len(lines)
  BY AnswerWritten DEF Written
<1>2. \A k \in DOMAIN lines : ToSet(lines[k]) \subseteq DOMAIN ByteOf
  BY ByteAssumption
<1> HIDE DEF lines
<1>3. ASSUME NEW k \in 1..Len(lines) PROVE lines[k] \in Seq(Known)
  <2> DEFINE t == lines[k]
  <2>1. t \in Inline /\ ToSet(t) \subseteq DOMAIN ByteOf
    BY <1>1, <1>2, InlineIsPlain DEF Plain
  <2> HIDE DEF t
  <2>2. ASSUME NEW i \in 1..Len(t) PROVE t[i] \in Known
    <3>1. t[i] \in Token \ {CR}
      BY <2>1, ElementOfSeq DEF Inline
    <3>2. t[i] \in ToSet(t)
      <4>1. DOMAIN t = 1..Len(t)
        BY <2>1, LenProperties DEF Inline
      <4> QED BY <4>1 DEF ToSet
    <3> QED BY <2>1, <3>1, <3>2 DEF Known
  <2>3. t \in Seq(Known)
    BY <2>1, <2>2, SeqRetyped DEF Inline
  <2> QED BY <2>3 DEF t
<1> QED BY <1>3 DEF lines

(* So a Location can be requested in turn.                                 *)
LEMMA LocationIsText ==
  ASSUME NEW sent \in Answers, ~StatusThrows(sent.lines[1]),
         NEW fields, fields = HeaderOf(sent.lines).fields, NEW name \in DOMAIN fields
  PROVE  fields[name] \in Seq(Known)
<1> DEFINE lines == sent.lines
<1>1. Plain(lines) /\ DOMAIN lines = 1..Len(lines)
  BY AnswerWritten DEF Written
<1>2. \A k \in 1..Len(lines) : lines[k] \in Seq(Known)
  BY ServersTexts
<1>3. Known \subseteq Token
  BY Zenon DEF Known
<1>4. ~StatusThrows(lines[1]) /\ fields = HeaderOf(lines).fields
  OBVIOUS
<1> HIDE DEF lines
<1>5. FieldsIn(HeaderOf(lines).fields, Known)
  BY <1>1, <1>2, <1>3, <1>4, HeaderFieldsIn
<1> QED BY <1>4, <1>5 DEF FieldsIn

(* The caller's URL and headers are such texts.                            *)
LEMMA InitTextInv == Init => TextInv
<1> SUFFICES ASSUME Init PROVE TextInv
  OBVIOUS
<1>1. /\ pc = "parseUrl" /\ input \in Inputs /\ text = input.url /\ headers = input.headers
      /\ hops = 0
  BY DEF Init
<1>2. input.url \in Seq(Known) /\ SafeFields(input.headers)
  BY <1>1, CallersTexts
<1> QED BY <1>1, <1>2 DEF TextInv

(* Every step keeps them so.                                               *)
LEMMA StepKeepsTextInv == ReadInv /\ TextInv /\ [Next]_vars => TextInv'
<1> SUFFICES ASSUME ReadInv, TextInv, [Next]_vars PROVE TextInv'
  OBVIOUS
<1>0. input \in Inputs /\ hops \in Nat /\ SafeFields(headers)
  BY DEF TextInv
<1>1. CASE ParseHop
  <2>1. /\ pc = "parseUrl" /\ url' = ParseUrl(text) /\ pc' \in {"send", "done"}
        /\ input' = input /\ hops' = hops /\ headers' = headers
    BY <1>1 DEF ParseHop, End
  <2>2. SafeUrl(url')
    <3>1. text \in Seq(Known) /\ Known \subseteq Token
      BY <2>1, Zenon DEF TextInv, Known
    <3> QED BY <2>1, <3>1, UrlTexts, ComponentsAreSafe
  <2> QED BY <1>0, <2>1, <2>2 DEF TextInv
<1>2. CASE Send
  <2>1. /\ pc = "send" /\ pc' = "answer"
        /\ headers' = EncodeHeaders(headers, url, input.body)
        /\ message' = HtmlEncode(headers', url, input.body)
        /\ input' = input /\ hops' = hops /\ url' = url
    BY <1>2 DEF Send
  <2>2. SafeUrl(url) /\ (hops = 0 => headers = input.headers)
    BY <2>1 DEF TextInv
  <2>3. SafeName(ToString(Len(input.body)))
    BY <1>0, CallersTexts
  <2>4. Encoded(headers', headers, url, input.body)
    BY <1>0, <2>1, <2>2, <2>3, HeadersEncoded
  <2>5. SafeFields(headers')
    BY <2>4 DEF Encoded
  <2>6. \E fields : /\ Encoded(headers', fields, url, input.body)
                    /\ hops = 0 => fields = input.headers
    BY <2>2, <2>4
  <2> QED BY <1>0, <2>1, <2>2, <2>5, <2>6 DEF TextInv
<1>3. CASE Answer
  <2>1. pc' = "read" /\ input' = input /\ hops' = hops /\ headers' = headers
    BY <1>3 DEF Answer
  <2> QED BY <1>0, <2>1 DEF TextInv
<1>4. ASSUME NEW n \in 1..Len(incoming), Read(n) PROVE TextInv'
  <2>1. /\ pc = "read" /\ answer \in Answers /\ answer' = answer
        /\ recvData' \in Words /\ incoming' \in Words
        /\ recvData' \o incoming' = AnswerText(answer)
    BY <1>4, ReadAppends
  <2>2. input' = input /\ headers' = headers
    BY <1>4 DEF Read
  <2>3. CASE HeaderEnd(recvData') = 0
    <3>1. pc' = pc /\ hops' = hops
      BY <1>4, <2>3 DEF Read
    <3> QED BY <1>0, <2>1, <2>2, <3>1 DEF TextInv
  <2>4. CASE HeaderEnd(recvData') # 0
    <3> DEFINE lines == answer.lines
               fields == HeaderOf(lines).fields
               location == IF "Location" \in DOMAIN fields THEN fields["Location"] ELSE <<>>
    <3>1. Split(Upto(recvData', HeaderEnd(recvData')), CRLF) = lines
      BY <2>1, <2>4, AnswerWritten, HeaderLines
    <3>2. ParseResponseHeader(recvData') = HeaderOf(lines)
      BY <3>1, HeaderIsOfLines
    <3>3. Parsed(recvData')
      BY <1>4, <2>4 DEF Read
    <3>4. \/ pc' = "done" /\ hops' = hops
          \/ /\ pc' = "parseUrl" /\ hops' = hops + 1 /\ text' = location
             /\ location # <<>> /\ ~StatusThrows(lines[1])
      <4> HIDE DEF lines
      <4> QED BY <3>1, <3>2, <3>3 DEF Parsed, End
    <3>5. CASE pc' = "done" /\ hops' = hops
      BY <1>0, <2>2, <3>5 DEF TextInv
    <3>6. CASE /\ pc' = "parseUrl" /\ hops' = hops + 1 /\ text' = location
               /\ location # <<>> /\ ~StatusThrows(lines[1])
      <4>1. location \in Seq(Known)
        <5>1. "Location" \in DOMAIN fields /\ location = fields["Location"]
          BY <3>6
        <5> DEFINE name == "Location"
                   its == fields
        <5>2. name \in DOMAIN its /\ location = its[name] /\ its = HeaderOf(answer.lines).fields
          BY <5>1
        <5>3. ~StatusThrows(answer.lines[1])
          BY <3>6
        <5> HIDE DEF name, its, location
        <5>4. its[name] \in Seq(Known)
          BY <2>1, <5>2, <5>3, LocationIsText
        <5> QED BY <5>2, <5>4
      <4>2. hops' \in Nat /\ hops' # 0
        BY <1>0, <3>6
      <4> HIDE DEF location
      <4> QED BY <1>0, <2>2, <3>6, <4>1, <4>2 DEF TextInv
    <3> HIDE DEF location
    <3> QED BY <3>4, <3>5, <3>6
  <2> QED BY <2>3, <2>4
<1>5. CASE UNCHANGED vars
  BY <1>5 DEF vars, TextInv
<1> QED BY <1>1, <1>2, <1>3, <1>4, <1>5 DEF Next

(***************************************************************************)
(* A server that reads a message by the grammar of HTTP finds the target,  *)
(* the headers and the body, whatever the caller's URL, headers and body   *)
(* and the redirects before (RequestEncoder::htmlEncode).                  *)
(***************************************************************************)
THEOREM MessagesAreUnderstood == Spec => []MessageUnderstood
<1>1. Init => ReadInv /\ TextInv
  <2>1. Init => ReadInv
    BY DEF Init, ReadInv
  <2> QED BY <2>1, InitTextInv
<1>2. TextInv => MessageUnderstood
  <2> SUFFICES ASSUME TextInv, pc = "answer" PROVE MessageUnderstood
    BY DEF MessageUnderstood
  <2>1. /\ input \in Inputs /\ SafeFields(headers) /\ SafeUrl(url)
        /\ message = HtmlEncode(headers, url, input.body)
    BY DEF TextInv
  <2>2. PICK fields : Encoded(headers, fields, url, input.body)
    BY DEF TextInv
  <2>3. input.body \in Words
    BY <2>1, CallersTexts
  <2>4. Understood(message, headers, url, input.body)
    BY <2>1, <2>3, RequestIsUnderstood
  <2>5. /\ headers["Host"] = url.host
        /\ input.body # <<>> => headers["Content-Length"] = <<ToString(Len(input.body))>>
    BY <2>2 DEF Encoded, Host, ContentLength
  <2> QED BY <2>4, <2>5, Zenon DEF MessageUnderstood, Understood, RowsOf, Target
<1> QED BY <1>1, <1>2, StepKeepsReadInv, StepKeepsTextInv, PTL DEF Spec

(***************************************************************************)
(* The digits of the Authorization header decode to the user info of the   *)
(* URL, for a user info of any length and any bytes (base64Encode).        *)
(***************************************************************************)
THEOREM CredentialsCanBeDecoded == Spec => []CredentialsDecode
<1>1. Init => ReadInv /\ TextInv
  <2>1. Init => ReadInv
    BY DEF Init, ReadInv
  <2> QED BY <2>1, InitTextInv
<1>2. TextInv => CredentialsDecode
  <2> SUFFICES ASSUME TextInv, pc = "answer", hops = 0, url.userInfo # <<>>,
                      "Authorization" \notin DOMAIN input.headers
               PROVE  CredentialsDecode
    BY DEF CredentialsDecode
  <2> DEFINE bytes == Bytes(url.userInfo)
  <2>1. SafeUrl(url)
    BY DEF TextInv
  <2>2. PICK fields : Encoded(headers, fields, url, input.body) /\ fields = input.headers
    BY DEF TextInv
  <2>3. headers["Authorization"] = Basic(url.userInfo)
    BY <2>2 DEF Encoded, Auth
  <2>4. url.userInfo \in Seq(Known)
    BY <2>1 DEF SafeUrl
  <2>5. From(headers["Authorization"], 3) = Base64Encode(bytes)
    BY <2>3, <2>4, BasicIsSafe
  <2>6. Decoded(Base64Encode(bytes), bytes)
    BY <2>4, BytesAreBytes, Decodes
  <2>7. Decoded(From(headers["Authorization"], 3), bytes)
    BY <2>5, <2>6
  <2> QED BY <2>7, Zenon DEF CredentialsDecode, Decoded
<1> QED BY <1>1, <1>2, StepKeepsReadInv, StepKeepsTextInv, PTL DEF Spec

(* A status code is one the parser reads, or none.                         *)
LEMMA CodeIsRead ==
  ASSUME NEW line, ~StatusThrows(line)
  PROVE  StatusCode(line) \in Codes \cup {"Unknown"}
BY DEF StatusThrows, StatusCode

(* Every step keeps the types, of what is well read and well encoded.      *)
LEMMA StepKeepsTypes == TypeOK /\ ReadInv /\ TextInv /\ [Next]_vars => TypeOK'
<1> SUFFICES ASSUME TypeOK, ReadInv, TextInv, [Next]_vars PROVE TypeOK'
  OBVIOUS
<1>0. hops \in 0..MaxHops /\ MaxHops \in Nat
  BY ExchangeAssumption DEF TypeOK
<1>1. CASE ParseHop
  <2>1. /\ pc' \in {"send", "done"} /\ url' = ParseUrl(text)
        /\ outcome' = outcome \/ outcome' \in {"RedirectError", "SchemeNotSupported", "UrlInvalid"}
        /\ UNCHANGED <<input, message, recvData, response, hops>>
    BY <1>1 DEF ParseHop, End
  <2>2. ParseUrl(text).valid \in BOOLEAN
    <3>1. EmptyUrl.valid \in BOOLEAN
      BY DEF EmptyUrl
    <3>2. \A scheme, view : ParseRest(scheme, view).valid \in BOOLEAN
      BY DEF ParseRest
    <3> QED BY <3>1, <3>2, Zenon DEF ParseUrl
  <2> QED BY <2>1, <2>2 DEF TypeOK
<1>2. CASE Send
  <2>1. /\ pc = "send" /\ pc' = "answer"
        /\ headers' = EncodeHeaders(headers, url, input.body)
        /\ message' = HtmlEncode(headers', url, input.body)
        /\ UNCHANGED <<input, url, recvData, response, outcome, hops>>
    BY <1>2 DEF Send
  <2>2. input \in Inputs /\ SafeFields(headers) /\ SafeUrl(url)
    BY <2>1 DEF TextInv
  <2>3. SafeName(ToString(Len(input.body))) /\ input.body \in Words
    BY <2>2, CallersTexts
  <2>4. Encoded(headers', headers, url, input.body)
    BY <2>1, <2>2, <2>3, HeadersEncoded
  <2>5. message' \in Seq(Token)
    <3>1. SafeFields(headers')
      BY <2>4 DEF Encoded
    <3> QED BY <2>1, <2>2, <2>3, <3>1, RequestIsUnderstood DEF Words
  <2> QED BY <2>1, <2>5 DEF TypeOK
<1>3. CASE Answer
  <2>1. /\ pc' = "read" /\ message' = <<>> /\ recvData' = <<>> /\ response' = NoResponse
        /\ UNCHANGED <<input, url, outcome, hops>>
    BY <1>3 DEF Answer
  <2>2. NoResponse.code = "Unknown" /\ <<>> \in Seq(Token)
    BY EmptySeq DEF NoResponse
  <2> QED BY <2>1, <2>2 DEF TypeOK
<1>4. ASSUME NEW n \in 1..Len(incoming), Read(n) PROVE TypeOK'
  <2>1. /\ pc = "read" /\ answer \in Answers
        /\ recvData' \in Words /\ incoming' \in Words
        /\ recvData' \o incoming' = AnswerText(answer)
    BY <1>4, ReadAppends
  <2>2. UNCHANGED <<input, url, message>> /\ recvData' \in Seq(Token)
    BY <1>4, <2>1 DEF Read, Words
  <2>3. CASE HeaderEnd(recvData') = 0
    <3>1. UNCHANGED <<pc, response, outcome, hops>>
      BY <1>4, <2>3 DEF Read
    <3> QED BY <2>2, <3>1 DEF TypeOK
  <2>4. CASE HeaderEnd(recvData') # 0
    <3> DEFINE lines == answer.lines
    <3>1. Split(Upto(recvData', HeaderEnd(recvData')), CRLF) = lines
      BY <2>1, <2>4, AnswerWritten, HeaderLines
    <3>2. ParseResponseHeader(recvData') = HeaderOf(lines)
      BY <3>1, HeaderIsOfLines
    <3>3. Parsed(recvData')
      BY <1>4, <2>4 DEF Read
    <3> HIDE DEF lines
    <3>4. /\ pc' \in {"done", "parseUrl"}
          /\ outcome' \in {outcome, "terminated", "RedirectError", "header"}
          /\ hops' = hops \/ (hops < MaxHops /\ hops' = hops + 1)
          /\ response' = response \/ (~StatusThrows(lines[1]) /\ response' = HeaderOf(lines))
      BY <3>1, <3>2, <3>3 DEF Parsed, End
    <3>5. hops' \in 0..MaxHops
      BY <1>0, <3>4
    <3>6. response'.code \in Codes \cup {"Unknown"}
      <4>1. CASE response' = response
        BY <4>1 DEF TypeOK
      <4>2. CASE ~StatusThrows(lines[1]) /\ response' = HeaderOf(lines)
        <5>1. response'.code = StatusCode(lines[1])
          BY <4>2 DEF HeaderOf
        <5> QED BY <4>2, <5>1, CodeIsRead
      <4> QED BY <3>4, <4>1, <4>2
    <3> QED BY <2>2, <3>4, <3>5, <3>6 DEF TypeOK
  <2> QED BY <2>3, <2>4
<1>5. CASE UNCHANGED vars
  BY <1>5 DEF vars, TypeOK
<1> QED BY <1>1, <1>2, <1>3, <1>4, <1>5 DEF Next

(***************************************************************************)
(* Whatever URLs, headers and answers there are, and however the reads cut *)
(* an answer, a message is a text, the response has a status code that     *)
(* std::stoi reads or none, and a request ends one of the ways it can.     *)
(***************************************************************************)
THEOREM TypeCorrect == Spec => []TypeOK
<1>1. Init => TypeOK /\ ReadInv /\ TextInv
  <2> SUFFICES ASSUME Init PROVE TypeOK /\ ReadInv /\ TextInv
    OBVIOUS
  <2>1. ReadInv
    BY DEF Init, ReadInv
  <2>2. /\ pc = "parseUrl" /\ input \in Inputs /\ url = EmptyUrl /\ message = <<>>
        /\ recvData = <<>> /\ response = NoResponse /\ outcome = "none" /\ hops = 0
    BY DEF Init
  <2>3. NoResponse.code = "Unknown" /\ <<>> \in Seq(Token) /\ EmptyUrl.valid \in BOOLEAN
    BY EmptySeq DEF NoResponse, EmptyUrl
  <2>4. input.url \in Seq(STRING) /\ hops \in 0..MaxHops
    BY <2>2, InputAssumption, ExchangeAssumption
  <2> QED BY <2>1, <2>2, <2>3, <2>4, InitTextInv DEF TypeOK
<1> QED BY <1>1, StepKeepsReadInv, StepKeepsTextInv, StepKeepsTypes, PTL DEF Spec

=============================================================================
