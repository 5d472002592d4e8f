------------------------------- MODULE HeapProofs -------------------------------
(***************************************************************************)
(* What the operations of a heap yield, in either build and for every size *)
(* of the arena: a sound heap again, with the header that was asked for,   *)
(* or one header less, or all of the old ones.                             *)
(*                                                                         *)
(* A sound heap (Sound) says more than that the free blocks are in order:  *)
(* splitting and merging keep the order only because a block in use lies   *)
(* in a gap between free ones (Gap), which in turn is so only because the  *)
(* blocks in use do not overlap each other nor the free ones (Tiled).  The *)
(* argument looks at the units of a free list: an operation on the list    *)
(* changes them by those of one block (TakenIs, PutBetween, LeftMerged,    *)
(* RightMerged), and the blocks in use by the same (OneMore, OneLess).     *)
(***************************************************************************)
EXTENDS Heap, SequenceFacts, FiniteSetTheorems

-----------------------------------------------------------------------------
(* Numbers, sets and sequences                                             *)

\* What is assumed of the sizes.
LEMMA HeapNumbers ==
  /\ HeapSize \in Nat /\ HeapSize > 0 /\ NodeSize \in Nat /\ NodeSize > 0
  /\ HeaderSize \in Nat /\ HeaderSize > 0 /\ NULL \notin Nat
BY HeapAssumption

\* Sets with nothing in common are counted one after the other.
LEMMA CountUnion ==
  ASSUME NEW S, NEW T, IsFiniteSet(S), IsFiniteSet(T), S \cap T = {}
  PROVE  IsFiniteSet(S \cup T) /\ Cardinality(S \cup T) = Cardinality(S) + Cardinality(T)
<1>1. Cardinality(S) \in Nat /\ Cardinality(T) \in Nat /\ Cardinality(S \cap T) = 0
  BY FS_CardinalityType, FS_EmptySet
<1>2. IsFiniteSet(S \cup T)
      /\ Cardinality(S \cup T) = Cardinality(S) + Cardinality(T) - Cardinality(S \cap T)
  BY FS_Union
<1> QED  BY <1>1, <1>2

\* A part of a set, and the rest of it.
LEMMA CountWithout ==
  ASSUME NEW S, IsFiniteSet(S), NEW T \in SUBSET S
  PROVE  /\ IsFiniteSet(S \ T) /\ IsFiniteSet(T)
         /\ Cardinality(S) \in Nat /\ Cardinality(T) \in Nat
         /\ Cardinality(S \ T) = Cardinality(S) - Cardinality(T)
         /\ Cardinality(S \ T) \in Nat
<1>1. S \cap T = T
  OBVIOUS
<1>2. IsFiniteSet(T) /\ Cardinality(T) <= Cardinality(S)
  BY FS_Subset
<1>3. Cardinality(S) \in Nat /\ Cardinality(T) \in Nat
  BY <1>2, FS_CardinalityType
<1>4. IsFiniteSet(S \ T) /\ Cardinality(S \ T) = Cardinality(S) - Cardinality(S \cap T)
  BY FS_Difference
<1> QED  BY <1>1, <1>2, <1>3, <1>4

\* r is s with e put in at place i.
LongerAt(r, s, i, e, S) ==
  /\ r \in Seq(S) /\ Len(r) = Len(s) + 1
  /\ \A k \in 1 .. Len(s) + 1 : r[k] = IF k < i THEN s[k] ELSE IF k = i THEN e ELSE s[k - 1]

\* An element before place i moves the others up.
LEMMA InsertAtIs ==
  ASSUME NEW S, NEW s \in Seq(S), NEW i \in 1 .. Len(s) + 1, NEW e \in S
  PROVE  LongerAt(InsertAt(s, i, e), s, i, e, S)
<1> DEFINE a == SubSeq(s, 1, i - 1)
           b == SubSeq(s, i, Len(s))
           c == a \o << e >>
<1>1. Len(s) \in Nat /\ \A k \in 1 .. Len(s) : s[k] \in S
  BY LenProperties, ElementOfSeq
<1>2. a \in Seq(S) /\ Len(a) = i - 1 /\ \A k \in 1 .. i - 1 : a[k] = s[k]
  <2>1. \A k \in 1 .. i - 1 : s[k] \in S
    BY <1>1
  <2> QED  BY <1>1, <2>1, SubSeqProperties
<1>3. b \in Seq(S) /\ Len(b) = Len(s) + 1 - i /\ \A k \in 1 .. Len(s) + 1 - i : b[k] = s[k + i - 1]
  <2>1. \A k \in i .. Len(s) : s[k] \in S
    BY <1>1
  <2>2. i \in Int /\ Len(s) \in Int
    BY <1>1
  <2>3. /\ b \in Seq(S) /\ Len(b) = IF i <= Len(s) THEN Len(s) - i + 1 ELSE 0
        /\ \A k \in 1 .. Len(s) - i + 1 : b[k] = s[i + k - 1]
    BY <2>1, <2>2, SubSeqProperties
  <2> QED  BY <1>1, <2>3
<1> HIDE DEF a, b
<1>4. << e >> \in Seq(S) /\ Len(<< e >>) = 1 /\ << e >>[1] = e
  OBVIOUS
<1>5. c \in Seq(S) /\ Len(c) = i /\ \A k \in 1 .. i : c[k] = IF k < i THEN s[k] ELSE e
  <2>1. c \in Seq(S) /\ Len(c) = Len(a) + 1
        /\ \A k \in 1 .. Len(a) + 1 : c[k] = IF k <= Len(a) THEN a[k] ELSE << e >>[k - Len(a)]
    BY <1>2, <1>4, ConcatProperties
  <2> HIDE DEF c
  <2> QED  BY <1>1, <1>2, <2>1
<1> HIDE DEF c
<1> DEFINE r == c \o b
<1>6. r \in Seq(S) /\ Len(r) = Len(s) + 1
      /\ \A k \in 1 .. Len(s) + 1 : r[k] = IF k <= i THEN c[k] ELSE b[k - i]
  <2>1. r \in Seq(S) /\ Len(r) = Len(c) + Len(b)
        /\ \A k \in 1 .. Len(c) + Len(b) : r[k] = IF k <= Len(c) THEN c[k] ELSE b[k - Len(c)]
    BY <1>3, <1>5, ConcatProperties
  <2> HIDE DEF r
  <2> QED  BY <1>1, <1>3, <1>5, <2>1
<1> HIDE DEF r
<1>7. ASSUME NEW k \in 1 .. Len(s) + 1
      PROVE  r[k] = IF k < i THEN s[k] ELSE IF k = i THEN e ELSE s[k - 1]
  <2>1. CASE k <= i
    BY <1>1, <1>5, <1>6, <2>1
  <2>2. CASE ~(k <= i)
    <3>1. k - i \in 1 .. Len(s) + 1 - i
      BY <1>1, <2>2
    <3>2. (k - i) + i - 1 = k - 1
      BY <1>1
    <3> QED  BY <1>1, <1>3, <1>6, <2>2, <3>1, <3>2
  <2> QED  BY <2>1, <2>2
<1>8. LongerAt(r, s, i, e, S)
  BY <1>6, <1>7 DEF LongerAt
<1>9. r = InsertAt(s, i, e)
  BY DEF InsertAt, r, c, a, b
<1> QED  BY <1>8, <1>9

-----------------------------------------------------------------------------
(* A sound heap                                                            *)

\* The blocks of a free list lie in the arena, in address order.
FreeList(f) ==
  /\ f \in Seq(FreeBlock)
  /\ \A i \in DOMAIN f : f[i].at + f[i].units <= HeapSize
  /\ \A i, j \in DOMAIN f : i < j => f[i].at + f[i].units <= f[j].at

\* The first k of them are below n units from an address and the others beyond.
Gap(f, k, at, n) ==
  /\ at \in Address /\ n \in 1 .. HeapSize /\ at + n <= HeapSize /\ k \in 0 .. Len(f)
  /\ \A i \in DOMAIN f : IF i <= k THEN f[i].at + f[i].units <= at ELSE at + n <= f[i].at

\* The units of a free list, of the blocks in use, and what those take by block.
UnitsIn(f) == UNION {UnitsOf(f[i].at, f[i].units) : i \in DOMAIN f}

UnitsUsed(hd) == UNION {UnitsOf(a, hd[a].units) : a \in DOMAIN hd}

TakingOf(hd) == UNION {{a} \X (1 .. hd[a].units) : a \in DOMAIN hd}

\* A header stands before each of some blocks.
Headers(hd) ==
  /\ DOMAIN hd \subseteq Address /\ hd = [a \in DOMAIN hd |-> hd[a]]
  /\ \A a \in DOMAIN hd : hd[a] \in Header

\* The blocks in use lie in the arena and do not overlap.
UsedApart(hd) ==
  /\ \A a \in DOMAIN hd : a + hd[a].units <= HeapSize
  /\ \A a, b \in DOMAIN hd : a < b => a + hd[a].units <= b

\* Every unit of the arena is in one block, free or in use.
Tiled(h) ==
  /\ FreeList(h.free) /\ UsedApart(h.header)
  /\ UnitsIn(h.free) \cup UnitsUsed(h.header) = Address
  /\ UnitsIn(h.free) \cap UnitsUsed(h.header) = {}
  /\ h.allocated + Cardinality(UnitsIn(h.free)) = HeapSize

\* The inductive invariant of the heap: the headers account for what counts as allocated,
\* the arena is tiled, and the tracked build has no free list.
Sound(h) ==
  /\ h = [free |-> h.free, header |-> h.header, allocated |-> h.allocated]
  /\ h.free \in Seq(FreeBlock) /\ Headers(h.header) /\ h.allocated \in 0 .. HeapSize
  /\ IsFiniteSet(TakingOf(h.header)) /\ h.allocated = Cardinality(TakingOf(h.header))
  /\ build \in Builds /\ (IF build = "internal" THEN Tiled(h) ELSE h.free = << >>)

\* What a free block is, in numbers.
LEMMA FreeBlockIs ==
  ASSUME NEW b \in FreeBlock
  PROVE  b.at \in Int /\ b.at >= 0 /\ b.at < HeapSize /\ b.units \in Int /\ b.units > 0
         /\ b.at \in Address /\ b.units \in 1 .. HeapSize
BY HeapNumbers DEF FreeBlock, Address

\* Where the k-th free block begins and ends.
Lo(f, k) == f[k].at

Hi(f, k) == f[k].at + f[k].units

\* A free list in numbers, from its definition and back.
LEMMA FreeListIs ==
  ASSUME NEW f, FreeList(f)
  PROVE  /\ f \in Seq(FreeBlock) /\ Len(f) \in Nat /\ DOMAIN f = 1 .. Len(f)
         /\ \A i \in 1 .. Len(f) :
              /\ f[i] \in FreeBlock /\ Lo(f, i) \in Int /\ Hi(f, i) \in Int
              /\ 0 <= Lo(f, i) /\ Lo(f, i) < Hi(f, i) /\ Hi(f, i) <= HeapSize
         /\ \A i, j \in 1 .. Len(f) : i < j => Hi(f, i) <= Lo(f, j)
<1>1. f \in Seq(FreeBlock)
  BY DEF FreeList
<1>2. Len(f) \in Nat /\ DOMAIN f = 1 .. Len(f) /\ \A i \in 1 .. Len(f) : f[i] \in FreeBlock
  BY <1>1, LenProperties, ElementOfSeq
<1>3. ASSUME NEW i \in 1 .. Len(f)
      PROVE  /\ Lo(f, i) \in Int /\ Hi(f, i) \in Int
             /\ 0 <= Lo(f, i) /\ Lo(f, i) < Hi(f, i) /\ Hi(f, i) <= HeapSize
  <2>1. f[i] \in FreeBlock /\ f[i].at + f[i].units <= HeapSize
    BY <1>2 DEF FreeList
  <2> QED  BY <2>1, FreeBlockIs DEF Lo, Hi
<1>4. \A i, j \in 1 .. Len(f) : i < j => Hi(f, i) <= Lo(f, j)
  BY <1>2 DEF FreeList, Lo, Hi
<1> QED  BY <1>1, <1>2, <1>3, <1>4

\* What makes a free list, index by index.
LEMMA FreeListFrom ==
  ASSUME NEW f \in Seq(FreeBlock),
         \A i \in 1 .. Len(f) : Hi(f, i) <= HeapSize,
         \A i, j \in 1 .. Len(f) : i < j => Hi(f, i) <= Lo(f, j)
  PROVE  FreeList(f)
<1>1. DOMAIN f = 1 .. Len(f)
  BY LenProperties
<1> QED  BY <1>1 DEF FreeList, Lo, Hi

\* Which units a free list has.
LEMMA InUnits ==
  ASSUME NEW f, FreeList(f), NEW x
  PROVE  x \in UnitsIn(f)
           <=> x \in Int /\ \E i \in 1 .. Len(f) : Lo(f, i) <= x /\ x < Hi(f, i)
<1>1. DOMAIN f = 1 .. Len(f) /\ \A i \in 1 .. Len(f) : f[i] \in FreeBlock
  BY FreeListIs
<1>2. ASSUME NEW i \in 1 .. Len(f)
      PROVE  x \in UnitsOf(f[i].at, f[i].units)
               <=> x \in Int /\ Lo(f, i) <= x /\ x < Hi(f, i)
  <2>1. f[i].at \in Int /\ f[i].units \in Int
    BY <1>1, FreeBlockIs
  <2> QED  BY <2>1 DEF UnitsOf, Lo, Hi
<1>3. x \in UnitsIn(f) <=> \E i \in 1 .. Len(f) : x \in UnitsOf(f[i].at, f[i].units)
  BY <1>1 DEF UnitsIn
<1> QED  BY <1>2, <1>3

\* Which units a block has.
LEMMA InUnitsOf ==
  ASSUME NEW a \in Int, NEW n \in Int, NEW x
  PROVE  x \in UnitsOf(a, n) <=> x \in Int /\ a <= x /\ x < a + n
BY DEF UnitsOf

\* They are finitely many.
LEMMA UnitsAreFinite ==
  ASSUME NEW f, FreeList(f)
  PROVE  UnitsIn(f) \subseteq Address /\ IsFiniteSet(UnitsIn(f)) /\ IsFiniteSet(Address)
         /\ Cardinality(Address) = HeapSize
<1>1. ASSUME NEW x \in UnitsIn(f) PROVE x \in Address
  <2>1. PICK k \in 1 .. Len(f) : x \in Int /\ Lo(f, k) <= x /\ x < Hi(f, k)
    BY <1>1, InUnits
  <2> QED  BY <2>1, FreeListIs, HeapNumbers DEF Address
<1>2. IsFiniteSet(Address) /\ Cardinality(Address) = HeapSize
  BY FS_Interval, HeapNumbers DEF Address
<1> QED  BY <1>1, <1>2, FS_Subset

\* A block has as many units as it says.
LEMMA CountUnitsOf ==
  ASSUME NEW a \in Int, NEW n \in Nat
  PROVE  IsFiniteSet(UnitsOf(a, n)) /\ Cardinality(UnitsOf(a, n)) = n
BY FS_Interval DEF UnitsOf

-----------------------------------------------------------------------------
(* Taking from and putting into a free list                                *)

\* Without its k-th block a free list has no units of that block.
LEMMA WithoutFree ==
  ASSUME NEW f, FreeList(f), NEW i \in 1 .. Len(f)
  PROVE  /\ FreeList(RemoveAt(f, i)) /\ Len(RemoveAt(f, i)) = Len(f) - 1
         /\ \A k \in 1 .. Len(f) - 1 : RemoveAt(f, i)[k] = IF k < i THEN f[k] ELSE f[k + 1]
         /\ \A x : x \in UnitsIn(RemoveAt(f, i))
                  <=> x \in UnitsIn(f) /\ ~(Lo(f, i) <= x /\ x < Hi(f, i))
<1> DEFINE r == RemoveAt(f, i)
<1>1. /\ f \in Seq(FreeBlock) /\ Len(f) \in Nat
      /\ \A k \in 1 .. Len(f) : /\ Lo(f, k) \in Int /\ Hi(f, k) \in Int
                              /\ Lo(f, k) < Hi(f, k) /\ Hi(f, k) <= HeapSize
      /\ \A k, j \in 1 .. Len(f) : k < j => Hi(f, k) <= Lo(f, j)
  BY FreeListIs
<1>2. /\ r \in Seq(FreeBlock) /\ Len(r) = Len(f) - 1
      /\ \A k \in 1 .. Len(f) - 1 : r[k] = IF k < i THEN f[k] ELSE f[k + 1]
  BY <1>1, RemoveAtProperties
<1> HIDE DEF r
<1>3. ASSUME NEW k \in 1 .. Len(r)
      PROVE  /\ k \in 1 .. Len(f) /\ k + 1 \in 1 .. Len(f)
             /\ k < i => Lo(r, k) = Lo(f, k) /\ Hi(r, k) = Hi(f, k)
             /\ ~(k < i) => Lo(r, k) = Lo(f, k + 1) /\ Hi(r, k) = Hi(f, k + 1)
  <2>1. k \in 1 .. Len(f) /\ k + 1 \in 1 .. Len(f) /\ k \in 1 .. Len(f) - 1
    BY <1>1, <1>2
  <2>2. r[k] = IF k < i THEN f[k] ELSE f[k + 1]
    BY <1>2, <2>1
  <2> QED  BY <2>1, <2>2 DEF Lo, Hi
<1>4. FreeList(r)
  <2>1. ASSUME NEW k \in 1 .. Len(r) PROVE Hi(r, k) <= HeapSize
    BY <1>1, <1>2, <1>3
  <2>2. ASSUME NEW k \in 1 .. Len(r), NEW j \in 1 .. Len(r), k < j
        PROVE  Hi(r, k) <= Lo(r, j)
    <3>1. k \in 1 .. Len(f) /\ k + 1 \in 1 .. Len(f) /\ j \in 1 .. Len(f) /\ j + 1 \in 1 .. Len(f)
      BY <1>3
    <3>2. Hi(f, k) <= Lo(f, j) /\ Hi(f, k + 1) <= Lo(f, j + 1) /\ Hi(f, k) <= Lo(f, j + 1)
      BY <1>1, <2>2, <3>1
    <3>3. k \in Int /\ j \in Int /\ i \in Int
      BY <3>1
    <3>4. CASE j < i
      BY <1>3, <2>2, <3>2, <3>3, <3>4
    <3>5. CASE ~(j < i)
      BY <1>3, <2>2, <3>2, <3>3, <3>5
    <3> QED  BY <3>4, <3>5
  <2> QED  BY <1>2, <2>1, <2>2, FreeListFrom
<1>5. \A x : /\ x \in UnitsIn(f) <=> x \in Int /\ \E k \in 1 .. Len(f) : Lo(f, k) <= x /\ x < Hi(f, k)
             /\ x \in UnitsIn(r) <=> x \in Int /\ \E k \in 1 .. Len(r) : Lo(r, k) <= x /\ x < Hi(r, k)
  BY <1>4, InUnits
<1>6. ASSUME NEW x \in UnitsIn(r)
      PROVE  x \in UnitsIn(f) /\ ~(Lo(f, i) <= x /\ x < Hi(f, i))
  <2>1. PICK k \in 1 .. Len(r) : x \in Int /\ Lo(r, k) <= x /\ x < Hi(r, k)
    BY <1>5
  <2>2. CASE k < i
    <3>1. k \in 1 .. Len(f) /\ Lo(f, k) <= x /\ x < Hi(f, k)
      BY <1>3, <2>1, <2>2
    <3>2. Hi(f, k) <= Lo(f, i)
      BY <1>1, <2>2, <3>1
    <3> QED  BY <1>1, <1>5, <2>1, <3>1, <3>2
  <2>3. CASE ~(k < i)
    <3>1. k + 1 \in 1 .. Len(f) /\ Lo(f, k + 1) <= x /\ x < Hi(f, k + 1)
      BY <1>3, <2>1, <2>3
    <3>2. i < k + 1
      BY <1>1, <1>3, <2>3
    <3>3. Hi(f, i) <= Lo(f, k + 1)
      BY <1>1, <3>1, <3>2
    <3> QED  BY <1>1, <1>5, <2>1, <3>1, <3>3
  <2> QED  BY <2>2, <2>3
<1>7. ASSUME NEW x \in UnitsIn(f), ~(Lo(f, i) <= x /\ x < Hi(f, i))
      PROVE  x \in UnitsIn(r)
  <2>1. PICK k \in 1 .. Len(f) : x \in Int /\ Lo(f, k) <= x /\ x < Hi(f, k)
    BY <1>5
  <2>2. CASE k < i
    <3>1. k \in 1 .. Len(r)
      BY <1>1, <1>2, <2>2
    <3> QED  BY <1>3, <1>5, <2>1, <2>2, <3>1
  <2>3. CASE k > i
    <3>1. k - 1 \in 1 .. Len(r) /\ ~(k - 1 < i) /\ (k - 1) + 1 = k
      BY <1>1, <1>2, <2>3
    <3> QED  BY <1>3, <1>5, <2>1, <3>1
  <2>4. k # i
    BY <1>7, <2>1
  <2>5. k < i \/ k > i
    BY <1>1, <2>4
  <2> QED  BY <2>2, <2>3, <2>5
<1> QED  BY <1>2, <1>4, <1>6, <1>7 DEF r

\* A block of a free list that begins and ends elsewhere, apart from the others.
LEMMA OtherUnits ==
  ASSUME NEW f, FreeList(f), NEW i \in 1 .. Len(f), NEW u \in 1 .. HeapSize,
         f[i].at + u <= HeapSize, \A j \in 1 .. Len(f) : i < j => f[i].at + u <= Lo(f, j),
         NEW r, r = [f EXCEPT ![i].units = u]
  PROVE  /\ FreeList(r)
         /\ \A x : x \in UnitsIn(r)
                  <=> \/ x \in UnitsIn(f) /\ ~(Lo(f, i) <= x /\ x < Hi(f, i))
                      \/ x \in UnitsOf(f[i].at, u)
<1>1. /\ f \in Seq(FreeBlock) /\ Len(f) \in Nat
      /\ \A k \in 1 .. Len(f) : /\ Lo(f, k) \in Int /\ Hi(f, k) \in Int
                              /\ Lo(f, k) < Hi(f, k) /\ Hi(f, k) <= HeapSize
      /\ \A k, j \in 1 .. Len(f) : k < j => Hi(f, k) <= Lo(f, j)
      /\ f[i] \in FreeBlock /\ f[i].at = Lo(f, i)
  BY FreeListIs DEF Lo
<1>2. r \in Seq(FreeBlock) /\ Len(r) = Len(f)
      /\ \A k \in 1 .. Len(f) : r[k] = IF k = i THEN [f[i] EXCEPT !.units = u] ELSE f[k]
  <2> DEFINE e == [f[i] EXCEPT !.units = u]
  <2>1. e \in FreeBlock
    BY <1>1 DEF FreeBlock
  <2>2. r = [f EXCEPT ![i] = e]
    OBVIOUS
  <2> HIDE DEF e
  <2> DEFINE t == [f EXCEPT ![i] = e]
  <2>3. t \in Seq(FreeBlock) /\ Len(t) = Len(f)
        /\ \A k \in 1 .. Len(f) : t[k] = IF k = i THEN e ELSE f[k]
    BY <1>1, <2>1, ExceptSeq
  <2>4. r = t
    BY <2>2
  <2> HIDE DEF t
  <2> QED  BY <2>3, <2>4 DEF e
<1>3. /\ Lo(r, i) = Lo(f, i) /\ Hi(r, i) = Lo(f, i) + u
      /\ \A k \in 1 .. Len(f) : k # i => Lo(r, k) = Lo(f, k) /\ Hi(r, k) = Hi(f, k)
  BY <1>1, <1>2 DEF Lo, Hi, FreeBlock
<1>4. FreeList(r)
  <2>1. ASSUME NEW k \in 1 .. Len(r) PROVE Hi(r, k) <= HeapSize
    BY <1>1, <1>2, <1>3
  <2>2. ASSUME NEW k \in 1 .. Len(r), NEW j \in 1 .. Len(r), k < j
        PROVE  Hi(r, k) <= Lo(r, j)
    <3>1. CASE k = i
      BY <1>1, <1>2, <1>3, <2>2, <3>1
    <3>2. CASE k # i
      BY <1>1, <1>2, <1>3, <2>2, <3>2
    <3> QED  BY <3>1, <3>2
  <2> QED  BY <1>2, <2>1, <2>2, FreeListFrom
<1>5. \A x : /\ x \in UnitsIn(f) <=> x \in Int /\ \E k \in 1 .. Len(f) : Lo(f, k) <= x /\ x < Hi(f, k)
             /\ x \in UnitsIn(r) <=> x \in Int /\ \E k \in 1 .. Len(f) : Lo(r, k) <= x /\ x < Hi(r, k)
             /\ x \in UnitsOf(f[i].at, u) <=> x \in Int /\ Lo(f, i) <= x /\ x < Lo(f, i) + u
  <2> TAKE x
  <2>1. x \in UnitsIn(f) <=> x \in Int /\ \E k \in 1 .. Len(f) : Lo(f, k) <= x /\ x < Hi(f, k)
    BY InUnits
  <2>2. x \in UnitsIn(r) <=> x \in Int /\ \E k \in 1 .. Len(f) : Lo(r, k) <= x /\ x < Hi(r, k)
    BY <1>2, <1>4, InUnits
  <2>3. Lo(f, i) \in Int /\ u \in Int
    BY <1>1
  <2>4. x \in UnitsOf(f[i].at, u) <=> x \in Int /\ Lo(f, i) <= x /\ x < Lo(f, i) + u
    BY <1>1, <2>3, InUnitsOf
  <2> QED  BY <2>1, <2>2, <2>4
<1>6. ASSUME NEW x \in UnitsIn(r), x \notin UnitsOf(f[i].at, u)
      PROVE  x \in UnitsIn(f) /\ ~(Lo(f, i) <= x /\ x < Hi(f, i))
  <2>1. PICK k \in 1 .. Len(f) : x \in Int /\ Lo(r, k) <= x /\ x < Hi(r, k)
    BY <1>5
  <2>2. k # i
    BY <1>3, <1>5, <1>6, <2>1
  <2>3. Lo(f, k) <= x /\ x < Hi(f, k)
    BY <1>3, <2>1, <2>2
  <2>4. k < i \/ i < k
    BY <1>1, <2>2
  <2> QED  BY <1>1, <1>5, <2>1, <2>3, <2>4
<1>7. ASSUME NEW x \in UnitsIn(f), ~(Lo(f, i) <= x /\ x < Hi(f, i))
      PROVE  x \in UnitsIn(r)
  <2>1. PICK k \in 1 .. Len(f) : x \in Int /\ Lo(f, k) <= x /\ x < Hi(f, k)
    BY <1>5
  <2> QED  BY <1>3, <1>5, <1>7, <2>1
<1>8. ASSUME NEW x \in UnitsOf(f[i].at, u)
      PROVE  x \in UnitsIn(r)
  BY <1>3, <1>5, <1>8
<1> QED  BY <1>4, <1>6, <1>7, <1>8

\* Where the last n units of a block begin.
EndOf(b, n) == b.at + b.units - n

\* What is taken out of a free block.
LEMMA TakenIs ==
  ASSUME NEW h, FreeList(h.free), NEW i \in 1 .. Len(h.free), NEW n \in 1 .. h.free[i].units
  PROVE  /\ FreeList(Taken(h, i, n)) /\ EndOf(h.free[i], n) \in UnitsIn(h.free)
         /\ UnitsIn(Taken(h, i, n)) = UnitsIn(h.free) \ UnitsOf(EndOf(h.free[i], n), n)
         /\ UnitsOf(EndOf(h.free[i], n), n) \subseteq UnitsIn(h.free)
         /\ n \in 1 .. HeapSize /\ EndOf(h.free[i], n) + n <= HeapSize
<1>1. PICK f, a : f = h.free /\ a = EndOf(f[i], n)
  OBVIOUS
<1>2. /\ f \in Seq(FreeBlock) /\ Len(f) \in Nat /\ f[i] \in FreeBlock /\ i \in 1 .. Len(f)
      /\ \A k \in 1 .. Len(f) : /\ Lo(f, k) \in Int /\ Hi(f, k) \in Int
                              /\ Lo(f, k) < Hi(f, k) /\ Hi(f, k) <= HeapSize /\ 0 <= Lo(f, k)
      /\ \A k, j \in 1 .. Len(f) : k < j => Hi(f, k) <= Lo(f, j)
  BY <1>1, FreeListIs
<1>3. /\ f[i].at \in Int /\ f[i].units \in Int /\ f[i].units > 0 /\ f[i].units <= HeapSize
      /\ Lo(f, i) = f[i].at /\ Hi(f, i) = f[i].at + f[i].units
  BY <1>2, FreeBlockIs, HeapNumbers DEF Lo, Hi
<1>4. /\ a \in Int /\ n \in Int /\ n > 0 /\ a >= Lo(f, i) /\ a + n = Hi(f, i) /\ n <= f[i].units
      /\ n \in 1 .. HeapSize /\ a + n <= HeapSize /\ a = f[i].at + f[i].units - n
  <2>1. PICK lo, un : lo = f[i].at /\ un = f[i].units
    OBVIOUS
  <2>2. /\ lo \in Int /\ un \in Int /\ un > 0 /\ un <= HeapSize /\ HeapSize \in Int
        /\ Lo(f, i) = lo /\ Hi(f, i) = lo + un /\ lo + un <= HeapSize
    BY <1>2, <1>3, <2>1, HeapNumbers
  <2>3. a = lo + un - n /\ n \in 1 .. un
    BY <1>1, <2>1 DEF EndOf
  <2>4. /\ a \in Int /\ n \in Int /\ n > 0 /\ a >= lo /\ a + n = lo + un /\ n <= un
        /\ n \in 1 .. HeapSize /\ a + n <= HeapSize
    BY ONLY <2>2, <2>3
  <2> QED  BY <2>1, <2>2, <2>3, <2>4
<1>5. \A x : x \in UnitsOf(a, n) <=> x \in Int /\ a <= x /\ x < Hi(f, i)
  BY <1>4, InUnitsOf
<1>6. \A x : x \in UnitsIn(f) <=> x \in Int /\ \E k \in 1 .. Len(f) : Lo(f, k) <= x /\ x < Hi(f, k)
  <2> TAKE x
  <2> QED  BY <1>1, InUnits
<1>7. UnitsOf(a, n) \subseteq UnitsIn(f) /\ a \in UnitsIn(f)
  <2>1. ASSUME NEW x \in UnitsOf(a, n) PROVE x \in UnitsIn(f)
    <3>1. x \in Int /\ Lo(f, i) <= x /\ x < Hi(f, i)
      BY <1>2, <1>4, <1>5
    <3> QED  BY <1>2, <1>6, <3>1
  <2>2. a \in UnitsOf(a, n)
    BY <1>4, <1>5
  <2> QED  BY <2>1, <2>2
<1>8. CASE f[i].units = n
  <2>1. Taken(h, i, n) = RemoveAt(f, i) /\ a = Lo(f, i)
    BY <1>1, <1>3, <1>4, <1>8 DEF Taken
  <2>2. FreeList(RemoveAt(f, i))
        /\ \A x : x \in UnitsIn(RemoveAt(f, i))
                <=> x \in UnitsIn(f) /\ ~(Lo(f, i) <= x /\ x < Hi(f, i))
    BY <1>1, <1>2, WithoutFree
  <2>3. UnitsIn(RemoveAt(f, i)) = UnitsIn(f) \ UnitsOf(a, n)
    BY <1>5, <1>6, <2>1, <2>2
  <2> QED  BY <1>1, <1>4, <1>7, <2>1, <2>2, <2>3
<1>9. CASE f[i].units # n
  <2>1. PICK u : u = f[i].units - n
    OBVIOUS
  <2>2. Taken(h, i, n) = [f EXCEPT ![i].units = u]
    BY <1>1, <1>9, <2>1 DEF Taken
  <2>3. u \in Int /\ u > 0 /\ u <= HeapSize /\ f[i].at + u = a /\ f[i].at + u <= HeapSize /\ a < Hi(f, i)
    <3>1. PICK lo, un : lo = f[i].at /\ un = f[i].units
      OBVIOUS
    <3>2. lo \in Int /\ un \in Int /\ un <= HeapSize /\ Hi(f, i) = lo + un /\ a = lo + un - n /\ u = un - n
          /\ un # n /\ n <= un /\ n > 0 /\ n \in Int /\ a \in Int /\ a + n <= HeapSize /\ HeapSize \in Int
      BY <1>3, <1>4, <1>9, <2>1, <3>1, HeapNumbers
    <3>3. u \in Int /\ u > 0 /\ u <= HeapSize /\ lo + u = a /\ lo + u <= HeapSize /\ a < lo + un
      BY <3>2
    <3> QED  BY <3>1, <3>2, <3>3
  <2>4. \A j \in 1 .. Len(f) : i < j => f[i].at + u <= Lo(f, j)
    <3> TAKE j \in 1 .. Len(f)
    <3> HAVE i < j
    <3>1. Hi(f, i) <= Lo(f, j) /\ Lo(f, j) \in Int /\ Hi(f, i) \in Int
      BY <1>2
    <3> QED  BY <1>4, <2>3, <3>1
  <2>5. PICK r : r = [f EXCEPT ![i].units = u]
    OBVIOUS
  <2>6. FreeList(r)
        /\ \A x : x \in UnitsIn(r)
                <=> \/ x \in UnitsIn(f) /\ ~(Lo(f, i) <= x /\ x < Hi(f, i))
                    \/ x \in UnitsOf(f[i].at, u)
    <3>1. u \in 1 .. HeapSize /\ FreeList(f) /\ f[i].at + u <= HeapSize
      BY <1>1, <2>3, HeapNumbers
    <3> QED  BY <1>2, <2>4, <2>5, <3>1, OtherUnits
  <2>7. \A x : x \in UnitsOf(f[i].at, u) <=> x \in Int /\ Lo(f, i) <= x /\ x < a
    <3>1. u \in Int
      BY <2>3
    <3> QED  BY <1>3, <2>3, <3>1, InUnitsOf
  <2>8. ASSUME NEW x \in UnitsIn(r) PROVE x \in UnitsIn(f) /\ x \notin UnitsOf(a, n)
    <3>1. CASE x \in UnitsIn(f) /\ ~(Lo(f, i) <= x /\ x < Hi(f, i))
      <4>1. x \in Int /\ Lo(f, i) \in Int
        BY <1>2, <1>6, <3>1
      <4>2. ~(a <= x /\ x < Hi(f, i))
        BY <1>4, <3>1, <4>1
      <4> QED  BY <1>5, <3>1, <4>2
    <3>2. CASE x \in UnitsOf(f[i].at, u)
      <4>1. x \in Int /\ Lo(f, i) <= x /\ x < a
        BY <2>7, <3>2
      <4>2. x < Hi(f, i) /\ ~(a <= x)
        BY <1>2, <1>4, <2>3, <4>1
      <4> QED  BY <1>2, <1>5, <1>6, <4>1, <4>2
    <3> QED  BY <2>6, <2>8, <3>1, <3>2
  <2>9. ASSUME NEW x \in UnitsIn(f), x \notin UnitsOf(a, n) PROVE x \in UnitsIn(r)
    <3>1. x \in Int
      BY <1>6
    <3>2. ~(a <= x /\ x < Hi(f, i))
      BY <1>5, <2>9, <3>1
    <3>3. x < a \/ ~(x < Hi(f, i))
      BY <1>4, <3>1, <3>2
    <3>4. CASE Lo(f, i) <= x /\ x < Hi(f, i)
      BY <2>6, <2>7, <3>1, <3>3, <3>4
    <3> QED  BY <2>6, <3>4
  <2>10. UnitsIn(r) = UnitsIn(f) \ UnitsOf(a, n)
    BY <2>8, <2>9
  <2> QED  BY <1>1, <1>4, <1>7, <2>2, <2>5, <2>6, <2>10
<1> QED  BY <1>8, <1>9

\* Where a freed block belongs.
LEMMA BeforeIs ==
  ASSUME NEW f, FreeList(f), NEW a \in Address, NEW n \in 1 .. HeapSize, a + n <= HeapSize,
         UnitsOf(a, n) \cap UnitsIn(f) = {}
  PROVE  Before(f, a) \in 0 .. Len(f) /\ Gap(f, Before(f, a), a, n)
<1>1. /\ Len(f) \in Nat /\ DOMAIN f = 1 .. Len(f)
      /\ \A k \in 1 .. Len(f) : /\ Lo(f, k) \in Int /\ Hi(f, k) \in Int /\ 0 <= Lo(f, k)
                              /\ Lo(f, k) < Hi(f, k) /\ Hi(f, k) <= HeapSize
      /\ \A k, j \in 1 .. Len(f) : k < j => Hi(f, k) <= Lo(f, j)
  BY FreeListIs
<1>2. a \in Int /\ n \in Int /\ n > 0 /\ HeapSize \in Int
  BY HeapNumbers DEF Address
<1> DEFINE S == {k \in 0 .. Len(f) : \A i \in 1 .. Len(f) : Lo(f, i) < a => i <= k}
           Is(k) == \A i \in 1 .. Len(f) : Lo(f, i) < a <=> i <= k
<1>3. \E k \in 0 .. Len(f) : Is(k)
  <2>1. Len(f) \in S /\ S \in SUBSET Nat /\ S # {}
    BY <1>1
  <2>2. PICK k \in S : \A y \in S : k <= y
    <3> HIDE DEF S
    <3> QED  BY <2>1, MinIsLeast
  <2> HIDE DEF S
  <2>3. k \in 0 .. Len(f) /\ \A i \in 1 .. Len(f) : Lo(f, i) < a => i <= k
    BY <2>2 DEF S
  <2>4. ASSUME NEW i \in 1 .. Len(f), i <= k, ~(Lo(f, i) < a)
        PROVE  FALSE
    <3>1. i - 1 \in 0 .. Len(f) /\ ~(k <= i - 1)
      BY <1>1, <2>3, <2>4
    <3>2. ASSUME NEW j \in 1 .. Len(f), Lo(f, j) < a PROVE j <= i - 1
      <4>1. j # i /\ j \in Int /\ i \in Int
        BY <2>4, <3>2
      <4>2. CASE i < j
        BY <1>1, <1>2, <2>4, <3>2, <4>2
      <4> QED  BY <4>1, <4>2
    <3>3. i - 1 \in S
      BY <3>1, <3>2 DEF S
    <3> QED  BY <2>2, <3>1, <3>3
  <2> QED  BY <2>3, <2>4
<1>4. Before(f, a) = CHOOSE k \in 0 .. Len(f) : Is(k)
  BY <1>1 DEF Before, Lo
<1>5. PICK k : k = Before(f, a)
  OBVIOUS
<1>6. k \in 0 .. Len(f) /\ \A i \in 1 .. Len(f) : Lo(f, i) < a <=> i <= k
  BY <1>3, <1>4, <1>5
<1> HIDE DEF S, Is
<1>7. \A x : /\ x \in UnitsIn(f) <=> x \in Int /\ \E i \in 1 .. Len(f) : Lo(f, i) <= x /\ x < Hi(f, i)
             /\ x \in UnitsOf(a, n) <=> x \in Int /\ a <= x /\ x < a + n
  <2> TAKE x
  <2> QED  BY <1>2, InUnits, InUnitsOf
<1>8. ASSUME NEW i \in 1 .. Len(f), i <= k PROVE Hi(f, i) <= a
  <2>1. Lo(f, i) < a
    BY <1>6, <1>8
  <2>2. a \in UnitsOf(a, n)
    BY <1>2, <1>7
  <2>3. a \notin UnitsIn(f)
    BY <2>2
  <2>4. Lo(f, i) \in Int /\ Hi(f, i) \in Int /\ Lo(f, i) <= a
    BY <1>1, <1>2, <2>1
  <2>5. ~(a < Hi(f, i))
    BY <1>2, <1>7, <2>3, <2>4
  <2> QED  BY <1>2, <2>4, <2>5
<1>9. ASSUME NEW i \in 1 .. Len(f), ~(i <= k) PROVE a + n <= Lo(f, i)
  <2>1. ~(Lo(f, i) < a)
    BY <1>6, <1>9
  <2>2. Lo(f, i) \in UnitsIn(f)
    BY <1>1, <1>7
  <2>3. Lo(f, i) \notin UnitsOf(a, n)
    BY <2>2
  <2> QED  BY <1>1, <1>2, <1>7, <2>1, <2>3
<1> QED  BY <1>1, <1>5, <1>6, <1>8, <1>9 DEF Gap, Lo, Hi

\* What lies around a gap, in numbers.
LEMMA GapIs ==
  ASSUME NEW f, FreeList(f), NEW k, NEW a, NEW n, Gap(f, k, a, n)
  PROVE  /\ a \in Int /\ 0 <= a /\ a < HeapSize /\ n \in Int /\ n > 0 /\ n <= HeapSize
         /\ a + n <= HeapSize /\ k \in 0 .. Len(f) /\ k \in Int /\ HeapSize \in Int
         /\ \A i \in 1 .. Len(f) : i <= k => Hi(f, i) <= a
         /\ \A i \in 1 .. Len(f) : ~(i <= k) => a + n <= Lo(f, i)
<1>1. Len(f) \in Nat /\ DOMAIN f = 1 .. Len(f)
  BY FreeListIs
<1> QED  BY <1>1, HeapNumbers DEF Gap, Lo, Hi, Address

\* The right neighbour is merged into the freed block.
LEMMA RightMerged ==
  ASSUME NEW f, FreeList(f), NEW k, NEW a, NEW n, Gap(f, k, a, n), k < Len(f), a + n = f[k + 1].at,
         NEW m, m = n + f[k + 1].units
  PROVE  /\ FreeList(RemoveAt(f, k + 1)) /\ Gap(RemoveAt(f, k + 1), k, a, m)
         /\ \A i \in 1 .. k : RemoveAt(f, k + 1)[i] = f[i]
         /\ UnitsIn(RemoveAt(f, k + 1)) \cup UnitsOf(a, m) = UnitsIn(f) \cup UnitsOf(a, n)
<1> DEFINE r == RemoveAt(f, k + 1)
<1>1. /\ f \in Seq(FreeBlock) /\ Len(f) \in Nat
      /\ \A i \in 1 .. Len(f) : /\ Lo(f, i) \in Int /\ Hi(f, i) \in Int /\ f[i] \in FreeBlock
                              /\ Lo(f, i) < Hi(f, i) /\ Hi(f, i) <= HeapSize
      /\ \A i, j \in 1 .. Len(f) : i < j => Hi(f, i) <= Lo(f, j)
  BY FreeListIs
<1>2. /\ a \in Int /\ 0 <= a /\ a < HeapSize /\ n \in Int /\ n > 0 /\ n <= HeapSize
      /\ a + n <= HeapSize /\ k \in 0 .. Len(f) /\ k \in Int /\ HeapSize \in Int
      /\ \A i \in 1 .. Len(f) : i <= k => Hi(f, i) <= a
      /\ \A i \in 1 .. Len(f) : ~(i <= k) => a + n <= Lo(f, i)
  BY GapIs
<1>3. k + 1 \in 1 .. Len(f)
  BY <1>1, <1>2
<1>4. /\ FreeList(r) /\ Len(r) = Len(f) - 1
      /\ \A i \in 1 .. Len(f) - 1 : r[i] = IF i < k + 1 THEN f[i] ELSE f[i + 1]
      /\ \A x : x \in UnitsIn(r) <=> x \in UnitsIn(f) /\ ~(Lo(f, k + 1) <= x /\ x < Hi(f, k + 1))
  BY <1>3, WithoutFree
<1> HIDE DEF r
<1>5. /\ Lo(f, k + 1) = a + n /\ Hi(f, k + 1) = a + m /\ m \in Int /\ m > n /\ a + m <= HeapSize
  <2>1. PICK u : u = f[k + 1].units
    OBVIOUS
  <2>2. u \in Int /\ u > 0
    BY <1>1, <1>3, <2>1, FreeBlockIs
  <2>3. Lo(f, k + 1) = a + n /\ Hi(f, k + 1) = a + n + u /\ m = n + u
    BY <2>1 DEF Lo, Hi
  <2>4. Hi(f, k + 1) <= HeapSize
    BY <1>1, <1>3
  <2> QED  BY <1>2, <2>2, <2>3, <2>4
<1>6. ASSUME NEW i \in 1 .. Len(r)
      PROVE  /\ i <= k => Hi(r, i) <= a
             /\ ~(i <= k) => a + m <= Lo(r, i)
  <2>1. i \in 1 .. Len(f) /\ i + 1 \in 1 .. Len(f) /\ i \in 1 .. Len(f) - 1 /\ i \in Int
    BY <1>1, <1>4
  <2>2. CASE i <= k
    <3>1. r[i] = f[i]
      BY <1>2, <1>4, <2>1, <2>2
    <3> QED  BY <1>2, <2>1, <2>2, <3>1 DEF Hi
  <2>3. CASE ~(i <= k)
    <3>1. r[i] = f[i + 1] /\ k + 1 < i + 1
      BY <1>2, <1>4, <2>1, <2>3
    <3>2. Hi(f, k + 1) <= Lo(f, i + 1)
      BY <1>1, <1>3, <2>1, <3>1
    <3> QED  BY <1>5, <2>3, <3>1, <3>2 DEF Lo
  <2> QED  BY <2>2, <2>3
<1>7. Gap(r, k, a, m)
  <2>1. k \in 0 .. Len(r) /\ a \in Address /\ m \in 1 .. HeapSize
    BY <1>1, <1>2, <1>4, <1>5 DEF Address
  <2>2. DOMAIN r = 1 .. Len(r)
    BY <1>4, FreeListIs
  <2> QED  BY <1>5, <1>6, <2>1, <2>2 DEF Gap, Lo, Hi
<1>8. \A i \in 1 .. k : r[i] = f[i]
  <2> TAKE i \in 1 .. k
  <2>1. i \in 1 .. Len(f) - 1 /\ i < k + 1
    BY <1>1, <1>2
  <2> QED  BY <1>4, <2>1
<1>9. UnitsIn(r) \cup UnitsOf(a, m) = UnitsIn(f) \cup UnitsOf(a, n)
  <2>1. \A x : /\ x \in UnitsOf(a, m) <=> x \in Int /\ a <= x /\ x < Hi(f, k + 1)
               /\ x \in UnitsOf(a, n) <=> x \in Int /\ a <= x /\ x < Lo(f, k + 1)
    BY <1>2, <1>5, InUnitsOf
  <2>2. \A x : x \in UnitsIn(f) => x \in Int
    BY InUnits
  <2>3. Lo(f, k + 1) \in Int /\ Hi(f, k + 1) \in Int /\ Lo(f, k + 1) < Hi(f, k + 1) /\ a < Lo(f, k + 1)
    BY <1>1, <1>2, <1>3, <1>5
  <2>4. ASSUME NEW x \in Int, Lo(f, k + 1) <= x, x < Hi(f, k + 1)
        PROVE  x \in UnitsIn(f)
    BY <1>3, <2>4, InUnits
  <2>5. ASSUME NEW x, x \in UnitsIn(r) \cup UnitsOf(a, m)
        PROVE  x \in UnitsIn(f) \cup UnitsOf(a, n)
    <3>1. CASE x \in UnitsIn(r)
      BY <1>4, <3>1
    <3>2. CASE x \in UnitsOf(a, m)
      <4>1. x \in Int /\ a <= x /\ x < Hi(f, k + 1)
        BY <2>1, <3>2
      <4> QED  BY <2>1, <2>3, <2>4, <4>1
    <3> QED  BY <2>5, <3>1, <3>2
  <2>6. ASSUME NEW x, x \in UnitsIn(f) \cup UnitsOf(a, n)
        PROVE  x \in UnitsIn(r) \cup UnitsOf(a, m)
    <3>1. CASE x \in UnitsIn(f)
      <4>1. CASE Lo(f, k + 1) <= x /\ x < Hi(f, k + 1)
        <5>1. x \in Int /\ a <= x
          BY <1>2, <2>2, <2>3, <3>1, <4>1
        <5> QED  BY <2>1, <4>1, <5>1
      <4> QED  BY <1>4, <3>1, <4>1
    <3>2. CASE x \in UnitsOf(a, n)
      <4>1. x \in Int /\ a <= x /\ x < Lo(f, k + 1)
        BY <2>1, <3>2
      <4>2. x < Hi(f, k + 1)
        BY <2>3, <4>1
      <4> QED  BY <2>1, <4>1, <4>2
    <3> QED  BY <2>6, <3>1, <3>2
  <2> QED  BY <2>5, <2>6
<1> QED  BY <1>4, <1>7, <1>8, <1>9 DEF r

\* The k-th free block with n units more.
Longer(f, k, n) == [f EXCEPT ![k].units = @ + n]

\* The freed block is merged into the left neighbour.
LEMMA LeftMerged ==
  ASSUME NEW f, FreeList(f), NEW k, NEW a, NEW n, Gap(f, k, a, n), k > 0, f[k].at + f[k].units = a
  PROVE  FreeList(Longer(f, k, n)) /\ UnitsIn(Longer(f, k, n)) = UnitsIn(f) \cup UnitsOf(a, n)
<1>0. PICK r : r = Longer(f, k, n)
  OBVIOUS
<1>1. /\ f \in Seq(FreeBlock) /\ Len(f) \in Nat
      /\ \A i \in 1 .. Len(f) : /\ Lo(f, i) \in Int /\ Hi(f, i) \in Int /\ f[i] \in FreeBlock
                              /\ Lo(f, i) < Hi(f, i) /\ Hi(f, i) <= HeapSize
  BY FreeListIs
<1>2. /\ a \in Int /\ n \in Int /\ n > 0 /\ a + n <= HeapSize /\ k \in 0 .. Len(f)
      /\ k \in Int /\ HeapSize \in Int
      /\ \A i \in 1 .. Len(f) : ~(i <= k) => a + n <= Lo(f, i)
  BY GapIs
<1>3. k \in 1 .. Len(f)
  BY <1>1, <1>2
<1>4. PICK lo, un, u : lo = f[k].at /\ un = f[k].units /\ u = un + n
  OBVIOUS
<1>5. lo \in Int /\ un \in Int /\ un > 0 /\ lo >= 0 /\ lo + un = a /\ lo = Lo(f, k) /\ a = Hi(f, k)
  BY <1>1, <1>3, <1>4, FreeBlockIs DEF Lo, Hi
<1>6. u \in Int /\ u > 0 /\ u <= HeapSize /\ lo + u = a + n /\ lo < a
  <2>1. /\ u = un + n /\ lo \in Int /\ un \in Int /\ un > 0 /\ lo >= 0 /\ lo + un = a
        /\ n \in Int /\ n > 0 /\ a + n <= HeapSize /\ HeapSize \in Int
    BY <1>2, <1>4, <1>5
  <2> QED  BY ONLY <2>1
<1>7. u \in 1 .. HeapSize /\ lo + u <= HeapSize /\ r = [f EXCEPT ![k].units = u]
      /\ \A j \in 1 .. Len(f) : k < j => lo + u <= Lo(f, j)
  <2>1. \A j \in 1 .. Len(f) : k < j => lo + u <= Lo(f, j)
    BY <1>2, <1>6
  <2>2. r = [f EXCEPT ![k].units = u]
    BY <1>0, <1>4 DEF Longer
  <2> QED  BY <1>2, <1>4, <1>6, <2>1, <2>2
<1>8. FreeList(r)
      /\ \A x : x \in UnitsIn(r)
              <=> \/ x \in UnitsIn(f) /\ ~(Lo(f, k) <= x /\ x < Hi(f, k))
                  \/ x \in UnitsOf(lo, u)
  <2>1. f[k].at + u <= HeapSize /\ \A j \in 1 .. Len(f) : k < j => f[k].at + u <= Lo(f, j)
    BY <1>4, <1>7
  <2>2. FreeList(r)
        /\ \A x : x \in UnitsIn(r)
                <=> \/ x \in UnitsIn(f) /\ ~(Lo(f, k) <= x /\ x < Hi(f, k))
                    \/ x \in UnitsOf(f[k].at, u)
    BY ONLY FreeList(f), <1>3, <1>7, <2>1, OtherUnits, Zenon
  <2> QED  BY <1>4, <2>2
<1>9. \A x : /\ x \in UnitsOf(lo, u) <=> x \in Int /\ lo <= x /\ x < a + n
             /\ x \in UnitsOf(a, n) <=> x \in Int /\ a <= x /\ x < a + n
  BY <1>2, <1>5, <1>6, InUnitsOf
<1>10. ASSUME NEW x \in Int, lo <= x, x < a
       PROVE  x \in UnitsIn(f)
  BY <1>3, <1>5, <1>10, InUnits
<1>11. \A x \in UnitsIn(f) : x \in Int
  BY InUnits
<1>12. ASSUME NEW x \in UnitsIn(r), x \notin UnitsIn(f) PROVE x \in UnitsOf(a, n)
  <2>1. x \in Int /\ lo <= x /\ x < a + n
    BY <1>8, <1>9, <1>12
  <2>2. ~(x < a)
    BY <1>10, <1>12, <2>1
  <2> QED  BY <1>2, <1>9, <2>1, <2>2
<1>13. ASSUME NEW x \in UnitsIn(f) PROVE x \in UnitsIn(r)
  <2>1. CASE lo <= x /\ x < a
    <3>1. x \in Int /\ x < a + n
      BY <1>2, <1>11, <2>1
    <3> QED  BY <1>8, <1>9, <2>1, <3>1
  <2> QED  BY <1>5, <1>8, <2>1
<1>14. ASSUME NEW x \in UnitsOf(a, n) PROVE x \in UnitsIn(r)
  <2>1. x \in Int /\ a <= x /\ x < a + n
    BY <1>9
  <2>2. lo <= x
    BY <1>2, <1>5, <1>6, <2>1
  <2> QED  BY <1>8, <1>9, <2>1, <2>2
<1> QED  BY <1>0, <1>8, <1>12, <1>13, <1>14

\* The freed block becomes a block of the list.
LEMMA PutBetween ==
  ASSUME NEW f, FreeList(f), NEW k, NEW a, NEW n, Gap(f, k, a, n),
         NEW b, b = [at |-> a, units |-> n]
  PROVE  /\ FreeList(InsertAt(f, k + 1, b))
         /\ UnitsIn(InsertAt(f, k + 1, b)) = UnitsIn(f) \cup UnitsOf(a, n)
<1> DEFINE r == InsertAt(f, k + 1, b)
<1>1. /\ f \in Seq(FreeBlock) /\ Len(f) \in Nat
      /\ \A i \in 1 .. Len(f) : /\ Lo(f, i) \in Int /\ Hi(f, i) \in Int
                              /\ Lo(f, i) < Hi(f, i) /\ Hi(f, i) <= HeapSize
      /\ \A i, j \in 1 .. Len(f) : i < j => Hi(f, i) <= Lo(f, j)
  BY FreeListIs
<1>2. /\ a \in Int /\ 0 <= a /\ a < HeapSize /\ n \in Int /\ n > 0 /\ n <= HeapSize
      /\ a + n <= HeapSize /\ k \in 0 .. Len(f) /\ k \in Int /\ HeapSize \in Int
      /\ \A i \in 1 .. Len(f) : i <= k => Hi(f, i) <= a
      /\ \A i \in 1 .. Len(f) : ~(i <= k) => a + n <= Lo(f, i)
  BY GapIs
<1>3. b \in FreeBlock /\ k + 1 \in 1 .. Len(f) + 1
  BY <1>1, <1>2 DEF FreeBlock, Address
<1>4. /\ r \in Seq(FreeBlock) /\ Len(r) = Len(f) + 1
      /\ \A i \in 1 .. Len(f) + 1 :
           r[i] = IF i < k + 1 THEN f[i] ELSE IF i = k + 1 THEN b ELSE f[i - 1]
  <2>1. PICK j : j = k + 1
    OBVIOUS
  <2>2. /\ InsertAt(f, j, b) \in Seq(FreeBlock) /\ Len(InsertAt(f, j, b)) = Len(f) + 1
        /\ \A i \in 1 .. Len(f) + 1 :
             InsertAt(f, j, b)[i] = IF i < j THEN f[i] ELSE IF i = j THEN b ELSE f[i - 1]
    <3>1. j \in 1 .. Len(f) + 1 /\ f \in Seq(FreeBlock) /\ b \in FreeBlock
      BY <1>1, <1>3, <2>1
    <3>2. LongerAt(InsertAt(f, j, b), f, j, b, FreeBlock)
      BY ONLY <3>1, InsertAtIs
    <3> QED  BY ONLY <3>2 DEF LongerAt
  <2> QED  BY <2>1, <2>2
<1> HIDE DEF r
<1>5. Lo(r, k + 1) = a /\ Hi(r, k + 1) = a + n
  <2>1. r[k + 1] = b
    BY <1>2, <1>3, <1>4
  <2> QED  BY <2>1 DEF Lo, Hi
<1>6. ASSUME NEW i \in 1 .. Len(r)
      PROVE  /\ i \in Int
             /\ i <= k => i \in 1 .. Len(f) /\ Lo(r, i) = Lo(f, i) /\ Hi(r, i) = Hi(f, i)
             /\ i > k + 1 => /\ i - 1 \in 1 .. Len(f) /\ ~(i - 1 <= k)
                             /\ Lo(r, i) = Lo(f, i - 1) /\ Hi(r, i) = Hi(f, i - 1)
  <2>1. i \in 1 .. Len(f) + 1 /\ i \in Int
    BY <1>1, <1>4
  <2>2. r[i] = IF i < k + 1 THEN f[i] ELSE IF i = k + 1 THEN b ELSE f[i - 1]
    BY <1>4, <2>1
  <2>3. ASSUME i <= k
        PROVE  i \in 1 .. Len(f) /\ Lo(r, i) = Lo(f, i) /\ Hi(r, i) = Hi(f, i)
    <3>1. i < k + 1 /\ i \in 1 .. Len(f)
      BY <1>1, <1>2, <2>1, <2>3
    <3> QED  BY <2>2, <3>1 DEF Lo, Hi
  <2>4. ASSUME i > k + 1
        PROVE  i - 1 \in 1 .. Len(f) /\ ~(i - 1 <= k) /\ Lo(r, i) = Lo(f, i - 1) /\ Hi(r, i) = Hi(f, i - 1)
    <3>1. ~(i < k + 1) /\ i # k + 1 /\ i - 1 \in 1 .. Len(f) /\ ~(i - 1 <= k)
      BY <1>1, <1>2, <2>1, <2>4
    <3>2. r[i] = f[i - 1]
      BY <2>2, <3>1
    <3> QED  BY <3>1, <3>2 DEF Lo, Hi
  <2> QED  BY <2>1, <2>3, <2>4
<1>7. FreeList(r)
  <2>1. ASSUME NEW i \in 1 .. Len(r) PROVE Hi(r, i) <= HeapSize
    <3>1. CASE i <= k
      BY <1>1, <1>6, <3>1
    <3>2. CASE i = k + 1
      BY <1>2, <1>5, <3>2
    <3>3. CASE i > k + 1
      BY <1>1, <1>6, <3>3
    <3> QED  BY <1>2, <1>6, <3>1, <3>2, <3>3
  <2>2. ASSUME NEW i \in 1 .. Len(r), NEW j \in 1 .. Len(r), i < j
        PROVE  Hi(r, i) <= Lo(r, j)
    <3>0. i \in Int /\ j \in Int
      BY <1>6
    <3>1. CASE j <= k
      <4>1. i <= k
        BY <1>2, <2>2, <3>0, <3>1
      <4> QED  BY <1>1, <1>6, <2>2, <3>1, <4>1
    <3>2. CASE j = k + 1
      <4>1. i <= k
        BY <1>2, <2>2, <3>0, <3>2
      <4> QED  BY <1>2, <1>5, <1>6, <3>2, <4>1
    <3>3. CASE j > k + 1
      <4>1. /\ j - 1 \in 1 .. Len(f) /\ ~(j - 1 <= k) /\ Lo(r, j) = Lo(f, j - 1)
            /\ a + n <= Lo(f, j - 1) /\ Lo(f, j - 1) \in Int
        BY <1>1, <1>2, <1>6, <3>3
      <4>2. CASE i <= k
        <5>1. i \in 1 .. Len(f) /\ Hi(r, i) = Hi(f, i) /\ i < j - 1
          BY <1>2, <1>6, <3>0, <3>3, <4>2
        <5> QED  BY <1>1, <4>1, <5>1
      <4>3. CASE i = k + 1
        BY <1>5, <4>1, <4>3
      <4>4. CASE i > k + 1
        <5>1. i - 1 \in 1 .. Len(f) /\ Hi(r, i) = Hi(f, i - 1) /\ i - 1 < j - 1
          BY <1>6, <2>2, <3>0, <4>4
        <5> QED  BY <1>1, <4>1, <5>1
      <4> QED  BY <1>2, <3>0, <4>2, <4>3, <4>4
    <3> QED  BY <1>2, <3>0, <3>1, <3>2, <3>3
  <2> QED  BY <1>4, <2>1, <2>2, FreeListFrom
<1>8. \A x : /\ x \in UnitsIn(f) <=> x \in Int /\ \E i \in 1 .. Len(f) : Lo(f, i) <= x /\ x < Hi(f, i)
             /\ x \in UnitsIn(r) <=> x \in Int /\ \E i \in 1 .. Len(r) : Lo(r, i) <= x /\ x < Hi(r, i)
             /\ x \in UnitsOf(a, n) <=> x \in Int /\ a <= x /\ x < a + n
  <2> TAKE x
  <2>1. x \in UnitsIn(f) <=> x \in Int /\ \E i \in 1 .. Len(f) : Lo(f, i) <= x /\ x < Hi(f, i)
    BY InUnits
  <2>2. x \in UnitsIn(r) <=> x \in Int /\ \E i \in 1 .. Len(r) : Lo(r, i) <= x /\ x < Hi(r, i)
    BY <1>7, InUnits
  <2> QED  BY <1>2, <2>1, <2>2, InUnitsOf
<1>9. ASSUME NEW x \in UnitsIn(r), x \notin UnitsOf(a, n) PROVE x \in UnitsIn(f)
  <2>1. PICK i \in 1 .. Len(r) : x \in Int /\ Lo(r, i) <= x /\ x < Hi(r, i)
    BY <1>8
  <2>2. i # k + 1
    BY <1>5, <1>8, <1>9, <2>1
  <2>3. CASE i <= k
    BY <1>6, <1>8, <2>1, <2>3
  <2>4. CASE i > k + 1
    BY <1>6, <1>8, <2>1, <2>4
  <2>5. i <= k \/ i > k + 1
    BY <1>2, <1>6, <2>2
  <2> QED  BY <2>3, <2>4, <2>5
<1>10. ASSUME NEW x \in UnitsIn(f) PROVE x \in UnitsIn(r)
  <2>1. PICK i \in 1 .. Len(f) : x \in Int /\ Lo(f, i) <= x /\ x < Hi(f, i)
    BY <1>8
  <2>2. CASE i <= k
    <3>1. i \in 1 .. Len(r)
      BY <1>1, <1>4
    <3> QED  BY <1>6, <1>8, <2>1, <2>2, <3>1
  <2>3. CASE ~(i <= k)
    <3>1. i + 1 \in 1 .. Len(r) /\ i + 1 > k + 1 /\ (i + 1) - 1 = i
      BY <1>1, <1>2, <1>4, <2>3
    <3>2. Lo(r, i + 1) = Lo(f, i) /\ Hi(r, i + 1) = Hi(f, i)
      BY <1>6, <3>1
    <3> QED  BY <1>8, <2>1, <3>1, <3>2
  <2> QED  BY <2>2, <2>3
<1>11. ASSUME NEW x \in UnitsOf(a, n) PROVE x \in UnitsIn(r)
  <2>1. k + 1 \in 1 .. Len(r)
    BY <1>3, <1>4
  <2> QED  BY <1>5, <1>8, <2>1
<1> QED  BY <1>7, <1>9, <1>10, <1>11 DEF r

\* A freed block goes into the list, merged with its neighbours or not.
LEMMA InsertedIs ==
  ASSUME NEW h, FreeList(h.free), NEW a \in Address, NEW n \in 1 .. HeapSize, a + n <= HeapSize,
         UnitsOf(a, n) \cap UnitsIn(h.free) = {}, NEW b, b = [at |-> a, units |-> n]
  PROVE  /\ FreeList(Inserted(h, b))
         /\ UnitsIn(Inserted(h, b)) = UnitsIn(h.free) \cup UnitsOf(a, n)
<1>1. PICK f, k : f = h.free /\ k = Before(f, a)
  OBVIOUS
<1>2. FreeList(f) /\ k \in 0 .. Len(f) /\ Gap(f, k, a, n) /\ Len(f) \in Nat
  BY <1>1, BeforeIs, FreeListIs
<1>3. b.at = a /\ b.units = n
  OBVIOUS
<1>4. Inserted(h, b) = IF k = 0 THEN InsertAt(f, 1, b) ELSE Joined(f, k, b)
  BY <1>1, <1>3 DEF Inserted
<1>5. CASE k = 0
  <2>1. FreeList(InsertAt(f, k + 1, b)) /\ UnitsIn(InsertAt(f, k + 1, b)) = UnitsIn(f) \cup UnitsOf(a, n)
    BY <1>2, PutBetween
  <2>2. k + 1 = 1
    BY <1>5
  <2> QED  BY <1>1, <1>4, <1>5, <2>1, <2>2
<1>6. CASE k # 0
  <2>1. k \in Int /\ k > 0 /\ k \in 1 .. Len(f)
    BY <1>2, <1>6
  <2>2. PICK right : right = (k < Len(f) /\ a + n = f[k + 1].at)
    OBVIOUS
  <2>3. PICK m : m = n + IF right THEN f[k + 1].units ELSE 0
    OBVIOUS
  <2>4. PICK r : r = IF right THEN RemoveAt(f, k + 1) ELSE f
    OBVIOUS
  <2>5. /\ FreeList(r) /\ Gap(r, k, a, m) /\ r[k] = f[k]
        /\ UnitsIn(r) \cup UnitsOf(a, m) = UnitsIn(f) \cup UnitsOf(a, n)
    <3>1. CASE right
      <4>1. k < Len(f) /\ a + n = f[k + 1].at /\ m = n + f[k + 1].units /\ r = RemoveAt(f, k + 1)
        BY <2>2, <2>3, <2>4, <3>1
      <4>2. k \in 1 .. k
        BY <2>1
      <4> QED  BY <1>2, <4>1, <4>2, RightMerged
    <3>2. CASE ~right
      <4>1. m = n /\ r = f
        BY <2>3, <2>4, <3>2
      <4> QED  BY <1>2, <4>1
    <3> QED  BY <3>1, <3>2
  <2>6. Inserted(h, b) = IF f[k].at + f[k].units = a THEN [r EXCEPT ![k].units = @ + m]
                         ELSE InsertAt(r, k + 1, [b EXCEPT !.units = m])
    <3>1. Joined(f, k, b) = IF f[k].at + f[k].units = a THEN [r EXCEPT ![k].units = @ + m]
                            ELSE InsertAt(r, k + 1, [b EXCEPT !.units = m])
      BY <1>3, <2>2, <2>3, <2>4, Zenon DEF Joined
    <3> QED  BY <1>4, <1>6, <3>1
  <2>7. CASE f[k].at + f[k].units = a
    <3>1. r[k].at + r[k].units = a
      BY <2>5, <2>7
    <3>2. FreeList(Longer(r, k, m)) /\ UnitsIn(Longer(r, k, m)) = UnitsIn(r) \cup UnitsOf(a, m)
      BY <2>1, <2>5, <3>1, LeftMerged
    <3>3. Inserted(h, b) = Longer(r, k, m)
      BY <2>6, <2>7 DEF Longer
    <3> QED  BY <1>1, <2>5, <3>2, <3>3
  <2>8. CASE ~(f[k].at + f[k].units = a)
    <3>1. PICK c : c = [b EXCEPT !.units = m]
      OBVIOUS
    <3>2. c = [at |-> a, units |-> m]
      BY <3>1
    <3>3. FreeList(InsertAt(r, k + 1, c)) /\ UnitsIn(InsertAt(r, k + 1, c)) = UnitsIn(r) \cup UnitsOf(a, m)
      BY <2>5, <3>2, PutBetween
    <3> QED  BY <1>1, <2>5, <2>6, <2>8, <3>1, <3>3
  <2> QED  BY <2>7, <2>8
<1> QED  BY <1>5, <1>6

-----------------------------------------------------------------------------
(* What blocks in use take                                                 *)

\* What one of them takes.
Piece(a, u) == {a} \X (1 .. u)

\* A block takes as many units as it says.
LEMMA CountPiece ==
  ASSUME NEW a, NEW u \in Nat
  PROVE  IsFiniteSet(Piece(a, u)) /\ Cardinality(Piece(a, u)) = u
<1>1. IsFiniteSet({a}) /\ Cardinality({a}) = 1
  BY FS_Singleton
<1>2. IsFiniteSet(1 .. u) /\ Cardinality(1 .. u) = u
  BY FS_Interval
<1>3. IsFiniteSet(Piece(a, u)) /\ Cardinality(Piece(a, u)) = 1 * u
  <2>1. PICK S, T : S = {a} /\ T = 1 .. u
    OBVIOUS
  <2>2. IsFiniteSet(S) /\ IsFiniteSet(T) /\ Cardinality(S) = 1 /\ Cardinality(T) = u
    BY <1>1, <1>2, <2>1
  <2>3. IsFiniteSet(S \X T) /\ Cardinality(S \X T) = Cardinality(S) * Cardinality(T)
    BY <2>2, FS_Product
  <2>4. Piece(a, u) = S \X T
    BY <2>1 DEF Piece
  <2> QED  BY <2>2, <2>3, <2>4
<1> QED  BY <1>3

\* Blocks at different addresses take different things.
LEMMA InPiece ==
  ASSUME NEW a, NEW u, NEW b, NEW v, NEW x, x \in Piece(a, u), x \in Piece(b, v)
  PROVE  a = b
BY DEF Piece

\* What is taken, and used, belongs to a block.
LEMMA InTaking ==
  ASSUME NEW hd, NEW x
  PROVE  /\ x \in TakingOf(hd) <=> \E a \in DOMAIN hd : x \in Piece(a, hd[a].units)
         /\ x \in UnitsUsed(hd) <=> \E a \in DOMAIN hd : x \in UnitsOf(a, hd[a].units)
BY DEF TakingOf, Piece, UnitsUsed

\* The headers with one more are what they were and that one.
More(hd, a, e) ==
  /\ Headers(With(hd, a, e)) /\ DOMAIN With(hd, a, e) = DOMAIN hd \cup {a}
  /\ With(hd, a, e)[a] = e /\ \A y \in DOMAIN hd : With(hd, a, e)[y] = hd[y]
  /\ TakingOf(With(hd, a, e)) = TakingOf(hd) \cup Piece(a, e.units)
  /\ TakingOf(hd) \cap Piece(a, e.units) = {}
  /\ UnitsUsed(With(hd, a, e)) = UnitsUsed(hd) \cup UnitsOf(a, e.units)

\* A new header leaves the others and what they take.
LEMMA OneMore ==
  ASSUME NEW hd, Headers(hd), NEW a \in Address, a \notin DOMAIN hd, NEW e \in Header
  PROVE  More(hd, a, e)
<1> DEFINE hd2 == With(hd, a, e)
           u == e.units
<1>1. DOMAIN hd2 = DOMAIN hd \cup {a} /\ hd2[a] = e /\ \A y \in DOMAIN hd : hd2[y] = hd[y]
  BY DEF With
<1>2. Headers(hd2)
  <2>1. hd2 = [y \in DOMAIN hd2 |-> hd2[y]]
    BY DEF With
  <2>2. \A y \in DOMAIN hd2 : hd2[y] \in Header
    BY <1>1 DEF Headers
  <2> QED  BY <1>1, <2>1, <2>2 DEF Headers
<1>3. \A x : /\ x \in TakingOf(hd) <=> \E y \in DOMAIN hd : x \in Piece(y, hd[y].units)
             /\ x \in TakingOf(hd2) <=> \E y \in DOMAIN hd2 : x \in Piece(y, hd2[y].units)
             /\ x \in UnitsUsed(hd) <=> \E y \in DOMAIN hd : x \in UnitsOf(y, hd[y].units)
             /\ x \in UnitsUsed(hd2) <=> \E y \in DOMAIN hd2 : x \in UnitsOf(y, hd2[y].units)
  BY InTaking
<1>4. TakingOf(hd2) = TakingOf(hd) \cup Piece(a, u) /\ UnitsUsed(hd2) = UnitsUsed(hd) \cup UnitsOf(a, u)
  BY <1>1, <1>3
<1>5. TakingOf(hd) \cap Piece(a, u) = {}
  BY <1>3, InPiece
<1> QED  BY <1>1, <1>2, <1>4, <1>5 DEF More

\* The headers but one.
Without(hd, a) == [y \in DOMAIN hd \ {a} |-> hd[y]]

\* A block less.
LEMMA OneLess ==
  ASSUME NEW hd, Headers(hd), NEW a \in DOMAIN hd
  PROVE  /\ Headers(Without(hd, a)) /\ DOMAIN Without(hd, a) = DOMAIN hd \ {a}
         /\ \A y \in DOMAIN hd \ {a} : Without(hd, a)[y] = hd[y]
         /\ a \in Address /\ hd[a].units \in 1 .. HeapSize
         /\ TakingOf(Without(hd, a)) = TakingOf(hd) \ Piece(a, hd[a].units)
         /\ Piece(a, hd[a].units) \subseteq TakingOf(hd)
         /\ UnitsUsed(hd) = UnitsUsed(Without(hd, a)) \cup UnitsOf(a, hd[a].units)
<1> DEFINE hd2 == Without(hd, a)
           u == hd[a].units
<1>1. /\ DOMAIN hd2 = DOMAIN hd \ {a} /\ \A y \in DOMAIN hd2 : hd2[y] = hd[y]
      /\ hd2 = [y \in DOMAIN hd2 |-> hd2[y]]
  BY DEF Without
<1>2. Headers(hd2) /\ a \in Address /\ u \in 1 .. HeapSize
  BY <1>1 DEF Headers, Header
<1>3. \A x : /\ x \in TakingOf(hd) <=> \E y \in DOMAIN hd : x \in Piece(y, hd[y].units)
             /\ x \in TakingOf(hd2) <=> \E y \in DOMAIN hd2 : x \in Piece(y, hd2[y].units)
             /\ x \in UnitsUsed(hd) <=> \E y \in DOMAIN hd : x \in UnitsOf(y, hd[y].units)
             /\ x \in UnitsUsed(hd2) <=> \E y \in DOMAIN hd2 : x \in UnitsOf(y, hd2[y].units)
  BY InTaking
<1>4. UnitsUsed(hd) = UnitsUsed(hd2) \cup UnitsOf(a, u) /\ Piece(a, u) \subseteq TakingOf(hd)
  BY <1>1, <1>3
<1>5. TakingOf(hd2) = TakingOf(hd) \ Piece(a, u)
  <2>1. ASSUME NEW x \in TakingOf(hd2) PROVE x \in TakingOf(hd) /\ x \notin Piece(a, u)
    BY <1>1, <1>3, <2>1, InPiece
  <2>2. ASSUME NEW x \in TakingOf(hd), x \notin Piece(a, u) PROVE x \in TakingOf(hd2)
    BY <1>1, <1>3, <2>2
  <2> QED  BY <2>1, <2>2
<1> QED  BY <1>1, <1>2, <1>4, <1>5

\* The count of what is taken goes with it.
LEMMA CountMore ==
  ASSUME NEW hd, Headers(hd), IsFiniteSet(TakingOf(hd)), NEW a \in Address, a \notin DOMAIN hd,
         NEW e \in Header
  PROVE  /\ IsFiniteSet(TakingOf(With(hd, a, e))) /\ Cardinality(TakingOf(hd)) \in Nat
         /\ Cardinality(TakingOf(With(hd, a, e))) = Cardinality(TakingOf(hd)) + e.units
<1>1. PICK u, hd2 : u = e.units /\ hd2 = With(hd, a, e)
  OBVIOUS
<1>2. u \in Nat
  BY <1>1, HeapNumbers DEF Header
<1>3. TakingOf(hd2) = TakingOf(hd) \cup Piece(a, u) /\ TakingOf(hd) \cap Piece(a, u) = {}
  <2>1. More(hd, a, e)
    BY OneMore
  <2> QED  BY <1>1, <2>1 DEF More
<1>4. IsFiniteSet(Piece(a, u)) /\ Cardinality(Piece(a, u)) = u
  BY <1>2, CountPiece
<1> QED  BY <1>1, <1>2, <1>3, <1>4, CountUnion, FS_CardinalityType

\* What was taken before a block was freed.
LEMMA CountLess ==
  ASSUME NEW hd, Headers(hd), IsFiniteSet(TakingOf(hd)), NEW a \in DOMAIN hd
  PROVE  /\ IsFiniteSet(TakingOf(Without(hd, a))) /\ Cardinality(TakingOf(Without(hd, a))) \in Nat
         /\ Cardinality(TakingOf(hd)) \in Nat
         /\ Cardinality(TakingOf(Without(hd, a))) = Cardinality(TakingOf(hd)) - hd[a].units
<1>1. PICK u, hd2 : u = hd[a].units /\ hd2 = Without(hd, a)
  OBVIOUS
<1>2. /\ u \in 1 .. HeapSize
      /\ TakingOf(hd2) = TakingOf(hd) \ Piece(a, u) /\ Piece(a, u) \subseteq TakingOf(hd)
  BY <1>1, OneLess
<1>3. u \in Nat
  BY <1>2, HeapNumbers
<1>4. Cardinality(Piece(a, u)) = u
  BY <1>3, CountPiece
<1> QED  BY <1>1, <1>2, <1>4, CountWithout

-----------------------------------------------------------------------------
(* Allocating and freeing                                                  *)

\* What a header is, in numbers.
LEMMA HeaderIs ==
  ASSUME NEW hd, Headers(hd), NEW a \in DOMAIN hd
  PROVE  /\ a \in Address /\ a \in Int /\ 0 <= a /\ hd[a] \in Header
         /\ hd[a].units \in Int /\ hd[a].units > 0 /\ hd[a].units \in 1 .. HeapSize
         /\ hd[a].valid \in BOOLEAN /\ HeapSize \in Int
BY HeapNumbers DEF Headers, Header, Address

\* Two blocks in use have no unit in common.
LEMMA UsedDisjoint ==
  ASSUME NEW hd, Headers(hd), UsedApart(hd), NEW a \in DOMAIN hd, NEW b \in DOMAIN hd, a # b
  PROVE  UnitsOf(a, hd[a].units) \cap UnitsOf(b, hd[b].units) = {}
<1>1. PICK u, v : u = hd[a].units /\ v = hd[b].units
  OBVIOUS
<1>2. a \in Int /\ b \in Int /\ u \in Int /\ v \in Int
  BY <1>1, HeaderIs
<1>3. (a < b => a + u <= b) /\ (b < a => b + v <= a)
  BY <1>1 DEF UsedApart
<1>4. a < b \/ b < a
  BY <1>2
<1>5. ASSUME NEW x \in UnitsOf(a, u), x \in UnitsOf(b, v) PROVE FALSE
  <2>1. x \in Int /\ a <= x /\ x < a + u /\ b <= x /\ x < b + v
    BY <1>2, <1>5, InUnitsOf
  <2> QED  BY <1>2, <1>3, <1>4, <2>1
<1> QED  BY <1>1, <1>5

\* LS_Free of a block whose magic number is there.
LEMMA FreeGives ==
  ASSUME NEW h, Sound(h), NEW a \in DOMAIN h.header, h.header[a].valid
  PROVE  /\ Sound(Free(h, a))
         /\ Free(h, a).header = Without(h.header, a)
<1>1. PICK hd, hd2, n, g, b : /\ hd = h.header /\ hd2 = Without(hd, a)
                              /\ n = hd[a].units /\ g = Free(h, a) /\ b = [at |-> a, units |-> n]
  OBVIOUS
<1>2. /\ h.free \in Seq(FreeBlock) /\ Headers(hd) /\ h.allocated \in 0 .. HeapSize
      /\ IsFiniteSet(TakingOf(hd)) /\ h.allocated = Cardinality(TakingOf(hd))
      /\ build \in Builds /\ (IF build = "internal" THEN Tiled(h) ELSE h.free = << >>)
  BY <1>1 DEF Sound
<1>3. g = [free |-> IF build = "internal" THEN Inserted(h, b) ELSE h.free,
           header |-> hd2, allocated |-> h.allocated - n]
  BY <1>1 DEF Free, Without
<1>4. /\ Headers(hd2) /\ DOMAIN hd2 = DOMAIN hd \ {a} /\ a \in Address /\ n \in 1 .. HeapSize
      /\ \A y \in DOMAIN hd2 : hd2[y] = hd[y]
      /\ UnitsUsed(hd) = UnitsUsed(hd2) \cup UnitsOf(a, n)
  <2>1. a \in DOMAIN hd
    BY <1>1
  <2>2. /\ Headers(Without(hd, a)) /\ DOMAIN Without(hd, a) = DOMAIN hd \ {a}
        /\ a \in Address /\ hd[a].units \in 1 .. HeapSize
        /\ \A y \in DOMAIN hd \ {a} : Without(hd, a)[y] = hd[y]
        /\ UnitsUsed(hd) = UnitsUsed(Without(hd, a)) \cup UnitsOf(a, hd[a].units)
    BY <1>2, <2>1, OneLess
  <2> QED  BY <1>1, <2>2
<1>5. /\ IsFiniteSet(TakingOf(hd2)) /\ Cardinality(TakingOf(hd2)) \in Nat
      /\ Cardinality(TakingOf(hd2)) = h.allocated - n
  BY <1>1, <1>2, CountLess
<1>6. n \in Int /\ n > 0 /\ h.allocated \in Int /\ h.allocated <= HeapSize /\ HeapSize \in Int
  BY <1>2, <1>4, HeapNumbers
<1>7. g.allocated \in 0 .. HeapSize /\ g.allocated = Cardinality(TakingOf(g.header))
  BY <1>3, <1>5, <1>6
<1>8. CASE build = "internal"
  <2>1. /\ FreeList(h.free) /\ UsedApart(hd)
        /\ UnitsIn(h.free) \cup UnitsUsed(hd) = Address
        /\ UnitsIn(h.free) \cap UnitsUsed(hd) = {}
        /\ h.allocated + Cardinality(UnitsIn(h.free)) = HeapSize
    BY <1>1, <1>2, <1>8 DEF Tiled
  <2>2. a + n <= HeapSize
    BY <1>1, <2>1 DEF UsedApart
  <2>3. UnitsOf(a, n) \cap UnitsIn(h.free) = {}
    BY <1>4, <2>1
  <2>4. /\ FreeList(Inserted(h, b)) /\ UnitsIn(Inserted(h, b)) = UnitsIn(h.free) \cup UnitsOf(a, n)
    BY <1>1, <1>4, <2>1, <2>2, <2>3, InsertedIs
  <2>5. g.free = Inserted(h, b) /\ g.header = hd2
    BY <1>3, <1>8
  <2>6. UnitsUsed(hd2) \cap UnitsOf(a, n) = {}
    <3>1. ASSUME NEW x \in UnitsUsed(hd2), x \in UnitsOf(a, n) PROVE FALSE
      <4>1. PICK y \in DOMAIN hd2 : x \in UnitsOf(y, hd2[y].units)
        BY <3>1, InTaking
      <4>2. y \in DOMAIN hd /\ y # a /\ x \in UnitsOf(y, hd[y].units)
        BY <1>4, <4>1
      <4>3. UnitsOf(y, hd[y].units) \cap UnitsOf(a, hd[a].units) = {}
        BY <1>1, <1>2, <2>1, <4>2, UsedDisjoint
      <4> QED  BY <1>1, <3>1, <4>2, <4>3
    <3> QED  BY <3>1
  <2>7. UsedApart(hd2)
    BY <1>4, <2>1 DEF UsedApart
  <2>8. Cardinality(UnitsIn(g.free)) = Cardinality(UnitsIn(h.free)) + n
        /\ Cardinality(UnitsIn(h.free)) \in Nat
    <3>1. IsFiniteSet(UnitsIn(h.free)) /\ Cardinality(UnitsIn(h.free)) \in Nat
      BY <2>1, UnitsAreFinite, FS_CardinalityType
    <3>2. a \in Int /\ n \in Nat
      BY <1>4, <1>6 DEF Address
    <3>3. IsFiniteSet(UnitsOf(a, n)) /\ Cardinality(UnitsOf(a, n)) = n
      BY <3>2, CountUnitsOf
    <3>4. UnitsIn(h.free) \cap UnitsOf(a, n) = {}
      BY <2>3
    <3>5. Cardinality(UnitsIn(h.free) \cup UnitsOf(a, n))
            = Cardinality(UnitsIn(h.free)) + Cardinality(UnitsOf(a, n))
      BY ONLY <3>1, <3>3, <3>4, CountUnion
    <3>6. UnitsIn(g.free) = UnitsIn(h.free) \cup UnitsOf(a, n)
      BY <2>4, <2>5
    <3> QED  BY ONLY <3>1, <3>3, <3>5, <3>6
  <2>9. g.allocated + Cardinality(UnitsIn(g.free)) = HeapSize
    BY <1>3, <1>6, <2>1, <2>8
  <2>10. UnitsIn(g.free) \cup UnitsUsed(g.header) = Address
         /\ UnitsIn(g.free) \cap UnitsUsed(g.header) = {}
    BY <1>4, <2>1, <2>4, <2>5, <2>6
  <2>11. Tiled(g)
    BY <2>4, <2>5, <2>7, <2>9, <2>10 DEF Tiled
  <2>12. g.free \in Seq(FreeBlock)
    BY <2>4, <2>5 DEF FreeList
  <2>13. g = [free |-> g.free, header |-> g.header, allocated |-> g.allocated]
    BY <1>3
  <2>14. Sound(g)
    BY <1>2, <1>4, <1>5, <1>7, <1>8, <2>5, <2>11, <2>12, <2>13 DEF Sound
  <2> QED  BY <1>1, <2>5, <2>14
<1>9. CASE build # "internal"
  <2>1. g.free = h.free /\ g.header = hd2
        /\ g = [free |-> g.free, header |-> g.header, allocated |-> g.allocated]
    BY <1>3, <1>9
  <2>2. Sound(g)
    BY <1>2, <1>4, <1>5, <1>7, <1>9, <2>1 DEF Sound
  <2> QED  BY <1>1, <2>1, <2>2
<1> QED  BY <1>8, <1>9

\* The block that is chosen is large enough.
LEMMA BestFitFits ==
  ASSUME NEW h, h.free \in Seq(FreeBlock), NEW n, Fitting(h, n) # {}
  PROVE  BestFit(h, n) \in Fitting(h, n)
<1> DEFINE Fit == Fitting(h, n)
           exact == {i \in Fit : h.free[i].units = n}
           least == {i \in Fit : \A j \in Fit : h.free[i].units <= h.free[j].units}
<1>1. Fit \in SUBSET Nat /\ Len(h.free) \in Nat /\ Fit \subseteq 1 .. Len(h.free)
      /\ \A i \in Fit : h.free[i].units \in Nat
  <2>1. DOMAIN h.free = 1 .. Len(h.free) /\ Len(h.free) \in Nat
        /\ \A i \in 1 .. Len(h.free) : h.free[i] \in FreeBlock
    BY LenProperties, ElementOfSeq
  <2>2. \A i \in 1 .. Len(h.free) : h.free[i].units \in Nat
    BY <2>1, FreeBlockIs
  <2> QED  BY <2>1, <2>2 DEF Fitting
<1>2. Fit # {}
  OBVIOUS
<1> HIDE DEF Fit
<1>3. BestFit(h, n) = IF exact # {} THEN CHOOSE i \in exact : \A j \in exact : i <= j
                      ELSE CHOOSE i \in least : \A j \in least : j <= i
  BY DEF BestFit, Fit
<1>4. CASE exact # {}
  <2>1. exact \in SUBSET Nat
    BY <1>1
  <2>2. \E i \in exact : \A j \in exact : i <= j
    <3> HIDE DEF exact
    <3> QED  BY <1>4, <2>1, MinIsLeast
  <2> QED  BY <1>3, <1>4, <2>2 DEF Fit
<1>5. CASE exact = {}
  <2> DEFINE sizes == {h.free[i].units : i \in Fit}
  <2>1. sizes \in SUBSET Nat /\ sizes # {}
    BY <1>1, <1>2
  <2>2. PICK u \in sizes : \A v \in sizes : u <= v
    <3> HIDE DEF sizes
    <3> QED  BY <2>1, MinIsLeast
  <2>3. least # {}
    BY <2>2
  <2> DEFINE back == {Len(h.free) - i : i \in least}
  <2>4. back \in SUBSET Nat /\ back # {}
    <3>1. \A i \in least : i \in 1 .. Len(h.free) /\ Len(h.free) - i \in Nat
      BY <1>1
    <3> QED  BY <2>3, <3>1
  <2>5. PICK b \in back : \A c \in back : b <= c
    <3> HIDE DEF back
    <3> QED  BY <2>4, MinIsLeast
  <2>6. PICK i \in least : b = Len(h.free) - i
    BY <2>5
  <2>7. \A j \in least : j <= i
    <3> TAKE j \in least
    <3>1. Len(h.free) - i <= Len(h.free) - j
      BY <2>5, <2>6
    <3> QED  BY <1>1, <3>1
  <2>8. (CHOOSE k \in least : \A j \in least : j <= k) \in least
    BY <2>7
  <2> QED  BY <1>3, <1>5, <2>8 DEF Fit
<1> QED  BY <1>4, <1>5

\* A request takes at least a unit.
LEMMA RequestIs ==
  ASSUME NEW bytes \in Nat \ {0}
  PROVE  Request(bytes) \in Nat /\ Request(bytes) > 0
<1>1. PICK c, q : c = bytes + NodeSize - 1 /\ q = c \div NodeSize
  OBVIOUS
<1>2. c \in Nat /\ NodeSize \in Nat /\ NodeSize > 0
  BY <1>1, HeapNumbers
<1>3. q \in Nat
  BY <1>1, <1>2
<1> QED  BY <1>1, <1>3 DEF Request

\* A heap after a block more: at a, of u units.
Grown(h, g, a, u) ==
  /\ Sound(g) /\ a \in Address /\ a \notin DOMAIN h.header /\ u \in 1 .. HeapSize
  /\ g.header = With(h.header, a, [units |-> u, valid |-> TRUE])

\* What an allocation yields.
Gives(h, m) ==
  \/ m.at = NULL /\ m.heap = h
  \/ m.at # NULL /\ \E u \in 1 .. HeapSize : Grown(h, m.heap, m.at, u)

\* The internal heap: a free block is shortened or used up.
LEMMA InternalMallocGives ==
  ASSUME NEW h, Sound(h), build = "internal", NEW bytes \in Nat \ {0},
         NEW m \in InternalMallocs(h, bytes)
  PROVE  Gives(h, m)
<1>1. PICK n, i, a, hd, e : /\ n = Request(bytes) /\ i = BestFit(h, n) /\ hd = h.header
                            /\ a = EndOf(h.free[i], n)
                            /\ e = [units |-> n, valid |-> TRUE]
  OBVIOUS
<1>2. CASE Fitting(h, n) = {}
  <2>1. m = [at |-> NULL, heap |-> h]
    BY <1>1, <1>2 DEF InternalMallocs
  <2> QED  BY <2>1 DEF Gives
<1>3. CASE Fitting(h, n) # {}
  <2>1. m = [at |-> a, heap |-> [free |-> Taken(h, i, n), header |-> With(hd, a, e),
                                 allocated |-> h.allocated + n]]
    BY <1>1, <1>3 DEF InternalMallocs, EndOf
  <2>2. PICK g : g = m.heap
    OBVIOUS
  <2>3. /\ m.at = a /\ g.free = Taken(h, i, n) /\ g.header = With(hd, a, e)
        /\ g.allocated = h.allocated + n
        /\ g = [free |-> g.free, header |-> g.header, allocated |-> g.allocated]
    BY <2>1, <2>2
  <2>4. /\ h.free \in Seq(FreeBlock) /\ Headers(hd) /\ h.allocated \in 0 .. HeapSize
        /\ IsFiniteSet(TakingOf(hd)) /\ h.allocated = Cardinality(TakingOf(hd))
        /\ build \in Builds
        /\ FreeList(h.free) /\ UsedApart(hd)
        /\ UnitsIn(h.free) \cup UnitsUsed(hd) = Address
        /\ UnitsIn(h.free) \cap UnitsUsed(hd) = {}
        /\ h.allocated + Cardinality(UnitsIn(h.free)) = HeapSize
    BY <1>1 DEF Sound, Tiled
  <2>5. i \in Fitting(h, n)
    BY <1>1, <1>3, <2>4, BestFitFits
  <2>6. n \in Nat /\ n > 0
    BY <1>1, RequestIs
  <2>7. i \in 1 .. Len(h.free) /\ n \in 1 .. h.free[i].units
    <3>1. i \in DOMAIN h.free /\ h.free[i].units >= n /\ DOMAIN h.free = 1 .. Len(h.free)
      BY <2>4, <2>5, FreeListIs DEF Fitting
    <3>2. h.free[i].units \in Int
      BY <2>4, <3>1, FreeListIs, FreeBlockIs
    <3> QED  BY <2>6, <3>1, <3>2
  <2>8. /\ FreeList(g.free) /\ UnitsIn(g.free) = UnitsIn(h.free) \ UnitsOf(a, n)
        /\ UnitsOf(a, n) \subseteq UnitsIn(h.free)
        /\ a \in UnitsIn(h.free) /\ n \in 1 .. HeapSize /\ a + n <= HeapSize
    <3>1. /\ FreeList(Taken(h, i, n)) /\ EndOf(h.free[i], n) \in UnitsIn(h.free)
          /\ UnitsIn(Taken(h, i, n)) = UnitsIn(h.free) \ UnitsOf(EndOf(h.free[i], n), n)
          /\ UnitsOf(EndOf(h.free[i], n), n) \subseteq UnitsIn(h.free)
          /\ n \in 1 .. HeapSize /\ EndOf(h.free[i], n) + n <= HeapSize
      <4>1. FreeList(h.free) /\ i \in 1 .. Len(h.free) /\ n \in 1 .. h.free[i].units
        BY <2>4, <2>7
      <4> QED  BY ONLY <4>1, TakenIs
    <3> QED  BY <1>1, <2>3, <3>1
  <2>9. a \in Address /\ a \in Int /\ n \in Int
    BY <2>4, <2>6, <2>8 DEF Address
  <2>10. \A b \in DOMAIN hd : b \in UnitsUsed(hd) /\ b \in Int /\ hd[b].units \in Int /\ hd[b].units > 0
    <3> TAKE b \in DOMAIN hd
    <3>1. b \in Int /\ hd[b].units \in Int /\ hd[b].units > 0
      BY <2>4, HeaderIs
    <3>2. b \in UnitsOf(b, hd[b].units)
      BY <3>1, InUnitsOf
    <3> QED  BY <3>1, <3>2, InTaking
  <2>11. a \notin DOMAIN hd
    BY <2>4, <2>8, <2>10
  <2>12. e \in Header /\ e.units = n
    BY <1>1, <2>8 DEF Header
  <2>13. /\ Headers(g.header) /\ DOMAIN g.header = DOMAIN hd \cup {a}
         /\ g.header[a] = e /\ \A y \in DOMAIN hd : g.header[y] = hd[y]
         /\ UnitsUsed(g.header) = UnitsUsed(hd) \cup UnitsOf(a, n)
    <3>1. More(hd, a, e)
      BY <2>4, <2>9, <2>11, <2>12, OneMore
    <3> QED  BY <2>3, <2>12, <3>1 DEF More
  <2>14. IsFiniteSet(TakingOf(g.header)) /\ Cardinality(TakingOf(g.header)) = h.allocated + n
    BY <2>3, <2>4, <2>9, <2>11, <2>12, CountMore
  <2>15. UnitsIn(g.free) \cup UnitsUsed(g.header) = Address
         /\ UnitsIn(g.free) \cap UnitsUsed(g.header) = {}
    BY <2>4, <2>8, <2>13
  <2>16. UsedApart(g.header)
    <3>1. ASSUME NEW b \in DOMAIN hd PROVE (b < a => b + hd[b].units <= a) /\ (a < b => a + n <= b)
      <4>1. PICK v : v = hd[b].units
        OBVIOUS
      <4>2. b \in UnitsUsed(hd) /\ b \in Int /\ v \in Int
        BY <2>10, <4>1
      <4>3. a \notin UnitsOf(b, v)
        BY <2>4, <2>8, <4>1, InTaking
      <4>4. b \notin UnitsOf(a, n)
        BY <2>4, <2>8, <4>2
      <4>5. ~(b <= a /\ a < b + v) /\ ~(a <= b /\ b < a + n)
        BY <2>9, <4>2, <4>3, <4>4, InUnitsOf
      <4> QED  BY ONLY <2>9, <4>1, <4>2, <4>5
    <3>2. ASSUME NEW b \in DOMAIN g.header PROVE b + g.header[b].units <= HeapSize
      BY <2>4, <2>8, <2>12, <2>13 DEF UsedApart
    <3>3. ASSUME NEW b \in DOMAIN g.header, NEW c \in DOMAIN g.header, b < c
          PROVE  b + g.header[b].units <= c
      <4>1. CASE b = a /\ c = a
        BY <2>9, <3>3, <4>1
      <4>2. CASE b = a /\ c # a
        BY <2>12, <2>13, <3>1, <3>3, <4>2
      <4>3. CASE b # a /\ c = a
        BY <2>13, <3>1, <3>3, <4>3
      <4>4. CASE b # a /\ c # a
        BY <2>4, <2>13, <3>3, <4>4 DEF UsedApart
      <4> QED  BY <4>1, <4>2, <4>3, <4>4
    <3> QED  BY <3>2, <3>3 DEF UsedApart
  <2>17. /\ g.allocated + Cardinality(UnitsIn(g.free)) = HeapSize
         /\ Cardinality(UnitsIn(g.free)) \in Nat
    <3>1. IsFiniteSet(UnitsIn(h.free))
      BY <2>4, UnitsAreFinite
    <3>2. Cardinality(UnitsOf(a, n)) = n
      BY <2>6, <2>9, CountUnitsOf
    <3>3. /\ Cardinality(UnitsIn(g.free)) = Cardinality(UnitsIn(h.free)) - n
          /\ Cardinality(UnitsIn(h.free)) \in Nat /\ Cardinality(UnitsIn(g.free)) \in Nat
      BY <2>8, <3>1, <3>2, CountWithout
    <3>4. h.allocated \in Int
      BY <2>4
    <3> QED  BY <2>3, <2>4, <2>9, <3>3, <3>4
  <2>18. g.allocated \in 0 .. HeapSize
    <3>1. h.allocated \in Int /\ h.allocated >= 0 /\ HeapSize \in Int
      BY <2>4, HeapNumbers
    <3> QED  BY <2>3, <2>6, <2>17, <3>1
  <2>19. g.free \in Seq(FreeBlock) /\ Tiled(g)
    BY <2>8, <2>15, <2>16, <2>17 DEF Tiled, FreeList
  <2>20. Sound(g)
    BY <2>3, <2>4, <2>13, <2>14, <2>18, <2>19 DEF Sound
  <2>21. a # NULL
    BY <2>9, HeapNumbers DEF Address
  <2>22. Grown(h, g, a, n)
    BY <1>1, <2>3, <2>8, <2>9, <2>11, <2>20 DEF Grown
  <2> QED  BY <2>2, <2>3, <2>8, <2>21, <2>22 DEF Gives
<1> QED  BY <1>2, <1>3

\* The tracked heap with other headers and another count.
Recounted(h, hd, n) == [h EXCEPT !.header = hd, !.allocated = n]

\* The tracked heap is sound whatever is in it, as long as it counts it.
LEMMA TrackedSound ==
  ASSUME build = "tracked", NEW h, Sound(h), NEW hd, Headers(hd), IsFiniteSet(TakingOf(hd)),
         NEW n \in 0 .. HeapSize, n = Cardinality(TakingOf(hd))
  PROVE  Sound(Recounted(h, hd, n)) /\ Recounted(h, hd, n).header = hd
<1>0. PICK g : g = Recounted(h, hd, n)
  OBVIOUS
<1>1. h = [free |-> h.free, header |-> h.header, allocated |-> h.allocated]
  BY DEF Sound
<1>2. g = [free |-> h.free, header |-> hd, allocated |-> n]
  BY <1>0, <1>1 DEF Recounted
<1>3. g.free = h.free /\ g.header = hd /\ g.allocated = n
  BY <1>2
<1>4. g = [free |-> g.free, header |-> g.header, allocated |-> g.allocated]
  BY <1>2, <1>3
<1>5. h.free \in Seq(FreeBlock)
  BY DEF Sound
<1>6. Sound(g)
  BY <1>3, <1>4, <1>5 DEF Sound, Builds
<1> QED  BY <1>0, <1>3, <1>6

\* There is an address left.
LEMMA FreshIs ==
  ASSUME NEW h, Sound(h), h.allocated < HeapSize
  PROVE  Fresh(h) \in Address /\ Fresh(h) \notin DOMAIN h.header
<1>1. PICK hd : hd = h.header
  OBVIOUS
<1>2. /\ Headers(hd) /\ IsFiniteSet(TakingOf(hd)) /\ h.allocated = Cardinality(TakingOf(hd))
      /\ h.allocated \in Int /\ DOMAIN hd \subseteq Address
  BY <1>1 DEF Sound, Headers
<1> DEFINE left == Address \ DOMAIN hd
<1>3. left # {}
  <2>1. SUFFICES ASSUME DOMAIN hd = Address PROVE FALSE
    BY <1>2
  <2>2. PICK T : T = Address \X {1}
    OBVIOUS
  <2>3. IsFiniteSet(Address) /\ Cardinality(Address) = HeapSize /\ IsFiniteSet({1}) /\ Cardinality({1}) = 1
    <3>1. IsFiniteSet(Address) /\ Cardinality(Address) = HeapSize
      BY FS_Interval, HeapNumbers DEF Address
    <3>2. IsFiniteSet({1}) /\ Cardinality({1}) = 1
      BY FS_Singleton
    <3> QED  BY <3>1, <3>2
  <2>4. IsFiniteSet(T) /\ Cardinality(T) = HeapSize
    <3>1. PICK S : S = {1}
      OBVIOUS
    <3>2. Cardinality(Address \X S) = Cardinality(Address) * Cardinality(S) /\ IsFiniteSet(Address \X S)
      BY <2>3, <3>1, FS_Product
    <3> QED  BY <2>2, <2>3, <3>1, <3>2, HeapNumbers
  <2>5. T \in SUBSET TakingOf(hd)
    <3>1. ASSUME NEW x \in T PROVE x \in TakingOf(hd)
      <4>1. PICK a \in Address : x = << a, 1 >>
        BY <2>2
      <4>2. 1 \in 1 .. hd[a].units
        BY <1>2, <2>1, HeaderIs
      <4>3. x \in Piece(a, hd[a].units)
        BY <4>1, <4>2 DEF Piece
      <4> QED  BY <2>1, <4>3, InTaking
    <3> QED  BY <3>1
  <2>6. Cardinality(T) <= Cardinality(TakingOf(hd))
    BY <1>2, <2>5, FS_Subset
  <2> QED  BY <1>2, <2>4, <2>6, HeapNumbers
<1>4. left \in SUBSET Nat
  BY DEF Address
<1>5. PICK a \in left : \A y \in left : a <= y
  <2> HIDE DEF left
  <2> QED  BY <1>3, <1>4, MinIsLeast
<1>6. 0 .. a - 1 \subseteq DOMAIN hd
  <2>1. ASSUME NEW y \in 0 .. a - 1, y \notin DOMAIN hd PROVE FALSE
    <3>1. a \in Nat /\ a < HeapSize /\ HeapSize \in Nat
      BY HeapNumbers DEF Address
    <3>2. y \in left /\ y < a /\ y \in Int
      BY <2>1, <3>1 DEF Address
    <3> QED  BY <1>5, <3>1, <3>2
  <2> QED  BY <2>1
<1>7. \E x \in Address : x \notin DOMAIN hd /\ 0 .. x - 1 \subseteq DOMAIN hd
  BY <1>6
<1> QED  BY <1>1, <1>7 DEF Fresh

\* The tracked heap: an address that is left, within the limit.
LEMMA TrackedMallocGives ==
  ASSUME NEW h, Sound(h), build = "tracked", NEW bytes \in Nat \ {0},
         NEW m \in TrackedMallocs(h, bytes)
  PROVE  Gives(h, m)
<1>1. PICK r, a, e, hd : r = bytes + HeaderSize /\ a = Fresh(h) /\ e = [units |-> r, valid |-> TRUE]
                         /\ hd = h.header
  OBVIOUS
<1>2. CASE m = [at |-> NULL, heap |-> h]
  BY <1>2 DEF Gives
<1>3. CASE m # [at |-> NULL, heap |-> h]
  <2>1. /\ ~(r > HeapSize - h.allocated)
        /\ m = [at |-> a, heap |-> [h EXCEPT !.header = With(@, a, e), !.allocated = @ + r]]
    BY <1>1, <1>3 DEF TrackedMallocs
  <2>2. /\ Headers(hd) /\ IsFiniteSet(TakingOf(hd)) /\ h.allocated = Cardinality(TakingOf(hd))
        /\ h.allocated \in Int /\ 0 <= h.allocated /\ h.allocated <= HeapSize
    BY <1>1, HeapNumbers DEF Sound
  <2>3. r \in Int /\ r > 0 /\ r + h.allocated <= HeapSize /\ r <= HeapSize
    BY <1>1, <2>1, <2>2, HeapNumbers
  <2>4. h.allocated < HeapSize /\ r \in 1 .. HeapSize /\ h.allocated + r \in 0 .. HeapSize
    BY <2>2, <2>3, HeapNumbers
  <2>5. a \in Address /\ a \notin DOMAIN hd
    BY <1>1, <2>4, FreshIs
  <2>6. e \in Header /\ e.units = r
    BY <1>1, <2>4 DEF Header
  <2>7. PICK hd2, g, n : /\ hd2 = With(hd, a, e) /\ n = h.allocated + r
                         /\ g = Recounted(h, hd2, n)
    OBVIOUS
  <2>8. m.at = a /\ m.heap = g
    BY <1>1, <2>1, <2>7 DEF Recounted
  <2>9. Headers(hd2)
    <3>1. More(hd, a, e)
      BY <2>2, <2>5, <2>6, OneMore
    <3> QED  BY <2>7, <3>1 DEF More
  <2>10. IsFiniteSet(TakingOf(hd2)) /\ n = Cardinality(TakingOf(hd2))
    BY <2>2, <2>5, <2>6, <2>7, CountMore
  <2>11. Sound(g) /\ g.header = hd2
    <3>1. n \in 0 .. HeapSize
      BY <2>4, <2>7
    <3> QED  BY <2>7, <2>9, <2>10, <3>1, TrackedSound
  <2>12. a # NULL
    BY <2>5, HeapNumbers DEF Address
  <2>13. Grown(h, g, a, r)
    BY <1>1, <2>4, <2>5, <2>7, <2>11 DEF Grown
  <2> QED  BY <2>4, <2>8, <2>12, <2>13 DEF Gives
<1> QED  BY <1>2, <1>3

\* LS_Malloc in either build.
LEMMA MallocGives ==
  ASSUME NEW h, Sound(h), NEW bytes \in Nat \ {0}, NEW m \in Mallocs(h, bytes)
  PROVE  Gives(h, m)
<1>1. build = "internal" \/ build = "tracked"
  BY DEF Sound, Builds
<1>2. CASE build = "internal"
  BY <1>2, InternalMallocGives DEF Mallocs
<1>3. CASE build # "internal"
  BY <1>1, <1>3, TrackedMallocGives DEF Mallocs
<1> QED  BY <1>2, <1>3

\* A header of another size, and one whose magic number is or is not there.
WithUnits(hd, a, u) == [hd EXCEPT ![a].units = u]

WithValid(hd, a, v) == [hd EXCEPT ![a].valid = v]

\* A header that is changed is one taken away and one put in.
LEMMA Changed ==
  ASSUME NEW hd, Headers(hd), NEW a \in DOMAIN hd, NEW u, NEW v
  PROVE  /\ WithUnits(hd, a, u) = With(Without(hd, a), a, [units |-> u, valid |-> hd[a].valid])
         /\ WithValid(hd, a, v) = With(Without(hd, a), a, [units |-> hd[a].units, valid |-> v])
<1>1. DOMAIN hd = (DOMAIN hd \ {a}) \cup {a} /\ hd = [y \in DOMAIN hd |-> hd[y]]
  BY DEF Headers
<1>2. PICK old, valid : hd[a] = [units |-> old, valid |-> valid]
  BY DEF Headers, Header
<1>3. hd[a].units = old /\ hd[a].valid = valid
  BY <1>2
<1>4. [hd[a] EXCEPT !.units = u] = [units |-> u, valid |-> valid]
      /\ [hd[a] EXCEPT !.valid = v] = [units |-> old, valid |-> v]
  BY <1>2
<1>5. ASSUME NEW e PROVE [hd EXCEPT ![a] = e] = With(Without(hd, a), a, e)
  BY <1>1 DEF With, Without
<1>6. WithUnits(hd, a, u) = [hd EXCEPT ![a] = [units |-> u, valid |-> valid]]
  BY <1>4 DEF WithUnits
<1>7. WithValid(hd, a, v) = [hd EXCEPT ![a] = [units |-> old, valid |-> v]]
  BY <1>4 DEF WithValid
<1> QED  BY <1>3, <1>5, <1>6, <1>7

\* What a reallocation of a block with its magic number yields.
Moves(h, a, m) ==
  \/ m.at = NULL /\ m.heap = h
  \/ /\ m.at = NULL /\ Sound(m.heap)
     /\ m.heap.header
          = With(Without(h.header, a), a, [units |-> h.header[a].units, valid |-> FALSE])
  \/ /\ m.at \in Address /\ m.at # NULL /\ Sound(m.heap) /\ (m.at = a \/ m.at \notin DOMAIN h.header)
     /\ \E u \in 1 .. HeapSize :
          m.heap.header = With(Without(h.header, a), m.at, [units |-> u, valid |-> TRUE])

\* A heap of the tracked build whose block a has become e.
LEMMA TrackedChange ==
  ASSUME NEW h, Sound(h), build = "tracked", NEW a \in DOMAIN h.header, NEW e \in Header,
         h.allocated - h.header[a].units + e.units <= HeapSize
  PROVE  /\ Sound(Recounted(h, With(Without(h.header, a), a, e),
                            h.allocated - h.header[a].units + e.units))
         /\ Recounted(h, With(Without(h.header, a), a, e),
                      h.allocated - h.header[a].units + e.units).header
              = With(Without(h.header, a), a, e)
<1>1. PICK hd, less, hd2, n : /\ hd = h.header /\ less = Without(hd, a) /\ hd2 = With(less, a, e)
                              /\ n = h.allocated - hd[a].units + e.units
  OBVIOUS
<1>2. Headers(hd) /\ IsFiniteSet(TakingOf(hd)) /\ h.allocated = Cardinality(TakingOf(hd))
      /\ a \in DOMAIN hd
  BY <1>1 DEF Sound
<1>3. Headers(less) /\ DOMAIN less = DOMAIN hd \ {a} /\ a \in Address
  BY <1>1, <1>2, OneLess
<1>4. /\ IsFiniteSet(TakingOf(less)) /\ Cardinality(TakingOf(less)) \in Nat
      /\ Cardinality(TakingOf(less)) = h.allocated - hd[a].units
  BY <1>1, <1>2, CountLess
<1>5. More(less, a, e)
  BY <1>3, OneMore
<1>6. Headers(hd2)
  BY <1>1, <1>5 DEF More
<1>7. IsFiniteSet(TakingOf(hd2)) /\ Cardinality(TakingOf(hd2)) = n
  <2>1. IsFiniteSet(TakingOf(With(less, a, e)))
        /\ Cardinality(TakingOf(With(less, a, e))) = Cardinality(TakingOf(less)) + e.units
    BY <1>3, <1>4, CountMore
  <2> QED  BY <1>1, <1>4, <2>1
<1>8. n \in 0 .. HeapSize
  <2>1. e.units \in Nat
    BY HeapNumbers DEF Header
  <2>2. n = Cardinality(TakingOf(less)) + e.units
    BY <1>1, <1>4
  <2>3. n \in Nat
    BY <1>4, <2>1, <2>2
  <2> QED  BY <1>1, <2>3, HeapNumbers
<1>9. Sound(Recounted(h, hd2, n)) /\ Recounted(h, hd2, n).header = hd2
  BY <1>6, <1>7, <1>8, TrackedSound
<1> QED  BY <1>1, <1>9

\* The tracked heap: another size, the magic number wiped, or nothing.
LEMMA TrackedReallocGives ==
  ASSUME NEW h, Sound(h), build = "tracked", NEW a \in DOMAIN h.header, h.header[a].valid,
         NEW bytes \in Nat \ {0}, NEW m \in TrackedReallocs(h, a, bytes)
  PROVE  Moves(h, a, m)
<1>1. PICK hd, old, r : hd = h.header /\ old = hd[a].units /\ r = bytes + HeaderSize
  OBVIOUS
<1>2. /\ Headers(hd) /\ a \in DOMAIN hd /\ hd[a] \in Header /\ hd[a].valid = TRUE
      /\ h.allocated \in Int /\ 0 <= h.allocated /\ h.allocated <= HeapSize
      /\ old \in Int /\ old > 0 /\ old \in 1 .. HeapSize /\ a \in Address
      /\ h = [free |-> h.free, header |-> hd, allocated |-> h.allocated]
  <2>1. /\ Headers(hd) /\ a \in DOMAIN hd /\ h.allocated \in 0 .. HeapSize
        /\ h = [free |-> h.free, header |-> hd, allocated |-> h.allocated]
    BY <1>1 DEF Sound
  <2>2. hd[a] \in Header /\ a \in Address /\ old \in 1 .. HeapSize
    BY <1>1, <2>1, HeaderIs
  <2> QED  BY <1>1, <2>1, <2>2, HeapNumbers DEF Header
<1>3. CASE m = [at |-> NULL, heap |-> h]
  BY <1>3 DEF Moves
<1>4. CASE m = [at |-> NULL, heap |-> [h EXCEPT !.header[a].valid = FALSE]]
  <2>1. PICK e, hd2, n : /\ e = [units |-> old, valid |-> FALSE] /\ hd2 = With(Without(hd, a), a, e)
                         /\ n = h.allocated - old + e.units
    OBVIOUS
  <2>2. e \in Header /\ e.units = old
    BY <1>2, <2>1 DEF Header
  <2>3. n = h.allocated /\ n <= HeapSize
    BY <1>2, <2>1, <2>2
  <2>4. WithValid(hd, a, FALSE) = hd2
    <3>1. WithValid(hd, a, FALSE) = With(Without(hd, a), a, [units |-> hd[a].units, valid |-> FALSE])
      BY <1>2, Changed
    <3> QED  BY <1>1, <2>1, <3>1
  <2>6. m.at = NULL /\ m.heap = Recounted(h, hd2, n)
    <3>1. PICK f, al, g, t : /\ f = h.free /\ al = h.allocated /\ t = Recounted(h, hd2, n)
                             /\ g = [h EXCEPT !.header[a].valid = FALSE]
      OBVIOUS
    <3>2. h = [free |-> f, header |-> hd, allocated |-> al]
      BY <1>2, <3>1
    <3>3. g = [free |-> f, header |-> WithValid(hd, a, FALSE), allocated |-> al]
      <4>1. g = [h EXCEPT !.header[a].valid = FALSE]
        BY <3>1
      <4>2. g = [free |-> f, header |-> [hd EXCEPT ![a].valid = FALSE], allocated |-> al]
        BY ONLY <3>2, <4>1
      <4> QED  BY <4>2 DEF WithValid
    <3>4. t = [free |-> f, header |-> hd2, allocated |-> n]
      BY <3>1, <3>2 DEF Recounted
    <3>5. m.at = NULL /\ m.heap = g
      BY <1>4, <3>1
    <3> QED  BY <2>3, <2>4, <3>1, <3>3, <3>4, <3>5
  <2>7. Sound(Recounted(h, hd2, n)) /\ Recounted(h, hd2, n).header = hd2
    BY <1>1, <2>1, <2>2, <2>3, TrackedChange
  <2> QED  BY <1>1, <2>1, <2>6, <2>7 DEF Moves
<1>5. CASE m = [at |-> a, heap |-> [h EXCEPT !.header[a].units = r, !.allocated = @ - old + r]]
           /\ ~(r > HeapSize - (h.allocated - old))
  <2>1. PICK e, hd2, n : /\ e = [units |-> r, valid |-> TRUE] /\ hd2 = With(Without(hd, a), a, e)
                         /\ n = h.allocated - old + e.units
    OBVIOUS
  <2>2. CASE r \in 1 .. HeapSize
    <3>1. e \in Header /\ e.units = r
      BY <2>1, <2>2 DEF Header
    <3>2. n = h.allocated - old + r /\ n <= HeapSize
      <4>1. r \in Int /\ n = h.allocated - old + r
        BY <2>1, <2>2, <3>1
      <4> QED  BY <1>2, <1>5, <4>1, HeapNumbers
    <3>3. WithUnits(hd, a, r) = hd2
      <4>1. WithUnits(hd, a, r) = With(Without(hd, a), a, [units |-> r, valid |-> hd[a].valid])
        BY <1>2, Changed
      <4> QED  BY <1>2, <2>1, <4>1
    <3>5. m.at = a /\ m.heap = Recounted(h, hd2, n)
      <4>1. PICK f, al, k, g, t : /\ f = h.free /\ al = h.allocated /\ k = al - old + r
                                  /\ t = Recounted(h, hd2, n)
                                  /\ g = [h EXCEPT !.header[a].units = r, !.allocated = k]
        OBVIOUS
      <4>2. h = [free |-> f, header |-> hd, allocated |-> al]
        BY <1>2, <4>1
      <4>3. g = [free |-> f, header |-> WithUnits(hd, a, r), allocated |-> k]
        <5>1. g = [h EXCEPT !.header[a].units = r, !.allocated = k]
          BY <4>1
        <5>2. g = [free |-> f, header |-> [hd EXCEPT ![a].units = r], allocated |-> k]
          BY ONLY <4>2, <5>1
        <5> QED  BY <5>2 DEF WithUnits
      <4>4. t = [free |-> f, header |-> hd2, allocated |-> n]
        BY <4>1, <4>2 DEF Recounted
      <4>5. m.at = a /\ m.heap = g
        BY <1>5, <4>1
      <4> QED  BY <3>2, <3>3, <4>1, <4>3, <4>4, <4>5
    <3>6. Sound(Recounted(h, hd2, n)) /\ Recounted(h, hd2, n).header = hd2
      BY <1>1, <2>1, <3>1, <3>2, TrackedChange
    <3>7. a # NULL
      BY <1>2, HeapNumbers DEF Address
    <3> QED  BY <1>1, <1>2, <2>1, <2>2, <3>5, <3>6, <3>7 DEF Moves
  <2>3. r \in 1 .. HeapSize
    <3>1. old <= h.allocated
      <4>1. IsFiniteSet(TakingOf(hd)) /\ h.allocated = Cardinality(TakingOf(hd))
        BY <1>1 DEF Sound
      <4>2. Cardinality(TakingOf(Without(hd, a))) \in Nat
            /\ Cardinality(TakingOf(Without(hd, a))) = h.allocated - old
        BY <1>1, <1>2, <4>1, CountLess
      <4> QED  BY <1>2, <4>2
    <3> QED  BY <1>1, <1>2, <1>5, <3>1, HeapNumbers
  <2> QED  BY <2>2, <2>3
<1> QED  BY <1>1, <1>3, <1>4, <1>5 DEF TrackedReallocs

\* LS_Realloc in either build: the internal heap allocates, then frees.
LEMMA ReallocGives ==
  ASSUME NEW h, Sound(h), NEW a \in DOMAIN h.header, NEW bytes \in Nat \ {0},
         NEW m \in Reallocs(h, a, bytes)
  PROVE  (m.at = NULL /\ m.heap = h) \/ (h.header[a].valid /\ Moves(h, a, m))
<1>1. CASE ~h.header[a].valid
  BY <1>1 DEF Reallocs
<1>2. CASE h.header[a].valid /\ build = "tracked"
  BY <1>2, TrackedReallocGives DEF Reallocs
<1>3. CASE h.header[a].valid /\ build # "tracked"
  <2>1. build = "internal"
    BY <1>3 DEF Sound, Builds
  <2>2. PICK m0 \in InternalMallocs(h, bytes) :
          m = IF m0.at = NULL THEN m0 ELSE [m0 EXCEPT !.heap = Free(@, a)]
    BY <1>3 DEF Reallocs
  <2>3. Gives(h, m0)
    BY <2>1, InternalMallocGives
  <2>4. CASE m0.at = NULL
    BY <2>2, <2>3, <2>4 DEF Gives
  <2>5. CASE m0.at # NULL
    <3>1. PICK u \in 1 .. HeapSize : Grown(h, m0.heap, m0.at, u)
      BY <2>3, <2>5 DEF Gives
    <3>2. PICK hd, b, e, g : hd = h.header /\ b = m0.at /\ e = [units |-> u, valid |-> TRUE] /\ g = m0.heap
      OBVIOUS
    <3>3. /\ Sound(g) /\ b \in Address /\ b \notin DOMAIN hd /\ g.header = With(hd, b, e)
          /\ a \in DOMAIN hd /\ a # b
      BY <3>1, <3>2 DEF Grown
    <3>4. a \in DOMAIN g.header /\ g.header[a] = hd[a]
      BY <3>3 DEF With
    <3>5. Sound(Free(g, a)) /\ Free(g, a).header = Without(g.header, a)
      BY <1>3, <3>2, <3>3, <3>4, FreeGives
    <3>6. Without(g.header, a) = With(Without(hd, a), b, e)
      BY <3>3 DEF With, Without
    <3>7. m.at = b /\ m.heap = Free(g, a)
      <4>1. \E x, y : m0 = [at |-> x, heap |-> y]
        BY DEF InternalMallocs
      <4> QED  BY <2>2, <2>5, <3>2, <4>1
    <3> QED  BY <1>3, <2>5, <3>2, <3>3, <3>5, <3>6, <3>7 DEF Moves
  <2> QED  BY <2>4, <2>5
<1> QED  BY <1>1, <1>2, <1>3

-----------------------------------------------------------------------------
(* Freeing one block after the other                                       *)

\* Induction over the number of blocks, for a set rather than a predicate.
LEMMA SetInduction ==
  ASSUME NEW T, 0 \in T, \A n \in Nat : n \in T => n + 1 \in T
  PROVE  Nat \subseteq T
<1> DEFINE U == {n \in Nat : n \notin T}
<1> SUFFICES ASSUME U # {} PROVE FALSE
  OBVIOUS
<1>1. U \in SUBSET Nat
  OBVIOUS
<1>2. PICK m \in U : \A n \in U : m <= n
  <2> HIDE DEF U
  <2> QED  BY <1>1, MinIsLeast
<1>3. m # 0 /\ m - 1 \in Nat /\ m - 1 \notin U
  BY <1>2
<1>4. m - 1 \in T
  BY <1>3
<1>5. m - 1 + 1 = m
  BY <1>2
<1> QED  BY <1>2, <1>3, <1>4, <1>5

\* What is left of a heap when the blocks of a set are freed: those that LS_Free refuses stay.
After(h, g, B) ==
  /\ Sound(g) /\ DOMAIN g.header = DOMAIN h.header \ {b \in B : h.header[b].valid}
  /\ \A y \in DOMAIN g.header : g.header[y] = h.header[y]

\* One block more is freed.
LEMMA FreeOneMore ==
  ASSUME NEW h, Sound(h), NEW g, NEW B, After(h, g, B), NEW b \in DOMAIN h.header, b \notin B
  PROVE  After(h, Free(g, b), B \cup {b})
<1>1. /\ Sound(g) /\ DOMAIN g.header = DOMAIN h.header \ {c \in B : h.header[c].valid}
      /\ \A y \in DOMAIN g.header : g.header[y] = h.header[y]
  BY DEF After
<1>2. b \in DOMAIN g.header /\ g.header[b] = h.header[b]
  BY <1>1
<1>3. CASE h.header[b].valid
  <2>1. Sound(Free(g, b)) /\ Free(g, b).header = Without(g.header, b)
    BY <1>1, <1>2, <1>3, FreeGives
  <2>2. DOMAIN Without(g.header, b) = DOMAIN g.header \ {b}
        /\ \A y \in DOMAIN g.header \ {b} : Without(g.header, b)[y] = g.header[y]
    BY DEF Without
  <2>3. DOMAIN g.header \ {b} = DOMAIN h.header \ {c \in B \cup {b} : h.header[c].valid}
    BY <1>1, <1>3
  <2> QED  BY <1>1, <2>1, <2>2, <2>3 DEF After
<1>4. CASE ~h.header[b].valid
  <2>1. Free(g, b) = g
    BY <1>2, <1>4 DEF Free
  <2>2. {c \in B \cup {b} : h.header[c].valid} = {c \in B : h.header[c].valid}
    BY <1>4
  <2> QED  BY <1>1, <2>1, <2>2 DEF After
<1> QED  BY <1>3, <1>4

\* The heaps on the way, after each of the first n blocks.
Freed(h, blocks, n, f) ==
  f = [i \in 0 .. n |-> IF i = 0 THEN h ELSE Free(f[i - 1], blocks[i])]

\* The recursive function of FreeAll exists.
LEMMA FreedExists ==
  ASSUME NEW h, NEW blocks, NEW n \in Nat
  PROVE  \E f : Freed(h, blocks, n, f)
<1> DEFINE T == {k \in Nat : \E f : Freed(h, blocks, k, f)}
<1>1. 0 \in T
  <2>1. PICK f : f = [i \in 0 .. 0 |-> h]
    OBVIOUS
  <2>2. f = [i \in 0 .. 0 |-> IF i = 0 THEN h ELSE Free(f[i - 1], blocks[i])]
    BY <2>1
  <2> QED  BY <2>2 DEF Freed
<1>2. ASSUME NEW k \in Nat, k \in T PROVE k + 1 \in T
  <2>1. PICK f : f = [i \in 0 .. k |-> IF i = 0 THEN h ELSE Free(f[i - 1], blocks[i])]
    BY <1>2 DEF Freed
  <2>2. PICK g : g = [i \in 0 .. k + 1 |-> IF i <= k THEN f[i] ELSE Free(f[k], blocks[k + 1])]
    OBVIOUS
  <2>3. ASSUME NEW i \in 0 .. k + 1
        PROVE  g[i] = IF i = 0 THEN h ELSE Free(g[i - 1], blocks[i])
    <3>1. CASE i = 0
      <4>1. 0 \in 0 .. k /\ 0 <= k
        OBVIOUS
      <4> QED  BY <2>1, <2>2, <3>1, <4>1
    <3>2. CASE i # 0 /\ i <= k
      <4>1. i \in 0 .. k /\ i - 1 \in 0 .. k + 1 /\ i - 1 <= k
        BY <3>2
      <4>2. g[i] = f[i] /\ g[i - 1] = f[i - 1]
        BY <2>2, <3>2, <4>1
      <4>3. f[i] = Free(f[i - 1], blocks[i])
        BY <2>1, <3>2, <4>1
      <4> QED  BY <3>2, <4>2, <4>3
    <3>3. CASE i = k + 1
      <4>1. ~(i <= k) /\ i # 0 /\ i - 1 = k /\ k \in 0 .. k + 1 /\ k <= k
        BY <3>3
      <4>2. g[i] = Free(f[k], blocks[k + 1]) /\ g[k] = f[k]
        BY <2>2, <4>1
      <4> QED  BY <3>3, <4>1, <4>2
    <3> QED  BY <3>1, <3>2, <3>3
  <2>4. g = [i \in 0 .. k + 1 |-> g[i]]
    BY <2>2
  <2>5. g = [i \in 0 .. k + 1 |-> IF i = 0 THEN h ELSE Free(g[i - 1], blocks[i])]
    BY <2>3, <2>4, Zenon
  <2> QED  BY <2>5 DEF Freed
<1> HIDE DEF T
<1>3. Nat \subseteq T
  BY <1>1, <1>2, SetInduction
<1> QED  BY <1>3 DEF T

\* LS_Free of different blocks, one after the other.
LEMMA FreeAllGives ==
  ASSUME NEW h, Sound(h), NEW blocks \in Seq(Address),
         \A i \in 1 .. Len(blocks) : blocks[i] \in DOMAIN h.header,
         \A i, j \in 1 .. Len(blocks) : blocks[i] = blocks[j] => i = j
  PROVE  After(h, FreeAll(h, blocks), {blocks[i] : i \in 1 .. Len(blocks)})
<1>1. PICK n : n = Len(blocks) /\ n \in Nat
  BY LenProperties
<1> DEFINE F == CHOOSE f : f = [i \in 0 .. Len(blocks) |-> IF i = 0 THEN h ELSE Free(f[i - 1], blocks[i])]
<1>2. FreeAll(h, blocks) = F[Len(blocks)]
  BY DEF FreeAll
<1>3. F = [i \in 0 .. Len(blocks) |-> IF i = 0 THEN h ELSE Free(F[i - 1], blocks[i])]
  BY <1>1, FreedExists DEF Freed
<1> HIDE DEF F
<1> DEFINE B(k) == {blocks[i] : i \in 1 .. k}
           T == {k \in Nat : k <= n => After(h, F[k], B(k))}
<1>4. 0 \in T
  <2>1. F[0] = h
    BY <1>1, <1>3
  <2>2. {b \in B(0) : h.header[b].valid} = {}
    OBVIOUS
  <2> QED  BY <2>1, <2>2 DEF After
<1>5. ASSUME NEW k \in Nat, k \in T PROVE k + 1 \in T
  <2> SUFFICES ASSUME k + 1 <= n PROVE After(h, F[k + 1], B(k + 1))
    OBVIOUS
  <2>1. After(h, F[k], B(k))
    BY <1>1, <1>5
  <2>2. k + 1 \in 1 .. Len(blocks) /\ k + 1 \in 0 .. Len(blocks) /\ k + 1 # 0 /\ (k + 1) - 1 = k
    BY <1>1
  <2>3. F[k + 1] = Free(F[k], blocks[k + 1])
    BY <1>3, <2>2
  <2>4. blocks[k + 1] \notin B(k)
    <3>1. ASSUME NEW i \in 1 .. k, blocks[i] = blocks[k + 1] PROVE FALSE
      <4>1. i \in 1 .. Len(blocks) /\ i # k + 1
        BY <1>1
      <4> QED  BY <2>2, <3>1, <4>1
    <3> QED  BY <3>1
  <2>5. B(k + 1) = B(k) \cup {blocks[k + 1]}
    <3>1. 1 .. k + 1 = (1 .. k) \cup {k + 1}
      OBVIOUS
    <3> QED  BY <3>1
  <2>6. blocks[k + 1] \in DOMAIN h.header
    BY <2>2
  <2> HIDE DEF B
  <2>7. After(h, Free(F[k], blocks[k + 1]), B(k) \cup {blocks[k + 1]})
    BY <2>1, <2>4, <2>6, FreeOneMore
  <2> QED  BY <2>3, <2>5, <2>7
<1>6. Nat \subseteq T
  <2> HIDE DEF T
  <2> QED  BY <1>4, <1>5, SetInduction
<1>7. After(h, F[n], B(n))
  <2> HIDE DEF B
  <2>1. n \in T /\ n <= n
    BY <1>1, <1>6
  <2> QED  BY <2>1
<1> QED  BY <1>1, <1>2, <1>7

\* LS_MemInit
LEMMA NewHeapIs ==
  ASSUME build \in Builds
  PROVE  Sound(NewHeap(build)) /\ NewHeap(build).header = << >>
<1>1. PICK h, e : h = NewHeap(build) /\ e = << >>
  OBVIOUS
<1>2. /\ h = [free |-> h.free, header |-> h.header, allocated |-> h.allocated]
      /\ h.header = e /\ h.allocated = 0
      /\ h.free = IF build = "internal" THEN << [at |-> 0, units |-> HeapSize] >> ELSE << >>
  BY <1>1 DEF NewHeap
<1>3. DOMAIN e = {} /\ e = [a \in DOMAIN e |-> e[a]]
  BY <1>1
<1>4. Headers(e) /\ UsedApart(e)
  BY <1>3 DEF Headers, UsedApart
<1>5. TakingOf(e) = {} /\ UnitsUsed(e) = {}
  BY <1>3 DEF TakingOf, UnitsUsed
<1>6. IsFiniteSet(TakingOf(e)) /\ h.allocated = Cardinality(TakingOf(e)) /\ h.allocated \in 0 .. HeapSize
  BY <1>2, <1>5, FS_EmptySet, HeapNumbers
<1>7. CASE build # "internal"
  <2>1. h.free \in Seq(FreeBlock)
    BY <1>2, <1>7, EmptySeq
  <2> QED  BY <1>1, <1>2, <1>4, <1>6, <1>7, <2>1 DEF Sound
<1>8. CASE build = "internal"
  <2>1. PICK f, b : f = h.free /\ b = [at |-> 0, units |-> HeapSize] /\ f = << b >>
    BY <1>2, <1>8
  <2>2. b \in FreeBlock /\ b.at = 0 /\ b.units = HeapSize
    BY <2>1, HeapNumbers DEF FreeBlock, Address
  <2>3. f \in Seq(FreeBlock) /\ DOMAIN f = {1} /\ f[1] = b
    BY <2>1, <2>2
  <2>4. FreeList(f)
    BY <2>2, <2>3, HeapNumbers DEF FreeList
  <2>5. UnitsIn(f) = Address
    <3>1. UnitsIn(f) = UnitsOf(b.at, b.units)
      BY <2>3 DEF UnitsIn
    <3>2. UnitsOf(0, HeapSize) = Address
      BY HeapNumbers DEF UnitsOf, Address
    <3> QED  BY <2>2, <3>1, <3>2
  <2>6. Cardinality(Address) = HeapSize
    BY FS_Interval, HeapNumbers DEF Address
  <2>7. Tiled(h)
    <3>1. UnitsIn(h.free) \cup UnitsUsed(h.header) = Address /\ UnitsIn(h.free) \cap UnitsUsed(h.header) = {}
      BY <1>2, <1>5, <2>1, <2>5
    <3>2. h.allocated + Cardinality(UnitsIn(h.free)) = HeapSize
      BY <1>2, <2>1, <2>5, <2>6, HeapNumbers
    <3> QED  BY <1>2, <1>4, <2>1, <2>4, <3>1, <3>2 DEF Tiled
  <2> QED  BY <1>1, <1>2, <1>4, <1>6, <2>1, <2>3, <2>7 DEF Sound
<1> QED  BY <1>7, <1>8

=============================================================================
