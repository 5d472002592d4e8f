--------------------------- MODULE LinkedListProofs ---------------------------
(***************************************************************************)
(* A list is the sequence that its contract says, in a heap in which every *)
(* block has one owner, for every size of the arena, in either build, and  *)
(* whichever allocations fail.                                             *)
(*                                                                         *)
(* The inductive invariant (ListInv) has three parts that need each other: *)
(* the nodes are one chain without repetitions (Linked), so that a walk    *)
(* ends and the count is its length; nodes, data, client and list have no  *)
(* block in common and all blocks in use between them (Divided), so that a *)
(* new node is in no chain, and a freed one had no other user; and the     *)
(* heap is sound, so that a new block is none of the old ones.  A block    *)
(* whose magic number a failed reallocation wiped belongs to the client    *)
(* until it forgets it; those of nodes and list always keep theirs.        *)
(*                                                                         *)
(* Chain is a walk, computed by recursion.  ChainIs says what it finds if  *)
(* the nodes are linked, so that each step only has to show the chain it   *)
(* makes (InvAgain).                                                       *)
(***************************************************************************)
EXTENDS LinkedList, HeapProofs

-----------------------------------------------------------------------------
(* The chain of nodes                                                      *)

\* What is assumed of the sizes.
LEMMA ListBytesAre ==
  ListBytes \in Nat \ {0} /\ NodeBytes \in Nat \ {0} /\ \A b \in DataBytes : b \in Nat \ {0}
BY ListAssumption

\* The beginnings of a sequence.
LEMMA Prefix ==
  ASSUME NEW S, NEW c \in Seq(S)
  PROVE  /\ SubSeq(c, 1, 0) = << >> /\ SubSeq(c, 1, Len(c)) = c
         /\ \A i \in 1 .. Len(c) : Last(SubSeq(c, 1, i)) = c[i] /\ SubSeq(c, 1, i) # << >>
         /\ \A i \in 0 .. Len(c) - 1 : Append(SubSeq(c, 1, i), c[i + 1]) = SubSeq(c, 1, i + 1)
<1>1. Len(c) \in Nat /\ \A i \in 1 .. Len(c) : c[i] \in S
  BY LenProperties, ElementOfSeq
<1>2. ASSUME NEW i \in 0 .. Len(c)
      PROVE  /\ SubSeq(c, 1, i) \in Seq(S) /\ Len(SubSeq(c, 1, i)) = i
             /\ \A k \in 1 .. i : SubSeq(c, 1, i)[k] = c[k]
  <2>1. \A k \in 1 .. i : c[k] \in S
    BY <1>1
  <2> QED  BY <1>1, <2>1, SubSeqProperties
<1>3. SubSeq(c, 1, 0) = << >>
  BY <1>1, <1>2, EmptySeq
<1>4. SubSeq(c, 1, Len(c)) = c
  BY <1>1, <1>2, SeqEqual
<1>5. ASSUME NEW i \in 1 .. Len(c)
      PROVE  Last(SubSeq(c, 1, i)) = c[i] /\ SubSeq(c, 1, i) # << >>
  <2>1. i \in 0 .. Len(c) /\ i \in 1 .. i /\ i # 0
    BY <1>1
  <2> QED  BY <1>2, <2>1, EmptySeq DEF Last
<1>6. ASSUME NEW i \in 0 .. Len(c) - 1
      PROVE  Append(SubSeq(c, 1, i), c[i + 1]) = SubSeq(c, 1, i + 1)
  <2>1. PICK p, q, e : p = SubSeq(c, 1, i) /\ q = SubSeq(c, 1, i + 1) /\ e = c[i + 1]
    OBVIOUS
  <2>2. i \in 0 .. Len(c) /\ i + 1 \in 0 .. Len(c) /\ i + 1 \in 1 .. Len(c)
    BY <1>1
  <2>3. /\ p \in Seq(S) /\ Len(p) = i /\ \A k \in 1 .. i : p[k] = c[k]
        /\ q \in Seq(S) /\ Len(q) = i + 1 /\ \A k \in 1 .. i + 1 : q[k] = c[k]
        /\ e \in S
    BY <1>1, <1>2, <2>1, <2>2
  <2>4. Append(p, e) \in Seq(S) /\ Len(Append(p, e)) = i + 1 /\ Append(p, e)[i + 1] = e
        /\ \A k \in 1 .. i : Append(p, e)[k] = p[k]
    BY <2>3, AppendProperties
  <2>5. ASSUME NEW k \in 1 .. i + 1 PROVE Append(p, e)[k] = q[k]
    <3>1. k = i + 1 \/ k \in 1 .. i
      BY <2>2
    <3> QED  BY <2>1, <2>3, <2>4, <3>1
  <2>6. Append(p, e) = q
    BY <2>3, <2>4, <2>5, SeqEqual
  <2> QED  BY <2>1, <2>6
<1> QED  BY <1>3, <1>4, <1>5, <1>6

\* The records of a node and of a list.
Node == [data : Address, next : Pointer]

ListRecord == [at : Pointer, anchor : Pointer, count : Nat]

\* The list and its nodes are the chain c.
Linked(c, lst, nd) ==
  /\ c \in Seq(Address) /\ Unique(c) /\ lst \in ListRecord /\ lst.count = Len(c)
  /\ lst.anchor = IF Len(c) = 0 THEN NULL ELSE c[1]
  /\ lst.at = NULL => Len(c) = 0
  /\ DOMAIN nd = {c[i] : i \in 1 .. Len(c)}
  /\ \A i \in 1 .. Len(c) :
       nd[c[i]] \in Node /\ nd[c[i]].next = IF i = Len(c) THEN NULL ELSE c[i + 1]

\* A sequence without repetitions has as many elements as places.
LEMMA CountUnique ==
  ASSUME NEW S, NEW c \in Seq(S), Unique(c)
  PROVE  /\ IsFiniteSet({c[i] : i \in 1 .. Len(c)})
         /\ Cardinality({c[i] : i \in 1 .. Len(c)}) = Len(c)
<1>1. PICK n, T : n = Len(c) /\ T = {c[i] : i \in 1 .. n}
  OBVIOUS
<1>2. n \in Nat /\ DOMAIN c = 1 .. n /\ c = [i \in 1 .. n |-> c[i]]
  BY <1>1, LenProperties
<1>3. IsFiniteSet(1 .. n) /\ Cardinality(1 .. n) = n
  <2>1. n \in Int /\ 1 \in Int /\ (1 > n <=> n = 0) /\ n - 1 + 1 = n
    BY <1>2
  <2>2. IsFiniteSet(1 .. n) /\ Cardinality(1 .. n) = IF 1 > n THEN 0 ELSE n - 1 + 1
    BY ONLY <2>1, FS_Interval
  <2> QED  BY <2>1, <2>2
<1>4. c \in Surjection(1 .. n, T) /\ c \in Injection(1 .. n, T)
  <2>1. c \in [1 .. n -> T]
    BY <1>1, <1>2
  <2>2. \A t \in T : \E i \in 1 .. n : c[i] = t
    BY <1>1
  <2>3. \A i, j \in 1 .. n : c[i] = c[j] => i = j
    BY <1>2 DEF Unique
  <2> QED  BY <2>1, <2>2, <2>3 DEF Surjection, Injection, IsInjective
<1>5. IsFiniteSet(T) /\ Cardinality(T) = n
  BY <1>3, <1>4, FS_Surjection
<1> QED  BY <1>1, <1>5

\* The walk of Chain, for any list and nodes.
Step(chain, lst, nd) ==
  LET next == IF chain = << >> THEN lst.anchor ELSE nd[Last(chain)].next
  IN  IF next = NULL THEN chain ELSE Append(chain, next)

\* The value of Chain for them.
ChainOf(lst, nd) ==
  LET walk[i \in 0 .. HeapSize] == IF i = 0 THEN << >> ELSE Step(walk[i - 1], lst, nd)
  IN  walk[Cardinality(DOMAIN nd)]

\* The walk from the anchor finds the chain.
LEMMA ChainIs ==
  ASSUME NEW lst, NEW nd, NEW c, Linked(c, lst, nd)
  PROVE  ChainOf(lst, nd) = c
<1>1. PICK n : n = Len(c)
  OBVIOUS
<1>2. /\ c \in Seq(Address) /\ Unique(c) /\ lst.anchor = IF n = 0 THEN NULL ELSE c[1]
      /\ DOMAIN nd = {c[i] : i \in 1 .. n} /\ n \in Nat
      /\ \A i \in 1 .. n : nd[c[i]].next = IF i = n THEN NULL ELSE c[i + 1]
      /\ \A i \in 1 .. n : c[i] \in Address /\ c[i] # NULL
  BY <1>1, LenProperties, ElementOfSeq, HeapNumbers DEF Linked, Address
<1>3. Cardinality(DOMAIN nd) = n /\ n <= HeapSize
  <2>1. Cardinality(DOMAIN nd) = n
    BY <1>1, <1>2, CountUnique
  <2>2. DOMAIN nd \in SUBSET Address
    BY <1>2
  <2>3. IsFiniteSet(Address) /\ Cardinality(Address) = HeapSize
    BY FS_Interval, HeapNumbers DEF Address
  <2>4. Cardinality(DOMAIN nd) <= Cardinality(Address)
    BY <2>2, <2>3, FS_Subset
  <2> QED  BY <2>1, <2>3, <2>4
<1> DEFINE pre(i) == IF i <= n THEN SubSeq(c, 1, i) ELSE c
<1>4. ASSUME NEW i \in Nat PROVE Step(pre(i), lst, nd) = pre(i + 1)
  <2>1. CASE i = 0 /\ n = 0
    <3>1. c = << >> /\ lst.anchor = NULL
      BY <1>1, <1>2, <2>1, EmptySeq
    <3>2. pre(i) = SubSeq(c, 1, 0) /\ pre(i + 1) = c
      BY <2>1
    <3>3. pre(i) = << >>
      BY <1>2, <3>2, Prefix
    <3> HIDE DEF pre
    <3> QED  BY <3>1, <3>2, <3>3 DEF Step
  <2>2. CASE i = 0 /\ n # 0
    <3>1. /\ pre(i) = << >> /\ pre(i + 1) = SubSeq(c, 1, i + 1) /\ lst.anchor = c[1] /\ c[1] # NULL
          /\ 0 \in 0 .. n - 1
      BY <1>1, <1>2, <2>2, Prefix
    <3>2. Append(SubSeq(c, 1, 0), c[0 + 1]) = SubSeq(c, 1, 0 + 1)
      BY <1>1, <1>2, <3>1, Prefix
    <3>3. Append(<< >>, c[1]) = SubSeq(c, 1, i + 1)
      BY <1>2, <2>2, <3>2, Prefix
    <3> HIDE DEF pre
    <3> QED  BY <3>1, <3>3 DEF Step
  <2>3. CASE i # 0 /\ i < n
    <3>1. i \in 1 .. n /\ i \in 0 .. n - 1 /\ i + 1 \in 1 .. n /\ i # n
      BY <1>2, <2>3
    <3>2. /\ pre(i) = SubSeq(c, 1, i) /\ pre(i + 1) = SubSeq(c, 1, i + 1)
          /\ nd[c[i]].next = c[i + 1] /\ c[i + 1] # NULL
      BY <1>2, <3>1
    <3>3. /\ Last(SubSeq(c, 1, i)) = c[i] /\ SubSeq(c, 1, i) # << >>
          /\ Append(SubSeq(c, 1, i), c[i + 1]) = SubSeq(c, 1, i + 1)
      BY <1>1, <1>2, <3>1, Prefix
    <3> HIDE DEF pre
    <3> QED  BY <3>2, <3>3 DEF Step
  <2>4. CASE i # 0 /\ ~(i < n)
    <3>1. pre(i) = c /\ pre(i + 1) = c
      BY <1>1, <1>2, <2>4, Prefix
    <3>2. CASE n = 0
      <4>1. c = << >> /\ lst.anchor = NULL
        BY <1>1, <1>2, <3>2, EmptySeq
      <4> HIDE DEF pre
      <4> QED  BY <3>1, <4>1 DEF Step
    <3>3. CASE n # 0
      <4>1. n \in 1 .. n
        BY <1>2, <3>3
      <4>2. Last(c) = c[n] /\ c # << >> /\ nd[c[n]].next = NULL
        BY <1>1, <1>2, <3>3, <4>1, EmptySeq DEF Last
      <4> HIDE DEF pre
      <4> QED  BY <3>1, <4>2 DEF Step
    <3> QED  BY <3>2, <3>3
  <2> QED  BY <2>1, <2>2, <2>3, <2>4
<1>5. pre(0) = << >> /\ pre(n) = c
  BY <1>1, <1>2, Prefix
<1> HIDE DEF pre
<1> DEFINE W == CHOOSE w : w = [i \in 0 .. HeapSize |-> IF i = 0 THEN << >> ELSE Step(w[i - 1], lst, nd)]
<1>6. ChainOf(lst, nd) = W[n]
  BY <1>3 DEF ChainOf
<1>7. W = [i \in 0 .. HeapSize |-> IF i = 0 THEN << >> ELSE Step(W[i - 1], lst, nd)]
  <2>1. PICK v : v = [i \in 0 .. HeapSize |-> pre(i)]
    OBVIOUS
  <2>2. ASSUME NEW i \in 0 .. HeapSize
        PROVE  v[i] = IF i = 0 THEN << >> ELSE Step(v[i - 1], lst, nd)
    <3>1. CASE i = 0
      BY <1>5, <2>1, <3>1
    <3>2. CASE i # 0
      <4>1. i - 1 \in Nat /\ i - 1 \in 0 .. HeapSize /\ (i - 1) + 1 = i
        BY <3>2, HeapNumbers
      <4> QED  BY <1>4, <2>1, <3>2, <4>1
    <3> QED  BY <3>1, <3>2
  <2>3. v = [i \in 0 .. HeapSize |-> v[i]]
    BY <2>1
  <2>4. v = [i \in 0 .. HeapSize |-> IF i = 0 THEN << >> ELSE Step(v[i - 1], lst, nd)]
    BY <2>2, <2>3, Zenon
  <2> QED  BY <2>4
<1> HIDE DEF W
<1> DEFINE T == {i \in Nat : i <= n => W[i] = pre(i)}
<1>8. 0 \in T
  BY <1>5, <1>7, HeapNumbers
<1>9. ASSUME NEW i \in Nat, i \in T PROVE i + 1 \in T
  <2> SUFFICES ASSUME i + 1 <= n PROVE W[i + 1] = pre(i + 1)
    OBVIOUS
  <2>1. W[i] = pre(i)
    BY <1>2, <1>9
  <2>2. i + 1 \in 0 .. HeapSize /\ i + 1 # 0 /\ (i + 1) - 1 = i
    BY <1>2, <1>3, HeapNumbers
  <2> QED  BY <1>4, <1>7, <2>1, <2>2
<1>10. Nat \subseteq T
  <2> HIDE DEF T
  <2> QED  BY <1>8, <1>9, SetInduction
<1>11. W[n] = pre(n)
  <2>1. n \in T /\ n <= n
    BY <1>2, <1>10
  <2> QED  BY <2>1
<1> QED  BY <1>5, <1>6, <1>11

-----------------------------------------------------------------------------
(* The owners of the blocks                                                *)

\* The data of the nodes.
DataOf(nd) == {nd[n].data : n \in DOMAIN nd}

\* No two nodes have the same data.
DataOnce(nd) == \A m, n \in DOMAIN nd : nd[m].data = nd[n].data => m = n

\* The blocks in use are divided between nodes N, data D, the client and the list, but for
\* those that LS_Free refuses; those of nodes and the list have their magic number.
Divided(hd, N, D, hl, at) ==
  /\ N \cap D = {} /\ N \cap hl = {} /\ D \cap hl = {} /\ at \notin N \cup D \cup hl
  /\ NULL \notin DOMAIN hd
  /\ N \cup D \cup hl \subseteq DOMAIN hd /\ (at # NULL => at \in DOMAIN hd /\ hd[at].valid)
  /\ \A a \in N : hd[a].valid
  /\ \A a \in DOMAIN hd : hd[a].valid => a \in N \cup D \cup hl \cup {at}

\* Every block of a heap has its owner.
Owners(hp, lst, nd, hl) ==
  hl \subseteq Address /\ DataOnce(nd) /\ Divided(hp.header, DOMAIN nd, DataOf(nd), hl, lst.at)

\* The inductive invariant: the list is its chain, every block has an owner, the heap is sound.
ListInv == Linked(Chain, list, node) /\ Owners(heap, list, node, held) /\ Sound(heap)

-----------------------------------------------------------------------------
(* A chain with a node more or a node less                                 *)

\* What is needed of a chain, with the number of its nodes as a name.
Chained(c, n, lst, nd) ==
  /\ c \in Seq(Address) /\ n \in Nat /\ Len(c) = n /\ DOMAIN c = 1 .. n
  /\ \A i \in 1 .. n : c[i] \in Address /\ c[i] # NULL /\ c[i] \in DOMAIN nd
  /\ \A i, j \in 1 .. n : c[i] = c[j] => i = j
  /\ \A m \in DOMAIN nd : \E i \in 1 .. n : m = c[i]
  /\ \A i \in 1 .. n : nd[c[i]] \in Node /\ nd[c[i]].next = IF i = n THEN NULL ELSE c[i + 1]

\* A linked chain has these facts about it, and any chain with them is linked.
LEMMA LinkedIs ==
  ASSUME NEW c, NEW lst, NEW nd, Linked(c, lst, nd)
  PROVE  /\ Chained(c, Len(c), lst, nd) /\ lst \in ListRecord /\ lst.count = Len(c)
         /\ lst.anchor = (IF Len(c) = 0 THEN NULL ELSE c[1]) /\ (lst.at = NULL => Len(c) = 0)
<1>1. /\ c \in Seq(Address) /\ Unique(c)
      /\ DOMAIN nd = {c[i] : i \in 1 .. Len(c)}
      /\ \A i \in 1 .. Len(c) :
           nd[c[i]] \in Node /\ nd[c[i]].next = IF i = Len(c) THEN NULL ELSE c[i + 1]
  BY DEF Linked
<1>2. Len(c) \in Nat /\ DOMAIN c = 1 .. Len(c)
  BY <1>1, LenProperties
<1>3. \A i \in 1 .. Len(c) : c[i] \in Address /\ c[i] # NULL /\ c[i] \in DOMAIN nd
  <2>1. c \in Seq(Address)
    BY <1>1
  <2>2. \A i \in 1 .. Len(c) : c[i] \in Address
    BY ONLY <2>1, ElementOfSeq
  <2>3. \A a \in Address : a # NULL
    BY HeapNumbers DEF Address
  <2> QED  BY <1>1, <2>2, <2>3
<1>4. \A i, j \in 1 .. Len(c) : c[i] = c[j] => i = j
  BY <1>1, <1>2 DEF Unique
<1>5. ASSUME NEW m \in DOMAIN nd PROVE \E i \in 1 .. Len(c) : m = c[i]
  <2>1. DOMAIN nd = {c[i] : i \in 1 .. Len(c)}
    BY <1>1
  <2>2. m \in {c[i] : i \in 1 .. Len(c)}
    BY <1>5, <2>1
  <2> QED  BY ONLY <2>2
<1>6. Chained(c, Len(c), lst, nd)
  BY <1>1, <1>2, <1>3, <1>4, <1>5, Zenon DEF Chained
<1>7. /\ lst \in ListRecord /\ lst.count = Len(c)
      /\ lst.anchor = (IF Len(c) = 0 THEN NULL ELSE c[1]) /\ (lst.at = NULL => Len(c) = 0)
  BY DEF Linked
<1> QED  BY <1>6, <1>7

\* The converse.
LEMMA LinkedFrom ==
  ASSUME NEW c, NEW n, NEW lst, NEW nd, Chained(c, n, lst, nd), lst \in ListRecord, lst.count = n,
         lst.anchor = (IF n = 0 THEN NULL ELSE c[1]), lst.at = NULL => n = 0
  PROVE  Linked(c, lst, nd)
<1>1. /\ c \in Seq(Address) /\ n = Len(c) /\ DOMAIN c = 1 .. n
      /\ \A i \in 1 .. n : c[i] \in DOMAIN nd
      /\ \A i, j \in 1 .. n : c[i] = c[j] => i = j
      /\ \A m \in DOMAIN nd : \E i \in 1 .. n : m = c[i]
      /\ \A i \in 1 .. n : nd[c[i]] \in Node /\ nd[c[i]].next = IF i = n THEN NULL ELSE c[i + 1]
  BY DEF Chained
<1>2. DOMAIN nd = {c[i] : i \in 1 .. n}
  <2>1. ASSUME NEW m \in DOMAIN nd PROVE m \in {c[i] : i \in 1 .. n}
    BY <1>1
  <2>2. ASSUME NEW m \in {c[i] : i \in 1 .. n} PROVE m \in DOMAIN nd
    BY <1>1
  <2> QED  BY <2>1, <2>2
<1>3. Unique(c)
  BY <1>1 DEF Unique
<1> QED  BY <1>1, <1>2, <1>3 DEF Linked

\* The list record after a node more, or less, at the front or elsewhere.
Counted(lst, n, a) == [lst EXCEPT !.count = n, !.anchor = a]

\* Its fields.
LEMMA CountedIs ==
  ASSUME NEW lst \in ListRecord, NEW n \in Nat, NEW a \in Pointer
  PROVE  /\ Counted(lst, n, a) \in ListRecord /\ Counted(lst, n, a).count = n
         /\ Counted(lst, n, a).anchor = a /\ Counted(lst, n, a).at = lst.at
BY DEF Counted, ListRecord

\* A node behind the last one.
LEMMA LinkedAppend ==
  ASSUME NEW c, NEW lst, NEW nd, Linked(c, lst, nd), lst.at # NULL,
         NEW m \in Address, m # NULL, m \notin DOMAIN nd,
         NEW nd2, DOMAIN nd2 = DOMAIN nd \cup {m}, nd2[m] \in Node, nd2[m].next = NULL,
         \A x \in DOMAIN nd :
           /\ nd2[x] \in Node
           /\ nd2[x].next = IF Len(c) > 0 /\ x = c[Len(c)] THEN m ELSE nd[x].next
  PROVE  Linked(Append(c, m), Counted(lst, Len(c) + 1, IF lst.anchor = NULL THEN m ELSE lst.anchor), nd2)
<1>1. PICK n, c2, a : n = Len(c) /\ c2 = Append(c, m) /\ a = IF lst.anchor = NULL THEN m ELSE lst.anchor
  OBVIOUS
<1>2. /\ Chained(c, n, lst, nd) /\ lst \in ListRecord
      /\ lst.anchor = (IF n = 0 THEN NULL ELSE c[1])
  BY <1>1, LinkedIs
<1>3. /\ c \in Seq(Address) /\ n \in Nat
      /\ \A i \in 1 .. n : c[i] \in Address /\ c[i] # NULL /\ c[i] \in DOMAIN nd
      /\ \A i, j \in 1 .. n : c[i] = c[j] => i = j
      /\ \A x \in DOMAIN nd : \E i \in 1 .. n : x = c[i]
      /\ \A i \in 1 .. n : nd[c[i]].next = IF i = n THEN NULL ELSE c[i + 1]
  BY <1>2 DEF Chained
<1>4. /\ c2 \in Seq(Address) /\ Len(c2) = n + 1 /\ c2[n + 1] = m
      /\ \A i \in 1 .. n : c2[i] = c[i]
  BY <1>1, <1>3, AppendProperties
<1>5. DOMAIN c2 = 1 .. n + 1 /\ \A i \in 1 .. n + 1 : i = n + 1 \/ i \in 1 .. n
  BY <1>3, <1>4, LenProperties
<1>6. n + 1 \in 1 .. n + 1 /\ \A i \in 1 .. n : i \in 1 .. n + 1 /\ i # n + 1
  BY <1>3
<1>7. \A i \in 1 .. n + 1 : c2[i] \in Address /\ c2[i] # NULL /\ c2[i] \in DOMAIN nd2
  BY <1>3, <1>4, <1>5
<1>8. \A i, j \in 1 .. n + 1 : c2[i] = c2[j] => i = j
  BY <1>3, <1>4, <1>5
<1>9. ASSUME NEW x \in DOMAIN nd2 PROVE \E i \in 1 .. n + 1 : x = c2[i]
  <2>1. CASE x = m
    BY <1>4, <1>6, <2>1
  <2>2. CASE x # m
    <3>1. PICK i \in 1 .. n : x = c[i]
      BY <1>3, <2>2
    <3> QED  BY <1>4, <1>6, <3>1
  <2> QED  BY <2>1, <2>2
<1>10. ASSUME NEW i \in 1 .. n + 1
       PROVE  nd2[c2[i]] \in Node /\ nd2[c2[i]].next = IF i = n + 1 THEN NULL ELSE c2[i + 1]
  <2>1. CASE i = n + 1
    BY <1>4, <2>1
  <2>2. CASE i # n + 1
    <3>1. i \in 1 .. n /\ n > 0 /\ n \in 1 .. n /\ c2[i] = c[i] /\ c[i] \in DOMAIN nd
      BY <1>3, <1>4, <1>5, <2>2
    <3>2. c[i] = c[n] <=> i = n
      BY <1>3, <3>1
    <3>3. nd2[c[i]] \in Node /\ nd2[c[i]].next = IF i = n THEN m ELSE nd[c[i]].next
      BY <1>1, <3>1, <3>2
    <3>4. i # n => i + 1 \in 1 .. n
      BY <1>3, <3>1
    <3>5. i = n => nd2[c2[i]].next = m /\ c2[i + 1] = m
      BY <1>4, <3>1, <3>3
    <3>6. i # n => nd2[c2[i]].next = c[i + 1] /\ c2[i + 1] = c[i + 1]
      BY <1>3, <1>4, <3>1, <3>3, <3>4
    <3> QED  BY <2>2, <3>1, <3>3, <3>5, <3>6
  <2> QED  BY <2>1, <2>2
<1>11. Chained(c2, n + 1, Counted(lst, n + 1, a), nd2)
  BY <1>3, <1>4, <1>5, <1>7, <1>8, <1>9, <1>10 DEF Chained
<1>12. a = c2[1] /\ a \in Pointer
  <2>1. CASE n = 0
    BY <1>1, <1>2, <1>4, <2>1 DEF Pointer
  <2>2. CASE n # 0
    <3>1. 1 \in 1 .. n
      BY <1>3, <2>2
    <3> QED  BY <1>1, <1>2, <1>3, <1>4, <2>2, <3>1 DEF Pointer
  <2> QED  BY <2>1, <2>2
<1>13. n + 1 \in Nat /\ n + 1 # 0
  BY <1>3
<1>14. Linked(c2, Counted(lst, n + 1, a), nd2)
  BY <1>2, <1>11, <1>12, <1>13, CountedIs, LinkedFrom
<1> QED  BY <1>1, <1>14

\* A sequence with an element put in front.
LEMMA ConsProperties ==
  ASSUME NEW S, NEW c \in Seq(S), NEW m \in S
  PROVE  /\ << m >> \o c \in Seq(S) /\ Len(<< m >> \o c) = Len(c) + 1 /\ (<< m >> \o c)[1] = m
         /\ \A i \in 1 .. Len(c) : (<< m >> \o c)[i + 1] = c[i]
<1>1. PICK p, n : p = << m >> /\ n = Len(c)
  OBVIOUS
<1>2. p \in Seq(S) /\ Len(p) = 1 /\ p[1] = m /\ n \in Nat
  BY <1>1, LenProperties
<1>3. /\ p \o c \in Seq(S) /\ Len(p \o c) = 1 + n
      /\ \A i \in 1 .. 1 + n : (p \o c)[i] = IF i <= 1 THEN p[i] ELSE c[i - 1]
  BY <1>1, <1>2, ConcatProperties
<1>4. (p \o c)[1] = m
  BY <1>2, <1>3
<1>5. ASSUME NEW i \in 1 .. n PROVE (p \o c)[i + 1] = c[i]
  <2>1. i + 1 \in 1 .. 1 + n /\ ~(i + 1 <= 1) /\ (i + 1) - 1 = i
    BY <1>2
  <2> QED  BY <1>3, <2>1
<1>6. 1 + n = n + 1
  BY <1>2
<1> QED  BY <1>1, <1>3, <1>4, <1>5, <1>6

\* A node in front of the first one.
LEMMA LinkedCons ==
  ASSUME NEW c, NEW lst, NEW nd, Linked(c, lst, nd), lst.at # NULL,
         NEW m \in Address, m # NULL, m \notin DOMAIN nd,
         NEW nd2, DOMAIN nd2 = DOMAIN nd \cup {m}, nd2[m] \in Node, nd2[m].next = lst.anchor,
         \A x \in DOMAIN nd : nd2[x] = nd[x]
  PROVE  Linked(<< m >> \o c, Counted(lst, Len(c) + 1, m), nd2)
<1>1. PICK n, c2 : n = Len(c) /\ c2 = << m >> \o c
  OBVIOUS
<1>2. /\ Chained(c, n, lst, nd) /\ lst \in ListRecord
      /\ lst.anchor = (IF n = 0 THEN NULL ELSE c[1])
  BY <1>1, LinkedIs
<1>3. /\ c \in Seq(Address) /\ n \in Nat
      /\ \A i \in 1 .. n : c[i] \in Address /\ c[i] # NULL /\ c[i] \in DOMAIN nd
      /\ \A i, j \in 1 .. n : c[i] = c[j] => i = j
      /\ \A x \in DOMAIN nd : \E i \in 1 .. n : x = c[i]
      /\ \A i \in 1 .. n : nd[c[i]] \in Node /\ nd[c[i]].next = IF i = n THEN NULL ELSE c[i + 1]
  BY <1>2 DEF Chained
<1>4. /\ c2 \in Seq(Address) /\ Len(c2) = n + 1 /\ c2[1] = m
      /\ \A i \in 1 .. n : c2[i + 1] = c[i]
  BY <1>1, <1>3, ConsProperties
<1>5. /\ DOMAIN c2 = 1 .. n + 1 /\ 1 \in 1 .. n + 1 /\ n + 1 \in Nat
      /\ \A i \in 1 .. n : i + 1 \in 1 .. n + 1
      /\ \A i \in 1 .. n + 1 : i # 1 => i - 1 \in 1 .. n /\ (i - 1) + 1 = i
  BY <1>3, <1>4, LenProperties
<1>6. \A i \in 1 .. n + 1 : i # 1 => c2[i] = c[i - 1] /\ i - 1 \in 1 .. n
  BY <1>4, <1>5
<1>7. ASSUME NEW i \in 1 .. n + 1 PROVE c2[i] \in Address /\ c2[i] # NULL /\ c2[i] \in DOMAIN nd2
  <2>1. CASE i = 1
    <3>1. c2[i] = m
      BY <1>4, <2>1
    <3>2. m \in DOMAIN nd2
      OBVIOUS
    <3> QED  BY <3>1, <3>2
  <2>2. CASE i # 1
    <3>1. PICK k \in 1 .. n : c2[i] = c[k]
      BY <1>6, <2>2
    <3> QED  BY <1>3, <3>1
  <2> QED  BY <2>1, <2>2
<1>8. ASSUME NEW i \in 1 .. n + 1, NEW j \in 1 .. n + 1, c2[i] = c2[j] PROVE i = j
  <2>1. CASE i # 1 /\ j # 1
    <3>1. i - 1 = j - 1
      BY <1>3, <1>6, <1>8, <2>1
    <3> QED  BY <1>3, <3>1
  <2>2. CASE i = 1 \/ j = 1
    BY <1>3, <1>4, <1>6, <1>8, <2>2
  <2> QED  BY <2>1, <2>2
<1>9. ASSUME NEW x \in DOMAIN nd2 PROVE \E i \in 1 .. n + 1 : x = c2[i]
  <2>1. CASE x = m
    BY <1>4, <1>5, <2>1
  <2>2. CASE x # m
    <3>1. PICK i \in 1 .. n : x = c[i]
      BY <1>3, <2>2
    <3> QED  BY <1>4, <1>5, <3>1
  <2> QED  BY <2>1, <2>2
<1>10. ASSUME NEW i \in 1 .. n + 1
       PROVE  nd2[c2[i]] \in Node /\ nd2[c2[i]].next = IF i = n + 1 THEN NULL ELSE c2[i + 1]
  <2>1. CASE i = 1
    <3>1. CASE n = 0
      BY <1>2, <1>4, <2>1, <3>1
    <3>2. CASE n # 0
      <4>1. 1 \in 1 .. n /\ 1 # n + 1
        BY <1>3, <3>2
      <4>2. c2[1 + 1] = c[1]
        BY <1>4, <4>1
      <4> QED  BY <1>2, <1>4, <2>1, <3>2, <4>1, <4>2
    <3> QED  BY <3>1, <3>2
  <2>2. CASE i # 1
    <3>1. PICK k \in 1 .. n : i = k + 1
      BY <1>5, <2>2
    <3>2. c2[i] = c[k] /\ nd2[c[k]] = nd[c[k]] /\ (i = n + 1 <=> k = n)
      BY <1>3, <1>4, <3>1
    <3>3. k # n => k + 1 \in 1 .. n
      BY <1>3
    <3>4. k # n => c2[i + 1] = c[k + 1]
      BY <1>4, <3>1, <3>3
    <3> QED  BY <1>3, <3>2, <3>4
  <2> QED  BY <2>1, <2>2
<1>11. Chained(c2, n + 1, Counted(lst, n + 1, m), nd2)
  BY <1>4, <1>5, <1>7, <1>8, <1>9, <1>10 DEF Chained
<1>12. n + 1 \in Nat /\ n + 1 # 0 /\ m \in Pointer
  BY <1>3 DEF Pointer
<1>13. Linked(c2, Counted(lst, n + 1, m), nd2)
  BY <1>2, <1>4, <1>11, <1>12, CountedIs, LinkedFrom
<1> QED  BY <1>1, <1>13

\* The nodes without x.
Unlinked(nd, x) ==
  [m \in DOMAIN nd \ {x} |-> IF nd[m].next = x THEN [nd[m] EXCEPT !.next = nd[x].next] ELSE nd[m]]

\* The k-th node is unlinked.
LEMMA LinkedWithout ==
  ASSUME NEW c, NEW lst, NEW nd, Linked(c, lst, nd), NEW k \in 1 .. Len(c)
  PROVE  Linked(RemoveAt(c, k),
                Counted(lst, Len(c) - 1, IF k = 1 THEN nd[c[1]].next ELSE lst.anchor),
                Unlinked(nd, c[k]))
<1>1. PICK n, c2, nd2, a, x : /\ n = Len(c) /\ c2 = RemoveAt(c, k) /\ nd2 = Unlinked(nd, c[k])
                              /\ a = (IF k = 1 THEN nd[c[1]].next ELSE lst.anchor) /\ x = c[k]
  OBVIOUS
<1>2. /\ Chained(c, n, lst, nd) /\ lst \in ListRecord
      /\ lst.anchor = (IF n = 0 THEN NULL ELSE c[1]) /\ (lst.at = NULL => n = 0)
  BY <1>1, LinkedIs
<1>3. /\ c \in Seq(Address) /\ n \in Nat
      /\ \A i \in 1 .. n : c[i] \in Address /\ c[i] # NULL /\ c[i] \in DOMAIN nd
      /\ \A i, j \in 1 .. n : c[i] = c[j] => i = j
      /\ \A y \in DOMAIN nd : \E i \in 1 .. n : y = c[i]
      /\ \A i \in 1 .. n : nd[c[i]] \in Node /\ nd[c[i]].next = IF i = n THEN NULL ELSE c[i + 1]
  BY <1>2 DEF Chained
<1>4. k \in 1 .. n
  BY <1>1
<1>5. /\ c2 \in Seq(Address) /\ Len(c2) = n - 1
      /\ \A i \in 1 .. n - 1 : c2[i] = IF i < k THEN c[i] ELSE c[i + 1]
  <2>1. /\ RemoveAt(c, k) \in Seq(Address) /\ Len(RemoveAt(c, k)) = Len(c) - 1
        /\ \A i \in 1 .. Len(c) - 1 : RemoveAt(c, k)[i] = IF i < k THEN c[i] ELSE c[i + 1]
    BY <1>3, RemoveAtProperties
  <2> QED  BY <1>1, <2>1
<1>6. n - 1 \in Nat /\ DOMAIN c2 = 1 .. n - 1
  BY <1>3, <1>4, <1>5, LenProperties
<1> DEFINE up(i) == IF i < k THEN i ELSE i + 1
<1>7. /\ \A i \in 1 .. n - 1 : up(i) \in 1 .. n /\ up(i) # k /\ c2[i] = c[up(i)]
      /\ \A i, j \in 1 .. n - 1 : up(i) = up(j) => i = j
      /\ \A j \in 1 .. n : j # k => \E i \in 1 .. n - 1 : j = up(i)
      /\ \A i \in 1 .. n - 1 : up(i) + 1 # k => (up(i) = n <=> i = n - 1)
      /\ \A i \in 1 .. n - 1 : (up(i) + 1 # k /\ i # n - 1) => up(i + 1) = up(i) + 1
      /\ \A i \in 1 .. n - 1 : up(i) + 1 = k => (i = n - 1 <=> k = n)
      /\ \A i \in 1 .. n - 1 : (up(i) + 1 = k /\ i # n - 1) => up(i + 1) = k + 1
  <2>1. \A i \in 1 .. n - 1 : up(i) \in 1 .. n /\ up(i) # k
    BY <1>3, <1>4
  <2>2. \A i \in 1 .. n - 1 : c2[i] = c[up(i)]
    BY <1>5
  <2>3. ASSUME NEW i \in 1 .. n - 1, NEW j \in 1 .. n - 1, up(i) = up(j) PROVE i = j
    <3>1. i \in Int /\ j \in Int /\ k \in Int
      BY <1>3, <1>4
    <3>2. (IF i < k THEN i ELSE i + 1) = (IF j < k THEN j ELSE j + 1)
      BY <2>3
    <3> QED  BY ONLY <3>1, <3>2
  <2>4. ASSUME NEW j \in 1 .. n, j # k PROVE \E i \in 1 .. n - 1 : j = up(i)
    <3>1. CASE j < k
      <4>1. j \in 1 .. n - 1 /\ up(j) = j
        BY <1>3, <1>4, <3>1
      <4> QED  BY <4>1
    <3>2. CASE ~(j < k)
      <4>1. j - 1 \in 1 .. n - 1 /\ up(j - 1) = j
        BY <1>3, <1>4, <2>4, <3>2
      <4> QED  BY <4>1
    <3> QED  BY <3>1, <3>2
  <2>5. /\ \A i \in 1 .. n - 1 : up(i) + 1 # k => (up(i) = n <=> i = n - 1)
        /\ \A i \in 1 .. n - 1 : (up(i) + 1 # k /\ i # n - 1) => up(i + 1) = up(i) + 1
    BY <1>3, <1>4
  <2>6. /\ \A i \in 1 .. n - 1 : up(i) + 1 = k => (i = n - 1 <=> k = n)
        /\ \A i \in 1 .. n - 1 : (up(i) + 1 = k /\ i # n - 1) => up(i + 1) = k + 1
    BY <1>3, <1>4
  <2> HIDE DEF up
  <2> QED  BY <2>1, <2>2, <2>3, <2>4, <2>5, <2>6
<1> HIDE DEF up
<1>8. /\ DOMAIN nd2 = DOMAIN nd \ {x}
      /\ \A y \in DOMAIN nd \ {x} :
           nd2[y] = IF nd[y].next = x THEN [nd[y] EXCEPT !.next = nd[x].next] ELSE nd[y]
  BY <1>1 DEF Unlinked
<1>9. \A i \in 1 .. n : c[i] = x <=> i = k
  BY <1>1, <1>3, <1>4
<1>10. \A i \in 1 .. n - 1 : c2[i] \in Address /\ c2[i] # NULL /\ c2[i] \in DOMAIN nd2
  BY <1>3, <1>7, <1>8, <1>9
<1>11. ASSUME NEW i \in 1 .. n - 1, NEW j \in 1 .. n - 1, c2[i] = c2[j] PROVE i = j
  <2>1. up(i) \in 1 .. n /\ up(j) \in 1 .. n /\ c[up(i)] = c[up(j)]
    BY <1>7, <1>11
  <2> QED  BY <1>3, <1>7, <2>1
<1>12. ASSUME NEW y \in DOMAIN nd2 PROVE \E i \in 1 .. n - 1 : y = c2[i]
  <2>1. PICK j \in 1 .. n : y = c[j]
    BY <1>3, <1>8
  <2>2. j # k
    BY <1>8, <1>9, <2>1
  <2> QED  BY <1>7, <2>1, <2>2
<1>13. ASSUME NEW i \in 1 .. n - 1
       PROVE  nd2[c2[i]] \in Node /\ nd2[c2[i]].next = IF i = n - 1 THEN NULL ELSE c2[i + 1]
  <2>1. PICK j : j = up(i)
    OBVIOUS
  <2>2. /\ j \in 1 .. n /\ j # k /\ c2[i] = c[j] /\ c[j] \in DOMAIN nd \ {x}
        /\ (j + 1 # k => (j = n <=> i = n - 1)) /\ (j + 1 # k /\ i # n - 1 => up(i + 1) = j + 1)
        /\ (j + 1 = k => (i = n - 1 <=> k = n)) /\ (j + 1 = k /\ i # n - 1 => up(i + 1) = k + 1)
    BY <1>3, <1>7, <1>9, <2>1
  <2>3. i # n - 1 => i + 1 \in 1 .. n - 1
    BY <1>6
  <2>4. i # n - 1 => c2[i + 1] = c[up(i + 1)]
    BY <1>7, <2>3
  <2>5. nd[c[j]] \in Node /\ nd[c[j]].next = (IF j = n THEN NULL ELSE c[j + 1]) /\ nd[x] \in Node
    BY <1>1, <1>3, <1>4, <2>2
  <2>6. j # n => j + 1 \in 1 .. n
    BY <1>3, <2>2
  <2>7. CASE j + 1 = k
    <3>1. j # n /\ nd[c[j]].next = x
      BY <1>1, <1>3, <1>4, <2>2, <2>5, <2>7
    <3>2. nd2[c[j]] = [nd[c[j]] EXCEPT !.next = nd[x].next]
      BY <1>8, <2>2, <3>1
    <3>3. nd2[c[j]] \in Node /\ nd2[c[j]].next = nd[x].next
      BY <2>5, <3>2 DEF Node
    <3>4. nd[x].next = IF k = n THEN NULL ELSE c[k + 1]
      BY <1>1, <1>3, <1>4
    <3> QED  BY <2>2, <2>4, <2>7, <3>3, <3>4
  <2>8. CASE j + 1 # k
    <3>1. nd[c[j]].next # x
      <4>1. x # NULL
        BY <1>1, <1>3, <1>4
      <4> QED  BY <1>9, <2>5, <2>6, <2>8, <4>1
    <3>2. nd2[c[j]] = nd[c[j]]
      BY <1>8, <2>2, <3>1
    <3> QED  BY <2>2, <2>4, <2>5, <2>8, <3>2
  <2> QED  BY <2>7, <2>8
<1>14. Chained(c2, n - 1, Counted(lst, n - 1, a), nd2)
  BY <1>5, <1>6, <1>10, <1>11, <1>12, <1>13 DEF Chained
<1>15. a \in Pointer /\ a = IF n - 1 = 0 THEN NULL ELSE c2[1]
  <2>1. 1 \in 1 .. n /\ n # 0
    BY <1>3, <1>4
  <2>2. CASE n - 1 = 0
    <3>1. n = 1 /\ k = 1
      BY <1>3, <1>4, <2>2
    <3> QED  BY <1>1, <1>3, <2>1, <2>2, <3>1 DEF Pointer
  <2>3. CASE n - 1 # 0
    <3>1. 1 \in 1 .. n - 1 /\ n # 1 /\ 2 \in 1 .. n
      BY <1>3, <1>6, <2>3
    <3>2. c2[1] = IF 1 < k THEN c[1] ELSE c[2]
      BY <1>5, <3>1
    <3>3. 1 < k <=> k # 1
      BY <1>4
    <3> QED  BY <1>1, <1>2, <1>3, <2>1, <2>3, <3>1, <3>2, <3>3 DEF Pointer
  <2> QED  BY <2>2, <2>3
<1>16. lst.at # NULL
  BY <1>2, <1>3, <1>4
<1>17. PICK lst2 : lst2 = Counted(lst, n - 1, a)
  OBVIOUS
<1>18. lst2 \in ListRecord /\ lst2.count = n - 1 /\ lst2.anchor = a /\ lst2.at # NULL
  BY <1>2, <1>6, <1>15, <1>16, <1>17, CountedIs
<1>19. Linked(c2, lst2, nd2)
  BY ONLY <1>14, <1>15, <1>17, <1>18, LinkedFrom
<1> QED  BY <1>1, <1>17, <1>19

\* A list without nodes.
LEMMA LinkedNone ==
  ASSUME NEW lst \in ListRecord, lst.count = 0, lst.anchor = NULL
  PROVE  Linked(<< >>, lst, << >>)
<1>1. << >> \in Seq(Address) /\ Len(<< >>) = 0 /\ DOMAIN << >> = {}
  BY EmptySeq
<1> QED  BY <1>1 DEF Linked, Unique

-----------------------------------------------------------------------------
(* Blocks more and blocks less                                             *)

\* The headers with a block more, which is a new one.
OneNew(hd, hd2, a) ==
  /\ a \notin DOMAIN hd /\ a # NULL /\ DOMAIN hd2 = DOMAIN hd \cup {a} /\ hd2[a].valid
  /\ \A y \in DOMAIN hd : hd2[y] = hd[y]

\* The headers after the blocks of a set were freed.
Fewer(hd, hd2, B) ==
  /\ DOMAIN hd2 = DOMAIN hd \ {b \in B : hd[b].valid}
  /\ \A y \in DOMAIN hd2 : hd2[y] = hd[y]

\* A new block is none of those that have an owner.
LEMMA NewIsOther ==
  ASSUME NEW hd, NEW hd2, NEW a, OneNew(hd, hd2, a),
         NEW N, NEW D, NEW hl, NEW at, Divided(hd, N, D, hl, at)
  PROVE  a \notin N /\ a \notin D /\ a \notin hl /\ a # at
BY DEF OneNew, Divided

\* A new block becomes the list.
LEMMA DividedForList ==
  ASSUME NEW hd, NEW hd2, NEW a, OneNew(hd, hd2, a),
         NEW N, NEW D, NEW hl, Divided(hd, N, D, hl, NULL)
  PROVE  Divided(hd2, N, D, hl, a)
BY NewIsOther DEF OneNew, Divided

\* A new block becomes the client's.
LEMMA DividedForClient ==
  ASSUME NEW hd, NEW hd2, NEW a, OneNew(hd, hd2, a),
         NEW N, NEW D, NEW hl, NEW at, Divided(hd, N, D, hl, at)
  PROVE  Divided(hd2, N, D, hl \cup {a}, at)
BY NewIsOther DEF OneNew, Divided

\* A new block becomes a node, for a block of the client.
LEMMA DividedForNode ==
  ASSUME NEW hd, NEW hd2, NEW a, OneNew(hd, hd2, a),
         NEW N, NEW D, NEW hl, NEW at, Divided(hd, N, D, hl, at), NEW d \in hl
  PROVE  Divided(hd2, N \cup {a}, D \cup {d}, hl \ {d}, at)
<1>1. a \notin N /\ a \notin D /\ a \notin hl /\ a # at
  BY NewIsOther
<1>2. d # a /\ d \notin N
  BY <1>1 DEF Divided
<1> QED  BY <1>1, <1>2 DEF OneNew, Divided

\* A node is freed and its data goes to the client.
LEMMA DividedLessNode ==
  ASSUME NEW hd, NEW hd2, NEW B, Fewer(hd, hd2, B),
         NEW N, NEW D, NEW hl, NEW at, Divided(hd, N, D, hl, at),
         NEW x \in N, NEW d \in D, B = {x}
  PROVE  Divided(hd2, N \ {x}, D \ {d}, hl \cup {d}, at)
BY DEF Fewer, Divided

\* All nodes are freed and their data goes to the client.
LEMMA DividedLessNodes ==
  ASSUME NEW hd, NEW hd2, NEW B, Fewer(hd, hd2, B),
         NEW N, NEW D, NEW hl, NEW at, Divided(hd, N, D, hl, at), B = N
  PROVE  Divided(hd2, {}, {}, hl \cup D, at)
BY DEF Fewer, Divided

\* All nodes are freed with their data, but for the data that LS_Free refuses.
LEMMA DividedLessData ==
  ASSUME NEW hd, NEW hd2, NEW B, Fewer(hd, hd2, B),
         NEW N, NEW D, NEW hl, NEW at, Divided(hd, N, D, hl, at), B = N \cup D
  PROVE  Divided(hd2, {}, {}, hl, at)
BY DEF Fewer, Divided

\* The list is freed.
LEMMA DividedLessList ==
  ASSUME NEW hd, NEW hd2, NEW B, Fewer(hd, hd2, B),
         NEW N, NEW D, NEW hl, NEW at, Divided(hd, N, D, hl, at), B = {at}, at # NULL
  PROVE  Divided(hd2, N, D, hl, NULL)
BY DEF Fewer, Divided

\* The client frees a block, or forgets one that LS_Free refuses.
LEMMA DividedLessHeld ==
  ASSUME NEW hd, NEW hd2, NEW B, Fewer(hd, hd2, B),
         NEW N, NEW D, NEW hl, NEW at, Divided(hd, N, D, hl, at),
         NEW d \in hl, B = {d}
  PROVE  Divided(hd2, N, D, hl \ {d}, at)
BY DEF Fewer, Divided

\* A block of the client that has moved, or lost its magic number.
LEMMA DividedMoved ==
  ASSUME NEW hd, NEW hd2, NEW N, NEW D, NEW hl, NEW at, Divided(hd, N, D, hl, at),
         NEW d \in hl, NEW m, DOMAIN hd2 = (DOMAIN hd \ {d}) \cup {m},
         m = d \/ m \notin DOMAIN hd, m # NULL, \A y \in DOMAIN hd \ {d} : y # m => hd2[y] = hd[y]
  PROVE  Divided(hd2, N, D, (hl \ {d}) \cup {m}, at)
<1>1. d \notin N /\ d \notin D /\ d # at /\ d \in DOMAIN hd /\ m \notin N /\ m \notin D /\ m # at
  BY DEF Divided
<1>2. \A y \in N \cup D \cup (hl \ {d}) : y \in DOMAIN hd \ {d} /\ y # m
  BY <1>1 DEF Divided
<1>3. at # NULL => at \in DOMAIN hd \ {d} /\ at # m
  BY <1>1 DEF Divided
<1>4. \A y \in DOMAIN hd2 : y = m \/ (y \in DOMAIN hd \ {d} /\ hd2[y] = hd[y])
  OBVIOUS
<1> QED  BY <1>1, <1>2, <1>3, <1>4 DEF Divided

\* What the operations on a heap give, in these terms.
LEMMA GrownIs ==
  ASSUME NEW h, NEW g, NEW a, NEW u, Grown(h, g, a, u)
  PROVE  Sound(g) /\ OneNew(h.header, g.header, a) /\ a \in Address /\ a # NULL
<1>1. /\ Sound(g) /\ a \in Address /\ a \notin DOMAIN h.header
      /\ g.header = With(h.header, a, [units |-> u, valid |-> TRUE])
  BY DEF Grown
<1>2. a # NULL
  BY <1>1, HeapNumbers DEF Address
<1>3. /\ DOMAIN g.header = DOMAIN h.header \cup {a} /\ g.header[a] = [units |-> u, valid |-> TRUE]
      /\ g.header[a].valid
      /\ \A y \in DOMAIN h.header : g.header[y] = h.header[y]
  BY <1>1 DEF With
<1> QED  BY <1>1, <1>2, <1>3 DEF OneNew

\* LS_Free of a block, with or without its magic number.
LEMMA FreeIs ==
  ASSUME NEW h, Sound(h), NEW a \in DOMAIN h.header
  PROVE  Sound(Free(h, a)) /\ Fewer(h.header, Free(h, a).header, {a})
<1>1. CASE h.header[a].valid
  <2>1. Sound(Free(h, a)) /\ Free(h, a).header = Without(h.header, a)
    BY <1>1, FreeGives
  <2>2. {b \in {a} : h.header[b].valid} = {a}
    BY <1>1
  <2>3. DOMAIN Without(h.header, a) = DOMAIN h.header \ {a}
        /\ \A y \in DOMAIN h.header \ {a} : Without(h.header, a)[y] = h.header[y]
    BY DEF Without
  <2> QED  BY <2>1, <2>2, <2>3 DEF Fewer
<1>2. CASE ~h.header[a].valid
  <2>1. Free(h, a) = h
    BY <1>2 DEF Free
  <2>2. {b \in {a} : h.header[b].valid} = {}
    BY <1>2
  <2> QED  BY <2>1, <2>2 DEF Fewer
<1> QED  BY <1>1, <1>2

-----------------------------------------------------------------------------
(* The data                                                                *)

\* The data with a node more.
LEMMA DataMore ==
  ASSUME NEW nd, NEW nd2, NEW m, DOMAIN nd2 = DOMAIN nd \cup {m}, m \notin DOMAIN nd,
         \A x \in DOMAIN nd : nd2[x].data = nd[x].data
  PROVE  DataOf(nd2) = DataOf(nd) \cup {nd2[m].data}
<1>1. \A x \in DOMAIN nd : nd[x].data \in DataOf(nd) /\ x # m
  BY DEF DataOf
<1>2. ASSUME NEW e \in DataOf(nd2) PROVE e \in DataOf(nd) \cup {nd2[m].data}
  BY <1>1, <1>2 DEF DataOf
<1>3. ASSUME NEW e \in DataOf(nd) PROVE e \in DataOf(nd2)
  BY <1>1, <1>3 DEF DataOf
<1>4. nd2[m].data \in DataOf(nd2)
  BY DEF DataOf
<1> QED  BY <1>2, <1>3, <1>4

\* They stay different.
LEMMA DataMoreOnce ==
  ASSUME NEW nd, DataOnce(nd), NEW nd2, NEW m, DOMAIN nd2 = DOMAIN nd \cup {m}, m \notin DOMAIN nd,
         \A x \in DOMAIN nd : nd2[x].data = nd[x].data, nd2[m].data \notin DataOf(nd)
  PROVE  DataOnce(nd2)
<1>1. \A x \in DOMAIN nd : nd[x].data \in DataOf(nd) /\ x # m
  BY DEF DataOf
<1> QED  BY <1>1 DEF DataOnce

\* Unlinking a node leaves the data of the others.
LEMMA UnlinkedIs ==
  ASSUME NEW nd, \A m \in DOMAIN nd : nd[m] \in Node, NEW x \in DOMAIN nd
  PROVE  /\ DOMAIN Unlinked(nd, x) = DOMAIN nd \ {x}
         /\ \A m \in DOMAIN nd \ {x} : Unlinked(nd, x)[m].data = nd[m].data
<1>1. ASSUME NEW m \in DOMAIN nd \ {x} PROVE Unlinked(nd, x)[m].data = nd[m].data
  <2>1. Unlinked(nd, x)[m]
          = IF nd[m].next = x THEN [nd[m] EXCEPT !.next = nd[x].next] ELSE nd[m]
    BY DEF Unlinked
  <2>2. PICK e : e = nd[m]
    OBVIOUS
  <2>3. e \in Node
    BY <2>2
  <2>4. [e EXCEPT !.next = nd[x].next].data = e.data
    BY <2>3 DEF Node
  <2> QED  BY <2>1, <2>2, <2>4
<1> QED  BY <1>1 DEF Unlinked

\* The data with a node less.
LEMMA DataLess ==
  ASSUME NEW nd, DataOnce(nd), NEW x \in DOMAIN nd, \A m \in DOMAIN nd : nd[m] \in Node
  PROVE  /\ nd[x].data \in DataOf(nd) /\ DataOnce(Unlinked(nd, x))
         /\ DataOf(Unlinked(nd, x)) = DataOf(nd) \ {nd[x].data}
<1>1. PICK nd2 : nd2 = Unlinked(nd, x)
  OBVIOUS
<1>2. /\ DOMAIN nd2 = DOMAIN nd \ {x} /\ \A m \in DOMAIN nd \ {x} : nd2[m].data = nd[m].data
  BY <1>1, UnlinkedIs
<1>3. nd[x].data \in DataOf(nd)
  BY DEF DataOf
<1>4. DataOnce(nd2)
  BY <1>2 DEF DataOnce
<1>5. ASSUME NEW e \in DataOf(nd2) PROVE e \in DataOf(nd) \ {nd[x].data}
  <2>1. PICK m \in DOMAIN nd \ {x} : e = nd[m].data
    BY <1>2, <1>5 DEF DataOf
  <2>2. e # nd[x].data
    BY <2>1 DEF DataOnce
  <2> QED  BY <2>1, <2>2 DEF DataOf
<1>6. ASSUME NEW e \in DataOf(nd) \ {nd[x].data} PROVE e \in DataOf(nd2)
  <2>1. PICK m \in DOMAIN nd : e = nd[m].data
    BY <1>6 DEF DataOf
  <2>2. m \in DOMAIN nd2 /\ e = nd2[m].data
    BY <1>2, <1>6, <2>1
  <2> QED  BY <2>2 DEF DataOf
<1> QED  BY <1>1, <1>3, <1>4, <1>5, <1>6

\* The value of Items for a chain.
ItemsOf(c, nd) == [i \in DOMAIN c |-> nd[c[i]].data]

\* They are the data of the nodes, as many as the chain is long.
LEMMA ItemsAre ==
  ASSUME NEW c, NEW lst, NEW nd, Linked(c, lst, nd)
  PROVE  /\ ItemsOf(c, nd) \in Seq(Address) /\ Len(ItemsOf(c, nd)) = Len(c)
         /\ Len(c) \in Nat /\ DOMAIN ItemsOf(c, nd) = 1 .. Len(c)
         /\ \A i \in 1 .. Len(c) : ItemsOf(c, nd)[i] = nd[c[i]].data /\ nd[c[i]].data \in Address
         /\ \A m \in DOMAIN nd : nd[m] \in Node
         /\ DataOf(nd) = {ItemsOf(c, nd)[i] : i \in 1 .. Len(c)}
<1>1. PICK n : n = Len(c)
  OBVIOUS
<1>2. /\ n \in Nat /\ DOMAIN c = 1 .. n /\ \A i \in 1 .. n : c[i] \in DOMAIN nd /\ nd[c[i]] \in Node
      /\ \A m \in DOMAIN nd : \E i \in 1 .. n : m = c[i]
  <2>1. Chained(c, n, lst, nd)
    BY <1>1, LinkedIs
  <2> QED  BY <2>1 DEF Chained
<1>3. \A i \in 1 .. n : nd[c[i]].data \in Address
  BY <1>2 DEF Node
<1>4. ItemsOf(c, nd) = [i \in 1 .. n |-> nd[c[i]].data]
  BY <1>2 DEF ItemsOf
<1>5. ItemsOf(c, nd) \in [1 .. n -> Address]
  BY <1>3, <1>4
<1>6. ItemsOf(c, nd) \in Seq(Address)
  BY <1>2, <1>5
<1>7. Len(ItemsOf(c, nd)) = n
  BY <1>2, <1>5, <1>6, LenProperties
<1>8. ASSUME NEW e \in DataOf(nd) PROVE \E i \in 1 .. n : e = ItemsOf(c, nd)[i]
  <2>1. PICK m \in DOMAIN nd : e = nd[m].data
    BY <1>8 DEF DataOf
  <2> QED  BY <1>2, <1>4, <2>1
<1>9. ASSUME NEW i \in 1 .. n PROVE ItemsOf(c, nd)[i] \in DataOf(nd)
  BY <1>2, <1>4 DEF DataOf
<1>10. DataOf(nd) = {ItemsOf(c, nd)[i] : i \in 1 .. n}
  BY <1>8, <1>9
<1> QED  BY <1>1, <1>2, <1>3, <1>4, <1>6, <1>7, <1>10

\* The items of a chain with a node more at its end.
LEMMA ItemsAppend ==
  ASSUME NEW c, NEW lst, NEW nd, Linked(c, lst, nd), NEW m, NEW lst2, NEW nd2,
         Linked(Append(c, m), lst2, nd2), m \in Address,
         \A x \in DOMAIN nd : nd2[x].data = nd[x].data
  PROVE  /\ Len(ItemsOf(Append(c, m), nd2)) = Len(ItemsOf(c, nd)) + 1
         /\ Front(ItemsOf(Append(c, m), nd2)) = ItemsOf(c, nd)
<1>1. PICK n, s, t, c2 : n = Len(c) /\ s = ItemsOf(c, nd) /\ c2 = Append(c, m) /\ t = ItemsOf(c2, nd2)
  OBVIOUS
<1>2. /\ s \in Seq(Address) /\ Len(s) = n /\ n \in Nat /\ \A i \in 1 .. n : s[i] = nd[c[i]].data
      /\ t \in Seq(Address) /\ Len(t) = Len(c2) /\ \A i \in 1 .. Len(c2) : t[i] = nd2[c2[i]].data
  <2>1. s \in Seq(Address) /\ Len(s) = n /\ n \in Nat /\ \A i \in 1 .. n : s[i] = nd[c[i]].data
    BY <1>1, ItemsAre
  <2>2. Linked(c2, lst2, nd2)
    BY <1>1
  <2>3. /\ ItemsOf(c2, nd2) \in Seq(Address) /\ Len(ItemsOf(c2, nd2)) = Len(c2)
        /\ Len(c2) \in Nat /\ DOMAIN ItemsOf(c2, nd2) = 1 .. Len(c2)
        /\ \A i \in 1 .. Len(c2) :
             ItemsOf(c2, nd2)[i] = nd2[c2[i]].data /\ nd2[c2[i]].data \in Address
        /\ \A x \in DOMAIN nd2 : nd2[x] \in Node
        /\ DataOf(nd2) = {ItemsOf(c2, nd2)[i] : i \in 1 .. Len(c2)}
    BY ONLY <2>2, ItemsAre
  <2>4. t \in Seq(Address) /\ Len(t) = Len(c2) /\ \A i \in 1 .. Len(c2) : t[i] = nd2[c2[i]].data
    BY <1>1, <2>3
  <2> QED  BY <2>1, <2>4
<1>3. c \in Seq(Address) /\ \A i \in 1 .. n : c[i] \in DOMAIN nd
  <2>1. Chained(c, n, lst, nd)
    BY <1>1, LinkedIs
  <2> QED  BY <2>1 DEF Chained
<1>4. Len(c2) = n + 1 /\ \A i \in 1 .. n : c2[i] = c[i]
  BY <1>1, <1>3, AppendProperties
<1>5. \A i \in 1 .. n : t[i] = s[i] /\ t[i] \in Address
  <2>1. \A i \in 1 .. n : i \in 1 .. Len(c2) /\ i \in 1 .. Len(t)
    BY <1>2, <1>4
  <2>2. \A i \in 1 .. n : t[i] = s[i]
    BY <1>2, <1>3, <1>4, <2>1
  <2> QED  BY <1>2, <2>1, <2>2, ElementOfSeq
<1>6. Front(t) = SubSeq(t, 1, n)
  <2>1. Len(t) - 1 = n
    BY <1>2, <1>4
  <2> QED  BY <2>1 DEF Front
<1>7. /\ SubSeq(t, 1, n) \in Seq(Address) /\ Len(SubSeq(t, 1, n)) = n
      /\ \A i \in 1 .. n : SubSeq(t, 1, n)[i] = t[i]
  BY <1>2, <1>5, SubSeqProperties
<1>8. SubSeq(t, 1, n) = s
  BY <1>2, <1>5, <1>7, SeqEqual
<1> QED  BY <1>1, <1>2, <1>4, <1>6, <1>8

\* The items of a chain with a node more at its beginning.
LEMMA ItemsCons ==
  ASSUME NEW c, NEW lst, NEW nd, Linked(c, lst, nd), NEW m, NEW lst2, NEW nd2,
         Linked(<< m >> \o c, lst2, nd2), m \in Address,
         \A x \in DOMAIN nd : nd2[x].data = nd[x].data
  PROVE  /\ Len(ItemsOf(<< m >> \o c, nd2)) = Len(ItemsOf(c, nd)) + 1
         /\ Tail(ItemsOf(<< m >> \o c, nd2)) = ItemsOf(c, nd)
<1>1. PICK n, s, t, c2 : n = Len(c) /\ s = ItemsOf(c, nd) /\ c2 = << m >> \o c /\ t = ItemsOf(c2, nd2)
  OBVIOUS
<1>2. /\ s \in Seq(Address) /\ Len(s) = n /\ n \in Nat /\ \A i \in 1 .. n : s[i] = nd[c[i]].data
      /\ t \in Seq(Address) /\ Len(t) = Len(c2) /\ \A i \in 1 .. Len(c2) : t[i] = nd2[c2[i]].data
  <2>1. s \in Seq(Address) /\ Len(s) = n /\ n \in Nat /\ \A i \in 1 .. n : s[i] = nd[c[i]].data
    BY <1>1, ItemsAre
  <2>2. Linked(c2, lst2, nd2)
    BY <1>1
  <2>3. /\ ItemsOf(c2, nd2) \in Seq(Address) /\ Len(ItemsOf(c2, nd2)) = Len(c2)
        /\ Len(c2) \in Nat /\ DOMAIN ItemsOf(c2, nd2) = 1 .. Len(c2)
        /\ \A i \in 1 .. Len(c2) :
             ItemsOf(c2, nd2)[i] = nd2[c2[i]].data /\ nd2[c2[i]].data \in Address
        /\ \A x \in DOMAIN nd2 : nd2[x] \in Node
        /\ DataOf(nd2) = {ItemsOf(c2, nd2)[i] : i \in 1 .. Len(c2)}
    BY ONLY <2>2, ItemsAre
  <2>4. t \in Seq(Address) /\ Len(t) = Len(c2) /\ \A i \in 1 .. Len(c2) : t[i] = nd2[c2[i]].data
    BY <1>1, <2>3
  <2> QED  BY <2>1, <2>4
<1>3. c \in Seq(Address) /\ \A i \in 1 .. n : c[i] \in DOMAIN nd
  <2>1. Chained(c, n, lst, nd)
    BY <1>1, LinkedIs
  <2> QED  BY <2>1 DEF Chained
<1>4. Len(c2) = n + 1 /\ \A i \in 1 .. n : c2[i + 1] = c[i]
  BY <1>1, <1>3, ConsProperties
<1>5. ASSUME NEW i \in 1 .. n PROVE t[i + 1] = s[i]
  <2>1. i + 1 \in 1 .. Len(c2) /\ c2[i + 1] = c[i]
    BY <1>2, <1>4
  <2>2. t[i + 1] = nd2[c[i]].data
    BY <1>2, <2>1
  <2>3. nd2[c[i]].data = nd[c[i]].data
    BY <1>3
  <2>4. s[i] = nd[c[i]].data
    BY <1>2
  <2> QED  BY ONLY <2>2, <2>3, <2>4
<1>6. t # << >>
  <2>1. Len(t) # 0
    BY <1>2, <1>4
  <2> QED  BY <2>1, EmptySeq
<1>7. /\ Tail(t) \in Seq(Address) /\ Len(Tail(t)) = Len(t) - 1
      /\ \A i \in 1 .. Len(Tail(t)) : Tail(t)[i] = t[i + 1]
  BY <1>2, <1>6, HeadTailProperties
<1>8. Len(Tail(t)) = n
  BY <1>2, <1>4, <1>7
<1>9. Tail(t) = s
  BY <1>2, <1>5, <1>7, <1>8, SeqEqual
<1> QED  BY <1>1, <1>2, <1>4, <1>9

\* The items of a chain with a node less.
LEMMA ItemsWithout ==
  ASSUME NEW c, NEW lst, NEW nd, Linked(c, lst, nd), NEW k \in 1 .. Len(c), NEW lst2,
         Linked(RemoveAt(c, k), lst2, Unlinked(nd, c[k]))
  PROVE  ItemsOf(RemoveAt(c, k), Unlinked(nd, c[k])) = RemoveAt(ItemsOf(c, nd), k)
<1>1. PICK n, s, t, c2, nd2 : /\ n = Len(c) /\ s = ItemsOf(c, nd) /\ c2 = RemoveAt(c, k)
                              /\ nd2 = Unlinked(nd, c[k]) /\ t = ItemsOf(c2, nd2)
  OBVIOUS
<1>2. /\ s \in Seq(Address) /\ Len(s) = n /\ n \in Nat /\ \A i \in 1 .. n : s[i] = nd[c[i]].data
      /\ t \in Seq(Address) /\ Len(t) = Len(c2) /\ \A i \in 1 .. Len(c2) : t[i] = nd2[c2[i]].data
      /\ \A m \in DOMAIN nd : nd[m] \in Node
  BY <1>1, ItemsAre
<1>3. /\ c \in Seq(Address) /\ \A i \in 1 .. n : c[i] \in DOMAIN nd
      /\ \A i, j \in 1 .. n : c[i] = c[j] => i = j
  <2>1. Chained(c, n, lst, nd)
    BY <1>1, LinkedIs
  <2> QED  BY <2>1 DEF Chained
<1>4. k \in 1 .. n /\ k \in 1 .. Len(s)
  BY <1>1, <1>2
<1>5. /\ Len(c2) = n - 1
      /\ \A i \in 1 .. n - 1 : c2[i] = IF i < k THEN c[i] ELSE c[i + 1]
  <2>1. /\ RemoveAt(c, k) \in Seq(Address) /\ Len(RemoveAt(c, k)) = Len(c) - 1
        /\ \A i \in 1 .. Len(c) - 1 : RemoveAt(c, k)[i] = IF i < k THEN c[i] ELSE c[i + 1]
    BY <1>3, RemoveAtProperties
  <2> QED  BY <1>1, <2>1
<1>6. /\ RemoveAt(s, k) \in Seq(Address) /\ Len(RemoveAt(s, k)) = n - 1
      /\ \A i \in 1 .. n - 1 : RemoveAt(s, k)[i] = IF i < k THEN s[i] ELSE s[i + 1]
  <2>1. /\ RemoveAt(s, k) \in Seq(Address) /\ Len(RemoveAt(s, k)) = Len(s) - 1
        /\ \A i \in 1 .. Len(s) - 1 : RemoveAt(s, k)[i] = IF i < k THEN s[i] ELSE s[i + 1]
    BY <1>2, <1>4, RemoveAtProperties
  <2> QED  BY <1>2, <2>1
<1>7. \A m \in DOMAIN nd \ {c[k]} : nd2[m].data = nd[m].data
  <2>1. c[k] \in DOMAIN nd
    BY <1>3, <1>4
  <2>2. \A m \in DOMAIN nd \ {c[k]} : Unlinked(nd, c[k])[m].data = nd[m].data
    BY <1>2, <2>1, UnlinkedIs
  <2> QED  BY <1>1, <2>2
<1>8. ASSUME NEW i \in 1 .. n - 1 PROVE t[i] = RemoveAt(s, k)[i]
  <2>1. t[i] = nd2[c2[i]].data
    BY <1>2, <1>5
  <2>2. CASE i < k
    <3>1. i \in 1 .. n /\ i # k
      BY <1>2, <1>4, <2>2
    <3>2. c[i] \in DOMAIN nd \ {c[k]}
      BY <1>3, <1>4, <3>1
    <3> QED  BY <1>2, <1>5, <1>6, <1>7, <2>1, <2>2, <3>1, <3>2
  <2>3. CASE ~(i < k)
    <3>1. i + 1 \in 1 .. n /\ i + 1 # k
      BY <1>2, <1>4, <2>3
    <3>2. c[i + 1] \in DOMAIN nd \ {c[k]}
      BY <1>3, <1>4, <3>1
    <3> QED  BY <1>2, <1>5, <1>6, <1>7, <2>1, <2>3, <3>1, <3>2
  <2> QED  BY <2>2, <2>3
<1>9. t = RemoveAt(s, k)
  BY <1>2, <1>5, <1>6, <1>8, SeqEqual
<1> QED  BY <1>1, <1>9

-----------------------------------------------------------------------------
(* The invariant, before and after a step                                  *)

\* The chain of the state, when a chain is known.
LEMMA ChainNow ==
  ASSUME NEW c, Linked(c, list, node)
  PROVE  Chain = c /\ Length = Len(c) /\ Items = ItemsOf(c, node)
<1>1. Chain = ChainOf(list, node)
  BY DEF Chain, Walked, ChainOf, Step
<1>2. Chain = c
  BY <1>1, ChainIs
<1>3. Length = Len(c)
  BY <1>2 DEF Length
<1>4. Items = ItemsOf(c, node)
  BY <1>2 DEF Items, ItemsOf
<1> QED  BY <1>2, <1>3, <1>4

\* The invariant after a step, from the chain the step makes.
LEMMA InvAgain ==
  ASSUME NEW c, Linked(c, list', node'), Owners(heap', list', node', held'), Sound(heap'),
         build' = build
  PROVE  ListInv' /\ Items' = ItemsOf(c, node')
<1>1. Chain' = ChainOf(list', node')
  BY DEF Chain, Walked, ChainOf, Step
<1>2. Chain' = c
  BY <1>1, ChainIs
<1>3. Items' = ItemsOf(c, node')
  BY <1>2 DEF Items, ItemsOf
<1>4. Sound(heap)'
  BY DEF Sound, Tiled
<1>5. ListInv'
  BY <1>2, <1>4 DEF ListInv
<1> QED  BY <1>3, <1>5

-----------------------------------------------------------------------------
(* The operations                                                          *)

\* The invariant before a step, in its parts.
LEMMA InvIs ==
  ASSUME ListInv
  PROVE  /\ Linked(Chain, list, node) /\ Length = Len(Chain) /\ Items = ItemsOf(Chain, node)
         /\ Sound(heap) /\ held \subseteq Address /\ DataOnce(node)
         /\ Divided(heap.header, DOMAIN node, DataOf(node), held, list.at)
         /\ list \in ListRecord /\ list.count = Len(Chain) /\ (list.at = NULL => Len(Chain) = 0)
         /\ list.anchor = (IF Len(Chain) = 0 THEN NULL ELSE Chain[1])
         /\ Chained(Chain, Len(Chain), list, node)
<1>1. Linked(Chain, list, node) /\ Owners(heap, list, node, held) /\ Sound(heap)
  BY DEF ListInv
<1>2. Length = Len(Chain) /\ Items = ItemsOf(Chain, node)
  BY <1>1, ChainNow
<1> QED  BY <1>1, <1>2, LinkedIs DEF Owners

\* The chain does not depend on where the list record is.
LEMMA SameChain ==
  ASSUME NEW c, NEW lst, NEW nd, Linked(c, lst, nd), NEW lst2 \in ListRecord,
         lst2.count = lst.count, lst2.anchor = lst.anchor, lst2.at = NULL => Len(c) = 0
  PROVE  Linked(c, lst2, nd)
BY DEF Linked

\* A call that fails, or leaves the list and the client's blocks alone.
LEMMA NothingDone ==
  ASSUME ListInv, UNCHANGED << build, heap, list, node, held >>
  PROVE  ListInv' /\ Items' = Items
<1>1. /\ Linked(Chain, list, node) /\ Owners(heap, list, node, held) /\ Sound(heap)
      /\ Items = ItemsOf(Chain, node)
  BY InvIs DEF ListInv
<1>2. Linked(Chain, list', node') /\ Owners(heap', list', node', held') /\ Sound(heap')
  BY <1>1
<1> QED  BY <1>1, <1>2, InvAgain

\* LS_ListInit
LEMMA CreateStep ==
  ASSUME ListInv, Create
  PROVE  ListInv' /\ Items' = Items
<1>1. PICK m \in Mallocs(heap, ListBytes) : heap' = m.heap /\ list' = [NoList EXCEPT !.at = m.at]
  BY DEF Create
<1>2. list.at = NULL /\ UNCHANGED << build, node, held >>
  BY DEF Create
<1>3. PICK c, a, g : c = Chain /\ a = m.at /\ g = m.heap
  OBVIOUS
<1>4. /\ Linked(c, list, node) /\ Items = ItemsOf(c, node) /\ Sound(heap)
      /\ held \subseteq Address /\ DataOnce(node) /\ list \in ListRecord
      /\ Divided(heap.header, DOMAIN node, DataOf(node), held, list.at)
      /\ list.count = Len(c) /\ Len(c) = 0 /\ list.anchor = NULL
  BY <1>2, <1>3, InvIs
<1>5. Gives(heap, m)
  BY <1>4, ListBytesAre, MallocGives
<1>6. /\ a = NULL \/ a \in Address
      /\ list' = [at |-> a, anchor |-> NULL, count |-> 0]
  BY <1>1, <1>3, <1>5 DEF Gives, Grown, NoList
<1>7. Linked(c, list', node')
  <2>1. list' \in ListRecord /\ list'.count = 0 /\ list'.anchor = NULL
    BY <1>6 DEF ListRecord, Pointer
  <2> QED  BY <1>2, <1>4, <2>1, SameChain
<1>8. Sound(heap') /\ Divided(heap'.header, DOMAIN node, DataOf(node), held, list'.at)
  <2>1. CASE a = NULL
    BY <1>1, <1>2, <1>3, <1>4, <1>5, <1>6, <2>1 DEF Gives
  <2>2. CASE a # NULL
    <3>1. PICK u : Grown(heap, g, a, u)
      BY <1>3, <1>5, <2>2 DEF Gives
    <3>2. Sound(g) /\ OneNew(heap.header, g.header, a)
      BY <3>1, GrownIs
    <3>3. PICK N, D, at : /\ N = DOMAIN node /\ D = DataOf(node) /\ at = list.at
                          /\ Divided(heap.header, N, D, held, NULL)
      BY <1>2, <1>4
    <3>4. Divided(g.header, N, D, held, a)
      BY ONLY <3>2, <3>3, DividedForList
    <3>5. Divided(g.header, DOMAIN node, DataOf(node), held, a)
      BY <1>2, <3>3, <3>4
    <3> QED  BY <1>1, <1>3, <1>6, <3>2, <3>5
  <2> QED  BY <2>1, <2>2
<1>9. Owners(heap', list', node', held')
  BY <1>2, <1>4, <1>8 DEF Owners
<1> QED  BY <1>2, <1>4, <1>7, <1>8, <1>9, InvAgain

\* f are the nodes with one more.
NewNode(f, d, nxt, m) ==
  /\ DOMAIN f = DOMAIN node \cup {m}
  /\ f[m] = [data |-> d, next |-> nxt] /\ f[m] \in Node
  /\ \A x \in DOMAIN node : x # m => f[x] = node[x]

\* A node that is put in front.
LEMMA WithNodeIs ==
  ASSUME NEW d \in Address, NEW nxt \in Pointer, NEW m \in Address
  PROVE  NewNode(WithNode(d, nxt, m), d, nxt, m)
BY DEF NewNode, WithNode, With, Node

\* A node that is put behind the last one.
LEMMA LinkedLastIs ==
  ASSUME ListInv, NEW d \in Address, NEW m \in Address, m \notin DOMAIN node, m # NULL
  PROVE  /\ DOMAIN LinkedLast(d, m) = DOMAIN node \cup {m}
         /\ LinkedLast(d, m)[m] \in Node /\ LinkedLast(d, m)[m].next = NULL
         /\ LinkedLast(d, m)[m].data = d
         /\ \A x \in DOMAIN node :
              /\ LinkedLast(d, m)[x] \in Node /\ LinkedLast(d, m)[x].data = node[x].data
              /\ LinkedLast(d, m)[x].next
                   = IF Len(Chain) > 0 /\ x = Chain[Len(Chain)] THEN m ELSE node[x].next
<1>1. PICK c, n, f : c = Chain /\ n = Len(c) /\ f = WithNode(d, NULL, m)
  OBVIOUS
<1>2. /\ Length = n /\ Chained(c, n, list, node) /\ n \in Nat
      /\ list.anchor = (IF n = 0 THEN NULL ELSE c[1])
  BY <1>1, InvIs DEF Chained
<1>3. /\ DOMAIN f = DOMAIN node \cup {m} /\ f[m] = [data |-> d, next |-> NULL] /\ f[m] \in Node
      /\ \A x \in DOMAIN node : f[x] = node[x] /\ x # m
  <2>1. d \in Address /\ m \in Address /\ NULL \in Pointer
    BY DEF Pointer
  <2>2. NewNode(f, d, NULL, m)
    BY <1>1, <2>1, WithNodeIs
  <2>3. \A x \in DOMAIN node : x # m
    OBVIOUS
  <2> QED  BY ONLY <2>2, <2>3 DEF NewNode
<1>4. \A x \in DOMAIN node : node[x] \in Node
  BY <1>2 DEF Chained
<1>5. f[m].next = NULL /\ f[m].data = d
  BY <1>3
<1>6. CASE n = 0
  <2>1. LinkedLast(d, m) = f
    BY <1>1, <1>2, <1>6 DEF LinkedLast
  <2>2. ~(n > 0)
    BY <1>6
  <2> QED  BY <1>1, <1>3, <1>4, <1>5, <2>1, <2>2
<1>7. CASE n # 0
  <2>1. n \in 1 .. n /\ 1 \in 1 .. n /\ n > 0
    BY <1>2, <1>7
  <2>2. c[n] \in DOMAIN node /\ c[1] # NULL
    BY <1>2, <2>1 DEF Chained
  <2>3. LinkedLast(d, m) = [f EXCEPT ![c[n]].next = m]
    BY <1>1, <1>2, <1>7, <2>2 DEF LinkedLast
  <2>4. PICK g, e, l : g = [f EXCEPT ![c[n]].next = m] /\ e = f[c[n]] /\ l = c[n]
    OBVIOUS
  <2>5. DOMAIN g = DOMAIN f /\ g[l] = [e EXCEPT !.next = m] /\ \A x \in DOMAIN f : x # l => g[x] = f[x]
    BY <1>3, <2>2, <2>4
  <2>6. e \in Node /\ e = node[l]
    BY <1>3, <1>4, <2>2, <2>4
  <2>7. g[l] \in Node /\ g[l].next = m /\ g[l].data = e.data
    BY <2>5, <2>6 DEF Node, Pointer
  <2>8. m # l
    BY <2>2, <2>4
  <2>9. g[m] = f[m]
    BY <1>3, <2>5, <2>8
  <2>10. ASSUME NEW x \in DOMAIN node
         PROVE  /\ g[x] \in Node /\ g[x].data = node[x].data
                /\ g[x].next = IF x = l THEN m ELSE node[x].next
    BY <1>3, <1>4, <2>5, <2>6, <2>7
  <2> QED  BY <1>1, <1>3, <1>5, <2>1, <2>3, <2>4, <2>5, <2>9, <2>10
<1> QED  BY <1>6, <1>7

\* What a node more for d makes of the owners, wherever it is linked.
LEMMA NodeMore ==
  ASSUME ListInv, NEW d \in held, NEW m, NEW g, NEW u, Grown(heap, g, m, u),
         NEW nd2, DOMAIN nd2 = DOMAIN node \cup {m}, nd2[m].data = d,
         \A x \in DOMAIN node : nd2[x].data = node[x].data
  PROVE  \A lst2 : lst2.at = list.at => Owners(g, lst2, nd2, held \ {d})
<1>1. PICK N, D, at : N = DOMAIN node /\ D = DataOf(node) /\ at = list.at
  OBVIOUS
<1>2. Divided(heap.header, N, D, held, at) /\ held \subseteq Address /\ DataOnce(node)
  BY <1>1, InvIs
<1>3. OneNew(heap.header, g.header, m)
  BY GrownIs
<1>4. m \notin N /\ Divided(g.header, N \cup {m}, D \cup {d}, held \ {d}, at)
  BY <1>2, <1>3, NewIsOther, DividedForNode
<1>5. d \notin D
  BY <1>2 DEF Divided
<1>6. DataOnce(nd2) /\ DataOf(nd2) = D \cup {d}
  <2>1. m \notin DOMAIN node /\ d \notin DataOf(node)
    BY <1>1, <1>4, <1>5
  <2>2. DataOnce(nd2) /\ DataOf(nd2) = DataOf(node) \cup {d}
    <3>1. DataOnce(node) /\ nd2[m].data \notin DataOf(node)
      BY <1>2, <2>1
    <3>2. /\ DOMAIN nd2 = DOMAIN node \cup {m} /\ m \notin DOMAIN node
          /\ \A x \in DOMAIN node : nd2[x].data = node[x].data
      BY <2>1
    <3>3. DataOf(nd2) = DataOf(node) \cup {nd2[m].data}
      BY ONLY <3>2, DataMore
    <3>4. DataOnce(nd2)
      BY ONLY <3>1, <3>2, DataMoreOnce
    <3> QED  BY <3>3, <3>4
  <2> QED  BY <1>1, <2>2
<1>7. held \ {d} \subseteq Address
  BY <1>2
<1> QED  BY <1>1, <1>4, <1>6, <1>7 DEF Owners

\* LS_ListAppend
LEMMA AppendStep ==
  ASSUME ListInv, NEW d \in held, ListAppend(d)
  PROVE  /\ ListInv' /\ (list'.at = NULL <=> list.at = NULL)
         /\ Items' = Items \/ (Len(Items') = Len(Items) + 1 /\ Front(Items') = Items)
<1>1. /\ list.at # NULL /\ build' = build
      /\ \E m \in Mallocs(heap, NodeBytes) :
           /\ heap' = m.heap
           /\ IF m.at = NULL THEN UNCHANGED << list, node, held >>
              ELSE /\ node' = LinkedLast(d, m.at)
                   /\ list' = [list EXCEPT !.count = @ + 1,
                                           !.anchor = IF @ = NULL THEN m.at ELSE @]
                   /\ held' = held \ {d}
  BY DEF ListAppend
<1>2. PICK m \in Mallocs(heap, NodeBytes) :
        /\ heap' = m.heap
        /\ IF m.at = NULL THEN UNCHANGED << list, node, held >>
           ELSE /\ node' = LinkedLast(d, m.at)
                /\ list' = [list EXCEPT !.count = @ + 1,
                                        !.anchor = IF @ = NULL THEN m.at ELSE @]
                /\ held' = held \ {d}
  BY <1>1
<1>3. Gives(heap, m)
  BY InvIs, ListBytesAre, MallocGives
<1>4. CASE m.at = NULL
  <2>1. UNCHANGED << build, heap, list, node, held >>
    BY <1>1, <1>2, <1>3, <1>4 DEF Gives
  <2> QED  BY <2>1, NothingDone
<1>5. CASE m.at # NULL
  <2>1. PICK a, g, c : a = m.at /\ g = m.heap /\ c = Chain
    OBVIOUS
  <2>2. PICK u : Grown(heap, g, a, u)
    BY <1>3, <1>5, <2>1 DEF Gives
  <2>3. Sound(g) /\ a \in Address /\ a # NULL /\ OneNew(heap.header, g.header, a)
    BY <2>2, GrownIs
  <2>4. /\ Linked(c, list, node) /\ Items = ItemsOf(c, node) /\ list \in ListRecord /\ list.count = Len(c)
        /\ DOMAIN node \subseteq DOMAIN heap.header /\ d \in Address
    BY <2>1, InvIs DEF Divided
  <2>5. a \notin DOMAIN node
    BY <2>3, <2>4 DEF OneNew
  <2>6. heap' = g /\ node' = LinkedLast(d, a) /\ held' = held \ {d}
        /\ list' = Counted(list, Len(c) + 1, IF list.anchor = NULL THEN a ELSE list.anchor)
    BY <1>2, <1>5, <2>1, <2>4 DEF Counted
  <2>7. /\ DOMAIN node' = DOMAIN node \cup {a}
        /\ node'[a] \in Node /\ node'[a].next = NULL /\ node'[a].data = d
        /\ \A x \in DOMAIN node :
             /\ node'[x] \in Node /\ node'[x].data = node[x].data
             /\ node'[x].next = IF Len(c) > 0 /\ x = c[Len(c)] THEN a ELSE node[x].next
    <3>1. ListInv /\ d \in Address /\ a \in Address /\ a \notin DOMAIN node /\ a # NULL
      BY <2>3, <2>4, <2>5
    <3>2. /\ DOMAIN LinkedLast(d, a) = DOMAIN node \cup {a}
          /\ LinkedLast(d, a)[a] \in Node /\ LinkedLast(d, a)[a].next = NULL
          /\ LinkedLast(d, a)[a].data = d
          /\ \A x \in DOMAIN node :
               /\ LinkedLast(d, a)[x] \in Node /\ LinkedLast(d, a)[x].data = node[x].data
               /\ LinkedLast(d, a)[x].next
                    = IF Len(Chain) > 0 /\ x = Chain[Len(Chain)] THEN a ELSE node[x].next
      BY ONLY <3>1, LinkedLastIs, Zenon
    <3> QED  BY <2>1, <2>6, <3>2
  <2>8. list'.at = list.at
    BY <2>4, <2>6 DEF Counted, ListRecord
  <2>9. Linked(Append(c, a), list', node')
    <3>1. PICK nd2, an, lst2 : /\ nd2 = node' /\ an = (IF list.anchor = NULL THEN a ELSE list.anchor)
                              /\ lst2 = Counted(list, Len(c) + 1, an)
      OBVIOUS
    <3>2. Linked(c, list, node) /\ list.at # NULL /\ a \in Address /\ a # NULL /\ a \notin DOMAIN node
      BY <1>1, <2>3, <2>4, <2>5
    <3>3. /\ DOMAIN nd2 = DOMAIN node \cup {a} /\ nd2[a] \in Node /\ nd2[a].next = NULL
          /\ \A x \in DOMAIN node :
               /\ nd2[x] \in Node
               /\ nd2[x].next = IF Len(c) > 0 /\ x = c[Len(c)] THEN a ELSE node[x].next
      BY <2>7, <3>1
    <3>4. Linked(Append(c, a), Counted(list, Len(c) + 1, IF list.anchor = NULL THEN a ELSE list.anchor), nd2)
      BY ONLY <3>2, <3>3, LinkedAppend, Zenon
    <3> QED  BY <2>6, <3>1, <3>4
  <2>10. Owners(heap', list', node', held')
    BY <2>2, <2>6, <2>7, <2>8, NodeMore
  <2>11. ListInv' /\ Items' = ItemsOf(Append(c, a), node')
    BY <1>1, <2>3, <2>6, <2>9, <2>10, InvAgain
  <2>12. Len(Items') = Len(Items) + 1 /\ Front(Items') = Items
    BY <2>3, <2>4, <2>7, <2>9, <2>11, ItemsAppend
  <2> QED  BY <2>8, <2>11, <2>12
<1> QED  BY <1>4, <1>5

\* LS_ListPreAppend
LEMMA PreAppendStep ==
  ASSUME ListInv, NEW d \in held, ListPreAppend(d)
  PROVE  /\ ListInv' /\ (list'.at = NULL <=> list.at = NULL)
         /\ Items' = Items \/ (Len(Items') = Len(Items) + 1 /\ Tail(Items') = Items)
<1>1. /\ list.at # NULL /\ build' = build
      /\ \E m \in Mallocs(heap, NodeBytes) :
           /\ heap' = m.heap
           /\ IF m.at = NULL THEN UNCHANGED << list, node, held >>
              ELSE /\ node' = WithNode(d, list.anchor, m.at)
                   /\ list' = [list EXCEPT !.count = @ + 1, !.anchor = m.at]
                   /\ held' = held \ {d}
  BY DEF ListPreAppend
<1>2. PICK m \in Mallocs(heap, NodeBytes) :
        /\ heap' = m.heap
        /\ IF m.at = NULL THEN UNCHANGED << list, node, held >>
           ELSE /\ node' = WithNode(d, list.anchor, m.at)
                /\ list' = [list EXCEPT !.count = @ + 1, !.anchor = m.at]
                /\ held' = held \ {d}
  BY <1>1
<1>3. Gives(heap, m)
  BY InvIs, ListBytesAre, MallocGives
<1>4. CASE m.at = NULL
  <2>1. UNCHANGED << build, heap, list, node, held >>
    BY <1>1, <1>2, <1>3, <1>4 DEF Gives
  <2> QED  BY <2>1, NothingDone
<1>5. CASE m.at # NULL
  <2>1. PICK a, g, c : a = m.at /\ g = m.heap /\ c = Chain
    OBVIOUS
  <2>2. PICK u : Grown(heap, g, a, u)
    BY <1>3, <1>5, <2>1 DEF Gives
  <2>3. Sound(g) /\ a \in Address /\ a # NULL /\ OneNew(heap.header, g.header, a)
    BY <2>2, GrownIs
  <2>4. /\ Linked(c, list, node) /\ Items = ItemsOf(c, node) /\ list \in ListRecord /\ list.count = Len(c)
        /\ DOMAIN node \subseteq DOMAIN heap.header /\ d \in Address
    BY <2>1, InvIs DEF Divided
  <2>5. a \notin DOMAIN node /\ list.anchor \in Pointer
    BY <2>3, <2>4 DEF OneNew, ListRecord
  <2>6. heap' = g /\ node' = WithNode(d, list.anchor, a) /\ held' = held \ {d}
        /\ list' = Counted(list, Len(c) + 1, a)
    BY <1>2, <1>5, <2>1, <2>4 DEF Counted
  <2>7. /\ DOMAIN node' = DOMAIN node \cup {a}
        /\ node'[a] \in Node /\ node'[a].next = list.anchor /\ node'[a].data = d
        /\ \A x \in DOMAIN node : node'[x] = node[x]
    <3>1. PICK f, nxt : f = WithNode(d, nxt, a) /\ nxt = list.anchor
      OBVIOUS
    <3>2. d \in Address /\ a \in Address /\ nxt \in Pointer
      BY <2>3, <2>4, <2>5, <3>1
    <3>3. NewNode(f, d, nxt, a)
      BY <3>1, <3>2, WithNodeIs
    <3>4. f[a].data = d /\ f[a].next = nxt
      BY <3>3 DEF NewNode
    <3> QED  BY <2>5, <2>6, <3>1, <3>3, <3>4 DEF NewNode
  <2>8. list'.at = list.at
    BY <2>4, <2>6 DEF Counted, ListRecord
  <2>9. Linked(<< a >> \o c, list', node')
    <3>1. Linked(<< a >> \o c, Counted(list, Len(c) + 1, a), node')
      BY ONLY <1>1, <2>3, <2>4, <2>5, <2>7, LinkedCons, Zenon
    <3> QED  BY <2>6, <3>1
  <2>10. Owners(heap', list', node', held')
    BY <2>2, <2>6, <2>7, <2>8, NodeMore
  <2>11. ListInv' /\ Items' = ItemsOf(<< a >> \o c, node')
    BY <1>1, <2>3, <2>6, <2>9, <2>10, InvAgain
  <2>12. Len(Items') = Len(Items) + 1 /\ Tail(Items') = Items
    BY <2>3, <2>4, <2>7, <2>9, <2>11, ItemsCons
  <2> QED  BY <2>8, <2>11, <2>12
<1> QED  BY <1>4, <1>5

\* The functions that take one node out.
LEMMA UnlinkStep ==
  ASSUME ListInv, NEW k \in 1 .. Length, Unlink(k)
  PROVE  /\ ListInv' /\ (list'.at = NULL <=> list.at = NULL) /\ k \in DOMAIN Items
         /\ Items' = RemoveAt(Items, k)
<1>1. PICK c, x, d, N, D, at : /\ c = Chain /\ x = c[k] /\ d = node[x].data /\ N = DOMAIN node
                               /\ D = DataOf(node) /\ at = list.at
  OBVIOUS
<1>2. /\ Linked(c, list, node) /\ Length = Len(c) /\ Items = ItemsOf(c, node) /\ Sound(heap)
      /\ held \subseteq Address /\ DataOnce(node) /\ Divided(heap.header, N, D, held, at)
      /\ list \in ListRecord /\ list.count = Len(c) /\ Chained(c, Len(c), list, node)
  BY <1>1, InvIs
<1>3. k \in 1 .. Len(c)
  BY <1>2
<1>4. x \in N /\ \A m \in N : node[m] \in Node
  BY <1>1, <1>2, <1>3 DEF Chained
<1>5. Items[k] = d /\ d \in Address /\ k \in DOMAIN Items
  BY <1>1, <1>2, <1>3, ItemsAre
<1>6. /\ node' = Unlinked(node, c[k]) /\ heap' = Free(heap, x) /\ held' = held \cup {d} /\ build' = build
      /\ list' = Counted(list, Len(c) - 1, IF k = 1 THEN node[c[1]].next ELSE list.anchor)
  BY <1>1, <1>2, <1>5 DEF Unlink, WithoutNode, HeapWithoutNode, Unlinked, Counted
<1>7. Linked(RemoveAt(c, k), list', node')
  <2>1. Linked(RemoveAt(c, k),
               Counted(list, Len(c) - 1, IF k = 1 THEN node[c[1]].next ELSE list.anchor),
               Unlinked(node, c[k]))
    BY ONLY <1>2, <1>3, LinkedWithout, Zenon
  <2> QED  BY <1>6, <2>1
<1>8. d \in D /\ DataOnce(node') /\ DataOf(node') = D \ {d} /\ DOMAIN node' = N \ {x}
  <2>1. /\ node[x].data \in DataOf(node) /\ DataOnce(Unlinked(node, x))
        /\ DataOf(Unlinked(node, x)) = DataOf(node) \ {node[x].data}
    BY <1>1, <1>2, <1>4, DataLess, Zenon
  <2>2. DOMAIN Unlinked(node, x) = N \ {x}
    BY <1>1 DEF Unlinked
  <2>3. Unlinked(node, c[k]) = Unlinked(node, x)
    BY <1>1
  <2>4. node' = Unlinked(node, x)
    BY <1>6, <2>3
  <2>5. d \in D /\ DataOf(node') = D \ {d} /\ DOMAIN node' = N \ {x}
    BY <1>1, <2>1, <2>2, <2>4
  <2>6. DataOnce(node')
    BY <2>1, <2>4
  <2> QED  BY <2>5, <2>6
<1>9. Sound(heap') /\ Fewer(heap.header, heap'.header, {x})
  <2>1. x \in DOMAIN heap.header
    BY <1>2, <1>4 DEF Divided
  <2>2. Sound(Free(heap, x)) /\ Fewer(heap.header, Free(heap, x).header, {x})
    BY <1>2, <2>1, FreeIs
  <2> QED  BY <1>6, <2>2
<1>10. Divided(heap'.header, N \ {x}, D \ {d}, held \cup {d}, at)
  <2>1. PICK hd, hd2, hl : hd = heap.header /\ hd2 = heap'.header /\ hl = held
    OBVIOUS
  <2>2. Fewer(hd, hd2, {x}) /\ Divided(hd, N, D, hl, at) /\ x \in N /\ d \in D
    BY <1>2, <1>4, <1>8, <1>9, <2>1
  <2>3. Divided(hd2, N \ {x}, D \ {d}, hl \cup {d}, at)
    BY ONLY <2>2, DividedLessNode
  <2> QED  BY <2>1, <2>3
<1>11. list'.at = at
  BY <1>1, <1>2, <1>6 DEF Counted, ListRecord
<1>12. Owners(heap', list', node', held')
  <2>1. held' \subseteq Address
    BY <1>2, <1>5, <1>6
  <2> QED  BY <1>6, <1>8, <1>10, <1>11, <2>1 DEF Owners
<1>13. ListInv' /\ Items' = ItemsOf(RemoveAt(c, k), node')
  BY <1>6, <1>7, <1>9, <1>12, InvAgain
<1>14. Items' = RemoveAt(Items, k)
  <2>1. node' = Unlinked(node, c[k])
    BY <1>6
  <2>2. ItemsOf(RemoveAt(c, k), Unlinked(node, c[k])) = RemoveAt(ItemsOf(c, node), k)
    BY <1>2, <1>3, <1>7, <2>1, ItemsWithout
  <2> QED  BY <1>2, <1>13, <2>1, <2>2
<1> QED  BY <1>1, <1>5, <1>11, <1>13, <1>14

\* Nothing, in all these terms.
LEMMA NoneIs ==
  /\ DOMAIN << >> = {} /\ DataOf(<< >>) = {} /\ DataOnce(<< >>)
  /\ ItemsOf(<< >>, << >>) = << >>
<1>1. << >> \in Seq({}) /\ Len(<< >>) = 0 /\ DOMAIN << >> = {}
  BY EmptySeq
<1>2. DataOf(<< >>) = {} /\ DataOnce(<< >>)
  BY <1>1 DEF DataOf, DataOnce
<1>3. ItemsOf(<< >>, << >>) = << >>
  BY <1>1 DEF ItemsOf
<1> QED  BY <1>1, <1>2, <1>3

\* LS_ListEmpty
LEMMA EmptyStep ==
  ASSUME ListInv, ListEmpty
  PROVE  ListInv' /\ list.at # NULL /\ list'.at # NULL /\ Items' = << >>
<1>1. PICK c, N, D, at, g, hl : /\ c = Chain /\ N = DOMAIN node /\ D = DataOf(node) /\ at = list.at
                                /\ g = FreeAll(heap, c) /\ hl = held
  OBVIOUS
<1>2. /\ Linked(c, list, node) /\ Length = Len(c) /\ Items = ItemsOf(c, node) /\ Sound(heap)
      /\ held \subseteq Address /\ Divided(heap.header, N, D, hl, at)
      /\ list \in ListRecord /\ Chained(c, Len(c), list, node)
  BY <1>1, InvIs
<1>3. /\ at # NULL /\ heap' = g /\ list' = Emptied /\ node' = << >> /\ build' = build
      /\ held' = held \cup {Items[i] : i \in 1 .. Length}
  BY <1>1 DEF ListEmpty
<1>4. D \subseteq Address /\ held' = held \cup D
  BY <1>1, <1>2, <1>3, ItemsAre
<1>5. After(heap, g, N)
  <2>1. /\ c \in Seq(Address) /\ \A i \in 1 .. Len(c) : c[i] \in N
        /\ \A i, j \in 1 .. Len(c) : c[i] = c[j] => i = j /\ \A m \in N : \E k \in 1 .. Len(c) : m = c[k]
    BY <1>1, <1>2 DEF Chained
  <2>2. N = {c[i] : i \in 1 .. Len(c)}
    BY <1>1, <1>2 DEF Linked
  <2>3. \A i \in 1 .. Len(c) : c[i] \in DOMAIN heap.header
    BY <1>2, <2>1 DEF Divided
  <2>4. \A i, j \in 1 .. Len(c) : c[i] = c[j] => i = j
    BY <1>2 DEF Chained
  <2>5. After(heap, FreeAll(heap, c), {c[i] : i \in 1 .. Len(c)})
    BY <1>2, <2>1, <2>3, <2>4, FreeAllGives
  <2> QED  BY <1>1, <2>2, <2>5
<1>6. Sound(heap') /\ Divided(heap'.header, {}, {}, hl \cup D, at)
  <2>1. PICK hd, hd2 : hd = heap.header /\ hd2 = g.header
    OBVIOUS
  <2>2. Fewer(hd, hd2, N)
    BY <1>5, <2>1 DEF After, Fewer
  <2>3. Divided(hd, N, D, hl, at)
    BY <1>2, <2>1
  <2>4. Divided(hd2, {}, {}, hl \cup D, at)
    BY ONLY <2>2, <2>3, DividedLessNodes
  <2>5. Sound(g)
    BY <1>5 DEF After
  <2> QED  BY <1>3, <2>1, <2>4, <2>5
<1>7. list' \in ListRecord /\ list'.count = 0 /\ list'.anchor = NULL /\ list'.at = at
  BY <1>1, <1>2, <1>3 DEF Emptied, ListRecord, Pointer
<1>8. Linked(<< >>, list', << >>)
  BY <1>7, LinkedNone
<1>9. DOMAIN << >> = {} /\ DataOf(<< >>) = {} /\ DataOnce(<< >>) /\ ItemsOf(<< >>, << >>) = << >>
  BY NoneIs
<1>10. Owners(heap', list', << >>, held')
  <2>1. held' \subseteq Address
    BY <1>2, <1>4
  <2>2. Divided(heap'.header, DOMAIN << >>, DataOf(<< >>), held', list'.at)
    BY <1>1, <1>4, <1>6, <1>7, <1>9
  <2> QED  BY <1>9, <2>1, <2>2 DEF Owners
<1>11. ListInv' /\ Items' = ItemsOf(<< >>, node')
  BY <1>3, <1>6, <1>8, <1>10, InvAgain
<1> QED  BY <1>1, <1>3, <1>7, <1>9, <1>11

\* The blocks that LS_ListEmptyData frees, by turns a data and its node.
Interleaved(s, c, n) == [i \in 1 .. 2 * n |-> IF i % 2 = 1 THEN s[(i + 1) \div 2] ELSE c[i \div 2]]

\* The places of the first and of the second sequence.
LEMMA Halves ==
  ASSUME NEW n \in Nat, NEW i \in 1 .. 2 * n
  PROVE  /\ i % 2 = 1 => (i + 1) \div 2 \in 1 .. n /\ i = 2 * ((i + 1) \div 2) - 1
         /\ i % 2 # 1 => i \div 2 \in 1 .. n /\ i = 2 * (i \div 2)
<1>1. PICK q, r : q = i \div 2 /\ r = i % 2
  OBVIOUS
<1>2. q \in Int /\ r \in 0 .. 1 /\ i = 2 * q + r
  BY <1>1
<1>3. PICK p : p = (i + 1) \div 2
  OBVIOUS
<1>4. ASSUME r = 1 PROVE p = q + 1
  BY <1>2, <1>3, <1>4
<1> QED  BY <1>1, <1>2, <1>3, <1>4

\* The converse.
LEMMA Doubles ==
  ASSUME NEW n \in Nat, NEW k \in 1 .. n
  PROVE  /\ 2 * k \in 1 .. 2 * n /\ (2 * k) % 2 # 1 /\ (2 * k) \div 2 = k
         /\ 2 * k - 1 \in 1 .. 2 * n /\ (2 * k - 1) % 2 = 1 /\ (2 * k - 1 + 1) \div 2 = k
OBVIOUS

\* A sequence lists each element of two others once.
Lists(b, s, c, n, S) ==
  /\ b \in Seq(S) /\ Len(b) = 2 * n
  /\ \A i, j \in 1 .. 2 * n : b[i] = b[j] => i = j
  /\ {b[i] : i \in 1 .. 2 * n} = {s[i] : i \in 1 .. n} \cup {c[i] : i \in 1 .. n}

\* Two sequences with nothing in common, interleaved.
LEMMA InterleavedIs ==
  ASSUME NEW S, NEW n \in Nat, NEW s, NEW c, \A i \in 1 .. n : s[i] \in S /\ c[i] \in S,
         \A i, j \in 1 .. n : s[i] = s[j] => i = j, \A i, j \in 1 .. n : c[i] = c[j] => i = j,
         \A i, j \in 1 .. n : s[i] # c[j]
  PROVE  Lists(Interleaved(s, c, n), s, c, n, S)
<1> DEFINE b == Interleaved(s, c, n)
           up(i) == (i + 1) \div 2
           down(i) == i \div 2
<1>2. /\ b = [i \in 1 .. 2 * n |-> b[i]]
      /\ \A i \in 1 .. 2 * n : b[i] = IF i % 2 = 1 THEN s[up(i)] ELSE c[down(i)]
  BY DEF Interleaved
<1>3. \A i \in 1 .. 2 * n : /\ i % 2 = 1 => up(i) \in 1 .. n /\ i = 2 * up(i) - 1
                            /\ i % 2 # 1 => down(i) \in 1 .. n /\ i = 2 * down(i)
  BY Halves
<1>4. \A k \in 1 .. n : /\ 2 * k \in 1 .. 2 * n /\ (2 * k) % 2 # 1 /\ down(2 * k) = k
                        /\ 2 * k - 1 \in 1 .. 2 * n /\ (2 * k - 1) % 2 = 1 /\ up(2 * k - 1) = k
  BY Doubles
<1> HIDE DEF b, up, down
<1>5. \A i \in 1 .. 2 * n : b[i] \in S
  BY <1>2, <1>3
<1>6. b \in Seq(S) /\ Len(b) = 2 * n
  <2>1. b \in [1 .. 2 * n -> S] /\ 2 * n \in Nat
    BY <1>2, <1>5
  <2>2. b \in Seq(S)
    BY <2>1
  <2> QED  BY <2>1, <2>2, LenProperties
<1>7. ASSUME NEW i \in 1 .. 2 * n, NEW j \in 1 .. 2 * n, b[i] = b[j] PROVE i = j
  <2>1. CASE i % 2 = 1 /\ j % 2 = 1
    <3>1. s[up(i)] = s[up(j)] /\ up(i) \in 1 .. n /\ up(j) \in 1 .. n
      BY <1>2, <1>3, <1>7, <2>1
    <3>2. up(i) = up(j)
      BY <3>1
    <3> QED  BY <1>3, <2>1, <3>2
  <2>2. CASE i % 2 # 1 /\ j % 2 # 1
    <3>1. c[down(i)] = c[down(j)] /\ down(i) \in 1 .. n /\ down(j) \in 1 .. n
      BY <1>2, <1>3, <1>7, <2>2
    <3>2. down(i) = down(j)
      BY <3>1
    <3> QED  BY <1>3, <2>2, <3>2
  <2>3. CASE i % 2 = 1 /\ j % 2 # 1
    <3>1. s[up(i)] = c[down(j)] /\ up(i) \in 1 .. n /\ down(j) \in 1 .. n
      BY <1>2, <1>3, <1>7, <2>3
    <3> QED  BY <3>1
  <2>4. CASE i % 2 # 1 /\ j % 2 = 1
    <3>1. s[up(j)] = c[down(i)] /\ up(j) \in 1 .. n /\ down(i) \in 1 .. n
      BY <1>2, <1>3, <1>7, <2>4
    <3> QED  BY <3>1
  <2> QED  BY <2>1, <2>2, <2>3, <2>4
<1>8. ASSUME NEW e \in {b[i] : i \in 1 .. 2 * n}
      PROVE  e \in {s[i] : i \in 1 .. n} \cup {c[i] : i \in 1 .. n}
  <2>1. PICK i \in 1 .. 2 * n : e = b[i]
    BY <1>8
  <2>2. CASE i % 2 = 1
    <3>1. e = s[up(i)] /\ up(i) \in 1 .. n
      BY <1>2, <1>3, <2>1, <2>2
    <3> QED  BY <3>1
  <2>3. CASE i % 2 # 1
    <3>1. e = c[down(i)] /\ down(i) \in 1 .. n
      BY <1>2, <1>3, <2>1, <2>3
    <3> QED  BY <3>1
  <2> QED  BY <2>2, <2>3
<1>9. ASSUME NEW k \in 1 .. n PROVE s[k] \in {b[i] : i \in 1 .. 2 * n}
  <2>1. 2 * k - 1 \in 1 .. 2 * n /\ b[2 * k - 1] = s[k]
    BY <1>2, <1>4
  <2> QED  BY <2>1
<1>10. ASSUME NEW k \in 1 .. n PROVE c[k] \in {b[i] : i \in 1 .. 2 * n}
  <2>1. 2 * k \in 1 .. 2 * n /\ b[2 * k] = c[k]
    BY <1>2, <1>4
  <2> QED  BY <2>1
<1>11. {b[i] : i \in 1 .. 2 * n} = {s[i] : i \in 1 .. n} \cup {c[i] : i \in 1 .. n}
  BY <1>8, <1>9, <1>10
<1>12. \A i, j \in 1 .. 2 * n : b[i] = b[j] => i = j
  BY <1>7
<1>13. Lists(b, s, c, n, S)
  BY <1>6, <1>11, <1>12 DEF Lists
<1> QED  BY <1>13 DEF b

\* LS_ListEmptyData
LEMMA EmptyDataStep ==
  ASSUME ListInv, ListEmptyData
  PROVE  ListInv' /\ list.at # NULL /\ list'.at # NULL /\ Items' = << >>
<1>1. PICK c, s, n, N, D, at, b, hl : /\ c = Chain /\ s = Items /\ n = Length /\ N = DOMAIN node
                                      /\ D = DataOf(node) /\ at = list.at /\ hl = held
                                      /\ b = Interleaved(s, c, n)
  OBVIOUS
<1>2. /\ Linked(c, list, node) /\ n = Len(c) /\ s = ItemsOf(c, node) /\ Sound(heap)
      /\ held \subseteq Address /\ Divided(heap.header, N, D, hl, at)
      /\ list \in ListRecord /\ Chained(c, Len(c), list, node)
  BY <1>1, InvIs
<1>3. /\ at # NULL /\ heap' = FreeAll(heap, b) /\ list' = Emptied /\ node' = << >> /\ build' = build
      /\ held' = held
  BY <1>1 DEF ListEmptyData, Interleaved
<1>4. /\ n \in Nat /\ \A i \in 1 .. n : c[i] \in N /\ c[i] \in Address
      /\ \A i, j \in 1 .. n : c[i] = c[j] => i = j
  BY <1>1, <1>2 DEF Chained
<1>5. N = {c[i] : i \in 1 .. n}
  BY <1>1, <1>2 DEF Linked
<1>6. /\ \A i \in 1 .. n : s[i] = node[c[i]].data /\ s[i] \in Address
      /\ D = {s[i] : i \in 1 .. n}
  BY <1>1, <1>2, ItemsAre
<1>7. ASSUME NEW i \in 1 .. n, NEW j \in 1 .. n, s[i] = s[j] PROVE i = j
  <2>1. DataOnce(node)
    BY InvIs
  <2>2. c[i] = c[j]
    BY <1>1, <1>4, <1>6, <1>7, <2>1 DEF DataOnce
  <2> QED  BY <1>4, <2>2
<1>8. \A i, j \in 1 .. n : s[i] # c[j]
  <2>1. N \cap D = {}
    BY <1>2 DEF Divided
  <2>2. \A i, j \in 1 .. n : s[i] \in D /\ c[j] \in N
    BY <1>4, <1>6
  <2> QED  BY <2>1, <2>2
<1>9. /\ b \in Seq(Address) /\ Len(b) = 2 * n
      /\ \A i, j \in 1 .. 2 * n : b[i] = b[j] => i = j
      /\ \A x : x \in {b[i] : i \in 1 .. 2 * n} <=> x \in N \cup D
  <2>1. \A i \in 1 .. n : s[i] \in Address /\ c[i] \in Address
    BY <1>4, <1>6
  <2>2. /\ \A i, j \in 1 .. n : s[i] = s[j] => i = j
        /\ \A i, j \in 1 .. n : c[i] = c[j] => i = j
    BY <1>4, <1>7
  <2>3. Lists(Interleaved(s, c, n), s, c, n, Address)
    BY ONLY <1>4, <1>8, <2>1, <2>2, InterleavedIs, Zenon
  <2>4. Lists(b, s, c, n, Address)
    BY <1>1, <2>3
  <2> QED  BY <1>5, <1>6, <2>4 DEF Lists
<1>10. PICK g, B : g = FreeAll(heap, b) /\ B = {b[i] : i \in 1 .. 2 * n}
  OBVIOUS
<1>11. B = N \cup D /\ After(heap, g, B)
  <2>1. \A x : x \in B <=> x \in N \cup D
    BY <1>9, <1>10
  <2>2. N \cup D \subseteq DOMAIN heap.header
    BY <1>2 DEF Divided
  <2>3. \A i \in 1 .. Len(b) : b[i] \in DOMAIN heap.header
    BY <1>9, <1>10, <2>1, <2>2
  <2>4. \A i, j \in 1 .. Len(b) : b[i] = b[j] => i = j
    BY <1>9
  <2>5. After(heap, FreeAll(heap, b), {b[i] : i \in 1 .. Len(b)})
    BY <1>2, <1>9, <2>3, <2>4, FreeAllGives
  <2>6. {b[i] : i \in 1 .. Len(b)} = B
    BY <1>9, <1>10
  <2> QED  BY <1>10, <2>1, <2>5, <2>6
<1>12. Sound(heap') /\ Divided(heap'.header, {}, {}, hl, at)
  <2>1. PICK hd, hd2 : hd = heap.header /\ hd2 = g.header
    OBVIOUS
  <2>2. Fewer(hd, hd2, B) /\ B = N \cup D
    BY <1>11, <2>1 DEF After, Fewer
  <2>3. Divided(hd, N, D, hl, at)
    BY <1>2, <2>1
  <2>4. Divided(hd2, {}, {}, hl, at)
    BY ONLY <2>2, <2>3, DividedLessData
  <2>5. Sound(g)
    BY <1>11 DEF After
  <2> QED  BY <1>3, <1>10, <2>1, <2>4, <2>5
<1>13. list' \in ListRecord /\ list'.count = 0 /\ list'.anchor = NULL /\ list'.at = at
  BY <1>1, <1>2, <1>3 DEF Emptied, ListRecord, Pointer
<1>14. Linked(<< >>, list', << >>)
  BY <1>13, LinkedNone
<1>15. DOMAIN << >> = {} /\ DataOf(<< >>) = {} /\ DataOnce(<< >>) /\ ItemsOf(<< >>, << >>) = << >>
  BY NoneIs
<1>16. Owners(heap', list', << >>, held')
  <2>1. held' \subseteq Address
    BY <1>2, <1>3
  <2>2. Divided(heap'.header, DOMAIN << >>, DataOf(<< >>), held', list'.at)
    BY <1>1, <1>3, <1>12, <1>13, <1>15
  <2> QED  BY <1>15, <2>1, <2>2 DEF Owners
<1>17. ListInv' /\ Items' = ItemsOf(<< >>, node')
  BY <1>3, <1>12, <1>14, <1>16, InvAgain
<1> QED  BY <1>1, <1>3, <1>13, <1>15, <1>17

\* A step that moves only the heap and the client's blocks.
LEMMA ClientStep ==
  ASSUME ListInv, UNCHANGED << build, list, node >>, held' \subseteq Address, Sound(heap'),
         Divided(heap'.header, DOMAIN node, DataOf(node), held', list.at)
  PROVE  ListInv' /\ Items' = Items
<1>1. Linked(Chain, list', node') /\ Items = ItemsOf(Chain, node)
  BY InvIs
<1>2. Owners(heap', list', node', held')
  BY InvIs DEF Owners
<1> QED  BY <1>1, <1>2, InvAgain

\* LS_ListDestroy of an empty list
LEMMA DestroyStep ==
  ASSUME ListInv, ListDestroy
  PROVE  ListInv' /\ list.at # NULL /\ list'.at = NULL /\ Items = << >> /\ Items' = Items
<1>1. PICK c, N, D, at, hl : c = Chain /\ N = DOMAIN node /\ D = DataOf(node) /\ at = list.at /\ hl = held
  OBVIOUS
<1>2. /\ Linked(c, list, node) /\ Items = ItemsOf(c, node) /\ Sound(heap)
      /\ held \subseteq Address /\ Divided(heap.header, N, D, hl, at) /\ DataOnce(node)
      /\ list \in ListRecord /\ list.count = Len(c)
  BY <1>1, InvIs
<1>3. at # NULL /\ Len(c) = 0 /\ heap' = Free(heap, at) /\ list' = NoList /\ UNCHANGED << build, node, held >>
  BY <1>1, <1>2 DEF ListDestroy
<1>4. Sound(heap') /\ Fewer(heap.header, heap'.header, {at})
  <2>1. at \in DOMAIN heap.header
    BY <1>2, <1>3 DEF Divided
  <2> QED  BY <1>2, <1>3, <2>1, FreeIs
<1>5. Divided(heap'.header, N, D, hl, NULL)
  <2>1. PICK hd, hd2, B : hd = heap.header /\ hd2 = heap'.header /\ B = {at}
    OBVIOUS
  <2>2. Fewer(hd, hd2, B) /\ Divided(hd, N, D, hl, at) /\ B = {at} /\ at # NULL
    BY <1>2, <1>3, <1>4, <2>1
  <2>3. Divided(hd2, N, D, hl, NULL)
    BY ONLY <2>2, DividedLessList
  <2> QED  BY <2>1, <2>3
<1>6. list' \in ListRecord /\ list'.count = 0 /\ list'.anchor = NULL /\ list'.at = NULL
  BY <1>3 DEF NoList, ListRecord, Pointer
<1>7. Linked(c, list', node')
  <2>1. list.count = 0 /\ list.anchor = NULL
    BY <1>2, <1>3 DEF Linked
  <2> QED  BY <1>2, <1>3, <1>6, <2>1, SameChain
<1>8. Owners(heap', list', node', held')
  <2>1. Divided(heap'.header, DOMAIN node', DataOf(node'), held', list'.at)
    BY <1>1, <1>3, <1>5, <1>6
  <2> QED  BY <1>2, <1>3, <2>1 DEF Owners
<1>9. ListInv' /\ Items' = ItemsOf(c, node')
  BY <1>3, <1>4, <1>7, <1>8, InvAgain
<1>10. Items = << >>
  <2>1. Items \in Seq(Address) /\ Len(Items) = 0
    BY <1>2, <1>3, ItemsAre
  <2> QED  BY <2>1, EmptySeq
<1> QED  BY <1>1, <1>2, <1>3, <1>6, <1>9, <1>10

\* The client allocates.
LEMMA ClientMallocStep ==
  ASSUME ListInv, ClientMalloc
  PROVE  ListInv' /\ Items' = Items /\ list' = list
<1>0. PICK bytes \in DataBytes : \E m \in Mallocs(heap, bytes) :
        m.at # NULL /\ heap' = m.heap /\ held' = held \cup {m.at}
  BY DEF ClientMalloc
<1>1. PICK m \in Mallocs(heap, bytes) : m.at # NULL /\ heap' = m.heap /\ held' = held \cup {m.at}
  BY <1>0
<1>2. UNCHANGED << build, list, node >>
  BY DEF ClientMalloc
<1>3. PICK N, D, at, hl, a, g : /\ N = DOMAIN node /\ D = DataOf(node) /\ at = list.at /\ hl = held
                                /\ a = m.at /\ g = m.heap
  OBVIOUS
<1>4. Sound(heap) /\ held \subseteq Address /\ Divided(heap.header, N, D, hl, at)
  BY <1>3, InvIs
<1>5. PICK u : Grown(heap, g, a, u)
  <2>1. Gives(heap, m)
    BY <1>4, ListBytesAre, MallocGives
  <2> QED  BY <1>1, <1>3, <2>1 DEF Gives
<1>6. Sound(g) /\ a \in Address /\ OneNew(heap.header, g.header, a)
  BY <1>5, GrownIs
<1>7. Divided(g.header, N, D, hl \cup {a}, at)
  BY <1>4, <1>6, DividedForClient
<1>8. held' \subseteq Address /\ Sound(heap')
  BY <1>1, <1>3, <1>4, <1>6
<1>9. Divided(heap'.header, DOMAIN node, DataOf(node), held', list.at)
  BY <1>1, <1>3, <1>7
<1> QED  BY <1>2, <1>8, <1>9, ClientStep

\* The client frees.
LEMMA ClientFreeStep ==
  ASSUME ListInv, NEW d \in held, ClientFree(d)
  PROVE  ListInv' /\ Items' = Items /\ list' = list
<1>1. heap' = Free(heap, d) /\ held' = held \ {d} /\ UNCHANGED << build, list, node >>
  BY DEF ClientFree
<1>2. PICK N, D, at, hl, hd, hd2, B : /\ N = DOMAIN node /\ D = DataOf(node) /\ at = list.at /\ hl = held
                                      /\ hd = heap.header /\ hd2 = heap'.header /\ B = {d}
  OBVIOUS
<1>3. Sound(heap) /\ held \subseteq Address /\ Divided(hd, N, D, hl, at) /\ d \in hl
  BY <1>2, InvIs
<1>4. d \in DOMAIN heap.header
  BY <1>2, <1>3 DEF Divided
<1>5. Sound(heap') /\ Fewer(hd, hd2, B)
  BY <1>1, <1>2, <1>3, <1>4, FreeIs
<1>6. Divided(hd2, N, D, hl \ {d}, at)
  BY ONLY <1>2, <1>3, <1>5, DividedLessHeld
<1>7. held' \subseteq Address
  BY <1>1, <1>3
<1>8. Divided(heap'.header, DOMAIN node, DataOf(node), held', list.at)
  BY <1>1, <1>2, <1>6
<1> QED  BY <1>1, <1>5, <1>7, <1>8, ClientStep

\* The client reallocates, and keeps the block it had if that fails.
LEMMA ClientReallocStep ==
  ASSUME ListInv, NEW d \in held, ClientRealloc(d)
  PROVE  ListInv' /\ Items' = Items /\ list' = list
<1>0. PICK bytes \in DataBytes : \E m \in Reallocs(heap, d, bytes) :
        heap' = m.heap /\ held' = IF m.at = NULL THEN held ELSE (held \ {d}) \cup {m.at}
  BY DEF ClientRealloc
<1>1. PICK m \in Reallocs(heap, d, bytes) :
        heap' = m.heap /\ held' = IF m.at = NULL THEN held ELSE (held \ {d}) \cup {m.at}
  BY <1>0
<1>2. UNCHANGED << build, list, node >>
  BY DEF ClientRealloc
<1>3. PICK N, D, at, hl, hd, hd2, a : /\ N = DOMAIN node /\ D = DataOf(node) /\ at = list.at /\ hl = held
                                      /\ hd = heap.header /\ hd2 = heap'.header /\ a = m.at
  OBVIOUS
<1>4. Sound(heap) /\ held \subseteq Address /\ Divided(hd, N, D, hl, at) /\ d \in hl
  BY <1>3, InvIs
<1>5. d \in DOMAIN hd /\ d \in Address /\ d # NULL
  BY <1>3, <1>4, HeapNumbers DEF Divided, Address
<1>6. (a = NULL /\ heap' = heap) \/ Moves(heap, d, m)
  BY <1>1, <1>3, <1>4, <1>5, ListBytesAre, ReallocGives
<1>7. CASE a = NULL /\ heap' = heap
  <2>1. held' = held
    BY <1>1, <1>3, <1>7
  <2> QED  BY <1>2, <1>7, <2>1, NothingDone
<1>8. CASE /\ a = NULL /\ Sound(heap')
           /\ hd2 = With(Without(hd, d), d, [units |-> hd[d].units, valid |-> FALSE])
  <2>1. DOMAIN hd2 = (DOMAIN hd \ {d}) \cup {d} /\ \A y \in DOMAIN hd \ {d} : hd2[y] = hd[y]
    BY <1>5, <1>8 DEF With, Without
  <2>2. Divided(hd2, N, D, (hl \ {d}) \cup {d}, at)
    BY ONLY <1>4, <1>5, <2>1, DividedMoved
  <2>3. held' = held /\ (hl \ {d}) \cup {d} = held
    BY <1>1, <1>3, <1>4, <1>8
  <2>4. Divided(heap'.header, DOMAIN node, DataOf(node), held', list.at)
    BY <1>3, <2>2, <2>3
  <2> QED  BY <1>2, <1>4, <1>8, <2>3, <2>4, ClientStep
<1>9. ASSUME NEW u, a \in Address, a # NULL, Sound(heap'), a = d \/ a \notin DOMAIN hd,
             hd2 = With(Without(hd, d), a, [units |-> u, valid |-> TRUE])
      PROVE  ListInv' /\ Items' = Items
  <2>1. DOMAIN hd2 = (DOMAIN hd \ {d}) \cup {a} /\ \A y \in DOMAIN hd \ {d} : y # a => hd2[y] = hd[y]
    BY <1>9 DEF With, Without
  <2>2. Divided(hd2, N, D, (hl \ {d}) \cup {a}, at)
    <3>1. (a = d \/ a \notin DOMAIN hd) /\ a # NULL
      BY <1>9
    <3> QED  BY ONLY <1>4, <2>1, <3>1, DividedMoved, Zenon
  <2>3. held' = (hl \ {d}) \cup {a} /\ held' \subseteq Address
    BY <1>1, <1>3, <1>4, <1>9
  <2>4. Divided(heap'.header, DOMAIN node, DataOf(node), held', list.at)
    BY <1>3, <2>2, <2>3
  <2> QED  BY <1>2, <1>9, <2>3, <2>4, ClientStep
<1>10. ListInv' /\ Items' = Items
  <2>1. CASE Moves(heap, d, m)
    <3>1. \/ a = NULL /\ heap' = heap
          \/ /\ a = NULL /\ Sound(heap')
             /\ hd2 = With(Without(hd, d), d, [units |-> hd[d].units, valid |-> FALSE])
          \/ /\ a \in Address /\ a # NULL /\ Sound(heap') /\ (a = d \/ a \notin DOMAIN hd)
             /\ \E u \in 1 .. HeapSize : hd2 = With(Without(hd, d), a, [units |-> u, valid |-> TRUE])
      BY <1>1, <1>3, <2>1 DEF Moves
    <3> QED  BY <1>7, <1>8, <1>9, <3>1
  <2> QED  BY <1>6, <1>7, <2>1
<1> QED  BY <1>2, <1>10

-----------------------------------------------------------------------------
(* The invariant                                                           *)

\* Before the first list.
LEMMA ListInvInit ==
  ASSUME ListInit
  PROVE  ListInv /\ Items = << >> /\ list.at = NULL
<1>1. build \in Builds /\ heap = NewHeap(build) /\ list = NoList /\ node = << >> /\ held = {}
  BY DEF ListInit, HeapInit
<1>2. list \in ListRecord /\ list.count = 0 /\ list.anchor = NULL /\ list.at = NULL
  BY <1>1 DEF NoList, ListRecord, Pointer
<1>3. Linked(<< >>, list, node)
  BY <1>1, <1>2, LinkedNone
<1>4. DOMAIN << >> = {} /\ DataOf(<< >>) = {} /\ DataOnce(<< >>) /\ ItemsOf(<< >>, << >>) = << >>
  BY NoneIs
<1>5. Sound(heap) /\ heap.header = << >>
  BY <1>1, NewHeapIs
<1>6. Owners(heap, list, node, held)
  <2>1. Divided(heap.header, {}, {}, {}, NULL)
    BY <1>4, <1>5 DEF Divided
  <2>2. Divided(heap.header, DOMAIN node, DataOf(node), held, list.at)
    BY <1>1, <1>2, <1>4, <2>1
  <2> QED  BY <1>1, <1>4, <2>2 DEF Owners
<1>7. Chain = << >> /\ Items = << >>
  <2>1. Chain = << >> /\ Items = ItemsOf(<< >>, node)
    BY <1>3, ChainNow
  <2> QED  BY <1>1, <1>4, <2>1
<1>8. ListInv
  BY <1>3, <1>5, <1>6, <1>7 DEF ListInv
<1> QED  BY <1>2, <1>7, <1>8

\* What a step does to the sequence of data, and to whether there is a list.
Effect ==
  \/ Items' = Items /\ (list'.at = NULL <=> list.at = NULL)
  \/ Items' = Items /\ list.at = NULL /\ list'.at # NULL
  \/ Items = << >> /\ Items' = Items /\ list.at # NULL /\ list'.at = NULL
  \/ /\ list.at # NULL /\ list'.at # NULL /\ Len(Items') = Len(Items) + 1
     /\ Front(Items') = Items \/ Tail(Items') = Items
  \/ (list'.at = NULL <=> list.at = NULL) /\ \E i \in DOMAIN Items : Items' = RemoveAt(Items, i)
  \/ list.at # NULL /\ list'.at # NULL /\ Items' = << >>

\* What a search finds is in the list.
LEMMA FirstOfIs ==
  ASSUME ListInv, NEW A, FirstOf(A) # 0
  PROVE  FirstOf(A) \in 1 .. Length
<1>1. PICK s, n : s = Items /\ n = Length
  OBVIOUS
<1>2. n \in Nat /\ Len(s) = n
  BY <1>1, InvIs, ItemsAre
<1> DEFINE found == {i \in 1 .. Len(s) : s[i] \in A}
<1>3. FirstOf(A) = IF found # {} THEN Min(found) ELSE 0
  BY <1>1 DEF FirstOf, SelectInSeq
<1>4. found \subseteq 1 .. n /\ found \in SUBSET Nat
  BY <1>2
<1> HIDE DEF found
<1>5. found # {}
  BY <1>3
<1>6. Min(found) \in found
  BY <1>4, <1>5, MinIsLeast
<1> QED  BY <1>1, <1>3, <1>4, <1>5, <1>6

\* Taking one node out is an effect.
LEMMA UnlinkEffect ==
  ASSUME ListInv, NEW k \in 1 .. Length, Unlink(k)
  PROVE  ListInv' /\ Effect
BY UnlinkStep DEF Effect

\* Every operation keeps the invariant and has one of these effects.
LEMMA ListInvStep ==
  ASSUME ListInv, [ListNext]_listVars
  PROVE  ListInv' /\ Effect
<1>1. CASE UNCHANGED listVars
  <2>1. UNCHANGED << build, heap, list, node, held >>
    BY <1>1 DEF listVars
  <2> QED  BY <2>1, NothingDone DEF Effect
<1>2. CASE Create
  <2>1. ListInv' /\ Items' = Items /\ list.at = NULL
    BY <1>2, CreateStep DEF Create
  <2> QED  BY <2>1 DEF Effect
<1>3. CASE ListFirstData
  <2>1. list.anchor # NULL /\ Unlink(1)
    BY <1>3 DEF ListFirstData
  <2>2. PICK n : n = Length
    BY Zenon
  <2>3. n \in Nat /\ n # 0
    <3>1. Chained(Chain, Len(Chain), list, node) /\ n = Len(Chain)
          /\ list.anchor = (IF Len(Chain) = 0 THEN NULL ELSE Chain[1])
      BY <2>2, InvIs
    <3> QED  BY <2>1, <3>1 DEF Chained
  <2>4. 1 \in 1 .. Length
    BY <2>2, <2>3
  <2> QED  BY <2>1, <2>4, UnlinkEffect
<1>4. CASE ListEmpty
  BY <1>4, EmptyStep DEF Effect
<1>5. CASE ListEmptyData
  BY <1>5, EmptyDataStep DEF Effect
<1>6. CASE ListDestroy
  BY <1>6, DestroyStep DEF Effect
<1>7. ASSUME NEW d \in held, ListAppend(d) PROVE ListInv' /\ Effect
  <2>1. list.at # NULL
    BY <1>7 DEF ListAppend
  <2> QED  BY <1>7, <2>1, AppendStep DEF Effect
<1>8. ASSUME NEW d \in held, ListPreAppend(d) PROVE ListInv' /\ Effect
  <2>1. list.at # NULL
    BY <1>8 DEF ListPreAppend
  <2> QED  BY <1>8, <2>1, PreAppendStep DEF Effect
<1>9. ASSUME NEW d, ListRemoveNode(d) PROVE ListInv' /\ Effect
  <2>1. FirstOf({d}) # 0 /\ Unlink(FirstOf({d}))
    BY <1>9 DEF ListRemoveNode, ListRemoveUserNode
  <2>2. FirstOf({d}) \in 1 .. Length
    BY <2>1, FirstOfIs
  <2> QED  BY <2>1, <2>2, UnlinkEffect
<1>10. CASE ClientMalloc
  BY <1>10, ClientMallocStep DEF Effect
<1>11. ASSUME NEW d \in held, ClientRealloc(d) PROVE ListInv' /\ Effect
  BY <1>11, ClientReallocStep DEF Effect
<1>12. ASSUME NEW d \in held, ClientFree(d) PROVE ListInv' /\ Effect
  BY <1>12, ClientFreeStep DEF Effect
<1> QED
  BY <1>1, <1>2, <1>3, <1>4, <1>5, <1>6, <1>7, <1>8, <1>9, <1>10, <1>11, <1>12 DEF ListNext

-----------------------------------------------------------------------------
(* What the invariant says                                                 *)

\* The invariant is an invariant of the list and its heap.
THEOREM ListKeepsItsBlocks == ListSpec => []ListInv
<1>1. ListInit => ListInv
  BY ListInvInit
<1>2. ListInv /\ [ListNext]_listVars => ListInv'
  BY ListInvStep
<1> QED  BY <1>1, <1>2, PTL DEF ListSpec

\* The invariant gives the types.
LEMMA ListInvTypes ==
  ASSUME ListInv
  PROVE  ListTypeOK
<1>1. /\ list \in ListRecord /\ held \subseteq Address /\ Chained(Chain, Len(Chain), list, node)
      /\ Sound(heap)
  BY InvIs
<1>2. /\ build \in Builds /\ heap.free \in Seq(FreeBlock) /\ heap.allocated \in 0 .. HeapSize
      /\ Headers(heap.header)
  BY <1>1 DEF Sound
<1>3. HeapTypeOK
  BY <1>2 DEF HeapTypeOK, Headers
<1>4. DOMAIN node \subseteq Address /\ \A n \in DOMAIN node : node[n] \in Node
  <2>1. PICK c, n : c = Chain /\ n = Len(c)
    OBVIOUS
  <2>2. /\ \A i \in 1 .. n : c[i] \in Address /\ node[c[i]] \in Node
        /\ \A m \in DOMAIN node : \E i \in 1 .. n : m = c[i]
    BY <1>1, <2>1 DEF Chained
  <2> QED  BY <2>2
<1> QED  BY <1>1, <1>3, <1>4 DEF ListTypeOK, ListRecord, Node

\* The list, its nodes, what the client holds and the heap keep their types.
THEOREM ListTypeCorrect == ListSpec => []ListTypeOK
<1>1. ListInv => ListTypeOK
  BY ListInvTypes
<1> QED  BY <1>1, ListKeepsItsBlocks, PTL

\* The invariant of the heap gives its properties.
LEMMA SoundInOrder ==
  ASSUME Sound(heap)
  PROVE  FreeListInOrder /\ ArenaIsTiled
<1>1. /\ build \in Builds /\ heap.free \in Seq(FreeBlock)
      /\ heap.allocated = Cardinality(TakingOf(heap.header))
      /\ IF build = "internal" THEN Tiled(heap) ELSE heap.free = << >>
  BY DEF Sound
<1>2. FreeUnits = UnitsIn(heap.free) /\ Taking = TakingOf(heap.header)
      /\ UsedUnits = UnitsUsed(heap.header)
  BY DEF FreeUnits, UnitsIn, Taking, TakingOf, UsedUnits, UnitsUsed
<1>3. CASE build = "internal"
  <2>1. /\ FreeList(heap.free) /\ UsedApart(heap.header)
        /\ UnitsIn(heap.free) \cup UnitsUsed(heap.header) = Address
        /\ UnitsIn(heap.free) \cap UnitsUsed(heap.header) = {}
        /\ heap.allocated + Cardinality(UnitsIn(heap.free)) = HeapSize
    BY <1>1, <1>3 DEF Tiled
  <2>2. FreeListInOrder
    BY <1>2, <2>1 DEF FreeListInOrder, FreeList
  <2>3. ArenaIsTiled
    BY <1>1, <1>2, <2>1 DEF ArenaIsTiled, UsedApart
  <2> QED  BY <2>2, <2>3
<1>4. CASE build # "internal"
  <2>1. DOMAIN heap.free = {}
    BY <1>1, <1>4
  <2>2. FreeListInOrder
    BY <1>4, <2>1 DEF FreeListInOrder
  <2>3. ArenaIsTiled
    BY <1>1, <1>2, <1>4 DEF ArenaIsTiled
  <2> QED  BY <2>2, <2>3
<1> QED  BY <1>3, <1>4

\* What stm_check_heap asserts holds before and after every operation: the free blocks stay
\* in address order inside the arena, and free and allocated units add up to it.
THEOREM FreeBlocksStayInOrder == ListSpec => []FreeListInOrder
<1>1. ListInv => FreeListInOrder
  BY SoundInOrder DEF ListInv
<1> QED  BY <1>1, ListKeepsItsBlocks, PTL

\* Whatever is split, merged, moved and freed, every unit of the arena is in one block that is
\* free or in use, and the count of what is allocated is what the blocks in use take.
THEOREM ArenaStaysTiled == ListSpec => []ArenaIsTiled
<1>1. ListInv => ArenaIsTiled
  BY SoundInOrder DEF ListInv
<1> QED  BY <1>1, ListKeepsItsBlocks, PTL

\* Every block has one owner.
LEMMA InvOneOwner ==
  ASSUME ListInv
  PROVE  OneOwner
<1>1. PICK c, n, s : c = Chain /\ n = Len(c) /\ s = ItemsOf(c, node)
  OBVIOUS
<1>2. /\ Linked(c, list, node) /\ Length = n /\ Items = s /\ Chain = c /\ held \subseteq Address
      /\ DataOnce(node) /\ Divided(heap.header, DOMAIN node, DataOf(node), held, list.at)
      /\ Chained(c, n, list, node)
  BY <1>1, InvIs
<1>3. /\ s \in Seq(Address) /\ Len(s) = n /\ n \in Nat /\ DOMAIN s = 1 .. n
      /\ \A i \in 1 .. n : s[i] = node[c[i]].data
      /\ DataOf(node) = {s[i] : i \in 1 .. n}
  BY <1>1, <1>2, ItemsAre
<1>4. /\ c \in Seq(Address) /\ Len(c) = n /\ DOMAIN c = 1 .. n
      /\ \A i \in 1 .. n : c[i] \in DOMAIN node
      /\ \A i, j \in 1 .. n : c[i] = c[j] => i = j
      /\ \A m \in DOMAIN node : \E i \in 1 .. n : m = c[i]
  BY <1>2 DEF Chained
<1>5. Unique(c) /\ Unique(s)
  <2>1. Unique(c)
    BY <1>4 DEF Unique
  <2>2. \A i, j \in 1 .. n : s[i] = s[j] => c[i] = c[j]
    BY <1>2, <1>3, <1>4 DEF DataOnce
  <2> QED  BY <1>3, <1>4, <2>1, <2>2 DEF Unique
<1> DEFINE N == {c[i] : i \in 1 .. Len(c)}
           D == {s[i] : i \in 1 .. Len(s)}
           L == {list.at} \ {NULL}
<1>6. N = DOMAIN node /\ D = DataOf(node)
  <2>1. N = DOMAIN node
    BY <1>2 DEF Linked
  <2>2. D = DataOf(node)
    BY <1>3
  <2> QED  BY <2>1, <2>2
<1>7. IsFiniteSet(N) /\ Cardinality(N) = n /\ IsFiniteSet(D) /\ Cardinality(D) = n
  <2>1. IsFiniteSet(N) /\ Cardinality(N) = Len(c)
    BY <1>4, <1>5, CountUnique
  <2>2. IsFiniteSet(D) /\ Cardinality(D) = Len(s)
    BY <1>3, <1>5, CountUnique
  <2> QED  BY <1>3, <1>4, <2>1, <2>2
<1>8. IsFiniteSet(L) /\ Cardinality(L) = IF list.at = NULL THEN 0 ELSE 1
  <2>1. CASE list.at = NULL
    <3>1. L = {}
      BY <2>1
    <3> QED  BY <2>1, <3>1, FS_EmptySet
  <2>2. CASE list.at # NULL
    <3>1. L = {list.at}
      BY <2>2
    <3> QED  BY <2>2, <3>1, FS_Singleton
  <2> QED  BY <2>1, <2>2
<1>9. IsFiniteSet(held) /\ Cardinality(held) \in Nat
  <2>1. IsFiniteSet(Address)
    BY HeapNumbers, FS_Interval DEF Address
  <2> QED  BY <1>2, <2>1, FS_Subset, FS_CardinalityType
<1>10. /\ N \cap D = {} /\ N \cap held = {} /\ D \cap held = {} /\ list.at \notin N \cup D \cup held
       /\ N \cup D \cup held \subseteq DOMAIN heap.header
       /\ list.at # NULL => list.at \in DOMAIN heap.header
       /\ \A a \in DOMAIN heap.header : heap.header[a].valid => a \in N \cup D \cup held \cup {list.at}
       /\ NULL \notin DOMAIN heap.header
  BY <1>2, <1>6 DEF Divided
<1>11. Owned = ((held \cup D) \cup N) \cup L
  BY <1>2, <1>3, <1>4 DEF Owned
<1> HIDE DEF N, D, L
<1>12. held \cap D = {} /\ (held \cup D) \cap N = {}
  BY <1>10
<1>13. ((held \cup D) \cup N) \cap L = {}
  BY <1>10 DEF L
<1>14. IsFiniteSet(held \cup D) /\ Cardinality(held \cup D) = Cardinality(held) + n
  BY <1>7, <1>9, <1>12, CountUnion
<1>15. IsFiniteSet((held \cup D) \cup N)
       /\ Cardinality((held \cup D) \cup N) = Cardinality(held) + n + n
  BY <1>7, <1>12, <1>14, CountUnion
<1>16. Cardinality(((held \cup D) \cup N) \cup L)
         = Cardinality(held) + n + n + (IF list.at = NULL THEN 0 ELSE 1)
  BY <1>8, <1>13, <1>15, CountUnion
<1>17. Cardinality(Owned)
         = Cardinality(held) + 2 * Length + (IF list.at = NULL THEN 0 ELSE 1)
  <2>1. PICK k, z : k = Cardinality(held) /\ z = IF list.at = NULL THEN 0 ELSE 1
    OBVIOUS
  <2>2. k \in Nat /\ z \in Nat /\ Cardinality(Owned) = k + n + n + z
    BY <1>9, <1>11, <1>16, <2>1
  <2>3. k + n + n + z = k + 2 * n + z
    BY <1>3, <2>2
  <2> QED  BY <1>2, <2>1, <2>2, <2>3
<1>18. Owned \subseteq DOMAIN heap.header
  BY <1>10, <1>11 DEF L
<1>19. \A a \in DOMAIN heap.header : heap.header[a].valid => a \in Owned
  BY <1>10, <1>11 DEF L
<1>20. DOMAIN node = {Chain[i] : i \in 1 .. Length}
  BY <1>2, <1>4, <1>6 DEF N
<1> QED  BY <1>17, <1>18, <1>19, <1>20 DEF OneOwner

\* No node, list or element is leaked, shared or used after it is freed, whatever fails.
THEOREM BlocksOfAListHaveOneOwner == ListSpec => []OneOwner
<1>1. ListInv => OneOwner
  BY InvOneOwner
<1> QED  BY <1>1, ListKeepsItsBlocks, PTL

\* What the readers of a list find.
LEMMA InvCounts ==
  ASSUME ListInv
  PROVE  CountIsLength
<1>1. PICK n, s : n = Length /\ s = Items
  OBVIOUS
<1>2. /\ list.count = n /\ n \in Nat /\ s \in Seq(Address) /\ Len(s) = n /\ DOMAIN s = 1 .. n
      /\ \A i \in 1 .. n : s[i] \in Address
  <2>1. /\ Linked(Chain, list, node) /\ n = Len(Chain) /\ s = ItemsOf(Chain, node)
        /\ list.count = Len(Chain)
    BY <1>1, InvIs
  <2>2. s \in Seq(Address) /\ Len(s) = n /\ n \in Nat /\ DOMAIN s = 1 .. n
    BY <2>1, ItemsAre
  <2> QED  BY <2>1, <2>2, ElementOfSeq
<1>3. ListCount = n
  BY <1>2 DEF ListCount
<1>4. ASSUME NEW d \in Address
      PROVE  (FindUserNode({d}) = d) = (d \in Range(s))
  <2> DEFINE found == {i \in 1 .. Len(s) : s[i] \in {d}}
  <2>1. FirstOf({d}) = IF found # {} THEN Min(found) ELSE 0
    BY <1>1 DEF FirstOf, SelectInSeq
  <2>2. found \in SUBSET Nat /\ \A i \in found : i \in 1 .. n /\ s[i] = d
    BY <1>2
  <2>3. d \in Range(s) <=> found # {}
    BY <1>2 DEF Range
  <2> HIDE DEF found
  <2>4. CASE found = {}
    <3>1. FindUserNode({d}) = NULL
      BY <2>1, <2>4 DEF FindUserNode
    <3>2. d # NULL
      BY HeapNumbers DEF Address
    <3> QED  BY <2>3, <2>4, <3>1, <3>2
  <2>5. CASE found # {}
    <3>1. Min(found) \in found
      BY <2>2, <2>5, MinIsLeast
    <3>2. FirstOf({d}) \in 1 .. n /\ s[FirstOf({d})] = d
      BY <2>1, <2>2, <2>5, <3>1
    <3>3. FindUserNode({d}) = d
      BY <1>1, <3>2 DEF FindUserNode
    <3> QED  BY <2>3, <2>5, <3>3
  <2> QED  BY <2>4, <2>5
<1>5. ASSUME NEW k \in 0 .. n
      PROVE  NthNode(k) = IF k < n THEN s[k + 1] ELSE NULL
  BY <1>1, <1>2 DEF NthNode
<1>6. Visited = s
  <2>1. n = 0 => s = << >>
    BY <1>2, EmptySeq
  <2> QED  BY <1>1, <1>2, <2>1 DEF Visited
<1> QED  BY <1>1, <1>3, <1>4, <1>5, <1>6 DEF CountIsLength

\* LS_ListCount, LS_ListNthNode, LS_ListFindUserNode and LS_ListForEachNode answer for the
\* sequence that the chain is.
THEOREM CountStaysLength == ListSpec => []CountIsLength
<1>1. ListInv => CountIsLength
  BY InvCounts
<1> QED  BY <1>1, ListKeepsItsBlocks, PTL

\* Each effect is a step of the contract.
LEMMA EffectAllowed ==
  ASSUME Effect
  PROVE  [Contract!Next]_<< list.at # NULL, Items >>
<1>1. CASE Items' = Items /\ (list'.at = NULL <=> list.at = NULL)
  BY <1>1
<1>2. CASE Items' = Items /\ list.at = NULL /\ list'.at # NULL
  BY <1>2 DEF Contract!Next, Contract!Create
<1>3. CASE Items = << >> /\ Items' = Items /\ list.at # NULL /\ list'.at = NULL
  BY <1>3 DEF Contract!Next, Contract!Destroy
<1>4. CASE /\ list.at # NULL /\ list'.at # NULL /\ Len(Items') = Len(Items) + 1
           /\ Front(Items') = Items \/ Tail(Items') = Items
  <2>1. Contract!Grow
    BY <1>4 DEF Contract!Grow
  <2> QED  BY <1>4, <2>1 DEF Contract!Next, Contract!AddLast, Contract!AddFirst, Contract!Front, Front
<1>5. CASE /\ list'.at = NULL <=> list.at = NULL
           /\ \E i \in DOMAIN Items : Items' = RemoveAt(Items, i)
  BY <1>5 DEF Contract!Next, Contract!TakeOne, Contract!RemoveAt, RemoveAt
<1>6. CASE list.at # NULL /\ list'.at # NULL /\ Items' = << >>
  BY <1>6 DEF Contract!Next, Contract!Clear
<1> QED  BY <1>1, <1>2, <1>3, <1>4, <1>5, <1>6 DEF Effect

\* Every step of a list is one of the contract's, or none.
THEOREM ListsAreSequences == ListSpec => ListImplementsContract
<1>1. ListInit => Contract!Init
  BY ListInvInit DEF Contract!Init
<1>2. ListInv /\ [ListNext]_listVars => [Contract!Next]_<< list.at # NULL, Items >>
  BY ListInvStep, EffectAllowed
<1> QED
  BY <1>1, <1>2, ListKeepsItsBlocks, PTL DEF ListSpec, ListImplementsContract, Contract!Spec

=============================================================================
