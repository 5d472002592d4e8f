--------------------------- MODULE SequenceFacts ---------------------------
(***************************************************************************)
(* Facts about the sequence operators the models use to remove an element: *)
(* LS_ListDeleteNode and LS_ListRemoveNode after a search from the head.   *)
(***************************************************************************)
EXTENDS Integers, SequencesExt, SequenceTheorems, WellFoundedInduction, TLAPS

\* No element occurs twice.
Unique(s) == \A i, j \in DOMAIN s : s[i] = s[j] => i = j

\* The least element of a set of naturals, as SelectInSeq finds it.
LEMMA MinIsLeast ==
  ASSUME NEW S \in SUBSET Nat, S # {}
  PROVE  Min(S) \in S /\ \A y \in S : Min(S) <= y
<1>1. PICK x \in S : \A y \in S : ~(<<y, x>> \in OpToRel(<, Nat))
  BY NatLessThanWellFounded, WFMin
<1>2. ASSUME NEW y \in S, y < x PROVE FALSE
  <2>1. <<y, x>> \in Nat \X Nat /\ <<y, x>>[1] < <<y, x>>[2]
    BY <1>2
  <2>2. <<y, x>> \in OpToRel(<, Nat)
    BY <2>1, Zenon DEF OpToRel
  <2> QED  BY <1>1, <2>2
<1>3. x \in S /\ \A y \in S : x <= y
  BY <1>2
<1> QED  BY <1>3 DEF Min

\* The elements after the removed one move up by one place.
LEMMA RemoveAtProperties ==
  ASSUME NEW S, NEW s \in Seq(S), NEW i \in 1..Len(s)
  PROVE  /\ RemoveAt(s, i) \in Seq(S)
         /\ Len(RemoveAt(s, i)) = Len(s) - 1
         /\ \A k \in 1..(Len(s) - 1) :
              RemoveAt(s, i)[k] = IF k < i THEN s[k] ELSE s[k + 1]
<1> DEFINE a == SubSeq(s, 1, i-1)
           b == SubSeq(s, i+1, Len(s))
<1>1. Len(s) \in Nat /\ \A k \in 1..Len(s) : s[k] \in S
  BY LenProperties, ElementOfSeq
<1>2. /\ a \in Seq(S)
      /\ Len(a) = i - 1
      /\ \A k \in 1..(i-1) : a[k] = s[k]
  <2>1. \A k \in 1..(i-1) : s[k] \in S
    BY <1>1
  <2> QED  BY <1>1, <2>1, SubSeqProperties
<1>3. /\ b \in Seq(S)
      /\ Len(b) = Len(s) - i
      /\ \A k \in 1..(Len(s) - i) : b[k] = s[k + i]
  <2>1. \A k \in (i+1)..Len(s) : s[k] \in S
    BY <1>1
  <2> QED  BY <1>1, <2>1, SubSeqProperties
<1> HIDE DEF a, b
<1>4. /\ a \o b \in Seq(S)
      /\ Len(a \o b) = Len(a) + Len(b)
      /\ \A k \in 1..(Len(a) + Len(b)) :
           (a \o b)[k] = IF k <= Len(a) THEN a[k] ELSE b[k - Len(a)]
  BY <1>2, <1>3, ConcatProperties
<1>5. RemoveAt(s, i) = a \o b  BY DEF RemoveAt, a, b
<1>6. ASSUME NEW k \in 1..(Len(s) - 1)
      PROVE  (a \o b)[k] = IF k < i THEN s[k] ELSE s[k + 1]
  <2>1. k \in 1..(Len(a) + Len(b))
    BY <1>1, <1>2, <1>3
  <2>2. CASE k < i
    BY <2>1, <2>2, <1>1, <1>2, <1>4
  <2>3. CASE ~(k < i)
    <3>1. k - (i - 1) \in 1..(Len(s) - i)
      BY <2>3, <1>1
    <3>2. b[k - (i - 1)] = s[(k - (i - 1)) + i]
      BY <3>1, <1>3
    <3>3. (k - (i - 1)) + i = k + 1
      BY <1>1
    <3> QED  BY <3>2, <3>3, <2>1, <2>3, <1>1, <1>2, <1>4
  <2> QED  BY <2>2, <2>3
<1> QED  BY <1>1, <1>2, <1>3, <1>4, <1>5, <1>6

\* RemoveFirst removes the first occurrence, or nothing.
LEMMA RemoveFirstCases ==
  ASSUME NEW S, NEW s \in Seq(S), NEW e
  PROVE  \/ /\ \A k \in 1..Len(s) : s[k] # e
            /\ RemoveFirst(s, e) = s
         \/ \E i \in 1..Len(s) :
              /\ s[i] = e
              /\ \A k \in 1..(i - 1) : s[k] # e
              /\ RemoveFirst(s, e) = RemoveAt(s, i)
<1> DEFINE found == {k \in 1..Len(s) : s[k] = e}
<1>1. found \subseteq Nat /\ Len(s) \in Nat
  BY LenProperties
<1>2. CASE found = {}
  BY <1>2 DEF RemoveFirst
<1>3. CASE found # {}
  <2>1. Min(found) \in found /\ \A k \in found : Min(found) <= k
    BY <1>1, <1>3, MinIsLeast
  <2>2. SelectInSeq(s, LAMBDA v : v = e) = Min(found)
    BY <1>3 DEF SelectInSeq
  <2>3. RemoveFirst(s, e) = RemoveAt(s, Min(found))
    BY <1>3, <2>2 DEF RemoveFirst
  <2> HIDE DEF found
  <2> QED
    <3>1. found \subseteq 1..Len(s) /\ \A k \in 1..Len(s) : k \in found <=> s[k] = e
      BY DEF found
    <3>2. ASSUME NEW k \in 1..(Min(found) - 1) PROVE s[k] # e
      <4>1. Min(found) \in 1..Len(s)
        BY <2>1, <3>1
      <4>2. k \in 1..Len(s) /\ ~(Min(found) <= k)
        BY <1>1, <4>1
      <4> QED  BY <2>1, <3>1, <4>2
    <3> QED  BY <2>1, <2>3, <3>1, <3>2
<1> QED  BY <1>2, <1>3

\* Removing one element of a sequence without repetitions keeps the others.
LEMMA RemoveAtUnique ==
  ASSUME NEW S, NEW s \in Seq(S), NEW i \in 1..Len(s), Unique(s)
  PROVE  /\ Unique(RemoveAt(s, i))
         /\ ToSet(RemoveAt(s, i)) = ToSet(s) \ {s[i]}
<1> DEFINE r == RemoveAt(s, i)
<1>1. Len(s) \in Nat /\ DOMAIN s = 1..Len(s)
  BY LenProperties
<1>2. /\ r \in Seq(S)
      /\ Len(r) = Len(s) - 1
      /\ \A k \in 1..(Len(s) - 1) : r[k] = IF k < i THEN s[k] ELSE s[k + 1]
  BY RemoveAtProperties
<1>3. DOMAIN r = 1..(Len(s) - 1)
  BY <1>2, LenProperties
<1> HIDE DEF r
<1>4. Unique(r)
  <2>1. SUFFICES ASSUME NEW j \in 1..(Len(s) - 1), NEW k \in 1..(Len(s) - 1), r[j] = r[k]
                 PROVE  j = k
    BY <1>3 DEF Unique
  <2> DEFINE up(x) == IF x < i THEN x ELSE x + 1
  <2>2. up(j) \in 1..Len(s) /\ up(k) \in 1..Len(s) /\ (up(j) = up(k) => j = k)
    BY <1>1
  <2>3. s[up(j)] = s[up(k)]
    BY <2>1, <1>2
  <2> QED  BY <1>1, <2>2, <2>3 DEF Unique
<1>5. ASSUME NEW k \in 1..(Len(s) - 1) PROVE r[k] \in ToSet(s) \ {s[i]}
  BY <1>1, <1>2 DEF Unique, ToSet
<1>6. ASSUME NEW k \in 1..Len(s), s[k] # s[i] PROVE \E j \in 1..(Len(s) - 1) : r[j] = s[k]
  <2>1. CASE k < i
    BY <2>1, <1>1, <1>2
  <2>2. CASE ~(k < i)
    <3>1. k # i
      BY <1>6
    <3>2. k - 1 \in 1..(Len(s) - 1) /\ ~(k - 1 < i) /\ (k - 1) + 1 = k
      BY <3>1, <2>2, <1>1
    <3> QED  BY <3>2, <1>2
  <2> QED  BY <2>1, <2>2
<1>7. ToSet(r) = ToSet(s) \ {s[i]}
  <2>1. ASSUME NEW x \in ToSet(r) PROVE x \in ToSet(s) \ {s[i]}
    BY <1>3, <1>5 DEF ToSet
  <2>2. ASSUME NEW x \in ToSet(s) \ {s[i]} PROVE x \in ToSet(r)
    BY <1>1, <1>3, <1>6 DEF ToSet
  <2> QED  BY <2>1, <2>2
<1> QED  BY <1>4, <1>7 DEF r

\* The elements of a sequence without one of them, repetitions allowed.
LEMMA RemoveFirstElements ==
  ASSUME NEW S, NEW s \in Seq(S), NEW e
  PROVE  /\ RemoveFirst(s, e) \in Seq(S)
         /\ ToSet(s) \ {e} \subseteq ToSet(RemoveFirst(s, e))
         /\ ToSet(RemoveFirst(s, e)) \subseteq ToSet(s)
<1>1. Len(s) \in Nat /\ DOMAIN s = 1..Len(s)
  BY LenProperties
<1>2. CASE RemoveFirst(s, e) = s
  BY <1>2
<1>3. ASSUME NEW i \in 1..Len(s), s[i] = e, RemoveFirst(s, e) = RemoveAt(s, i)
      PROVE  /\ RemoveFirst(s, e) \in Seq(S)
             /\ ToSet(s) \ {e} \subseteq ToSet(RemoveFirst(s, e))
             /\ ToSet(RemoveFirst(s, e)) \subseteq ToSet(s)
  <2> DEFINE r == RemoveAt(s, i)
  <2>1. /\ r \in Seq(S)
        /\ Len(r) = Len(s) - 1
        /\ \A k \in 1..(Len(s) - 1) : r[k] = IF k < i THEN s[k] ELSE s[k + 1]
    BY RemoveAtProperties
  <2>2. DOMAIN r = 1..(Len(s) - 1)
    BY <2>1, LenProperties
  <2> HIDE DEF r
  <2>3. ASSUME NEW k \in 1..(Len(s) - 1) PROVE r[k] \in ToSet(s)
    <3>1. k \in DOMAIN s /\ k + 1 \in DOMAIN s
      BY <1>1
    <3>2. s[k] \in ToSet(s) /\ s[k + 1] \in ToSet(s)
      BY <3>1 DEF ToSet
    <3> QED  BY <3>2, <2>1
  <2>4. ASSUME NEW k \in 1..Len(s), s[k] # e PROVE \E j \in 1..(Len(s) - 1) : r[j] = s[k]
    <3>1. CASE k < i
      BY <3>1, <1>1, <2>1
    <3>2. CASE ~(k < i)
      <4>1. k # i
        BY <2>4, <1>3
      <4>2. k - 1 \in 1..(Len(s) - 1) /\ ~(k - 1 < i) /\ (k - 1) + 1 = k
        BY <4>1, <3>2, <1>1
      <4> QED  BY <4>2, <2>1
    <3> QED  BY <3>1, <3>2
  <2>5. ToSet(s) \ {e} \subseteq ToSet(r) /\ ToSet(r) \subseteq ToSet(s)
    BY <1>1, <2>2, <2>3, <2>4 DEF ToSet
  <2> QED  BY <1>3, <2>1, <2>5 DEF r
<1> QED  BY <1>2, <1>3, RemoveFirstCases

\* The last element stays last when another one is removed.
LEMMA RemoveFirstUnique ==
  ASSUME NEW S, NEW s \in Seq(S), NEW e, Unique(s)
  PROVE  /\ RemoveFirst(s, e) \in Seq(S)
         /\ Unique(RemoveFirst(s, e))
         /\ ToSet(RemoveFirst(s, e)) = ToSet(s) \ {e}
         /\ s # << >> /\ Last(s) # e =>
              /\ RemoveFirst(s, e) # << >>
              /\ Last(RemoveFirst(s, e)) = Last(s)
<1>1. Len(s) \in Nat /\ DOMAIN s = 1..Len(s) /\ (s # << >> => Len(s) > 0)
  BY LenProperties, EmptySeq
<1>2. CASE /\ \A k \in 1..Len(s) : s[k] # e
           /\ RemoveFirst(s, e) = s
  <2>1. e \notin ToSet(s)
    BY <1>1, <1>2 DEF ToSet
  <2> QED  BY <1>2, <2>1
<1>3. ASSUME NEW i \in 1..Len(s), s[i] = e, RemoveFirst(s, e) = RemoveAt(s, i)
      PROVE  /\ RemoveFirst(s, e) \in Seq(S)
             /\ Unique(RemoveFirst(s, e))
             /\ ToSet(RemoveFirst(s, e)) = ToSet(s) \ {e}
             /\ s # << >> /\ Last(s) # e =>
                  /\ RemoveFirst(s, e) # << >>
                  /\ Last(RemoveFirst(s, e)) = Last(s)
  <2> DEFINE r == RemoveAt(s, i)
  <2>1. Unique(r) /\ ToSet(r) = ToSet(s) \ {e}
    BY <1>3, RemoveAtUnique
  <2>2. /\ r \in Seq(S)
        /\ Len(r) = Len(s) - 1
        /\ \A k \in 1..(Len(s) - 1) : r[k] = IF k < i THEN s[k] ELSE s[k + 1]
    BY RemoveAtProperties
  <2> HIDE DEF r
  <2>3. ASSUME s # << >>, Last(s) # e PROVE r # << >> /\ Last(r) = Last(s)
    <3>1. Len(s) # i
      BY <1>3, <2>3 DEF Last
    <3>2. Len(s) - 1 \in 1..(Len(s) - 1) /\ ~(Len(s) - 1 < i) /\ (Len(s) - 1) + 1 = Len(s)
      <4>1. Len(s) \in Nat
        BY <1>1
      <4>2. i \in Int /\ 1 <= i /\ i < Len(s) /\ Len(s) \in Int
        BY <4>1, <3>1
      <4> QED  BY <4>2
    <3>3. r[Len(r)] = s[Len(s)]
      BY <2>2, <3>2
    <3>4. r # << >>
      BY <2>2, <3>2, EmptySeq
    <3> QED  BY <3>3, <3>4 DEF Last
  <2> QED  BY <1>3, <2>1, <2>2, <2>3 DEF r
<1> QED  BY <1>2, <1>3, RemoveFirstCases

\* Appending an element that is not in the sequence keeps it without repetitions.
LEMMA AppendUnique ==
  ASSUME NEW S, NEW s \in Seq(S), NEW e \in S, Unique(s), e \notin ToSet(s)
  PROVE  /\ Append(s, e) \in Seq(S) /\ Unique(Append(s, e))
         /\ ToSet(Append(s, e)) = ToSet(s) \cup {e}
         /\ Append(s, e) # << >> /\ Last(Append(s, e)) = e
<1> DEFINE longer == Append(s, e)
<1>1. /\ longer \in Seq(S) /\ Len(longer) = Len(s) + 1 /\ longer[Len(s) + 1] = e
      /\ \A i \in 1..Len(s) : longer[i] = s[i]
  BY AppendProperties
<1>2. /\ Len(s) \in Nat /\ DOMAIN s = 1..Len(s) /\ DOMAIN longer = 1..(Len(s) + 1)
  BY <1>1, LenProperties
<1> HIDE DEF longer
<1>3. ToSet(longer) = ToSet(s) \cup {e}
  BY <1>1, <1>2 DEF ToSet
<1>4. Unique(longer)
  BY <1>1, <1>2 DEF Unique, ToSet
<1>5. longer # << >> /\ Last(longer) = e
  BY <1>1, <1>2, EmptySeq DEF Last
<1> QED  BY <1>1, <1>3, <1>4, <1>5 DEF longer

\* Appending and then removing the old last element replaces it.
LEMMA ReplaceLast ==
  ASSUME NEW S, NEW s \in Seq(S), NEW e \in S, Unique(s), s # << >>, Last(s) # e
  PROVE  RemoveFirst(Append(s, e), Last(s)) = Append(Front(s), e)
<1> DEFINE t == Append(s, e)
           n == Len(s)
           u == Append(Front(s), e)
<1>1. n \in Nat /\ n # 0 /\ DOMAIN s = 1..n
  BY LenProperties, EmptySeq
<1>2. /\ t \in Seq(S) /\ Len(t) = n + 1 /\ t[n + 1] = e /\ \A k \in 1..n : t[k] = s[k]
  BY AppendProperties
<1>3. /\ Front(s) \in Seq(S) /\ Len(Front(s)) = n - 1
      /\ \A k \in 1..(n - 1) : Front(s)[k] = s[k]
  <2>1. \A k \in 1..(n - 1) : s[k] \in S
    BY <1>1, ElementOfSeq
  <2> QED  BY <1>1, <2>1, SubSeqProperties DEF Front
<1>4. /\ u \in Seq(S) /\ Len(u) = (n - 1) + 1
      /\ u[(n - 1) + 1] = e /\ \A k \in 1..(n - 1) : u[k] = Front(s)[k]
  BY <1>3, AppendProperties
<1>5. Last(s) = s[n]
  BY DEF Last
<1> HIDE DEF t, u, n
<1>6. n \in 1..Len(t) /\ t[n] = Last(s)
  BY <1>1, <1>2, <1>5
<1>7. ASSUME NEW i \in 1..Len(t), t[i] = Last(s) PROVE i = n
  <2>1. i # n + 1
    BY <1>2, <1>7
  <2>2. i \in 1..n
    BY <1>1, <1>2, <2>1
  <2> QED  BY <1>1, <1>2, <1>5, <1>7, <2>2 DEF Unique
<1>8. RemoveFirst(t, Last(s)) = RemoveAt(t, n)
  BY <1>2, <1>6, <1>7, RemoveFirstCases
<1> DEFINE r == RemoveAt(t, n)
<1>9. /\ r \in Seq(S) /\ Len(r) = Len(t) - 1
      /\ \A k \in 1..(Len(t) - 1) : r[k] = IF k < n THEN t[k] ELSE t[k + 1]
  BY <1>2, <1>6, RemoveAtProperties
<1> HIDE DEF r
<1>10. Len(r) = n /\ Len(u) = n
  BY <1>1, <1>2, <1>4, <1>9
<1>11. ASSUME NEW k \in 1..n PROVE r[k] = u[k]
  <2>1. CASE k < n
    <3>1. k \in 1..(n - 1) /\ k \in 1..n /\ k \in 1..(Len(t) - 1)
      BY <1>1, <1>2, <2>1
    <3> QED  BY <3>1, <2>1, <1>2, <1>3, <1>4, <1>9
  <2>2. CASE ~(k < n)
    <3>1. k = n /\ n \in 1..(Len(t) - 1) /\ (n - 1) + 1 = n
      BY <1>1, <1>2, <2>2
    <3> QED  BY <3>1, <1>1, <1>2, <1>4, <1>9
  <2> QED  BY <2>1, <2>2
<1>12. r = u
  BY <1>4, <1>9, <1>10, <1>11, SeqEqual
<1> QED  BY <1>8, <1>12 DEF r, t, u

=============================================================================
