---------------------------- MODULE BTreeProofs ----------------------------
(***************************************************************************)
(* What the operators of BTreeNode and BTree return: first on sequences,   *)
(* sums and searches, for nodes of any size, then on trees of two levels.  *)
(***************************************************************************)
EXTENDS BTree, FreeListProofs, FiniteSetTheorems

\* A set of numbers has a least one.
LEMMA MinIs ==
    ASSUME NEW T, T \subseteq Nat, T # {}
    PROVE  Min(T) \in T /\ \A y \in T : Min(T) <= y
<1> DEFINE R == OpToRel(<, Nat)
<1>1. IsWellFoundedOn(R, Nat)
    BY NatLessThanWellFounded
<1>2. PICK n \in T : \A m \in T : <<m, n>> \notin R
  <2> HIDE DEF R
  <2> QED BY <1>1, WFMin
<1>3. ASSUME NEW y \in T, ~(n <= y) PROVE FALSE
  <2>1. y \in Nat /\ n \in Nat /\ y < n
      BY <1>3
  <2> QED BY <1>2, <1>3, <2>1 DEF OpToRel
<1> QED BY <1>3 DEF Min

-----------------------------------------------------------------------------
(***************************************************************************)
(* Sequences.                                                              *)
(***************************************************************************)
\* A part of a sequence.
LEMMA PartIs ==
    ASSUME NEW S, NEW s \in Seq(S), NEW m \in 1 .. Len(s) + 1, NEW n \in 0 .. Len(s),
           m <= n + 1
    PROVE  /\ SubSeq(s, m, n) \in Seq(S) /\ Len(SubSeq(s, m, n)) = n - m + 1
           /\ \A i \in 1 .. n - m + 1 : SubSeq(s, m, n)[i] = s[m + i - 1]
<1>1. Len(s) \in Nat
    BY LenProperties
<1>2. m \in Int /\ n \in Int /\ \A i \in m .. n : s[i] \in S
    BY <1>1, ElementOfSeq
<1>3. /\ SubSeq(s, m, n) \in Seq(S)
      /\ Len(SubSeq(s, m, n)) = IF m <= n THEN n - m + 1 ELSE 0
      /\ \A i \in 1 .. n - m + 1 : SubSeq(s, m, n)[i] = s[m + i - 1]
    BY <1>2, SubSeqProperties
<1> QED BY <1>1, <1>3

\* A sequence with an element put in.
LEMMA InsertIs ==
    ASSUME NEW S, NEW s \in Seq(S), NEW i \in 1 .. Len(s) + 1, NEW e \in S
    PROVE  /\ InsertAt(s, i, e) \in Seq(S) /\ Len(InsertAt(s, i, e)) = Len(s) + 1
           /\ \A j \in 1 .. Len(s) + 1 : InsertAt(s, i, e)[j] =
                  IF j < i THEN s[j] ELSE IF j = i THEN e ELSE s[j - 1]
<1> DEFINE a == SubSeq(s, 1, i - 1)
           c == SubSeq(s, i, Len(s))
           ab == a \o <<e>>
<1>1. Len(s) \in Nat /\ i - 1 \in 0 .. Len(s) /\ 1 \in 1 .. Len(s) + 1 /\ Len(s) \in 0 .. Len(s)
    BY LenProperties
<1>2. a \in Seq(S) /\ Len(a) = i - 1 /\ \A j \in 1 .. i - 1 : a[j] = s[j]
    BY <1>1, PartIs
<1>3. c \in Seq(S) /\ Len(c) = Len(s) - i + 1 /\ \A j \in 1 .. Len(s) - i + 1 : c[j] = s[i + j - 1]
    BY <1>1, PartIs
<1>4. <<e>> \in Seq(S) /\ Len(<<e>>) = 1 /\ <<e>>[1] = e
    OBVIOUS
<1> HIDE DEF a, c
<1>5. /\ ab \in Seq(S) /\ Len(ab) = i
      /\ \A j \in 1 .. i : ab[j] = IF j <= i - 1 THEN a[j] ELSE <<e>>[j - (i - 1)]
  <2>1. /\ ab \in Seq(S) /\ Len(ab) = Len(a) + Len(<<e>>)
        /\ \A j \in 1 .. Len(a) + Len(<<e>>) : ab[j] =
               IF j <= Len(a) THEN a[j] ELSE <<e>>[j - Len(a)]
      BY <1>2, <1>4, ConcatProperties
  <2> QED BY <1>1, <1>2, <1>4, <2>1
<1>6. \A j \in 1 .. i : ab[j] = IF j < i THEN s[j] ELSE e
    BY <1>1, <1>2, <1>4, <1>5
<1> HIDE DEF ab
<1>7. InsertAt(s, i, e) = ab \o c
    BY DEF InsertAt, ab, a, c
<1>8. /\ ab \o c \in Seq(S) /\ Len(ab \o c) = Len(ab) + Len(c)
      /\ \A j \in 1 .. Len(ab) + Len(c) : (ab \o c)[j] =
             IF j <= Len(ab) THEN ab[j] ELSE c[j - Len(ab)]
    BY <1>3, <1>5, ConcatProperties
<1>9. \A j \in 1 .. Len(s) + 1 : (ab \o c)[j] = IF j < i THEN s[j] ELSE IF j = i THEN e ELSE s[j - 1]
  <2> SUFFICES ASSUME NEW j \in 1 .. Len(s) + 1
               PROVE  (ab \o c)[j] = IF j < i THEN s[j] ELSE IF j = i THEN e ELSE s[j - 1]
      OBVIOUS
  <2>1. CASE j <= i
      BY <1>1, <1>3, <1>5, <1>6, <1>8, <2>1
  <2>2. CASE j > i
    <3>1. j - i \in 1 .. Len(s) - i + 1 /\ i + (j - i) - 1 = j - 1
        BY <1>1, <2>2
    <3>2. c[j - i] = s[j - 1]
        BY <1>3, <3>1
    <3> QED BY <1>1, <1>3, <1>5, <1>8, <2>2, <3>2
  <2>3. j <= i \/ j > i
      BY <1>1
  <2> QED BY <2>1, <2>2, <2>3
<1> QED BY <1>1, <1>3, <1>5, <1>7, <1>8, <1>9

\* A sequence with an element taken out.
LEMMA RemoveIs ==
    ASSUME NEW S, NEW s \in Seq(S), NEW i \in 1 .. Len(s)
    PROVE  /\ RemoveAt(s, i) \in Seq(S) /\ Len(RemoveAt(s, i)) = Len(s) - 1
           /\ \A j \in 1 .. Len(s) - 1 : RemoveAt(s, i)[j] = IF j < i THEN s[j] ELSE s[j + 1]
<1> DEFINE a == SubSeq(s, 1, i - 1)
           c == SubSeq(s, i + 1, Len(s))
<1>1. /\ Len(s) \in Nat /\ i - 1 \in 0 .. Len(s) /\ 1 \in 1 .. Len(s) + 1
      /\ i + 1 \in 1 .. Len(s) + 1 /\ Len(s) \in 0 .. Len(s) /\ i + 1 <= Len(s) + 1
    BY LenProperties
<1>2. a \in Seq(S) /\ Len(a) = i - 1 /\ \A j \in 1 .. i - 1 : a[j] = s[j]
    BY <1>1, PartIs
<1>3. c \in Seq(S) /\ Len(c) = Len(s) - i /\ \A j \in 1 .. Len(s) - i : c[j] = s[i + j]
  <2>1. /\ c \in Seq(S) /\ Len(c) = Len(s) - (i + 1) + 1
        /\ \A j \in 1 .. Len(s) - (i + 1) + 1 : c[j] = s[(i + 1) + j - 1]
      BY <1>1, PartIs
  <2> HIDE DEF c
  <2>2. Len(s) - (i + 1) + 1 = Len(s) - i /\ \A j \in Int : (i + 1) + j - 1 = i + j
      BY <1>1
  <2>3. \A j \in 1 .. Len(s) - i : c[j] = s[(i + 1) + j - 1] /\ (i + 1) + j - 1 = i + j
      BY <2>1, <2>2
  <2> QED BY <2>1, <2>2, <2>3
<1> HIDE DEF a, c
<1>4. /\ a \o c \in Seq(S) /\ Len(a \o c) = Len(a) + Len(c)
      /\ \A j \in 1 .. Len(a) + Len(c) : (a \o c)[j] =
             IF j <= Len(a) THEN a[j] ELSE c[j - Len(a)]
    BY <1>2, <1>3, ConcatProperties
<1>5. RemoveAt(s, i) = a \o c
    BY DEF RemoveAt, a, c
<1>6. \A j \in 1 .. Len(s) - 1 : (a \o c)[j] = IF j < i THEN s[j] ELSE s[j + 1]
  <2> SUFFICES ASSUME NEW j \in 1 .. Len(s) - 1
               PROVE  (a \o c)[j] = IF j < i THEN s[j] ELSE s[j + 1]
      OBVIOUS
  <2>1. CASE j < i
      BY <1>1, <1>2, <1>3, <1>4, <2>1
  <2>2. CASE ~(j < i)
    <3>1. j - (i - 1) \in 1 .. Len(s) - i /\ i + (j - (i - 1)) = j + 1
        BY <1>1, <2>2
    <3>2. c[j - (i - 1)] = s[j + 1]
        BY <1>3, <3>1
    <3> QED BY <1>1, <1>2, <1>3, <1>4, <2>2, <3>2
  <2> QED BY <2>1, <2>2
<1>7. Len(a) + Len(c) = Len(s) - 1
    BY <1>1, <1>2, <1>3
<1> QED BY <1>4, <1>5, <1>6, <1>7

-----------------------------------------------------------------------------
(***************************************************************************)
(* Items in order.                                                         *)
(***************************************************************************)
\* Node::findKeyInNode: the items before the slot are smaller than the key,
\* those from it on are not.
LEMMA SlotIs ==
    ASSUME NEW n, n.items \in Seq(PlainItem), Sorted(n.items), NEW k \in Key
    PROVE  /\ Slot(n, k) \in 1 .. Len(n.items) + 1
           /\ \A i \in 1 .. Len(n.items) : n.items[i].key < k <=> i < Slot(n, k)
<1> DEFINE s == n.items
           L == Len(n.items)
           T == {i \in 1 .. L + 1 : i = L + 1 \/ ~(s[i].key < k)}
           m == Min(T)
<1>1. L \in Nat /\ DOMAIN s = 1 .. L /\ \A i \in 1 .. L : s[i].key \in Int
  <2>1. \A i \in 1 .. L : s[i] \in PlainItem
      BY RangeIs
  <2> QED BY <2>1, RangeIs, NodeAssumption DEF PlainItem
<1>2. k \in Int
    BY NodeAssumption
<1>3. m \in T /\ \A y \in T : m <= y
  <2>1. T \subseteq Nat /\ L + 1 \in T
      BY <1>1
  <2> HIDE DEF T
  <2> QED BY <2>1, MinIs
<1> HIDE DEF m
<1>4. m \in 1 .. L + 1
    BY <1>3
<1>5. ASSUME NEW i \in 1 .. L PROVE s[i].key < k <=> i < m
  <2>1. CASE i < m
      BY <1>1, <1>3, <1>4, <2>1
  <2>2. CASE ~(i < m)
    <3>1. m \in 1 .. L /\ ~(s[m].key < k)
        BY <1>1, <1>3, <1>4, <2>2
    <3>2. m = i \/ s[m].key < s[i].key
        BY <1>1, <2>2, <3>1 DEF Sorted
    <3> QED BY <1>1, <1>2, <2>2, <3>1, <3>2
  <2> QED BY <2>1, <2>2
<1>6. {i \in DOMAIN s : s[i].key < k} = 1 .. m - 1
    BY <1>1, <1>4, <1>5
<1>7. Cardinality(1 .. m - 1) = m - 1
    BY <1>1, <1>4, FS_Interval
<1>8. Slot(n, k) = m
  <2>1. Slot(n, k) = 1 + Cardinality({i \in DOMAIN s : s[i].key < k})
      BY Zenon DEF Slot
  <2>2. Slot(n, k) = 1 + (m - 1)
      BY <2>1, <1>6, <1>7
  <2> QED BY <1>1, <1>4, <2>2
<1> QED BY <1>4, <1>5, <1>8

\* ... and if the node holds the key, it is at the slot.
LEMMA SlotOfHeld ==
    ASSUME NEW n, n.items \in Seq(PlainItem), Sorted(n.items), NEW k \in Key
    PROVE  /\ Holds(n, k) => Slot(n, k) \in 1 .. Len(n.items) /\ n.items[Slot(n, k)].key = k
           /\ \A i \in 1 .. Len(n.items) : i > Slot(n, k) \/ (i = Slot(n, k) /\ ~Holds(n, k))
                                               => k < n.items[i].key
           /\ \A i \in 1 .. Len(n.items) : n.items[i].key = k => Holds(n, k)
<1> DEFINE s == n.items
           L == Len(n.items)
           m == Slot(n, k)
<1>1. L \in Nat /\ DOMAIN s = 1 .. L /\ \A i \in 1 .. L : s[i].key \in Int
  <2>1. \A i \in 1 .. L : s[i] \in PlainItem
      BY RangeIs
  <2> QED BY <2>1, RangeIs, NodeAssumption DEF PlainItem
<1>2. k \in Int
    BY NodeAssumption
<1>3. m \in 1 .. L + 1 /\ \A i \in 1 .. L : s[i].key < k <=> i < m
    BY SlotIs
<1> HIDE DEF m
<1>4. Holds(n, k) <=> \E i \in 1 .. L : s[i].key = k
    BY <1>1 DEF Holds, Keys
<1>5. ASSUME NEW i \in 1 .. L, s[i].key = k PROVE i = m
  <2>1. ~(i < m)
      BY <1>2, <1>3, <1>5
  <2>2. CASE i > m
    <3>1. m \in 1 .. L /\ s[m].key < s[i].key
        BY <1>1, <1>3, <2>2, SMTT(30) DEF Sorted
    <3> QED BY <1>1, <1>2, <1>3, <1>5, <3>1
  <2> QED BY <1>1, <1>3, <2>1, <2>2
<1>6. ASSUME NEW i \in 1 .. L, i > m \/ (i = m /\ ~Holds(n, k)) PROVE k < s[i].key
  <2>1. ~(s[i].key < k)
      BY <1>1, <1>3, <1>6
  <2>2. s[i].key # k
      BY <1>1, <1>3, <1>4, <1>5, <1>6
  <2> QED BY <1>1, <1>2, <2>1, <2>2
<1> QED BY <1>1, <1>4, <1>5, <1>6 DEF m

\* Two ascending sequences, all items of one before all of the other.
LEMMA SortedConcat ==
    ASSUME NEW a \in Seq(PlainItem), NEW b \in Seq(PlainItem), Sorted(a), Sorted(b),
           \A x \in Range(a), y \in Range(b) : x.key < y.key
    PROVE  Sorted(a \o b)
<1> DEFINE c == a \o b
<1>1. /\ c \in Seq(PlainItem) /\ Len(c) = Len(a) + Len(b)
      /\ \A i \in 1 .. Len(a) + Len(b) : c[i] = IF i <= Len(a) THEN a[i] ELSE b[i - Len(a)]
    BY ConcatProperties
<1>2. /\ Len(a) \in Nat /\ Len(b) \in Nat /\ DOMAIN a = 1 .. Len(a) /\ DOMAIN b = 1 .. Len(b)
      /\ DOMAIN c = 1 .. Len(c)
      /\ \A i \in 1 .. Len(a) : a[i] \in Range(a)
      /\ \A i \in 1 .. Len(b) : b[i] \in Range(b)
    BY <1>1, RangeIs
<1> SUFFICES ASSUME NEW i \in DOMAIN c, NEW j \in DOMAIN c, i < j PROVE c[i].key < c[j].key
    BY DEF Sorted
<1> HIDE DEF c
<1>3. CASE j <= Len(a)
    BY <1>1, <1>2, <1>3 DEF Sorted
<1>4. CASE i > Len(a)
  <2>1. i - Len(a) \in DOMAIN b /\ j - Len(a) \in DOMAIN b /\ i - Len(a) < j - Len(a)
      BY <1>1, <1>2, <1>4
  <2>2. c[i] = b[i - Len(a)] /\ c[j] = b[j - Len(a)]
      BY <1>1, <1>2, <1>4
  <2>3. b[i - Len(a)].key < b[j - Len(a)].key
      BY <2>1 DEF Sorted
  <2> QED BY <2>2, <2>3
<1>5. CASE i <= Len(a) /\ j > Len(a)
  <2>1. i \in 1 .. Len(a) /\ j - Len(a) \in 1 .. Len(b)
      BY <1>1, <1>2, <1>5
  <2> QED BY <1>1, <1>2, <1>5, <2>1
<1> QED BY <1>1, <1>2, <1>3, <1>4, <1>5

\* An ascending sequence has as many items as its range.
LEMMA SortedCount ==
    ASSUME NEW s \in Seq(PlainItem), Sorted(s)
    PROVE  IsFiniteSet(Range(s)) /\ Cardinality(Range(s)) = Len(s)
<1>1. Len(s) \in Nat /\ DOMAIN s = 1 .. Len(s)
    BY RangeIs
<1>2. \A i \in 1 .. Len(s) : s[i].key \in Int
  <2>1. \A i \in 1 .. Len(s) : s[i] \in PlainItem
      BY RangeIs
  <2> QED BY <2>1, NodeAssumption DEF PlainItem
<1>3. ASSUME NEW i \in 1 .. Len(s), NEW j \in 1 .. Len(s), s[i] = s[j] PROVE i = j
  <2>1. ~(i < j) /\ ~(j < i)
      BY <1>1, <1>2, <1>3 DEF Sorted
  <2> QED BY <1>1, <2>1
<1>4. s \in Bijection(1 .. Len(s), Range(s))
  <2>1. s \in [1 .. Len(s) -> Range(s)]
      BY <1>1, LenProperties, RangeIs
  <2>2. \A t \in Range(s) : \E i \in 1 .. Len(s) : s[i] = t
      BY <1>1 DEF Range
  <2> QED BY <1>1, <1>3, <2>1, <2>2 DEF Bijection, Injection, Surjection, IsInjective
<1>5. IsFiniteSet(1 .. Len(s)) /\ Cardinality(1 .. Len(s)) = Len(s)
    BY <1>1, FS_Interval
<1>6. ExistsBijection(1 .. Len(s), Range(s))
    BY <1>4 DEF ExistsBijection
<1> QED BY <1>5, <1>6, FS_Bijection

-----------------------------------------------------------------------------
(***************************************************************************)
(* FlattenSeq.                                                             *)
(***************************************************************************)
\* Parts that ascend, one after the other, make a whole that ascends.
LEMMA FlattenSorted ==
    ASSUME NEW ss \in Seq(Seq(PlainItem)), ss # <<>>,
           \A i \in 1 .. Len(ss) : Sorted(ss[i]),
           \A i, j \in 1 .. Len(ss) : i < j =>
               \A x \in Range(ss[i]), y \in Range(ss[j]) : x.key < y.key
    PROVE  Sorted(FlattenSeq(ss))
<1> DEFINE n == Len(ss)
<1>1. n \in Nat /\ n > 0 /\ \A i \in 1 .. n : ss[i] \in Seq(PlainItem)
    BY RangeIs, EmptySeq
<1>2. PICK f \in [1 .. n -> Seq(PlainItem)] :
               /\ f[1] = ss[1] /\ \A i \in 2 .. n : f[i] = f[i - 1] \o ss[i]
               /\ FlattenSeq(ss) = f[n]
    BY FlattenDefined
<1>0. /\ \A i \in 1 .. n : Sorted(ss[i])
      /\ \A i, j \in 1 .. n : i < j => \A x \in Range(ss[i]), y \in Range(ss[j]) : x.key < y.key
    OBVIOUS
<1> HIDE DEF n
<1> DEFINE T == {j \in Nat : j \in 1 .. n =>
                     Sorted(f[j]) /\ \A x \in Range(f[j]) : \E l \in 1 .. j : x \in Range(ss[l])}
<1>3. 0 \in T
    BY <1>1
<1>4. ASSUME NEW j \in Nat, j \in T PROVE j + 1 \in T
  <2> SUFFICES ASSUME NEW i \in 1 .. n, i = j + 1
               PROVE  Sorted(f[i]) /\ \A x \in Range(f[i]) : \E l \in 1 .. i : x \in Range(ss[l])
      OBVIOUS
  <2>1. CASE i = 1
    <3>1. 1 \in 1 .. i
        BY <2>1
    <3> QED BY <1>0, <1>1, <1>2, <2>1, <3>1
  <2>2. CASE i # 1
    <3>1. i - 1 \in 1 .. n /\ i \in 2 .. n /\ i - 1 = j
        BY <1>1, <2>2
    <3>2. Sorted(f[i - 1]) /\ \A x \in Range(f[i - 1]) : \E l \in 1 .. i - 1 : x \in Range(ss[l])
        BY <1>4, <3>1
    <3>3. f[i - 1] \in Seq(PlainItem) /\ ss[i] \in Seq(PlainItem) /\ f[i] = f[i - 1] \o ss[i]
        BY <1>1, <1>2, <3>1
    <3>4. Range(f[i]) = Range(f[i - 1]) \cup Range(ss[i])
        BY <3>3, RangeConcatenation
    <3>5. \A x \in Range(f[i - 1]), y \in Range(ss[i]) : x.key < y.key
      <4> SUFFICES ASSUME NEW x \in Range(f[i - 1]), NEW y \in Range(ss[i]) PROVE x.key < y.key
          OBVIOUS
      <4>1. PICK l \in 1 .. i - 1 : x \in Range(ss[l])
          BY <3>2
      <4>2. l \in 1 .. n /\ l < i
          BY <1>1, <3>1
      <4> QED BY <1>0, <4>1, <4>2
    <3>6. Sorted(f[i])
        BY <1>0, <3>2, <3>3, <3>5, SortedConcat
    <3>7. \A l \in 1 .. i - 1 : l \in 1 .. i
        BY <1>1, <3>1
    <3>8. i \in 1 .. i
        BY <1>1
    <3> QED BY <3>2, <3>4, <3>6, <3>7, <3>8
  <2> QED BY <2>1, <2>2
<1>5. n \in T
  <2> HIDE DEF T
  <2>1. \A j \in Nat : j \in T => j + 1 \in T
      BY <1>4
  <2> QED BY <1>1, <1>3, <2>1, SetInduction
<1> QED BY <1>1, <1>2, <1>5 DEF n

\* Sequences of one element each.
LEMMA FlattenOnes ==
    ASSUME NEW S, NEW s \in Seq(S)
    PROVE  FlattenSeq([i \in DOMAIN s |-> <<s[i]>>]) = s
<1> DEFINE n == Len(s)
           ss == [i \in 1 .. n |-> <<s[i]>>]
<1>1. n \in Nat /\ DOMAIN s = 1 .. n /\ \A i \in 1 .. n : s[i] \in S
    BY RangeIs
<1>2. ss \in Seq(Seq(S)) /\ Len(ss) = n
  <2>1. \A i \in 1 .. n : <<s[i]>> \in Seq(S)
      BY <1>1
  <2>2. ss \in [1 .. n -> Seq(S)]
      BY <2>1
  <2> HIDE DEF ss, n
  <2> QED BY <1>1, <2>2
<1>3. CASE n = 0
  <2>1. ss = s
      BY <1>1, <1>3
  <2> HIDE DEF ss
  <2> QED BY <1>1, <1>2, <1>3, <2>1, FlattenNone DEF ss
<1>4. CASE n # 0
  <2>1. ss # <<>>
      BY <1>2, <1>4
  <2>2. PICK f \in [1 .. n -> Seq(S)] :
               /\ f[1] = ss[1] /\ \A i \in 2 .. n : f[i] = f[i - 1] \o ss[i]
               /\ FlattenSeq(ss) = f[n]
    <3> HIDE DEF ss, n
    <3>1. \E f \in [1 .. Len(ss) -> Seq(S)] :
               /\ f[1] = ss[1] /\ \A i \in 2 .. Len(ss) : f[i] = f[i - 1] \o ss[i]
               /\ FlattenSeq(ss) = f[Len(ss)]
        BY <1>2, <2>1, FlattenDefined, Zenon
    <3> QED BY <1>2, <3>1
  <2> DEFINE T == {j \in Nat : j \in 1 .. n => Len(f[j]) = j /\ \A l \in 1 .. j : f[j][l] = s[l]}
  <2> HIDE DEF n
  <2>3. 0 \in T
      BY <1>1
  <2>4. ASSUME NEW j \in Nat, j \in T PROVE j + 1 \in T
    <3> SUFFICES ASSUME NEW i \in 1 .. n, i = j + 1
                 PROVE  Len(f[i]) = i /\ \A l \in 1 .. i : f[i][l] = s[l]
        OBVIOUS
    <3>1. ss[i] = <<s[i]>> /\ Len(<<s[i]>>) = 1 /\ <<s[i]>>[1] = s[i] /\ <<s[i]>> \in Seq(S)
        BY <1>1
    <3>2. CASE i = 1
      <4>1. f[i] = <<s[i]>> /\ \A l \in 1 .. i : l = 1
          BY <2>2, <3>1, <3>2
      <4> HIDE DEF ss
      <4> QED BY <3>1, <3>2, <4>1
    <3>3. CASE i # 1
      <4>1. i - 1 \in 1 .. n /\ i \in 2 .. n /\ i - 1 = j /\ i \in Nat
          BY <1>1, <3>3
      <4>2. Len(f[i - 1]) = i - 1 /\ \A l \in 1 .. i - 1 : f[i - 1][l] = s[l]
          BY <2>4, <4>1
      <4>3. f[i - 1] \in Seq(S) /\ f[i] = f[i - 1] \o <<s[i]>>
          BY <2>2, <3>1, <4>1
      <4>4. /\ Len(f[i]) = Len(f[i - 1]) + 1
            /\ \A l \in 1 .. Len(f[i - 1]) + 1 : f[i][l] =
                   IF l <= Len(f[i - 1]) THEN f[i - 1][l] ELSE <<s[i]>>[l - Len(f[i - 1])]
          BY <3>1, <4>3, ConcatProperties
      <4>5. Len(f[i]) = i
          BY <4>1, <4>2, <4>4
      <4>6. ASSUME NEW l \in 1 .. i PROVE f[i][l] = s[l]
        <5>1. f[i][l] = IF l <= i - 1 THEN f[i - 1][l] ELSE <<s[i]>>[l - (i - 1)]
            BY <4>1, <4>2, <4>4
        <5>2. CASE l <= i - 1
            BY <4>1, <4>2, <5>1, <5>2
        <5>3. CASE l = i
          <6>1. l - (i - 1) = 1 /\ ~(l <= i - 1)
              BY <4>1, <5>3
          <6> QED BY <3>1, <5>1, <5>3, <6>1
        <5> QED BY <4>1, <5>2, <5>3
      <4> QED BY <4>5, <4>6
    <3> QED BY <3>2, <3>3
  <2>5. n \in T
    <3> HIDE DEF T
    <3>1. \A j \in Nat : j \in T => j + 1 \in T
        BY <2>4
    <3> QED BY <1>1, <2>3, <3>1, SetInduction
  <2>6. n \in 1 .. n
      BY <1>1, <1>4
  <2>7. f[n] \in Seq(S) /\ Len(f[n]) = Len(s) /\ \A l \in 1 .. Len(f[n]) : f[n][l] = s[l]
      BY <2>5, <2>6 DEF n
  <2>8. f[n] = s
      BY <2>7, SeqEqual
  <2> QED BY <1>1, <2>2, <2>8
<1> QED BY <1>1, <1>3, <1>4

-----------------------------------------------------------------------------
(***************************************************************************)
(* The sizes of a node's items, summed over sets of indices.               *)
(***************************************************************************)
\* G sums the sizes of n's items over each part of U.
SumsOver(n, U, G) ==
    /\ G \in [SUBSET U -> Nat] /\ G[{}] = 0
    /\ \A s \in SUBSET U : \A x \in s : G[s] = ItemSize(n, x) + G[s \ {x}]

\* Whatever element the sum takes out next, any element can be taken out.
LEMMA SumDefined ==
    ASSUME NEW n, NEW j \in Nat, \A i \in 1 .. j : ItemSize(n, i) \in Nat
    PROVE  \E G : SumsOver(n, 1 .. j, G) /\ SizeUpTo(n, j) = HeaderSize + G[1 .. j]
<1> DEFINE U == 1 .. j
<1>0. IsFiniteSet(U) /\ \A i \in U : ItemSize(n, i) \in Nat
    BY FS_Interval
<1> DEFINE next(s) == CHOOSE x \in s : TRUE
           def(g, s) == IF s = {} THEN 0
                        ELSE LET x == next(s) IN ItemSize(n, x) + g[s \ {x}]
           C == Cardinality(U)
           T == {c \in Nat : \E g \in [SUBSET U -> Nat] :
                    \A s \in SUBSET U : Cardinality(s) <= c => g[s] = def(g, s)}
<1>1. /\ C \in Nat
      /\ \A s \in SUBSET U : IsFiniteSet(s) /\ Cardinality(s) \in Nat /\ Cardinality(s) <= C
  <2> HIDE DEF U
  <2> QED BY <1>0, FS_Subset, FS_CardinalityType
<1> HIDE DEF U
<1>2. \A s \in SUBSET U : s # {} => next(s) \in s
    OBVIOUS
<1>3. \A s \in SUBSET U : \A x \in s : s \ {x} \in SUBSET U /\ Cardinality(s \ {x}) = Cardinality(s) - 1
    BY <1>1, FS_RemoveElement
<1>4. \A s \in SUBSET U : Cardinality(s) = 0 <=> s = {}
    BY <1>1, FS_EmptySet
<1> HIDE DEF next, C
<1>5. \A g \in [SUBSET U -> Nat] : \A s \in SUBSET U : def(g, s) \in Nat
    BY <1>0, <1>2, <1>3
<1>6. 0 \in T
  <2> DEFINE g == [s \in SUBSET U |-> 0]
  <2>1. g \in [SUBSET U -> Nat]
      OBVIOUS
  <2>2. ASSUME NEW s \in SUBSET U, Cardinality(s) <= 0 PROVE g[s] = def(g, s)
    <3>1. s = {}
        BY <1>1, <1>4, <2>2
    <3> QED BY <3>1
  <2> HIDE DEF g, def
  <2> QED BY <2>1, <2>2
<1>7. ASSUME NEW c \in Nat, c \in T PROVE c + 1 \in T
  <2>1. PICK f \in [SUBSET U -> Nat] : \A s \in SUBSET U : Cardinality(s) <= c => f[s] = def(f, s)
      BY <1>7
  <2> DEFINE g == [s \in SUBSET U |-> IF Cardinality(s) = c + 1 THEN def(f, s) ELSE f[s]]
  <2>2. g \in [SUBSET U -> Nat]
    <3> HIDE DEF def
    <3> QED BY <1>5
  <2>3. ASSUME NEW s \in SUBSET U, Cardinality(s) <= c + 1 PROVE g[s] = def(g, s)
    <3>1. def(g, s) = def(f, s)
      <4>1. CASE s = {}
          BY <4>1
      <4>2. CASE s # {}
        <5>1. next(s) \in s /\ s \ {next(s)} \in SUBSET U /\ Cardinality(s \ {next(s)}) = Cardinality(s) - 1
            BY <1>2, <1>3, <4>2
        <5>2. Cardinality(s \ {next(s)}) # c + 1
            BY <1>1, <2>3, <5>1
        <5>3. g[s \ {next(s)}] = f[s \ {next(s)}]
            BY <5>1, <5>2
        <5> HIDE DEF g
        <5> QED BY <5>3
      <4> QED BY <4>1, <4>2
    <3>2. g[s] = def(f, s)
      <4>1. CASE Cardinality(s) = c + 1
        <5> HIDE DEF def
        <5> QED BY <4>1
      <4>2. CASE Cardinality(s) # c + 1
        <5>1. Cardinality(s) <= c
            BY <1>1, <2>3, <4>2
        <5> HIDE DEF def
        <5> QED BY <2>1, <4>2, <5>1
      <4> QED BY <4>1, <4>2
    <3> QED BY <3>1, <3>2
  <2>4. \E h \in [SUBSET U -> Nat] : \A s \in SUBSET U : Cardinality(s) <= c + 1 => h[s] = def(h, s)
    <3> HIDE DEF g, def
    <3> QED BY <2>2, <2>3
  <2>5. c + 1 \in Nat
      OBVIOUS
  <2> HIDE DEF def, g
  <2> QED BY <2>4, <2>5, Zenon
<1>8. C \in T
  <2> HIDE DEF T
  <2>1. \A c \in Nat : c \in T => c + 1 \in T
      BY <1>7
  <2> QED BY <1>1, <1>6, <2>1, SetInduction
<1>9. PICK f \in [SUBSET U -> Nat] : \A s \in SUBSET U : Cardinality(s) <= C => f[s] = def(f, s)
    BY <1>8
<1>10. f = [s \in SUBSET U |-> def(f, s)]
  <2> HIDE DEF def
  <2> QED BY <1>1, <1>9
<1> DEFINE F == CHOOSE g : g = [s \in SUBSET U |-> def(g, s)]
<1>11. F = [s \in SUBSET U |-> def(F, s)]
  <2> HIDE DEF def
  <2> QED BY <1>10, Zenon
<1>12. SizeUpTo(n, j) = HeaderSize + F[U]
    BY Zenon DEF SizeUpTo, MapThenSumSet, MapThenFoldSet, next, U
<1> HIDE DEF F
<1> DEFINE V == {c \in Nat : \A s \in SUBSET U : Cardinality(s) <= c =>
                     /\ F[s] \in Nat
                     /\ \A x \in s : F[s] = ItemSize(n, x) + F[s \ {x}]}
<1>13. F[{}] = 0
    BY <1>11
<1>14. 0 \in V
  <2>1. \A s \in SUBSET U : Cardinality(s) <= 0 => s = {}
      BY <1>1, <1>4
  <2>2. ASSUME NEW s \in SUBSET U, Cardinality(s) <= 0
        PROVE  F[s] \in Nat /\ \A x \in s : F[s] = ItemSize(n, x) + F[s \ {x}]
    <3>1. s = {}
        BY <2>1, <2>2
    <3> QED BY <1>13, <3>1
  <2> QED BY <2>2
<1>15. ASSUME NEW c \in Nat, c \in V PROVE c + 1 \in V
  <2> SUFFICES ASSUME NEW s \in SUBSET U, Cardinality(s) <= c + 1
               PROVE  F[s] \in Nat /\ \A x \in s : F[s] = ItemSize(n, x) + F[s \ {x}]
      OBVIOUS
  <2>1. CASE s = {}
      BY <1>13, <2>1
  <2>2. CASE s # {}
    <3> DEFINE y == next(s)
    <3>0. y \in s
        BY <1>2, <2>2
    <3>1. F[s] = ItemSize(n, y) + F[s \ {y}]
        BY <1>11, <2>2
    <3>2. \A x \in s : s \ {x} \in SUBSET U /\ Cardinality(s \ {x}) <= c /\ F[s \ {x}] \in Nat /\ ItemSize(n, x) \in Nat
      <4>1. \A x \in s : s \ {x} \in SUBSET U /\ Cardinality(s \ {x}) <= c
          BY <1>1, <1>3
      <4> QED BY <1>0, <1>15, <4>1
    <3> HIDE DEF y
    <3>3. F[s] \in Nat
      <4>1. F[s \ {y}] \in Nat /\ ItemSize(n, y) \in Nat
          BY <3>0, <3>2
      <4> QED BY <3>1, <4>1
    <3>4. ASSUME NEW x \in s, x # y PROVE F[s] = ItemSize(n, x) + F[s \ {x}]
      <4>1. F[s \ {y}] = ItemSize(n, x) + F[(s \ {y}) \ {x}]
          BY <1>15, <3>0, <3>2, <3>4
      <4>2. F[s \ {x}] = ItemSize(n, y) + F[(s \ {x}) \ {y}]
          BY <1>15, <3>0, <3>2, <3>4
      <4>3. (s \ {y}) \ {x} = (s \ {x}) \ {y}
          OBVIOUS
      <4>4. F[(s \ {y}) \ {x}] \in Nat
        <5>1. (s \ {y}) \ {x} \in SUBSET U /\ Cardinality((s \ {y}) \ {x}) <= c
          <6>1. s \ {y} \in SUBSET U /\ x \in s \ {y} /\ Cardinality(s \ {y}) <= c
              BY <3>0, <3>2, <3>4
          <6>2. Cardinality((s \ {y}) \ {x}) = Cardinality(s \ {y}) - 1
              BY <1>3, <6>1
          <6> QED BY <1>1, <6>1, <6>2
        <5> QED BY <1>15, <5>1
      <4>5. ItemSize(n, x) \in Nat /\ ItemSize(n, y) \in Nat
          BY <3>0, <3>2
      <4>6. F[(s \ {y}) \ {x}] = F[(s \ {x}) \ {y}]
          BY <4>3
      <4> DEFINE a == ItemSize(n, x)
                 b == ItemSize(n, y)
                 d == F[(s \ {y}) \ {x}]
      <4>7. F[s] = b + (a + d) /\ F[s \ {x}] = b + d
          BY <3>1, <4>1, <4>2, <4>6
      <4>8. a \in Nat /\ b \in Nat /\ d \in Nat
          BY <4>4, <4>5
      <4> HIDE DEF a, b, d
      <4>9. b + (a + d) = a + (b + d)
          BY <4>8
      <4> QED BY <4>7, <4>9 DEF a
    <3> QED BY <3>1, <3>3, <3>4
  <2> QED BY <2>1, <2>2
<1>16. C \in V
  <2> HIDE DEF V
  <2>1. \A c \in Nat : c \in V => c + 1 \in V
      BY <1>15
  <2> QED BY <1>1, <1>14, <2>1, SetInduction
<1>17. \A s \in SUBSET U : F[s] \in Nat /\ \A x \in s : F[s] = ItemSize(n, x) + F[s \ {x}]
    BY <1>1, <1>16
<1>18. F \in [SUBSET U -> Nat]
    BY <1>11, <1>17
<1>19. SumsOver(n, U, F)
    BY <1>13, <1>17, <1>18 DEF SumsOver
<1> QED BY <1>12, <1>19 DEF U

\* Two such sums agree where both are defined.
LEMMA SumSame ==
    ASSUME NEW n, NEW U, IsFiniteSet(U), NEW V, U \subseteq V,
           NEW G, SumsOver(n, U, G), NEW H, SumsOver(n, V, H)
    PROVE  G[U] = H[U]
<1> DEFINE T == {c \in Nat : \A s \in SUBSET U : Cardinality(s) = c => G[s] = H[s]}
<1>1. \A s \in SUBSET U : IsFiniteSet(s) /\ Cardinality(s) \in Nat
    BY FS_Subset, FS_CardinalityType
<1>2. 0 \in T
  <2>1. \A s \in SUBSET U : Cardinality(s) = 0 => s = {}
      BY <1>1, FS_EmptySet
  <2> QED BY <2>1 DEF SumsOver
<1>3. ASSUME NEW c \in Nat, c \in T PROVE c + 1 \in T
  <2> SUFFICES ASSUME NEW s \in SUBSET U, Cardinality(s) = c + 1 PROVE G[s] = H[s]
      OBVIOUS
  <2>1. s # {}
    <3>1. Cardinality({}) = 0 /\ c + 1 # 0
        BY FS_EmptySet
    <3> QED BY <3>1
  <2>2. PICK x \in s : TRUE
      BY <2>1
  <2>3. s \ {x} \in SUBSET U /\ Cardinality(s \ {x}) = c
    <3>1. IsFiniteSet(s) /\ x \in s
        BY <1>1, <2>2
    <3>2. Cardinality(s \ {x}) = Cardinality(s) - 1
        BY <3>1, FS_RemoveElement
    <3> QED BY <3>2
  <2>4. G[s \ {x}] = H[s \ {x}]
      BY <1>3, <2>3
  <2>5. s \in SUBSET V
      OBVIOUS
  <2> QED BY <2>2, <2>4, <2>5 DEF SumsOver
<1>4. Cardinality(U) \in T
  <2> HIDE DEF T
  <2>1. \A c \in Nat : c \in T => c + 1 \in T
      BY <1>3
  <2> QED BY <1>1, <1>2, <2>1, SetInduction
<1> QED BY <1>4

\* Node::size adds the items up from the first to the last.
LEMMA SizeStep ==
    ASSUME NEW n, NEW N \in Nat, \A i \in 1 .. N : ItemSize(n, i) \in Nat
    PROVE  /\ SizeUpTo(n, 0) = HeaderSize
           /\ \A j \in 0 .. N : SizeUpTo(n, j) \in Nat
           /\ \A j \in 1 .. N : SizeUpTo(n, j) = SizeUpTo(n, j - 1) + ItemSize(n, j)
<1>1. ASSUME NEW j \in 0 .. N
      PROVE  \E G : SumsOver(n, 1 .. j, G) /\ SizeUpTo(n, j) = HeaderSize + G[1 .. j]
  <2>1. j \in Nat /\ \A i \in 1 .. j : ItemSize(n, i) \in Nat
    <3>1. \A i \in 1 .. j : i \in 1 .. N
        OBVIOUS
    <3> QED BY <3>1
  <2> QED BY <2>1, SumDefined
<1>2. HeaderSize \in Nat
    BY DEF HeaderSize
<1>3. \A j \in 0 .. N : SizeUpTo(n, j) \in Nat
  <2> SUFFICES ASSUME NEW j \in 0 .. N PROVE SizeUpTo(n, j) \in Nat
      OBVIOUS
  <2>1. PICK G : SumsOver(n, 1 .. j, G) /\ SizeUpTo(n, j) = HeaderSize + G[1 .. j]
      BY <1>1
  <2>2. G[1 .. j] \in Nat
    <3> DEFINE U == 1 .. j
    <3> HIDE DEF U
    <3>1. G[U] \in Nat
        BY <2>1 DEF SumsOver, U
    <3> QED BY <3>1 DEF U
  <2> QED BY <1>2, <2>1, <2>2
<1>4. SizeUpTo(n, 0) = HeaderSize
  <2>1. 0 \in 0 .. N /\ 1 .. 0 = {}
      OBVIOUS
  <2>2. PICK G : SumsOver(n, {}, G) /\ SizeUpTo(n, 0) = HeaderSize + G[{}]
      BY <1>1, <2>1
  <2> QED BY <1>2, <2>2 DEF SumsOver
<1>5. ASSUME NEW j \in 1 .. N PROVE SizeUpTo(n, j) = SizeUpTo(n, j - 1) + ItemSize(n, j)
  <2> DEFINE U == 1 .. j
             W == 1 .. j - 1
  <2>0. j - 1 \in 0 .. N /\ j \in 0 .. N /\ W = U \ {j} /\ j \in U /\ W \subseteq U
      OBVIOUS
  <2>1. IsFiniteSet(W)
      BY <2>0, FS_Interval
  <2>2. PICK G : SumsOver(n, U, G) /\ SizeUpTo(n, j) = HeaderSize + G[U]
      BY <1>1, <2>0
  <2>3. PICK H : SumsOver(n, W, H) /\ SizeUpTo(n, j - 1) = HeaderSize + H[W]
      BY <1>1, <2>0
  <2> HIDE DEF U, W
  <2>4. H[W] = G[W]
      BY <2>0, <2>1, <2>2, <2>3, SumSame
  <2>5. G[U] = ItemSize(n, j) + G[W] /\ G[W] \in Nat
      BY <2>0, <2>2 DEF SumsOver
  <2>6. ItemSize(n, j) \in Nat
      OBVIOUS
  <2> QED BY <1>2, <2>2, <2>3, <2>4, <2>5, <2>6
<1> QED BY <1>3, <1>4, <1>5

-----------------------------------------------------------------------------
(***************************************************************************)
(* The size of a leaf.                                                     *)
(***************************************************************************)
\* What an item adds to the size of its node.
Weight(x) == OffsetSize + LengthsSize + Bytes[x.val]

\* It is a number and not zero.
LEMMA WeightIs ==
    ASSUME NEW x \in PlainItem
    PROVE  Weight(x) \in Nat /\ Weight(x) > 0
<1>1. x.val \in Value
    BY DEF PlainItem
<1>2. Bytes[x.val] \in Nat
    BY <1>1, NodeAssumption
<1> QED BY <1>2 DEF Weight, OffsetSize, LengthsSize

\* Node::size of a leaf: the weight of one item after another.
LEMMA LeafSize ==
    ASSUME NEW n, IsLeaf(n), n.items \in Seq(PlainItem)
    PROVE  /\ SizeUpTo(n, 0) = HeaderSize
           /\ \A j \in 0 .. Len(n.items) : SizeUpTo(n, j) \in Nat
           /\ \A j \in 1 .. Len(n.items) : SizeUpTo(n, j) = SizeUpTo(n, j - 1) + Weight(n.items[j])
           /\ Size(n) = SizeUpTo(n, Len(n.items))
           /\ Size(n) \in Nat
<1> DEFINE N == Len(n.items)
<1>1. N \in Nat /\ \A i \in 1 .. N : n.items[i] \in PlainItem
    BY RangeIs
<1> HIDE DEF N
<1>2. ASSUME NEW i \in 1 .. N PROVE ItemSize(n, i) = Weight(n.items[i]) /\ ItemSize(n, i) \in Nat
  <2>1. Weight(n.items[i]) \in Nat
      BY <1>1, WeightIs
  <2>2. Bytes[n.items[i].val] \in Nat
      BY <1>1, NodeAssumption DEF PlainItem
  <2>3. ItemSize(n, i) = Weight(n.items[i]) + 0
      BY Zenon DEF ItemSize, Weight
  <2> QED BY <2>1, <2>3
<1>3. /\ SizeUpTo(n, 0) = HeaderSize
      /\ \A j \in 0 .. N : SizeUpTo(n, j) \in Nat
      /\ \A j \in 1 .. N : SizeUpTo(n, j) = SizeUpTo(n, j - 1) + ItemSize(n, j)
    BY <1>1, <1>2, SizeStep
<1>4. Size(n) = SizeUpTo(n, N) + 0
    BY Zenon DEF Size, N
<1>5. N \in 0 .. N
    BY <1>1
<1> QED BY <1>2, <1>3, <1>4, <1>5 DEF N

\* The items of n after the a-th to the p-th are those of m after the b-th to
\* the q-th.
Shared(n, a, p, m, b, q) ==
    /\ {a, b, p, q} \subseteq Nat /\ a <= p /\ b <= q /\ p - a = q - b
    /\ p <= Len(n.items) /\ q <= Len(m.items)
    /\ \A l \in 1 .. p - a : n.items[a + l] = m.items[b + l]

\* Items that two leaves share weigh as much in one as in the other.
LEMMA Shift ==
    ASSUME NEW n, IsLeaf(n), n.items \in Seq(PlainItem),
           NEW m, IsLeaf(m), m.items \in Seq(PlainItem),
           NEW a, NEW p, NEW b, NEW q, Shared(n, a, p, m, b, q)
    PROVE  /\ SizeUpTo(n, p) - SizeUpTo(n, a) = SizeUpTo(m, q) - SizeUpTo(m, b)
           /\ SizeUpTo(n, p) \in Nat /\ SizeUpTo(n, a) \in Nat
           /\ SizeUpTo(m, q) \in Nat /\ SizeUpTo(m, b) \in Nat
<1> DEFINE c == p - a
           F == [i \in 0 .. Len(n.items) |-> SizeUpTo(n, i)]
           H == [i \in 0 .. Len(m.items) |-> SizeUpTo(m, i)]
           T == {l \in Nat : l <= c => F[a + l] - F[a] = H[b + l] - H[b]}
<1>1. /\ a \in Nat /\ b \in Nat /\ c \in Nat /\ a + c = p /\ b + c = q
      /\ Len(n.items) \in Nat /\ Len(m.items) \in Nat
      /\ p \in 0 .. Len(n.items) /\ q \in 0 .. Len(m.items)
      /\ a \in 0 .. Len(n.items) /\ b \in 0 .. Len(m.items)
      /\ \A l \in 1 .. c : n.items[a + l] = m.items[b + l]
  <2>1. Len(n.items) \in Nat /\ Len(m.items) \in Nat
      BY RangeIs
  <2> QED BY <2>1, SMTT(30) DEF Shared
<1> HIDE DEF c
<1>2. /\ \A j \in 0 .. Len(n.items) : F[j] \in Nat
      /\ \A j \in 1 .. Len(n.items) : F[j] = F[j - 1] + Weight(n.items[j])
  <2>1. \A j \in 1 .. Len(n.items) : j \in 0 .. Len(n.items) /\ j - 1 \in 0 .. Len(n.items)
      BY <1>1
  <2> QED BY <2>1, LeafSize
<1>3. /\ \A j \in 0 .. Len(m.items) : H[j] \in Nat
      /\ \A j \in 1 .. Len(m.items) : H[j] = H[j - 1] + Weight(m.items[j])
  <2>1. \A j \in 1 .. Len(m.items) : j \in 0 .. Len(m.items) /\ j - 1 \in 0 .. Len(m.items)
      BY <1>1
  <2> QED BY <2>1, LeafSize
<1>4. SizeUpTo(n, p) = F[p] /\ SizeUpTo(n, a) = F[a] /\ SizeUpTo(m, q) = H[q] /\ SizeUpTo(m, b) = H[b]
    BY <1>1
<1> HIDE DEF F, H
<1>5. 0 \in T
  <2>1. F[a] \in Nat /\ H[b] \in Nat /\ a + 0 = a /\ b + 0 = b
      BY <1>1, <1>2, <1>3
  <2> QED BY <2>1
<1>6. ASSUME NEW l \in Nat, l \in T PROVE l + 1 \in T
  <2> SUFFICES ASSUME l + 1 <= c PROVE F[a + (l + 1)] - F[a] = H[b + (l + 1)] - H[b]
      OBVIOUS
  <2> DEFINE i == a + (l + 1)
             j == b + (l + 1)
  <2>1. /\ i \in 1 .. Len(n.items) /\ i - 1 = a + l /\ i - 1 \in 0 .. Len(n.items)
        /\ j \in 1 .. Len(m.items) /\ j - 1 = b + l /\ j - 1 \in 0 .. Len(m.items)
        /\ l + 1 \in 1 .. c
      BY <1>1
  <2>2. n.items[i] = m.items[j]
      BY <1>1, <2>1
  <2>3. Weight(n.items[i]) \in Nat
      BY <2>1, RangeIs, WeightIs
  <2>4. F[a + l] - F[a] = H[b + l] - H[b]
      BY <1>6, <1>1
  <2> HIDE DEF i, j
  <2>5. F[i] = F[a + l] + Weight(n.items[i]) /\ H[j] = H[b + l] + Weight(n.items[i])
      BY <1>2, <1>3, <2>1, <2>2
  <2>6. F[a + l] \in Nat /\ F[a] \in Nat /\ H[b + l] \in Nat /\ H[b] \in Nat
      BY <1>1, <1>2, <1>3, <2>1
  <2>7. F[i] - F[a] = H[j] - H[b]
      BY <2>3, <2>4, <2>5, <2>6
  <2> QED BY <2>7 DEF i, j
<1>7. c \in T
  <2> HIDE DEF T
  <2>1. \A l \in Nat : l \in T => l + 1 \in T
      BY <1>6
  <2> QED BY <1>1, <1>5, <2>1, SetInduction
<1>8. F[p] - F[a] = H[q] - H[b]
    BY <1>1, <1>7
<1> QED BY <1>1, <1>2, <1>3, <1>4, <1>8

\* A new item adds its weight.
LEMMA InsertSize ==
    ASSUME NEW n, IsLeaf(n), n.items \in Seq(PlainItem),
           NEW i \in 1 .. Len(n.items) + 1, NEW x \in PlainItem,
           NEW m, IsLeaf(m), m.items \in Seq(PlainItem), Len(m.items) = Len(n.items) + 1,
           \A j \in 1 .. Len(n.items) + 1 : m.items[j] =
               IF j < i THEN n.items[j] ELSE IF j = i THEN x ELSE n.items[j - 1]
    PROVE  Size(m) = Size(n) + Weight(x)
<1> DEFINE N == Len(n.items)
<1>1. N \in Nat
    BY RangeIs
<1>2. /\ m.items \in Seq(PlainItem) /\ Len(m.items) = N + 1
      /\ \A j \in 1 .. N + 1 : m.items[j] = IF j < i THEN n.items[j] ELSE IF j = i THEN x ELSE n.items[j - 1]
    OBVIOUS
<1>3. SizeUpTo(m, i - 1) = SizeUpTo(n, i - 1) /\ SizeUpTo(n, i - 1) \in Nat
  <2>1. Shared(n, 0, i - 1, m, 0, i - 1)
    <3> HIDE DEF N
    <3> QED BY <1>1, <1>2 DEF Shared, N
  <2>2. SizeUpTo(n, 0) = HeaderSize /\ SizeUpTo(m, 0) = HeaderSize
      BY <1>2, LeafSize
  <2> QED BY <1>2, <2>1, <2>2, Shift DEF HeaderSize
<1>4. SizeUpTo(m, i) = SizeUpTo(m, i - 1) + Weight(x)
  <2>1. i \in 1 .. N + 1 /\ m.items[i] = x
      BY <1>1, <1>2
  <2> QED BY <1>2, <2>1, LeafSize
<1>5. /\ SizeUpTo(n, N) - SizeUpTo(n, i - 1) = SizeUpTo(m, N + 1) - SizeUpTo(m, i)
      /\ SizeUpTo(n, N) \in Nat /\ SizeUpTo(m, N + 1) \in Nat /\ SizeUpTo(m, i) \in Nat
  <2>1. ASSUME NEW l \in 1 .. N - (i - 1) PROVE n.items[(i - 1) + l] = m.items[i + l]
    <3>1. i + l \in 1 .. N + 1 /\ ~(i + l < i) /\ i + l # i /\ (i + l) - 1 = (i - 1) + l
        BY <1>1
    <3> QED BY <1>2, <3>1
  <2>2. Shared(n, i - 1, N, m, i, N + 1)
    <3>1. {i - 1, i, N, N + 1} \subseteq Nat /\ i - 1 <= N /\ i <= N + 1 /\ N - (i - 1) = N + 1 - i
        BY <1>1
    <3> QED BY <1>1, <1>2, <2>1, <3>1 DEF Shared
  <2> HIDE DEF N
  <2> QED BY <1>2, <2>2, Shift
<1>6. Size(m) = SizeUpTo(m, N + 1) /\ Size(n) = SizeUpTo(n, N)
    BY <1>2, LeafSize
<1>8. Weight(x) \in Nat
    BY WeightIs
<1> DEFINE s == SizeUpTo(n, i - 1)
           t == SizeUpTo(m, i)
           u == SizeUpTo(n, N)
           v == SizeUpTo(m, N + 1)
           w == Weight(x)
<1>9. {s, t, u, v, w} \subseteq Nat /\ t = s + w /\ u - s = v - t
    BY <1>3, <1>4, <1>5, <1>8
<1> HIDE DEF s, t, u, v, w
<1>10. v = u + w
    BY <1>9
<1> QED BY <1>6, <1>10 DEF u, v, w

\* Without an item a leaf is not bigger.
LEMMA RemoveSize ==
    ASSUME NEW n, IsLeaf(n), n.items \in Seq(PlainItem), NEW i \in 1 .. Len(n.items),
           NEW m, IsLeaf(m), m.items \in Seq(PlainItem), Len(m.items) = Len(n.items) - 1,
           \A j \in 1 .. Len(n.items) - 1 : m.items[j] = IF j < i THEN n.items[j] ELSE n.items[j + 1]
    PROVE  Size(m) <= Size(n)
<1> DEFINE N == Len(n.items)
           x == n.items[i]
<1>1. N \in Nat /\ x \in PlainItem
    BY RangeIs
<1>2. i \in 1 .. Len(m.items) + 1 /\ N = Len(m.items) + 1
    BY <1>1
<1>3. ASSUME NEW j \in 1 .. N
      PROVE  n.items[j] = IF j < i THEN m.items[j] ELSE IF j = i THEN x ELSE m.items[j - 1]
  <2>1. CASE j < i
    <3>1. j \in 1 .. N - 1
        BY <1>1, <2>1
    <3> QED BY <2>1, <3>1
  <2>2. CASE j = i
      BY <1>1, <2>2
  <2>3. CASE j > i
    <3>1. j - 1 \in 1 .. N - 1 /\ ~(j - 1 < i) /\ (j - 1) + 1 = j /\ ~(j < i) /\ j # i
        BY <1>1, <2>3
    <3>2. m.items[j - 1] = n.items[(j - 1) + 1]
        BY <3>1
    <3> QED BY <3>1, <3>2
  <2> QED BY <1>1, <2>1, <2>2, <2>3
<1>4. Size(n) = Size(m) + Weight(x)
  <2> HIDE DEF x
  <2> QED BY <1>1, <1>2, <1>3, InsertSize
<1>5. Size(m) \in Nat /\ Weight(x) \in Nat
    BY <1>1, LeafSize, WeightIs
<1> QED BY <1>4, <1>5

\* A part of a leaf.
LEMMA PartSize ==
    ASSUME NEW n, IsLeaf(n), n.items \in Seq(PlainItem),
           NEW a \in 1 .. Len(n.items) + 1, NEW b \in 0 .. Len(n.items), a <= b + 1,
           NEW m, IsLeaf(m), m.items \in Seq(PlainItem), Len(m.items) = b - a + 1,
           \A i \in 1 .. b - a + 1 : m.items[i] = n.items[a + i - 1]
    PROVE  Size(m) = HeaderSize + SizeUpTo(n, b) - SizeUpTo(n, a - 1)
<1> DEFINE N == Len(n.items)
           c == b - a + 1
<1>1. N \in Nat
    BY RangeIs
<1>2. m.items \in Seq(PlainItem) /\ Len(m.items) = c /\ \A i \in 1 .. c : m.items[i] = n.items[a + i - 1]
    OBVIOUS
<1>3. /\ SizeUpTo(n, b) - SizeUpTo(n, a - 1) = SizeUpTo(m, c) - SizeUpTo(m, 0)
      /\ SizeUpTo(n, b) \in Nat /\ SizeUpTo(n, a - 1) \in Nat /\ SizeUpTo(m, c) \in Nat
  <2>1. ASSUME NEW l \in 1 .. c PROVE n.items[(a - 1) + l] = m.items[0 + l]
    <3>1. (a - 1) + l = a + l - 1 /\ 0 + l = l
        BY <1>1
    <3> QED BY <1>2, <3>1
  <2>2. c \in Nat /\ b - (a - 1) = c /\ c - 0 = c /\ a - 1 <= b /\ {a - 1, b} \subseteq Nat /\ b <= N
      BY <1>1
  <2> HIDE DEF c, N
  <2>3. Shared(n, a - 1, b, m, 0, c)
      BY <1>1, <1>2, <2>1, <2>2 DEF Shared, N
  <2> QED BY <1>2, <2>3, Shift
<1>4. Size(m) = SizeUpTo(m, c) /\ SizeUpTo(m, 0) = HeaderSize
    BY <1>2, LeafSize
<1> HIDE DEF c, N
<1> QED BY <1>3, <1>4 DEF HeaderSize

-----------------------------------------------------------------------------
(***************************************************************************)
(* The split of a leaf.                                                    *)
(***************************************************************************)
\* What Node::split leaves of a leaf, what it moves to the new leaf, and the
\* item it gives to the parent.
LEMMA Halves ==
    ASSUME NEW n, IsLeaf(n), n.items \in Seq(PlainItem), SplitIndex(n) \in 1 .. Len(n.items)
    PROVE  /\ LeftHalf(n).items \in Seq(PlainItem) /\ LeftHalf(n).kids = <<>>
           /\ LeftHalf(n) = [items |-> LeftHalf(n).items, kids |-> <<>>]
           /\ Len(LeftHalf(n).items) = SplitIndex(n) - 1
           /\ \A i \in 1 .. SplitIndex(n) - 1 : LeftHalf(n).items[i] = n.items[i]
           /\ RightHalf(n).items \in Seq(PlainItem) /\ RightHalf(n).kids = <<>>
           /\ RightHalf(n) = [items |-> RightHalf(n).items, kids |-> <<>>]
           /\ Len(RightHalf(n).items) = Len(n.items) - SplitIndex(n)
           /\ \A i \in 1 .. Len(n.items) - SplitIndex(n) :
                  RightHalf(n).items[i] = n.items[SplitIndex(n) + i]
<1> DEFINE s == SplitIndex(n)
           L == Len(n.items)
<1>1. L \in Nat /\ s \in 1 .. L
    BY RangeIs
<1>2. /\ LeftHalf(n) = [items |-> SubSeq(n.items, 1, s - 1), kids |-> <<>>]
      /\ RightHalf(n) = [items |-> SubSeq(n.items, s + 1, L), kids |-> <<>>]
    BY DEF LeftHalf, RightHalf
<1>3. /\ SubSeq(n.items, 1, s - 1) \in Seq(PlainItem) /\ Len(SubSeq(n.items, 1, s - 1)) = (s - 1) - 1 + 1
      /\ \A i \in 1 .. (s - 1) - 1 + 1 : SubSeq(n.items, 1, s - 1)[i] = n.items[1 + i - 1]
  <2>1. 1 \in 1 .. L + 1 /\ s - 1 \in 0 .. L /\ 1 <= (s - 1) + 1
      BY <1>1
  <2> HIDE DEF s
  <2> QED BY <2>1, PartIs
<1>4. /\ SubSeq(n.items, s + 1, L) \in Seq(PlainItem) /\ Len(SubSeq(n.items, s + 1, L)) = L - (s + 1) + 1
      /\ \A i \in 1 .. L - (s + 1) + 1 : SubSeq(n.items, s + 1, L)[i] = n.items[(s + 1) + i - 1]
  <2>1. s + 1 \in 1 .. L + 1 /\ L \in 0 .. L /\ s + 1 <= L + 1
      BY <1>1
  <2> HIDE DEF s
  <2> QED BY <2>1, PartIs
<1> DEFINE a == SubSeq(n.items, 1, s - 1)
           c == SubSeq(n.items, s + 1, L)
<1>5. a \in Seq(PlainItem) /\ Len(a) = s - 1 /\ \A i \in 1 .. s - 1 : a[i] = n.items[i]
  <2>1. (s - 1) - 1 + 1 = s - 1 /\ \A i \in 1 .. s - 1 : 1 + i - 1 = i
      BY <1>1
  <2> HIDE DEF s
  <2> QED BY <1>3, <2>1
<1>6. c \in Seq(PlainItem) /\ Len(c) = L - s /\ \A i \in 1 .. L - s : c[i] = n.items[s + i]
  <2>1. L - (s + 1) + 1 = L - s /\ \A i \in 1 .. L - s : (s + 1) + i - 1 = s + i
      BY <1>1
  <2> HIDE DEF s
  <2> QED BY <1>4, <2>1
<1>7. LeftHalf(n) = [items |-> a, kids |-> <<>>] /\ RightHalf(n) = [items |-> c, kids |-> <<>>]
    BY <1>2
<1> HIDE DEF a, c
<1> QED BY <1>5, <1>6, <1>7

\* A leaf that was not over the threshold before it got the item x splits into
\* two that are not.
LEMMA SplitFits ==
    ASSUME ItemsFit, NEW n, IsLeaf(n), n.items \in Seq(PlainItem), NEW x \in PlainItem,
           OverPopulated(n), Size(n) <= MaxThreshold + Weight(x)
    PROVE  /\ SplitIndex(n) \in 1 .. Len(n.items)
           /\ ~OverPopulated(LeftHalf(n)) /\ ~OverPopulated(RightHalf(n))
<1> DEFINE L == Len(n.items)
           U == [j \in 0 .. L |-> SizeUpTo(n, j)]
           w == [j \in 1 .. L |-> Weight(n.items[j])]
           enough == {i \in 1 .. L - 2 : U[i] >= MinThreshold}
           s == SplitIndex(n)
<1>1. /\ L \in Nat /\ \A j \in 1 .. L : n.items[j] \in PlainItem
      /\ MinThreshold \in Nat /\ MaxThreshold \in Nat
    BY RangeIs, NodeAssumption
<1>2. /\ U[0] = HeaderSize /\ \A j \in 0 .. L : U[j] \in Nat
      /\ \A j \in 1 .. L : U[j] = U[j - 1] + w[j]
      /\ Size(n) = U[L]
  <2>1. L \in 0 .. L /\ 0 \in 0 .. L /\ \A j \in 1 .. L : j \in 0 .. L /\ j - 1 \in 0 .. L
      BY <1>1
  <2> QED BY <2>1, LeafSize
<1>3. \A j \in 1 .. L : w[j] \in Nat /\ w[j] > 0
    BY <1>1, WeightIs
<1>4. /\ HeaderSize <= MinThreshold /\ MinThreshold <= MaxThreshold
      /\ \A i, j \in 1 .. L :
             /\ HeaderSize + Weight(x) <= MinThreshold + w[i]
             /\ MinThreshold + w[i] <= MaxThreshold
             /\ MinThreshold + 2 * w[i] <= MaxThreshold + 3 * w[j]
  <2>1. x.val \in Value /\ \A j \in 1 .. L : n.items[j].val \in Value
      BY <1>1 DEF PlainItem
  <2> QED BY <2>1 DEF ItemsFit, Weight
<1>5. Weight(x) \in Nat
    BY WeightIs
<1>6. s = 1 + (IF enough # {} THEN Min(enough) ELSE L \div 2)
  <2>1. {i \in 1 .. L - 2 : SizeUpTo(n, i) >= MinThreshold} = enough
      BY <1>1
  <2> QED BY <2>1, Zenon DEF SplitIndex
<1>7. U[L] > MaxThreshold /\ U[L] <= MaxThreshold + Weight(x)
    BY <1>2 DEF OverPopulated
<1>8. L # 0
    BY <1>1, <1>2, <1>4, <1>7 DEF HeaderSize
<1>9. enough # {} => Min(enough) \in enough /\ \A y \in enough : Min(enough) <= y
  <2>1. enough \subseteq Nat
      OBVIOUS
  <2> HIDE DEF enough
  <2> QED BY <2>1, MinIs
<1>10. HeaderSize = 3
    BY DEF HeaderSize
<1>0. (L \div 2) \in Int /\ 2 * (L \div 2) <= L /\ L <= 2 * (L \div 2) + 1
  <2>1. \A l \in Nat : (l \div 2) \in Int /\ 2 * (l \div 2) <= l /\ l <= 2 * (l \div 2) + 1
      OBVIOUS
  <2> QED BY <1>1, <2>1
<1> DEFINE h == L \div 2
<1> HIDE DEF U, w, s, h, L
<1>11. s \in 1 .. L
  <2>1. CASE enough # {}
    <3> DEFINE i == Min(enough)
    <3>1. i \in 1 .. L - 2 /\ s = 1 + i
        BY <1>6, <1>9, <2>1
    <3> HIDE DEF i
    <3> QED BY <1>1, <3>1
  <2>2. CASE enough = {}
    <3>1. s = 1 + h
        BY <1>6, <2>2 DEF h
    <3>2. h \in 0 .. L - 1
        BY <1>0, <1>1, <1>8 DEF h
    <3> QED BY <1>1, <3>1, <3>2
  <2> QED BY <2>1, <2>2
<1>12. U[s - 1] <= MaxThreshold /\ HeaderSize + U[L] - U[s] <= MaxThreshold
  <2>1. CASE enough # {}
    <3> DEFINE i == Min(enough)
    <3>1. i \in 1 .. L - 2 /\ U[i] >= MinThreshold /\ s - 1 = i /\ s = i + 1
          /\ (i - 1 \in 1 .. L - 2 => U[i - 1] < MinThreshold)
      <4>1. i \in enough /\ s = 1 + i
          BY <1>6, <1>9, <2>1
      <4>2. i - 1 \notin enough
        <5>1. i \in Nat
            BY <4>1
        <5> HIDE DEF i, enough
        <5> QED BY <1>9, <2>1, <5>1 DEF i
      <4>3. i - 1 \in 1 .. L - 2 => U[i - 1] \in Nat
          BY <1>1, <1>2
      <4> HIDE DEF i
      <4> QED BY <1>1, <4>1, <4>2, <4>3
    <3> HIDE DEF i, enough
    <3>2. U[i] <= MaxThreshold
      <4>1. i \in 1 .. L /\ i - 1 \in 0 .. L /\ i \in 0 .. L
          BY <1>1, <3>1
      <4>2. U[i] = U[i - 1] + w[i] /\ MinThreshold + w[i] <= MaxThreshold /\ w[i] \in Nat /\ U[i - 1] \in Nat
          BY <1>2, <1>3, <1>4, <4>1
      <4>3. U[i - 1] <= MinThreshold
        <5>1. CASE i = 1
            BY <1>2, <1>4, <5>1
        <5>2. CASE i # 1
            BY <1>1, <3>1, <4>2, <5>2
        <5> QED BY <5>1, <5>2
      <4> QED BY <1>1, <4>2, <4>3
    <3>3. HeaderSize + U[L] - U[i + 1] <= MaxThreshold
      <4>1. i + 1 \in 1 .. L /\ (i + 1) - 1 = i /\ i \in 0 .. L /\ i + 1 \in 0 .. L /\ L \in 0 .. L
          BY <1>1, <3>1
      <4>2. /\ U[i + 1] = U[i] + w[i + 1] /\ HeaderSize + Weight(x) <= MinThreshold + w[i + 1]
            /\ U[i] \in Nat /\ U[i + 1] \in Nat /\ U[L] \in Nat /\ w[i + 1] \in Nat
          BY <1>2, <1>3, <1>4, <4>1
      <4> DEFINE ul == U[L]
                 ui == U[i]
                 uj == U[i + 1]
                 wj == w[i + 1]
                 wx == Weight(x)
      <4>3. /\ ul \in Nat /\ ui \in Nat /\ uj \in Nat /\ wj \in Nat /\ wx \in Nat
            /\ uj = ui + wj /\ 3 + wx <= MinThreshold + wj /\ ui >= MinThreshold
            /\ ul <= MaxThreshold + wx
          BY <1>5, <1>7, <1>10, <3>1, <4>2
      <4> HIDE DEF ul, ui, uj, wj, wx
      <4>4. 3 + ul - uj <= MaxThreshold
          BY <1>1, <4>3
      <4> QED BY <1>10, <4>4 DEF ul, uj
    <3> QED BY <3>1, <3>2, <3>3
  <2>2. CASE enough = {}
    <3>1. s = 1 + h /\ h \in Int /\ 2 * h <= L /\ L <= 2 * h + 1
        BY <1>0, <1>6, <2>2 DEF h
    <3>2. \A i \in 1 .. L - 2 : U[i] < MinThreshold
      <4>1. \A i \in 1 .. L - 2 : U[i] \in Nat
          BY <1>1, <1>2
      <4> QED BY <1>1, <2>2, <4>1
    <3> HIDE DEF enough
    <3>3. CASE L = 1
      <4>1. s = 1 /\ U[0] = HeaderSize /\ U[1] \in Nat
          BY <1>2, <3>1, <3>3
      <4> QED BY <1>1, <1>4, <1>10, <3>3, <4>1
    <3>4. CASE L \in {2, 3}
      <4>1. s = 2 /\ 1 \in 1 .. L /\ L \in 1 .. L /\ 1 - 1 = 0
        <5>1. h = 1
            BY <3>1, <3>4
        <5> QED BY <3>1, <3>4, <5>1
      <4>2. U[1] = HeaderSize + w[1] /\ MinThreshold + w[1] <= MaxThreshold /\ w[1] \in Nat
          BY <1>2, <1>3, <1>4, <4>1
      <4>3. CASE L = 2
          BY <1>1, <1>2, <1>4, <1>10, <4>1, <4>2, <4>3, SMTT(30)
      <4>4. CASE L = 3
        <5>1. 3 \in 1 .. L /\ 3 - 1 = 2 /\ 2 \in 0 .. L
            BY <4>4
        <5>2. U[3] = U[2] + w[3] /\ MinThreshold + w[3] <= MaxThreshold /\ w[3] \in Nat /\ U[2] \in Nat
            BY <1>2, <1>3, <1>4, <5>1
        <5> DEFINE u2 == U[2]
                   u3 == U[3]
                   w3 == w[3]
        <5>3. u3 = u2 + w3 /\ u2 \in Nat /\ w3 \in Nat /\ MinThreshold + w3 <= MaxThreshold
            BY <5>2
        <5> HIDE DEF u2, u3, w3
        <5>4. 3 + u3 - u2 <= MaxThreshold
            BY <1>1, <1>4, <1>10, <5>3
        <5>5. HeaderSize + U[L] - U[s] <= MaxThreshold
            BY <1>10, <4>1, <4>4, <5>4 DEF u3, u2
        <5>6. U[s - 1] <= MaxThreshold
          <6>1. s - 1 = 1
              BY <4>1
          <6> DEFINE u1 == U[1]
                     w1 == w[1]
          <6>2. u1 = 3 + w1 /\ w1 \in Nat /\ MinThreshold + w1 <= MaxThreshold
              BY <1>10, <4>2
          <6> HIDE DEF u1, w1
          <6>3. u1 <= MaxThreshold
              BY <1>1, <1>4, <1>10, <6>2
          <6> QED BY <6>1, <6>3 DEF u1
        <5> QED BY <5>5, <5>6
      <4> QED BY <3>4, <4>3, <4>4
    <3>5. CASE L >= 4
      <4>1. h \in 1 .. L - 2 /\ h >= 2
          BY <1>1, <3>1, <3>5
      <4>2. s - 1 \in 1 .. L - 2 /\ s >= 3 /\ s \in 3 .. L
          BY <1>1, <3>1, <4>1
      <4>3. U[s - 1] <= MaxThreshold
        <5>1. U[s - 1] < MinThreshold /\ U[s - 1] \in Nat
          <6>1. s - 1 \in 0 .. L
              BY <1>1, <4>2
          <6> QED BY <1>2, <3>2, <4>2, <6>1
        <5> QED BY <1>1, <1>4, <5>1
      <4>4. /\ U[1] = U[0] + w[1] /\ U[2] = U[1] + w[2] /\ U[3] = U[2] + w[3]
            /\ U[L - 1] = U[L - 2] + w[L - 1] /\ U[L] = U[L - 1] + w[L]
        <5>1. {1, 2, 3, L - 1, L} \subseteq 1 .. L /\ 1 - 1 = 0 /\ 2 - 1 = 1 /\ 3 - 1 = 2 /\ (L - 1) - 1 = L - 2
            BY <1>1, <3>5
        <5> QED BY <1>2, <5>1
      <4>5. {w[1], w[2], w[3], w[L - 1], w[L], U[L - 2]} \subseteq Nat /\ U[L - 2] < MinThreshold
        <5>1. {1, 2, 3, L - 1, L} \subseteq 1 .. L /\ L - 2 \in 1 .. L - 2 /\ L - 2 \in 0 .. L
            BY <1>1, <3>5
        <5> QED BY <1>2, <1>3, <3>2, <5>1
      <4>6. U[s] >= U[3]
        <5> DEFINE T == {j \in Nat : 3 + j <= L => U[3 + j] >= U[3]}
        <5>1. 0 \in T
            BY <1>1, <1>2
        <5>2. ASSUME NEW j \in Nat, j \in T PROVE j + 1 \in T
          <6> SUFFICES ASSUME 3 + (j + 1) <= L PROVE U[3 + (j + 1)] >= U[3]
              OBVIOUS
          <6>1. 3 + (j + 1) \in 1 .. L /\ (3 + (j + 1)) - 1 = 3 + j /\ 3 + j \in 0 .. L /\ 3 \in 0 .. L
              BY <1>1
          <6>2. U[3 + (j + 1)] = U[3 + j] + w[3 + (j + 1)] /\ w[3 + (j + 1)] \in Nat
              BY <1>2, <1>3, <6>1
          <6>3. U[3 + j] \in Nat /\ U[3] \in Nat
              BY <1>2, <6>1
          <6>4. U[3 + j] >= U[3]
              BY <5>2, <1>1
          <6> QED BY <6>2, <6>3, <6>4
        <5>3. s - 3 \in T
          <6> HIDE DEF T
          <6>1. \A j \in Nat : j \in T => j + 1 \in T
              BY <5>2
          <6>2. s - 3 \in Nat
              BY <4>2
          <6> QED BY <5>1, <6>1, <6>2, SetInduction
        <5> QED BY <1>1, <4>2, <5>3
      <4>7. \A i, j \in {1, 2, 3, L - 1, L} : MinThreshold + 2 * w[i] <= MaxThreshold + 3 * w[j]
        <5>1. {1, 2, 3, L - 1, L} \subseteq 1 .. L
            BY <1>1, <3>5
        <5> QED BY <1>4, <5>1
      <4> DEFINE w1 == w[1]
                 w2 == w[2]
                 w3 == w[3]
                 wa == w[L - 1]
                 wb == w[L]
                 ul == U[L - 2]
                 us == U[s]
      <4>8. /\ U[3] = 3 + w1 + w2 + w3 /\ U[L] = ul + wa + wb
            /\ w1 \in Nat /\ w2 \in Nat /\ w3 \in Nat /\ wa \in Nat /\ wb \in Nat
            /\ ul \in Nat /\ us \in Nat /\ ul < MinThreshold
            /\ us >= 3 + w1 + w2 + w3
        <5>1. U[s] \in Nat
            BY <1>1, <1>2, <1>11
        <5> QED BY <1>2, <1>10, <4>4, <4>5, <4>6, <5>1
      <4>9. /\ MinThreshold + 2 * wa <= MaxThreshold + 3 * w1
            /\ MinThreshold + 2 * wa <= MaxThreshold + 3 * w2
            /\ MinThreshold + 2 * wa <= MaxThreshold + 3 * w3
            /\ MinThreshold + 2 * wb <= MaxThreshold + 3 * w1
            /\ MinThreshold + 2 * wb <= MaxThreshold + 3 * w2
            /\ MinThreshold + 2 * wb <= MaxThreshold + 3 * w3
          BY <4>7
      <4> HIDE DEF w1, w2, w3, wa, wb, ul, us
      <4>10. MinThreshold + wa + wb <= MaxThreshold + w1 + w2 + w3
        <5>1. \A lo, hi, a, b, c, d, e \in Nat :
                  /\ lo + 2 * a <= hi + 3 * c /\ lo + 2 * a <= hi + 3 * d /\ lo + 2 * a <= hi + 3 * e
                  /\ lo + 2 * b <= hi + 3 * c /\ lo + 2 * b <= hi + 3 * d /\ lo + 2 * b <= hi + 3 * e
                  => lo + a + b <= hi + c + d + e
            OBVIOUS
        <5> QED BY <1>1, <4>8, <4>9, <5>1
      <4>11. 3 + (ul + wa + wb) - us <= MaxThreshold
          BY <1>1, <4>8, <4>10
      <4> QED BY <1>10, <4>3, <4>8, <4>11 DEF us
    <3> QED BY <1>1, <1>8, <3>3, <3>4, <3>5
  <2> QED BY <2>1, <2>2
<1>13. ~OverPopulated(LeftHalf(n))
  <2> DEFINE m == LeftHalf(n)
  <2>1. /\ IsLeaf(m) /\ m.items \in Seq(PlainItem) /\ Len(m.items) = (s - 1) - 1 + 1
        /\ \A i \in 1 .. (s - 1) - 1 + 1 : m.items[i] = n.items[1 + i - 1]
    <3>1. (s - 1) - 1 + 1 = s - 1 /\ \A i \in 1 .. s - 1 : 1 + i - 1 = i
        BY <1>1, <1>11
    <3> QED BY <1>11, <3>1, Halves DEF IsLeaf, s, L
  <2>2. 1 \in 1 .. L + 1 /\ s - 1 \in 0 .. L /\ 1 <= (s - 1) + 1 /\ 1 - 1 = 0
      BY <1>1, <1>11
  <2> HIDE DEF m
  <2>3. Size(m) = HeaderSize + SizeUpTo(n, s - 1) - SizeUpTo(n, 1 - 1)
      BY <2>1, <2>2, PartSize DEF L
  <2>4. SizeUpTo(n, s - 1) = U[s - 1] /\ SizeUpTo(n, 0) = HeaderSize /\ U[s - 1] \in Nat
      BY <1>2, <2>2, LeafSize DEF U, L
  <2>5. Size(m) = U[s - 1]
      BY <1>10, <2>2, <2>3, <2>4
  <2> QED BY <1>1, <1>12, <2>4, <2>5 DEF OverPopulated, m
<1>14. ~OverPopulated(RightHalf(n))
  <2> DEFINE m == RightHalf(n)
  <2>1. /\ IsLeaf(m) /\ m.items \in Seq(PlainItem) /\ Len(m.items) = L - (s + 1) + 1
        /\ \A i \in 1 .. L - (s + 1) + 1 : m.items[i] = n.items[(s + 1) + i - 1]
    <3>1. L - (s + 1) + 1 = L - s /\ \A i \in 1 .. L - s : (s + 1) + i - 1 = s + i
        BY <1>1, <1>11
    <3> QED BY <1>11, <3>1, Halves DEF IsLeaf, s, L
  <2>2. s + 1 \in 1 .. L + 1 /\ L \in 0 .. L /\ s + 1 <= L + 1 /\ (s + 1) - 1 = s /\ s \in 0 .. L
      BY <1>1, <1>11
  <2> HIDE DEF m
  <2>3. Size(m) = HeaderSize + SizeUpTo(n, L) - SizeUpTo(n, (s + 1) - 1)
      BY <2>1, <2>2, PartSize DEF L
  <2>4. SizeUpTo(n, L) = U[L] /\ SizeUpTo(n, s) = U[s] /\ U[L] \in Nat /\ U[s] \in Nat
      BY <1>2, <2>2 DEF U
  <2>5. Size(m) = HeaderSize + U[L] - U[s]
      BY <2>2, <2>3, <2>4
  <2> QED BY <1>1, <1>10, <1>12, <2>4, <2>5 DEF OverPopulated, m
<1> QED BY <1>11, <1>13, <1>14 DEF s, L

-----------------------------------------------------------------------------
(***************************************************************************)
(* An item put into a node and taken out of it.                            *)
(***************************************************************************)
\* An item takes the place of another.
LEMMA ReplaceIs ==
    ASSUME NEW S, NEW s \in Seq(S), NEW i \in 1 .. Len(s), NEW e \in S
    PROVE  /\ [s EXCEPT ![i] = e] \in Seq(S) /\ Len([s EXCEPT ![i] = e]) = Len(s)
           /\ \A j \in 1 .. Len(s) : [s EXCEPT ![i] = e][j] = IF j = i THEN e ELSE s[j]
<1>1. DOMAIN s = 1 .. Len(s) /\ Len(s) \in Nat /\ s \in [1 .. Len(s) -> S]
    BY RangeIs, LenProperties
<1> DEFINE t == [s EXCEPT ![i] = e]
<1>2. t \in [1 .. Len(s) -> S] /\ \A j \in 1 .. Len(s) : t[j] = IF j = i THEN e ELSE s[j]
    BY <1>1
<1> HIDE DEF t
<1>3. t \in Seq(S) /\ Len(t) = Len(s)
    BY <1>1, <1>2
<1> QED BY <1>2, <1>3 DEF t

\* Container::_put in a node: ...
WithItem(n, x) ==
    IF Holds(n, x.key) THEN [n EXCEPT !.items[Slot(n, x.key)] = x]
    ELSE AddItem(n, Slot(n, x.key), x)

\* The items S with x for the one with its key.
Updated(S, x) == {y \in S : y.key # x.key} \cup {x}

\* Nodes with children among the pages P.
Node(P) == [items : Seq(PlainItem), kids : Seq(P)]

\* ... the item is there, in its place, and no other with its key.
LEMMA StoredIs ==
    ASSUME NEW P, NEW n \in Node(P), Sorted(n.items),
           NEW x \in PlainItem, NEW new, new = WithItem(n, x)
    PROVE  /\ new \in Node(P) /\ new.kids = n.kids
           /\ Sorted(new.items) /\ new.items # <<>>
           /\ Range(new.items) = Updated(Range(n.items), x)
           /\ Holds(n, x.key) => /\ Len(new.items) = Len(n.items)
                                 /\ \A i \in 1 .. Len(n.items) : new.items[i].key = n.items[i].key
           /\ IsLeaf(n) => Size(new) <= Size(n) + Weight(x)
<1> DEFINE k == x.key
           s == n.items
           t == new.items
           L == Len(s)
           j == Slot(n, k)
<1>1. /\ L \in Nat /\ DOMAIN s = 1 .. L /\ s \in Seq(PlainItem) /\ k \in Key /\ k \in Int
      /\ n = [items |-> s, kids |-> n.kids] /\ n.kids \in Seq(P)
      /\ Range(s) = {s[i] : i \in 1 .. L}
      /\ \A i \in 1 .. L : s[i] \in PlainItem /\ s[i].key \in Int
  <2>1. s \in Seq(PlainItem) /\ k \in Key
      BY DEF PlainItem, Node
  <2>2. \A i \in 1 .. L : s[i] \in PlainItem
      BY <2>1, RangeIs
  <2>3. n = [items |-> s, kids |-> n.kids] /\ n.kids \in Seq(P)
      BY DEF Node
  <2>4. \A y \in PlainItem : y.key \in Int
      BY NodeAssumption DEF PlainItem
  <2>5. L \in Nat /\ DOMAIN s = 1 .. L /\ Range(s) = {s[i] : i \in 1 .. L}
      BY <2>1, RangeIs
  <2> HIDE DEF s
  <2> QED BY <2>1, <2>2, <2>3, <2>4, <2>5
<1>2. /\ j \in 1 .. L + 1 /\ \A i \in 1 .. L : s[i].key < k <=> i < j
      /\ Holds(n, k) => j \in 1 .. L /\ s[j].key = k
      /\ \A i \in 1 .. L : i > j \/ (i = j /\ ~Holds(n, k)) => k < s[i].key
    BY <1>1, SlotIs, SlotOfHeld
<1>3. \A a, b \in 1 .. L : a < b => s[a].key < s[b].key
    BY <1>1 DEF Sorted
<1>4. CASE Holds(n, k)
  <2>1. new = [items |-> [s EXCEPT ![j] = x], kids |-> n.kids]
      BY <1>1, <1>4 DEF WithItem
  <2> DEFINE u == [s EXCEPT ![j] = x]
  <2>2. /\ u \in Seq(PlainItem) /\ Len(u) = L
        /\ \A i \in 1 .. L : u[i] = IF i = j THEN x ELSE s[i]
      BY <1>1, <1>2, <1>4, ReplaceIs
  <2>3. t = u /\ new.kids = n.kids /\ new = [items |-> t, kids |-> n.kids]
    <3>1. new = [items |-> u, kids |-> n.kids]
        BY <2>1
    <3> HIDE DEF u
    <3> QED BY <3>1
  <2> HIDE DEF u, t, j, s
  <2>4. t \in Seq(PlainItem) /\ Len(t) = L /\ DOMAIN t = 1 .. L /\ Range(t) = {t[i] : i \in 1 .. L}
      BY <2>2, <2>3, RangeIs
  <2>5. \A i \in 1 .. L : t[i] = IF i = j THEN x ELSE s[i]
      BY <2>2, <2>3
  <2>6. \A i \in 1 .. L : t[i].key = s[i].key
      BY <1>2, <1>4, <2>5
  <2>7. Sorted(t)
      BY <1>3, <2>4, <2>6 DEF Sorted
  <2>8. Range(t) = {y \in Range(s) : y.key # k} \cup {x}
    <3>1. \A i \in 1 .. L : i # j => s[i].key # k
      <4> SUFFICES ASSUME NEW i \in 1 .. L, i # j PROVE s[i].key # k
          OBVIOUS
      <4>1. s[i].key < s[j].key \/ s[j].key < s[i].key
          BY <1>1, <1>2, <1>3, <1>4
      <4> QED BY <1>1, <1>2, <1>4, <4>1
    <3>2. Range(t) \subseteq {y \in Range(s) : y.key # k} \cup {x}
        BY <1>1, <2>4, <2>5, <3>1
    <3>3. x \in Range(t)
        BY <1>2, <1>4, <2>4, <2>5
    <3>4. ASSUME NEW y \in Range(s), y.key # k PROVE y \in Range(t)
      <4>1. PICK i \in 1 .. L : y = s[i]
          BY <1>1
      <4>2. i # j
          BY <1>2, <1>4, <3>4, <4>1
      <4> QED BY <2>4, <2>5, <4>1, <4>2
    <3> QED BY <3>2, <3>3, <3>4
  <2>9. t # <<>>
      BY <1>2, <1>4, <2>4
  <2>10. ASSUME IsLeaf(n) PROVE Size(new) <= Size(n) + Weight(x)
    <3> DEFINE r == [items |-> RemoveAt(s, j), kids |-> <<>>]
    <3>1. /\ RemoveAt(s, j) \in Seq(PlainItem) /\ Len(RemoveAt(s, j)) = L - 1
          /\ \A i \in 1 .. L - 1 : RemoveAt(s, j)[i] = IF i < j THEN s[i] ELSE s[i + 1]
        BY <1>1, <1>2, <1>4, RemoveIs, ZenonT(60)
    <3>2. r.items = RemoveAt(s, j) /\ IsLeaf(r)
        BY DEF IsLeaf
    <3> HIDE DEF r
    <3>3. /\ r.items \in Seq(PlainItem) /\ Len(r.items) = L - 1
          /\ \A i \in 1 .. L - 1 : r.items[i] = IF i < j THEN s[i] ELSE s[i + 1]
        BY <3>1, <3>2
    <3>4. Size(r) <= Size(n)
        BY <1>1, <1>2, <1>4, <2>10, <3>2, <3>3, RemoveSize DEF s
    <3>5. ASSUME NEW i \in 1 .. L
          PROVE  t[i] = IF i < j THEN r.items[i] ELSE IF i = j THEN x ELSE r.items[i - 1]
      <4>1. CASE i < j
        <5>1. i \in 1 .. L - 1
            BY <1>1, <1>2, <1>4, <4>1
        <5> QED BY <2>5, <3>3, <4>1, <5>1
      <4>2. CASE i = j
          BY <1>1, <2>5, <4>2
      <4>3. CASE i > j
        <5>1. i - 1 \in 1 .. L - 1 /\ ~(i - 1 < j) /\ (i - 1) + 1 = i /\ ~(i < j) /\ i # j
            BY <1>1, <1>2, <4>3
        <5>2. r.items[i - 1] = s[(i - 1) + 1]
            BY <3>3, <5>1
        <5> QED BY <2>5, <5>1, <5>2
      <4> QED BY <1>1, <1>2, <4>1, <4>2, <4>3
    <3>6. IsLeaf(new) /\ j \in 1 .. Len(r.items) + 1 /\ Len(t) = Len(r.items) + 1 /\ Len(r.items) + 1 = L
      <4>1. IsLeaf(new)
          BY <2>3, <2>10 DEF IsLeaf
      <4>2. Len(r.items) + 1 = L
        <5>1. L \in Nat /\ Len(r.items) = L - 1
            BY <1>1, <3>3, Zenon
        <5> HIDE DEF L
        <5> QED BY <5>1
      <4> QED BY <1>2, <1>4, <2>4, <4>1, <4>2, Zenon
    <3>7. Size(new) = Size(r) + Weight(x)
      <4>1. \A i \in 1 .. Len(r.items) + 1 :
                new.items[i] = IF i < j THEN r.items[i] ELSE IF i = j THEN x ELSE r.items[i - 1]
          BY <3>5, <3>6 DEF t
      <4> QED BY <2>4, <3>2, <3>3, <3>6, <4>1, InsertSize DEF t
    <3>8. Size(r) \in Nat /\ Size(n) \in Nat /\ Weight(x) \in Nat
        BY <1>1, <2>10, <3>2, <3>3, LeafSize, WeightIs DEF s
    <3> QED BY <3>4, <3>7, <3>8
  <2> QED BY <1>1, <2>3, <2>4, <2>6, <2>7, <2>8, <2>9, <2>10 DEF t, s, Node, Updated
<1>5. CASE ~Holds(n, k)
  <2>1. new = [items |-> InsertAt(s, j, x), kids |-> n.kids]
      BY <1>1, <1>5 DEF AddItem, WithItem
  <2> DEFINE u == InsertAt(s, j, x)
  <2>2. /\ u \in Seq(PlainItem) /\ Len(u) = L + 1
        /\ \A i \in 1 .. L + 1 : u[i] = IF i < j THEN s[i] ELSE IF i = j THEN x ELSE s[i - 1]
    <3> DEFINE l == j
    <3>1. s \in Seq(PlainItem) /\ l \in 1 .. Len(s) + 1 /\ x \in PlainItem
        BY <1>1, <1>2
    <3>2. u = InsertAt(s, l, x)
        OBVIOUS
    <3> HIDE DEF s, u, l, L
    <3>3. /\ u \in Seq(PlainItem) /\ Len(u) = Len(s) + 1
          /\ \A i \in 1 .. Len(s) + 1 : u[i] = IF i < l THEN s[i] ELSE IF i = l THEN x ELSE s[i - 1]
        BY ONLY <3>1, <3>2, InsertIs, SMTT(30)
    <3> QED BY <3>3 DEF l, L
  <2>3. t = u /\ new.kids = n.kids /\ new = [items |-> t, kids |-> n.kids]
      BY <2>1
  <2> HIDE DEF u, t, j, s
  <2>4. t \in Seq(PlainItem) /\ Len(t) = L + 1 /\ DOMAIN t = 1 .. L + 1 /\ Range(t) = {t[i] : i \in 1 .. L + 1}
      BY <2>2, <2>3, RangeIs
  <2>5. \A i \in 1 .. L + 1 : t[i] = IF i < j THEN s[i] ELSE IF i = j THEN x ELSE s[i - 1]
      BY <2>2, <2>3
  <2>6. t[j] = x /\ (\A i \in 1 .. L : i < j => t[i] = s[i]) /\ (\A i \in 1 .. L : i >= j => t[i + 1] = s[i])
    <3>1. ASSUME NEW i \in 1 .. L, i >= j PROVE t[i + 1] = s[i]
      <4>1. i + 1 \in 1 .. L + 1 /\ ~(i + 1 < j) /\ i + 1 # j /\ (i + 1) - 1 = i
          BY <1>1, <1>2, <3>1
      <4> QED BY <2>5, <4>1
    <3>2. \A i \in 1 .. L : i \in 1 .. L + 1
        BY <1>1
    <3>3. t[j] = x
        BY <1>1, <1>2, <2>5
    <3> QED BY <2>5, <3>1, <3>2, <3>3
  <2>7. Sorted(t)
    <3> SUFFICES ASSUME NEW a \in 1 .. L + 1, NEW b \in 1 .. L + 1, a < b PROVE t[a].key < t[b].key
        BY <2>4 DEF Sorted
    <3>1. CASE b < j
      <4>1. a \in 1 .. L /\ b \in 1 .. L /\ a < j
          BY <1>1, <1>2, <3>1
      <4> QED BY <1>3, <2>6, <3>1, <4>1
    <3>2. CASE b = j
      <4>1. a \in 1 .. L /\ a < j
          BY <1>1, <1>2, <3>2
      <4> QED BY <1>2, <2>6, <3>2, <4>1
    <3>3. CASE b > j
      <4>1. b - 1 \in 1 .. L /\ b - 1 >= j /\ (b - 1) + 1 = b
          BY <1>1, <1>2, <3>3
      <4>2. t[b] = s[b - 1]
          BY <2>6, <4>1
      <4>3. k < s[b - 1].key
        <5>1. b - 1 > j \/ (b - 1 = j /\ ~Holds(n, k))
            BY <1>1, <1>2, <1>5, <4>1
        <5> QED BY <1>2, <4>1, <5>1
      <4>4. CASE a < j
        <5>1. a \in 1 .. L /\ a < b - 1
            BY <1>1, <1>2, <4>1, <4>4
        <5> QED BY <1>3, <2>6, <4>1, <4>2, <4>4, <5>1
      <4>5. CASE a = j
          BY <2>6, <4>2, <4>3, <4>5
      <4>6. CASE a > j
        <5>1. a - 1 \in 1 .. L /\ a - 1 >= j /\ (a - 1) + 1 = a /\ a - 1 < b - 1
            BY <1>1, <1>2, <4>6
        <5>2. t[a] = s[a - 1]
            BY <2>6, <5>1
        <5> QED BY <1>3, <4>1, <4>2, <5>1, <5>2
      <4> QED BY <1>1, <1>2, <4>4, <4>5, <4>6
    <3> QED BY <1>1, <1>2, <3>1, <3>2, <3>3
  <2>8. Range(t) = {y \in Range(s) : y.key # k} \cup {x}
    <3>1. \A y \in Range(s) : y.key # k
        BY <1>1, <1>5 DEF Holds, Keys, s
    <3>2. ASSUME NEW i \in 1 .. L + 1 PROVE t[i] \in Range(s) \cup {x}
      <4>1. CASE i < j
        <5>1. i \in 1 .. L
            BY <1>1, <1>2, <4>1
        <5> QED BY <1>1, <2>6, <4>1, <5>1
      <4>2. CASE i = j
          BY <2>6, <4>2
      <4>3. CASE i > j
        <5>1. i - 1 \in 1 .. L /\ i - 1 >= j /\ (i - 1) + 1 = i
            BY <1>1, <1>2, <4>3
        <5>2. t[i] = s[i - 1]
            BY <2>6, <5>1
        <5> QED BY <1>1, <5>1, <5>2
      <4> QED BY <1>1, <1>2, <4>1, <4>2, <4>3
    <3>3. x \in Range(t)
        BY <1>2, <2>4, <2>6
    <3>4. ASSUME NEW i \in 1 .. L PROVE s[i] \in Range(t)
      <4>1. i \in 1 .. L + 1 /\ i + 1 \in 1 .. L + 1 /\ (i < j \/ i >= j)
          BY <1>1, <1>2
      <4> QED BY <2>4, <2>6, <4>1
    <3> QED BY <1>1, <2>4, <3>1, <3>2, <3>3, <3>4
  <2>9. t # <<>>
      BY <1>1, <2>4
  <2>10. ASSUME IsLeaf(n) PROVE Size(new) <= Size(n) + Weight(x)
    <3>1. IsLeaf(new)
        BY <2>3, <2>10 DEF IsLeaf
    <3>2. Size(new) = Size(n) + Weight(x)
        BY <1>1, <1>2, <2>4, <2>5, <2>10, <3>1, InsertSize, ZenonT(60) DEF t, s
    <3>3. Size(n) \in Nat /\ Weight(x) \in Nat
        BY <1>1, <2>10, LeafSize, WeightIs DEF s
    <3> QED BY <3>2, <3>3
  <2> QED BY <1>1, <1>5, <2>3, <2>4, <2>7, <2>8, <2>9, <2>10 DEF t, s, Node, Updated
<1> QED BY <1>4, <1>5

-----------------------------------------------------------------------------
(***************************************************************************)
(* Trees of two levels.                                                    *)
(***************************************************************************)
LEMMA PlacedIs ==
    ASSUME NEW m, NEW p, NEW n
    PROVE  /\ DOMAIN Placed(m, p, n) = DOMAIN m \cup {p}
           /\ Placed(m, p, n)[p] = n
           /\ \A q \in DOMAIN m : q # p => Placed(m, p, n)[q] = m[q]
BY DEF Placed

\* What the shape says of the nodes, of the root and of its children.
LEMMA ShapedIs ==
    ASSUME NEW m, NEW root, Shaped(m, root)
    PROVE  /\ root \in DOMAIN m
           /\ \A p \in DOMAIN m : /\ m[p] \in Node(DOMAIN m) /\ m[p].items \in Seq(PlainItem)
                                  /\ m[p].kids \in Seq(DOMAIN m)
                                  /\ m[p] = [items |-> m[p].items, kids |-> m[p].kids]
           /\ \A p \in DOMAIN m : p # root => IsLeaf(m[p])
           /\ IsLeaf(m[root]) => DOMAIN m = {root}
<1>1. root \in DOMAIN m /\ \A p \in DOMAIN m : m[p] \in Node(DOMAIN m)
    BY DEF Shaped, Node
<1>2. ASSUME NEW p \in DOMAIN m
      PROVE  /\ m[p].items \in Seq(PlainItem) /\ m[p].kids \in Seq(DOMAIN m)
             /\ m[p] = [items |-> m[p].items, kids |-> m[p].kids]
    BY <1>1 DEF Node
<1>3. (\A p \in DOMAIN m : p # root => IsLeaf(m[p])) /\ (IsLeaf(m[root]) => DOMAIN m = {root})
    BY DEF Shaped
<1> QED BY <1>1, <1>2, <1>3

\* A root with children has one more of them than items, each a leaf of its own.
LEMMA KidsIs ==
    ASSUME NEW m, NEW root, Shaped(m, root), ~IsLeaf(m[root])
    PROVE  /\ m[root].items \in Seq(PlainItem) /\ m[root].kids \in Seq(DOMAIN m)
           /\ Len(m[root].kids) = Len(m[root].items) + 1
           /\ \A i \in 1 .. Len(m[root].kids) :
                  m[root].kids[i] \in DOMAIN m /\ m[root].kids[i] # root /\ IsLeaf(m[m[root].kids[i]])
           /\ \A i, j \in 1 .. Len(m[root].kids) : m[root].kids[i] = m[root].kids[j] => i = j
           /\ \A p \in DOMAIN m : p # root => \E i \in 1 .. Len(m[root].kids) : p = m[root].kids[i]
<1> DEFINE n == m[root]
           k == n.kids
<1>1. n.items \in Seq(PlainItem) /\ k \in Seq(DOMAIN m) /\ \A p \in DOMAIN m : p # root => IsLeaf(m[p])
    BY ShapedIs
<1>2. ChildPerGap(n) /\ IsInjective(k) /\ Range(k) = DOMAIN m \ {root}
    BY DEF Shaped
<1>3. Len(k) = Len(n.items) + 1
    BY <1>2 DEF ChildPerGap
<1> HIDE DEF k
<1>4. DOMAIN k = 1 .. Len(k) /\ Range(k) = {k[i] : i \in 1 .. Len(k)}
    BY <1>1, RangeIs
<1>5. \A i, j \in 1 .. Len(k) : k[i] = k[j] => i = j
    BY <1>2, <1>4 DEF IsInjective
<1>6. \A i \in 1 .. Len(k) : k[i] \in DOMAIN m /\ k[i] # root
    BY <1>2, <1>4
<1>7. \A p \in DOMAIN m : p # root => \E i \in 1 .. Len(k) : p = k[i]
    BY <1>2, <1>4
<1>8. \A i \in 1 .. Len(k) : IsLeaf(m[k[i]])
    BY <1>1, <1>6
<1> QED BY <1>1, <1>3, <1>5, <1>6, <1>7, <1>8 DEF k

\* The other way round.
Fanned(m, root) ==
    /\ Len(m[root].kids) = Len(m[root].items) + 1
    /\ \A i \in 1 .. Len(m[root].kids) : m[root].kids[i] \in DOMAIN m /\ m[root].kids[i] # root
    /\ \A i, j \in 1 .. Len(m[root].kids) : m[root].kids[i] = m[root].kids[j] => i = j
    /\ \A p \in DOMAIN m : p # root => \E i \in 1 .. Len(m[root].kids) : p = m[root].kids[i]

\* A root with children is fanned, ...
LEMMA FannedIs ==
    ASSUME NEW m, NEW root, Shaped(m, root), ~IsLeaf(m[root])
    PROVE  Fanned(m, root)
BY KidsIs DEF Fanned

\* ... and nodes whose root is fanned are a tree.
LEMMA ShapedIf ==
    ASSUME NEW m, m = [p \in DOMAIN m |-> m[p]], \A p \in DOMAIN m : m[p] \in Node(DOMAIN m),
           NEW root \in DOMAIN m, \A p \in DOMAIN m : p # root => IsLeaf(m[p]),
           IsLeaf(m[root]) => DOMAIN m = {root},
           ~IsLeaf(m[root]) => Fanned(m, root)
    PROVE  Shaped(m, root)
<1>1. m \in [DOMAIN m -> [items : Seq(PlainItem), kids : Seq(DOMAIN m)]]
    BY DEF Node
<1>2. ASSUME ~IsLeaf(m[root])
      PROVE  /\ ChildPerGap(m[root]) /\ IsInjective(m[root].kids)
             /\ Range(m[root].kids) = DOMAIN m \ {root}
  <2> DEFINE k == m[root].kids
  <2>1. k \in Seq(DOMAIN m)
      BY DEF Node
  <2>2. /\ Len(k) = Len(m[root].items) + 1
        /\ \A i \in 1 .. Len(k) : k[i] \in DOMAIN m /\ k[i] # root
        /\ \A i, j \in 1 .. Len(k) : k[i] = k[j] => i = j
        /\ \A p \in DOMAIN m : p # root => \E i \in 1 .. Len(k) : p = k[i]
      BY <1>2 DEF Fanned
  <2>3. ChildPerGap(m[root])
      BY <2>2 DEF ChildPerGap
  <2> HIDE DEF k
  <2>4. DOMAIN k = 1 .. Len(k) /\ Range(k) = {k[i] : i \in 1 .. Len(k)}
      BY <2>1, RangeIs
  <2>5. IsInjective(k)
      BY <2>2, <2>4 DEF IsInjective
  <2>6. Range(k) = DOMAIN m \ {root}
      BY <2>2, <2>4
  <2> QED BY <2>3, <2>5, <2>6 DEF k
<1> QED BY <1>1, <1>2 DEF Shaped

\* The item y may be in the root's i-th child.
Between(n, i, y) ==
    \A j \in 1 .. Len(n.items) : IF j < i THEN n.items[j].key < y.key ELSE y.key < n.items[j].key

\* The order of a tree, in these words.
LEMMA OrderedIs ==
    ASSUME NEW m, NEW root, root \in DOMAIN m, m[root].items \in Seq(PlainItem),
           m[root].kids \in Seq(DOMAIN m)
    PROVE  Ordered(m, root) <=>
               /\ \A p \in DOMAIN m : Sorted(m[p].items)
               /\ \A i \in 1 .. Len(m[root].kids) :
                      \A y \in Range(m[m[root].kids[i]].items) : Between(m[root], i, y)
<1>1. DOMAIN m[root].items = 1 .. Len(m[root].items) /\ DOMAIN m[root].kids = 1 .. Len(m[root].kids)
    BY LenProperties
<1> QED BY <1>1 DEF Ordered, Between

\* The node that holds the key k, or where it belongs.
Target(m, root, k) ==
    IF Holds(m[root], k) \/ IsLeaf(m[root]) THEN root ELSE m[root].kids[Slot(m[root], k)]

\* Where the search turns, a key belongs between the items.
LEMMA SlotBetween ==
    ASSUME NEW m, NEW root, Shaped(m, root), Ordered(m, root), NEW x \in PlainItem,
           ~Holds(m[root], x.key), ~IsLeaf(m[root])
    PROVE  /\ Slot(m[root], x.key) \in 1 .. Len(m[root].kids)
           /\ Between(m[root], Slot(m[root], x.key), x)
<1> DEFINE n == m[root]
           k == x.key
<1>1. /\ root \in DOMAIN m /\ n.items \in Seq(PlainItem) /\ n.kids \in Seq(DOMAIN m)
      /\ Len(n.kids) = Len(n.items) + 1
    BY KidsIs, ShapedIs
<1>2. Sorted(n.items)
    BY <1>1 DEF Ordered
<1>3. k \in Key
    BY DEF PlainItem
<1> HIDE DEF n, k
<1>4. /\ Slot(n, k) \in 1 .. Len(n.items) + 1
      /\ \A i \in 1 .. Len(n.items) : n.items[i].key < k <=> i < Slot(n, k)
    BY <1>1, <1>2, <1>3, SlotIs
<1>5. \A i \in 1 .. Len(n.items) : i > Slot(n, k) \/ (i = Slot(n, k) /\ ~Holds(n, k)) => k < n.items[i].key
    BY <1>1, <1>2, <1>3, SlotOfHeld
<1>6. ~Holds(n, k)
    BY DEF n, k
<1>7. ASSUME NEW i \in 1 .. Len(n.items)
      PROVE  IF i < Slot(n, k) THEN n.items[i].key < k ELSE k < n.items[i].key
    BY <1>4, <1>5, <1>6, <1>7
<1>8. Between(n, Slot(n, k), x)
    BY <1>7 DEF Between, k
<1> QED BY <1>1, <1>4, <1>8 DEF n, k

\* The target is a leaf unless the root holds the key.
LEMMA TargetIs ==
    ASSUME NEW m, NEW root, Shaped(m, root), Ordered(m, root), NEW k \in Key
    PROVE  /\ Target(m, root, k) \in DOMAIN m
           /\ Target(m, root, k) # root =>
                  /\ ~IsLeaf(m[root]) /\ ~Holds(m[root], k) /\ IsLeaf(m[Target(m, root, k)])
                  /\ Slot(m[root], k) \in 1 .. Len(m[root].kids)
                  /\ Target(m, root, k) = m[root].kids[Slot(m[root], k)]
           /\ Target(m, root, k) = root => IsLeaf(m[root]) \/ Holds(m[root], k)
<1>1. root \in DOMAIN m
    BY ShapedIs
<1>2. CASE Holds(m[root], k) \/ IsLeaf(m[root])
    BY <1>1, <1>2 DEF Target
<1>3. CASE ~(Holds(m[root], k) \/ IsLeaf(m[root]))
  <2> DEFINE n == m[root]
  <2>1. /\ n.items \in Seq(PlainItem) /\ Len(n.kids) = Len(n.items) + 1
        /\ \A i \in 1 .. Len(n.kids) : n.kids[i] \in DOMAIN m /\ n.kids[i] # root /\ IsLeaf(m[n.kids[i]])
    <3>1. n.items \in Seq(PlainItem)
        BY <1>1, ShapedIs
    <3>2. ~IsLeaf(m[root])
        BY <1>3
    <3>3. /\ Len(m[root].kids) = Len(m[root].items) + 1
          /\ \A i \in 1 .. Len(m[root].kids) : m[root].kids[i] \in DOMAIN m /\ m[root].kids[i] # root
        BY <3>2, KidsIs
    <3>4. \A p \in DOMAIN m : p # root => IsLeaf(m[p])
        BY ShapedIs
    <3> QED BY <3>1, <3>3, <3>4
  <2>2. Sorted(n.items)
      BY <1>1 DEF Ordered
  <2>3. Target(m, root, k) = n.kids[Slot(n, k)]
      BY <1>3 DEF Target
  <2>4. ~IsLeaf(n) /\ ~Holds(n, k)
      BY <1>3
  <2> HIDE DEF n
  <2>5. Slot(n, k) \in 1 .. Len(n.kids)
      BY <2>1, <2>2, SlotIs
  <2> QED BY <2>1, <2>3, <2>4, <2>5 DEF n
<1> QED BY <1>2, <1>3

\* In the other nodes there is no item with the key.
LEMMA KeyElsewhere ==
    ASSUME NEW m, NEW root, Shaped(m, root), Ordered(m, root), NEW k \in Key,
           NEW p \in DOMAIN m, p # Target(m, root, k), NEW y \in Range(m[p].items)
    PROVE  y.key # k
<1> DEFINE n == m[root]
           L == Len(n.items)
           j == Slot(n, k)
<1>1. /\ root \in DOMAIN m /\ n.items \in Seq(PlainItem) /\ n.kids \in Seq(DOMAIN m)
      /\ \A q \in DOMAIN m : m[q].items \in Seq(PlainItem)
      /\ IsLeaf(n) => DOMAIN m = {root}
    BY ShapedIs
<1>2. ~IsLeaf(n)
    BY <1>1 DEF Target
<1>3. Len(n.kids) = L + 1 /\ \A q \in DOMAIN m : q # root => \E i \in 1 .. Len(n.kids) : q = n.kids[i]
  <2>1. ~IsLeaf(m[root])
      BY <1>2
  <2>2. /\ Len(m[root].kids) = Len(m[root].items) + 1
        /\ \A q \in DOMAIN m : q # root => \E i \in 1 .. Len(m[root].kids) : q = m[root].kids[i]
      BY <2>1, KidsIs
  <2> QED BY <2>2
<1>4. /\ \A q \in DOMAIN m : Sorted(m[q].items)
      /\ \A i \in 1 .. Len(n.kids) : \A z \in Range(m[n.kids[i]].items) : Between(n, i, z)
    BY <1>1, OrderedIs
<1>5. Target(m, root, k) = IF Holds(n, k) THEN root ELSE n.kids[j]
    BY <1>2 DEF Target
<1>6. y \in PlainItem /\ y.key \in Int /\ k \in Int
  <2>1. y \in PlainItem
      BY <1>1, RangeIs
  <2> QED BY <2>1, NodeAssumption DEF PlainItem
<1>7. L \in Nat /\ \A i \in 1 .. L : n.items[i].key \in Int
  <2>1. \A z \in PlainItem : z.key \in Int
      BY NodeAssumption DEF PlainItem
  <2>2. n.items \in Seq(PlainItem)
      BY <1>1
  <2> HIDE DEF n
  <2>3. L \in Nat /\ \A i \in 1 .. L : n.items[i] \in PlainItem
      BY <2>2, LenProperties, ElementOfSeq
  <2> QED BY <2>1, <2>3
<1> HIDE DEF n
<1>8. /\ j \in 1 .. L + 1 /\ \A i \in 1 .. L : n.items[i].key < k <=> i < j
      /\ Holds(n, k) => j \in 1 .. L /\ n.items[j].key = k
      /\ \A i \in 1 .. L : i > j \/ (i = j /\ ~Holds(n, k)) => k < n.items[i].key
      /\ \A i \in 1 .. L : n.items[i].key = k => Holds(n, k)
    BY <1>1, <1>4, SlotIs, SlotOfHeld DEF n
<1> HIDE DEF j, L
<1>9. CASE p = root
  <2>1. ~Holds(n, k)
      BY <1>5, <1>9
  <2>2. PICK i \in 1 .. L : y = n.items[i]
    <3>1. Range(n.items) = {n.items[i] : i \in 1 .. L}
        BY <1>1, RangeIs DEF L
    <3> QED BY <1>9, <3>1 DEF n
  <2> QED BY <1>8, <2>1, <2>2
<1>10. CASE p # root
  <2>1. PICK i \in 1 .. Len(n.kids) : p = n.kids[i]
      BY <1>3, <1>10
  <2>2. Between(n, i, y)
      BY <1>4, <2>1
  <2>3. \A l \in 1 .. L : IF l < i THEN n.items[l].key < y.key ELSE y.key < n.items[l].key
      BY <2>2 DEF Between, L
  <2>4. i \in 1 .. L + 1
      BY <1>3, <2>1
  <2>5. CASE Holds(n, k)
      BY <1>6, <1>8, <2>3, <2>4, <2>5
  <2>6. CASE ~Holds(n, k)
    <3>1. i # j
        BY <1>5, <2>1, <2>6
    <3>2. CASE i < j
      <4>1. i \in 1 .. L /\ n.items[i].key < k /\ y.key < n.items[i].key
          BY <1>7, <1>8, <2>3, <2>4, <3>2
      <4> QED BY <1>6, <1>7, <4>1
    <3>3. CASE i > j
      <4>1. i - 1 \in 1 .. L /\ i - 1 < i /\ (i - 1 > j \/ i - 1 = j)
          BY <1>7, <1>8, <2>4, <3>3
      <4>2. n.items[i - 1].key < y.key /\ k < n.items[i - 1].key
          BY <1>8, <2>3, <2>6, <4>1
      <4> QED BY <1>6, <1>7, <4>1, <4>2
    <3> QED BY <1>8, <2>4, <3>1, <3>2, <3>3
  <2> QED BY <2>5, <2>6
<1> QED BY <1>9, <1>10

-----------------------------------------------------------------------------
\* Container::_put before it balances: the item is in the tree, in its place,
\* and every other item but the one with its key.
LEMMA StoreTree ==
    ASSUME NEW m, NEW root, Shaped(m, root), Ordered(m, root), NEW x \in PlainItem,
           NEW p, p = Target(m, root, x.key),
           NEW m1, m1 = Placed(m, p, WithItem(m[p], x))
    PROVE  /\ p \in DOMAIN m /\ DOMAIN m1 = DOMAIN m
           /\ Shaped(m1, root) /\ Ordered(m1, root)
           /\ Tree(m, root) => Tree(m1, root)
           /\ IsLeaf(m1[root]) <=> IsLeaf(m[root])
           /\ m1[p].items # <<>>
           /\ AllItems(m1) = Updated(AllItems(m), x)
<1> DEFINE n == WithItem(m[p], x)
           k == x.key
<1>1. k \in Key
    BY DEF PlainItem
<1>2. p \in DOMAIN m /\ (p # root => ~IsLeaf(m[root]) /\ ~Holds(m[root], k) /\ p = m[root].kids[Slot(m[root], k)])
      /\ (p = root => IsLeaf(m[root]) \/ Holds(m[root], k))
    BY <1>1, TargetIs
<1>3. /\ root \in DOMAIN m
      /\ \A q \in DOMAIN m : /\ m[q] \in Node(DOMAIN m) /\ m[q].items \in Seq(PlainItem)
                             /\ m[q].kids \in Seq(DOMAIN m)
      /\ \A q \in DOMAIN m : q # root => IsLeaf(m[q])
      /\ IsLeaf(m[root]) => DOMAIN m = {root}
    BY ShapedIs
<1>4. (\A q \in DOMAIN m : Sorted(m[q].items)) /\ Sorted(m[p].items)
    BY <1>2 DEF Ordered
<1>5. /\ n \in Node(DOMAIN m) /\ n.kids = m[p].kids
      /\ Sorted(n.items) /\ n.items # <<>>
      /\ Range(n.items) = Updated(Range(m[p].items), x)
      /\ Holds(m[p], k) => /\ Len(n.items) = Len(m[p].items)
                           /\ \A i \in 1 .. Len(m[p].items) : n.items[i].key = m[p].items[i].key
  <2>1. m[p] \in Node(DOMAIN m) /\ n = WithItem(m[p], x)
      BY <1>2, <1>3
  <2> HIDE DEF n
  <2> QED BY ONLY <1>4, <2>1, x \in PlainItem, StoredIs
<1> HIDE DEF n
<1>6. /\ DOMAIN m1 = DOMAIN m /\ m1[p] = n /\ \A q \in DOMAIN m : q # p => m1[q] = m[q]
      /\ m1 = [q \in DOMAIN m1 |-> m1[q]]
    BY <1>2 DEF Placed, n
<1>7. /\ \A q \in DOMAIN m : /\ m1[q] \in Node(DOMAIN m) /\ m1[q].kids = m[q].kids /\ Sorted(m1[q].items)
                             /\ IsLeaf(m1[q]) <=> IsLeaf(m[q])
      /\ \A q \in DOMAIN m : q # p => m1[q].items = m[q].items
    BY <1>2, <1>3, <1>4, <1>5, <1>6 DEF IsLeaf
<1>8. Node(DOMAIN m1) = Node(DOMAIN m)
    BY <1>6 DEF Node
<1>9. ~IsLeaf(m[root]) => /\ Len(m1[root].items) = Len(m[root].items)
                          /\ \A i \in 1 .. Len(m[root].items) : m1[root].items[i].key = m[root].items[i].key
    BY <1>2, <1>3, <1>5, <1>6
<1>10. Shaped(m1, root)
  <2>1. ASSUME ~IsLeaf(m1[root]) PROVE Fanned(m1, root)
    <3>1. ~IsLeaf(m[root]) /\ m1[root].kids = m[root].kids /\ Len(m1[root].items) = Len(m[root].items)
        BY <2>1, <1>3, <1>7, <1>9
    <3>2. Fanned(m, root)
        BY <3>1, FannedIs
    <3> QED BY <3>1, <3>2, <1>6 DEF Fanned
  <2>2. /\ \A q \in DOMAIN m1 : m1[q] \in Node(DOMAIN m1)
        /\ root \in DOMAIN m1 /\ \A q \in DOMAIN m1 : q # root => IsLeaf(m1[q])
        /\ IsLeaf(m1[root]) => DOMAIN m1 = {root}
      BY <1>3, <1>6, <1>7, <1>8
  <2>3. m1 = [q \in DOMAIN m1 |-> m1[q]]
      BY <1>6
  <2> QED BY ONLY <2>1, <2>2, <2>3, ShapedIf
<1>11. Ordered(m1, root)
  <2>1. /\ root \in DOMAIN m1 /\ m1[root].items \in Seq(PlainItem) /\ m1[root].kids \in Seq(DOMAIN m1)
        /\ m1[root].kids = m[root].kids
      BY <1>3, <1>6, <1>7, <1>8 DEF Node
  <2>2. ASSUME NEW i \in 1 .. Len(m[root].kids), NEW y \in Range(m1[m[root].kids[i]].items)
        PROVE  Between(m1[root], i, y)
    <3> DEFINE c == m[root].kids[i]
    <3>1. ~IsLeaf(m[root])
      <4>1. Len(m[root].kids) \in Nat /\ Len(m[root].kids) # 0
          BY <1>3, <2>2, LenProperties
      <4> QED BY <1>3, <4>1, EmptySeq DEF IsLeaf
    <3>2. c \in DOMAIN m /\ \A j \in 1 .. Len(m[root].kids) : m[root].kids[j] = c => j = i
        BY <2>2, <3>1, KidsIs
    <3>3. Between(m[root], i, y)
      <4>1. CASE y \in Range(m[c].items)
        <5>1. \A z \in Range(m[c].items) : Between(m[root], i, z)
            BY <1>3, <2>2, OrderedIs
        <5> QED BY <4>1, <5>1
      <4>2. CASE y \notin Range(m[c].items)
        <5>1. c = p /\ y = x
            BY <1>5, <1>6, <2>2, <3>2, <4>2 DEF Updated
        <5>2. p # root
            BY <3>1, <5>1, <2>2, KidsIs
        <5>3. Slot(m[root], k) \in 1 .. Len(m[root].kids) /\ Between(m[root], Slot(m[root], k), x)
            BY <1>2, <3>1, <5>2, SlotBetween
        <5>4. Slot(m[root], k) = i
            BY <1>2, <3>2, <5>1, <5>2, <5>3
        <5> QED BY <5>1, <5>3, <5>4
      <4> QED BY <4>1, <4>2
    <3> QED BY <1>9, <3>1, <3>3 DEF Between
  <2> QED BY <1>6, <1>7, <2>1, <2>2, OrderedIs
<1>12. AllItems(m1) = Updated(AllItems(m), x)
  <2>1. ASSUME NEW q \in DOMAIN m
        PROVE  Range(m1[q].items) = {y \in Range(m[q].items) : y.key # k}
                                        \cup (IF q = p THEN {x} ELSE {})
    <3>1. CASE q = p
        BY <1>5, <1>6, <3>1 DEF Updated
    <3>2. CASE q # p
      <4>1. \A y \in Range(m[q].items) : y.key # k
          BY <1>1, <3>2, KeyElsewhere
      <4> QED BY <1>7, <3>2, <4>1
    <3> QED BY <3>1, <3>2
  <2>2. ASSUME NEW y
        PROVE  y \in AllItems(m1) <=> (y \in AllItems(m) /\ y.key # k) \/ y = x
      BY <1>2, <1>6, <2>1 DEF AllItems
  <2> QED BY <2>2 DEF Updated
<1>13. Tree(m, root) => Tree(m1, root)
  <2>1. IsLeaf(m1[root]) <=> IsLeaf(m[root])
      BY <1>3, <1>7
  <2>2. m1[root].items = m[root].items \/ m1[root].items # <<>>
      BY <1>3, <1>5, <1>6, <1>7
  <2> QED BY <1>10, <2>1, <2>2 DEF Tree
<1> QED BY <1>2, <1>3, <1>5, <1>6, <1>7, <1>10, <1>11, <1>12, <1>13

-----------------------------------------------------------------------------
\* The leaf n in two halves and the item between them.
Halved(n, s, left, mid, right) ==
    /\ left.kids = <<>> /\ right.kids = <<>> /\ left.items \in Seq(PlainItem)
    /\ right.items \in Seq(PlainItem)
    /\ left = [items |-> left.items, kids |-> <<>>] /\ right = [items |-> right.items, kids |-> <<>>]
    /\ Len(left.items) = s - 1 /\ \A i \in 1 .. s - 1 : left.items[i] = n.items[i]
    /\ Len(right.items) = Len(n.items) - s
    /\ \A i \in 1 .. Len(n.items) - s : right.items[i] = n.items[s + i]
    /\ s \in 1 .. Len(n.items) /\ mid = n.items[s]

\* The parent p1 is p with the item mid at j and the page q after the j-th child.
Opened(P, p, j, mid, q, p1) ==
    /\ p1 \in Node(P)
    /\ Len(p1.items) = Len(p.items) + 1 /\ Len(p1.kids) = Len(p.kids) + 1
    /\ \A i \in 1 .. Len(p.items) + 1 :
           p1.items[i] = IF i < j THEN p.items[i] ELSE IF i = j THEN mid ELSE p.items[i - 1]
    /\ \A i \in 1 .. Len(p.kids) + 1 :
           p1.kids[i] = IF i < j + 1 THEN p.kids[i] ELSE IF i = j + 1 THEN q ELSE p.kids[i - 1]

\* The items of the halves of a sorted leaf.
LEMMA HalvesAre ==
    ASSUME NEW n, NEW s, NEW left, NEW mid, NEW right, n.items \in Seq(PlainItem), Sorted(n.items),
           Halved(n, s, left, mid, right)
    PROVE  /\ Sorted(left.items) /\ Sorted(right.items) /\ mid \in Range(n.items)
           /\ \A y \in Range(left.items) : y \in Range(n.items) /\ y.key < mid.key
           /\ \A y \in Range(right.items) : y \in Range(n.items) /\ mid.key < y.key
           /\ Range(n.items) = Range(left.items) \cup {mid} \cup Range(right.items)
<1> DEFINE b == n.items
           l == left.items
           r == right.items
           B == Len(b)
<1>1. /\ B \in Nat /\ DOMAIN b = 1 .. B /\ Range(b) = {b[i] : i \in 1 .. B}
      /\ \A i, j \in 1 .. B : i < j => b[i].key < b[j].key
    BY RangeIs DEF Sorted
<1>2. /\ s \in 1 .. B /\ mid = b[s] /\ l \in Seq(PlainItem) /\ r \in Seq(PlainItem)
      /\ Len(l) = s - 1 /\ \A i \in 1 .. s - 1 : l[i] = b[i]
      /\ Len(r) = B - s /\ \A i \in 1 .. B - s : r[i] = b[s + i]
    BY DEF Halved
<1> HIDE DEF l, r, b
<1>3. DOMAIN l = 1 .. s - 1 /\ Range(l) = {l[i] : i \in 1 .. s - 1}
    BY <1>2, RangeIs
<1>4. DOMAIN r = 1 .. B - s /\ Range(r) = {r[i] : i \in 1 .. B - s}
    BY <1>2, RangeIs
<1> HIDE DEF B
<1>5. /\ s \in Nat /\ \A i \in 1 .. s - 1 : i \in 1 .. B /\ i < s
      /\ \A i \in 1 .. B - s : s + i \in 1 .. B /\ s < s + i
    BY <1>1, <1>2
<1>6. Sorted(l)
    BY <1>1, <1>2, <1>3, <1>5 DEF Sorted
<1>7. Sorted(r)
  <2> SUFFICES ASSUME NEW i \in 1 .. B - s, NEW j \in 1 .. B - s, i < j PROVE r[i].key < r[j].key
      BY <1>4 DEF Sorted
  <2>1. s + i < s + j
      BY <1>5
  <2> QED BY <1>1, <1>2, <1>5, <2>1
<1>8. \A y \in Range(l) : y \in Range(b) /\ y.key < mid.key
    BY <1>1, <1>2, <1>3, <1>5
<1>9. \A y \in Range(r) : y \in Range(b) /\ mid.key < y.key
    BY <1>1, <1>2, <1>4, <1>5
<1>10. mid \in Range(b)
    BY <1>1, <1>2
<1>11. ASSUME NEW y \in Range(b) PROVE y \in Range(l) \cup {mid} \cup Range(r)
  <2>1. PICK i \in 1 .. B : y = b[i]
      BY <1>1
  <2>2. CASE i < s
    <3>1. i \in 1 .. s - 1
        BY <1>5, <2>2
    <3> QED BY <1>2, <1>3, <2>1, <3>1
  <2>3. CASE i > s
    <3>1. i - s \in 1 .. B - s /\ s + (i - s) = i
        BY <1>1, <1>5, <2>3
    <3> QED BY <1>2, <1>4, <2>1, <3>1
  <2> QED BY <1>2, <1>5, <2>1, <2>2, <2>3
<1> QED BY <1>6, <1>7, <1>8, <1>9, <1>10, <1>11 DEF l, r, b

\* Before Container::_put splits the root's j-th leaf, on the page c, and after: the
\* nodes m become m2.
LeafSplits(m, root, j, c, q, s, left, mid, right, p1, m2) ==
    /\ Shaped(m, root) /\ Ordered(m, root) /\ ~IsLeaf(m[root])
    /\ j \in 1 .. Len(m[root].kids) /\ c = m[root].kids[j] /\ q \notin DOMAIN m
    /\ Halved(m[c], s, left, mid, right)
    /\ Opened(DOMAIN m \cup {q}, m[root], j, mid, q, p1)
    /\ m2 = Placed(Placed(Placed(m, q, right), root, p1), c, left)

\* What that keeps: m2 is a tree in order, with the items of m.
LeafIsSplit(m, root, c, q, left, right, p1, m2) ==
    /\ DOMAIN m2 = DOMAIN m \cup {q} /\ c \in DOMAIN m /\ c # root /\ root \in DOMAIN m
    /\ m2[c] = left /\ m2[q] = right /\ m2[root] = p1
    /\ \A p \in DOMAIN m : p # c /\ p # root => m2[p] = m[p]
    /\ Tree(m2, root) /\ Ordered(m2, root) /\ ~IsLeaf(m2[root])
    /\ AllItems(m2) = AllItems(m)

\* Node::split of a leaf under its parent: the tree has the same items, and
\* the leaf on the page c shares them with one on the page q.
LEMMA SplitTree ==
    ASSUME NEW m, NEW root, NEW j, NEW c, NEW q, NEW s, NEW left, NEW mid, NEW right, NEW p1, NEW m2,
           LeafSplits(m, root, j, c, q, s, left, mid, right, p1, m2)
    PROVE  LeafIsSplit(m, root, c, q, left, right, p1, m2)
<1> DEFINE n == m[root]
           L == Len(n.items)
           K == Len(n.kids)
           old(i) == IF i <= j THEN i ELSE i - 1
<1>0. /\ Shaped(m, root) /\ Ordered(m, root) /\ ~IsLeaf(m[root])
      /\ j \in 1 .. Len(m[root].kids) /\ c = m[root].kids[j] /\ q \notin DOMAIN m
      /\ Halved(m[c], s, left, mid, right)
      /\ Opened(DOMAIN m \cup {q}, m[root], j, mid, q, p1)
      /\ m2 = Placed(Placed(Placed(m, q, right), root, p1), c, left)
    BY DEF LeafSplits
<1> USE <1>0
<1>1. /\ n.items \in Seq(PlainItem) /\ n.kids \in Seq(DOMAIN m) /\ K = L + 1
      /\ \A i \in 1 .. K : n.kids[i] \in DOMAIN m /\ n.kids[i] # root /\ IsLeaf(m[n.kids[i]])
      /\ \A i, l \in 1 .. K : n.kids[i] = n.kids[l] => i = l
      /\ \A p \in DOMAIN m : p # root => \E i \in 1 .. K : p = n.kids[i]
    BY KidsIs
<1>2. /\ root \in DOMAIN m
      /\ \A p \in DOMAIN m : /\ m[p] \in Node(DOMAIN m) /\ m[p].items \in Seq(PlainItem)
                             /\ p # root => IsLeaf(m[p])
    BY ShapedIs
<1>3. /\ \A p \in DOMAIN m : Sorted(m[p].items)
      /\ \A i \in 1 .. K : \A y \in Range(m[n.kids[i]].items) : Between(n, i, y)
    BY <1>1, <1>2, OrderedIs
<1>4. L \in Nat /\ j \in 1 .. L + 1 /\ \A y \in PlainItem : y.key \in Int
  <2>1. \A y \in PlainItem : y.key \in Int
      BY NodeAssumption DEF PlainItem
  <2>2. L \in Nat
      BY <1>1, LenProperties
  <2> QED BY <1>1, <2>1, <2>2
<1>5. /\ p1 \in Node(DOMAIN m \cup {q})
      /\ Len(p1.items) = L + 1 /\ Len(p1.kids) = K + 1
      /\ \A i \in 1 .. L + 1 :
             p1.items[i] = IF i < j THEN n.items[i] ELSE IF i = j THEN mid ELSE n.items[i - 1]
      /\ \A i \in 1 .. K + 1 :
             p1.kids[i] = IF i < j + 1 THEN n.kids[i] ELSE IF i = j + 1 THEN q ELSE n.kids[i - 1]
    BY DEF Opened
<1>6. c \in DOMAIN m /\ c # root /\ c = n.kids[j]
    BY <1>1
<1>7. /\ Sorted(left.items) /\ Sorted(right.items) /\ mid \in Range(m[c].items)
      /\ \A y \in Range(left.items) : y \in Range(m[c].items) /\ y.key < mid.key
      /\ \A y \in Range(right.items) : y \in Range(m[c].items) /\ mid.key < y.key
      /\ Range(m[c].items) = Range(left.items) \cup {mid} \cup Range(right.items)
  <2> PICK b : b = m[c]
      OBVIOUS
  <2>1. b.items \in Seq(PlainItem) /\ Sorted(b.items)
      BY <1>2, <1>3, <1>6
  <2>2. Halved(b, s, left, mid, right)
      OBVIOUS
  <2>3. Sorted(left.items) /\ Sorted(right.items) /\ mid \in Range(b.items)
      BY ONLY <2>1, <2>2, HalvesAre
  <2>4. \A y \in Range(left.items) : y \in Range(b.items) /\ y.key < mid.key
      BY ONLY <2>1, <2>2, HalvesAre
  <2>5. \A y \in Range(right.items) : y \in Range(b.items) /\ mid.key < y.key
      BY ONLY <2>1, <2>2, HalvesAre
  <2>6. Range(b.items) = Range(left.items) \cup {mid} \cup Range(right.items)
      BY ONLY <2>1, <2>2, HalvesAre
  <2> QED BY <2>3, <2>4, <2>5, <2>6
<1>8. /\ left \in Node(DOMAIN m \cup {q}) /\ right \in Node(DOMAIN m \cup {q})
      /\ IsLeaf(left) /\ IsLeaf(right)
    BY EmptySeq, Zenon DEF Halved, Node, IsLeaf
<1>9. /\ DOMAIN m2 = DOMAIN m \cup {q} /\ m2 = [p \in DOMAIN m2 |-> m2[p]]
      /\ m2[c] = left /\ m2[q] = right /\ m2[root] = p1
      /\ \A p \in DOMAIN m : p # c /\ p # root => m2[p] = m[p]
    BY <1>2, <1>6 DEF Placed
<1>10. \A y \in Range(n.items) \cup Range(m[c].items) : y.key \in Int
  <2>1. n.items \in Seq(PlainItem) /\ m[c].items \in Seq(PlainItem)
      BY <1>2, <1>6
  <2> QED BY <1>4, <2>1, RangeIs
<1>11. /\ \A i \in 1 .. L : n.items[i] \in PlainItem /\ n.items[i].key \in Int
       /\ Range(n.items) = {n.items[i] : i \in 1 .. L}
       /\ \A i, l \in 1 .. L : i < l => n.items[i].key < n.items[l].key
  <2>1. DOMAIN n.items = 1 .. L /\ Range(n.items) = {n.items[i] : i \in 1 .. L} /\ \A i \in 1 .. L : n.items[i] \in PlainItem
    <3>1. n.items \in Seq(PlainItem)
        BY <1>1
    <3> HIDE DEF n
    <3> QED BY <3>1, RangeIs
  <2>2. Sorted(n.items)
      BY <1>2, <1>3
  <2> QED BY <1>4, <2>1, <2>2 DEF Sorted
<1>12. /\ p1.items \in Seq(PlainItem) /\ DOMAIN p1.items = 1 .. L + 1
       /\ Range(p1.items) = {p1.items[i] : i \in 1 .. L + 1}
  <2>1. p1.items \in Seq(PlainItem)
      BY <1>5 DEF Node
  <2> QED BY <1>5, <2>1, RangeIs
<1>13. mid \in PlainItem /\ mid.key \in Int
  <2>1. m[c].items \in Seq(PlainItem)
      BY <1>2, <1>6
  <2>2. mid \in PlainItem
      BY <1>7, <2>1, RangeIs
  <2> QED BY <1>4, <2>2
<1>14. Between(n, j, mid)
    BY <1>3, <1>6, <1>7
<1> HIDE DEF n, K, L
\* The item that goes up is between its neighbours.
<1>15. \A i \in 1 .. L : IF i < j THEN n.items[i].key < mid.key ELSE mid.key < n.items[i].key
    BY <1>14 DEF Between, L
<1>16. Sorted(p1.items)
  <2> SUFFICES ASSUME NEW a \in 1 .. L + 1, NEW b \in 1 .. L + 1, a < b
               PROVE  p1.items[a].key < p1.items[b].key
      BY <1>12 DEF Sorted
  <2>1. CASE b < j
    <3>1. a \in 1 .. L /\ b \in 1 .. L /\ p1.items[a] = n.items[a] /\ p1.items[b] = n.items[b]
        BY <1>4, <1>5, <2>1
    <3> QED BY <1>11, <3>1
  <2>2. CASE b = j
    <3>1. a \in 1 .. L /\ a < j /\ p1.items[a] = n.items[a] /\ p1.items[b] = mid
        BY <1>4, <1>5, <2>2
    <3> QED BY <1>15, <3>1
  <2>3. CASE b > j
    <3>1. b - 1 \in 1 .. L /\ ~(b - 1 < j) /\ p1.items[b] = n.items[b - 1]
        BY <1>4, <1>5, <2>3
    <3>2. CASE a < j
      <4>1. a \in 1 .. L /\ a < b - 1 /\ p1.items[a] = n.items[a]
          BY <1>4, <1>5, <2>3, <3>2
      <4> QED BY <1>11, <3>1, <4>1
    <3>3. CASE a = j
        BY <1>4, <1>5, <1>15, <3>1, <3>3
    <3>4. CASE a > j
      <4>1. a - 1 \in 1 .. L /\ a - 1 < b - 1 /\ ~(a < j) /\ a # j
          BY <1>4, <3>4
      <4>2. p1.items[a] = n.items[a - 1]
          BY <1>5, <4>1
      <4> QED BY <1>11, <3>1, <4>1, <4>2
    <3> QED BY <1>4, <3>2, <3>3, <3>4
  <2> QED BY <1>4, <2>1, <2>2, <2>3
\* What is in the children.
<1>17. ASSUME NEW i \in 1 .. K + 1
       PROVE  /\ old(i) \in 1 .. K /\ p1.kids[i] \in DOMAIN m \cup {q} /\ p1.kids[i] # root
              /\ \A y \in Range(m2[p1.kids[i]].items) :
                     /\ Between(n, old(i), y) /\ y.key \in Int
                     /\ i = j => y.key < mid.key
                     /\ i = j + 1 => mid.key < y.key
  <2>1. CASE i < j
    <3>1. i \in 1 .. K /\ old(i) = i /\ p1.kids[i] = n.kids[i] /\ n.kids[i] # c
        BY <1>1, <1>4, <1>5, <1>6, <2>1
    <3>2. m2[p1.kids[i]] = m[n.kids[i]] /\ n.kids[i] \in DOMAIN m /\ n.kids[i] # root
        BY <1>1, <1>9, <3>1
    <3>3. \A y \in Range(m[n.kids[i]].items) : y.key \in Int
        BY <1>2, <1>4, <3>2, RangeIs
    <3> QED BY <1>3, <2>1, <3>1, <3>2, <3>3, <1>4
  <2>2. CASE i = j
    <3>1. i \in 1 .. K /\ old(i) = j /\ p1.kids[i] = c /\ m2[p1.kids[i]] = left
        BY <1>1, <1>4, <1>5, <1>6, <1>9, <2>2
    <3> QED BY <1>3, <1>4, <1>6, <1>7, <1>10, <2>2, <3>1
  <2>3. CASE i = j + 1
    <3>1. old(i) = j /\ j \in 1 .. K /\ p1.kids[i] = q /\ m2[p1.kids[i]] = right
        BY <1>1, <1>4, <1>5, <1>6, <1>9, <2>3
    <3> QED BY <1>2, <1>3, <1>4, <1>6, <1>7, <1>10, <2>3, <3>1
  <2>4. CASE i > j + 1
    <3>1. i - 1 \in 1 .. K /\ old(i) = i - 1 /\ p1.kids[i] = n.kids[i - 1] /\ n.kids[i - 1] # c
        BY <1>1, <1>4, <1>5, <1>6, <2>4
    <3>2. m2[p1.kids[i]] = m[n.kids[i - 1]] /\ n.kids[i - 1] \in DOMAIN m /\ n.kids[i - 1] # root
        BY <1>1, <1>9, <3>1
    <3>3. \A y \in Range(m[n.kids[i - 1]].items) : y.key \in Int
        BY <1>2, <1>4, <3>2, RangeIs
    <3> QED BY <1>3, <2>4, <3>1, <3>2, <3>3, <1>4
  <2> QED BY <1>1, <1>4, <2>1, <2>2, <2>3, <2>4
<1>18. ASSUME NEW i \in 1 .. K + 1, NEW y \in Range(m2[p1.kids[i]].items)
       PROVE  Between(p1, i, y)
  <2>1. /\ old(i) \in 1 .. K /\ y.key \in Int
        /\ i = j => y.key < mid.key
        /\ i = j + 1 => mid.key < y.key
        /\ \A l \in 1 .. L : IF l < old(i) THEN n.items[l].key < y.key ELSE y.key < n.items[l].key
      BY <1>17, <1>18 DEF Between, L
  <2> SUFFICES ASSUME NEW l \in 1 .. L + 1
               PROVE  IF l < i THEN p1.items[l].key < y.key ELSE y.key < p1.items[l].key
      BY <1>5 DEF Between
  <2>2. CASE l < j
    <3>1. l \in 1 .. L /\ p1.items[l] = n.items[l] /\ (l < i <=> l < old(i))
        BY <1>1, <1>4, <1>5, <2>2
    <3> QED BY <2>1, <3>1
  <2>3. CASE l > j
    <3>1. l - 1 \in 1 .. L /\ p1.items[l] = n.items[l - 1] /\ (l < i <=> l - 1 < old(i))
        BY <1>1, <1>4, <1>5, <2>3
    <3> QED BY <2>1, <3>1
  <2>4. CASE l = j
    <3>1. p1.items[l] = mid
        BY <1>4, <1>5, <2>4
    <3>2. CASE i < j
      <4>1. i \in 1 .. L /\ ~(i < old(i)) /\ ~(l < i)
          BY <1>1, <1>4, <2>4, <3>2
      <4>2. y.key < n.items[i].key /\ n.items[i].key < mid.key /\ n.items[i].key \in Int
          BY <1>11, <1>15, <2>1, <3>2, <4>1
      <4> QED BY <1>13, <2>1, <3>1, <4>1, <4>2
    <3>3. CASE i > j + 1
      <4>1. j \in 1 .. L /\ j < old(i) /\ l < i
          BY <1>1, <1>4, <2>4, <3>3
      <4>2. n.items[j].key < y.key /\ mid.key < n.items[j].key /\ n.items[j].key \in Int
          BY <1>11, <1>15, <1>4, <2>1, <4>1
      <4> QED BY <1>13, <2>1, <3>1, <4>1, <4>2
    <3> QED BY <1>1, <1>4, <2>1, <2>4, <3>1, <3>2, <3>3
  <2> QED BY <1>4, <2>2, <2>3, <2>4
<1>19. \A i, l \in 1 .. K + 1 : p1.kids[i] = p1.kids[l] => i = l
  <2> SUFFICES ASSUME NEW i \in 1 .. K + 1, NEW l \in 1 .. K + 1, p1.kids[i] = p1.kids[l]
               PROVE  i = l
      OBVIOUS
  <2>1. (p1.kids[i] = q <=> i = j + 1) /\ (p1.kids[l] = q <=> l = j + 1)
      BY <1>1, <1>4, <1>5
  <2>2. i # j + 1 => old(i) \in 1 .. K /\ p1.kids[i] = n.kids[old(i)]
      BY <1>1, <1>4, <1>5
  <2>3. l # j + 1 => old(l) \in 1 .. K /\ p1.kids[l] = n.kids[old(l)]
      BY <1>1, <1>4, <1>5
  <2>4. i # j + 1 /\ l # j + 1 => old(i) = old(l)
      BY <1>1, <2>1, <2>2, <2>3, ZenonT(60)
  <2> QED BY <1>1, <1>4, <2>1, <2>4
<1>20. \A p \in DOMAIN m \cup {q} : p # root => \E i \in 1 .. K + 1 : p = p1.kids[i]
  <2> SUFFICES ASSUME NEW p \in DOMAIN m \cup {q}, p # root PROVE \E i \in 1 .. K + 1 : p = p1.kids[i]
      OBVIOUS
  <2>1. CASE p = q
    <3>1. j + 1 \in 1 .. K + 1 /\ p1.kids[j + 1] = q
        BY <1>1, <1>4, <1>5
    <3> QED BY <2>1, <3>1
  <2>2. CASE p # q
    <3>1. PICK i \in 1 .. K : p = n.kids[i]
        BY <1>1, <2>2
    <3>2. CASE i <= j
      <4>1. i \in 1 .. K + 1 /\ p1.kids[i] = n.kids[i]
          BY <1>1, <1>4, <1>5, <3>2
      <4> QED BY <3>1, <4>1
    <3>3. CASE i > j
      <4>1. i + 1 \in 1 .. K + 1 /\ p1.kids[i + 1] = n.kids[i]
          BY <1>1, <1>4, <1>5, <3>3
      <4> QED BY <3>1, <4>1
    <3> QED BY <1>1, <1>4, <3>2, <3>3
  <2> QED BY <2>1, <2>2
<1>21. p1.kids # <<>> /\ p1.items # <<>> /\ p1.kids \in Seq(DOMAIN m2)
  <2>1. p1.kids \in Seq(DOMAIN m2)
      BY <1>5, <1>9 DEF Node
  <2> QED BY <1>1, <1>4, <1>5, <2>1
<1>22. Shaped(m2, root)
  <2>1. \A p \in DOMAIN m2 : m2[p] \in Node(DOMAIN m2)
    <3>1. \A p \in DOMAIN m : m[p] \in Node(DOMAIN m \cup {q})
      <4>1. ASSUME NEW p \in DOMAIN m PROVE m[p] \in Node(DOMAIN m \cup {q})
        <5>1. m[p] \in [items : Seq(PlainItem), kids : Seq(DOMAIN m)]
            BY <1>2 DEF Node
        <5>2. m[p].kids \in Seq(DOMAIN m \cup {q})
            BY <5>1
        <5> QED BY <5>1, <5>2 DEF Node
      <4> QED BY <4>1
    <3> QED BY <1>5, <1>8, <1>9, <3>1
  <2>2. \A p \in DOMAIN m2 : p # root => IsLeaf(m2[p])
      BY <1>2, <1>8, <1>9
  <2>3. Fanned(m2, root)
    <3>1. Len(p1.kids) = Len(p1.items) + 1
        BY <1>1, <1>5
    <3>2. \A i \in 1 .. K + 1 : p1.kids[i] \in DOMAIN m \cup {q} /\ p1.kids[i] # root
        BY <1>17
    <3> QED BY <1>5, <1>9, <1>19, <1>20, <3>1, <3>2 DEF Fanned
  <2>4. m2 = [p \in DOMAIN m2 |-> m2[p]] /\ root \in DOMAIN m2
      BY <1>2, <1>9
  <2>5. ~IsLeaf(m2[root])
      BY <1>9, <1>21 DEF IsLeaf
  <2> QED BY ONLY <2>1, <2>2, <2>3, <2>4, <2>5, ShapedIf
<1>23. Ordered(m2, root)
  <2>1. \A p \in DOMAIN m2 : Sorted(m2[p].items)
      BY <1>3, <1>7, <1>9, <1>16
  <2>2. root \in DOMAIN m2 /\ m2[root].items \in Seq(PlainItem) /\ m2[root].kids \in Seq(DOMAIN m2)
      BY <1>2, <1>9, <1>12, <1>21
  <2>3. \A i \in 1 .. Len(m2[root].kids) : \A y \in Range(m2[m2[root].kids[i]].items) : Between(m2[root], i, y)
      BY <1>5, <1>9, <1>18
  <2> QED BY ONLY <2>1, <2>2, <2>3, OrderedIs
<1>24. Range(p1.items) = Range(n.items) \cup {mid}
  <2>1. ASSUME NEW i \in 1 .. L + 1 PROVE p1.items[i] \in Range(n.items) \cup {mid}
    <3>1. i < j => i \in 1 .. L /\ p1.items[i] = n.items[i]
        BY <1>4, <1>5
    <3>2. i > j => i - 1 \in 1 .. L /\ p1.items[i] = n.items[i - 1]
        BY <1>4, <1>5
    <3>3. i = j => p1.items[i] = mid
        BY <1>4, <1>5
    <3> QED BY <1>4, <1>11, <3>1, <3>2, <3>3
  <2>2. ASSUME NEW i \in 1 .. L PROVE n.items[i] \in Range(p1.items)
    <3>1. i < j => i \in 1 .. L + 1 /\ p1.items[i] = n.items[i]
        BY <1>4, <1>5
    <3>2. i >= j => i + 1 \in 1 .. L + 1 /\ p1.items[i + 1] = n.items[i]
        BY <1>4, <1>5
    <3> QED BY <1>4, <1>12, <3>1, <3>2
  <2>3. mid \in Range(p1.items)
    <3>1. j \in 1 .. L + 1 /\ p1.items[j] = mid
        BY <1>4, <1>5
    <3> QED BY <1>12, <3>1
  <2> QED BY <1>11, <1>12, <2>1, <2>2, <2>3
<1>25. AllItems(m2) = AllItems(m)
  <2>1. ASSUME NEW y PROVE y \in AllItems(m2) <=> \E p \in DOMAIN m2 : y \in Range(m2[p].items)
      BY DEF AllItems
  <2>2. ASSUME NEW y PROVE y \in AllItems(m) <=> \E p \in DOMAIN m : y \in Range(m[p].items)
      BY DEF AllItems
  <2>3. ASSUME NEW y, NEW p \in DOMAIN m2, y \in Range(m2[p].items)
        PROVE  \E o \in DOMAIN m : y \in Range(m[o].items)
    <3>1. CASE p = c \/ p = q
        BY <1>6, <1>7, <1>9, <2>3, <3>1
    <3>2. CASE p = root
        BY <1>2, <1>6, <1>7, <1>9, <1>24, <2>3, <3>2 DEF n
    <3>3. CASE p # c /\ p # q /\ p # root
        BY <1>9, <2>3, <3>3
    <3> QED BY <3>1, <3>2, <3>3
  <2>4. ASSUME NEW y, NEW p \in DOMAIN m, y \in Range(m[p].items)
        PROVE  \E o \in DOMAIN m2 : y \in Range(m2[o].items)
    <3>1. CASE p = c
        BY <1>2, <1>6, <1>7, <1>9, <1>24, <2>4, <3>1
    <3>2. CASE p = root
        BY <1>2, <1>9, <1>24, <2>4, <3>2 DEF n
    <3>3. CASE p # c /\ p # root
        BY <1>9, <2>4, <3>3
    <3> QED BY <3>1, <3>2, <3>3
  <2>5. \A y : y \in AllItems(m2) <=> y \in AllItems(m)
      BY <2>1, <2>2, <2>3, <2>4
  <2> QED BY <2>5
<1>26. ~IsLeaf(m2[root]) /\ m2[root].items # <<>>
    BY <1>9, <1>21 DEF IsLeaf
<1> QED BY <1>2, <1>6, <1>9, <1>22, <1>23, <1>25, <1>26 DEF Tree, LeafIsSplit

\* Node::split cuts a leaf so; the item that goes up survives.
LEMMA HalvedIs ==
    ASSUME NEW n, ItemsFit, n.items \in Seq(PlainItem), IsLeaf(n),
           SplitIndex(n) \in 1 .. Len(n.items)
    PROVE  Halved(n, SplitIndex(n), LeftHalf(n), Middle(n), RightHalf(n)) /\ Middle(n) \in PlainItem
<1> DEFINE s == SplitIndex(n)
<1>1. n.items[s] \in PlainItem
    BY RangeIs
<1>2. Bytes[n.items[s].val] <= SmallStrings
    BY <1>1 DEF ItemsFit, PlainItem
<1>3. Middle(n) = n.items[s]
    BY <1>2 DEF Middle, Destroyed
<1>4. /\ LeftHalf(n).items \in Seq(PlainItem) /\ LeftHalf(n).kids = <<>>
      /\ LeftHalf(n) = [items |-> LeftHalf(n).items, kids |-> <<>>]
      /\ Len(LeftHalf(n).items) = s - 1
      /\ \A i \in 1 .. s - 1 : LeftHalf(n).items[i] = n.items[i]
    BY Halves
<1>5. /\ RightHalf(n).items \in Seq(PlainItem) /\ RightHalf(n).kids = <<>>
      /\ RightHalf(n) = [items |-> RightHalf(n).items, kids |-> <<>>]
      /\ Len(RightHalf(n).items) = Len(n.items) - s
      /\ \A i \in 1 .. Len(n.items) - s : RightHalf(n).items[i] = n.items[s + i]
    BY Halves
<1> HIDE DEF s
<1>6. s \in 1 .. Len(n.items)
    BY DEF s
<1>7. Halved(n, s, LeftHalf(n), Middle(n), RightHalf(n))
    BY <1>3, <1>4, <1>5, <1>6 DEF Halved
<1> QED BY <1>1, <1>3, <1>7 DEF s

\* ... and links the halves so.
LEMMA OpenedIs ==
    ASSUME NEW P, NEW p, NEW j, NEW n, NEW q, p \in Node(P), Len(p.kids) = Len(p.items) + 1,
           j \in 1 .. Len(p.kids), Middle(n) \in PlainItem
    PROVE  Opened(P \cup {q}, p, j, Middle(n), q, SplitUnder(p, j, n, q))
<1> DEFINE p1 == SplitUnder(p, j, n, q)
           t == InsertAt(p.items, j, Middle(n))
           k == InsertAt(p.kids, j + 1, q)
           mid == Middle(n)
           Q == P \cup {q}
<1>1. /\ p = [items |-> p.items, kids |-> p.kids] /\ p.items \in Seq(PlainItem) /\ p.kids \in Seq(P)
      /\ p.kids \in Seq(P \cup {q}) /\ q \in Q
    BY DEF Node
<1>2. p1 = [items |-> t, kids |-> k]
  <2> DEFINE o == AddItem(p, j, Middle(n))
  <2>1. o = [items |-> t, kids |-> p.kids]
      BY <1>1 DEF AddItem
  <2>2. p1 = [o EXCEPT !.kids = InsertAt(@, j + 1, q)]
      BY Zenon DEF SplitUnder
  <2> HIDE DEF o, t, p1
  <2> QED BY <2>1, <2>2
<1>3. Len(p.items) \in Nat /\ Len(p.kids) \in Nat /\ j \in 1 .. Len(p.items) + 1 /\ j + 1 \in 1 .. Len(p.kids) + 1
    BY <1>1, LenProperties
<1> HIDE DEF mid, Q
<1>4. /\ t \in Seq(PlainItem) /\ Len(t) = Len(p.items) + 1
      /\ \A i \in 1 .. Len(p.items) + 1 :
             t[i] = IF i < j THEN p.items[i] ELSE IF i = j THEN mid ELSE p.items[i - 1]
  <2>1. mid \in PlainItem
      BY DEF mid
  <2> DEFINE a == p.items
             l == j
  <2>2. a \in Seq(PlainItem) /\ l \in 1 .. Len(a) + 1
      BY <1>1, <1>3
  <2>3. t = InsertAt(a, l, mid)
      BY DEF mid
  <2> HIDE DEF a, t, l
  <2>4. /\ t \in Seq(PlainItem) /\ Len(t) = Len(a) + 1
        /\ \A i \in 1 .. Len(a) + 1 : t[i] = IF i < l THEN a[i] ELSE IF i = l THEN mid ELSE a[i - 1]
      BY ONLY <2>1, <2>2, <2>3, InsertIs, SMTT(30)
  <2> QED BY <2>4 DEF a, l
<1>5. /\ k \in Seq(Q) /\ Len(k) = Len(p.kids) + 1
      /\ \A i \in 1 .. Len(p.kids) + 1 :
             k[i] = IF i < j + 1 THEN p.kids[i] ELSE IF i = j + 1 THEN q ELSE p.kids[i - 1]
  <2> DEFINE a == p.kids
             l == j + 1
  <2>1. a \in Seq(Q) /\ l \in 1 .. Len(a) + 1 /\ q \in Q
      BY <1>1, <1>3 DEF Q
  <2>2. k = InsertAt(a, l, q)
      OBVIOUS
  <2> HIDE DEF a, k, l
  <2>3. /\ k \in Seq(Q) /\ Len(k) = Len(a) + 1
        /\ \A i \in 1 .. Len(a) + 1 : k[i] = IF i < l THEN a[i] ELSE IF i = l THEN q ELSE a[i - 1]
      BY ONLY <2>1, <2>2, InsertIs, SMTT(30)
  <2> QED BY <2>3 DEF a, l
<1> HIDE DEF t, k
<1>6. p1 \in Node(Q) /\ p1.items = t /\ p1.kids = k
    BY <1>2, <1>4, <1>5 DEF Node
<1> HIDE DEF p1
<1>7. Opened(Q, p, j, mid, q, p1)
    BY <1>4, <1>5, <1>6 DEF Opened
<1> QED BY <1>7 DEF Q, p1, mid

\* Container::_put when the root is a leaf that has to split: the new root
\* holds the item in the middle.
LeafGrows(m, root, q, r, s, left, mid, right, p1, m2) ==
    /\ Shaped(m, root) /\ Ordered(m, root) /\ IsLeaf(m[root])
    /\ q # root /\ r # root /\ q # r /\ Halved(m[root], s, left, mid, right) /\ mid \in PlainItem
    /\ Opened({root, r, q}, [items |-> <<>>, kids |-> <<root>>], 1, mid, q, p1)
    /\ m2 = Placed(Placed(Placed(m, q, right), r, p1), root, left)

\* What that keeps: the root on the page r has two leaves, with the items of m.
LeafIsGrown(m, root, q, r, left, right, p1, m2) ==
    /\ DOMAIN m2 = {root, q, r} /\ DOMAIN m = {root}
    /\ m2[root] = left /\ m2[q] = right /\ m2[r] = p1
    /\ Tree(m2, r) /\ Ordered(m2, r) /\ ~IsLeaf(m2[r])
    /\ AllItems(m2) = AllItems(m)

\* A root that is split is a tree again.
LEMMA GrowTree ==
    ASSUME NEW m, NEW root, NEW q, NEW r, NEW s, NEW left, NEW mid, NEW right, NEW p1, NEW m2,
           LeafGrows(m, root, q, r, s, left, mid, right, p1, m2)
    PROVE  LeafIsGrown(m, root, q, r, left, right, p1, m2)
<1> SUFFICES ASSUME
           Shaped(m, root), Ordered(m, root), IsLeaf(m[root]),
           q # root, r # root, q # r, Halved(m[root], s, left, mid, right), mid \in PlainItem,
           Opened({root, r, q}, [items |-> <<>>, kids |-> <<root>>], 1, mid, q, p1),
           m2 = Placed(Placed(Placed(m, q, right), r, p1), root, left)
    PROVE  /\ DOMAIN m2 = {root, q, r} /\ DOMAIN m = {root}
           /\ m2[root] = left /\ m2[q] = right /\ m2[r] = p1
           /\ Tree(m2, r) /\ Ordered(m2, r) /\ ~IsLeaf(m2[r])
           /\ AllItems(m2) = AllItems(m)
    BY DEF LeafGrows, LeafIsGrown
<1> DEFINE e == [items |-> <<>>, kids |-> <<root>>]
           m0 == [p \in {root, r} |-> IF p = root THEN m[root] ELSE e]
<1>1. root \in DOMAIN m /\ DOMAIN m = {root} /\ m[root] \in Node(DOMAIN m) /\ m[root].items \in Seq(PlainItem)
    BY ShapedIs
<1>2. DOMAIN m0 = {root, r} /\ m0[root] = m[root] /\ m0[r] = e
    OBVIOUS
<1>3. e.items = <<>> /\ e.kids = <<root>> /\ Len(e.items) = 0 /\ Len(e.kids) = 1 /\ e.kids[1] = root
      /\ e.kids # <<>> /\ e \in Node({root, r})
    BY DEF Node
<1>4. m0 = [p \in DOMAIN m0 |-> m0[p]]
    OBVIOUS
<1> HIDE DEF m0
<1>5. Shaped(m0, r)
  <2>1. m[root] \in Node({root, r})
    <3>1. m[root] \in [items : Seq(PlainItem), kids : Seq({root})]
        BY <1>1 DEF Node
    <3>2. m[root].kids \in Seq({root, r})
        BY <3>1
    <3> QED BY <3>1, <3>2 DEF Node
  <2>2. \A p \in DOMAIN m0 : m0[p] \in Node(DOMAIN m0)
      BY <1>2, <1>3, <2>1
  <2>3. r \in DOMAIN m0 /\ \A p \in DOMAIN m0 : p # r => IsLeaf(m0[p])
      BY <1>2
  <2>4. ~IsLeaf(m0[r])
      BY <1>2, <1>3 DEF IsLeaf
  <2>5. Fanned(m0, r)
      BY <1>2, <1>3 DEF Fanned
  <2> QED BY ONLY <1>4, <2>2, <2>3, <2>4, <2>5, ShapedIf
<1>6. Ordered(m0, r)
  <2>1. Sorted(m[root].items)
      BY <1>1 DEF Ordered
  <2>2. Sorted(e.items)
      BY <1>3 DEF Sorted
  <2>3. DOMAIN e.items = {}
      BY <1>3
  <2> HIDE DEF e
  <2> QED BY <1>2, <2>1, <2>2, <2>3 DEF Ordered
<1> PICK m3 : m3 = Placed(Placed(Placed(m0, q, right), r, p1), root, left)
    OBVIOUS
<1>7. LeafSplits(m0, r, 1, root, q, s, left, mid, right, p1, m3)
  <2>1. DOMAIN m0 \cup {q} = {root, r, q}
      BY <1>2
  <2>2. ~IsLeaf(m0[r]) /\ 1 \in 1 .. Len(m0[r].kids) /\ root = m0[r].kids[1] /\ q \notin DOMAIN m0
      BY <1>2, <1>3 DEF IsLeaf
  <2>3. Halved(m0[root], s, left, mid, right)
      BY <1>2
  <2>4. Opened(DOMAIN m0 \cup {q}, m0[r], 1, mid, q, p1)
      BY <1>2, <2>1
  <2> QED BY <1>5, <1>6, <2>2, <2>3, <2>4 DEF LeafSplits
<1>8. m3 = m2
    BY <1>1, <1>2 DEF Placed
<1>9. LeafIsSplit(m0, r, root, q, left, right, p1, m3)
    BY ONLY <1>7, SplitTree
<1>10. AllItems(m0) = AllItems(m)
  <2>1. Range(e.items) = {}
      BY <1>3 DEF Range
  <2> HIDE DEF e
  <2> QED BY <1>1, <1>2, <2>1 DEF AllItems
<1> QED BY <1>1, <1>2, <1>8, <1>9, <1>10 DEF LeafIsSplit

-----------------------------------------------------------------------------
(***************************************************************************)
(* An item taken out of a tree.                                            *)
(***************************************************************************)
\* The node n1 is n without its i-th item.
Shortened(P, n, i, n1) ==
    /\ n \in Node(P) /\ n1 \in Node(P) /\ n1.kids = n.kids /\ i \in 1 .. Len(n.items)
    /\ Len(n1.items) = Len(n.items) - 1
    /\ \A j \in 1 .. Len(n.items) - 1 : n1.items[j] = IF j < i THEN n.items[j] ELSE n.items[j + 1]

\* So they are after removeItemFromLeaf, and after the last item was taken as a
\* predecessor.
LEMMA ShortenedIs ==
    ASSUME NEW P, NEW n, NEW i, n \in Node(P), i \in 1 .. Len(n.items)
    PROVE  Shortened(P, n, i, [n EXCEPT !.items = RemoveAt(@, i)])
<1> DEFINE t == RemoveAt(n.items, i)
           n1 == [n EXCEPT !.items = RemoveAt(@, i)]
<1>1. n = [items |-> n.items, kids |-> n.kids] /\ n.items \in Seq(PlainItem) /\ n.kids \in Seq(P)
    BY DEF Node
<1>2. n1 = [items |-> t, kids |-> n.kids]
    BY <1>1
<1> HIDE DEF n1
<1>3. /\ t \in Seq(PlainItem) /\ Len(t) = Len(n.items) - 1
      /\ \A j \in 1 .. Len(n.items) - 1 : t[j] = IF j < i THEN n.items[j] ELSE n.items[j + 1]
  <2> DEFINE s == n.items
             l == i
  <2>1. s \in Seq(PlainItem) /\ l \in 1 .. Len(s) /\ t = RemoveAt(s, l)
      BY <1>1
  <2> HIDE DEF s, l, t
  <2>2. /\ t \in Seq(PlainItem) /\ Len(t) = Len(s) - 1
        /\ \A j \in 1 .. Len(s) - 1 : t[j] = IF j < l THEN s[j] ELSE s[j + 1]
      BY ONLY <2>1, RemoveIs
  <2> QED BY <2>2 DEF s, l
<1> HIDE DEF t
<1>4. n1 \in Node(P) /\ n1.items = t /\ n1.kids = n.kids
    BY <1>1, <1>2, <1>3 DEF Node
<1>5. Shortened(P, n, i, n1)
    BY <1>3, <1>4 DEF Shortened
<1> QED BY <1>5 DEF n1

\* A node without its last item.
LEMMA FrontIs ==
    ASSUME NEW P, NEW n, n \in Node(P), n.items # <<>>
    PROVE  /\ Shortened(P, n, Len(n.items), [n EXCEPT !.items = Front(@)])
           /\ Last(n.items) = n.items[Len(n.items)]
<1> DEFINE s == n.items
           t == Front(s)
           L == Len(s)
           n1 == [n EXCEPT !.items = Front(@)]
<1>1. n = [items |-> s, kids |-> n.kids] /\ s \in Seq(PlainItem) /\ n.kids \in Seq(P)
    BY DEF Node
<1>2. n1 = [items |-> t, kids |-> n.kids]
    BY <1>1
<1>3. L \in Nat /\ L # 0
  <2>1. s # <<>>
      OBVIOUS
  <2> HIDE DEF s
  <2> QED BY <1>1, <2>1, LenProperties, EmptySeq
<1> HIDE DEF n1
<1>4. t = SubSeq(s, 1, L - 1)
    BY DEF Front
<1>5. /\ t \in Seq(PlainItem) /\ Len(t) = L - 1
      /\ \A j \in 1 .. L - 1 : t[j] = s[j]
  <2>1. 1 \in 1 .. L + 1 /\ L - 1 \in 0 .. L /\ 1 <= (L - 1) + 1 /\ (L - 1) - 1 + 1 = L - 1
      BY <1>3
  <2> HIDE DEF s, t
  <2>2. /\ t \in Seq(PlainItem) /\ Len(t) = (L - 1) - 1 + 1
        /\ \A j \in 1 .. (L - 1) - 1 + 1 : t[j] = s[1 + j - 1]
      BY <1>1, <1>4, <2>1, PartIs
  <2>3. \A j \in 1 .. L - 1 : 1 + j - 1 = j
      BY <1>3
  <2> QED BY <2>1, <2>2, <2>3
<1> HIDE DEF t
<1>6. n1 \in Node(P) /\ n1.items = t /\ n1.kids = n.kids
    BY <1>1, <1>2, <1>5 DEF Node
<1>7. Shortened(P, n, L, n1)
  <2>1. n \in Node(P) /\ L \in 1 .. Len(n.items)
      BY <1>3
  <2>2. \A j \in 1 .. Len(n.items) - 1 : n1.items[j] = IF j < L THEN n.items[j] ELSE n.items[j + 1]
      BY <1>3, <1>5, <1>6
  <2> QED BY <1>5, <1>6, <2>1, <2>2 DEF Shortened
<1> QED BY <1>7 DEF n1, Last

\* The items S but for the one of k.
Without(S, k) == {y \in S : y.key # k}

\* What is left is in order and without that item.
LEMMA ShortenedHas ==
    ASSUME NEW P, NEW n, NEW i, NEW n1, Shortened(P, n, i, n1), Sorted(n.items)
    PROVE  /\ Sorted(n1.items) /\ n1 \in Node(P) /\ n1.kids = n.kids
           /\ n.items[i] \in Range(n.items)
           /\ Range(n1.items) = Without(Range(n.items), n.items[i].key)
           /\ \A y \in Range(n1.items) : i = Len(n.items) => y.key < n.items[i].key
           /\ \A y \in Range(n.items) : y.key = n.items[i].key => y = n.items[i]
           /\ IsLeaf(n) => Size(n1) <= Size(n)
<1> DEFINE s == n.items
           t == n1.items
           L == Len(s)
<1>1. /\ s \in Seq(PlainItem) /\ t \in Seq(PlainItem) /\ n1 \in Node(P) /\ n1.kids = n.kids
      /\ i \in 1 .. L /\ Len(t) = L - 1
      /\ \A j \in 1 .. L - 1 : t[j] = IF j < i THEN s[j] ELSE s[j + 1]
    BY DEF Shortened, Node
<1>2. IsLeaf(n) => Size(n1) <= Size(n)
  <2> SUFFICES ASSUME IsLeaf(n) PROVE Size(n1) <= Size(n)
      OBVIOUS
  <2>1. IsLeaf(n1)
      BY <1>1 DEF IsLeaf
  <2> QED BY <1>1, <2>1, RemoveSize
<1>3. Sorted(s)
    OBVIOUS
<1> HIDE DEF s, t
<1>4. L \in Nat /\ DOMAIN s = 1 .. L /\ Range(s) = {s[j] : j \in 1 .. L} /\ \A j \in 1 .. L : s[j] \in PlainItem
    BY <1>1, RangeIs
<1>5. DOMAIN t = 1 .. L - 1 /\ Range(t) = {t[j] : j \in 1 .. L - 1}
    BY <1>1, RangeIs
<1>6. \A j \in 1 .. L : s[j].key \in Int
    BY <1>4, NodeAssumption DEF PlainItem
<1> HIDE DEF L
<1>7. \A a, b \in 1 .. L : a < b => s[a].key < s[b].key
    BY <1>3, <1>4 DEF Sorted
<1>8. \A j \in 1 .. L : s[j].key = s[i].key => j = i
  <2> SUFFICES ASSUME NEW j \in 1 .. L, j # i PROVE s[j].key # s[i].key
      OBVIOUS
  <2>1. j < i \/ i < j
      BY <1>1, <1>4
  <2> QED BY <1>1, <1>6, <1>7, <2>1
<1>9. ASSUME NEW j \in 1 .. L - 1
      PROVE  \E a \in 1 .. L : a # i /\ t[j] = s[a] /\ (i = L => a < i)
  <2>1. CASE j < i
    <3>1. j \in 1 .. L /\ t[j] = s[j]
        BY <1>1, <1>4, <2>1
    <3> QED BY <2>1, <3>1
  <2>2. CASE j >= i
    <3>1. j + 1 \in 1 .. L /\ t[j] = s[j + 1] /\ j + 1 # i /\ i # L
        BY <1>1, <1>4, <2>2
    <3> QED BY <3>1
  <2> QED BY <1>1, <1>4, <2>1, <2>2
<1>10. ASSUME NEW a \in 1 .. L, a # i PROVE s[a] \in Range(t)
  <2>1. CASE a < i
    <3>1. a \in 1 .. L - 1 /\ t[a] = s[a]
        BY <1>1, <1>4, <2>1
    <3> QED BY <1>5, <3>1
  <2>2. CASE a > i
    <3>1. a - 1 \in 1 .. L - 1 /\ ~(a - 1 < i) /\ (a - 1) + 1 = a
        BY <1>1, <1>4, <2>2
    <3>2. t[a - 1] = s[a]
        BY <1>1, <3>1
    <3> QED BY <1>5, <3>1, <3>2
  <2> QED BY <1>1, <1>4, <1>10, <2>1, <2>2
<1>11. Range(t) = {y \in Range(s) : y.key # s[i].key}
    BY <1>4, <1>5, <1>8, <1>9, <1>10, ZenonT(60)
<1>12. \A y \in Range(t) : i = L => y.key < s[i].key
  <2> SUFFICES ASSUME NEW y \in Range(t), i = L PROVE y.key < s[i].key
      OBVIOUS
  <2>1. PICK j \in 1 .. L - 1 : y = t[j]
      BY <1>5
  <2>2. PICK a \in 1 .. L : t[j] = s[a] /\ a < i
      BY <1>9
  <2> QED BY <1>1, <1>7, <2>1, <2>2
<1>13. \A y \in Range(s) : y.key = s[i].key => y = s[i]
    BY <1>4, <1>8
<1>14. Sorted(t)
  <2> SUFFICES ASSUME NEW a \in 1 .. L - 1, NEW b \in 1 .. L - 1, a < b PROVE t[a].key < t[b].key
      BY <1>5 DEF Sorted
  <2>1. CASE b < i
    <3>1. a \in 1 .. L /\ b \in 1 .. L /\ t[a] = s[a] /\ t[b] = s[b]
        BY <1>1, <1>4, <2>1
    <3> QED BY <1>7, <3>1
  <2>2. CASE a < i /\ b >= i
    <3>1. a \in 1 .. L /\ b + 1 \in 1 .. L /\ a < b + 1 /\ t[a] = s[a] /\ t[b] = s[b + 1]
        BY <1>1, <1>4, <2>2
    <3> QED BY <1>7, <3>1
  <2>3. CASE a >= i
    <3>1. a + 1 \in 1 .. L /\ b + 1 \in 1 .. L /\ a + 1 < b + 1 /\ t[a] = s[a + 1] /\ t[b] = s[b + 1]
        BY <1>1, <1>4, <2>3
    <3> QED BY <1>7, <3>1
  <2> QED BY <1>1, <1>4, <2>1, <2>2, <2>3
<1> QED BY <1>1, <1>2, <1>4, <1>11, <1>12, <1>13, <1>14 DEF s, t, L, Without

\* Container::_remove of a key in a leaf: its item is gone from the tree, the
\* others are where they were.
LEMMA RemoveTree ==
    ASSUME NEW m, NEW root, NEW p, NEW k, NEW i, NEW n1, NEW m1,
           Tree(m, root), Ordered(m, root), k \in Key, p = Target(m, root, k), IsLeaf(m[p]),
           Shortened(DOMAIN m, m[p], i, n1), m[p].items[i].key = k, m1 = Placed(m, p, n1)
    PROVE  /\ p \in DOMAIN m /\ DOMAIN m1 = DOMAIN m
           /\ m1[p] = n1 /\ \A q \in DOMAIN m : q # p => m1[q] = m[q]
           /\ Tree(m1, root) /\ Ordered(m1, root)
           /\ AllItems(m1) = Without(AllItems(m), k)
<1>1. Shaped(m, root) /\ (IsLeaf(m[root]) \/ m[root].items # <<>>)
    BY DEF Tree
<1>2. p \in DOMAIN m /\ (p # root => ~IsLeaf(m[root]))
    BY <1>1, TargetIs
<1>3. /\ root \in DOMAIN m
      /\ \A q \in DOMAIN m : m[q] \in Node(DOMAIN m) /\ m[q].items \in Seq(PlainItem)
      /\ \A q \in DOMAIN m : q # root => IsLeaf(m[q])
      /\ IsLeaf(m[root]) => DOMAIN m = {root}
    BY <1>1, ShapedIs
<1>4. \A q \in DOMAIN m : Sorted(m[q].items)
    BY DEF Ordered
<1>5. /\ Sorted(n1.items) /\ n1 \in Node(DOMAIN m) /\ n1.kids = m[p].kids
      /\ Range(n1.items) = Without(Range(m[p].items), k)
  <2> PICK n : n = m[p]
      OBVIOUS
  <2>1. Shortened(DOMAIN m, n, i, n1) /\ Sorted(n.items) /\ n.items[i].key = k
      BY <1>2, <1>4
  <2>2. Sorted(n1.items) /\ n1 \in Node(DOMAIN m) /\ n1.kids = n.kids
      BY ONLY <2>1, ShortenedHas
  <2>3. Range(n1.items) = Without(Range(n.items), n.items[i].key)
      BY ONLY <2>1, ShortenedHas
  <2> QED BY <2>1, <2>2, <2>3
<1>6. /\ DOMAIN m1 = DOMAIN m /\ m1 = [q \in DOMAIN m1 |-> m1[q]]
      /\ m1[p] = n1 /\ \A q \in DOMAIN m : q # p => m1[q] = m[q]
    BY <1>2 DEF Placed
<1>7. \A q \in DOMAIN m : /\ m1[q] \in Node(DOMAIN m) /\ m1[q].kids = m[q].kids
                          /\ IsLeaf(m1[q]) <=> IsLeaf(m[q])
                          /\ Sorted(m1[q].items) /\ Range(m1[q].items) \subseteq Range(m[q].items)
    BY <1>3, <1>4, <1>5, <1>6 DEF IsLeaf, Without
<1>8. ~IsLeaf(m[root]) => m1[root] = m[root]
    BY <1>3, <1>6
<1>9. Shaped(m1, root)
  <2>1. ASSUME ~IsLeaf(m1[root]) PROVE Fanned(m1, root)
    <3>1. ~IsLeaf(m[root]) /\ m1[root] = m[root]
        BY <2>1, <1>3, <1>7, <1>8
    <3>2. /\ Len(m[root].kids) = Len(m[root].items) + 1
          /\ \A l \in 1 .. Len(m[root].kids) : m[root].kids[l] \in DOMAIN m /\ m[root].kids[l] # root
          /\ \A l, j \in 1 .. Len(m[root].kids) : m[root].kids[l] = m[root].kids[j] => l = j
          /\ \A q \in DOMAIN m : q # root => \E l \in 1 .. Len(m[root].kids) : q = m[root].kids[l]
        BY <1>1, <3>1, KidsIs
    <3> QED BY <3>1, <3>2, <1>6 DEF Fanned
  <2>2. /\ \A q \in DOMAIN m1 : m1[q] \in Node(DOMAIN m1)
        /\ root \in DOMAIN m1 /\ \A q \in DOMAIN m1 : q # root => IsLeaf(m1[q])
        /\ IsLeaf(m1[root]) => DOMAIN m1 = {root}
      BY <1>3, <1>6, <1>7
  <2>3. m1 = [q \in DOMAIN m1 |-> m1[q]]
      BY <1>6
  <2> QED BY ONLY <2>1, <2>2, <2>3, ShapedIf
<1>10. Tree(m1, root)
    BY <1>1, <1>3, <1>7, <1>8, <1>9 DEF Tree
<1>11. Ordered(m1, root)
  <2>1. /\ root \in DOMAIN m1 /\ m1[root].items \in Seq(PlainItem) /\ m1[root].kids \in Seq(DOMAIN m1)
        /\ m1[root].kids = m[root].kids
      BY <1>3, <1>6, <1>7 DEF Node
  <2>2. ASSUME NEW l \in 1 .. Len(m[root].kids), NEW y \in Range(m1[m[root].kids[l]].items)
        PROVE  Between(m1[root], l, y)
    <3>1. ~IsLeaf(m[root])
      <4>1. Len(m[root].kids) \in Nat /\ Len(m[root].kids) # 0
          BY <1>1, <2>1, <2>2, LenProperties
      <4> QED BY <4>1, EmptySeq DEF IsLeaf
    <3>2. m[root].kids[l] \in DOMAIN m
        BY <1>1, <2>2, <3>1, KidsIs
    <3>3. y \in Range(m[m[root].kids[l]].items)
        BY <1>7, <2>2, <3>2
    <3>4. m[root].items \in Seq(PlainItem) /\ m[root].kids \in Seq(DOMAIN m)
        BY <1>1, <3>1, KidsIs
    <3>5. Between(m[root], l, y)
        BY <1>3, <2>2, <3>3, <3>4, OrderedIs
    <3> QED BY <1>8, <3>1, <3>5
  <2> QED BY <1>6, <1>7, <2>1, <2>2, OrderedIs
<1>12. AllItems(m1) = Without(AllItems(m), k)
  <2>1. ASSUME NEW q \in DOMAIN m PROVE Range(m1[q].items) = Without(Range(m[q].items), k)
    <3>1. CASE q = p
        BY <1>5, <1>6, <3>1
    <3>2. CASE q # p
      <4>1. \A y \in Range(m[q].items) : y.key # k
          BY <1>1, <3>2, KeyElsewhere
      <4> QED BY <1>6, <3>2, <4>1 DEF Without
    <3> QED BY <3>1, <3>2
  <2>2. ASSUME NEW y PROVE y \in AllItems(m1) <=> y \in AllItems(m) /\ y.key # k
      BY <1>6, <2>1 DEF AllItems, Without
  <2> QED BY <2>2 DEF Without
<1> QED BY <1>2, <1>6, <1>10, <1>11, <1>12

\* Container::_remove of a key the root holds when it has children: the last
\* item x before it, in the leaf on the page c, takes its place.
ItemReplaced(m, root, k, i, c, x, n1, c1, m1) ==
    /\ Tree(m, root) /\ Ordered(m, root) /\ ~IsLeaf(m[root]) /\ k \in Key
    /\ i \in 1 .. Len(m[root].items) /\ m[root].items[i].key = k
    /\ c = m[root].kids[i] /\ Shortened(DOMAIN m, m[c], Len(m[c].items), c1)
    /\ x = m[c].items[Len(m[c].items)]
    /\ n1 = [m[root] EXCEPT !.items[i] = x]
    /\ m1 = Placed(Placed(m, root, n1), c, c1)

\* What that keeps: m1 is a tree in order, without the item of k.
ItemIsReplaced(m, root, k, c, n1, c1, m1) ==
    /\ DOMAIN m1 = DOMAIN m /\ c \in DOMAIN m /\ c # root /\ root \in DOMAIN m
    /\ m1[root] = n1 /\ m1[c] = c1 /\ \A q \in DOMAIN m : q # root /\ q # c => m1[q] = m[q]
    /\ Tree(m1, root) /\ Ordered(m1, root) /\ ~IsLeaf(m1[root]) /\ m1[root].items # <<>>
    /\ AllItems(m1) = Without(AllItems(m), k)

\* removeItemFromInternal keeps the tree.
LEMMA ReplaceTree ==
    ASSUME NEW m, NEW root, NEW k, NEW i, NEW c, NEW x, NEW n1, NEW c1, NEW m1,
           ItemReplaced(m, root, k, i, c, x, n1, c1, m1)
    PROVE  ItemIsReplaced(m, root, k, c, n1, c1, m1)
<1> DEFINE n == m[root]
           L == Len(n.items)
           K == Len(n.kids)
<1>0. /\ Tree(m, root) /\ Shaped(m, root) /\ Ordered(m, root) /\ ~IsLeaf(m[root]) /\ k \in Key
      /\ i \in 1 .. Len(m[root].items) /\ m[root].items[i].key = k
      /\ c = m[root].kids[i] /\ Shortened(DOMAIN m, m[c], Len(m[c].items), c1)
      /\ x = m[c].items[Len(m[c].items)]
      /\ n1 = [m[root] EXCEPT !.items[i] = x]
      /\ m1 = Placed(Placed(m, root, n1), c, c1)
    BY DEF ItemReplaced, Tree
<1>1. /\ n.items \in Seq(PlainItem) /\ n.kids \in Seq(DOMAIN m) /\ K = L + 1
      /\ \A l \in 1 .. K : n.kids[l] \in DOMAIN m /\ n.kids[l] # root /\ IsLeaf(m[n.kids[l]])
      /\ \A l, j \in 1 .. K : n.kids[l] = n.kids[j] => l = j
      /\ \A p \in DOMAIN m : p # root => \E l \in 1 .. K : p = n.kids[l]
  <2>1. Shaped(m, root) /\ ~IsLeaf(m[root])
      BY <1>0, Zenon
  <2> QED BY ONLY <2>1, KidsIs
<1>2. /\ root \in DOMAIN m
      /\ \A p \in DOMAIN m : /\ m[p] \in Node(DOMAIN m) /\ m[p].items \in Seq(PlainItem)
                             /\ p # root => IsLeaf(m[p])
      /\ n = [items |-> n.items, kids |-> n.kids]
    BY <1>0, ShapedIs, Zenon
<1>3. /\ \A p \in DOMAIN m : Sorted(m[p].items)
      /\ \A l \in 1 .. K : \A y \in Range(m[n.kids[l]].items) : Between(n, l, y)
    BY <1>0, <1>1, <1>2, OrderedIs
<1>4. L \in Nat /\ i \in 1 .. L /\ i \in 1 .. K
  <2>1. L \in Nat
      BY <1>1, LenProperties
  <2>2. i \in 1 .. L
      BY <1>0, Zenon
  <2> QED BY <1>1, <2>1, <2>2
<1>5. c \in DOMAIN m /\ c # root
    BY <1>0, <1>1, <1>4, Zenon
<1>6. /\ Sorted(c1.items) /\ c1 \in Node(DOMAIN m) /\ c1.kids = m[c].kids /\ x \in Range(m[c].items)
      /\ Range(c1.items) = Without(Range(m[c].items), x.key)
      /\ \A y \in Range(c1.items) : y.key < x.key
      /\ \A y \in Range(m[c].items) : y.key = x.key => y = x
  <2> PICK b : b = m[c]
      OBVIOUS
  <2>1. Shortened(DOMAIN m, b, Len(b.items), c1) /\ Sorted(b.items) /\ x = b.items[Len(b.items)]
      BY <1>0, <1>3, <1>5
  <2>2. Sorted(c1.items) /\ c1 \in Node(DOMAIN m) /\ c1.kids = b.kids
      BY ONLY <2>1, ShortenedHas
  <2>3. Range(c1.items) = Without(Range(b.items), x.key)
      BY ONLY <2>1, ShortenedHas
  <2>4. (\A y \in Range(c1.items) : y.key < x.key) /\ x \in Range(b.items)
      BY ONLY <2>1, ShortenedHas
  <2>5. \A y \in Range(b.items) : y.key = x.key => y = x
      BY ONLY <2>1, ShortenedHas
  <2> QED BY <2>2, <2>3, <2>4, <2>5
<1>7. x \in PlainItem /\ \A y \in PlainItem : y.key \in Int
  <2>1. \A y \in PlainItem : y.key \in Int
      BY NodeAssumption DEF PlainItem
  <2>2. m[c].items \in Seq(PlainItem)
      BY <1>2, <1>5
  <2> QED BY <1>6, <2>1, <2>2, RangeIs
<1>8. /\ n1 = [items |-> n1.items, kids |-> n1.kids] /\ n1.kids = n.kids
      /\ n1.items \in Seq(PlainItem) /\ Len(n1.items) = L
      /\ \A l \in 1 .. L : n1.items[l] = IF l = i THEN x ELSE n.items[l]
  <2> DEFINE s == n.items
             t == [s EXCEPT ![i] = x]
  <2>1. n1 = [items |-> t, kids |-> n.kids]
      BY <1>0, <1>2, Zenon
  <2>2. s \in Seq(PlainItem) /\ i \in 1 .. Len(s)
      BY <1>0, <1>1, Zenon
  <2>3. L = Len(s)
      OBVIOUS
  <2> HIDE DEF s
  <2>4. /\ t \in Seq(PlainItem) /\ Len(t) = Len(s)
        /\ \A l \in 1 .. Len(s) : t[l] = IF l = i THEN x ELSE s[l]
      BY <1>7, <2>2, ReplaceIs
  <2> HIDE DEF t
  <2> QED BY <2>1, <2>4 DEF s
<1>9. Between(n, i, x)
    BY <1>0, <1>3, <1>4, <1>6, Zenon
<1>10. /\ \A l \in 1 .. L : n.items[l] \in PlainItem /\ n.items[l].key \in Int
       /\ Range(n.items) = {n.items[l] : l \in 1 .. L}
       /\ \A l, j \in 1 .. L : l < j => n.items[l].key < n.items[j].key
  <2>1. Sorted(n.items) /\ n.items \in Seq(PlainItem)
      BY <1>1, <1>2, <1>3
  <2> HIDE DEF n
  <2>2. DOMAIN n.items = 1 .. L /\ Range(n.items) = {n.items[l] : l \in 1 .. L} /\ \A l \in 1 .. L : n.items[l] \in PlainItem
      BY <2>1, RangeIs
  <2> QED BY <1>7, <2>1, <2>2 DEF Sorted
<1>11. DOMAIN n1.items = 1 .. L /\ Range(n1.items) = {n1.items[l] : l \in 1 .. L}
    BY <1>8, RangeIs
<1>12. /\ DOMAIN m1 = DOMAIN m /\ m1 = [q \in DOMAIN m1 |-> m1[q]]
       /\ m1[root] = n1 /\ m1[c] = c1 /\ \A q \in DOMAIN m : q # root /\ q # c => m1[q] = m[q]
    BY <1>0, <1>2, <1>5, Zenon DEF Placed
<1>13. n1 \in Node(DOMAIN m)
    BY <1>1, <1>8 DEF Node
<1>14. ~IsLeaf(n) /\ n.items[i].key = k
    BY <1>0, Zenon
<1>15. \A p \in DOMAIN m : p # root => IsLeaf(m1[p]) /\ Range(m1[p].items) \subseteq Range(m[p].items)
    BY <1>2, <1>5, <1>6, <1>12 DEF IsLeaf, Without
<1> HIDE DEF n, L, K
\* The new item is between its neighbours.
<1>16. \A l \in 1 .. L : IF l < i THEN n.items[l].key < x.key ELSE x.key < n.items[l].key
    BY <1>9 DEF Between, L
<1>17. Sorted(n1.items)
  <2> SUFFICES ASSUME NEW a \in 1 .. L, NEW b \in 1 .. L, a < b PROVE n1.items[a].key < n1.items[b].key
      BY <1>11 DEF Sorted
  <2>1. CASE a # i /\ b # i
      BY <1>8, <1>10, <2>1
  <2>2. CASE a = i
    <3>1. ~(b < i) /\ b # i
        BY <1>4, <2>2
    <3> QED BY <1>8, <1>16, <2>2, <3>1
  <2>3. CASE b = i
    <3>1. a < i /\ a # i
        BY <1>4, <2>3
    <3> QED BY <1>8, <1>16, <2>3, <3>1
  <2> QED BY <2>1, <2>2, <2>3
<1>18. ASSUME NEW l \in 1 .. K, NEW y \in Range(m1[n.kids[l]].items)
       PROVE  Between(n1, l, y)
  <2>1. n.kids[l] \in DOMAIN m /\ n.kids[l] # root /\ y \in Range(m[n.kids[l]].items)
      BY <1>1, <1>15, <1>18
  <2>2. Between(n, l, y) /\ y \in PlainItem
      BY <1>2, <1>3, <2>1, RangeIs
  <2>3. \A j \in 1 .. L : IF j < l THEN n.items[j].key < y.key ELSE y.key < n.items[j].key
      BY <2>2 DEF Between, L
  <2>4. y.key \in Int /\ x.key \in Int /\ l \in 1 .. L + 1
      BY <1>1, <1>7, <2>2
  <2> SUFFICES ASSUME NEW j \in 1 .. L
               PROVE  IF j < l THEN n1.items[j].key < y.key ELSE y.key < n1.items[j].key
      BY <1>8 DEF Between
  <2>5. CASE j # i
      BY <1>8, <2>3, <2>5
  <2>6. CASE j = i
    <3>1. n1.items[j] = x
        BY <1>8, <2>6
    <3>2. CASE l < i
      <4>1. l \in 1 .. L /\ ~(l < l)
          BY <1>4, <2>4, <3>2
      <4>2. y.key < n.items[l].key /\ n.items[l].key < x.key /\ n.items[l].key \in Int
          BY <1>10, <1>16, <2>3, <3>2, <4>1
      <4> QED BY <1>4, <2>4, <2>6, <3>1, <3>2, <4>1, <4>2
    <3>3. CASE l = i
      <4>1. n.kids[l] = c /\ m1[c] = c1
          BY <1>0, <1>12, <3>3, Zenon DEF n
      <4>2. y.key < x.key
          BY <1>6, <1>18, <4>1
      <4> QED BY <1>4, <2>6, <3>1, <3>3, <4>2
    <3>4. CASE l > i
      <4>1. x.key < n.items[i].key /\ n.items[i].key < y.key /\ n.items[i].key \in Int
          BY <1>4, <1>10, <1>16, <2>3, <3>4
      <4> QED BY <1>4, <2>4, <2>6, <3>1, <3>4, <4>1
    <3> QED BY <1>4, <2>4, <3>2, <3>3, <3>4
  <2> QED BY <2>5, <2>6
<1>19. n1.kids # <<>> /\ n1.items # <<>>
    BY <1>4, <1>8, <1>14 DEF IsLeaf
<1>20. Shaped(m1, root)
  <2>1. Fanned(m1, root)
    <3>1. m1[root].kids = n.kids /\ Len(n.kids) = K /\ Len(m1[root].items) = L
        BY <1>8, <1>12 DEF K
    <3> QED BY <1>1, <1>12, <3>1 DEF Fanned
  <2>2. /\ \A q \in DOMAIN m1 : m1[q] \in Node(DOMAIN m1)
        /\ root \in DOMAIN m1 /\ \A q \in DOMAIN m1 : q # root => IsLeaf(m1[q])
      BY <1>2, <1>6, <1>12, <1>13, <1>15
  <2>3. m1 = [q \in DOMAIN m1 |-> m1[q]] /\ ~IsLeaf(m1[root])
      BY <1>12, <1>19 DEF IsLeaf
  <2> QED BY ONLY <2>1, <2>2, <2>3, ShapedIf
<1>21. Ordered(m1, root)
  <2>1. \A p \in DOMAIN m1 : Sorted(m1[p].items)
      BY <1>3, <1>6, <1>12, <1>17
  <2>2. root \in DOMAIN m1 /\ m1[root].items \in Seq(PlainItem) /\ m1[root].kids \in Seq(DOMAIN m1)
      BY <1>1, <1>2, <1>8, <1>12
  <2>3. m1[root].kids = n.kids /\ Len(m1[root].kids) = K
      BY <1>8, <1>12 DEF K
  <2>4. \A l \in 1 .. Len(m1[root].kids) : \A y \in Range(m1[m1[root].kids[l]].items) : Between(m1[root], l, y)
      BY <1>12, <1>18, <2>3
  <2> QED BY ONLY <2>1, <2>2, <2>4, OrderedIs
<1>22. Target(m, root, k) = root
  <2>1. \A l \in 1 .. Len(m[root].items) : m[root].items[l].key = k => Holds(m[root], k)
      BY <1>0, <1>1, <1>2, <1>3, SlotOfHeld, Zenon DEF n
  <2>2. Holds(m[root], k)
      BY <1>0, <2>1, Zenon
  <2> QED BY <2>2 DEF Target
<1>23. \A q \in DOMAIN m : q # root => \A y \in Range(m[q].items) : y.key # k
    BY <1>0, <1>22, KeyElsewhere, Zenon
<1>24. Range(n1.items) = Without(Range(n.items), k) \cup {x}
  <2>1. \A l \in 1 .. L : l # i => n.items[l].key # k
    <3> SUFFICES ASSUME NEW l \in 1 .. L, l # i PROVE n.items[l].key # n.items[i].key
        BY <1>14
    <3>1. l < i \/ i < l
        BY <1>4
    <3> QED BY <1>4, <1>10, <3>1
  <2>2. \A l \in 1 .. L : n1.items[l] \in Without(Range(n.items), k) \cup {x}
      BY <1>8, <1>10, <2>1 DEF Without
  <2>3. x \in Range(n1.items)
      BY <1>4, <1>8, <1>11
  <2>4. \A l \in 1 .. L : l # i => n.items[l] \in Range(n1.items)
      BY <1>8, <1>11
  <2>5. Without(Range(n.items), k) \subseteq Range(n1.items)
      BY <1>10, <1>14, <2>4 DEF Without
  <2> QED BY <1>11, <2>2, <2>3, <2>5
<1>25. AllItems(m1) = Without(AllItems(m), k)
  <2>1. \A y : y \in AllItems(m1) <=> \E p \in DOMAIN m : y \in Range(m1[p].items)
      BY <1>12 DEF AllItems
  <2>2. \A y : y \in AllItems(m) <=> \E p \in DOMAIN m : y \in Range(m[p].items)
      BY DEF AllItems
  <2>3. ASSUME NEW y, NEW p \in DOMAIN m, y \in Range(m1[p].items)
        PROVE  y.key # k /\ \E o \in DOMAIN m : y \in Range(m[o].items)
    <3>1. CASE p # root
        BY <1>15, <1>23, <2>3, <3>1
    <3>2. CASE p = root
      <4>1. y = x \/ (y \in Range(n.items) /\ y.key # k)
          BY <1>12, <1>24, <2>3, <3>2 DEF Without
      <4> QED BY <1>2, <1>5, <1>6, <1>23, <4>1 DEF n
    <3> QED BY <3>1, <3>2
  <2>4. ASSUME NEW y, NEW p \in DOMAIN m, y \in Range(m[p].items), y.key # k
        PROVE  \E o \in DOMAIN m : y \in Range(m1[o].items)
    <3>1. CASE p = root
        BY <1>2, <1>12, <1>24, <2>4, <3>1 DEF Without, n
    <3>2. CASE p = c
      <4>1. CASE y = x
          BY <1>2, <1>12, <1>24, <4>1
      <4>2. CASE y # x
          BY <1>5, <1>6, <1>12, <2>4, <3>2, <4>2 DEF Without
      <4> QED BY <4>1, <4>2
    <3>3. CASE p # root /\ p # c
        BY <1>12, <2>4, <3>3
    <3> QED BY <3>1, <3>2, <3>3
  <2>5. \A y : y \in AllItems(m1) <=> y \in AllItems(m) /\ y.key # k
      BY <2>1, <2>2, <2>3, <2>4
  <2> QED BY <2>5 DEF Without
<1>26. ~IsLeaf(m1[root]) /\ m1[root].items # <<>>
    BY <1>12, <1>19 DEF IsLeaf
<1> QED BY <1>2, <1>5, <1>12, <1>20, <1>21, <1>25, <1>26 DEF Tree, ItemIsReplaced

-----------------------------------------------------------------------------
(***************************************************************************)
(* What the operators of BTree compute on a tree of two levels.            *)
(***************************************************************************)
IsTx(s) ==
    s = [file |-> s.file, dirtyNodes |-> s.dirtyNodes, pagesToDelete |-> s.pagesToDelete,
         allocatedPages |-> s.allocatedPages, fl |-> s.fl, metaRoot |-> s.metaRoot]

\* Tx::getNode reads what the transaction wrote, or the file.
LEMMA NodesAre ==
    ASSUME NEW s
    PROVE  DOMAIN Nodes(s) = AllPages(s) /\ \A p \in AllPages(s) : Get(s, p) = Nodes(s)[p]
BY DEF Nodes, Overlaid, AllPages, Get

\* The transaction t has taken and given back the pages that s has.
Unallocated(s, t) ==
    /\ t.pagesToDelete = s.pagesToDelete /\ t.allocatedPages = s.allocatedPages
    /\ t.fl = s.fl /\ t.metaRoot = s.metaRoot

\* Tx::writeNode changes one node and nothing about pages but that this one is dirty.
LEMMA WriteIs ==
    ASSUME NEW s, NEW p, NEW n, NEW t, IsTx(s), t = Write(s, p, n)
    PROVE  /\ IsTx(t) /\ t.file = s.file /\ Unallocated(s, t)
           /\ DOMAIN t.dirtyNodes = DOMAIN s.dirtyNodes \cup {p}
           /\ AllPages(t) = AllPages(s) \cup {p}
           /\ Nodes(t) = Placed(Nodes(s), p, n)
<1>1. /\ IsTx(t) /\ t.file = s.file /\ Unallocated(s, t)
      /\ t.dirtyNodes = Placed(s.dirtyNodes, p, n)
    BY DEF Write, IsTx, Unallocated
<1>2. DOMAIN t.dirtyNodes = DOMAIN s.dirtyNodes \cup {p}
    BY <1>1 DEF Placed
<1>3. Nodes(t) = Placed(Nodes(s), p, n)
  <2> DEFINE f == s.file
             d == s.dirtyNodes
             e == t.dirtyNodes
  <2>1. e = Placed(d, p, n) /\ Nodes(t) = Overlaid(f, e) /\ Nodes(s) = Overlaid(f, d)
      BY <1>1 DEF Nodes
  <2> HIDE DEF f, d, e
  <2>2. Overlaid(f, Placed(d, p, n)) = Placed(Overlaid(f, d), p, n)
      BY DEF Overlaid, Placed
  <2> QED BY <2>1, <2>2
<1> QED BY <1>1, <1>2, <1>3 DEF AllPages

\* ... of a new node.
LEMMA WriteNewIs ==
    ASSUME NEW s, NEW n, NEW t, IsTx(s), t = WriteNew(s, n)
    PROVE  /\ IsTx(t) /\ t.file = s.file
           /\ t.pagesToDelete = s.pagesToDelete /\ t.metaRoot = s.metaRoot
           /\ t.allocatedPages = Append(s.allocatedPages, NextPage(s.fl)) /\ t.fl = AfterNextPage(s.fl)
           /\ DOMAIN t.dirtyNodes = DOMAIN s.dirtyNodes \cup {NextPage(s.fl)}
           /\ AllPages(t) = AllPages(s) \cup {NextPage(s.fl)}
           /\ Nodes(t) = Placed(Nodes(s), NextPage(s.fl), n)
<1> DEFINE p == NextPage(s.fl)
<1>1. /\ IsTx(t) /\ t.file = s.file
      /\ t.pagesToDelete = s.pagesToDelete /\ t.metaRoot = s.metaRoot
      /\ t.allocatedPages = Append(s.allocatedPages, p) /\ t.fl = AfterNextPage(s.fl)
      /\ t.dirtyNodes = Placed(s.dirtyNodes, p, n)
    BY DEF WriteNew, IsTx
<1>2. DOMAIN t.dirtyNodes = DOMAIN s.dirtyNodes \cup {p}
    BY <1>1 DEF Placed
<1>3. Nodes(t) = Placed(Nodes(s), p, n)
  <2> DEFINE f == s.file
             d == s.dirtyNodes
             e == t.dirtyNodes
  <2>1. e = Placed(d, p, n) /\ Nodes(t) = Overlaid(f, e) /\ Nodes(s) = Overlaid(f, d)
      BY <1>1 DEF Nodes
  <2> HIDE DEF f, d, e, p
  <2>2. Overlaid(f, Placed(d, p, n)) = Placed(Overlaid(f, d), p, n)
      BY DEF Overlaid, Placed
  <2> QED BY <2>1, <2>2
<1> QED BY <1>1, <1>2, <1>3 DEF AllPages

\* Two elements, one after the other.
LEMMA PairIs ==
    ASSUME NEW v, NEW u
    PROVE  <<v>> \o <<u>> = <<v, u>>
<1> DEFINE a == <<v>>
           b == <<u>>
           c == <<v, u>>
           S == {v, u}
<1>1. a \in Seq(S) /\ b \in Seq(S) /\ c \in Seq(S) /\ Len(a) = 1 /\ Len(b) = 1 /\ Len(c) = 2
      /\ a[1] = v /\ b[1] = u /\ c[1] = v /\ c[2] = u
    OBVIOUS
<1> HIDE DEF a, b, c, S
<1>2. /\ a \o b \in Seq(S) /\ Len(a \o b) = 2
      /\ \A i \in 1 .. 2 : (a \o b)[i] = IF i <= 1 THEN a[i] ELSE b[i - 1]
    BY <1>1, ConcatProperties
<1>3. \A i \in 1 .. 2 : (a \o b)[i] = c[i]
  <2>1. \A i \in 1 .. 2 : i = 1 \/ (i = 2 /\ i - 1 = 1 /\ ~(i <= 1))
      OBVIOUS
  <2> QED BY <1>1, <1>2, <2>1
<1>4. a \o b = c
    BY <1>1, <1>2, <1>3, SeqEqual
<1> QED BY <1>4 DEF a, b, c

\* Node::findKey turns once or not at all.
Visit(m, p, k) == [page |-> p, at |-> Slot(m[p], k)]

\* So the path to a key is the root, or the root and a leaf of it.
LEMMA PathIs ==
    ASSUME NEW s, NEW m, NEW root, NEW k, m = Nodes(s), Shaped(m, root), Ordered(m, root), k \in Key
    PROVE  Path(s, root, k) =
               IF Target(m, root, k) = root THEN <<Visit(m, root, k)>>
               ELSE <<Visit(m, root, k), Visit(m, Target(m, root, k), k)>>
<1> DEFINE A == AllPages(s)
           stop(p) == Holds(Get(s, p), k) \/ IsLeaf(Get(s, p))
           here(p) == <<[page |-> p, at |-> Slot(Get(s, p), k)]>>
           next(p) == Get(s, p).kids[Slot(Get(s, p), k)]
           def(g, p) == IF stop(p) THEN here(p) ELSE here(p) \o g[next(p)]
           w == [p \in A |-> IF stop(p) THEN here(p) ELSE here(p) \o here(next(p))]
<1>1. DOMAIN m = A /\ (\A p \in A : Get(s, p) = m[p]) /\ root \in A
    BY NodesAre, ShapedIs
<1>2. \A p \in A : p # root => IsLeaf(m[p])
    BY <1>1, ShapedIs
<1>3. /\ Target(m, root, k) \in A
      /\ ~stop(root) => Target(m, root, k) = next(root) /\ Target(m, root, k) # root
      /\ stop(root) => Target(m, root, k) = root
  <2>1. Target(m, root, k) \in A
      BY <1>1, TargetIs
  <2>2. stop(root) => Target(m, root, k) = root
      BY <1>1 DEF Target
  <2>3. ASSUME ~stop(root) PROVE Target(m, root, k) = next(root) /\ Target(m, root, k) # root
    <3>1. ~Holds(m[root], k) /\ ~IsLeaf(m[root])
        BY <1>1, <2>3
    <3>2. Target(m, root, k) # root
        BY <3>1, TargetIs
    <3> QED BY <1>1, <3>1, <3>2 DEF Target
  <2> QED BY <2>1, <2>2, <2>3
<1>4. ASSUME NEW p \in A, ~stop(p) PROVE p = root /\ next(p) \in A /\ stop(next(p))
    BY <1>1, <1>2, <1>3, <1>4
<1>5. \E g : g = [p \in A |-> def(g, p)]
  <2>1. \A p \in A : ~stop(p) => w[next(p)] = here(next(p))
      BY <1>4
  <2> HIDE DEF stop, here, next
  <2>2. w = [p \in A |-> def(w, p)]
      BY <2>1
  <2> QED BY <2>2
<1> DEFINE F == CHOOSE g : g = [p \in A |-> def(g, p)]
<1>6. F = [p \in A |-> def(F, p)]
  <2> HIDE DEF def
  <2> QED BY <1>5, Zenon
<1>7. Path(s, root, k) = F[root]
    BY Zenon DEF Path
<1> HIDE DEF F
<1>8. F[root] = IF stop(root) THEN here(root) ELSE here(root) \o here(next(root))
  <2>1. \A p \in A : F[p] = def(F, p)
      BY <1>6
  <2> HIDE DEF A, stop, here, next
  <2> QED BY <1>1, <1>4, <2>1
<1>9. here(root) = <<Visit(m, root, k)>> /\ (~stop(root) => here(next(root)) = <<Visit(m, Target(m, root, k), k)>>)
    BY <1>1, <1>3, <1>4 DEF Visit
<1> DEFINE v == Visit(m, root, k)
           u == Visit(m, Target(m, root, k), k)
<1> HIDE DEF stop, here, next, v, u
<1>10. <<v>> \o <<u>> = <<v, u>>
    BY PairIs
<1> QED BY <1>3, <1>7, <1>8, <1>9, <1>10 DEF v, u

\* Container::_get finds the item with the key.
LEMMA LookupIs ==
    ASSUME NEW s, NEW m, NEW root, NEW k, m = Nodes(s), Shaped(m, root), Ordered(m, root), k \in Key
    PROVE  /\ Lookup(s, root, k) = {y \in AllItems(m) : y.key = k}
           /\ Last(Path(s, root, k)) = Visit(m, Target(m, root, k), k)
<1> DEFINE p == Target(m, root, k)
           n == Get(s, p)
<1>1. Last(Path(s, root, k)) = Visit(m, p, k)
  <2> DEFINE v == Visit(m, root, k)
             u == Visit(m, p, k)
  <2>1. Path(s, root, k) = IF p = root THEN <<v>> ELSE <<v, u>>
      BY PathIs
  <2> HIDE DEF v, u, p
  <2>2. Last(<<v>>) = v /\ Last(<<v, u>>) = u
      BY DEF Last
  <2> QED BY <2>1, <2>2 DEF u, v
<1>2. p \in DOMAIN m /\ n = m[p]
    BY NodesAre, TargetIs
<1>3. Last(Path(s, root, k)).page = p
    BY <1>1 DEF Visit
<1>4. Lookup(s, root, k) = {n.items[i] : i \in {j \in DOMAIN n.items : n.items[j].key = k}}
    BY <1>3 DEF Lookup
<1> HIDE DEF p
<1>5. Lookup(s, root, k) = {y \in Range(m[p].items) : y.key = k}
    BY <1>2, <1>4 DEF Range
<1>6. \A q \in DOMAIN m : q # p => \A y \in Range(m[q].items) : y.key # k
    BY KeyElsewhere DEF p
<1>7. \A y : y.key = k => (y \in AllItems(m) <=> y \in Range(m[p].items))
    BY <1>2, <1>6 DEF AllItems
<1> QED BY <1>1, <1>5, <1>7 DEF p

\* What every walk over the tree meets: the root, and leaves as its children.
LEMMA WalkIs ==
    ASSUME NEW s, NEW m, NEW root, m = Nodes(s), Shaped(m, root)
    PROVE  /\ DOMAIN m = AllPages(s) /\ (\A p \in AllPages(s) : Get(s, p) = m[p]) /\ root \in AllPages(s)
           /\ \A p \in AllPages(s) : m[p].kids # <<>> =>
                  /\ p = root /\ Len(m[p].kids) \in Nat /\ Len(m[p].kids) # 0
                  /\ DOMAIN m[p].kids = 1 .. Len(m[p].kids) /\ m[p].kids \in Seq(AllPages(s))
                  /\ \A i \in DOMAIN m[p].kids : m[p].kids[i] \in AllPages(s) /\ m[m[p].kids[i]].kids = <<>>
<1>1. DOMAIN m = AllPages(s) /\ (\A p \in AllPages(s) : Get(s, p) = m[p]) /\ root \in AllPages(s)
    BY NodesAre, ShapedIs
<1>2. ASSUME NEW p \in AllPages(s), m[p].kids # <<>>
      PROVE  /\ p = root /\ Len(m[p].kids) \in Nat /\ Len(m[p].kids) # 0
             /\ DOMAIN m[p].kids = 1 .. Len(m[p].kids) /\ m[p].kids \in Seq(AllPages(s))
             /\ \A i \in DOMAIN m[p].kids : m[p].kids[i] \in AllPages(s) /\ m[m[p].kids[i]].kids = <<>>
  <2>1. p = root
    <3>1. p # root => IsLeaf(m[p])
        BY <1>1, ShapedIs
    <3> QED BY <1>2, <3>1 DEF IsLeaf
  <2>2. ~IsLeaf(m[root])
      BY <1>2, <2>1 DEF IsLeaf
  <2>3. /\ m[root].kids \in Seq(DOMAIN m)
        /\ \A i \in 1 .. Len(m[root].kids) : m[root].kids[i] \in DOMAIN m /\ IsLeaf(m[m[root].kids[i]])
      BY <2>2, KidsIs
  <2>4. Len(m[root].kids) \in Nat /\ Len(m[root].kids) # 0 /\ DOMAIN m[root].kids = 1 .. Len(m[root].kids)
      BY <1>2, <2>1, <2>3, LenProperties, EmptySeq
  <2> QED BY <1>1, <2>1, <2>3, <2>4 DEF IsLeaf
<1> QED BY <1>1, <1>2

\* Node::getPredecessor stops in the leaf it starts from.
LEMMA PredecessorIs ==
    ASSUME NEW s, NEW m, NEW root, NEW c, m = Nodes(s), Shaped(m, root), c \in AllPages(s), IsLeaf(m[c])
    PROVE  PredecessorPath(s, c) = <<[page |-> c, at |-> 0]>>
<1> DEFINE A == AllPages(s)
           stop(q) == Get(s, q).kids = <<>>
           here(q) == <<[page |-> q, at |-> Len(Get(s, q).kids)]>>
           next(q) == Last(Get(s, q).kids)
           def(g, q) == IF stop(q) THEN here(q) ELSE here(q) \o g[next(q)]
           w == [q \in A |-> IF stop(q) THEN here(q) ELSE here(q) \o here(next(q))]
<1>1. ASSUME NEW q \in A, ~stop(q) PROVE next(q) \in A /\ stop(next(q))
  <2>1. Get(s, q) = m[q] /\ m[q].kids # <<>>
      BY <1>1, WalkIs
  <2>2. /\ Len(m[q].kids) \in Nat /\ Len(m[q].kids) # 0
        /\ DOMAIN m[q].kids = 1 .. Len(m[q].kids)
        /\ \A i \in DOMAIN m[q].kids : m[q].kids[i] \in AllPages(s) /\ m[m[q].kids[i]].kids = <<>>
      BY <2>1, WalkIs
  <2>3. next(q) \in A /\ m[next(q)].kids = <<>>
      BY <2>1, <2>2 DEF Last
  <2> QED BY <2>3, WalkIs
<1>2. \E g : g = [q \in A |-> def(g, q)]
  <2>1. \A q \in A : ~stop(q) => w[next(q)] = here(next(q))
      BY <1>1
  <2> HIDE DEF stop, here, next
  <2>2. w = [q \in A |-> def(w, q)]
      BY <2>1
  <2> QED BY <2>2
<1> DEFINE F == CHOOSE g : g = [q \in A |-> def(g, q)]
<1>3. F = [q \in A |-> def(F, q)]
  <2> HIDE DEF def
  <2> QED BY <1>2, Zenon
<1>4. PredecessorPath(s, c) = F[c]
    BY Zenon DEF PredecessorPath
<1> HIDE DEF F
<1>5. stop(c) /\ Len(Get(s, c).kids) = 0
    BY WalkIs DEF IsLeaf
<1> QED BY <1>3, <1>4, <1>5

\* The pages of the tree: the root and its children.
LEMMA PagesBelowIs ==
    ASSUME NEW s, NEW m, NEW root, m = Nodes(s), Shaped(m, root)
    PROVE  PagesBelow(s, root) = <<root>> \o m[root].kids
<1> DEFINE A == AllPages(s)
           parts(g, q) == [i \in DOMAIN Get(s, q).kids |-> g[Get(s, q).kids[i]]]
           def(g, q) == <<q>> \o FlattenSeq(parts(g, q))
           w == [q \in A |-> <<q>> \o m[q].kids]
<1>1. \A q \in A : <<q>> \in Seq(A) /\ <<q>> \o <<>> = <<q>>
    BY ConcatEmptySeq
<1>2. ASSUME NEW g, NEW q \in A, \A i \in DOMAIN m[q].kids : g[m[q].kids[i]] = <<m[q].kids[i]>>
      PROVE  def(g, q) = <<q>> \o m[q].kids
  <2>1. Get(s, q) = m[q]
      BY WalkIs
  <2>2. parts(g, q) = [i \in DOMAIN m[q].kids |-> <<m[q].kids[i]>>]
      BY <1>2, <2>1
  <2>3. FlattenSeq([i \in DOMAIN m[q].kids |-> <<m[q].kids[i]>>]) = m[q].kids
    <3>1. m[q].kids \in Seq(A)
      <4>1. m[q].kids = <<>> \/ m[q].kids \in Seq(A)
          BY WalkIs
      <4>2. <<>> \in Seq(A)
          BY EmptySeq
      <4> QED BY <4>1, <4>2
    <3> QED BY <3>1, FlattenOnes
  <2> QED BY <2>2, <2>3
<1>3. \A q \in A : \A i \in DOMAIN m[q].kids : w[m[q].kids[i]] = <<m[q].kids[i]>>
  <2> SUFFICES ASSUME NEW q \in A, NEW i \in DOMAIN m[q].kids PROVE w[m[q].kids[i]] = <<m[q].kids[i]>>
      OBVIOUS
  <2>1. m[q].kids # <<>>
      OBVIOUS
  <2>2. m[q].kids[i] \in A /\ m[m[q].kids[i]].kids = <<>>
      BY <2>1, WalkIs
  <2> QED BY <1>1, <2>2
<1>4. \E g : g = [q \in A |-> def(g, q)]
  <2>1. \A q \in A : def(w, q) = <<q>> \o m[q].kids
    <3> HIDE DEF def, w
    <3> QED BY <1>2, <1>3
  <2> HIDE DEF def
  <2>2. w = [q \in A |-> def(w, q)]
      BY <2>1
  <2> QED BY <2>2
<1> DEFINE F == CHOOSE g : g = [q \in A |-> def(g, q)]
<1>5. F = [q \in A |-> def(F, q)]
  <2> HIDE DEF def
  <2> QED BY <1>4, Zenon
<1>6. PagesBelow(s, root) = F[root]
    BY Zenon DEF PagesBelow
<1> HIDE DEF F
<1>7. ASSUME NEW q \in A, m[q].kids = <<>> PROVE F[q] = <<q>>
  <2>1. def(F, q) = <<q>> \o m[q].kids
    <3>1. \A i \in DOMAIN m[q].kids : F[m[q].kids[i]] = <<m[q].kids[i]>>
        BY <1>7
    <3> HIDE DEF def
    <3> QED BY <1>2, <3>1
  <2> HIDE DEF def
  <2>2. F[q] = def(F, q)
      BY <1>5
  <2> QED BY <1>1, <1>7, <2>1, <2>2
<1>8. \A i \in DOMAIN m[root].kids : F[m[root].kids[i]] = <<m[root].kids[i]>>
  <2> SUFFICES ASSUME NEW i \in DOMAIN m[root].kids PROVE F[m[root].kids[i]] = <<m[root].kids[i]>>
      OBVIOUS
  <2>1. m[root].kids # <<>> /\ root \in A
      BY WalkIs
  <2>2. m[root].kids[i] \in A /\ m[m[root].kids[i]].kids = <<>>
      BY <2>1, WalkIs
  <2> QED BY <1>7, <2>2
<1>9. root \in A
    BY WalkIs
<1> HIDE DEF def
<1>10. F[root] = def(F, root)
    BY <1>5, <1>9
<1> QED BY <1>2, <1>6, <1>8, <1>9, <1>10

\* The items of the tree, in no order ...
LEMMA ItemSetIs ==
    ASSUME NEW s, NEW m, NEW root, m = Nodes(s), Shaped(m, root)
    PROVE  ItemSet(s, root) = AllItems(m)
<1> DEFINE A == AllPages(s)
           def(g, q) == Range(Get(s, q).items) \cup UNION {g[c] : c \in Range(Get(s, q).kids)}
           w == [q \in A |-> IF m[q].kids = <<>> THEN Range(m[q].items) ELSE AllItems(m)]
<1>1. /\ DOMAIN m = A /\ (\A q \in A : Get(s, q) = m[q]) /\ root \in A
      /\ \A q \in A : m[q].kids # <<>> =>
             q = root /\ \A i \in DOMAIN m[q].kids : m[q].kids[i] \in A /\ m[m[q].kids[i]].kids = <<>>
  <2>1. DOMAIN m = A /\ (\A q \in A : Get(s, q) = m[q]) /\ root \in A
      BY WalkIs
  <2>2. ASSUME NEW q \in A, m[q].kids # <<>>
        PROVE  q = root /\ \A i \in DOMAIN m[q].kids : m[q].kids[i] \in A /\ m[m[q].kids[i]].kids = <<>>
      BY <2>2, WalkIs
  <2> QED BY <2>1, <2>2
<1>2. ASSUME NEW g, NEW q \in A, m[q].kids = <<>> PROVE def(g, q) = Range(m[q].items)
  <2>1. Range(Get(s, q).kids) = {}
      BY <1>1, <1>2 DEF Range
  <2> QED BY <1>1, <2>1
<1>3. ASSUME NEW g, m[root].kids # <<>>,
             \A q \in A : m[q].kids = <<>> => g[q] = Range(m[q].items)
      PROVE  def(g, root) = AllItems(m)
  <2>1. /\ Range(m[root].kids) = A \ {root}
        /\ \A c \in A : c # root => m[c].kids = <<>>
    <3>1. ~IsLeaf(m[root])
        BY <1>3 DEF IsLeaf
    <3>2. Range(m[root].kids) = A \ {root}
        BY <1>1, <3>1 DEF Shaped
    <3> QED BY <1>1, <3>2
  <2>2. \A c \in Range(m[root].kids) : g[c] = Range(m[c].items)
      BY <1>3, <2>1
  <2>3. \A y : y \in def(g, root) <=> y \in Range(m[root].items) \/ \E c \in A \ {root} : y \in Range(m[c].items)
      BY <1>1, <2>1, <2>2
  <2> HIDE DEF def
  <2> QED BY <1>1, <2>3 DEF AllItems
<1>4. \E g : g = [q \in A |-> def(g, q)]
  <2>1. \A q \in A : m[q].kids = <<>> => w[q] = Range(m[q].items)
      OBVIOUS
  <2>2. \A q \in A : def(w, q) = IF m[q].kids = <<>> THEN Range(m[q].items) ELSE AllItems(m)
    <3> HIDE DEF def, w
    <3> QED BY <1>1, <1>2, <1>3, <2>1
  <2> HIDE DEF def
  <2>3. w = [q \in A |-> def(w, q)]
      BY <2>2
  <2> QED BY <2>3
<1> DEFINE F == CHOOSE g : g = [q \in A |-> def(g, q)]
<1>5. F = [q \in A |-> def(F, q)]
  <2> HIDE DEF def
  <2> QED BY <1>4, Zenon
<1>6. ItemSet(s, root) = F[root]
    BY Zenon DEF ItemSet
<1> HIDE DEF F, def
<1>7. \A q \in A : F[q] = def(F, q)
    BY <1>5
<1>8. \A q \in A : m[q].kids = <<>> => F[q] = Range(m[q].items)
    BY <1>2, <1>7
<1>9. CASE m[root].kids # <<>>
    BY <1>1, <1>3, <1>6, <1>7, <1>8, <1>9
<1>10. CASE m[root].kids = <<>>
  <2>1. A = {root}
      BY <1>1, <1>10 DEF Shaped, IsLeaf
  <2> QED BY <1>1, <1>6, <1>8, <1>10, <2>1 DEF AllItems
<1> QED BY <1>9, <1>10

\* All leaves are on one level.
LEMMA LeafLevelsAre ==
    ASSUME NEW s, NEW m, NEW root, m = Nodes(s), Shaped(m, root)
    PROVE  LeafLevels(s, root) = {0} \/ LeafLevels(s, root) = {1}
<1> DEFINE A == AllPages(s)
           def(g, q) == IF IsLeaf(Get(s, q)) THEN {0}
                        ELSE {1 + d : d \in UNION {g[c] : c \in Range(Get(s, q).kids)}}
           w == [q \in A |-> IF m[q].kids = <<>> THEN {0} ELSE {1}]
<1>1. /\ (\A q \in A : Get(s, q) = m[q]) /\ root \in A
      /\ \A q \in A : m[q].kids # <<>> =>
             /\ 1 \in DOMAIN m[q].kids
             /\ \A i \in DOMAIN m[q].kids : m[q].kids[i] \in A /\ m[m[q].kids[i]].kids = <<>>
  <2>1. (\A q \in A : Get(s, q) = m[q]) /\ root \in A
      BY WalkIs
  <2>2. ASSUME NEW q \in A, m[q].kids # <<>>
        PROVE  /\ 1 \in DOMAIN m[q].kids
               /\ \A i \in DOMAIN m[q].kids : m[q].kids[i] \in A /\ m[m[q].kids[i]].kids = <<>>
    <3>1. /\ Len(m[q].kids) \in Nat /\ Len(m[q].kids) # 0 /\ DOMAIN m[q].kids = 1 .. Len(m[q].kids)
          /\ \A i \in DOMAIN m[q].kids : m[q].kids[i] \in A /\ m[m[q].kids[i]].kids = <<>>
        BY <2>2, WalkIs
    <3> QED BY <3>1
  <2> QED BY <2>1, <2>2
<1>2. ASSUME NEW g, NEW q \in A, m[q].kids = <<>> PROVE def(g, q) = {0}
    BY <1>1, <1>2 DEF IsLeaf
<1>3. ASSUME NEW g, NEW q \in A, m[q].kids # <<>>, \A p \in A : m[p].kids = <<>> => g[p] = {0}
      PROVE  def(g, q) = {1}
  <2>1. ~IsLeaf(Get(s, q)) /\ Get(s, q) = m[q]
      BY <1>1, <1>3 DEF IsLeaf
  <2>2. \A c \in Range(m[q].kids) : g[c] = {0}
      BY <1>1, <1>3 DEF Range
  <2>3. m[q].kids[1] \in Range(m[q].kids)
      BY <1>1, <1>3 DEF Range
  <2>4. UNION {g[c] : c \in Range(Get(s, q).kids)} = {0}
      BY <2>1, <2>2, <2>3
  <2>5. {1 + d : d \in {0}} = {1}
      OBVIOUS
  <2> QED BY <2>1, <2>4, <2>5
<1>4. \E g : g = [q \in A |-> def(g, q)]
  <2>1. \A q \in A : m[q].kids = <<>> => w[q] = {0}
      OBVIOUS
  <2>2. \A q \in A : def(w, q) = IF m[q].kids = <<>> THEN {0} ELSE {1}
    <3> HIDE DEF def, w
    <3> QED BY <1>2, <1>3, <2>1
  <2> HIDE DEF def
  <2>3. w = [q \in A |-> def(w, q)]
      BY <2>2
  <2> QED BY <2>3
<1> DEFINE F == CHOOSE g : g = [q \in A |-> def(g, q)]
<1>5. F = [q \in A |-> def(F, q)]
  <2> HIDE DEF def
  <2> QED BY <1>4, Zenon
<1>6. LeafLevels(s, root) = F[root]
    BY Zenon DEF LeafLevels
<1> HIDE DEF F, def
<1>7. \A q \in A : F[q] = def(F, q)
    BY <1>5
<1>8. \A q \in A : m[q].kids = <<>> => F[q] = {0}
    BY <1>2, <1>7
<1>9. m[root].kids # <<>> => F[root] = {1}
    BY <1>1, <1>3, <1>7, <1>8
<1> QED BY <1>1, <1>6, <1>8, <1>9

\* The item in the gap after the i-th child, if there is one.
Gap(items, i) == SubSeq(items, i, IF i <= Len(items) THEN i ELSE 0)

\* It is one item or none.
LEMMA GapIs ==
    ASSUME NEW t, NEW i, t \in Seq(PlainItem), i \in 1 .. Len(t) + 1
    PROVE  /\ Gap(t, i) \in Seq(PlainItem) /\ Sorted(Gap(t, i))
           /\ Range(Gap(t, i)) = {t[j] : j \in {l \in 1 .. Len(t) : l = i}}
<1> DEFINE L == Len(t)
           b == IF i <= L THEN i ELSE 0
           u == SubSeq(t, i, b)
<1>1. L \in Nat /\ \A j \in 1 .. L : t[j] \in PlainItem
    BY RangeIs
<1>2. i \in Int /\ b \in Int /\ \A j \in i .. b : t[j] \in PlainItem
    BY <1>1
<1> HIDE DEF L, b
<1>3. /\ u \in Seq(PlainItem) /\ Len(u) = IF i <= b THEN b - i + 1 ELSE 0
      /\ \A j \in 1 .. b - i + 1 : u[j] = t[i + j - 1]
    BY <1>2, SubSeqProperties
<1> HIDE DEF u
<1>4. DOMAIN u = 1 .. Len(u) /\ Range(u) = {u[j] : j \in 1 .. Len(u)}
    BY <1>3, RangeIs
<1>5. CASE i <= L
  <2>1. b = i /\ b - i + 1 = 1 /\ i + 1 - 1 = i /\ 1 .. 1 = {1}
      BY <1>2, <1>5 DEF b
  <2>2. Len(u) = 1 /\ u[1] = t[i]
      BY <1>2, <1>3, <2>1
  <2>3. Range(u) = {t[i]} /\ Sorted(u)
      BY <1>4, <2>1, <2>2 DEF Sorted
  <2>4. {l \in 1 .. L : l = i} = {i}
      BY <1>1, <1>2, <1>5
  <2> QED BY <1>3, <2>3, <2>4 DEF u, b, L, Gap
<1>6. CASE ~(i <= L)
  <2>1. b = 0 /\ ~(i <= b)
      BY <1>1, <1>2, <1>6 DEF b
  <2>2. Len(u) = 0 /\ 1 .. Len(u) = {}
      BY <1>3, <2>1
  <2>3. Range(u) = {} /\ Sorted(u)
      BY <1>4, <2>2 DEF Sorted
  <2>4. {l \in 1 .. L : l = i} = {}
      BY <1>1, <1>2, <1>6
  <2> QED BY <1>3, <2>3, <2>4 DEF u, b, L, Gap
<1> QED BY <1>5, <1>6

\* ... and in order.
LEMMA ItemsBelowAre ==
    ASSUME NEW s, NEW m, NEW root, m = Nodes(s), Shaped(m, root), Ordered(m, root)
    PROVE  /\ ItemsBelow(s, root) \in Seq(PlainItem) /\ Sorted(ItemsBelow(s, root))
           /\ Range(ItemsBelow(s, root)) = AllItems(m)
<1> DEFINE A == AllPages(s)
           n == m[root]
           parts(g, q) == [i \in DOMAIN Get(s, q).kids |->
               g[Get(s, q).kids[i]] \o SubSeq(Get(s, q).items, i,
                                              IF i <= Len(Get(s, q).items) THEN i ELSE 0)]
           def(g, q) == IF IsLeaf(Get(s, q)) THEN Get(s, q).items ELSE FlattenSeq(parts(g, q))
           part(i) == m[n.kids[i]].items \o Gap(n.items, i)
           ss == [i \in DOMAIN n.kids |-> part(i)]
           w == [q \in A |-> IF m[q].kids = <<>> THEN m[q].items ELSE FlattenSeq(ss)]
<1>1. /\ DOMAIN m = A /\ (\A q \in A : Get(s, q) = m[q]) /\ root \in A
      /\ \A q \in A : m[q].kids # <<>> =>
             q = root /\ \A i \in DOMAIN m[q].kids : m[q].kids[i] \in A /\ m[m[q].kids[i]].kids = <<>>
  <2>1. DOMAIN m = A /\ (\A q \in A : Get(s, q) = m[q]) /\ root \in A
      BY WalkIs
  <2>2. ASSUME NEW q \in A, m[q].kids # <<>>
        PROVE  q = root /\ \A i \in DOMAIN m[q].kids : m[q].kids[i] \in A /\ m[m[q].kids[i]].kids = <<>>
      BY <2>2, WalkIs
  <2> QED BY <2>1, <2>2
<1>2. ASSUME NEW g, NEW q \in A, m[q].kids = <<>> PROVE def(g, q) = m[q].items
    BY <1>1, <1>2 DEF IsLeaf
<1>3. ASSUME NEW g, m[root].kids # <<>>, \A q \in A : m[q].kids = <<>> => g[q] = m[q].items
      PROVE  def(g, root) = FlattenSeq(ss)
  <2>1. \A i \in DOMAIN n.kids : g[n.kids[i]] = m[n.kids[i]].items
      BY <1>1, <1>3
  <2>2. parts(g, root) = [i \in DOMAIN n.kids |-> g[n.kids[i]] \o Gap(n.items, i)]
      BY <1>1 DEF Gap
  <2>3. [i \in DOMAIN n.kids |-> g[n.kids[i]] \o Gap(n.items, i)] = ss
      BY <2>1
  <2>4. ~IsLeaf(Get(s, root))
      BY <1>1, <1>3 DEF IsLeaf
  <2> HIDE DEF parts, ss
  <2> QED BY <2>2, <2>3, <2>4
<1>4. \E g : g = [q \in A |-> def(g, q)]
  <2>1. \A q \in A : m[q].kids = <<>> => w[q] = m[q].items
      OBVIOUS
  <2>2. \A q \in A : def(w, q) = IF m[q].kids = <<>> THEN m[q].items ELSE FlattenSeq(ss)
    <3> HIDE DEF def, w, ss
    <3> QED BY <1>1, <1>2, <1>3, <2>1
  <2> HIDE DEF def, ss
  <2>3. w = [q \in A |-> def(w, q)]
      BY <2>2
  <2> QED BY <2>3
<1> DEFINE F == CHOOSE g : g = [q \in A |-> def(g, q)]
<1>5. F = [q \in A |-> def(F, q)]
  <2> HIDE DEF def
  <2> QED BY <1>4, Zenon
<1>6. ItemsBelow(s, root) = F[root]
    BY Zenon DEF ItemsBelow
<1> HIDE DEF F, def, ss
<1>7. \A q \in A : F[q] = def(F, q)
    BY <1>5
<1>8. \A q \in A : m[q].kids = <<>> => F[q] = m[q].items
    BY <1>2, <1>7
<1>9. ItemsBelow(s, root) = IF m[root].kids = <<>> THEN m[root].items ELSE FlattenSeq(ss)
    BY <1>1, <1>3, <1>6, <1>7, <1>8
<1>10. \A p \in A : m[p].items \in Seq(PlainItem) /\ Sorted(m[p].items)
    BY <1>1, ShapedIs DEF Ordered
<1>11. CASE m[root].kids = <<>>
  <2>1. A = {root}
      BY <1>1, <1>11 DEF Shaped, IsLeaf
  <2> QED BY <1>1, <1>9, <1>10, <1>11, <2>1 DEF AllItems
<1>12. CASE m[root].kids # <<>>
  <2> DEFINE L == Len(n.items)
             K == Len(n.kids)
             gap(i) == {n.items[j] : j \in {l \in 1 .. L : l = i}}
  <2>0. ~IsLeaf(m[root])
      BY <1>12 DEF IsLeaf
  <2>1. /\ n.items \in Seq(PlainItem) /\ n.kids \in Seq(A) /\ K = L + 1
        /\ \A i \in 1 .. K : n.kids[i] \in A /\ n.kids[i] # root
        /\ \A p \in A : p # root => \E i \in 1 .. K : p = n.kids[i]
      BY <1>1, <2>0, KidsIs
  <2>2. \A i \in 1 .. K : \A y \in Range(m[n.kids[i]].items) : Between(n, i, y)
      BY <1>1, <2>1, OrderedIs
  <2>3. /\ DOMAIN n.kids = 1 .. K /\ L \in Nat /\ \A j \in 1 .. L : n.items[j] \in PlainItem
        /\ Range(n.items) = {n.items[j] : j \in 1 .. L} /\ DOMAIN n.items = 1 .. L
    <3>1. n.items \in Seq(PlainItem) /\ n.kids \in Seq(A)
        BY <2>1
    <3> HIDE DEF n
    <3> QED BY <3>1, RangeIs
  <2>4. \A i, j \in 1 .. L : i < j => n.items[i].key < n.items[j].key
      BY <1>1, <1>10, <2>3 DEF Sorted
  <2> HIDE DEF n
  <2>5. \A i \in 1 .. K : \A y \in Range(m[n.kids[i]].items) : \A j \in 1 .. L :
            IF j < i THEN n.items[j].key < y.key ELSE y.key < n.items[j].key
      BY <2>2 DEF Between
  <2> HIDE DEF L, K
  <2>6. \A y \in PlainItem : y.key \in Int
      BY NodeAssumption DEF PlainItem
  <2>7. ASSUME NEW i \in 1 .. K
        PROVE  /\ part(i) \in Seq(PlainItem) /\ Sorted(part(i))
               /\ Range(part(i)) = Range(m[n.kids[i]].items) \cup gap(i)
    <3> DEFINE a == m[n.kids[i]].items
               b == Gap(n.items, i)
    <3>1. a \in Seq(PlainItem) /\ Sorted(a)
        BY <1>10, <2>1
    <3>2. b \in Seq(PlainItem) /\ Sorted(b) /\ Range(b) = gap(i)
      <4>1. n.items \in Seq(PlainItem) /\ i \in 1 .. Len(n.items) + 1
          BY <2>1 DEF L
      <4> QED BY <4>1, GapIs DEF L
    <3>3. \A x \in Range(a), y \in Range(b) : x.key < y.key
        BY <2>5, <3>2
    <3> HIDE DEF a, b
    <3>4. Sorted(a \o b)
        BY <3>1, <3>2, <3>3, SortedConcat
    <3>5. a \o b \in Seq(PlainItem)
        BY <3>1, <3>2, ConcatProperties
    <3>6. Range(a \o b) = Range(a) \cup Range(b)
        BY <3>1, <3>2, RangeConcatenation
    <3> QED BY <3>2, <3>4, <3>5, <3>6 DEF a, b
  <2> DEFINE has(i) == Range(m[n.kids[i]].items) \cup gap(i)
  <2>8. /\ ss \in Seq(Seq(PlainItem)) /\ Len(ss) = K /\ ss # <<>>
        /\ \A i \in 1 .. K : ss[i] = part(i)
    <3>1. ss = [i \in 1 .. K |-> part(i)] /\ K \in Nat /\ K # 0
        BY <2>1, <2>3 DEF ss, n
    <3>2. \A i \in 1 .. K : part(i) \in Seq(PlainItem)
        BY <2>7
    <3> HIDE DEF part
    <3>3. ss \in [1 .. K -> Seq(PlainItem)] /\ \A i \in 1 .. K : ss[i] = part(i)
        BY <3>1, <3>2
    <3>4. ss \in Seq(Seq(PlainItem)) /\ Len(ss) = K
        BY <3>1, <3>3
    <3> QED BY <3>1, <3>3, <3>4, EmptySeq
  <2> HIDE DEF part
  <2>9. \A i \in 1 .. K : Sorted(ss[i]) /\ Range(ss[i]) = has(i)
      BY <2>7, <2>8
  <2>10. ASSUME NEW i \in 1 .. K, NEW j \in 1 .. K, i < j, NEW x \in has(i), NEW y \in has(j)
         PROVE  x.key < y.key
    <3>1. i \in 1 .. L
        BY <2>1, <2>3, <2>10
    <3>2. x = n.items[i] \/ (x \in Range(m[n.kids[i]].items) /\ x.key < n.items[i].key)
        BY <2>5, <3>1, <2>10
    <3>3. (j \in 1 .. L /\ y = n.items[j]) \/ y \in Range(m[n.kids[j]].items)
        BY <2>10
    <3>4. n.items[i].key < y.key
        BY <2>4, <2>5, <2>10, <3>1, <3>3
    <3>5. n.items[i] \in PlainItem /\ x \in PlainItem /\ y \in PlainItem
        BY <1>10, <2>1, <2>3, <3>1, <3>2, <3>3, RangeIs
    <3> QED BY <2>6, <3>2, <3>4, <3>5
  <2> HIDE DEF has
  <2>11. Sorted(FlattenSeq(ss))
    <3>1. /\ \A i \in 1 .. Len(ss) : Sorted(ss[i])
          /\ \A i, j \in 1 .. Len(ss) : i < j =>
                 \A x \in Range(ss[i]), y \in Range(ss[j]) : x.key < y.key
        BY <2>8, <2>9, <2>10
    <3> QED BY <2>8, <3>1, FlattenSorted
  <2>12. FlattenSeq(ss) \in Seq(PlainItem) /\ Range(FlattenSeq(ss)) = UNION {Range(ss[i]) : i \in 1 .. Len(ss)}
      BY <2>8, FlattenRange
  <2>13. UNION {Range(ss[i]) : i \in 1 .. Len(ss)} = AllItems(m)
    <3>1. \A y : y \in UNION {Range(ss[i]) : i \in 1 .. Len(ss)} <=> \E i \in 1 .. K : y \in has(i)
        BY <2>8, <2>9
    <3>2. ASSUME NEW y, NEW i \in 1 .. K, y \in has(i) PROVE y \in AllItems(m)
      <4>1. (y \in Range(m[n.kids[i]].items) /\ n.kids[i] \in A) \/ y \in Range(n.items)
          BY <2>1, <2>3, <3>2 DEF has
      <4> QED BY <1>1, <4>1 DEF AllItems, n
    <3>3. ASSUME NEW p \in A, NEW y \in Range(m[p].items) PROVE \E i \in 1 .. K : y \in has(i)
      <4>1. CASE p = root
        <5>1. PICK j \in 1 .. L : y = n.items[j]
            BY <2>3, <4>1, <3>3 DEF n
        <5>2. j \in 1 .. K
            BY <2>1, <2>3
        <5> QED BY <5>1, <5>2 DEF has
      <4>2. CASE p # root
        <5>1. PICK i \in 1 .. K : p = n.kids[i]
            BY <2>1, <4>2
        <5> QED BY <3>3, <5>1 DEF has
      <4> QED BY <4>1, <4>2
    <3> QED BY <1>1, <3>1, <3>2, <3>3, ZenonT(60) DEF AllItems
  <2> QED BY <1>9, <1>12, <2>11, <2>12, <2>13
<1> QED BY <1>11, <1>12

\* A path of one node has no ancestors, one of two nodes has one.
LEMMA FrontOf ==
    ASSUME NEW v, NEW u
    PROVE  /\ Front(<<v>>) = <<>> /\ Front(<<v, u>>) = <<v>>
           /\ Last(<<v>>) = v /\ Last(<<v, u>>) = u
<1>1. Front(<<v>>) = <<>>
  <2>1. Front(<<v>>) = SubSeq(<<v>>, 1, 0)
      BY DEF Front
  <2> QED BY <2>1
<1>2. Front(<<v, u>>) = <<v>>
  <2> DEFINE w == <<v, u>>
             f == Front(w)
  <2>1. w \in Seq({v, u}) /\ Len(w) = 2 /\ w[1] = v
      OBVIOUS
  <2>2. f = SubSeq(w, 1, 1)
      BY <2>1 DEF Front
  <2> HIDE DEF w
  <2>3. f \in Seq({v, u}) /\ Len(f) = 1 /\ f[1] = v
      BY <2>1, <2>2, PartIs
  <2> HIDE DEF f
  <2>4. DOMAIN f = 1 .. 1 /\ f = [i \in DOMAIN f |-> f[i]]
      BY <2>3
  <2>5. <<v>> = [i \in 1 .. 1 |-> v]
      OBVIOUS
  <2>6. \A i \in DOMAIN f : f[i] = v
      BY <2>3, <2>4
  <2>7. f = <<v>>
      BY <2>4, <2>5, <2>6
  <2> QED BY <2>7 DEF f, w
<1> QED BY <1>1, <1>2 DEF Last

\* There is nothing to do above a root that is a leaf or holds the key, ...
LEMMA SplitNone ==
    ASSUME NEW s, NEW v
    PROVE  SplitAncestors(s, <<v>>) = s
<1> DEFINE path == <<v>>
           step(i, t) == IF OverPopulated(Get(t, path[i + 1].page))
                         THEN SplitChild(t, path[i].page, path[i].at) ELSE t
           d == [i \in DOMAIN Front(path) |-> i]
           def(g, S) == IF S = {} THEN s ELSE LET x == Min(S) IN step(d[x], g[S \ {x}])
           F == CHOOSE g : g = [S \in SUBSET DOMAIN d |-> def(g, S)]
<1>1. DOMAIN d = {}
  <2>1. DOMAIN d = DOMAIN Front(path)
      OBVIOUS
  <2>2. Front(path) = <<>>
      BY FrontOf
  <2> HIDE DEF d, path
  <2>3. DOMAIN <<>> = {}
      OBVIOUS
  <2> QED BY <2>1, <2>2, <2>3
<1>2. F = [S \in SUBSET DOMAIN d |-> def(F, S)]
  <2> DEFINE w == [S \in SUBSET {} |-> s]
  <2>1. w = [S \in SUBSET {} |-> def(w, S)]
      OBVIOUS
  <2>2. \E g : g = [S \in SUBSET DOMAIN d |-> def(g, S)]
    <3> HIDE DEF w, d, def
    <3> QED BY <1>1, <2>1
  <2> HIDE DEF def, d
  <2> QED BY <2>2, Zenon
<1>3. SplitAncestors(s, path) = F[DOMAIN d]
    BY Zenon DEF SplitAncestors, FoldRightDomain, FoldRight, MapThenFoldSet
<1> HIDE DEF F
<1>4. F[DOMAIN d] = s
  <2> HIDE DEF d
  <2> QED BY <1>1, <1>2
<1> QED BY <1>3, <1>4

\* ... and at most one split above a child of the root.
LEMMA SplitOne ==
    ASSUME NEW s, NEW v, NEW u
    PROVE  SplitAncestors(s, <<v, u>>) =
               IF OverPopulated(Get(s, u.page)) THEN SplitChild(s, v.page, v.at) ELSE s
<1> DEFINE path == <<v, u>>
           step(i, t) == IF OverPopulated(Get(t, path[i + 1].page))
                         THEN SplitChild(t, path[i].page, path[i].at) ELSE t
           d == [i \in DOMAIN Front(path) |-> i]
           def(g, S) == IF S = {} THEN s ELSE LET x == Min(S) IN step(d[x], g[S \ {x}])
           F == CHOOSE g : g = [S \in SUBSET DOMAIN d |-> def(g, S)]
<1>0. path[1] = v /\ path[1 + 1] = u
    OBVIOUS
<1>1. DOMAIN d = {1} /\ d[1] = 1
  <2>1. DOMAIN <<v>> = {1}
      OBVIOUS
  <2> QED BY <2>1, FrontOf
<1>m. Min({1}) = 1
  <2>1. {1} \subseteq Nat /\ {1} # {}
      OBVIOUS
  <2> QED BY <2>1, MinIs
<1> HIDE DEF d, path
<1>2. F = [S \in SUBSET DOMAIN d |-> def(F, S)]
  <2> DEFINE w == [S \in SUBSET {1} |-> IF S = {} THEN s ELSE step(d[1], s)]
  <2>1. ASSUME NEW S \in SUBSET {1} PROVE w[S] = def(w, S)
    <3>1. CASE S = {}
        BY <3>1
    <3>2. CASE S # {}
      <4>1. S = {1} /\ S \ {1} = {}
          BY <3>2
      <4>2. w[{}] = s /\ w[S] = step(d[1], s)
          BY <3>2
      <4> HIDE DEF w, step
      <4> QED BY <1>m, <3>2, <4>1, <4>2
    <3> QED BY <3>1, <3>2
  <2>2. w = [S \in SUBSET {1} |-> def(w, S)]
    <3>1. w = [S \in SUBSET {1} |-> w[S]]
        OBVIOUS
    <3> HIDE DEF w, def
    <3> QED BY <2>1, <3>1
  <2>3. \E g : g = [S \in SUBSET DOMAIN d |-> def(g, S)]
    <3> HIDE DEF w, def
    <3> QED BY <1>1, <2>2
  <2> HIDE DEF def
  <2> QED BY <2>3, Zenon
<1>3. SplitAncestors(s, path) = F[DOMAIN d]
    BY Zenon DEF SplitAncestors, FoldRightDomain, FoldRight, MapThenFoldSet, d
<1> HIDE DEF F
<1>4. F[{}] = s
  <2> HIDE DEF step
  <2> QED BY <1>1, <1>2
<1>5. F[{1}] = step(1, s)
  <2>1. {1} # {} /\ {1} \ {1} = {} /\ {1} \in SUBSET DOMAIN d
      BY <1>1
  <2>2. F[{1}] = def(F, {1})
    <3> HIDE DEF def
    <3> QED BY <1>2, <2>1
  <2> HIDE DEF step
  <2> QED BY <1>1, <1>m, <1>4, <2>1, <2>2
<1>6. step(1, s) = IF OverPopulated(Get(s, u.page)) THEN SplitChild(s, v.page, v.at) ELSE s
    BY <1>0
<1> HIDE DEF step
<1>7. SplitAncestors(s, path) = step(1, s)
    BY <1>1, <1>3, <1>5
<1> QED BY <1>6, <1>7 DEF path

\* The same for the loop of _remove.
LEMMA RebalanceNone ==
    ASSUME NEW s, NEW v
    PROVE  RebalanceAncestors(s, <<v>>) = s
<1> DEFINE path == <<v>>
           step(i, t) == IF OverPopulated(Get(t, path[i + 1].page))
                         THEN RebalanceAfterRemove(t, path[i].page, path[i].at) ELSE t
           d == [i \in DOMAIN Front(path) |-> i]
           def(g, S) == IF S = {} THEN s ELSE LET x == Min(S) IN step(d[x], g[S \ {x}])
           F == CHOOSE g : g = [S \in SUBSET DOMAIN d |-> def(g, S)]
<1>1. DOMAIN d = {}
  <2>1. DOMAIN d = DOMAIN Front(path)
      OBVIOUS
  <2>2. Front(path) = <<>>
      BY FrontOf
  <2> HIDE DEF d, path
  <2>3. DOMAIN <<>> = {}
      OBVIOUS
  <2> QED BY <2>1, <2>2, <2>3
<1>2. F = [S \in SUBSET DOMAIN d |-> def(F, S)]
  <2> DEFINE w == [S \in SUBSET {} |-> s]
  <2>1. w = [S \in SUBSET {} |-> def(w, S)]
      OBVIOUS
  <2>2. \E g : g = [S \in SUBSET DOMAIN d |-> def(g, S)]
    <3> HIDE DEF w, d, def
    <3> QED BY <1>1, <2>1
  <2> HIDE DEF def, d
  <2> QED BY <2>2, Zenon
<1>3. RebalanceAncestors(s, path) = F[DOMAIN d]
    BY Zenon DEF RebalanceAncestors, FoldRightDomain, FoldRight, MapThenFoldSet
<1> HIDE DEF F
<1>4. F[DOMAIN d] = s
  <2> HIDE DEF d
  <2> QED BY <1>1, <1>2
<1> QED BY <1>3, <1>4

\* ... which asks the child that was below.
LEMMA RebalanceOne ==
    ASSUME NEW s, NEW v, NEW u
    PROVE  RebalanceAncestors(s, <<v, u>>) =
               IF OverPopulated(Get(s, u.page)) THEN RebalanceAfterRemove(s, v.page, v.at) ELSE s
<1> DEFINE path == <<v, u>>
           step(i, t) == IF OverPopulated(Get(t, path[i + 1].page))
                         THEN RebalanceAfterRemove(t, path[i].page, path[i].at) ELSE t
           d == [i \in DOMAIN Front(path) |-> i]
           def(g, S) == IF S = {} THEN s ELSE LET x == Min(S) IN step(d[x], g[S \ {x}])
           F == CHOOSE g : g = [S \in SUBSET DOMAIN d |-> def(g, S)]
<1>0. path[1] = v /\ path[1 + 1] = u
    OBVIOUS
<1>1. DOMAIN d = {1} /\ d[1] = 1
  <2>1. DOMAIN <<v>> = {1}
      OBVIOUS
  <2> QED BY <2>1, FrontOf
<1>m. Min({1}) = 1
  <2>1. {1} \subseteq Nat /\ {1} # {}
      OBVIOUS
  <2> QED BY <2>1, MinIs
<1> HIDE DEF d, path
<1>2. F = [S \in SUBSET DOMAIN d |-> def(F, S)]
  <2> DEFINE w == [S \in SUBSET {1} |-> IF S = {} THEN s ELSE step(d[1], s)]
  <2>1. ASSUME NEW S \in SUBSET {1} PROVE w[S] = def(w, S)
    <3>1. CASE S = {}
        BY <3>1
    <3>2. CASE S # {}
      <4>1. S = {1} /\ S \ {1} = {}
          BY <3>2
      <4>2. w[{}] = s /\ w[S] = step(d[1], s)
          BY <3>2
      <4> HIDE DEF w, step
      <4> QED BY <1>m, <3>2, <4>1, <4>2
    <3> QED BY <3>1, <3>2
  <2>2. w = [S \in SUBSET {1} |-> def(w, S)]
    <3>1. w = [S \in SUBSET {1} |-> w[S]]
        OBVIOUS
    <3> HIDE DEF w, def
    <3> QED BY <2>1, <3>1
  <2>3. \E g : g = [S \in SUBSET DOMAIN d |-> def(g, S)]
    <3> HIDE DEF w, def
    <3> QED BY <1>1, <2>2
  <2> HIDE DEF def
  <2> QED BY <2>3, Zenon
<1>3. RebalanceAncestors(s, path) = F[DOMAIN d]
    BY Zenon DEF RebalanceAncestors, FoldRightDomain, FoldRight, MapThenFoldSet, d
<1> HIDE DEF F
<1>4. F[{}] = s
  <2> HIDE DEF step
  <2> QED BY <1>1, <1>2
<1>5. F[{1}] = step(1, s)
  <2>1. {1} # {} /\ {1} \ {1} = {} /\ {1} \in SUBSET DOMAIN d
      BY <1>1
  <2>2. F[{1}] = def(F, {1})
    <3> HIDE DEF def
    <3> QED BY <1>2, <2>1
  <2> HIDE DEF step
  <2> QED BY <1>1, <1>m, <1>4, <2>1, <2>2
<1>6. step(1, s) = IF OverPopulated(Get(s, u.page)) THEN RebalanceAfterRemove(s, v.page, v.at) ELSE s
    BY <1>0
<1> HIDE DEF step
<1>7. RebalanceAncestors(s, path) = step(1, s)
    BY <1>1, <1>3, <1>5
<1> QED BY <1>6, <1>7 DEF path
=============================================================================
