--------------------------- MODULE FreeListProofs ---------------------------
(***************************************************************************)
(* What the page allocator does to the set of free pages, and what the     *)
(* proofs about the other modules share: an induction, and facts about     *)
(* sequences of sequences.                                                 *)
(***************************************************************************)
EXTENDS FreeList, SequenceTheorems, WellFoundedInduction, TLAPS

\* getNextPageNum on a list with released pages takes one of them out; the
\* list stays free of repetitions.
LEMMA TakeReleased ==
    ASSUME NEW P, NEW f \in [maxPage : Nat, releasedPages : Seq(P)],
           IsInjective(f.releasedPages), f.releasedPages # <<>>
    PROVE  /\ AfterNextPage(f).maxPage = f.maxPage
           /\ AfterNextPage(f).releasedPages \in Seq(P)
           /\ AfterNextPage(f) \in [maxPage : Nat, releasedPages : Seq(P)]
           /\ IsInjective(AfterNextPage(f).releasedPages)
           /\ NextPage(f) \in Range(f.releasedPages)
           /\ Range(AfterNextPage(f).releasedPages) = Range(f.releasedPages) \ {NextPage(f)}
<1> DEFINE s == f.releasedPages
           n == Len(s)
           g == Front(s)
<1>1. s \in Seq(P) /\ n \in Nat /\ n > 0 /\ DOMAIN s = 1 .. n
    BY EmptySeq, LenProperties
<1>2. /\ g \in Seq(P) /\ Len(g) = n - 1 /\ DOMAIN g = 1 .. n - 1
      /\ \A i \in 1 .. n - 1 : g[i] = s[i]
  <2>1. \A i \in 1 .. n - 1 : s[i] \in P
      BY <1>1, ElementOfSeq
  <2>2. g = SubSeq(s, 1, n - 1)
      BY DEF Front
  <2>3. /\ SubSeq(s, 1, n - 1) \in Seq(P)
        /\ Len(SubSeq(s, 1, n - 1)) = IF 1 <= n - 1 THEN n - 1 - 1 + 1 ELSE 0
        /\ \A i \in 1 .. n - 1 - 1 + 1 : SubSeq(s, 1, n - 1)[i] = s[1 + i - 1]
    <3> HIDE DEF s, n
    <3>1. 1 \in Int /\ n - 1 \in Int
        BY <1>1
    <3> QED BY <2>1, <3>1, SubSeqProperties
  <2>4. g \in Seq(P) /\ Len(g) = n - 1 /\ \A i \in 1 .. n - 1 : g[i] = s[i]
    <3> HIDE DEF s, n, g
    <3> QED BY <1>1, <2>2, <2>3
  <2> QED BY <2>4, LenProperties
<1>3. NextPage(f) = s[n]
    BY DEF NextPage, Last
<1>4. AfterNextPage(f) = [f EXCEPT !.releasedPages = g]
    BY DEF AfterNextPage
<1>5. \A i, j \in 1 .. n : s[i] = s[j] => i = j
    BY <1>1 DEF IsInjective
<1>6. IsInjective(g)
    BY <1>1, <1>2, <1>5 DEF IsInjective
<1>7. Range(s) = {s[i] : i \in 1 .. n} /\ Range(g) = {g[i] : i \in 1 .. n - 1}
    BY <1>1, <1>2 DEF Range
<1>8. Range(g) = Range(s) \ {s[n]}
  <2>1. ASSUME NEW x \in Range(g) PROVE x \in Range(s) /\ x # s[n]
      BY <1>1, <1>2, <1>5, <1>7, <2>1
  <2>2. ASSUME NEW x \in Range(s), x # s[n] PROVE x \in Range(g)
    <3>1. PICK i \in 1 .. n : x = s[i]
        BY <1>7
    <3>2. i \in 1 .. n - 1
        BY <1>1, <2>2, <3>1
    <3> QED BY <1>2, <1>7, <3>1, <3>2
  <2> QED BY <2>1, <2>2
<1>9. s[n] \in Range(s)
    BY <1>1, <1>7
<1> QED BY <1>2, <1>3, <1>4, <1>6, <1>8, <1>9

\* getNextPageNum on a list without released pages raises the high-water mark.
LEMMA TakeFresh ==
    ASSUME NEW P, NEW f \in [maxPage : Nat, releasedPages : Seq(P)],
           f.releasedPages = <<>>
    PROVE  /\ NextPage(f) = f.maxPage + 1
           /\ AfterNextPage(f) \in [maxPage : Nat, releasedPages : Seq(P)]
           /\ AfterNextPage(f).maxPage = f.maxPage + 1
           /\ AfterNextPage(f).releasedPages = f.releasedPages
BY DEF NextPage, AfterNextPage

\* Either way: the page handed out was free or fresh, and is free no longer.
LEMMA Take ==
    ASSUME NEW P, NEW f \in [maxPage : Nat, releasedPages : Seq(P)],
           IsInjective(f.releasedPages)
    PROVE  /\ IsInjective(AfterNextPage(f).releasedPages)
           /\ Range(AfterNextPage(f).releasedPages) = Range(f.releasedPages) \ {NextPage(f)}
           /\ \/ /\ NextPage(f) \in Range(f.releasedPages)
                 /\ AfterNextPage(f).maxPage = f.maxPage
              \/ /\ NextPage(f) = f.maxPage + 1
                 /\ AfterNextPage(f).maxPage = f.maxPage + 1
<1>1. CASE f.releasedPages # <<>>
    BY <1>1, TakeReleased
<1>2. CASE f.releasedPages = <<>>
  <2>1. Range(f.releasedPages) = {}
      BY <1>2 DEF Range
  <2> QED BY <1>2, <2>1, TakeFresh
<1> QED BY <1>1, <1>2

\* push_back on a vector of pages.
LEMMA Push ==
    ASSUME NEW P, NEW pages \in Seq(P), NEW p \in P
    PROVE  /\ Range(Append(pages, p)) = Range(pages) \cup {p}
           /\ IsInjective(pages) /\ p \notin Range(pages) => IsInjective(Append(pages, p))
<1> DEFINE n == Len(pages)
           a == Append(pages, p)
<1>1. n \in Nat /\ DOMAIN pages = 1 .. n
    BY LenProperties
<1>2. /\ DOMAIN a = 1 .. n + 1 /\ a[n + 1] = p
      /\ \A i \in 1 .. n : a[i] = pages[i]
    BY AppendProperties, LenProperties
<1> HIDE DEF n, a
<1>3. Range(a) = Range(pages) \cup {p}
  <2>1. ASSUME NEW x \in Range(a) PROVE x \in Range(pages) \cup {p}
    <3>1. PICK i \in 1 .. n + 1 : x = a[i]
        BY <1>2 DEF Range
    <3>2. i \in 1 .. n \/ i = n + 1
        BY <1>1
    <3> QED BY <1>1, <1>2, <3>1, <3>2 DEF Range
  <2>2. p \in Range(a)
      BY <1>1, <1>2 DEF Range
  <2>3. ASSUME NEW x \in Range(pages) PROVE x \in Range(a)
    <3>1. PICK i \in 1 .. n : x = pages[i]
        BY <1>1 DEF Range
    <3>2. i \in 1 .. n + 1 /\ x = a[i]
        BY <1>1, <1>2, <3>1
    <3> QED BY <1>2, <3>2 DEF Range
  <2> QED BY <2>1, <2>2, <2>3
<1>4. ASSUME IsInjective(pages), p \notin Range(pages) PROVE IsInjective(a)
  <2> SUFFICES ASSUME NEW i \in 1 .. n + 1, NEW j \in 1 .. n + 1, a[i] = a[j]
               PROVE  i = j
      BY <1>2 DEF IsInjective
  <2>1. \A k \in 1 .. n : a[k] \in Range(pages) /\ a[k] # a[n + 1]
      BY <1>1, <1>2, <1>4 DEF Range
  <2>2. CASE i \in 1 .. n /\ j \in 1 .. n
      BY <1>1, <1>2, <1>4, <2>2 DEF IsInjective
  <2>3. CASE ~(i \in 1 .. n /\ j \in 1 .. n)
      BY <1>1, <2>1, <2>3
  <2> QED BY <2>2, <2>3
<1> QED BY <1>3, <1>4 DEF a

\* Releasing a vector of pages, none of them free already and none of them
\* twice in the vector, adds exactly those pages, each once.
LEMMA Release ==
    ASSUME NEW P, NEW f \in [maxPage : Nat, releasedPages : Seq(P)],
           NEW pages \in Seq(P)
    PROVE  /\ ReleasePages(f, pages) \in [maxPage : Nat, releasedPages : Seq(P)]
           /\ ReleasePages(f, pages).maxPage = f.maxPage
           /\ Range(ReleasePages(f, pages).releasedPages)
                  = Range(f.releasedPages) \cup Range(pages)
           /\ (/\ IsInjective(f.releasedPages) /\ IsInjective(pages)
               /\ Range(f.releasedPages) \cap Range(pages) = {})
              => IsInjective(ReleasePages(f, pages).releasedPages)
<1> DEFINE s == f.releasedPages
           c == s \o pages
           m == Len(s)
           n == Len(pages)
<1>1. /\ s \in Seq(P) /\ m \in Nat /\ DOMAIN s = 1 .. m
      /\ n \in Nat /\ DOMAIN pages = 1 .. n
    BY LenProperties
<1>2. /\ c \in Seq(P) /\ Len(c) = m + n
      /\ \A i \in 1 .. m + n : c[i] = IF i <= m THEN s[i] ELSE pages[i - m]
    BY <1>1, ConcatProperties
<1>3. DOMAIN c = 1 .. m + n
    BY <1>2, LenProperties
<1>4. ReleasePages(f, pages) = [f EXCEPT !.releasedPages = c]
    BY DEF ReleasePages
<1>5. Range(c) = Range(s) \cup Range(pages)
    BY <1>1, RangeConcatenation
<1>6. ASSUME IsInjective(s), IsInjective(pages), Range(s) \cap Range(pages) = {}
      PROVE  IsInjective(c)
  <2> SUFFICES ASSUME NEW i \in 1 .. m + n, NEW j \in 1 .. m + n, c[i] = c[j]
               PROVE  i = j
      BY <1>3 DEF IsInjective
  <2>1. CASE i <= m /\ j <= m
    <3>1. i \in DOMAIN s /\ j \in DOMAIN s /\ s[i] = s[j]
        BY <1>1, <1>2, <2>1
    <3> QED BY <1>6, <3>1 DEF IsInjective
  <2>2. CASE ~(i <= m) /\ ~(j <= m)
    <3>1. i - m \in DOMAIN pages /\ j - m \in DOMAIN pages /\ pages[i - m] = pages[j - m]
        BY <1>1, <1>2, <2>2
    <3>2. i - m = j - m
        BY <1>6, <3>1 DEF IsInjective
    <3> QED BY <1>1, <3>2
  <2>3. \A a, b \in 1 .. m + n : a <= m /\ ~(b <= m) => c[a] # c[b]
    <3> SUFFICES ASSUME NEW a \in 1 .. m + n, NEW b \in 1 .. m + n, a <= m, ~(b <= m)
                 PROVE  c[a] # c[b]
        OBVIOUS
    <3>1. a \in DOMAIN s /\ b - m \in DOMAIN pages /\ c[a] = s[a] /\ c[b] = pages[b - m]
        BY <1>1, <1>2
    <3>2. c[a] \in Range(s) /\ c[b] \in Range(pages)
        BY <3>1 DEF Range
    <3> QED BY <1>6, <3>2
  <2> QED BY <2>1, <2>2, <2>3
<1> QED BY <1>2, <1>4, <1>5, <1>6

-----------------------------------------------------------------------------
\* Induction over a set in place of a predicate: a well-founded order has a
\* least number that is not in it.
LEMMA SetInduction ==
    ASSUME NEW S, 0 \in S, \A n \in Nat : n \in S => n + 1 \in S
    PROVE  Nat \subseteq S
<1> DEFINE T == Nat \ S
           R == OpToRel(<, Nat)
<1> SUFFICES ASSUME T # {} PROVE FALSE
    OBVIOUS
<1>1. IsWellFoundedOn(R, Nat) /\ T \subseteq Nat /\ T # {}
    BY NatLessThanWellFounded
<1>2. PICK n \in T : \A m \in T : <<m, n>> \notin R
  <2> HIDE DEF T, R
  <2> QED BY <1>1, WFMin
<1>3. n - 1 \in Nat /\ n - 1 < n /\ n = (n - 1) + 1 /\ n \notin S
    OBVIOUS
<1>4. n - 1 \in S
    BY <1>2, <1>3 DEF OpToRel
<1> HIDE DEF T, R
<1> QED BY <1>3, <1>4

\* The range of a sequence.
LEMMA RangeIs ==
    ASSUME NEW S, NEW s \in Seq(S)
    PROVE  /\ DOMAIN s = 1 .. Len(s) /\ Len(s) \in Nat
           /\ Range(s) = {s[i] : i \in 1 .. Len(s)} /\ Range(s) \subseteq S
           /\ \A i \in 1 .. Len(s) : s[i] \in S /\ s[i] \in Range(s)
<1>1. DOMAIN s = 1 .. Len(s) /\ Len(s) \in Nat /\ \A i \in 1 .. Len(s) : s[i] \in S
    BY LenProperties, ElementOfSeq
<1> QED BY <1>1 DEF Range

\* Its recursive function exists: it concatenates one sequence after another.
LEMMA FlattenDefined ==
    ASSUME NEW S, NEW ss \in Seq(Seq(S)), ss # <<>>
    PROVE  \E f \in [1 .. Len(ss) -> Seq(S)] :
               /\ f[1] = ss[1] /\ \A i \in 2 .. Len(ss) : f[i] = f[i - 1] \o ss[i]
               /\ FlattenSeq(ss) = f[Len(ss)]
<1> DEFINE n == Len(ss)
           def(f, i) == IF i = 1 THEN ss[i] ELSE f[i - 1] \o ss[i]
           T == {j \in Nat : \E f \in [1 .. n -> Seq(S)] :
                                 \A i \in 1 .. n : i <= j => f[i] = def(f, i)}
<1>1. n \in Nat /\ n > 0 /\ \A i \in 1 .. n : ss[i] \in Seq(S)
  <2>1. n \in Nat /\ \A i \in 1 .. n : ss[i] \in Seq(S)
      BY RangeIs
  <2>2. n \in Nat \ {0}
      BY EmptySeq
  <2> QED BY <2>1, <2>2
<1> HIDE DEF n
<1>2. 0 \in T
  <2>1. ss[1] \in Seq(S) /\ [i \in 1 .. n |-> ss[1]] \in [1 .. n -> Seq(S)]
      BY <1>1
  <2>2. \A i \in 1 .. n : ~(i <= 0)
      BY <1>1
  <2> HIDE DEF def
  <2> QED BY <2>1, <2>2
<1>3. ASSUME NEW j \in Nat, j \in T PROVE j + 1 \in T
  <2>1. PICK f \in [1 .. n -> Seq(S)] : \A i \in 1 .. n : i <= j => f[i] = def(f, i)
      BY <1>3
  <2> DEFINE g == [i \in 1 .. n |-> IF i = j + 1 THEN def(f, i) ELSE f[i]]
  <2>2. \A i \in 1 .. n : def(f, i) \in Seq(S)
    <3> SUFFICES ASSUME NEW i \in 1 .. n, i # 1 PROVE f[i - 1] \o ss[i] \in Seq(S)
        BY <1>1
    <3>1. f[i - 1] \in Seq(S) /\ ss[i] \in Seq(S)
        BY <1>1
    <3> QED BY <3>1, ConcatProperties
  <2>3. g \in [1 .. n -> Seq(S)]
    <3> HIDE DEF def
    <3> QED BY <2>2
  <2>4. \A i \in 1 .. n : i <= j + 1 => g[i] = def(g, i)
    <3> SUFFICES ASSUME NEW i \in 1 .. n, i <= j + 1 PROVE g[i] = def(g, i)
        OBVIOUS
    <3>1. i # 1 => g[i - 1] = f[i - 1]
        BY <1>1
    <3>2. g[i] = def(f, i)
      <4>1. CASE i = j + 1
        <5> HIDE DEF def
        <5> QED BY <4>1
      <4>2. CASE i # j + 1
        <5>1. i <= j
            BY <1>1, <4>2
        <5> HIDE DEF def
        <5> QED BY <2>1, <4>2, <5>1
      <4> QED BY <4>1, <4>2
    <3>3. def(g, i) = def(f, i)
      <4> HIDE DEF g
      <4> QED BY <3>1
    <3> QED BY <3>2, <3>3
  <2> HIDE DEF def, g
  <2>5. \E h \in [1 .. n -> Seq(S)] : \A i \in 1 .. n : i <= j + 1 => h[i] = def(h, i)
      BY <2>3, <2>4
  <2>6. j + 1 \in Nat
      OBVIOUS
  <2> QED BY <2>5, <2>6, Zenon
<1>4. n \in T
  <2> HIDE DEF T
  <2>1. \A j \in Nat : j \in T => j + 1 \in T
      BY <1>3
  <2> QED BY <1>1, <1>2, <2>1, SetInduction
<1>5. PICK f \in [1 .. n -> Seq(S)] : \A i \in 1 .. n : i <= n => f[i] = def(f, i)
    BY <1>4
<1>6. f = [i \in 1 .. n |-> def(f, i)]
  <2>1. \A i \in 1 .. n : f[i] = def(f, i)
    <3> HIDE DEF def
    <3> QED BY <1>1, <1>5
  <2> HIDE DEF def
  <2> QED BY <2>1
<1> DEFINE F == CHOOSE g : g = [i \in 1 .. n |-> def(g, i)]
<1>7. F = [i \in 1 .. n |-> def(F, i)]
  <2> HIDE DEF def
  <2> QED BY <1>6, Zenon
<1>8. FlattenSeq(ss) = F[n]
  <2>1. Len(ss) # 0
      BY <1>1 DEF n
  <2> QED BY <2>1, Zenon DEF FlattenSeq, n
<1> HIDE DEF F
<1> DEFINE U == {j \in Nat : \A i \in 1 .. n : i <= j => F[i] \in Seq(S)}
<1>9. 0 \in U
    BY <1>1
<1>10. ASSUME NEW j \in Nat, j \in U PROVE j + 1 \in U
  <2> SUFFICES ASSUME NEW l \in 1 .. n, l <= j + 1 PROVE F[l] \in Seq(S)
      OBVIOUS
  <2>0. CASE l <= j
      BY <1>10, <2>0
  <2> DEFINE i == l
  <2>l. CASE i = j + 1
    <3>1. CASE i = 1
        BY <1>1, <1>7, <3>1
    <3>2. CASE i # 1
      <4>1. F[i - 1] \in Seq(S) /\ ss[i] \in Seq(S)
          BY <1>1, <1>10, <2>l, <3>2
      <4>2. F[i] = F[i - 1] \o ss[i]
          BY <1>7, <3>2
      <4> QED BY <4>1, <4>2, ConcatProperties
    <3> QED BY <3>1, <3>2
  <2> QED BY <1>1, <2>0, <2>l
<1>11. n \in U
  <2> HIDE DEF U
  <2>1. \A j \in Nat : j \in U => j + 1 \in U
      BY <1>10
  <2> QED BY <1>1, <1>9, <2>1, SetInduction
<1>12. F \in [1 .. n -> Seq(S)]
    BY <1>1, <1>7, <1>11
<1>13. F[1] = ss[1] /\ \A i \in 2 .. n : F[i] = F[i - 1] \o ss[i]
  <2>1. \A i \in 1 .. n : F[i] = IF i = 1 THEN ss[i] ELSE F[i - 1] \o ss[i]
      BY <1>7
  <2>2. 1 \in 1 .. n /\ \A i \in 2 .. n : i \in 1 .. n /\ i # 1
      BY <1>1
  <2> HIDE DEF F
  <2> QED BY <2>1, <2>2
<1> QED BY <1>8, <1>12, <1>13 DEF n

\* No sequences.
LEMMA FlattenNone ==
    ASSUME NEW ss, Len(ss) = 0
    PROVE  FlattenSeq(ss) = ss
BY DEF FlattenSeq

\* What is in the whole is in one of the parts.
LEMMA FlattenRange ==
    ASSUME NEW S, NEW ss \in Seq(Seq(S)), ss # <<>>
    PROVE  /\ FlattenSeq(ss) \in Seq(S)
           /\ Range(FlattenSeq(ss)) = UNION {Range(ss[i]) : i \in 1 .. Len(ss)}
<1> DEFINE n == Len(ss)
<1>1. n \in Nat /\ n > 0 /\ \A i \in 1 .. n : ss[i] \in Seq(S)
    BY RangeIs, EmptySeq
<1>2. PICK f \in [1 .. n -> Seq(S)] :
               /\ f[1] = ss[1] /\ \A i \in 2 .. n : f[i] = f[i - 1] \o ss[i]
               /\ FlattenSeq(ss) = f[n]
    BY FlattenDefined
<1> HIDE DEF n
<1> DEFINE T == {j \in Nat : j \in 1 .. n => Range(f[j]) = UNION {Range(ss[l]) : l \in 1 .. j}}
<1>3. 0 \in T
    BY <1>1
<1>4. ASSUME NEW j \in Nat, j \in T PROVE j + 1 \in T
  <2> SUFFICES ASSUME NEW i \in 1 .. n, i = j + 1
               PROVE  Range(f[i]) = UNION {Range(ss[l]) : l \in 1 .. i}
      OBVIOUS
  <2>1. CASE i = 1
    <3>1. 1 .. i = {1}
        BY <2>1
    <3> QED BY <1>2, <2>1, <3>1
  <2>2. CASE i # 1
    <3>1. i - 1 \in 1 .. n /\ i \in 2 .. n /\ i - 1 = j
        BY <1>1, <2>2
    <3>2. Range(f[i - 1]) = UNION {Range(ss[l]) : l \in 1 .. i - 1}
        BY <1>4, <3>1
    <3>3. Range(f[i]) = Range(f[i - 1]) \cup Range(ss[i])
      <4>1. f[i - 1] \in Seq(S) /\ ss[i] \in Seq(S) /\ f[i] = f[i - 1] \o ss[i]
          BY <1>1, <1>2, <3>1
      <4> QED BY <4>1, RangeConcatenation
    <3>4. 1 .. i = (1 .. i - 1) \cup {i}
        BY <1>1, <3>1
    <3> QED BY <3>2, <3>3, <3>4
  <2> QED BY <2>1, <2>2
<1>5. n \in T
  <2> HIDE DEF T
  <2>1. \A j \in Nat : j \in T => j + 1 \in T
      BY <1>4
  <2> QED BY <1>1, <1>3, <2>1, SetInduction
<1> QED BY <1>1, <1>2, <1>5 DEF n
=============================================================================
