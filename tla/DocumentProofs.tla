--------------------------- MODULE DocumentProofs ---------------------------
(***************************************************************************)
(* Proofs about module Document: where its documented use goes, put and    *)
(* remove keep a search tree of balanced, fitting nodes, lose no page,     *)
(* count right, and change what get finds as the same call on a map.       *)
(***************************************************************************)
EXTENDS Document, BTreeProofs

\* The pages of a transaction are numbers from FirstRoot up.
LEMMA PagesAre ==
    ASSUME NEW s, PagesInv(s)
    PROVE  /\ IsTx(s) /\ s.pagesToDelete = <<>> /\ s.metaRoot = CollectionsRoot
           /\ \A p \in AllPages(s) : p \in Nat /\ p >= FirstRoot /\ p <= s.fl.maxPage /\ p # CollectionsRoot
<1>1. IsTx(s) /\ s.pagesToDelete = <<>> /\ s.metaRoot = CollectionsRoot
    BY DEF PagesInv, IsTx
<1>2. s.fl.maxPage \in Nat /\ AllPages(s) \subseteq FirstRoot .. s.fl.maxPage
    BY DEF PagesInv
<1> QED BY <1>1, <1>2 DEF FirstRoot, CollectionsRoot

\* A node written on a page that has one changes nothing about the pages.
LEMMA PagesWrite ==
    ASSUME NEW s, NEW p, NEW n, NEW t, PagesInv(s), p \in AllPages(s), t = Write(s, p, n)
    PROVE  /\ PagesInv(t) /\ t.file = s.file /\ t.fl = s.fl /\ t.allocatedPages = s.allocatedPages
           /\ AllPages(t) = AllPages(s) /\ Nodes(t) = Placed(Nodes(s), p, n)
           /\ DOMAIN t.dirtyNodes = DOMAIN s.dirtyNodes \cup {p}
<1>1. IsTx(s) /\ s.pagesToDelete = <<>> /\ s.metaRoot = CollectionsRoot
    BY PagesAre
<1>2. /\ IsTx(t) /\ t.file = s.file /\ Unallocated(s, t)
      /\ DOMAIN t.dirtyNodes = DOMAIN s.dirtyNodes \cup {p}
      /\ AllPages(t) = AllPages(s) \cup {p}
      /\ Nodes(t) = Placed(Nodes(s), p, n)
    BY <1>1, WriteIs
<1>3. AllPages(t) = AllPages(s)
    BY <1>2
<1>4. DOMAIN t.dirtyNodes \ DOMAIN t.file = DOMAIN s.dirtyNodes \ DOMAIN s.file
    BY <1>2 DEF AllPages
<1>5. t.pagesToDelete = <<>> /\ t.metaRoot = CollectionsRoot /\ t.allocatedPages = s.allocatedPages /\ t.fl = s.fl
    BY <1>1, <1>2 DEF Unallocated
<1>6. PagesInv(t)
  <2>1. t = [file |-> t.file, dirtyNodes |-> t.dirtyNodes, pagesToDelete |-> <<>>,
             allocatedPages |-> t.allocatedPages, fl |-> t.fl, metaRoot |-> CollectionsRoot]
      BY <1>2, <1>5 DEF IsTx
  <2> QED BY <1>3, <1>4, <1>5, <2>1 DEF PagesInv
<1> QED BY <1>2, <1>3, <1>5, <1>6

\* A new node gets a page that no node has.
LEMMA PagesWriteNew ==
    ASSUME NEW s, NEW n, NEW t, NEW q, PagesInv(s), AllPages(s) # {}, t = WriteNew(s, n), q = NextPage(s.fl)
    PROVE  /\ PagesInv(t) /\ t.file = s.file /\ q \notin AllPages(s) /\ q \in Nat
           /\ AllPages(t) = AllPages(s) \cup {q} /\ Nodes(t) = Placed(Nodes(s), q, n)
           /\ Last(t.allocatedPages) = q /\ t.fl = AfterNextPage(s.fl)
<1>1. IsTx(s) /\ s.pagesToDelete = <<>> /\ s.metaRoot = CollectionsRoot
    BY PagesAre
<1>2. /\ IsTx(t) /\ t.file = s.file
      /\ t.pagesToDelete = s.pagesToDelete /\ t.metaRoot = s.metaRoot
      /\ t.allocatedPages = Append(s.allocatedPages, q) /\ t.fl = AfterNextPage(s.fl)
      /\ DOMAIN t.dirtyNodes = DOMAIN s.dirtyNodes \cup {q}
      /\ AllPages(t) = AllPages(s) \cup {q}
      /\ Nodes(t) = Placed(Nodes(s), q, n)
    BY <1>1, WriteNewIs
<1>3. /\ s.allocatedPages \in Seq(Nat) /\ IsInjective(s.allocatedPages)
      /\ Range(s.allocatedPages) = DOMAIN s.dirtyNodes \ DOMAIN s.file
      /\ s.fl \in [maxPage : Nat, releasedPages : Seq(Nat)]
      /\ IsInjective(s.fl.releasedPages)
      /\ Range(s.fl.releasedPages) \cap AllPages(s) = {}
      /\ Range(s.fl.releasedPages) \cup AllPages(s) = FirstRoot .. s.fl.maxPage
    BY DEF PagesInv
<1>4. /\ IsInjective(t.fl.releasedPages)
      /\ Range(t.fl.releasedPages) = Range(s.fl.releasedPages) \ {q}
      /\ \/ q \in Range(s.fl.releasedPages) /\ t.fl.maxPage = s.fl.maxPage
         \/ q = s.fl.maxPage + 1 /\ t.fl.maxPage = s.fl.maxPage + 1
    BY <1>2, <1>3, Take
<1>5. t.fl \in [maxPage : Nat, releasedPages : Seq(Nat)]
    BY <1>2, <1>3, TakeReleased, TakeFresh
<1>6. s.fl.maxPage \in Nat /\ s.fl.maxPage >= FirstRoot
  <2>1. PICK p : p \in AllPages(s)
      OBVIOUS
  <2> QED BY <1>3, <2>1 DEF FirstRoot
<1>7. q \notin AllPages(s) /\ q \in Nat /\ q >= FirstRoot
  <2>1. CASE q \in Range(s.fl.releasedPages)
      BY <1>3, <2>1 DEF FirstRoot
  <2>2. CASE q = s.fl.maxPage + 1
      BY <1>3, <1>6, <2>2 DEF FirstRoot
  <2> QED BY <1>4, <2>1, <2>2
<1>8. Range(t.fl.releasedPages) \cap AllPages(t) = {}
    BY <1>2, <1>3, <1>4
<1>9. Range(t.fl.releasedPages) \cup AllPages(t) = FirstRoot .. t.fl.maxPage
  <2>1. CASE q \in Range(s.fl.releasedPages) /\ t.fl.maxPage = s.fl.maxPage
      BY <1>2, <1>3, <1>4, <2>1
  <2>2. CASE q = s.fl.maxPage + 1 /\ t.fl.maxPage = s.fl.maxPage + 1
    <3>1. q \notin Range(s.fl.releasedPages)
        BY <1>3, <1>6, <2>2 DEF FirstRoot
    <3>2. FirstRoot .. (s.fl.maxPage + 1) = (FirstRoot .. s.fl.maxPage) \cup {s.fl.maxPage + 1}
        BY <1>6 DEF FirstRoot
    <3> QED BY <1>2, <1>3, <1>4, <2>2, <3>1, <3>2
  <2> QED BY <1>4, <2>1, <2>2
<1>10. q \notin Range(s.allocatedPages)
    BY <1>3, <1>7 DEF AllPages
<1>11. /\ t.allocatedPages \in Seq(Nat) /\ IsInjective(t.allocatedPages)
       /\ Range(t.allocatedPages) = DOMAIN t.dirtyNodes \ DOMAIN t.file
       /\ Last(t.allocatedPages) = q
  <2>1. t.allocatedPages \in Seq(Nat) /\ IsInjective(t.allocatedPages)
        /\ Range(t.allocatedPages) = Range(s.allocatedPages) \cup {q}
      BY <1>2, <1>3, <1>7, <1>10, Push
  <2>2. Last(t.allocatedPages) = q
      BY <1>2, <1>3, <1>7, AppendProperties, LenProperties DEF Last
  <2>3. q \notin DOMAIN t.file
      BY <1>2, <1>7 DEF AllPages
  <2> QED BY <1>2, <1>3, <2>1, <2>2, <2>3
<1>12. PagesInv(t)
  <2>1. t = [file |-> t.file, dirtyNodes |-> t.dirtyNodes, pagesToDelete |-> <<>>,
             allocatedPages |-> t.allocatedPages, fl |-> t.fl, metaRoot |-> CollectionsRoot]
      BY <1>1, <1>2 DEF IsTx
  <2> QED BY <1>4, <1>5, <1>8, <1>9, <1>11, <2>1 DEF PagesInv
<1> QED BY <1>2, <1>7, <1>11, <1>12

\* What a split does to the nodes: the right half goes to a new page, then the
\* parent and the left half are written.
LEMMA SplitChildIs ==
    ASSUME NEW s, NEW p, NEW i, NEW c, NEW n, NEW q, NEW p1, NEW t, PagesInv(s), p \in AllPages(s),
           c = Get(s, p).kids[i], c \in AllPages(s), n = Get(s, c), q = NextPage(s.fl),
           p1 = SplitUnder(Get(s, p), i, n, q), t = SplitChild(s, p, i)
    PROVE  /\ PagesInv(t) /\ t.file = s.file /\ q \notin AllPages(s)
           /\ Nodes(t) = Placed(Placed(Placed(Nodes(s), q, RightHalf(n)), p, p1), c, LeftHalf(n))
           /\ p \in DOMAIN t.dirtyNodes /\ AllPages(t) = AllPages(s) \cup {q}
<1> DEFINE a == WriteNew(s, RightHalf(n))
           b == Write(a, p, p1)
<1>1. t = Write(b, c, LeftHalf(n))
    BY DEF SplitChild
<1>2. /\ PagesInv(a) /\ a.file = s.file /\ q \notin AllPages(s)
      /\ AllPages(a) = AllPages(s) \cup {q} /\ Nodes(a) = Placed(Nodes(s), q, RightHalf(n))
    BY PagesWriteNew
<1> HIDE DEF a
<1>3. /\ PagesInv(b) /\ b.file = a.file /\ AllPages(b) = AllPages(a) /\ Nodes(b) = Placed(Nodes(a), p, p1)
      /\ DOMAIN b.dirtyNodes = DOMAIN a.dirtyNodes \cup {p}
  <2>1. p \in AllPages(a)
      BY <1>2
  <2> QED BY <1>2, <2>1, PagesWrite
<1> HIDE DEF b
<1>4. /\ PagesInv(t) /\ t.file = b.file /\ AllPages(t) = AllPages(b) /\ Nodes(t) = Placed(Nodes(b), c, LeftHalf(n))
      /\ DOMAIN t.dirtyNodes = DOMAIN b.dirtyNodes \cup {c}
  <2>1. c \in AllPages(b)
      BY <1>2, <1>3
  <2> QED BY <1>1, <1>3, <2>1, PagesWrite
<1>5. t.file = s.file /\ AllPages(t) = AllPages(s) \cup {q} /\ p \in DOMAIN t.dirtyNodes
    BY <1>2, <1>3, <1>4
<1>6. Nodes(t) = Placed(Placed(Placed(Nodes(s), q, RightHalf(n)), p, p1), c, LeftHalf(n))
    BY <1>2, <1>3, <1>4
<1> QED BY <1>2, <1>4, <1>5, <1>6

\* ... and when the root grows, the parent is a new node as well, on the last
\* page that was allocated.
LEMMA SplitRootIs ==
    ASSUME NEW s, NEW p, NEW n, NEW q, NEW r, NEW p1, NEW t, PagesInv(s), p \in AllPages(s),
           q = NextPage(s.fl), r = NextPage(AfterNextPage(s.fl)),
           p1 = SplitUnder([items |-> <<>>, kids |-> <<p>>], 1, n, q), t = SplitRoot(s, p, n)
    PROVE  /\ PagesInv(t) /\ t.file = s.file /\ q \notin AllPages(s) /\ r \notin AllPages(s) /\ q # r /\ r \in Nat
           /\ Nodes(t) = Placed(Placed(Placed(Nodes(s), q, RightHalf(n)), r, p1), p, LeftHalf(n))
           /\ Last(t.allocatedPages) = r /\ AllPages(t) = AllPages(s) \cup {q, r}
           /\ t.metaRoot = CollectionsRoot
<1> DEFINE a == WriteNew(s, RightHalf(n))
           b == WriteNew(a, p1)
<1>1. t = Write(b, p, LeftHalf(n))
    BY DEF SplitRoot
<1>2. /\ PagesInv(a) /\ a.file = s.file /\ q \notin AllPages(s) /\ a.fl = AfterNextPage(s.fl)
      /\ AllPages(a) = AllPages(s) \cup {q} /\ Nodes(a) = Placed(Nodes(s), q, RightHalf(n))
  <2>1. AllPages(s) # {}
      OBVIOUS
  <2> QED BY <2>1, PagesWriteNew
<1> HIDE DEF a
<1>3. /\ PagesInv(b) /\ b.file = a.file /\ r \notin AllPages(a) /\ r \in Nat /\ Last(b.allocatedPages) = r
      /\ AllPages(b) = AllPages(a) \cup {r} /\ Nodes(b) = Placed(Nodes(a), r, p1)
  <2>1. AllPages(a) # {} /\ r = NextPage(a.fl)
      BY <1>2
  <2> QED BY <1>2, <2>1, PagesWriteNew
<1> HIDE DEF b
<1>4. /\ PagesInv(t) /\ t.file = b.file /\ AllPages(t) = AllPages(b) /\ Nodes(t) = Placed(Nodes(b), p, LeftHalf(n))
      /\ t.allocatedPages = b.allocatedPages
  <2>1. p \in AllPages(b)
      BY <1>2, <1>3
  <2> QED BY <1>1, <1>3, <2>1, PagesWrite
<1>5. t.file = s.file /\ AllPages(t) = AllPages(s) \cup {q, r} /\ r \notin AllPages(s) /\ q # r
    BY <1>2, <1>3, <1>4
<1>6. Nodes(t) = Placed(Placed(Placed(Nodes(s), q, RightHalf(n)), r, p1), p, LeftHalf(n))
    BY <1>2, <1>3, <1>4
<1>7. t.metaRoot = CollectionsRoot
    BY <1>4, PagesAre
<1> QED BY <1>2, <1>3, <1>4, <1>5, <1>6, <1>7

\* The left half of a node with two items or more and a child per gap keeps a
\* child, so a root with children that is split does not become a leaf.
LEMMA InnerHalf ==
    ASSUME NEW P, NEW n, n \in Node(P), ~IsLeaf(n), Len(n.kids) = Len(n.items) + 1, Len(n.items) >= 2
    PROVE  ~IsLeaf(LeftHalf(n))
<1> DEFINE N == Len(n.items)
           enough == {i \in 1 .. N - 2 : SizeUpTo(n, i) >= MinThreshold}
<1>1. N \in Nat /\ N >= 2 /\ n.kids \in Seq(P) /\ Len(n.kids) = N + 1
    BY DEF Node
<1>2. SplitIndex(n) \in 2 .. N
  <2>1. SplitIndex(n) = 1 + (IF enough # {} THEN Min(enough) ELSE N \div 2)
      BY DEF SplitIndex
  <2>2. enough # {} => Min(enough) \in 1 .. N - 2
    <3>1. enough \subseteq Nat /\ enough \subseteq 1 .. N - 2
        OBVIOUS
    <3> HIDE DEF enough
    <3> QED BY <3>1, MinIs
  <2>3. N \div 2 \in 1 .. N - 1
    <3> HIDE DEF N
    <3> QED BY <1>1
  <2> HIDE DEF enough, N
  <2> QED BY <1>1, <2>1, <2>2, <2>3
<1> HIDE DEF N
<1>3. LeftHalf(n).kids = SubSeq(n.kids, 1, SplitIndex(n) - 1)
    BY DEF LeftHalf
<1>4. Len(SubSeq(n.kids, 1, SplitIndex(n) - 1)) = SplitIndex(n) - 1
  <2>1. 1 \in 1 .. Len(n.kids) + 1 /\ SplitIndex(n) - 1 \in 0 .. Len(n.kids) /\ 1 <= (SplitIndex(n) - 1) + 1
      BY <1>1, <1>2
  <2>2. Len(SubSeq(n.kids, 1, SplitIndex(n) - 1)) = (SplitIndex(n) - 1) - 1 + 1
      BY <1>1, <2>1, PartIs
  <2> QED BY <1>1, <1>2, <2>2
<1>5. LeftHalf(n).kids # <<>>
  <2>1. SplitIndex(n) - 1 # 0 /\ Len(<<>>) = 0
      BY <1>1, <1>2
  <2> QED BY <1>3, <1>4, <2>1
<1> QED BY <1>5 DEF IsLeaf

\* An item is under one key.
LEMMA KeysOnce ==
    ASSUME NEW m, NEW root, Shaped(m, root), Ordered(m, root), NEW k \in Key,
           NEW y \in AllItems(m), NEW z \in AllItems(m), y.key = k, z.key = k
    PROVE  y = z /\ y \in Range(m[Target(m, root, k)].items)
<1> DEFINE p == Target(m, root, k)
           t == m[p].items
<1>1. y \in Range(t) /\ z \in Range(t)
    BY KeyElsewhere DEF AllItems
<1>2. t \in Seq(PlainItem) /\ Sorted(t)
  <2>1. p \in DOMAIN m
      BY TargetIs
  <2> QED BY <2>1, ShapedIs DEF Ordered
<1> HIDE DEF t, p
<1>3. PICK i \in 1 .. Len(t), j \in 1 .. Len(t) : y = t[i] /\ z = t[j]
    BY <1>1, <1>2, RangeIs
<1>4. /\ Len(t) \in Nat /\ DOMAIN t = 1 .. Len(t)
      /\ y.key \in Int /\ ~(t[i].key < t[j].key) /\ ~(t[j].key < t[i].key)
  <2>1. k \in Int
      BY NodeAssumption
  <2>2. ~(k < k)
      BY <2>1
  <2> QED BY <1>2, <1>3, <2>1, <2>2, RangeIs
<1>5. i = j
    BY <1>2, <1>3, <1>4 DEF Sorted
<1> QED BY <1>1, <1>3, <1>5 DEF t, p

\* A transaction on the tree m below root, as it stands between two calls.
AtWork(s, m, root) ==
    /\ PagesInv(s) /\ m = Nodes(s) /\ Tree(m, root) /\ Ordered(m, root)
    /\ \A p \in DOMAIN m : ~OverPopulated(m[p])

\* What there is to know of it.
LEMMA AtWorkHas ==
    ASSUME NEW s, NEW m, NEW root, AtWork(s, m, root)
    PROVE  /\ PagesInv(s) /\ m = Nodes(s) /\ Shaped(m, root) /\ Tree(m, root) /\ Ordered(m, root)
           /\ (~IsLeaf(m[root]) => m[root].items # <<>>) /\ root \in DOMAIN m
           /\ DOMAIN m = AllPages(s) /\ \A p \in DOMAIN m : Get(s, p) = m[p] /\ ~OverPopulated(m[p])
           /\ root # CollectionsRoot /\ root \in Nat
<1>1. PagesInv(s) /\ m = Nodes(s) /\ Shaped(m, root) /\ Tree(m, root) /\ Ordered(m, root)
      /\ (~IsLeaf(m[root]) => m[root].items # <<>>) /\ \A p \in DOMAIN m : ~OverPopulated(m[p])
    BY DEF AtWork, Tree
<1>2. root \in DOMAIN m
    BY <1>1, ShapedIs
<1>3. DOMAIN m = AllPages(s) /\ \A p \in DOMAIN m : Get(s, p) = m[p]
    BY <1>1, NodesAre
<1>4. root # CollectionsRoot /\ root \in Nat
    BY <1>1, <1>2, <1>3, PagesAre
<1> QED BY <1>1, <1>2, <1>3, <1>4

\* The item x has been written to the node on page p, which may be too big now.
ItemWritten(s, m, root, x, p, st, s1, m1) ==
    /\ p \in DOMAIN m /\ PagesInv(s1) /\ s1.file = s.file /\ s1.fl = s.fl /\ m1 = Nodes(s1)
    /\ DOMAIN s1.dirtyNodes = DOMAIN s.dirtyNodes \cup {p}
    /\ DOMAIN m1 = DOMAIN m /\ m1[p] = st /\ \A q \in DOMAIN m : q # p => m1[q] = m[q]
    /\ Shaped(m1, root) /\ Tree(m1, root) /\ Ordered(m1, root) /\ AllItems(m1) = Updated(AllItems(m), x)
    /\ st \in Node(DOMAIN m) /\ st.kids = m[p].kids /\ Sorted(st.items) /\ st.items \in Seq(PlainItem)
    /\ IsLeaf(st) => Size(st) <= MaxThreshold + Weight(x)
    /\ Holds(m[p], x.key) => Len(st.items) = Len(m[p].items)

\* Writing the item into its node does that, and keeps tree and order.
LEMMA WritesItem ==
    ASSUME NEW s, NEW m, NEW root, AtWork(s, m, root), NEW x, x \in PlainItem, NEW p,
           p = Target(m, root, x.key), NEW st, st = WithItem(m[p], x),
           NEW s1, s1 = Write(s, p, st), NEW m1, m1 = Nodes(s1)
    PROVE  ItemWritten(s, m, root, x, p, st, s1, m1)
<1>1. /\ PagesInv(s) /\ m = Nodes(s) /\ Shaped(m, root) /\ Tree(m, root) /\ Ordered(m, root)
      /\ DOMAIN m = AllPages(s) /\ \A q \in DOMAIN m : Get(s, q) = m[q] /\ ~OverPopulated(m[q])
    BY AtWorkHas
<1>2. p \in DOMAIN m
  <2>1. x.key \in Key
      BY DEF PlainItem
  <2> QED BY <1>1, <2>1, TargetIs
<1>3. /\ PagesInv(s1) /\ s1.file = s.file /\ s1.fl = s.fl /\ m1 = Placed(m, p, st)
      /\ DOMAIN s1.dirtyNodes = DOMAIN s.dirtyNodes \cup {p}
    BY <1>1, <1>2, PagesWrite
<1>4. /\ DOMAIN m1 = DOMAIN m /\ Shaped(m1, root) /\ Ordered(m1, root) /\ Tree(m1, root)
      /\ AllItems(m1) = Updated(AllItems(m), x)
    BY <1>1, <1>3, StoreTree
<1>5. m1[p] = st /\ \A q \in DOMAIN m : q # p => m1[q] = m[q]
  <2>1. Placed(m, p, st)[p] = st /\ \A q \in DOMAIN m : q # p => Placed(m, p, st)[q] = m[q]
      BY DEF Placed
  <2> QED BY <1>3, <2>1
<1>6. m[p] \in Node(DOMAIN m) /\ Sorted(m[p].items) /\ m[p].items \in Seq(PlainItem)
    BY <1>1, <1>2, ShapedIs DEF Ordered
<1>7. /\ st \in Node(DOMAIN m) /\ st.kids = m[p].kids /\ Sorted(st.items)
      /\ IsLeaf(m[p]) => Size(st) <= Size(m[p]) + Weight(x)
      /\ Holds(m[p], x.key) => Len(st.items) = Len(m[p].items)
  <2> DEFINE n == m[p]
             P == DOMAIN m
  <2>1. n \in Node(P) /\ Sorted(n.items) /\ x \in PlainItem /\ st = WithItem(n, x)
      BY <1>6
  <2> HIDE DEF n, P
  <2>2. /\ st \in Node(P) /\ st.kids = n.kids /\ Sorted(st.items)
        /\ IsLeaf(n) => Size(st) <= Size(n) + Weight(x)
        /\ Holds(n, x.key) => Len(st.items) = Len(n.items)
      BY ONLY <2>1, StoredIs
  <2> QED BY <2>2 DEF n, P
<1>8. st.items \in Seq(PlainItem)
    BY <1>7 DEF Node
<1>9. IsLeaf(st) => Size(st) <= MaxThreshold + Weight(x)
  <2> SUFFICES ASSUME IsLeaf(st) PROVE Size(st) <= MaxThreshold + Weight(x)
      OBVIOUS
  <2>1. IsLeaf(m[p])
      BY <1>7 DEF IsLeaf
  <2>2. Size(m[p]) \in Nat /\ Size(st) \in Nat /\ Weight(x) \in Nat
      BY <1>6, <1>8, <2>1, LeafSize, WeightIs
  <2>3. Size(m[p]) <= MaxThreshold
      BY <1>1, <1>2, <2>2, NodeAssumption DEF OverPopulated
  <2> QED BY <1>7, <2>1, <2>2, <2>3, NodeAssumption
<1> QED BY <1>2, <1>3, <1>4, <1>5, <1>7, <1>8, <1>9 DEF ItemWritten

\* What _put returns, from the state with the item written.
LEMMA PutUnfolds ==
    ASSUME NEW s, NEW m, NEW root, AtWork(s, m, root), NEW k, k \in Key, NEW v, NEW x,
           x = [key |-> k, val |-> v], NEW p, p = Target(m, root, k),
           NEW st, st = WithItem(m[p], x), NEW path, path = Path(s, root, k),
           NEW s1, s1 = Write(s, p, st), NEW b, b = SplitAncestors(s1, path),
           NEW h, h = RootHeld(s, b, root, path), NEW g, g = SplitRoot(b, root, h),
           NEW r, r = PutInTree(s, root, k, v)
    PROVE  /\ r.newItem = ~Holds(m[p], k)
           /\ OverPopulated(h) =>
                  /\ r.state = [g EXCEPT !.metaRoot = IF @ = root THEN Last(g.allocatedPages) ELSE @]
                  /\ r.root = Last(g.allocatedPages)
           /\ ~OverPopulated(h) => r.state = b /\ r.root = root
<1>1. /\ m = Nodes(s) /\ Shaped(m, root) /\ Ordered(m, root) /\ \A q \in DOMAIN m : Get(s, q) = m[q]
    BY AtWorkHas
<1>2. p \in DOMAIN m /\ Get(s, p) = m[p]
    BY <1>1, TargetIs
<1>3. Last(path).page = p /\ Last(path).at = Slot(m[p], k)
    BY <1>1, LookupIs DEF Visit
<1>4. st = IF Holds(m[p], k) THEN [m[p] EXCEPT !.items[Slot(m[p], k)] = x]
           ELSE AddItem(m[p], Slot(m[p], k), x)
    BY DEF WithItem
<1> DEFINE result == IF OverPopulated(h)
               THEN [state |-> [g EXCEPT !.metaRoot = IF @ = root THEN Last(g.allocatedPages) ELSE @],
                     root |-> Last(g.allocatedPages), newItem |-> ~Holds(m[p], k)]
               ELSE [state |-> b, root |-> root, newItem |-> ~Holds(m[p], k)]
<1>5. r = result
  <2> DEFINE pp == Last(path).page
             i == Last(path).at
             n == Get(s, pp)
             stored == IF Holds(n, k) THEN [n EXCEPT !.items[i] = x] ELSE AddItem(n, i, x)
  <2>1. pp = p /\ n = m[p] /\ i = Slot(m[p], k)
      BY <1>2, <1>3
  <2>2. stored = st
    <3> HIDE DEF n, i
    <3> QED BY <1>4, <2>1
  <2>3. r = LET balanced == SplitAncestors(Write(s, pp, stored), path)
                rootNode == RootHeld(s, balanced, root, path)
                grown == SplitRoot(balanced, root, rootNode)
                newRoot == Last(grown.allocatedPages)
            IN  IF OverPopulated(rootNode)
                THEN [state |-> [grown EXCEPT !.metaRoot = IF @ = root THEN newRoot ELSE @],
                      root |-> newRoot, newItem |-> ~Holds(n, k)]
                ELSE [state |-> balanced, root |-> root, newItem |-> ~Holds(n, k)]
      BY Zenon DEF PutInTree
  <2> HIDE DEF pp, n, stored
  <2>4. r = LET balanced == SplitAncestors(Write(s, p, st), path)
                rootNode == RootHeld(s, balanced, root, path)
                grown == SplitRoot(balanced, root, rootNode)
                newRoot == Last(grown.allocatedPages)
            IN  IF OverPopulated(rootNode)
                THEN [state |-> [grown EXCEPT !.metaRoot = IF @ = root THEN newRoot ELSE @],
                      root |-> newRoot, newItem |-> ~Holds(m[p], k)]
                ELSE [state |-> balanced, root |-> root, newItem |-> ~Holds(m[p], k)]
      BY <2>1, <2>2, <2>3, Zenon
  <2> QED BY <2>4, Zenon
<1>6. CASE OverPopulated(h)
  <2>1. r = [state |-> [g EXCEPT !.metaRoot = IF @ = root THEN Last(g.allocatedPages) ELSE @],
             root |-> Last(g.allocatedPages), newItem |-> ~Holds(m[p], k)]
      BY <1>5, <1>6, Zenon
  <2> QED BY <1>6, <2>1
<1>7. CASE ~OverPopulated(h)
  <2>1. r = [state |-> b, root |-> root, newItem |-> ~Holds(m[p], k)]
      BY <1>5, <1>7, Zenon
  <2> QED BY <1>7, <2>1
<1> QED BY <1>6, <1>7

\* The call r was one of the documented use: it split leaves only, it left no
\* node with children too big, and it grew the tree for a new item only.
OfUse(root, r) ==
    /\ r.root # root => IsLeaf(Get(r.state, root)) /\ r.newItem
    /\ \A p \in AllPages(r.state) :
           ~IsLeaf(Get(r.state, p)) => ~OverPopulated(Get(r.state, p))

\* Nothing was too big: the nodes are those with the item written.
LEMMA PutPlain ==
    ASSUME NEW s, NEW m, NEW root, AtWork(s, m, root), NEW x, NEW p, NEW st, NEW s1, NEW m1,
           ItemWritten(s, m, root, x, p, st, s1, m1), ~OverPopulated(st)
    PROVE  AtWork(s1, m1, root)
<1>1. \A q \in DOMAIN m : ~OverPopulated(m[q])
    BY AtWorkHas
<1>2. \A q \in DOMAIN m1 : ~OverPopulated(m1[q])
    BY <1>1 DEF ItemWritten
<1> QED BY <1>2 DEF AtWork, ItemWritten

\* A leaf that an item of the documented use made too big is split in two that
\* fit.
LEMMA LeafHalves ==
    ASSUME ItemsFit, NEW s, NEW m, NEW root, NEW x, x \in PlainItem, NEW p, NEW st, NEW s1, NEW m1,
           ItemWritten(s, m, root, x, p, st, s1, m1), OverPopulated(st), IsLeaf(st)
    PROVE  /\ Halved(st, SplitIndex(st), LeftHalf(st), Middle(st), RightHalf(st))
           /\ Middle(st) \in PlainItem
           /\ ~OverPopulated(LeftHalf(st)) /\ ~OverPopulated(RightHalf(st))
<1>1. st.items \in Seq(PlainItem) /\ Size(st) <= MaxThreshold + Weight(x)
    BY DEF ItemWritten
<1>2. /\ SplitIndex(st) \in 1 .. Len(st.items)
      /\ ~OverPopulated(LeftHalf(st)) /\ ~OverPopulated(RightHalf(st))
    BY <1>1, SplitFits
<1>3. Halved(st, SplitIndex(st), LeftHalf(st), Middle(st), RightHalf(st)) /\ Middle(st) \in PlainItem
    BY <1>1, <1>2, HalvedIs
<1> QED BY <1>2, <1>3

\* The root was a leaf and has been split under a new root.
LEMMA PutGrows ==
    ASSUME ItemsFit, NEW s, NEW m, NEW root, AtWork(s, m, root), NEW x, x \in PlainItem,
           NEW st, NEW s1, NEW m1, ItemWritten(s, m, root, x, root, st, s1, m1),
           OverPopulated(st), IsLeaf(st), NEW g, g = SplitRoot(s1, root, st), NEW m2, m2 = Nodes(g),
           \A p \in AllPages(g) : ~IsLeaf(Get(g, p)) => ~OverPopulated(Get(g, p))
    PROVE  /\ AtWork(g, m2, Last(g.allocatedPages)) /\ g.file = s.file
           /\ AllItems(m2) = Updated(AllItems(m), x)
<1> DEFINE q == NextPage(s1.fl)
           r == NextPage(AfterNextPage(s1.fl))
           p0 == [items |-> <<>>, kids |-> <<root>>]
           p1 == SplitUnder(p0, 1, st, q)
           left == LeftHalf(st)
           right == RightHalf(st)
           mid == Middle(st)
<1>1. /\ root \in DOMAIN m /\ PagesInv(s1) /\ s1.file = s.file /\ m1 = Nodes(s1) /\ DOMAIN m1 = DOMAIN m
      /\ m1[root] = st /\ Shaped(m1, root) /\ Ordered(m1, root) /\ AllItems(m1) = Updated(AllItems(m), x)
      /\ st \in Node(DOMAIN m)
    BY DEF ItemWritten
<1>2. root \in AllPages(s1)
    BY <1>1, NodesAre
<1>3. /\ PagesInv(g) /\ g.file = s1.file /\ q \notin AllPages(s1) /\ r \notin AllPages(s1) /\ q # r
      /\ m2 = Placed(Placed(Placed(m1, q, right), r, p1), root, left)
      /\ Last(g.allocatedPages) = r /\ AllPages(g) = AllPages(s1) \cup {q, r}
  <2>1. /\ PagesInv(g) /\ g.file = s1.file /\ q \notin AllPages(s1) /\ r \notin AllPages(s1) /\ q # r
        /\ Nodes(g) = Placed(Placed(Placed(Nodes(s1), q, right), r, p1), root, left)
        /\ Last(g.allocatedPages) = r /\ AllPages(g) = AllPages(s1) \cup {q, r}
      BY <1>1, <1>2, SplitRootIs
  <2> QED BY <1>1, <2>1
<1>4. Halved(st, SplitIndex(st), left, mid, right) /\ mid \in PlainItem
      /\ ~OverPopulated(left) /\ ~OverPopulated(right)
    BY LeafHalves
<1>5. Opened({root, r, q}, p0, 1, mid, q, p1)
  <2>1. p0 \in Node({root, r}) /\ Len(p0.kids) = Len(p0.items) + 1 /\ 1 \in 1 .. Len(p0.kids)
      BY DEF Node
  <2>2. Opened({root, r} \cup {q}, p0, 1, mid, q, p1)
    <3> HIDE DEF p0, q, r
    <3> QED BY <1>4, <2>1, OpenedIs
  <2>3. {root, r} \cup {q} = {root, r, q}
      OBVIOUS
  <2> HIDE DEF p0, p1, mid, q, r
  <2> QED BY <2>2, <2>3
<1> HIDE DEF q, r, p1, left, right, mid
<1>6. q # root /\ r # root
    BY <1>2, <1>3
<1>7. /\ DOMAIN m2 = {root, q, r} /\ m2[root] = left /\ m2[q] = right /\ m2[r] = p1
      /\ Tree(m2, r) /\ Ordered(m2, r) /\ ~IsLeaf(m2[r])
      /\ AllItems(m2) = AllItems(m1)
  <2>1. Halved(m1[root], SplitIndex(st), left, mid, right) /\ IsLeaf(m1[root])
      BY <1>1, <1>4
  <2> DEFINE i == SplitIndex(st)
  <2>2. LeafGrows(m1, root, q, r, i, left, mid, right, p1, m2)
      BY <1>1, <1>3, <1>4, <1>5, <1>6, <2>1 DEF LeafGrows
  <2>3. LeafIsGrown(m1, root, q, r, left, right, p1, m2)
      BY ONLY <2>2, GrowTree
  <2> QED BY <2>3 DEF LeafIsGrown
<1>8. ~OverPopulated(m2[r])
  <2>1. r \in AllPages(g)
      BY <1>3
  <2>2. Get(g, r) = m2[r]
      BY <2>1, NodesAre
  <2> QED BY <1>7, <2>1, <2>2
<1>9. \A p \in DOMAIN m2 : ~OverPopulated(m2[p])
    BY <1>4, <1>7, <1>8
<1>10. AtWork(g, m2, r)
    BY <1>3, <1>7, <1>9 DEF AtWork
<1> QED BY <1>1, <1>3, <1>7, <1>10

\* A leaf below the root was split and the root got the middle item.
LEMMA PutSplits ==
    ASSUME ItemsFit, NEW s, NEW m, NEW root, AtWork(s, m, root), NEW x, x \in PlainItem,
           NEW p, p # root, NEW j, j \in 1 .. Len(m[root].kids), p = m[root].kids[j],
           NEW st, NEW s1, NEW m1, ItemWritten(s, m, root, x, p, st, s1, m1),
           OverPopulated(st), NEW b, b = SplitChild(s1, root, j), NEW m2, m2 = Nodes(b),
           NEW q, q = NextPage(s1.fl)
    PROVE  /\ PagesInv(b) /\ b.file = s.file /\ root \in DOMAIN b.dirtyNodes
           /\ LeafIsSplit(m1, root, p, q, LeftHalf(st), RightHalf(st), SplitUnder(m[root], j, st, q), m2)
           /\ ~OverPopulated(LeftHalf(st)) /\ ~OverPopulated(RightHalf(st))
           /\ Len(m2[root].items) = Len(m[root].items) + 1
<1> DEFINE p1 == SplitUnder(m[root], j, st, q)
           left == LeftHalf(st)
           right == RightHalf(st)
           mid == Middle(st)
<1>0. Shaped(m, root) /\ root \in DOMAIN m
    BY AtWorkHas
<1>1. /\ p \in DOMAIN m /\ PagesInv(s1) /\ s1.file = s.file /\ m1 = Nodes(s1) /\ DOMAIN m1 = DOMAIN m
      /\ m1[p] = st /\ m1[root] = m[root] /\ Shaped(m1, root) /\ Ordered(m1, root)
      /\ AllItems(m1) = Updated(AllItems(m), x) /\ st.kids = m[p].kids
    BY <1>0 DEF ItemWritten
<1>2. DOMAIN m1 = AllPages(s1) /\ Get(s1, root) = m[root] /\ Get(s1, p) = st
    BY <1>0, <1>1, NodesAre
<1>3. IsLeaf(st)
  <2>1. IsLeaf(m[p])
      BY <1>0, <1>1, ShapedIs
  <2> QED BY <1>1, <2>1 DEF IsLeaf
<1>4. Halved(st, SplitIndex(st), left, mid, right) /\ mid \in PlainItem
      /\ ~OverPopulated(left) /\ ~OverPopulated(right)
    BY <1>3, LeafHalves
<1>5. ~IsLeaf(m1[root])
  <2>1. DOMAIN m # {root}
      BY <1>1
  <2> QED BY <1>0, <1>1, <2>1, ShapedIs
<1>6. /\ PagesInv(b) /\ b.file = s1.file /\ q \notin AllPages(s1) /\ root \in DOMAIN b.dirtyNodes
      /\ m2 = Placed(Placed(Placed(m1, q, right), root, p1), p, left)
  <2>1. root \in AllPages(s1) /\ p \in AllPages(s1) /\ p = Get(s1, root).kids[j] /\ st = Get(s1, p)
        /\ p1 = SplitUnder(Get(s1, root), j, st, q)
      BY <1>0, <1>1, <1>2
  <2> HIDE DEF p1
  <2>2. /\ PagesInv(b) /\ b.file = s1.file /\ q \notin AllPages(s1) /\ root \in DOMAIN b.dirtyNodes
        /\ Nodes(b) = Placed(Placed(Placed(Nodes(s1), q, right), root, p1), p, left)
      BY <1>1, <2>1, SplitChildIs
  <2> QED BY <1>1, <2>2
<1>7. Opened(DOMAIN m1 \cup {q}, m1[root], j, mid, q, p1)
  <2>1. m1[root] \in Node(DOMAIN m1) /\ Len(m1[root].kids) = Len(m1[root].items) + 1
      BY <1>0, <1>1, <1>5, KidsIs, ShapedIs
  <2>2. j \in 1 .. Len(m1[root].kids) /\ p1 = SplitUnder(m1[root], j, st, q)
      BY <1>1
  <2> HIDE DEF p1
  <2> QED BY <1>4, <2>1, <2>2, OpenedIs
<1> HIDE DEF p1, left, right, mid
<1>8. LeafSplits(m1, root, j, p, q, SplitIndex(st), left, mid, right, p1, m2)
    BY <1>1, <1>2, <1>4, <1>5, <1>6, <1>7 DEF LeafSplits
<1>9. LeafIsSplit(m1, root, p, q, left, right, p1, m2)
    BY ONLY <1>8, SplitTree
<1>10. Len(m2[root].items) = Len(m[root].items) + 1
    BY <1>1, <1>7, <1>9 DEF LeafIsSplit, Opened
<1> QED BY <1>1, <1>4, <1>6, <1>9, <1>10 DEF p1, left, right

\* Container::_put in the documented use: the tree of the root it returns holds
\* the item for the one with its key, and the state is again one at work.
LEMMA PutIs ==
    ASSUME ItemsFit, NEW s, NEW m, NEW root, AtWork(s, m, root), NEW k, k \in Key, NEW v, v \in Value,
           NEW x, x = [key |-> k, val |-> v], NEW r, r = PutInTree(s, root, k, v), OfUse(root, r)
    PROVE  /\ AtWork(r.state, Nodes(r.state), r.root) /\ r.state.file = s.file
           /\ AllItems(Nodes(r.state)) = Updated(AllItems(m), x)
           /\ r.newItem <=> \A y \in AllItems(m) : y.key # k
<1>1. x \in PlainItem /\ x.key = k
    BY DEF PlainItem
<1> DEFINE p == Target(m, root, k)
           st == WithItem(m[p], x)
           path == Path(s, root, k)
           s1 == Write(s, p, st)
           m1 == Nodes(s1)
           b == SplitAncestors(s1, path)
           h == RootHeld(s, b, root, path)
           g == SplitRoot(b, root, h)
<1>2. /\ PagesInv(s) /\ m = Nodes(s) /\ Shaped(m, root) /\ Ordered(m, root) /\ root \in DOMAIN m
      /\ DOMAIN m = AllPages(s) /\ \A q \in DOMAIN m : Get(s, q) = m[q] /\ ~OverPopulated(m[q])
      /\ (~IsLeaf(m[root]) => m[root].items # <<>>) /\ root # CollectionsRoot /\ root \in Nat
    BY AtWorkHas
<1>3. ItemWritten(s, m, root, x, p, st, s1, m1)
    BY <1>1, WritesItem
<1>4. path = IF p = root THEN <<Visit(m, root, k)>> ELSE <<Visit(m, root, k), Visit(m, p, k)>>
    BY <1>2, PathIs
<1>5. /\ r.newItem = ~Holds(m[p], k)
      /\ OverPopulated(h) =>
             /\ r.state = [g EXCEPT !.metaRoot = IF @ = root THEN Last(g.allocatedPages) ELSE @]
             /\ r.root = Last(g.allocatedPages)
      /\ ~OverPopulated(h) => r.state = b /\ r.root = root
    BY PutUnfolds
<1>6. /\ p \in DOMAIN m
      /\ p # root => /\ ~IsLeaf(m[root]) /\ IsLeaf(m[p]) /\ Slot(m[root], k) \in 1 .. Len(m[root].kids)
                     /\ p = m[root].kids[Slot(m[root], k)]
      /\ p = root => IsLeaf(m[root]) \/ Holds(m[root], k)
    BY <1>2, TargetIs
<1> HIDE DEF p, st, path, s1, m1, b, h, g
<1>7. /\ PagesInv(s1) /\ s1.file = s.file /\ m1 = Nodes(s1) /\ DOMAIN m1 = DOMAIN m /\ m1[p] = st
      /\ p # root => m1[root] = m[root]
      /\ AllItems(m1) = Updated(AllItems(m), x) /\ st.kids = m[p].kids
      /\ Tree(m1, root) /\ Ordered(m1, root) /\ Shaped(m1, root)
    BY <1>2, <1>3 DEF ItemWritten
<1>8. DOMAIN m1 = AllPages(s1) /\ \A q \in DOMAIN m1 : Get(s1, q) = m1[q]
    BY <1>7, NodesAre
<1>9. r.newItem <=> \A y \in AllItems(m) : y.key # k
  <2>1. m[p].items \in Seq(PlainItem) /\ Sorted(m[p].items)
      BY <1>2, <1>6, ShapedIs DEF Ordered
  <2>2. ASSUME NEW y \in AllItems(m), y.key = k PROVE Holds(m[p], k)
    <3>1. y \in Range(m[p].items)
        BY <1>2, <2>2, KeysOnce DEF p
    <3> QED BY <2>1, <2>2, <3>1, RangeIs DEF Holds, Keys
  <2>3. ASSUME Holds(m[p], k) PROVE \E y \in AllItems(m) : y.key = k
    <3>1. PICK i \in DOMAIN m[p].items : m[p].items[i].key = k
        BY <2>3 DEF Holds, Keys
    <3>2. m[p].items[i] \in Range(m[p].items)
        BY <2>1, RangeIs
    <3> QED BY <1>6, <3>1, <3>2 DEF AllItems
  <2> QED BY <1>5, <2>2, <2>3
<1>10. /\ r.root # root => IsLeaf(Get(r.state, root)) /\ r.newItem
       /\ \A q \in AllPages(r.state) : ~IsLeaf(Get(r.state, q)) => ~OverPopulated(Get(r.state, q))
    BY DEF OfUse
<1>11. CASE ~OverPopulated(st)
  <2>1. b = s1
    <3>1. CASE p = root
        BY <1>4, <3>1, SplitNone DEF b
    <3>2. CASE p # root
      <4>1. b = IF OverPopulated(Get(s1, Visit(m, p, k).page))
                THEN SplitChild(s1, Visit(m, root, k).page, Visit(m, root, k).at) ELSE s1
          BY <1>4, <3>2, SplitOne DEF b
      <4>2. Get(s1, Visit(m, p, k).page) = st
          BY <1>6, <1>7, <1>8 DEF Visit
      <4> QED BY <1>11, <4>1, <4>2
    <3> QED BY <3>1, <3>2
  <2>2. ~OverPopulated(h)
    <3>1. h = m1[root] \/ h = m[root]
        BY <1>2, <1>7, <1>8, <2>1 DEF h, RootHeld
    <3> QED BY <1>2, <1>7, <1>11, <3>1
  <2>3. AtWork(s1, m1, root)
      BY <1>3, <1>11, PutPlain
  <2> QED BY <1>5, <1>7, <1>9, <2>1, <2>2, <2>3
<1>12. CASE OverPopulated(st) /\ p = root
  <2>1. b = s1
      BY <1>4, <1>12, SplitNone DEF b
  <2>2. h = st
    <3>1. Len(path) = 1
        BY <1>4, <1>12
    <3> QED BY <1>2, <1>7, <1>8, <1>12, <2>1, <3>1 DEF h, RootHeld
  <2>3. g = SplitRoot(s1, root, st)
      BY <2>1, <2>2 DEF g
  <2>4. PagesInv(g) /\ g.metaRoot = CollectionsRoot /\ Last(g.allocatedPages) \notin AllPages(s1) /\ IsTx(g)
    <3> DEFINE c == NextPage(s1.fl)
               r1 == NextPage(AfterNextPage(s1.fl))
               n1 == SplitUnder([items |-> <<>>, kids |-> <<root>>], 1, st, c)
    <3>1. root \in AllPages(s1)
        BY <1>2, <1>7, <1>8
    <3>2. /\ PagesInv(g) /\ g.metaRoot = CollectionsRoot /\ Last(g.allocatedPages) = r1 /\ r1 \notin AllPages(s1)
          /\ Nodes(g) = Placed(Placed(Placed(Nodes(s1), c, RightHalf(st)), r1, n1), root, LeftHalf(st))
        BY <1>7, <2>3, <3>1, SplitRootIs
    <3> HIDE DEF c, r1, n1
    <3> QED BY <3>2, PagesAre
  <2>5. r.state = g /\ r.root = Last(g.allocatedPages)
    <3>1. [g EXCEPT !.metaRoot = IF @ = root THEN Last(g.allocatedPages) ELSE @] = g
        BY <1>2, <2>4 DEF IsTx
    <3> QED BY <1>5, <1>12, <2>2, <3>1
  <2>6. r.root # root
      BY <1>2, <1>7, <1>8, <2>4, <2>5
  <2>7. IsLeaf(st)
      BY <1>5, <1>6, <1>7, <1>10, <1>12, <2>6 DEF IsLeaf
  <2>8. /\ AtWork(g, Nodes(g), Last(g.allocatedPages)) /\ g.file = s.file
        /\ AllItems(Nodes(g)) = Updated(AllItems(m), x)
    <3>1. \A q \in AllPages(g) : ~IsLeaf(Get(g, q)) => ~OverPopulated(Get(g, q))
        BY <1>10, <2>5
    <3>2. ItemWritten(s, m, root, x, root, st, s1, m1)
        BY <1>3, <1>12
    <3> QED BY <1>1, <1>12, <2>3, <2>7, <3>1, <3>2, PutGrows
  <2> QED BY <1>9, <2>5, <2>8
<1>13. CASE OverPopulated(st) /\ p # root
  <2> DEFINE j == Slot(m[root], k)
             q == NextPage(s1.fl)
             p1 == SplitUnder(m[root], j, st, q)
             m2 == Nodes(b)
  <2>1. b = SplitChild(s1, root, j)
    <3>1. b = IF OverPopulated(Get(s1, Visit(m, p, k).page))
              THEN SplitChild(s1, Visit(m, root, k).page, Visit(m, root, k).at) ELSE s1
        BY <1>4, <1>13, SplitOne DEF b
    <3>2. Get(s1, Visit(m, p, k).page) = st /\ Visit(m, root, k).page = root /\ Visit(m, root, k).at = j
        BY <1>6, <1>7, <1>8 DEF Visit
    <3> HIDE DEF j
    <3> QED BY <1>13, <3>1, <3>2
  <2>2. j \in 1 .. Len(m[root].kids) /\ p = m[root].kids[j]
      BY <1>6, <1>13
  <2> HIDE DEF j
  <2>3. /\ PagesInv(b) /\ b.file = s.file /\ root \in DOMAIN b.dirtyNodes
        /\ LeafIsSplit(m1, root, p, q, LeftHalf(st), RightHalf(st), p1, m2)
        /\ ~OverPopulated(LeftHalf(st)) /\ ~OverPopulated(RightHalf(st))
        /\ Len(m2[root].items) = Len(m[root].items) + 1
      BY <1>1, <1>3, <1>13, <2>1, <2>2, PutSplits
  <2> HIDE DEF q, p1, m2
  <2>4. /\ DOMAIN m2 = DOMAIN m1 \cup {q} /\ m2[p] = LeftHalf(st) /\ m2[q] = RightHalf(st) /\ m2[root] = p1
        /\ \A c \in DOMAIN m1 : c # p /\ c # root => m2[c] = m1[c]
        /\ Tree(m2, root) /\ Ordered(m2, root) /\ ~IsLeaf(m2[root]) /\ AllItems(m2) = AllItems(m1)
      BY <2>3 DEF LeafIsSplit
  <2>5. DOMAIN m2 = AllPages(b) /\ \A c \in DOMAIN m2 : Get(b, c) = m2[c]
      BY NodesAre DEF m2
  <2>6. h = p1 \/ h = m[root]
    <3>1. root \in DOMAIN m2
        BY <1>2, <1>7, <2>4
    <3> QED BY <1>2, <2>4, <2>5, <3>1 DEF h, RootHeld
  <2>7. CASE ~OverPopulated(h)
    <3>1. r.state = b /\ r.root = root
        BY <1>5, <2>7
    <3>2. ~OverPopulated(m2[root])
      <4>1. root \in AllPages(b)
          BY <1>2, <1>7, <2>4, <2>5
      <4> QED BY <1>10, <2>4, <2>5, <3>1, <4>1
    <3>3. \A c \in DOMAIN m2 : ~OverPopulated(m2[c])
      <4> SUFFICES ASSUME NEW c \in DOMAIN m2 PROVE ~OverPopulated(m2[c])
          OBVIOUS
      <4>1. CASE c = p \/ c = q \/ c = root
          BY <2>3, <2>4, <3>2, <4>1
      <4>2. CASE c # p /\ c # q /\ c # root
        <5>1. c \in DOMAIN m /\ m2[c] = m1[c] /\ m1[c] = m[c]
            BY <1>3, <1>7, <2>4, <4>2 DEF ItemWritten
        <5> QED BY <1>2, <5>1
      <4> QED BY <4>1, <4>2
    <3>4. AtWork(b, m2, root)
        BY <2>3, <2>4, <3>3 DEF AtWork, m2
    <3> QED BY <1>7, <1>9, <2>3, <2>4, <3>1, <3>4 DEF m2
  <2>8. CASE OverPopulated(h)
    <3>1. h = p1 /\ h = m2[root]
        BY <1>2, <2>4, <2>6, <2>8
    <3>2. root \in AllPages(b)
        BY <1>2, <1>7, <2>4, <2>5
    <3>3. /\ PagesInv(g) /\ g.metaRoot = CollectionsRoot /\ Last(g.allocatedPages) \notin AllPages(b)
          /\ \E c, r1, n1 : Nodes(g) = Placed(Placed(Placed(m2, c, RightHalf(h)), r1, n1), root, LeftHalf(h))
          /\ IsTx(g) /\ root \in AllPages(g)
      <4>1. SplitRoot(b, root, h) = g
          BY DEF g
      <4> DEFINE c == NextPage(b.fl)
                 r1 == NextPage(AfterNextPage(b.fl))
                 n1 == SplitUnder([items |-> <<>>, kids |-> <<root>>], 1, h, c)
      <4>2. /\ PagesInv(g) /\ g.metaRoot = CollectionsRoot /\ Last(g.allocatedPages) = r1 /\ r1 \notin AllPages(b)
            /\ Nodes(g) = Placed(Placed(Placed(Nodes(b), c, RightHalf(h)), r1, n1), root, LeftHalf(h))
            /\ AllPages(g) = AllPages(b) \cup {c, r1}
          BY <2>3, <3>2, <4>1, SplitRootIs
      <4> HIDE DEF c, r1, n1
      <4> QED BY <3>2, <4>2, PagesAre DEF m2
    <3>4. r.state = g /\ r.root # root
      <4>1. [g EXCEPT !.metaRoot = IF @ = root THEN Last(g.allocatedPages) ELSE @] = g
          BY <1>2, <3>3 DEF IsTx
      <4> QED BY <1>5, <2>8, <3>2, <3>3, <4>1
    <3>5. Get(g, root) = LeftHalf(h)
      <4>1. Get(g, root) = Nodes(g)[root]
          BY <3>3, NodesAre
      <4> QED BY <3>3, <4>1 DEF Placed
    <3>6. ~IsLeaf(LeftHalf(h))
      <4>1. /\ Shaped(m2, root) /\ ~IsLeaf(h) /\ h \in Node(DOMAIN m2) /\ Len(h.kids) = Len(h.items) + 1
        <5>1. Shaped(m2, root)
            BY <2>4 DEF Tree
        <5>2. root \in DOMAIN m2 /\ m2[root] \in Node(DOMAIN m2)
            BY <5>1, ShapedIs
        <5>3. Len(m2[root].kids) = Len(m2[root].items) + 1
            BY <2>4, <5>1, KidsIs
        <5> QED BY <2>4, <3>1, <5>1, <5>2, <5>3
      <4>2. Len(h.items) >= 2
        <5>1. m[root].items \in Seq(PlainItem) /\ m[root].items # <<>>
            BY <1>2, <1>6, <1>13, ShapedIs
        <5>2. Len(m[root].items) >= 1
            BY <5>1
        <5> QED BY <2>3, <3>1, <5>1, <5>2
      <4> QED BY <4>1, <4>2, InnerHalf
    <3> QED BY <1>10, <3>4, <3>5, <3>6
  <2> QED BY <2>7, <2>8
<1> QED BY <1>11, <1>12, <1>13

\* What _remove returns unless the root has lost its last item.
LEMMA RemoveUnfolds ==
    ASSUME NEW s, NEW m, NEW root, AtWork(s, m, root), NEW k, k \in Key, NEW p, p = Target(m, root, k),
           NEW i, i = Slot(m[p], k), NEW path, path = Path(s, root, k),
           NEW below, below = IF IsLeaf(m[p]) THEN <<>> ELSE PredecessorPath(s, m[p].kids[i]),
           NEW a, a = IF below = <<>> THEN RemoveFromLeaf(s, p, i)
                      ELSE RemoveFromInternal(s, p, i, Last(below).page),
           NEW b, b = RebalanceAncestors(a, path \o below),
           NEW h, h = RootHeld(s, b, root, path), NEW r, r = RemoveFromTree(s, root, k)
    PROVE  h.items # <<>> \/ IsLeaf(h) => r.state = b /\ r.root = root
<1>1. /\ m = Nodes(s) /\ Shaped(m, root) /\ Ordered(m, root) /\ \A q \in DOMAIN m : Get(s, q) = m[q]
    BY AtWorkHas
<1>2. p \in DOMAIN m /\ Get(s, p) = m[p]
    BY <1>1, TargetIs
<1>3. Last(path).page = p /\ Last(path).at = i
    BY <1>1, LookupIs DEF Visit
<1> SUFFICES ASSUME h.items # <<>> \/ IsLeaf(h) PROVE r.state = b /\ r.root = root
    OBVIOUS
<1>4. r = [state |-> b, root |-> root]
  <2> DEFINE pp == Last(path).page
             ii == Last(path).at
  <2>1. r = LET bel == IF IsLeaf(Get(s, pp)) THEN <<>> ELSE PredecessorPath(s, Get(s, pp).kids[ii])
                removed == IF bel = <<>> THEN RemoveFromLeaf(s, pp, ii)
                           ELSE RemoveFromInternal(s, pp, ii, Last(bel).page)
                balanced == RebalanceAncestors(removed, path \o bel)
                rootNode == RootHeld(s, balanced, root, path)
            IN  IF rootNode.items = <<>> /\ ~IsLeaf(rootNode)
                THEN LET child == Head(Get(balanced, root).kids)
                     IN  [state |-> [Delete(balanced, root) EXCEPT !.metaRoot = child],
                          root |-> child]
                ELSE [state |-> balanced, root |-> root]
      BY Zenon DEF RemoveFromTree
  <2>2. pp = p /\ ii = i
      BY <1>3
  <2> HIDE DEF pp, ii
  <2>3. below = IF IsLeaf(Get(s, pp)) THEN <<>> ELSE PredecessorPath(s, Get(s, pp).kids[ii])
      BY <1>2, <2>2
  <2>4. a = IF below = <<>> THEN RemoveFromLeaf(s, pp, ii)
            ELSE RemoveFromInternal(s, pp, ii, Last(below).page)
      BY <2>2
  <2>5. r = IF h.items = <<>> /\ ~IsLeaf(h)
            THEN LET child == Head(Get(b, root).kids)
                 IN  [state |-> [Delete(b, root) EXCEPT !.metaRoot = child],
                      root |-> child]
            ELSE [state |-> b, root |-> root]
      BY <2>1, <2>3, <2>4, Zenon
  <2> QED BY <2>5, Zenon
<1> QED BY <1>4

\* Container::_remove in the documented use, of a key that is there: the same
\* root, and the items without the one of that key.
LEMMA RemoveKeyIs ==
    ASSUME NEW s, NEW m, NEW root, AtWork(s, m, root), NEW k, k \in Key,
           NEW z, z \in AllItems(m), z.key = k, NEW p, p = Target(m, root, k), NEW i, i = Slot(m[p], k),
           ~IsLeaf(m[p]) => m[m[p].kids[i]].items # <<>>,
           NEW r, r = RemoveFromTree(s, root, k),
           \A q \in AllPages(r.state) : ~IsLeaf(Get(r.state, q)) => ~OverPopulated(Get(r.state, q))
    PROVE  /\ AtWork(r.state, Nodes(r.state), root) /\ r.root = root
           /\ r.state.file = s.file /\ r.state.fl = s.fl
           /\ AllItems(Nodes(r.state)) = Without(AllItems(m), k)
<1> DEFINE path == Path(s, root, k)
           below == IF IsLeaf(m[p]) THEN <<>> ELSE PredecessorPath(s, m[p].kids[i])
           a == IF below = <<>> THEN RemoveFromLeaf(s, p, i)
                ELSE RemoveFromInternal(s, p, i, Last(below).page)
           b == RebalanceAncestors(a, path \o below)
           h == RootHeld(s, b, root, path)
<1>1. /\ PagesInv(s) /\ m = Nodes(s) /\ Shaped(m, root) /\ Tree(m, root) /\ Ordered(m, root)
      /\ root \in DOMAIN m
      /\ DOMAIN m = AllPages(s) /\ \A q \in DOMAIN m : Get(s, q) = m[q] /\ ~OverPopulated(m[q])
      /\ (~IsLeaf(m[root]) => m[root].items # <<>>)
    BY AtWorkHas
<1>2. path = IF p = root THEN <<Visit(m, root, k)>> ELSE <<Visit(m, root, k), Visit(m, p, k)>>
    BY <1>1, PathIs
<1>3. h.items # <<>> \/ IsLeaf(h) => r.state = b /\ r.root = root
    BY RemoveUnfolds
<1>4. p # root => IsLeaf(m[p])
    BY <1>1, TargetIs
<1> HIDE DEF path, b, h
<1>5. p \in DOMAIN m
    BY <1>1, TargetIs
<1>6. m[p] \in Node(DOMAIN m) /\ m[p].items \in Seq(PlainItem) /\ Sorted(m[p].items)
    BY <1>1, <1>5, ShapedIs DEF Ordered
<1>7. i \in 1 .. Len(m[p].items) /\ m[p].items[i].key = k
  <2>1. z \in Range(m[p].items)
      BY <1>1, KeysOnce
  <2>2. Holds(m[p], k)
      BY <1>6, <2>1, RangeIs DEF Holds, Keys
  <2> QED BY <1>6, <2>2, SlotOfHeld
<1>8. CASE IsLeaf(m[p])
  <2> DEFINE n1 == [m[p] EXCEPT !.items = RemoveAt(@, i)]
             m1 == Nodes(a)
  <2>1. below = <<>>
      BY <1>8
  <2>2. a = Write(s, p, n1)
    <3>1. a = RemoveFromLeaf(s, p, i)
        BY <2>1
    <3> HIDE DEF a
    <3> QED BY <1>1, <1>5, <3>1 DEF RemoveFromLeaf
  <2> HIDE DEF below, a
  <2>3. Shortened(DOMAIN m, m[p], i, n1)
      BY <1>6, <1>7, ShortenedIs
  <2> HIDE DEF n1
  <2>4. PagesInv(a) /\ a.file = s.file /\ a.fl = s.fl /\ m1 = Placed(m, p, n1)
      BY <1>1, <1>5, <2>2, PagesWrite
  <2>5. /\ DOMAIN m1 = DOMAIN m
        /\ m1[p] = n1 /\ \A q \in DOMAIN m : q # p => m1[q] = m[q]
        /\ Tree(m1, root) /\ Ordered(m1, root)
        /\ AllItems(m1) = Without(AllItems(m), k)
    <3>1. /\ Tree(m, root) /\ Ordered(m, root) /\ k \in Key /\ p = Target(m, root, k) /\ IsLeaf(m[p])
          /\ Shortened(DOMAIN m, m[p], i, n1) /\ m[p].items[i].key = k /\ m1 = Placed(m, p, n1)
        BY <1>1, <1>7, <1>8, <2>3, <2>4
    <3> HIDE DEF m1
    <3> QED BY ONLY <3>1, RemoveTree
  <2>6. ~OverPopulated(n1) /\ IsLeaf(n1)
    <3>1. n1.kids = m[p].kids /\ Size(n1) <= Size(m[p]) /\ n1.items \in Seq(PlainItem)
        BY <1>6, <1>8, <2>3, ShortenedHas DEF Node
    <3>2. IsLeaf(n1)
        BY <1>8, <3>1 DEF IsLeaf
    <3>3. Size(n1) \in Nat /\ Size(m[p]) \in Nat
        BY <1>6, <1>8, <3>1, <3>2, LeafSize
    <3> QED BY <1>1, <1>5, <3>1, <3>2, <3>3, NodeAssumption DEF OverPopulated
  <2>7. DOMAIN m1 = AllPages(a) /\ \A q \in DOMAIN m1 : Get(a, q) = m1[q]
      BY NodesAre
  <2> HIDE DEF m1
  <2>8. path \o below = path
      BY <1>2, <2>1
  <2>9. b = a
    <3>1. CASE p = root
        BY <1>2, <2>8, <3>1, RebalanceNone DEF b
    <3>2. CASE p # root
      <4>1. b = IF OverPopulated(Get(a, Visit(m, p, k).page))
                THEN RebalanceAfterRemove(a, Visit(m, root, k).page, Visit(m, root, k).at) ELSE a
        <5>1. b = RebalanceAncestors(a, <<Visit(m, root, k), Visit(m, p, k)>>)
            BY <1>2, <2>8, <3>2 DEF b
        <5> QED BY ONLY <5>1, RebalanceOne
      <4>2. Get(a, Visit(m, p, k).page) = n1
          BY <1>5, <2>5, <2>7 DEF Visit
      <4> QED BY <2>6, <4>1, <4>2
    <3> QED BY <3>1, <3>2
  <2>10. h.items # <<>> \/ IsLeaf(h)
    <3>1. CASE p = root
      <4>1. Len(path) = 1
          BY <1>2, <3>1
      <4>2. h = n1
          BY <1>1, <2>5, <2>7, <2>9, <3>1, <4>1 DEF h, RootHeld
      <4> QED BY <2>6, <4>2
    <3>2. CASE p # root
      <4>1. h = m[root]
          BY <1>1, <2>5, <2>7, <2>9, <3>2 DEF h, RootHeld
      <4> QED BY <1>1, <4>1
    <3> QED BY <3>1, <3>2
  <2>11. \A q \in DOMAIN m1 : ~OverPopulated(m1[q])
      BY <1>1, <2>5, <2>6
  <2>12. AtWork(a, m1, root)
      BY <2>4, <2>5, <2>11 DEF AtWork, m1
  <2> QED BY <1>3, <2>4, <2>5, <2>9, <2>10, <2>12 DEF m1
<1>9. CASE ~IsLeaf(m[p])
  <2> DEFINE c == m[root].kids[i]
             x == m[c].items[Len(m[c].items)]
             n1 == [m[root] EXCEPT !.items[i] = x]
             c1 == [m[c] EXCEPT !.items = Front(@)]
             a1 == Write(s, root, n1)
             m1 == Nodes(a)
  <2>1. p = root
      BY <1>4, <1>9
  <2>2. c \in DOMAIN m /\ c # root /\ IsLeaf(m[c]) /\ i \in 1 .. Len(m[root].items) /\ m[root].items[i].key = k
    <3>1. Len(m[root].kids) = Len(m[root].items) + 1 /\ Len(m[root].items) \in Nat
        BY <1>1, <1>6, <1>9, <2>1, KidsIs
    <3>2. i \in 1 .. Len(m[root].kids)
        BY <1>7, <2>1, <3>1
    <3> QED BY <1>1, <1>7, <1>9, <2>1, <3>2, KidsIs
  <2>3. below = <<[page |-> c, at |-> 0]>>
      BY <1>1, <1>9, <2>1, <2>2, PredecessorIs
  <2>4. m[c] \in Node(DOMAIN m) /\ m[c].items # <<>> /\ Sorted(m[c].items)
      BY <1>1, <1>9, <2>1, <2>2, ShapedIs, Zenon DEF Ordered
  <2>5. Shortened(DOMAIN m, m[c], Len(m[c].items), c1) /\ Last(m[c].items) = x
      BY <2>4, FrontIs, Zenon
  <2>6. a = Write(a1, c, c1)
    <3>1. below # <<>> /\ Last(below).page = c
      <4> DEFINE w == [page |-> c, at |-> 0]
      <4>1. w.page = c /\ Last(<<w>>) = w /\ <<w>> # <<>>
          BY DEF Last
      <4> HIDE DEF w
      <4>2. below = <<w>>
          BY <2>3 DEF w
      <4> QED BY <4>1, <4>2
    <3>2. a = RemoveFromInternal(s, root, i, c)
        BY <2>1, <3>1
    <3>3. Get(s, root) = m[root] /\ Get(s, c) = m[c]
        BY <1>1, <2>2
    <3> HIDE DEF a, c, x
    <3> QED BY <2>5, <3>2, <3>3 DEF RemoveFromInternal
  <2> HIDE DEF a, below, x, n1, c1
  <2>7. PagesInv(a1) /\ a1.file = s.file /\ a1.fl = s.fl /\ AllPages(a1) = AllPages(s) /\ Nodes(a1) = Placed(m, root, n1)
      BY <1>1, PagesWrite
  <2> HIDE DEF a1, c
  <2>8. PagesInv(a) /\ a.file = s.file /\ a.fl = s.fl /\ m1 = Placed(Placed(m, root, n1), c, c1)
    <3>1. c \in AllPages(a1)
        BY <1>1, <2>2, <2>7
    <3> QED BY <2>6, <2>7, <3>1, PagesWrite
  <2> HIDE DEF m1
  <2>9. ItemReplaced(m, root, k, i, c, x, n1, c1, m1)
      BY <1>1, <1>9, <2>1, <2>2, <2>5, <2>8, Zenon DEF ItemReplaced, c, x, n1
  <2>10. ItemIsReplaced(m, root, k, c, n1, c1, m1)
      BY ONLY <2>9, ReplaceTree
  <2>11. /\ DOMAIN m1 = DOMAIN m /\ m1[root] = n1 /\ m1[c] = c1
         /\ \A q \in DOMAIN m : q # root /\ q # c => m1[q] = m[q]
         /\ Tree(m1, root) /\ Ordered(m1, root) /\ ~IsLeaf(m1[root]) /\ m1[root].items # <<>>
         /\ AllItems(m1) = Without(AllItems(m), k)
      BY <2>10 DEF ItemIsReplaced
  <2>12. ~OverPopulated(c1)
    <3>1. c1.kids = m[c].kids /\ Size(c1) <= Size(m[c]) /\ c1.items \in Seq(PlainItem) /\ m[c].items \in Seq(PlainItem)
        BY <2>2, <2>4, <2>5, ShortenedHas DEF Node
    <3>2. IsLeaf(c1)
        BY <2>2, <3>1 DEF IsLeaf
    <3>3. Size(c1) \in Nat /\ Size(m[c]) \in Nat
        BY <2>2, <3>1, <3>2, LeafSize
    <3> QED BY <1>1, <2>2, <3>1, <3>3, NodeAssumption DEF OverPopulated
  <2>13. DOMAIN m1 = AllPages(a) /\ \A q \in DOMAIN m1 : Get(a, q) = m1[q]
      BY NodesAre DEF m1
  <2>14. b = a
    <3> DEFINE w == [page |-> c, at |-> 0]
    <3>1. path \o below = <<Visit(m, root, k), w>>
        BY <1>2, <2>1, <2>3, PairIs DEF c
    <3>2. w.page = c
        OBVIOUS
    <3> HIDE DEF w
    <3>3. b = IF OverPopulated(Get(a, w.page))
              THEN RebalanceAfterRemove(a, Visit(m, root, k).page, Visit(m, root, k).at) ELSE a
        BY <3>1, RebalanceOne DEF b
    <3>4. Get(a, c) = c1
        BY <2>2, <2>11, <2>13
    <3> QED BY <2>12, <3>2, <3>3, <3>4
  <2>15. h = n1
    <3>1. Len(path) = 1
        BY <1>2, <2>1
    <3> QED BY <1>1, <2>11, <2>13, <2>14, <3>1 DEF h, RootHeld
  <2>16. r.state = a /\ r.root = root
      BY <1>3, <2>11, <2>14, <2>15
  <2>17. ~OverPopulated(m1[root])
      BY <1>1, <2>11, <2>13, <2>16
  <2>18. \A q \in DOMAIN m1 : ~OverPopulated(m1[q])
      BY <1>1, <2>11, <2>12, <2>17
  <2>19. AtWork(a, m1, root)
      BY <2>8, <2>11, <2>18 DEF AtWork, m1
  <2> QED BY <2>8, <2>11, <2>16, <2>19 DEF m1
<1> QED BY <1>8, <1>9

-----------------------------------------------------------------------------
\* How many items there are after a new one, after one in place of another and
\* without one.
LEMMA CountNew ==
    ASSUME NEW A, IsFiniteSet(A), NEW x, \A y \in A : y.key # x.key
    PROVE  IsFiniteSet(Updated(A, x)) /\ Cardinality(Updated(A, x)) = Cardinality(A) + 1
<1>1. Updated(A, x) = A \cup {x} /\ x \notin A
    BY DEF Updated
<1> QED BY <1>1, FS_AddElement

\* One item less, ...
LEMMA CountWithout ==
    ASSUME NEW A, IsFiniteSet(A), NEW k, NEW z, z \in A, z.key = k, \A y \in A : y.key = k => y = z
    PROVE  IsFiniteSet(Without(A, k)) /\ Cardinality(Without(A, k)) = Cardinality(A) - 1
<1>1. Without(A, k) = A \ {z}
    BY DEF Without
<1> QED BY <1>1, FS_RemoveElement

\* ... and an item in the place of another.
LEMMA CountSame ==
    ASSUME NEW A, IsFiniteSet(A), NEW x, NEW z, z \in A, z.key = x.key, \A y \in A : y.key = x.key => y = z
    PROVE  IsFiniteSet(Updated(A, x)) /\ Cardinality(Updated(A, x)) = Cardinality(A)
<1> DEFINE B == Without(A, x.key)
<1>1. IsFiniteSet(B) /\ Cardinality(B) = Cardinality(A) - 1
    BY CountWithout
<1>2. Updated(A, x) = B \cup {x} /\ x \notin B
    BY DEF Updated, Without
<1>3. Cardinality(A) \in Nat
    BY FS_CardinalityType
<1> HIDE DEF B
<1>4. IsFiniteSet(B \cup {x}) /\ Cardinality(B \cup {x}) = Cardinality(B) + 1
    BY <1>1, <1>2, FS_AddElement
<1> QED BY <1>1, <1>2, <1>3, <1>4

\* Nodes with none over them.
LEMMA OverlaidNone ==
    ASSUME NEW f, f = [p \in DOMAIN f |-> f[p]]
    PROVE  Overlaid(f, <<>>) = f
<1>1. DOMAIN <<>> = {}
    OBVIOUS
<1> QED BY <1>1 DEF Overlaid

\* The nodes of a tree are a function.
LEMMA TreeIsFunction ==
    ASSUME NEW m, NEW root, Tree(m, root)
    PROVE  m = [p \in DOMAIN m |-> m[p]]
BY DEF Tree, Shaped

\* What the invariant says of the transaction and of the file.
LEMMA InvHas ==
    ASSUME DocumentInv
    PROVE  /\ AtWork(tx, Nodes(tx), doc.root) /\ PagesInv(tx)
           /\ Tree(Nodes(tx), doc.root) /\ Ordered(Nodes(tx), doc.root)
           /\ Tree(tx.file, savedItem.root) /\ Ordered(tx.file, savedItem.root)
           /\ IsFiniteSet(AllItems(Nodes(tx))) /\ doc.count = Cardinality(AllItems(Nodes(tx)))
           /\ doc \in [root : Nat, count : Nat] /\ item = doc /\ savedItem \in [root : Nat, count : Nat]
           /\ DOMAIN Nodes(tx) = AllPages(tx) /\ \A p \in AllPages(tx) : Get(tx, p) = Nodes(tx)[p]
<1>1. DOMAIN Nodes(tx) = AllPages(tx) /\ \A p \in AllPages(tx) : Get(tx, p) = Nodes(tx)[p]
    BY NodesAre
<1> QED BY <1>1 DEF DocumentInv, Recorded, AtWork

\* The state of a document that has just been created.
LEMMA DocumentStarts ==
    ASSUME ItemsFit, Init
    PROVE  DocumentInv
<1> DEFINE f == [p \in {FirstRoot} |-> NewNode]
<1>1. /\ tx = [file |-> f, dirtyNodes |-> <<>>, pagesToDelete |-> <<>>, allocatedPages |-> <<>>,
               fl |-> [EmptyFreeList EXCEPT !.maxPage = FirstRoot], metaRoot |-> CollectionsRoot]
      /\ doc = NewDocument /\ item = NewDocument /\ savedItem = NewDocument
    BY DEF Init
<1>2. /\ tx.fl = [maxPage |-> FirstRoot, releasedPages |-> <<>>]
      /\ tx.file = f /\ tx.dirtyNodes = <<>> /\ tx.allocatedPages = <<>>
    BY <1>1 DEF EmptyFreeList
<1>3. DOMAIN <<>> = {} /\ Range(<<>>) = {} /\ <<>> \in Seq(Nat) /\ IsInjective(<<>>)
    BY DEF Range, IsInjective
<1>4. f = [p \in DOMAIN f |-> f[p]] /\ DOMAIN f = {FirstRoot} /\ f[FirstRoot] = NewNode
    OBVIOUS
<1> HIDE DEF f
<1>5. AllPages(tx) = {FirstRoot} /\ FirstRoot .. FirstRoot = {FirstRoot}
    BY <1>2, <1>3, <1>4 DEF AllPages, FirstRoot
<1>6. PagesInv(tx)
  <2>1. /\ tx = [file |-> tx.file, dirtyNodes |-> tx.dirtyNodes, pagesToDelete |-> <<>>,
                 allocatedPages |-> tx.allocatedPages, fl |-> tx.fl, metaRoot |-> CollectionsRoot]
      BY <1>1
  <2>2. tx.fl \in [maxPage : Nat, releasedPages : Seq(Nat)]
      BY <1>2, <1>3 DEF FirstRoot
  <2>3. Range(tx.allocatedPages) = DOMAIN tx.dirtyNodes \ DOMAIN tx.file
      BY <1>2, <1>3
  <2> QED BY <1>2, <1>3, <1>5, <2>1, <2>2, <2>3 DEF PagesInv
<1>7. Nodes(tx) = f
    BY <1>2, <1>4, OverlaidNone DEF Nodes
<1>8. Tree(f, FirstRoot) /\ Ordered(f, FirstRoot)
  <2>1. NewNode \in [items : Seq(PlainItem), kids : Seq({FirstRoot})] /\ IsLeaf(NewNode)
        /\ NewNode.items = <<>> /\ NewNode.kids = <<>>
      BY DEF NewNode, IsLeaf
  <2>2. Shaped(f, FirstRoot)
      BY <1>4, <2>1 DEF Shaped
  <2>3. Ordered(f, FirstRoot)
      BY <1>4, <2>1 DEF Ordered, Sorted
  <2> QED BY <1>4, <2>1, <2>2, <2>3 DEF Tree
<1>9. ~OverPopulated(NewNode)
  <2>1. IsLeaf(NewNode) /\ NewNode.items \in Seq(PlainItem) /\ Len(NewNode.items) = 0
      BY DEF NewNode, IsLeaf
  <2>2. Size(NewNode) = HeaderSize
      BY <2>1, LeafSize
  <2> QED BY <2>2, NodeAssumption DEF OverPopulated, ItemsFit, HeaderSize
<1>10. AllItems(f) = {}
    BY <1>3, <1>4 DEF AllItems, NewNode
<1>11. Recorded(f, NewDocument)
    BY <1>4, <1>8, <1>9, <1>10, FS_EmptySet DEF Recorded, NewDocument
<1>12. tx.fl.maxPage <= MaxPages
    BY <1>2, DocumentAssumption
<1>13. NewDocument \in [root : Nat, count : Nat]
    BY DEF NewDocument, FirstRoot
<1> QED BY <1>1, <1>2, <1>6, <1>7, <1>11, <1>12, <1>13 DEF DocumentInv

\* Document::put: the invariant again, and the items with the new one.
LEMMA PutStep ==
    ASSUME ItemsFit, Situation = {}, DocumentInv, NEW k \in Key, NEW v \in ValuesFor[k], PutKey(k, v),
           NEW x, x = [key |-> k, val |-> v]
    PROVE  /\ DocumentInv'
           /\ AllItems(Nodes(tx')) = Updated(AllItems(Nodes(tx)), x)
           /\ tx'.file = tx.file /\ savedItem' = savedItem
<1> DEFINE m == Nodes(tx)
           root == doc.root
<1>1. /\ AtWork(tx, m, root) /\ Tree(tx.file, savedItem.root) /\ Ordered(m, root) /\ Tree(m, root)
      /\ IsFiniteSet(AllItems(m)) /\ doc.count = Cardinality(AllItems(m))
      /\ doc \in [root : Nat, count : Nat] /\ item = doc /\ savedItem \in [root : Nat, count : Nat]
    BY InvHas
<1>2. v \in Value
    BY DocumentAssumption
<1>3. PICK r \in {PutInTree(tx, doc.root, k, v)} :
          /\ r.state.fl.maxPage <= MaxPages
          /\ SplitsLeavesOnly(r) /\ (r.newItem \/ r.root = doc.root)
          /\ tx' = r.state
          /\ doc' = [root |-> r.root, count |-> Counted(r)]
          /\ item' = Stored(r)
    BY DEF PutKey
<1>4. OfUse(root, r)
    BY <1>3 DEF SplitsLeavesOnly, OfUse
<1> HIDE DEF m
<1>5. /\ AtWork(r.state, Nodes(r.state), r.root) /\ r.state.file = tx.file
      /\ AllItems(Nodes(r.state)) = Updated(AllItems(m), x)
      /\ r.newItem <=> \A y \in AllItems(m) : y.key # k
  <2>1. r = PutInTree(tx, root, k, v)
      BY <1>3
  <2> HIDE DEF root
  <2> QED BY <1>1, <1>2, <1>4, <2>1, PutIs
<1>6. savedItem' = savedItem
    BY DEF PutKey
<1>7. Counted(r) \in Nat /\ item' = doc' /\ Counted(r) = Cardinality(Updated(AllItems(m), x))
      /\ IsFiniteSet(Updated(AllItems(m), x))
  <2>1. CASE r.newItem
    <3>1. \A y \in AllItems(m) : y.key # x.key
        BY <1>5, <2>1
    <3>2. IsFiniteSet(Updated(AllItems(m), x)) /\ Cardinality(Updated(AllItems(m), x)) = Cardinality(AllItems(m)) + 1
        BY <1>1, <3>1, CountNew
    <3> QED BY <1>1, <1>3, <2>1, <3>2 DEF Counted, Stored
  <2>2. CASE ~r.newItem
    <3>1. PICK z \in AllItems(m) : z.key = k
        BY <1>5, <2>2
    <3>2. \A y \in AllItems(m) : y.key = k => y = z
      <4>1. Shaped(m, root) /\ Ordered(m, root)
          BY <1>1 DEF Tree
      <4> QED BY <3>1, <4>1, KeysOnce
    <3>3. x.key = k
        OBVIOUS
    <3>4. IsFiniteSet(Updated(AllItems(m), x)) /\ Cardinality(Updated(AllItems(m), x)) = Cardinality(AllItems(m))
        BY <1>1, <3>1, <3>2, <3>3, CountSame
    <3>5. doc' = doc /\ item' = doc
        BY <1>1, <1>3, <2>2 DEF Counted, Stored
    <3> QED BY <1>1, <2>2, <3>4, <3>5 DEF Counted
  <2> QED BY <2>1, <2>2
<1>8. r.root \in Nat
    BY <1>5, AtWorkHas
<1>9. Recorded(Nodes(tx'), doc')
    BY <1>3, <1>5, <1>7 DEF Recorded, AtWork
<1>10. DocumentInv'
  <2>1. PagesInv(tx') /\ tx'.fl.maxPage <= MaxPages
      BY <1>3, <1>5 DEF AtWork
  <2>2. doc' \in [root : Nat, count : Nat] /\ item' = doc'
      BY <1>3, <1>7, <1>8
  <2>3. Recorded(tx'.file, savedItem')
      BY <1>3, <1>5, <1>6 DEF DocumentInv
  <2> QED BY <1>1, <1>6, <1>9, <2>1, <2>2, <2>3 DEF DocumentInv
<1> QED BY <1>3, <1>5, <1>6, <1>10 DEF m

\* Document::remove: the invariant again, and the items without the one.
LEMMA RemoveStep ==
    ASSUME ItemsFit, Situation = {}, DocumentInv, NEW k \in Key, RemoveKey(k)
    PROVE  /\ DocumentInv'
           /\ AllItems(Nodes(tx')) = Without(AllItems(Nodes(tx)), k)
           /\ tx'.file = tx.file /\ savedItem' = savedItem
<1> DEFINE m == Nodes(tx)
           root == doc.root
           p == Target(m, root, k)
           i == Slot(m[p], k)
<1>1. /\ AtWork(tx, m, root) /\ Tree(tx.file, savedItem.root) /\ Ordered(m, root) /\ Tree(m, root)
      /\ IsFiniteSet(AllItems(m)) /\ doc.count = Cardinality(AllItems(m)) /\ m = Nodes(tx)
      /\ doc \in [root : Nat, count : Nat] /\ item = doc /\ savedItem \in [root : Nat, count : Nat]
      /\ DOMAIN m = AllPages(tx) /\ \A q \in AllPages(tx) : Get(tx, q) = m[q]
    BY InvHas
<1>2. PICK r \in {RemoveFromTree(tx, doc.root, k)} :
          /\ SplitsLeavesOnly(r)
          /\ tx' = r.state
          /\ doc' = [root |-> r.root, count |-> doc.count - 1]
    BY DEF RemoveKey
<1>3. /\ item' = doc' /\ savedItem' = savedItem /\ Lookup(tx, doc.root, k) # {}
      /\ \E found \in {Last(Path(tx, doc.root, k))} : LeafHasItem(found.page, found.at)
    BY DEF RemoveKey
<1> HIDE DEF m, root
<1>4. Shaped(m, root) /\ Ordered(m, root)
    BY <1>1 DEF Tree
<1>5. PICK z \in AllItems(m) : z.key = k
  <2>1. Lookup(tx, root, k) = {y \in AllItems(m) : y.key = k}
      BY <1>1, <1>4, LookupIs
  <2> QED BY <1>3, <2>1 DEF root
<1>6. ~IsLeaf(m[p]) => m[m[p].kids[i]].items # <<>>
  <2>1. Last(Path(tx, root, k)) = Visit(m, p, k)
      BY <1>1, <1>4, LookupIs
  <2>2. LeafHasItem(p, i)
      BY <1>3, <2>1 DEF Visit, root
  <2>3. p \in DOMAIN m
      BY <1>4, TargetIs
  <2> HIDE DEF p, i
  <2> SUFFICES ASSUME ~IsLeaf(m[p]) PROVE m[m[p].kids[i]].items # <<>>
      OBVIOUS
  <2>4. Get(tx, Last(PredecessorPath(tx, m[p].kids[i])).page).items # <<>>
      BY <1>1, <2>2, <2>3 DEF LeafHasItem
  <2>5. p = root
      BY <1>4, <2>3, ShapedIs
  <2>6. i \in 1 .. Len(m[root].kids)
    <3>1. m[root].items \in Seq(PlainItem) /\ Sorted(m[root].items)
        BY <1>4, <2>3, <2>5, ShapedIs DEF Ordered
    <3>2. i \in 1 .. Len(m[root].items) + 1
        BY <2>5, <3>1, SlotIs DEF i
    <3>3. Len(m[root].kids) = Len(m[root].items) + 1
        BY <1>4, <2>5, KidsIs
    <3> QED BY <3>2, <3>3
  <2> DEFINE c == m[root].kids[i]
  <2>7. c \in AllPages(tx) /\ IsLeaf(m[c])
      BY <1>1, <1>4, <2>5, <2>6, KidsIs
  <2> HIDE DEF c
  <2>8. PredecessorPath(tx, c) = <<[page |-> c, at |-> 0]>>
      BY <1>1, <1>4, <2>7, PredecessorIs
  <2>9. Last(PredecessorPath(tx, c)).page = c
    <3> DEFINE w == [page |-> c, at |-> 0]
    <3>1. w.page = c /\ Last(<<w>>) = w
        BY DEF Last
    <3> HIDE DEF w
    <3>2. PredecessorPath(tx, c) = <<w>>
        BY <2>8 DEF w
    <3> QED BY <3>1, <3>2
  <2> QED BY <1>1, <2>4, <2>5, <2>7, <2>9 DEF c
<1>7. /\ AtWork(r.state, Nodes(r.state), root) /\ r.root = root
      /\ r.state.file = tx.file /\ r.state.fl = tx.fl
      /\ AllItems(Nodes(r.state)) = Without(AllItems(m), k)
  <2>1. r = RemoveFromTree(tx, root, k)
        /\ \A q \in AllPages(r.state) : ~IsLeaf(Get(r.state, q)) => ~OverPopulated(Get(r.state, q))
      BY <1>2 DEF SplitsLeavesOnly, root
  <2> HIDE DEF p, i
  <2>2. p = Target(m, root, k) /\ i = Slot(m[p], k)
      BY DEF p, i
  <2> QED BY <1>1, <1>5, <1>6, <2>1, <2>2, RemoveKeyIs
<1>8. \A y \in AllItems(m) : y.key = k => y = z
    BY <1>4, <1>5, KeysOnce
<1>9. /\ IsFiniteSet(Without(AllItems(m), k))
      /\ Cardinality(Without(AllItems(m), k)) = Cardinality(AllItems(m)) - 1
      /\ doc.count - 1 = Cardinality(Without(AllItems(m), k)) /\ doc.count - 1 \in Nat
  <2>1. IsFiniteSet(Without(AllItems(m), k)) /\ Cardinality(Without(AllItems(m), k)) = Cardinality(AllItems(m)) - 1
      BY <1>1, <1>5, <1>8, CountWithout
  <2> QED BY <1>1, <2>1, FS_CardinalityType
<1>10. Recorded(Nodes(tx'), doc')
    BY <1>2, <1>7, <1>9 DEF Recorded, AtWork
<1>11. DocumentInv'
  <2>1. PagesInv(tx') /\ tx'.fl.maxPage <= MaxPages
    <3>1. tx'.fl.maxPage \in Nat /\ tx.fl.maxPage <= MaxPages /\ PagesInv(tx) /\ PagesInv(tx')
        BY <1>2, <1>7 DEF DocumentInv, AtWork, PagesInv
    <3>2. tx'.fl = tx.fl
        BY <1>2, <1>7
    <3> QED BY <3>1, <3>2
  <2>2. doc' \in [root : Nat, count : Nat] /\ item' = doc'
      BY <1>1, <1>2, <1>3, <1>7, <1>9 DEF root
  <2>3. Recorded(tx'.file, savedItem')
      BY <1>2, <1>3, <1>7 DEF DocumentInv
  <2> QED BY <1>1, <1>3, <1>10, <2>1, <2>2, <2>3 DEF DocumentInv
<1> QED BY <1>2, <1>3, <1>7, <1>11 DEF m

\* Tx::commit: the nodes are now those of the file.
LEMMA CommitStep ==
    ASSUME DocumentInv, Commit
    PROVE  /\ DocumentInv' /\ Nodes(tx') = Nodes(tx) /\ tx'.file = Nodes(tx)
           /\ doc' = item /\ savedItem' = item
<1> DEFINE m == Nodes(tx)
<1>1. /\ PagesInv(tx) /\ Tree(m, doc.root) /\ Ordered(m, doc.root) /\ item = doc
      /\ doc \in [root : Nat, count : Nat] /\ Recorded(m, doc) /\ tx.fl.maxPage <= MaxPages
      /\ m = Overlaid(tx.file, tx.dirtyNodes) /\ DOMAIN m = AllPages(tx)
    BY InvHas DEF DocumentInv, Nodes
<1>2. /\ tx' = Clean([tx EXCEPT !.file = Overlaid(@, tx.dirtyNodes), !.fl = ReleasePages(@, tx.pagesToDelete)])
      /\ savedItem' = item /\ doc' = item /\ item' = item
    BY DEF Commit
<1>3. ReleasePages(tx.fl, tx.pagesToDelete) = tx.fl
  <2>1. tx.pagesToDelete = <<>> /\ tx.fl \in [maxPage : Nat, releasedPages : Seq(Nat)]
      BY <1>1, PagesAre DEF PagesInv
  <2>2. tx.fl.releasedPages \o <<>> = tx.fl.releasedPages
      BY <2>1
  <2> QED BY <2>1, <2>2 DEF ReleasePages
<1>4. tx' = [file |-> m, dirtyNodes |-> <<>>, pagesToDelete |-> <<>>, allocatedPages |-> <<>>,
             fl |-> tx.fl, metaRoot |-> CollectionsRoot]
  <2>1. IsTx(tx) /\ tx.metaRoot = CollectionsRoot
      BY <1>1, PagesAre
  <2> HIDE DEF m
  <2> QED BY <1>1, <1>2, <1>3, <2>1 DEF IsTx, Clean
<1> HIDE DEF m
<1>5. tx'.file = m /\ tx'.dirtyNodes = <<>> /\ tx'.allocatedPages = <<>> /\ tx'.fl = tx.fl
    BY <1>4
<1>6. DOMAIN <<>> = {} /\ Range(<<>>) = {} /\ <<>> \in Seq(Nat) /\ IsInjective(<<>>)
    BY DEF Range, IsInjective
<1>7. Nodes(tx') = m
  <2>1. m = [p \in DOMAIN m |-> m[p]]
      BY <1>1, TreeIsFunction
  <2> QED BY <1>5, <2>1, OverlaidNone DEF Nodes
<1>8. AllPages(tx') = AllPages(tx)
    BY <1>1, <1>5, <1>6 DEF AllPages
<1>9. PagesInv(tx')
  <2>1. /\ tx.fl \in [maxPage : Nat, releasedPages : Seq(Nat)]
        /\ IsInjective(tx.fl.releasedPages)
        /\ Range(tx.fl.releasedPages) \cap AllPages(tx) = {}
        /\ Range(tx.fl.releasedPages) \cup AllPages(tx) = FirstRoot .. tx.fl.maxPage
      BY <1>1 DEF PagesInv
  <2>2. Range(tx'.allocatedPages) = DOMAIN tx'.dirtyNodes \ DOMAIN tx'.file
      BY <1>5, <1>6
  <2>3. tx' = [file |-> tx'.file, dirtyNodes |-> tx'.dirtyNodes, pagesToDelete |-> <<>>,
               allocatedPages |-> tx'.allocatedPages, fl |-> tx'.fl, metaRoot |-> CollectionsRoot]
      BY <1>4
  <2>4. tx'.allocatedPages \in Seq(Nat) /\ IsInjective(tx'.allocatedPages)
      BY <1>5, <1>6
  <2> HIDE DEF m
  <2> QED BY <1>5, <1>8, <2>1, <2>2, <2>3, <2>4 DEF PagesInv
<1>10. DocumentInv'
    BY <1>1, <1>2, <1>5, <1>7, <1>9 DEF DocumentInv
<1> QED BY <1>2, <1>5, <1>7, <1>10 DEF m

\* Tx::rollback: the file as it was, and every page the transaction took free.
LEMMA RollbackStep ==
    ASSUME DocumentInv, Rollback
    PROVE  /\ DocumentInv' /\ Nodes(tx') = tx.file /\ tx'.file = tx.file
           /\ doc' = savedItem /\ savedItem' = savedItem
<1>1. /\ PagesInv(tx) /\ Tree(tx.file, savedItem.root) /\ savedItem \in [root : Nat, count : Nat]
      /\ Recorded(tx.file, savedItem) /\ tx.fl.maxPage <= MaxPages
    BY InvHas DEF DocumentInv
<1>2. /\ tx' = Clean([tx EXCEPT !.fl = ReleasePages(@, tx.allocatedPages)])
      /\ savedItem' = savedItem /\ doc' = savedItem /\ item' = savedItem
    BY DEF Rollback
<1> DEFINE fl == ReleasePages(tx.fl, tx.allocatedPages)
<1>3. tx' = [file |-> tx.file, dirtyNodes |-> <<>>, pagesToDelete |-> <<>>, allocatedPages |-> <<>>,
             fl |-> fl, metaRoot |-> CollectionsRoot]
  <2>1. IsTx(tx) /\ tx.metaRoot = CollectionsRoot
      BY <1>1, PagesAre
  <2>2. tx' = Clean([tx EXCEPT !.fl = fl])
      BY <1>2
  <2> HIDE DEF fl
  <2> QED BY <2>1, <2>2 DEF IsTx, Clean
<1>4. /\ tx.allocatedPages \in Seq(Nat) /\ IsInjective(tx.allocatedPages)
      /\ Range(tx.allocatedPages) = DOMAIN tx.dirtyNodes \ DOMAIN tx.file
      /\ tx.fl \in [maxPage : Nat, releasedPages : Seq(Nat)]
      /\ IsInjective(tx.fl.releasedPages)
      /\ Range(tx.fl.releasedPages) \cap AllPages(tx) = {}
      /\ Range(tx.fl.releasedPages) \cup AllPages(tx) = FirstRoot .. tx.fl.maxPage
    BY <1>1 DEF PagesInv
<1>5. /\ fl \in [maxPage : Nat, releasedPages : Seq(Nat)] /\ fl.maxPage = tx.fl.maxPage
      /\ Range(fl.releasedPages) = Range(tx.fl.releasedPages) \cup Range(tx.allocatedPages)
      /\ IsInjective(fl.releasedPages)
  <2>1. Range(tx.fl.releasedPages) \cap Range(tx.allocatedPages) = {}
      BY <1>4 DEF AllPages
  <2> DEFINE f == tx.fl
             pages == tx.allocatedPages
  <2>2. f \in [maxPage : Nat, releasedPages : Seq(Nat)] /\ pages \in Seq(Nat)
        /\ IsInjective(f.releasedPages) /\ IsInjective(pages)
        /\ Range(f.releasedPages) \cap Range(pages) = {}
      BY <1>4, <2>1
  <2> HIDE DEF f, pages
  <2>3. /\ ReleasePages(f, pages) \in [maxPage : Nat, releasedPages : Seq(Nat)]
        /\ ReleasePages(f, pages).maxPage = f.maxPage
        /\ Range(ReleasePages(f, pages).releasedPages) = Range(f.releasedPages) \cup Range(pages)
        /\ IsInjective(ReleasePages(f, pages).releasedPages)
      BY ONLY <2>2, Release, ZenonT(60)
  <2> QED BY <2>3 DEF f, pages
<1> HIDE DEF fl
<1>6. tx'.file = tx.file /\ tx'.dirtyNodes = <<>> /\ tx'.allocatedPages = <<>> /\ tx'.fl = fl
    BY <1>3
<1>7. DOMAIN <<>> = {} /\ Range(<<>>) = {} /\ <<>> \in Seq(Nat) /\ IsInjective(<<>>)
    BY DEF Range, IsInjective
<1>8. Nodes(tx') = tx.file
  <2>1. tx.file = [p \in DOMAIN tx.file |-> tx.file[p]]
      BY <1>1, TreeIsFunction
  <2> QED BY <1>6, <2>1, OverlaidNone DEF Nodes
<1>9. AllPages(tx') = DOMAIN tx.file
    BY <1>6, <1>7 DEF AllPages
<1>10. /\ Range(fl.releasedPages) \cap AllPages(tx') = {}
       /\ Range(fl.releasedPages) \cup AllPages(tx') = FirstRoot .. fl.maxPage
    BY <1>4, <1>5, <1>9 DEF AllPages
<1>11. PagesInv(tx')
  <2>1. Range(tx'.allocatedPages) = DOMAIN tx'.dirtyNodes \ DOMAIN tx'.file
      BY <1>6, <1>7
  <2>2. tx' = [file |-> tx'.file, dirtyNodes |-> tx'.dirtyNodes, pagesToDelete |-> <<>>,
               allocatedPages |-> tx'.allocatedPages, fl |-> tx'.fl, metaRoot |-> CollectionsRoot]
      BY <1>3
  <2>3. tx'.allocatedPages \in Seq(Nat) /\ IsInjective(tx'.allocatedPages)
      BY <1>6, <1>7
  <2> QED BY <1>5, <1>6, <1>10, <2>1, <2>2, <2>3 DEF PagesInv
<1>12. DocumentInv'
    BY <1>1, <1>2, <1>5, <1>6, <1>8, <1>11 DEF DocumentInv
<1> QED BY <1>2, <1>6, <1>8, <1>12

\* The inductive invariant.
LEMMA DocumentInvHolds ==
    ASSUME Situation = {}, ItemsFit
    PROVE  Spec => []DocumentInv
<1>1. Init => DocumentInv
    BY DocumentStarts
<1>2. DocumentInv /\ [Next]_vars => DocumentInv'
  <2> SUFFICES ASSUME DocumentInv, [Next]_vars PROVE DocumentInv'
      OBVIOUS
  <2>1. ASSUME NEW k \in Key, NEW v \in ValuesFor[k], PutKey(k, v) PROVE DocumentInv'
    <3> DEFINE x == [key |-> k, val |-> v]
    <3>1. x = [key |-> k, val |-> v]
        OBVIOUS
    <3> HIDE DEF x
    <3> QED BY <2>1, <3>1, PutStep
  <2>2. ASSUME NEW k \in Key, RemoveKey(k) PROVE DocumentInv'
      BY <2>2, RemoveStep
  <2>3. CASE Commit
      BY <2>3, CommitStep
  <2>4. CASE Rollback
      BY <2>4, RollbackStep
  <2>5. CASE UNCHANGED vars
      BY <2>5 DEF vars, DocumentInv
  <2> QED BY <2>1, <2>2, <2>3, <2>4, <2>5 DEF Next
<1> QED BY <1>1, <1>2, PTL DEF Spec

-----------------------------------------------------------------------------
\* The tree of the transaction, for what follows.
LEMMA TreeHas ==
    ASSUME DocumentInv, NEW m, m = Nodes(tx), NEW root, root = doc.root
    PROVE  /\ Shaped(m, root) /\ Tree(m, root) /\ Ordered(m, root) /\ root \in DOMAIN m
           /\ DOMAIN m = AllPages(tx) /\ \A p \in AllPages(tx) : Get(tx, p) = m[p] /\ ~OverPopulated(m[p])
           /\ m[root].kids \in Seq(DOMAIN m)
           /\ AllPages(tx) \subseteq FirstRoot .. tx.fl.maxPage
<1>1. AtWork(tx, m, root) /\ PagesInv(tx)
    BY InvHas
<1>2. /\ Shaped(m, root) /\ Tree(m, root) /\ Ordered(m, root) /\ root \in DOMAIN m
      /\ DOMAIN m = AllPages(tx) /\ \A p \in DOMAIN m : Get(tx, p) = m[p] /\ ~OverPopulated(m[p])
    BY <1>1, AtWorkHas
<1> QED BY <1>1, <1>2, ShapedIs DEF PagesInv

\* The nodes of a tree have their types.
LEMMA StoreIs ==
    ASSUME NEW m, NEW root, Tree(m, root), DOMAIN m \subseteq Page
    PROVE  IsStore(m)
<1>1. Shaped(m, root) /\ m = [p \in DOMAIN m |-> m[p]]
    BY TreeIsFunction DEF Tree
<1>2. \A p \in DOMAIN m : m[p] \in NodeType
  <2> SUFFICES ASSUME NEW p \in DOMAIN m PROVE m[p] \in NodeType
      OBVIOUS
  <2>1. /\ m[p] = [items |-> m[p].items, kids |-> m[p].kids]
        /\ m[p].items \in Seq(PlainItem) /\ m[p].kids \in Seq(DOMAIN m)
      BY <1>1, ShapedIs
  <2>2. PlainItem \subseteq Item
      BY DEF PlainItem, Item
  <2>3. m[p].items \in Seq(Item) /\ m[p].kids \in Seq(Page)
      BY <2>1, <2>2
  <2> QED BY <2>1, <2>3 DEF NodeType
<1> QED BY <1>2 DEF IsStore, Range

\* Sequences over a range.
LEMMA SeqOver ==
    ASSUME NEW S, NEW T, NEW s, s \in Seq(S), Range(s) \subseteq T
    PROVE  s \in Seq(T)
<1>1. Len(s) \in Nat /\ s = [i \in 1 .. Len(s) |-> s[i]] /\ \A i \in 1 .. Len(s) : s[i] \in T
    BY RangeIs
<1> QED BY <1>1

\* One sequence after another has no page twice if neither has and none is in
\* both.
LEMMA Apart ==
    ASSUME NEW P, NEW a, NEW b, a \in Seq(P), b \in Seq(P), IsInjective(a), IsInjective(b),
           Range(a) \cap Range(b) = {}
    PROVE  IsInjective(a \o b) /\ Range(a \o b) = Range(a) \cup Range(b)
<1> DEFINE f == [maxPage |-> 0, releasedPages |-> a]
<1>1. f \in [maxPage : Nat, releasedPages : Seq(P)] /\ f.releasedPages = a
    OBVIOUS
<1>2. ReleasePages(f, b).releasedPages = a \o b
    BY DEF ReleasePages
<1> HIDE DEF f
<1>3. /\ Range(ReleasePages(f, b).releasedPages) = Range(f.releasedPages) \cup Range(b)
      /\ IsInjective(ReleasePages(f, b).releasedPages)
    BY <1>1, Release, ZenonT(60)
<1> QED BY <1>1, <1>2, <1>3

\* Type correctness: nodes hold items and pages that were handed out, records
\* a page and a number, after every put, remove, commit and rollback.
THEOREM DocumentTypes ==
    ASSUME Situation = {}, ItemsFit
    PROVE  Spec => []TypeOK
<1>1. DocumentInv => TypeOK
  <2> SUFFICES ASSUME DocumentInv PROVE TypeOK
      OBVIOUS
  <2> DEFINE m == Nodes(tx)
             root == doc.root
  <2>1. /\ Tree(m, root) /\ root \in DOMAIN m /\ DOMAIN m = AllPages(tx)
        /\ AllPages(tx) \subseteq FirstRoot .. tx.fl.maxPage /\ m = Overlaid(tx.file, tx.dirtyNodes)
      BY TreeHas DEF Nodes
  <2> HIDE DEF m
  <2>2. /\ PagesInv(tx) /\ Tree(tx.file, savedItem.root) /\ tx.fl.maxPage <= MaxPages
        /\ doc \in [root : Nat, count : Nat] /\ item = doc /\ savedItem \in [root : Nat, count : Nat]
        /\ tx.pagesToDelete = <<>> /\ tx.metaRoot = CollectionsRoot
      BY InvHas, PagesAre DEF DocumentInv
  <2>3. /\ tx.allocatedPages \in Seq(Nat) /\ Range(tx.allocatedPages) = DOMAIN tx.dirtyNodes \ DOMAIN tx.file
        /\ tx.fl.maxPage \in Nat /\ tx.fl.releasedPages \in Seq(Nat)
        /\ Range(tx.fl.releasedPages) \subseteq FirstRoot .. tx.fl.maxPage
      BY <2>2 DEF PagesInv
  <2>4. FirstRoot .. tx.fl.maxPage \subseteq Page
      BY <2>2, <2>3, DocumentAssumption DEF Page, FirstRoot
  <2>5. AllPages(tx) \subseteq Page /\ DOMAIN tx.file \subseteq Page /\ DOMAIN tx.dirtyNodes \subseteq Page
      BY <2>1, <2>4 DEF AllPages
  <2>6. IsStore(tx.file)
      BY <2>2, <2>5, StoreIs
  <2>7. IsStore(tx.dirtyNodes)
    <3>1. IsStore(m)
        BY <2>1, <2>5, StoreIs
    <3>2. \A p \in DOMAIN tx.dirtyNodes : p \in DOMAIN m /\ m[p] = tx.dirtyNodes[p]
        BY <2>1 DEF Overlaid
    <3>3. \A p \in DOMAIN tx.dirtyNodes : tx.dirtyNodes[p] \in NodeType
        BY <3>1, <3>2 DEF IsStore, Range
    <3> QED BY <2>5, <3>3 DEF IsStore, Range
  <2>8. tx.allocatedPages \in Seq(Page) /\ tx.fl.releasedPages \in Seq(Page)
    <3>1. Range(tx.allocatedPages) \subseteq Page /\ Range(tx.fl.releasedPages) \subseteq Page
        BY <2>3, <2>4, <2>5
    <3> QED BY <2>3, <3>1, SeqOver
  <2>9. tx.fl.maxPage \in Page
      BY <2>1, <2>2, <2>3, DocumentAssumption DEF Page, FirstRoot
  <2>10. doc.root \in Page /\ savedItem.root \in Page
    <3>1. savedItem.root \in DOMAIN tx.file
        BY <2>2 DEF Tree, Shaped
    <3> QED BY <2>1, <2>5, <3>1
  <2>11. {doc, item, savedItem} \subseteq Record
      BY <2>2, <2>10 DEF Record
  <2> QED BY <2>2, <2>6, <2>7, <2>8, <2>9, <2>11 DEF TypeOK
<1>2. Spec => []DocumentInv
    BY DocumentInvHolds
<1> QED BY <1>1, <1>2, PTL

\* Balance: every node has a child for each gap between its items and all
\* leaves are on one level, however many puts have split nodes.
THEOREM DocumentBalanced ==
    ASSUME Situation = {}, ItemsFit
    PROVE  Spec => []Balanced
<1>1. DocumentInv => Balanced
  <2> SUFFICES ASSUME DocumentInv PROVE Balanced
      OBVIOUS
  <2> DEFINE m == Nodes(tx)
             root == doc.root
             s == <<root>>
             kids == m[root].kids
  <2>1. /\ Shaped(m, root) /\ root \in DOMAIN m /\ DOMAIN m = AllPages(tx) /\ m = Nodes(tx)
        /\ kids \in Seq(DOMAIN m)
        /\ \A p \in AllPages(tx) : Get(tx, p) = m[p]
      BY TreeHas
  <2> HIDE DEF m, root
  <2>2. PagesBelow(tx, root) = s \o kids
      BY <2>1, PagesBelowIs
  <2>3. s \o kids \in Seq(DOMAIN m)
      BY <2>1
  <2>4. Range(s \o kids) \subseteq DOMAIN m
    <3> HIDE DEF s, kids
    <3> QED BY <2>3, RangeIs
  <2>5. \A p \in DOMAIN m : ChildPerGap(m[p])
    <3> SUFFICES ASSUME NEW p \in DOMAIN m PROVE ChildPerGap(m[p])
        OBVIOUS
    <3>1. CASE IsLeaf(m[p])
        BY <3>1 DEF ChildPerGap
    <3>2. CASE ~IsLeaf(m[p])
      <4>1. p = root
          BY <2>1, <3>2, ShapedIs
      <4> QED BY <2>1, <3>2, <4>1, KidsIs DEF ChildPerGap
    <3> QED BY <3>1, <3>2
  <2>6. Cardinality(LeafLevels(tx, root)) = 1
    <3>1. LeafLevels(tx, root) = {0} \/ LeafLevels(tx, root) = {1}
        BY <2>1, LeafLevelsAre
    <3>2. Cardinality({0}) = 1 /\ Cardinality({1}) = 1
        BY FS_Singleton
    <3> QED BY <3>1, <3>2
  <2>7. \A p \in Range(PagesBelow(tx, root)) : ChildPerGap(Get(tx, p))
      BY <2>1, <2>2, <2>4, <2>5
  <2> QED BY <2>6, <2>7 DEF Balanced, root
<1>2. Spec => []DocumentInv
    BY DocumentInvHolds
<1> QED BY <1>1, <1>2, PTL

\* Search: the keys ascend from left to right and Node::findKey finds each of
\* them.
THEOREM DocumentSearches ==
    ASSUME Situation = {}, ItemsFit
    PROVE  Spec => []SearchTree
<1>1. DocumentInv => SearchTree
  <2> SUFFICES ASSUME DocumentInv PROVE SearchTree
      OBVIOUS
  <2> DEFINE m == Nodes(tx)
             root == doc.root
             t == ItemsBelow(tx, root)
  <2>1. Shaped(m, root) /\ Ordered(m, root) /\ m = Nodes(tx)
      BY TreeHas
  <2> HIDE DEF m, root
  <2>2. t \in Seq(PlainItem) /\ Sorted(t) /\ Range(t) = AllItems(m)
      BY <2>1, ItemsBelowAre
  <2>3. \A k \in Key : Lookup(tx, root, k) = {y \in AllItems(m) : y.key = k}
      BY <2>1, LookupIs
  <2>4. AllItems(m) \subseteq PlainItem
      BY <2>2, RangeIs
  <2>5. UNION {Lookup(tx, root, k) : k \in Key} = AllItems(m)
    <3>1. \A y \in AllItems(m) : y.key \in Key
        BY <2>4 DEF PlainItem
    <3> QED BY <2>3, <3>1
  <2>6. \A i, j \in DOMAIN t : i < j => t[i].key < t[j].key
      BY <2>2 DEF Sorted
  <2> HIDE DEF t
  <2> QED BY <2>2, <2>5, <2>6 DEF SearchTree, t, root
<1>2. Spec => []DocumentInv
    BY DocumentInvHolds
<1> QED BY <1>1, <1>2, PTL

\* The size of a node is a number.
LEMMA NodeSize ==
    ASSUME NEW P, NEW n, n \in Node(P)
    PROVE  Size(n) \in Nat
<1> DEFINE N == Len(n.items)
<1>1. N \in Nat /\ \A i \in 1 .. N : n.items[i] \in PlainItem
    BY DEF Node
<1>2. \A i \in 1 .. N : ItemSize(n, i) \in Nat
    BY <1>1, NodeAssumption DEF ItemSize, PlainItem, OffsetSize, LengthsSize, PointerSize
<1> HIDE DEF N
<1>3. SizeUpTo(n, N) \in Nat
  <2>1. \A j \in 0 .. N : SizeUpTo(n, j) \in Nat
      BY ONLY <1>1, <1>2, SizeStep
  <2> QED BY <1>1, <2>1
<1> QED BY <1>3 DEF Size, N, PointerSize

\* Fit: no node is over the threshold after a call, on disk or in the
\* transaction, so each one can be serialized to a page.
THEOREM DocumentFits ==
    ASSUME Situation = {}, ItemsFit
    PROVE  Spec => []NodesFit
<1>1. DocumentInv => NodesFit
  <2> SUFFICES ASSUME DocumentInv, NEW p \in AllPages(tx) PROVE Size(Get(tx, p)) <= MaxThreshold
      BY DEF NodesFit
  <2> DEFINE m == Nodes(tx)
             root == doc.root
  <2>1. Shaped(m, root) /\ Get(tx, p) = m[p] /\ ~OverPopulated(m[p]) /\ p \in DOMAIN m
      BY TreeHas
  <2> HIDE DEF m, root
  <2>2. Size(m[p]) \in Nat
      BY <2>1, ShapedIs, NodeSize
  <2> QED BY <2>1, <2>2, NodeAssumption DEF OverPopulated
<1>2. Spec => []DocumentInv
    BY DocumentInvHolds
<1> QED BY <1>1, <1>2, PTL

\* Pages: each one handed out below the collection is in the tree once or is
\* free, after any calls, commits and rollbacks.
THEOREM DocumentPages ==
    ASSUME Situation = {}, ItemsFit
    PROVE  Spec => []PagesAccounted
<1>1. DocumentInv => PagesAccounted
  <2> SUFFICES ASSUME DocumentInv PROVE PagesAccounted
      OBVIOUS
  <2> DEFINE m == Nodes(tx)
             root == doc.root
             kids == m[root].kids
             s == <<root>>
             free == tx.fl.releasedPages
             below == PagesBelow(tx, root)
  <2>1. /\ Shaped(m, root) /\ root \in DOMAIN m /\ DOMAIN m = AllPages(tx) /\ m = Nodes(tx)
        /\ kids \in Seq(DOMAIN m)
      BY TreeHas
  <2>2. /\ tx.pagesToDelete = <<>> /\ free \in Seq(Nat) /\ IsInjective(free)
        /\ Range(free) \cap AllPages(tx) = {} /\ Range(free) \cup AllPages(tx) = FirstRoot .. tx.fl.maxPage
        /\ AllPages(tx) \subseteq Nat
      BY InvHas, PagesAre DEF PagesInv
  <2> HIDE DEF m, root, free
  <2>3. below = s \o kids
      BY <2>1, PagesBelowIs
  <2>4. IsInjective(kids) /\ root \notin Range(kids) /\ {root} \cup Range(kids) = DOMAIN m
    <3>1. CASE IsLeaf(m[root])
      <4>1. kids = <<>> /\ DOMAIN m = {root}
          BY <2>1, <3>1, ShapedIs DEF IsLeaf
      <4>2. DOMAIN <<>> = {} /\ Range(<<>>) = {} /\ IsInjective(<<>>)
          BY DEF Range, IsInjective
      <4> HIDE DEF kids
      <4> QED BY <4>1, <4>2
    <3>2. CASE ~IsLeaf(m[root])
        BY <2>1, <3>2 DEF Shaped
    <3> QED BY <3>1, <3>2
  <2>5. s \in Seq(DOMAIN m) /\ IsInjective(s) /\ Range(s) = {root}
      BY <2>1 DEF IsInjective, Range
  <2> HIDE DEF s, kids, below
  <2>6. /\ IsInjective(below) /\ Range(below) = DOMAIN m /\ below \in Seq(DOMAIN m)
    <3>1. Range(s) \cap Range(kids) = {}
        BY <2>4, <2>5
    <3>2. IsInjective(s \o kids) /\ Range(s \o kids) = Range(s) \cup Range(kids)
        BY <2>1, <2>4, <2>5, <3>1, Apart
    <3>3. s \o kids \in Seq(DOMAIN m)
        BY <2>1, <2>5
    <3> QED BY <2>3, <2>4, <2>5, <3>2, <3>3
  <2>7. below \in Seq(Nat)
      BY <2>1, <2>2, <2>6, SeqOver
  <2>8. below \o tx.pagesToDelete \o free = below \o free
      BY <2>2, <2>7
  <2>9. Range(below) \cap Range(free) = {}
      BY <2>1, <2>2, <2>6
  <2>10. IsInjective(below \o free) /\ Range(below \o free) = Range(below) \cup Range(free)
      BY <2>2, <2>6, <2>7, <2>9, Apart
  <2> QED BY <2>1, <2>2, <2>6, <2>8, <2>10 DEF PagesAccounted, below, free, root
<1>2. Spec => []DocumentInv
    BY DocumentInvHolds
<1> QED BY <1>1, <1>2, PTL

\* Counts: the number in the handle and in the collection is that of the keys
\* the tree holds.
THEOREM DocumentCounts ==
    ASSUME Situation = {}, ItemsFit
    PROVE  Spec => []CountMatches
<1>1. DocumentInv => CountMatches
  <2> SUFFICES ASSUME DocumentInv PROVE CountMatches
      OBVIOUS
  <2> DEFINE m == Nodes(tx)
             root == doc.root
             t == ItemsBelow(tx, root)
  <2>1. Shaped(m, root) /\ Ordered(m, root) /\ m = Nodes(tx)
      BY TreeHas
  <2>2. doc = item /\ doc.count = Cardinality(AllItems(m))
      BY InvHas
  <2> HIDE DEF m, root
  <2>3. t \in Seq(PlainItem) /\ Sorted(t) /\ Range(t) = AllItems(m)
      BY <2>1, ItemsBelowAre
  <2> HIDE DEF t
  <2>4. Cardinality(Range(t)) = Len(t)
      BY <2>3, SortedCount
  <2> QED BY <2>2, <2>3, <2>4 DEF CountMatches, t, root
<1>2. Spec => []DocumentInv
    BY DocumentInvHolds
<1> QED BY <1>1, <1>2, PTL

\* What get finds in the transaction and in the file.
LEMMA FoundIs ==
    ASSUME DocumentInv
    PROVE  /\ ItemSet(tx, doc.root) = AllItems(Nodes(tx))
           /\ ItemSet([tx EXCEPT !.dirtyNodes = <<>>], savedItem.root) = AllItems(tx.file)
<1>1. ItemSet(tx, doc.root) = AllItems(Nodes(tx))
    BY TreeHas, ItemSetIs
<1> DEFINE s == [tx EXCEPT !.dirtyNodes = <<>>]
<1>2. s.file = tx.file /\ s.dirtyNodes = <<>>
  <2>1. IsTx(tx)
      BY InvHas, PagesAre
  <2> QED BY <2>1 DEF IsTx
<1> HIDE DEF s
<1>3. Nodes(s) = tx.file /\ Shaped(tx.file, savedItem.root)
  <2>1. Tree(tx.file, savedItem.root)
      BY InvHas
  <2>2. tx.file = [p \in DOMAIN tx.file |-> tx.file[p]]
      BY <2>1, TreeIsFunction
  <2> QED BY <1>2, <2>1, <2>2, OverlaidNone DEF Nodes, Tree
<1>4. ItemSet(s, savedItem.root) = AllItems(tx.file)
    BY <1>3, ItemSetIs
<1> QED BY <1>1, <1>4 DEF s

\* Refinement: the tree of nodes on pages is the map of module DocumentStore;
\* every put, remove, commit and rollback is the same call on the map.
THEOREM DocumentRefines ==
    ASSUME Situation = {}, ItemsFit
    PROVE  Spec => ImplementsDocument
<1> DEFINE found == ItemSet(tx, doc.root)
           kept == ItemSet([tx EXCEPT !.dirtyNodes = <<>>], savedItem.root)
<1>1. Init => Store!Init
  <2> SUFFICES ASSUME Init PROVE Store!Init
      OBVIOUS
  <2>1. DocumentInv
      BY DocumentStarts
  <2>2. tx.file = [p \in {FirstRoot} |-> NewNode] /\ tx.dirtyNodes = <<>>
      BY DEF Init
  <2>3. Nodes(tx) = tx.file
      BY <2>2, OverlaidNone DEF Nodes
  <2>4. AllItems(tx.file) = {}
    <3>1. Range(<<>>) = {}
        BY DEF Range
    <3> QED BY <2>2, <3>1 DEF AllItems, NewNode
  <2>5. found = {} /\ kept = {}
      BY <2>1, <2>3, <2>4, FoundIs
  <2> QED BY <2>5 DEF Store!Init
<1>2. DocumentInv /\ DocumentInv' /\ [Next]_vars => [Store!Next]_Store!vars
  <2> SUFFICES ASSUME DocumentInv, DocumentInv', [Next]_vars PROVE Store!Next \/ UNCHANGED Store!vars
      OBVIOUS
  <2>1. found = AllItems(Nodes(tx)) /\ kept = AllItems(tx.file)
      BY FoundIs
  <2>2. found' = AllItems(Nodes(tx')) /\ kept' = AllItems(tx'.file)
    <3>1. (found = AllItems(Nodes(tx)) /\ kept = AllItems(tx.file))'
        BY FoundIs, PTL
    <3> QED BY <3>1
  <2>3. ASSUME NEW k \in Key, NEW v \in ValuesFor[k], PutKey(k, v) PROVE Store!Next
    <3> DEFINE x == [key |-> k, val |-> v]
    <3>1. x = [key |-> k, val |-> v] /\ v \in Value
        BY DocumentAssumption
    <3>2. found' = Updated(found, x) /\ kept' = kept
      <4> HIDE DEF x, found, kept
      <4> QED BY <2>1, <2>2, <2>3, <3>1, PutStep
    <3> HIDE DEF found, kept
    <3>3. Store!Put(k, v)
        BY <3>2 DEF Store!Put, Store!Without, Updated, found, kept
    <3> QED BY <3>1, <3>3 DEF Store!Next
  <2>4. ASSUME NEW k \in Key, RemoveKey(k) PROVE Store!Next
    <3>1. found' = Without(found, k) /\ kept' = kept
      <4> HIDE DEF found, kept
      <4> QED BY <2>1, <2>2, <2>4, RemoveStep
    <3>2. Store!Remove(k)
        BY <3>1 DEF Store!Remove, Store!Without, Without, found, kept
    <3> QED BY <3>2 DEF Store!Next
  <2>5. CASE Commit
    <3>1. found' = found /\ kept' = found
      <4> HIDE DEF found, kept
      <4> QED BY <2>1, <2>2, <2>5, CommitStep
    <3>2. Store!Commit
        BY <3>1 DEF Store!Commit, found, kept
    <3> QED BY <3>2 DEF Store!Next
  <2>6. CASE Rollback
    <3>1. found' = kept /\ kept' = kept
      <4> HIDE DEF found, kept
      <4> QED BY <2>1, <2>2, <2>6, RollbackStep
    <3>2. Store!Rollback
        BY <3>1 DEF Store!Rollback, found, kept
    <3> QED BY <3>2 DEF Store!Next
  <2>7. CASE UNCHANGED vars
      BY <2>7 DEF vars, Store!vars
  <2> QED BY <2>3, <2>4, <2>5, <2>6, <2>7 DEF Next
<1>3. Spec => []DocumentInv
    BY DocumentInvHolds
<1> QED BY <1>1, <1>2, <1>3, PTL DEF Spec, Store!Spec, ImplementsDocument
=============================================================================
