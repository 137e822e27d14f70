--------------------------- MODULE RebalanceProofs ---------------------------
(***************************************************************************)
(* Theorems of Rebalance, for any thresholds, values and numbers of        *)
(* children and items: whichever way Node::rebalanceAfterRemove takes,     *)
(* what is below the node stays in its order, and every child is accounted *)
(* for.  The items below a node are a sequence of blocks, one per child    *)
(* with the item that follows it; borrowing moves the border between two   *)
(* neighbouring blocks and merging makes one of them, which the whole      *)
(* sequence does not show.                                                 *)
(***************************************************************************)
EXTENDS Rebalance, BTreeProofs

\* The sequences tt are ss with those at j and j + 1 joined to one, ...
Joined(ss, tt, j) ==
    /\ j \in 1 .. Len(tt) /\ Len(ss) = Len(tt) + 1
    /\ tt[j] = ss[j] \o ss[j + 1]
    /\ \A l \in 1 .. Len(tt) : (l < j => tt[l] = ss[l]) /\ (l > j => tt[l] = ss[l + 1])

\* ... or with the border between the two moved.
Moved(ss, tt, j) ==
    /\ j \in 1 .. Len(ss) - 1 /\ Len(tt) = Len(ss)
    /\ tt[j] \o tt[j + 1] = ss[j] \o ss[j + 1]
    /\ \A l \in 1 .. Len(ss) : l # j /\ l # j + 1 => tt[l] = ss[l]

\* It does not matter where a sequence of three parts is divided.
Regroups(a, b, c) == (a \o b) \o c = a \o (b \o c)

LEMMA Associative ==
    ASSUME NEW S, NEW a \in Seq(S), NEW b \in Seq(S), NEW c \in Seq(S)
    PROVE  Regroups(a, b, c)
BY ConcatAssociative DEF Regroups

\* A sequence that has a length other than zero is not empty.
LEMMA EmptyHasNone == \A s : Len(s) # 0 => s # <<>>
OBVIOUS

\* The whole stays what it is when two neighbours are joined, ...
LEMMA FlattenJoined ==
    ASSUME NEW S, NEW ss \in Seq(Seq(S)), NEW tt \in Seq(Seq(S)), NEW j, Joined(ss, tt, j)
    PROVE  FlattenSeq(tt) = FlattenSeq(ss)
<1> DEFINE n == Len(tt)
<1>1. /\ n \in Nat /\ n > 0 /\ ss # <<>> /\ tt # <<>> /\ Len(ss) = n + 1 /\ j \in 1 .. n
      /\ \A l \in 1 .. n + 1 : ss[l] \in Seq(S)
  <2>1. n \in Nat /\ Len(ss) = n + 1 /\ j \in 1 .. n /\ \A l \in 1 .. n + 1 : ss[l] \in Seq(S)
      BY RangeIs DEF Joined
  <2> QED BY <2>1, EmptySeq
<1>2. PICK f \in [1 .. n + 1 -> Seq(S)] :
               /\ f[1] = ss[1] /\ \A i \in 2 .. n + 1 : f[i] = f[i - 1] \o ss[i]
               /\ FlattenSeq(ss) = f[n + 1]
  <2>1. \E f \in [1 .. Len(ss) -> Seq(S)] :
               /\ f[1] = ss[1] /\ \A i \in 2 .. Len(ss) : f[i] = f[i - 1] \o ss[i]
               /\ FlattenSeq(ss) = f[Len(ss)]
      BY <1>1, FlattenDefined
  <2> HIDE DEF n
  <2>2. Len(ss) = n + 1
      BY <1>1
  <2> QED BY <2>1, <2>2, Zenon
<1>3. PICK g \in [1 .. n -> Seq(S)] :
               /\ g[1] = tt[1] /\ \A i \in 2 .. n : g[i] = g[i - 1] \o tt[i]
               /\ FlattenSeq(tt) = g[n]
    BY <1>1, FlattenDefined
<1>4. /\ tt[j] = ss[j] \o ss[j + 1]
      /\ \A l \in 1 .. n : (l < j => tt[l] = ss[l]) /\ (l > j => tt[l] = ss[l + 1])
    BY DEF Joined
<1> HIDE DEF n
<1> DEFINE T == {i \in Nat : i \in 1 .. n => g[i] = IF i < j THEN f[i] ELSE f[i + 1]}
<1>5. 0 \in T
    BY <1>1
<1>6. ASSUME NEW l \in Nat, l \in T PROVE l + 1 \in T
  <2> SUFFICES ASSUME NEW i \in 1 .. n, i = l + 1 PROVE g[i] = IF i < j THEN f[i] ELSE f[i + 1]
      OBVIOUS
  <2>1. CASE i = 1
    <3>1. CASE 1 < j
        BY <1>1, <1>2, <1>3, <1>4, <2>1, <3>1
    <3>2. CASE ~(1 < j)
      <4>1. j = 1 /\ 2 \in 2 .. n + 1 /\ 2 - 1 = 1 /\ 1 + 1 = 2
          BY <1>1, <3>2
      <4>2. f[2] = f[1] \o ss[2]
          BY <1>2, <4>1
      <4>3. tt[1] = ss[1] \o ss[2]
          BY <1>4, <4>1
      <4>4. g[1] = f[2]
          BY <1>2, <1>3, <4>1, <4>2, <4>3, Zenon
      <4> QED BY <2>1, <4>1, <4>4
    <3> QED BY <3>1, <3>2
  <2>2. CASE i # 1
    <3>1. /\ i - 1 \in 1 .. n /\ i \in 2 .. n /\ i - 1 = l /\ i \in 2 .. n + 1 /\ i + 1 \in 2 .. n + 1
          /\ (i + 1) - 1 = i /\ (i - 1) + 1 = i /\ i \in 1 .. n + 1 /\ i + 1 \in 1 .. n + 1
          /\ i - 1 \in 1 .. n + 1
        BY <1>1, <2>2
    <3>2. g[i] = g[i - 1] \o tt[i]
        BY <1>3, <3>1
    <3>3. g[i - 1] = IF i - 1 < j THEN f[i - 1] ELSE f[i]
        BY <1>6, <3>1
    <3>4. f[i] = f[i - 1] \o ss[i]
        BY <1>2, <3>1
    <3>5. f[i + 1] = f[i] \o ss[i + 1]
        BY <1>2, <3>1
    <3>6. CASE i < j
      <4>1. i - 1 < j /\ tt[i] = ss[i]
          BY <1>1, <1>4, <3>6
      <4> QED BY <3>2, <3>3, <3>4, <3>6, <4>1
    <3>7. CASE i = j
      <4>1. f[i - 1] \in Seq(S) /\ ss[i] \in Seq(S) /\ ss[i + 1] \in Seq(S)
          BY <1>1, <1>2, <3>1
      <4>2. (f[i - 1] \o ss[i]) \o ss[i + 1] = f[i - 1] \o (ss[i] \o ss[i + 1])
        <5>1. Regroups(f[i - 1], ss[i], ss[i + 1])
            BY <4>1, Associative, Zenon
        <5> QED BY <5>1, Zenon DEF Regroups
      <4>3. tt[i] = ss[i] \o ss[i + 1]
          BY <1>4, <3>7
      <4>4. i - 1 < j /\ ~(i < j)
          BY <1>1, <3>7
      <4> QED BY <3>2, <3>3, <3>4, <3>5, <4>2, <4>3, <4>4
    <3>8. CASE i > j
      <4>1. tt[i] = ss[i + 1] /\ ~(i - 1 < j) /\ ~(i < j)
          BY <1>1, <1>4, <3>8
      <4> QED BY <3>2, <3>3, <3>5, <4>1
    <3> QED BY <1>1, <3>6, <3>7, <3>8
  <2> QED BY <2>1, <2>2
<1>7. n \in T
  <2> HIDE DEF T
  <2>1. \A i \in Nat : i \in T => i + 1 \in T
      BY <1>6
  <2> QED BY <1>1, <1>5, <2>1, SetInduction
<1> QED BY <1>1, <1>2, <1>3, <1>7

\* ... and when the border between them is moved: joined, they are the same.
LEMMA FlattenMoved ==
    ASSUME NEW S, NEW ss \in Seq(Seq(S)), NEW tt \in Seq(Seq(S)), NEW j, Moved(ss, tt, j)
    PROVE  FlattenSeq(tt) = FlattenSeq(ss)
<1> DEFINE n == Len(ss) - 1
           of(l) == IF l < j THEN ss[l] ELSE IF l = j THEN ss[j] \o ss[j + 1] ELSE ss[l + 1]
           uu == [l \in 1 .. n |-> of(l)]
<1>1. /\ n \in Nat /\ j \in 1 .. n /\ Len(ss) = n + 1 /\ Len(tt) = n + 1
      /\ \A l \in 1 .. n + 1 : ss[l] \in Seq(S)
  <2>1. Len(ss) \in Nat /\ \A l \in 1 .. Len(ss) : ss[l] \in Seq(S)
      BY RangeIs
  <2>2. j \in 1 .. n /\ Len(tt) = Len(ss)
      BY DEF Moved
  <2> QED BY <2>1, <2>2
<1>2. /\ tt[j] \o tt[j + 1] = ss[j] \o ss[j + 1]
      /\ \A l \in 1 .. n + 1 : l # j /\ l # j + 1 => tt[l] = ss[l]
    BY <1>1 DEF Moved
<1> HIDE DEF n
<1>3. \A l \in 1 .. n : of(l) \in Seq(S)
  <2> SUFFICES ASSUME NEW l \in 1 .. n PROVE of(l) \in Seq(S)
      OBVIOUS
  <2>1. l \in 1 .. n + 1 /\ l + 1 \in 1 .. n + 1
      BY <1>1
  <2>2. ss[l] \in Seq(S) /\ ss[l + 1] \in Seq(S)
      BY <1>1, <2>1
  <2>3. ss[l] \o ss[l + 1] \in Seq(S)
      BY <2>2, ConcatProperties
  <2> QED BY <2>2, <2>3
<1>4. uu \in Seq(Seq(S)) /\ Len(uu) = n
  <2> HIDE DEF of
  <2> QED BY <1>1, <1>3
<1>5. \A l \in 1 .. n : uu[l] = of(l)
    OBVIOUS
<1>o. /\ of(j) = ss[j] \o ss[j + 1]
      /\ \A l \in 1 .. n : (l < j => of(l) = ss[l]) /\ (l > j => of(l) = ss[l + 1])
  <2>1. ~(j < j) /\ \A l \in 1 .. n : l > j => ~(l < j) /\ l # j
      BY <1>1
  <2> QED BY <2>1, Zenon
<1>6. Joined(ss, uu, j)
  <2>1. /\ uu[j] = ss[j] \o ss[j + 1]
        /\ \A l \in 1 .. n : (l < j => uu[l] = ss[l]) /\ (l > j => uu[l] = ss[l + 1])
    <3> HIDE DEF uu, of
    <3> QED BY <1>1, <1>5, <1>o
  <2> HIDE DEF uu
  <2> QED BY <1>1, <1>4, <2>1 DEF Joined
<1>7. Joined(tt, uu, j)
  <2>1. uu[j] = tt[j] \o tt[j + 1]
    <3>1. uu[j] = ss[j] \o ss[j + 1]
      <4> HIDE DEF uu, of
      <4> QED BY <1>1, <1>5, <1>o
    <3> HIDE DEF uu
    <3> QED BY <1>2, <3>1
  <2>2. ASSUME NEW l \in 1 .. n, l # j
        PROVE  (l < j => uu[l] = tt[l]) /\ (l > j => uu[l] = tt[l + 1])
    <3>1. l \in 1 .. n + 1 /\ l + 1 \in 1 .. n + 1
        BY <1>1
    <3>2. l < j => tt[l] = ss[l]
        BY <1>1, <1>2, <3>1
    <3>3. l > j => tt[l + 1] = ss[l + 1]
        BY <1>1, <1>2, <3>1
    <3> HIDE DEF uu
    <3> QED BY <1>1, <1>5, <2>2, <3>2, <3>3
  <2> HIDE DEF uu, of
  <2>3. \A l \in 1 .. n : (l < j => uu[l] = tt[l]) /\ (l > j => uu[l] = tt[l + 1])
    <3> SUFFICES ASSUME NEW l \in 1 .. n
                 PROVE  (l < j => uu[l] = tt[l]) /\ (l > j => uu[l] = tt[l + 1])
        OBVIOUS
    <3>1. CASE l = j
        BY <1>1, <3>1
    <3> QED BY <2>2, <3>1
  <2> QED BY <1>1, <1>4, <2>1, <2>3 DEF Joined
<1> HIDE DEF uu
<1>8. FlattenSeq(uu) = FlattenSeq(ss) /\ FlattenSeq(uu) = FlattenSeq(tt)
    BY <1>4, <1>6, <1>7, FlattenJoined
<1> QED BY <1>8

-----------------------------------------------------------------------------
(***************************************************************************)
(* A node and its children.                                                *)
(***************************************************************************)
\* Items and nodes of any size, with children on any pages.
AnyItem == [key : Int, val : Value]
AnyNode == [items : Seq(AnyItem), kids : Seq(Nat)]

\* A node is at least a header.
LEMMA SizeAtLeast ==
    ASSUME NEW n \in AnyNode
    PROVE  /\ SizeUpTo(n, 0) = HeaderSize /\ SizeUpTo(n, -1) = HeaderSize
           /\ Size(n) \in Nat /\ Size(n) >= HeaderSize
<1> DEFINE N == Len(n.items)
<1>1. N \in Nat /\ \A i \in 1 .. N : n.items[i] \in AnyItem
    BY RangeIs DEF AnyNode
<1>2. \A i \in 1 .. N : ItemSize(n, i) \in Nat
    BY <1>1, NodeAssumption DEF AnyItem, ItemSize, OffsetSize, LengthsSize, PointerSize
<1> HIDE DEF N
<1>3. /\ SizeUpTo(n, 0) = HeaderSize
      /\ \A j \in 0 .. N : SizeUpTo(n, j) \in Nat
      /\ \A j \in 1 .. N : SizeUpTo(n, j) = SizeUpTo(n, j - 1) + ItemSize(n, j)
    BY <1>1, <1>2, SizeStep
<1>4. SizeUpTo(n, -1) = HeaderSize
  <2>1. 1 .. -1 = 1 .. 0
      OBVIOUS
  <2>2. SizeUpTo(n, -1) = SizeUpTo(n, 0)
      BY <2>1, Zenon DEF SizeUpTo
  <2> QED BY <1>3, <2>2
<1> DEFINE T == {j \in Nat : j \in 0 .. N => SizeUpTo(n, j) >= HeaderSize}
<1>5. 0 \in T
    BY <1>3 DEF HeaderSize
<1>6. ASSUME NEW j \in Nat, j \in T PROVE j + 1 \in T
  <2> SUFFICES ASSUME j + 1 \in 0 .. N PROVE SizeUpTo(n, j + 1) >= HeaderSize
      OBVIOUS
  <2>1. j \in 0 .. N /\ j + 1 \in 1 .. N /\ (j + 1) - 1 = j
      BY <1>1
  <2>2. SizeUpTo(n, j) \in Nat /\ SizeUpTo(n, j) >= HeaderSize
      BY <1>3, <1>6, <2>1
  <2>3. ItemSize(n, j + 1) \in Nat /\ SizeUpTo(n, j + 1) = SizeUpTo(n, j) + ItemSize(n, j + 1)
      BY <1>2, <1>3, <2>1
  <2> QED BY <2>2, <2>3 DEF HeaderSize
<1>7. N \in T
  <2> HIDE DEF T
  <2>1. \A j \in Nat : j \in T => j + 1 \in T
      BY <1>6
  <2> QED BY <1>1, <1>5, <2>1, SetInduction
<1>8. SizeUpTo(n, N) \in Nat /\ SizeUpTo(n, N) >= HeaderSize
    BY <1>1, <1>3, <1>7
<1>9. Size(n) \in Nat /\ Size(n) >= HeaderSize
    BY <1>8 DEF Size, N, PointerSize, HeaderSize
<1> QED BY <1>3, <1>4, <1>9

\* A node that can spare an element has one.
LEMMA SparesOne ==
    ASSUME NEW n \in AnyNode, CanSpareAnElement(n), HeaderSize < MinThreshold
    PROVE  n.items # <<>>
<1> SUFFICES ASSUME n.items = <<>> PROVE FALSE
    OBVIOUS
<1>1. Len(n.items) - 1 = -1
    OBVIOUS
<1>2. SizeUpTo(n, -1) >= MinThreshold
    BY <1>1 DEF CanSpareAnElement
<1> QED BY <1>2, SizeAtLeast, NodeAssumption DEF HeaderSize

\* The nodes c are the children of node, in the order of its gaps, ...
Family(node, c) ==
    /\ node \in AnyNode /\ Len(node.kids) = Len(node.items) + 1
    /\ IsInjective(node.kids) /\ NodePage \notin Range(node.kids)
    /\ c \in [1 .. Len(node.kids) -> AnyNode]
    /\ \A i \in 1 .. Len(node.kids) : ChildPerGap(c[i])
    /\ \A i, j \in 1 .. Len(node.kids) : IsLeaf(c[i]) <=> IsLeaf(c[j])

\* ... and this is what s has.
Seen(s, node, c) ==
    /\ Get(s, NodePage) = node
    /\ \A i \in 1 .. Len(node.kids) : Get(s, node.kids[i]) = c[i]

\* A child's items with the item after it, and a child's children.
After(node, i) == SubSeq(node.items, i, Min({i, Len(node.kids) - 1}))
ItemBlocks(node, c) == [i \in 1 .. Len(node.kids) |-> c[i].items \o After(node, i)]
KidBlocks(node, c) == [i \in 1 .. Len(node.kids) |-> c[i].kids]

\* Rebalance reads what is below the node block by block.
LEMMA ReadsBlocks ==
    ASSUME NEW s, NEW node, NEW c, Family(node, c), Seen(s, node, c)
    PROVE  /\ InOrder(s) = FlattenSeq(ItemBlocks(node, c))
           /\ Below(s) = FlattenSeq(KidBlocks(node, c))
<1>1. Kids(s) = node.kids /\ Get(s, NodePage) = node
    BY DEF Kids, Seen
<1>2. DOMAIN node.kids = 1 .. Len(node.kids)
    BY RangeIs DEF Family, AnyNode
<1>3. \A i \in 1 .. Len(node.kids) : Get(s, node.kids[i]) = c[i]
    BY DEF Seen
<1>4. [i \in DOMAIN Kids(s) |-> Get(s, Kids(s)[i]).items
           \o SubSeq(Get(s, NodePage).items, i, Min({i, Len(Kids(s)) - 1}))] = ItemBlocks(node, c)
    BY <1>1, <1>2, <1>3, Zenon DEF ItemBlocks, After
<1>5. [i \in DOMAIN Kids(s) |-> Get(s, Kids(s)[i]).kids] = KidBlocks(node, c)
    BY <1>1, <1>2, <1>3, Zenon DEF KidBlocks
<1> QED BY <1>4, <1>5, Zenon DEF InOrder, Below

\* The item after a child, none after the last.
LEMMA AfterIs ==
    ASSUME NEW node, NEW c, Family(node, c), NEW i \in 1 .. Len(node.kids)
    PROVE  /\ After(node, i) \in Seq(AnyItem)
           /\ i < Len(node.kids) => After(node, i) = <<node.items[i]>> /\ node.items[i] \in AnyItem
           /\ i = Len(node.kids) => After(node, i) = <<>>
<1> DEFINE n == Len(node.items)
           part == SubSeq(node.items, i, Min({i, Len(node.kids) - 1}))
<1>1. /\ node.items \in Seq(AnyItem) /\ n \in Nat /\ Len(node.kids) = n + 1 /\ i \in 1 .. n + 1
      /\ Len(node.kids) - 1 = n /\ \A j \in 1 .. n : node.items[j] \in AnyItem
  <2>1. node.items \in Seq(AnyItem) /\ Len(node.kids) = n + 1
      BY DEF Family, AnyNode
  <2> QED BY <2>1, RangeIs
<1>2. Min({i, n}) \in {i, n} /\ Min({i, n}) <= i /\ Min({i, n}) <= n
  <2>1. {i, n} \subseteq Nat /\ {i, n} # {}
      BY <1>1
  <2> HIDE DEF n
  <2> QED BY <2>1, MinIs
<1>3. part = SubSeq(node.items, i, Min({i, n}))
    BY <1>1
<1>p. After(node, i) = part
    BY DEF After
<1> HIDE DEF n, part
<1>4. CASE i < n + 1
  <2>1. Min({i, n}) = i /\ i \in 1 .. n /\ i \in 0 .. n /\ i - i + 1 = 1 /\ i + 1 - 1 = i
      BY <1>1, <1>2, <1>4
  <2>2. part \in Seq(AnyItem) /\ Len(part) = 1 /\ part[1] = node.items[i]
    <3>1. /\ SubSeq(node.items, i, i) \in Seq(AnyItem) /\ Len(SubSeq(node.items, i, i)) = i - i + 1
          /\ \A j \in 1 .. i - i + 1 : SubSeq(node.items, i, i)[j] = node.items[i + j - 1]
        BY <1>1, <2>1, PartIs DEF n
    <3>2. 1 \in 1 .. i - i + 1
        BY <2>1
    <3>3. SubSeq(node.items, i, i)[1] = node.items[i + 1 - 1]
        BY <3>1, <3>2
    <3> QED BY <1>3, <2>1, <3>1, <3>3, Zenon
  <2>3. node.items[i] \in AnyItem
      BY <1>1, <2>1
  <2>4. part = <<node.items[i]>>
    <3> DEFINE x == node.items[i]
    <3>1. part \in Seq(AnyItem) /\ <<x>> \in Seq(AnyItem) /\ Len(<<x>>) = 1 /\ <<x>>[1] = x
        BY <2>2, <2>3
    <3>2. \A j \in 1 .. Len(part) : part[j] = <<x>>[j]
        BY <2>2, <3>1
    <3> QED BY <2>2, <3>1, <3>2, SeqEqual
  <2> QED BY <1>1, <1>4, <1>p, <2>2, <2>3, <2>4
<1>5. CASE i = n + 1
  <2>1. Min({i, n}) = n /\ n \in 0 .. n /\ n - i + 1 = 0 /\ i <= n + 1
      BY <1>1, <1>2, <1>5
  <2>2. part \in Seq(AnyItem) /\ Len(part) = 0
    <3>1. SubSeq(node.items, i, n) \in Seq(AnyItem) /\ Len(SubSeq(node.items, i, n)) = n - i + 1
        BY <1>1, <2>1, PartIs DEF n
    <3> QED BY <1>3, <2>1, <3>1
  <2>3. part = <<>>
      BY <2>2, EmptySeq
  <2> QED BY <1>1, <1>p, <1>5, <2>2, <2>3
<1> QED BY <1>1, <1>4, <1>5

\* The blocks are sequences.
Blocked(node, c) ==
    /\ Len(node.kids) \in Nat /\ Len(node.kids) > 0 /\ DOMAIN node.kids = 1 .. Len(node.kids)
    /\ ItemBlocks(node, c) \in Seq(Seq(AnyItem)) /\ Len(ItemBlocks(node, c)) = Len(node.kids)
    /\ KidBlocks(node, c) \in Seq(Seq(Nat)) /\ Len(KidBlocks(node, c)) = Len(node.kids)
    /\ \A i \in 1 .. Len(node.kids) :
           /\ c[i].items \in Seq(AnyItem) /\ c[i].kids \in Seq(Nat)
           /\ ItemBlocks(node, c)[i] = c[i].items \o After(node, i)
           /\ KidBlocks(node, c)[i] = c[i].kids

\* The blocks of a node and its children are.
LEMMA BlocksAre ==
    ASSUME NEW node, NEW c, Family(node, c)
    PROVE  Blocked(node, c)
<1> DEFINE n == Len(node.kids)
<1>1. n \in Nat /\ n > 0 /\ DOMAIN node.kids = 1 .. n
    BY RangeIs DEF Family, AnyNode
<1>2. \A i \in 1 .. n : c[i].items \in Seq(AnyItem) /\ c[i].kids \in Seq(Nat)
    BY DEF Family, AnyNode
<1>3. ASSUME NEW i \in 1 .. n PROVE c[i].items \o After(node, i) \in Seq(AnyItem)
  <2> DEFINE a == c[i].items
             b == After(node, i)
  <2>1. a \in Seq(AnyItem) /\ b \in Seq(AnyItem)
      BY <1>2, AfterIs
  <2> HIDE DEF a, b
  <2>2. a \o b \in Seq(AnyItem)
      BY <2>1, ConcatProperties
  <2> QED BY <2>2 DEF a, b
<1> HIDE DEF n
<1>4. ItemBlocks(node, c) = [i \in 1 .. n |-> c[i].items \o After(node, i)]
    BY DEF ItemBlocks, n
<1>5. KidBlocks(node, c) = [i \in 1 .. n |-> c[i].kids]
    BY DEF KidBlocks, n
<1>6. /\ [i \in 1 .. n |-> c[i].kids] \in Seq(Seq(Nat)) /\ Len([i \in 1 .. n |-> c[i].kids]) = n
    BY <1>1, <1>2
<1>7. \A i \in 1 .. n : [j \in 1 .. n |-> c[j].kids][i] = c[i].kids
    OBVIOUS
<1> DEFINE b(i) == c[i].items \o After(node, i)
           bb == [i \in 1 .. n |-> b(i)]
<1>8. \A i \in 1 .. n : b(i) \in Seq(AnyItem)
    BY <1>3
<1>9. bb \in Seq(Seq(AnyItem)) /\ Len(bb) = n /\ \A i \in 1 .. n : bb[i] = b(i)
  <2> HIDE DEF b
  <2> QED BY <1>1, <1>8
<1> QED BY <1>1, <1>2, <1>4, <1>5, <1>6, <1>7, <1>9, Zenon DEF n, Blocked

-----------------------------------------------------------------------------
(***************************************************************************)
(* Borrowing and merging, on the nodes.                                    *)
(***************************************************************************)
\* Neighbours at j and j + 1 have become the nodes l and r with x between them.
Borrowed(node, c, j, l, x, r) ==
    /\ j \in 1 .. Len(node.kids) - 1
    /\ l \in AnyNode /\ r \in AnyNode /\ x \in AnyItem
    /\ ChildPerGap(l) /\ ChildPerGap(r)
    /\ (IsLeaf(l) <=> IsLeaf(c[j])) /\ (IsLeaf(r) <=> IsLeaf(c[j + 1]))
    /\ (l.items \o <<x>>) \o r.items = (c[j].items \o <<node.items[j]>>) \o c[j + 1].items
    /\ l.kids \o r.kids = c[j].kids \o c[j + 1].kids

\* The node and its children then.
Traded(node, c, j, l, x, r, node1, c1) ==
    /\ node1 = [node EXCEPT !.items[j] = x]
    /\ c1 = [i \in 1 .. Len(node.kids) |-> IF i = j THEN l ELSE IF i = j + 1 THEN r ELSE c[i]]

\* What is below the node stays in its order.
LEMMA BorrowedKeeps ==
    ASSUME NEW node, NEW c, Family(node, c), NEW j, NEW l, NEW x, NEW r, Borrowed(node, c, j, l, x, r),
           NEW node1, NEW c1, Traded(node, c, j, l, x, r, node1, c1)
    PROVE  /\ Family(node1, c1) /\ node1.kids = node.kids
           /\ FlattenSeq(ItemBlocks(node1, c1)) = FlattenSeq(ItemBlocks(node, c))
           /\ FlattenSeq(KidBlocks(node1, c1)) = FlattenSeq(KidBlocks(node, c))
<1> DEFINE n == Len(node.kids)
<1>1. /\ n \in Nat /\ j \in 1 .. n - 1 /\ j \in 1 .. n /\ j + 1 \in 1 .. n
      /\ j \in 1 .. Len(node.items) /\ Len(node.items) = n - 1
      /\ node.items \in Seq(AnyItem) /\ node.kids \in Seq(Nat) /\ c \in [1 .. n -> AnyNode]
  <2>1. n \in Nat /\ j \in 1 .. n - 1
      BY BlocksAre DEF Borrowed, Blocked
  <2>2. node.items \in Seq(AnyItem) /\ node.kids \in Seq(Nat) /\ c \in [1 .. n -> AnyNode]
        /\ n = Len(node.items) + 1 /\ Len(node.items) \in Nat
      BY LenProperties DEF Family, AnyNode
  <2> QED BY <2>1, <2>2
<1>2. /\ node1 = [items |-> [node.items EXCEPT ![j] = x], kids |-> node.kids]
      /\ x \in AnyItem /\ l \in AnyNode /\ r \in AnyNode
      /\ \A i \in 1 .. n : c1[i] = IF i = j THEN l ELSE IF i = j + 1 THEN r ELSE c[i]
      /\ c1 = [i \in 1 .. n |-> IF i = j THEN l ELSE IF i = j + 1 THEN r ELSE c[i]]
  <2>1. node = [items |-> node.items, kids |-> node.kids]
      BY DEF Family, AnyNode
  <2> QED BY <2>1 DEF Borrowed, Traded
<1>3. /\ node1.items \in Seq(AnyItem) /\ Len(node1.items) = n - 1 /\ node1.kids = node.kids
      /\ \A i \in 1 .. n - 1 : i # j => node1.items[i] = node.items[i]
      /\ node1.items[j] = x /\ node1 \in AnyNode
  <2>1. /\ [node.items EXCEPT ![j] = x] \in Seq(AnyItem)
        /\ Len([node.items EXCEPT ![j] = x]) = Len(node.items)
        /\ \A i \in 1 .. Len(node.items) : [node.items EXCEPT ![j] = x][i] = IF i = j THEN x ELSE node.items[i]
      BY <1>1, <1>2, ReplaceIs
  <2>2. node1.items = [node.items EXCEPT ![j] = x] /\ node1.kids = node.kids
      BY <1>2
  <2> HIDE DEF n
  <2>3. /\ node1.items \in Seq(AnyItem) /\ Len(node1.items) = n - 1
        /\ \A i \in 1 .. n - 1 : node1.items[i] = IF i = j THEN x ELSE node.items[i]
      BY <1>1, <2>1, <2>2
  <2>4. node1 \in AnyNode
      BY <1>1, <1>2, <2>1 DEF AnyNode
  <2> QED BY <1>1, <2>2, <2>3, <2>4
<1>4. /\ \A i \in 1 .. n : ChildPerGap(c[i])
      /\ \A i, k \in 1 .. n : IsLeaf(c[i]) <=> IsLeaf(c[k])
      /\ IsInjective(node.kids) /\ NodePage \notin Range(node.kids)
    BY DEF Family
<1>5. /\ ChildPerGap(l) /\ ChildPerGap(r)
      /\ (IsLeaf(l) <=> IsLeaf(c[j])) /\ (IsLeaf(r) <=> IsLeaf(c[j + 1]))
      /\ (l.items \o <<x>>) \o r.items = (c[j].items \o <<node.items[j]>>) \o c[j + 1].items
      /\ l.kids \o r.kids = c[j].kids \o c[j + 1].kids
    BY DEF Borrowed
<1>6. Family(node1, c1)
  <2> HIDE DEF n
  <2>1. Len(node1.kids) = n /\ n = Len(node1.items) + 1
      BY <1>1, <1>3 DEF n
  <2>2. c1 \in [1 .. n -> AnyNode]
      BY <1>1, <1>2
  <2>3. \A i \in 1 .. n : ChildPerGap(c1[i]) /\ (IsLeaf(c1[i]) <=> IsLeaf(c[i]))
      BY <1>1, <1>2, <1>4, <1>5
  <2>4. \A i, k \in 1 .. n : IsLeaf(c1[i]) <=> IsLeaf(c1[k])
      BY <1>4, <2>3
  <2> QED BY <1>3, <1>4, <2>1, <2>2, <2>3, <2>4 DEF Family
<1>7. \A i \in 1 .. n : i # j => After(node1, i) = After(node, i)
  <2> SUFFICES ASSUME NEW i \in 1 .. n, i # j PROVE After(node1, i) = After(node, i)
      OBVIOUS
  <2>1. Len(node1.kids) = n
      BY <1>3
  <2>2. CASE i < n
    <3>1. After(node, i) = <<node.items[i]>> /\ After(node1, i) = <<node1.items[i]>>
        BY <1>6, <2>1, <2>2, AfterIs
    <3>2. node1.items[i] = node.items[i]
      <4>1. i \in 1 .. n - 1
          BY <1>1, <2>2
      <4> QED BY <1>3, <4>1
    <3> QED BY <3>1, <3>2
  <2>3. CASE i = n
    <3>1. After(node, i) = <<>> /\ After(node1, i) = <<>>
        BY <1>6, <2>1, <2>3, AfterIs
    <3> QED BY <3>1
  <2> QED BY <1>1, <2>2, <2>3
<1>8. /\ After(node, j) = <<node.items[j]>> /\ After(node1, j) = <<x>>
      /\ node.items[j] \in AnyItem /\ After(node, j + 1) \in Seq(AnyItem)
  <2>1. j < n /\ Len(node1.kids) = n
      BY <1>1, <1>3
  <2> QED BY <1>1, <1>3, <1>6, <2>1, AfterIs
<1>9. /\ ItemBlocks(node, c) \in Seq(Seq(AnyItem)) /\ Len(ItemBlocks(node, c)) = n
      /\ KidBlocks(node, c) \in Seq(Seq(Nat)) /\ Len(KidBlocks(node, c)) = n
      /\ \A i \in 1 .. n : /\ c[i].items \in Seq(AnyItem) /\ c[i].kids \in Seq(Nat)
                           /\ ItemBlocks(node, c)[i] = c[i].items \o After(node, i)
                           /\ KidBlocks(node, c)[i] = c[i].kids
  <2>1. Blocked(node, c)
      BY BlocksAre
  <2> QED BY <2>1 DEF Blocked
<1>10. /\ ItemBlocks(node1, c1) \in Seq(Seq(AnyItem)) /\ Len(ItemBlocks(node1, c1)) = n
       /\ KidBlocks(node1, c1) \in Seq(Seq(Nat)) /\ Len(KidBlocks(node1, c1)) = n
       /\ \A i \in 1 .. n : /\ ItemBlocks(node1, c1)[i] = c1[i].items \o After(node1, i)
                            /\ KidBlocks(node1, c1)[i] = c1[i].kids
  <2>1. Len(node1.kids) = n
      BY <1>3
  <2>2. Blocked(node1, c1)
      BY <1>6, BlocksAre
  <2> HIDE DEF n
  <2> QED BY <2>1, <2>2 DEF Blocked
<1> HIDE DEF n
<1>11. c1[j] = l /\ c1[j + 1] = r /\ \A i \in 1 .. n : i # j /\ i # j + 1 => c1[i] = c[i]
    BY <1>1, <1>2
<1>12. Moved(ItemBlocks(node, c), ItemBlocks(node1, c1), j)
  <2> DEFINE a == c[j].items
             y == <<node.items[j]>>
             b == c[j + 1].items
             a1 == l.items
             y1 == <<x>>
             b1 == r.items
             e == After(node, j + 1)
  <2>1. /\ a \in Seq(AnyItem) /\ y \in Seq(AnyItem) /\ b \in Seq(AnyItem) /\ a1 \in Seq(AnyItem)
        /\ y1 \in Seq(AnyItem) /\ b1 \in Seq(AnyItem) /\ e \in Seq(AnyItem)
      BY <1>1, <1>2, <1>8, <1>9 DEF AnyNode
  <2>2. (a1 \o y1) \o b1 = (a \o y) \o b
      BY <1>5
  <2>3. /\ ItemBlocks(node, c)[j] = a \o y /\ ItemBlocks(node, c)[j + 1] = b \o e
        /\ ItemBlocks(node1, c1)[j] = a1 \o y1 /\ ItemBlocks(node1, c1)[j + 1] = b1 \o e
    <3>1. After(node1, j + 1) = After(node, j + 1)
        BY <1>1, <1>7
    <3> QED BY <1>1, <1>8, <1>9, <1>10, <1>11, <3>1
  <2> HIDE DEF a, y, b, a1, y1, b1, e
  <2>4. (a \o y) \o (b \o e) = (a1 \o y1) \o (b1 \o e)
    <3>1. a \o y \in Seq(AnyItem) /\ a1 \o y1 \in Seq(AnyItem)
        BY <2>1, ConcatProperties
    <3> DEFINE p == a \o y
               p1 == a1 \o y1
    <3>2. p \in Seq(AnyItem) /\ p1 \in Seq(AnyItem) /\ p1 \o b1 = p \o b
        BY <2>2, <3>1
    <3> HIDE DEF p, p1
    <3>3. (p \o b) \o e = p \o (b \o e)
      <4>1. p \in Seq(AnyItem) /\ b \in Seq(AnyItem) /\ e \in Seq(AnyItem)
          BY <2>1, <3>2
      <4> QED BY <4>1, ConcatAssociative
    <3>4. (p1 \o b1) \o e = p1 \o (b1 \o e)
      <4>1. p1 \in Seq(AnyItem) /\ b1 \in Seq(AnyItem) /\ e \in Seq(AnyItem)
          BY <2>1, <3>2
      <4> QED BY <4>1, ConcatAssociative
    <3>5. p \o (b \o e) = p1 \o (b1 \o e)
        BY <3>2, <3>3, <3>4
    <3> QED BY <3>5 DEF p, p1
  <2>5. \A i \in 1 .. n : i # j /\ i # j + 1 => ItemBlocks(node1, c1)[i] = ItemBlocks(node, c)[i]
      BY <1>7, <1>9, <1>10, <1>11
  <2> QED BY <1>1, <1>9, <1>10, <2>3, <2>4, <2>5 DEF Moved
<1>13. Moved(KidBlocks(node, c), KidBlocks(node1, c1), j)
  <2>1. KidBlocks(node1, c1)[j] \o KidBlocks(node1, c1)[j + 1] = KidBlocks(node, c)[j] \o KidBlocks(node, c)[j + 1]
      BY <1>1, <1>5, <1>9, <1>10, <1>11
  <2>2. \A i \in 1 .. n : i # j /\ i # j + 1 => KidBlocks(node1, c1)[i] = KidBlocks(node, c)[i]
      BY <1>9, <1>10, <1>11
  <2> QED BY <1>1, <1>9, <1>10, <2>1, <2>2 DEF Moved
<1> QED BY <1>3, <1>6, <1>9, <1>10, <1>12, <1>13, FlattenMoved

\* A sequence without its last element, ...
LEMMA FrontLast ==
    ASSUME NEW S, NEW s \in Seq(S), s # <<>>
    PROVE  /\ Front(s) \in Seq(S) /\ Len(Front(s)) = Len(s) - 1 /\ Len(s) - 1 \in Nat
           /\ Last(s) \in S /\ Front(s) \o <<Last(s)>> = s
<1> DEFINE n == Len(s)
           f == Front(s)
           e == Last(s)
<1>1. n \in Nat /\ n > 0 /\ \A i \in 1 .. n : s[i] \in S
    BY RangeIs, EmptySeq
<1>2. /\ f \in Seq(S) /\ Len(f) = n - 1 /\ \A i \in 1 .. n - 1 : f[i] = s[i]
  <2>1. 1 \in 1 .. n + 1 /\ n - 1 \in 0 .. n /\ 1 <= (n - 1) + 1 /\ (n - 1) - 1 + 1 = n - 1
      BY <1>1
  <2>2. /\ SubSeq(s, 1, n - 1) \in Seq(S) /\ Len(SubSeq(s, 1, n - 1)) = (n - 1) - 1 + 1
        /\ \A i \in 1 .. (n - 1) - 1 + 1 : SubSeq(s, 1, n - 1)[i] = s[1 + i - 1]
      BY <2>1, PartIs
  <2>3. \A i \in 1 .. n - 1 : 1 + i - 1 = i
      OBVIOUS
  <2>4. f = SubSeq(s, 1, n - 1)
      BY DEF Front
  <2> HIDE DEF f, n
  <2> QED BY <2>1, <2>2, <2>3, <2>4
<1>3. e \in S /\ e = s[n]
    BY <1>1 DEF Last
<1> HIDE DEF n, f, e
<1>4. <<e>> \in Seq(S) /\ Len(<<e>>) = 1 /\ <<e>>[1] = e
    BY <1>3
<1> DEFINE t == f \o <<e>>
<1>5. /\ t \in Seq(S) /\ Len(t) = n
      /\ \A i \in 1 .. n : t[i] = IF i <= n - 1 THEN f[i] ELSE <<e>>[i - (n - 1)]
  <2>1. /\ f \o <<e>> \in Seq(S) /\ Len(f \o <<e>>) = Len(f) + Len(<<e>>)
        /\ \A i \in 1 .. Len(f) + Len(<<e>>) : (f \o <<e>>)[i] =
               IF i <= Len(f) THEN f[i] ELSE <<e>>[i - Len(f)]
      BY <1>2, <1>4, ConcatProperties
  <2>2. Len(f) + Len(<<e>>) = n /\ Len(f) = n - 1
      BY <1>1, <1>2, <1>4
  <2> HIDE DEF t
  <2> QED BY <2>1, <2>2 DEF t
<1> HIDE DEF t
<1>6. \A i \in 1 .. n : t[i] = s[i]
  <2> SUFFICES ASSUME NEW i \in 1 .. n PROVE t[i] = s[i]
      OBVIOUS
  <2>1. CASE i <= n - 1
      BY <1>1, <1>2, <1>5, <2>1
  <2>2. CASE ~(i <= n - 1)
    <3>1. i = n /\ i - (n - 1) = 1
        BY <1>1, <2>2
    <3> QED BY <1>3, <1>4, <1>5, <2>2, <3>1
  <2> QED BY <2>1, <2>2
<1>7. t = s
    BY <1>5, <1>6, SeqEqual DEF n
<1> QED BY <1>1, <1>2, <1>3, <1>7 DEF n, f, e, t

\* ... and without its first.
LEMMA HeadTail ==
    ASSUME NEW S, NEW s \in Seq(S), s # <<>>
    PROVE  /\ Tail(s) \in Seq(S) /\ Len(Tail(s)) = Len(s) - 1 /\ Len(s) - 1 \in Nat
           /\ Head(s) \in S /\ <<Head(s)>> \o Tail(s) = s
<1> DEFINE n == Len(s)
           f == Tail(s)
           e == Head(s)
<1>1. n \in Nat /\ n > 0 /\ \A i \in 1 .. n : s[i] \in S
    BY RangeIs, EmptySeq
<1>2. f \in Seq(S) /\ Len(f) = n - 1 /\ \A i \in 1 .. n - 1 : f[i] = s[i + 1]
    BY HeadTailProperties
<1>3. e \in S /\ e = s[1]
    BY <1>1
<1> HIDE DEF n, f, e
<1>4. <<e>> \in Seq(S) /\ Len(<<e>>) = 1 /\ <<e>>[1] = e
    BY <1>3
<1> DEFINE t == <<e>> \o f
<1>5. /\ t \in Seq(S) /\ Len(t) = n
      /\ \A i \in 1 .. n : t[i] = IF i <= 1 THEN <<e>>[i] ELSE f[i - 1]
  <2>1. /\ <<e>> \o f \in Seq(S) /\ Len(<<e>> \o f) = Len(<<e>>) + Len(f)
        /\ \A i \in 1 .. Len(<<e>>) + Len(f) : (<<e>> \o f)[i] =
               IF i <= Len(<<e>>) THEN <<e>>[i] ELSE f[i - Len(<<e>>)]
      BY <1>2, <1>4, ConcatProperties
  <2>2. Len(<<e>>) + Len(f) = n
      BY <1>1, <1>2, <1>4
  <2> HIDE DEF t
  <2> QED BY <1>4, <2>1, <2>2 DEF t
<1> HIDE DEF t
<1>6. \A i \in 1 .. n : t[i] = s[i]
  <2> SUFFICES ASSUME NEW i \in 1 .. n PROVE t[i] = s[i]
      OBVIOUS
  <2>1. CASE i <= 1
    <3>1. i = 1
        BY <2>1
    <3> QED BY <1>3, <1>4, <1>5, <3>1
  <2>2. CASE ~(i <= 1)
    <3>1. i - 1 \in 1 .. n - 1 /\ (i - 1) + 1 = i
        BY <1>1, <2>2
    <3> QED BY <1>2, <1>5, <2>2, <3>1
  <2> QED BY <2>1, <2>2
<1>7. t = s
    BY <1>5, <1>6, SeqEqual DEF n
<1> QED BY <1>1, <1>2, <1>3, <1>7 DEF n, f, e, t

\* An element before a sequence, and one after it.
LEMMA Joins ==
    ASSUME NEW S, NEW e \in S, NEW s \in Seq(S)
    PROVE  /\ <<e>> \o s \in Seq(S) /\ Len(<<e>> \o s) = Len(s) + 1 /\ <<e>> \o s # <<>>
           /\ Append(s, e) \in Seq(S) /\ Len(Append(s, e)) = Len(s) + 1 /\ Append(s, e) # <<>>
           /\ Append(s, e) = s \o <<e>>
<1> DEFINE a == <<e>>
<1>1. a \in Seq(S) /\ Len(a) = 1 /\ Len(s) \in Nat
    BY LenProperties
<1>2. /\ Append(s, e) \in Seq(S) /\ Len(Append(s, e)) = Len(s) + 1 /\ Append(s, e) # <<>>
      /\ Append(s, e) = s \o a
    BY AppendProperties, AppendIsConcat
<1> HIDE DEF a
<1>3. a \o s \in Seq(S) /\ Len(a \o s) = Len(s) + 1
  <2>1. a \o s \in Seq(S) /\ Len(a \o s) = Len(a) + Len(s)
      BY <1>1, ConcatProperties
  <2> QED BY <1>1, <2>1
<1>4. a \o s # <<>>
    BY <1>1, <1>3, EmptySeq
<1> QED BY <1>2, <1>3, <1>4 DEF a

\* A sibling gives its last item to the child on its right, and its last child
\* unless it is a leaf.
FedFromLeft(node, c, i) ==
    [items |-> <<node.items[i - 1]>> \o c[i].items,
     kids |-> IF IsLeaf(c[i]) THEN <<>> ELSE <<Last(c[i - 1].kids)>> \o c[i].kids]

\* ... and the two keep what is below them.
LEMMA BorrowedFromLeft ==
    ASSUME NEW node, NEW c, Family(node, c), NEW i \in 2 .. Len(node.kids), c[i - 1].items # <<>>
    PROVE  Borrowed(node, c, i - 1, WithoutLast(c[i - 1]), Last(c[i - 1].items), FedFromLeft(node, c, i))
<1> DEFINE n == Len(node.kids)
           l == c[i - 1]
           r == c[i]
           x == node.items[i - 1]
           fed == FedFromLeft(node, c, i)
<1>1. /\ n \in Nat /\ i - 1 \in 1 .. n - 1 /\ i - 1 \in 1 .. n /\ i \in 1 .. n /\ (i - 1) + 1 = i
      /\ l \in AnyNode /\ r \in AnyNode /\ ChildPerGap(l) /\ ChildPerGap(r)
      /\ (IsLeaf(l) <=> IsLeaf(r)) /\ i - 1 < n
  <2>1. n \in Nat
      BY BlocksAre DEF Blocked
  <2>2. i - 1 \in 1 .. n - 1 /\ i - 1 \in 1 .. n /\ i \in 1 .. n /\ (i - 1) + 1 = i /\ i - 1 < n
      BY <2>1
  <2> QED BY <2>1, <2>2 DEF Family
<1>2. /\ l.items \in Seq(AnyItem) /\ r.items \in Seq(AnyItem) /\ l.items # <<>> /\ x \in AnyItem
      /\ l.kids \in Seq(Nat) /\ r.kids \in Seq(Nat)
    BY <1>1, AfterIs DEF AnyNode
<1>3. /\ Front(l.items) \in Seq(AnyItem) /\ Len(Front(l.items)) = Len(l.items) - 1
      /\ Len(l.items) - 1 \in Nat
      /\ Last(l.items) \in AnyItem /\ Front(l.items) \o <<Last(l.items)>> = l.items
    BY <1>2, FrontLast
<1>4. <<x>> \o r.items \in Seq(AnyItem) /\ Len(<<x>> \o r.items) = Len(r.items) + 1
    BY <1>2, Joins
<1>5. ASSUME ~IsLeaf(l)
      PROVE  /\ Front(l.kids) \in Seq(Nat) /\ Len(Front(l.kids)) = Len(l.kids) - 1
             /\ Len(l.kids) = Len(l.items) + 1 /\ Front(l.kids) # <<>>
             /\ Last(l.kids) \in Nat /\ Front(l.kids) \o <<Last(l.kids)>> = l.kids
  <2>1. l.kids # <<>> /\ Len(l.kids) = Len(l.items) + 1
      BY <1>1, <1>5 DEF IsLeaf, ChildPerGap
  <2>2. /\ Front(l.kids) \in Seq(Nat) /\ Len(Front(l.kids)) = Len(l.kids) - 1
        /\ Last(l.kids) \in Nat /\ Front(l.kids) \o <<Last(l.kids)>> = l.kids
      BY <1>2, <2>1, FrontLast
  <2>3. Len(l.items) \in Nat /\ Len(l.items) > 0
      BY <1>2, <1>3, LenProperties
  <2>4. Front(l.kids) # <<>>
    <3>1. Len(Front(l.kids)) # 0
        BY <2>1, <2>2, <2>3
    <3> QED BY <3>1, EmptyHasNone
  <2> QED BY <2>1, <2>2, <2>4, Zenon
<1>6. ASSUME ~IsLeaf(r)
      PROVE  /\ <<Last(l.kids)>> \o r.kids \in Seq(Nat) /\ Len(<<Last(l.kids)>> \o r.kids) = Len(r.kids) + 1
             /\ <<Last(l.kids)>> \o r.kids # <<>> /\ Len(r.kids) = Len(r.items) + 1
  <2>1. Last(l.kids) \in Nat /\ Len(r.kids) = Len(r.items) + 1
      BY <1>1, <1>5, <1>6 DEF ChildPerGap
  <2> QED BY <1>2, <2>1, Joins
<1>7. WithoutLast(l) = [items |-> Front(l.items), kids |-> IF IsLeaf(l) THEN <<>> ELSE Front(l.kids)]
    BY DEF WithoutLast
<1>8. fed = [items |-> <<x>> \o r.items, kids |-> IF IsLeaf(r) THEN <<>> ELSE <<Last(l.kids)>> \o r.kids]
    BY DEF FedFromLeft
<1>x. x = node.items[i - 1] /\ l = c[i - 1] /\ r = c[i] /\ fed = FedFromLeft(node, c, i)
    OBVIOUS
<1> HIDE DEF n, l, r, x, fed
<1>s. /\ fed.items = <<x>> \o r.items /\ WithoutLast(l).items = Front(l.items)
      /\ IsLeaf(r) => fed.kids = <<>> /\ WithoutLast(l).kids = <<>>
      /\ ~IsLeaf(r) => fed.kids = <<Last(l.kids)>> \o r.kids /\ WithoutLast(l).kids = Front(l.kids)
  <2> DEFINE a == <<x>> \o r.items
             b == <<Last(l.kids)>> \o r.kids
  <2>1. fed = [items |-> a, kids |-> IF IsLeaf(r) THEN <<>> ELSE b]
      BY <1>8
  <2> HIDE DEF a, b
  <2>2. fed.items = a /\ (IsLeaf(r) => fed.kids = <<>>) /\ (~IsLeaf(r) => fed.kids = b)
      BY <2>1
  <2>3. /\ WithoutLast(l).items = Front(l.items)
        /\ IsLeaf(r) => WithoutLast(l).kids = <<>>
        /\ ~IsLeaf(r) => WithoutLast(l).kids = Front(l.kids)
      BY <1>1, <1>7
  <2> QED BY <2>2, <2>3 DEF a, b
<1>9. /\ WithoutLast(l) \in AnyNode /\ ChildPerGap(WithoutLast(l)) /\ (IsLeaf(WithoutLast(l)) <=> IsLeaf(l))
  <2>1. <<>> \in Seq(Nat)
      BY EmptySeq
  <2> QED BY <1>3, <1>5, <1>7, <2>1 DEF AnyNode, ChildPerGap, IsLeaf
<1>10. /\ fed \in AnyNode /\ ChildPerGap(fed) /\ (IsLeaf(fed) <=> IsLeaf(r))
  <2> DEFINE a == <<x>> \o r.items
             b == <<Last(l.kids)>> \o r.kids
  <2>1. /\ a \in Seq(AnyItem) /\ Len(a) = Len(r.items) + 1
        /\ fed = [items |-> a, kids |-> IF IsLeaf(r) THEN <<>> ELSE b]
        /\ ~IsLeaf(r) => /\ b \in Seq(Nat) /\ Len(b) = Len(r.kids) + 1 /\ b # <<>>
                         /\ Len(r.kids) = Len(r.items) + 1
        /\ <<>> \in Seq(Nat)
      BY <1>4, <1>6, <1>8, EmptySeq
  <2> HIDE DEF a, b
  <2>2. CASE IsLeaf(r)
    <3>1. fed.items = a /\ fed.kids = <<>> /\ fed = [items |-> a, kids |-> <<>>]
        BY <2>1, <2>2
    <3> QED BY <2>1, <2>2, <3>1 DEF AnyNode, ChildPerGap, IsLeaf
  <2>3. CASE ~IsLeaf(r)
    <3>1. fed.items = a /\ fed.kids = b /\ fed = [items |-> a, kids |-> b]
        BY <2>1, <2>3
    <3>2. Len(r.items) \in Nat
        BY <1>2, LenProperties
    <3> QED BY <2>1, <2>3, <3>1, <3>2 DEF AnyNode, ChildPerGap, IsLeaf
  <2> QED BY <2>2, <2>3
<1>11. (WithoutLast(l).items \o <<Last(l.items)>>) \o fed.items = (l.items \o <<x>>) \o r.items
  <2> DEFINE a == l.items
             y == <<x>>
             b == r.items
  <2>1. a \in Seq(AnyItem) /\ y \in Seq(AnyItem) /\ b \in Seq(AnyItem)
      BY <1>2
  <2>2. WithoutLast(l).items \o <<Last(l.items)>> = a /\ fed.items = y \o b
      BY <1>3, <1>s
  <2> HIDE DEF a, y, b
  <2>3. (a \o y) \o b = a \o (y \o b)
      BY <2>1, ConcatAssociative
  <2> QED BY <2>2, <2>3 DEF a, y, b
<1>12. WithoutLast(l).kids \o fed.kids = l.kids \o r.kids
  <2>1. CASE IsLeaf(l)
      BY <1>1, <1>s, <2>1 DEF IsLeaf
  <2>2. CASE ~IsLeaf(l)
    <3> DEFINE a == Front(l.kids)
               y == <<Last(l.kids)>>
               b == r.kids
    <3>1. a \in Seq(Nat) /\ y \in Seq(Nat) /\ b \in Seq(Nat)
        BY <1>2, <1>5, <2>2
    <3>2. l.kids = a \o y
        BY <1>5, <2>2
    <3>3. WithoutLast(l).kids = a /\ fed.kids = y \o b
        BY <1>1, <1>s, <2>2
    <3>4. b = r.kids
        OBVIOUS
    <3> HIDE DEF a, y, b
    <3>5. (a \o y) \o b = a \o (y \o b)
      <4> DEFINE S == Nat
      <4>1. a \in Seq(S) /\ y \in Seq(S) /\ b \in Seq(S)
          BY <3>1
      <4> HIDE DEF S
      <4> QED BY <4>1, ConcatAssociative
    <3> QED BY <3>2, <3>3, <3>4, <3>5
  <2> QED BY <2>1, <2>2
<1> QED BY <1>1, <1>3, <1>9, <1>10, <1>11, <1>12, <1>x DEF Borrowed, n

\* A sibling gives its first item to the child on its left, and its first child
\* unless it is a leaf.
FedFromRight(node, c, i) ==
    [items |-> Append(c[i].items, node.items[i]),
     kids |-> IF IsLeaf(c[i]) THEN <<>> ELSE Append(c[i].kids, Head(c[i + 1].kids))]

\* ... and the two keep what is below them.
LEMMA BorrowedFromRight ==
    ASSUME NEW node, NEW c, Family(node, c), NEW i \in 1 .. Len(node.kids) - 1, c[i + 1].items # <<>>
    PROVE  Borrowed(node, c, i, FedFromRight(node, c, i), Head(c[i + 1].items), WithoutFirst(c[i + 1]))
<1> DEFINE n == Len(node.kids)
           l == c[i]
           r == c[i + 1]
           x == node.items[i]
           fed == FedFromRight(node, c, i)
<1>1. /\ n \in Nat /\ i \in 1 .. n - 1 /\ i \in 1 .. n /\ i + 1 \in 1 .. n
      /\ l \in AnyNode /\ r \in AnyNode /\ ChildPerGap(l) /\ ChildPerGap(r)
      /\ (IsLeaf(l) <=> IsLeaf(r)) /\ i < n
  <2>1. n \in Nat
      BY BlocksAre DEF Blocked
  <2>2. i \in 1 .. n - 1 /\ i \in 1 .. n /\ i + 1 \in 1 .. n /\ i < n
      BY <2>1
  <2> QED BY <2>1, <2>2 DEF Family
<1>2. /\ l.items \in Seq(AnyItem) /\ r.items \in Seq(AnyItem) /\ r.items # <<>> /\ x \in AnyItem
      /\ l.kids \in Seq(Nat) /\ r.kids \in Seq(Nat)
    BY <1>1, AfterIs DEF AnyNode
<1>3. /\ Tail(r.items) \in Seq(AnyItem) /\ Len(Tail(r.items)) = Len(r.items) - 1
      /\ Len(r.items) - 1 \in Nat
      /\ Head(r.items) \in AnyItem /\ <<Head(r.items)>> \o Tail(r.items) = r.items
    BY <1>2, HeadTail
<1>4. /\ Append(l.items, x) \in Seq(AnyItem) /\ Len(Append(l.items, x)) = Len(l.items) + 1
      /\ Append(l.items, x) = l.items \o <<x>>
    BY <1>2, Joins
<1>5. ASSUME ~IsLeaf(r)
      PROVE  /\ Tail(r.kids) \in Seq(Nat) /\ Len(Tail(r.kids)) = Len(r.kids) - 1
             /\ Len(r.kids) = Len(r.items) + 1 /\ Tail(r.kids) # <<>>
             /\ Head(r.kids) \in Nat /\ <<Head(r.kids)>> \o Tail(r.kids) = r.kids
  <2>1. r.kids # <<>> /\ Len(r.kids) = Len(r.items) + 1
      BY <1>1, <1>5 DEF IsLeaf, ChildPerGap
  <2>2. /\ Tail(r.kids) \in Seq(Nat) /\ Len(Tail(r.kids)) = Len(r.kids) - 1
        /\ Head(r.kids) \in Nat /\ <<Head(r.kids)>> \o Tail(r.kids) = r.kids
      BY <1>2, <2>1, HeadTail
  <2>3. Len(r.items) \in Nat /\ Len(r.items) > 0
      BY <1>2, <1>3, LenProperties
  <2>4. Tail(r.kids) # <<>>
    <3> DEFINE t == Tail(r.kids)
    <3>1. t \in Seq(Nat) /\ Len(t) = Len(r.items)
        BY <2>1, <2>2, <2>3
    <3> HIDE DEF t
    <3>2. t # <<>>
        BY <2>3, <3>1, EmptySeq
    <3> QED BY <3>2 DEF t
  <2> HIDE DEF n, l, r, x, fed
  <2> QED BY <2>1, <2>2, <2>4
<1>6. ASSUME ~IsLeaf(l)
      PROVE  /\ Append(l.kids, Head(r.kids)) \in Seq(Nat)
             /\ Len(Append(l.kids, Head(r.kids))) = Len(l.kids) + 1
             /\ Append(l.kids, Head(r.kids)) # <<>> /\ Len(l.kids) = Len(l.items) + 1
             /\ Append(l.kids, Head(r.kids)) = l.kids \o <<Head(r.kids)>>
  <2>1. Head(r.kids) \in Nat /\ Len(l.kids) = Len(l.items) + 1
      BY <1>1, <1>5, <1>6 DEF ChildPerGap
  <2> QED BY <1>2, <2>1, Joins
<1>7. WithoutFirst(r) = [items |-> Tail(r.items), kids |-> IF IsLeaf(r) THEN <<>> ELSE Tail(r.kids)]
    BY DEF WithoutFirst
<1>8. fed = [items |-> Append(l.items, x), kids |-> IF IsLeaf(l) THEN <<>> ELSE Append(l.kids, Head(r.kids))]
    BY DEF FedFromRight
<1>x. x = node.items[i] /\ l = c[i] /\ r = c[i + 1] /\ fed = FedFromRight(node, c, i)
    OBVIOUS
<1> HIDE DEF n, l, r, x, fed
<1>s. /\ fed.items = l.items \o <<x>> /\ WithoutFirst(r).items = Tail(r.items)
      /\ IsLeaf(l) => fed.kids = <<>> /\ WithoutFirst(r).kids = <<>>
      /\ ~IsLeaf(l) => fed.kids = l.kids \o <<Head(r.kids)>> /\ WithoutFirst(r).kids = Tail(r.kids)
  <2> DEFINE a == Append(l.items, x)
             b == Append(l.kids, Head(r.kids))
  <2>1. fed = [items |-> a, kids |-> IF IsLeaf(l) THEN <<>> ELSE b]
      BY <1>8
  <2> HIDE DEF a, b
  <2>2. fed.items = a /\ (IsLeaf(l) => fed.kids = <<>>) /\ (~IsLeaf(l) => fed.kids = b)
      BY <2>1
  <2>3. /\ WithoutFirst(r).items = Tail(r.items)
        /\ IsLeaf(l) => WithoutFirst(r).kids = <<>>
        /\ ~IsLeaf(l) => WithoutFirst(r).kids = Tail(r.kids)
      BY <1>1, <1>7
  <2>4. a = l.items \o <<x>>
      BY <1>4 DEF a
  <2>5. ~IsLeaf(l) => b = l.kids \o <<Head(r.kids)>>
      BY <1>6 DEF b
  <2> QED BY <2>2, <2>3, <2>4, <2>5
<1>9. /\ WithoutFirst(r) \in AnyNode /\ ChildPerGap(WithoutFirst(r)) /\ (IsLeaf(WithoutFirst(r)) <=> IsLeaf(r))
  <2>1. <<>> \in Seq(Nat)
      BY EmptySeq
  <2> DEFINE a == Tail(r.items)
             b == Tail(r.kids)
  <2>2. /\ a \in Seq(AnyItem) /\ Len(a) = Len(r.items) - 1 /\ Len(r.items) - 1 \in Nat
        /\ Len(r.items) \in Nat
        /\ WithoutFirst(r) = [items |-> a, kids |-> IF IsLeaf(r) THEN <<>> ELSE b]
        /\ ~IsLeaf(r) => /\ b \in Seq(Nat) /\ Len(b) = Len(r.kids) - 1 /\ b # <<>>
                         /\ Len(r.kids) = Len(r.items) + 1
    <3>1. Len(r.items) \in Nat
        BY <1>2, LenProperties
    <3> QED BY <1>3, <1>5, <1>7, <3>1
  <2> HIDE DEF a, b
  <2>3. CASE IsLeaf(r)
    <3>1. WithoutFirst(r) = [items |-> a, kids |-> <<>>]
        BY <2>2, <2>3
    <3> QED BY <2>1, <2>2, <2>3, <3>1 DEF AnyNode, ChildPerGap, IsLeaf
  <2>4. CASE ~IsLeaf(r)
    <3>1. WithoutFirst(r) = [items |-> a, kids |-> b]
        BY <2>2, <2>4
    <3> QED BY <2>1, <2>2, <2>4, <3>1 DEF AnyNode, ChildPerGap, IsLeaf
  <2> QED BY <2>3, <2>4
<1>10. /\ fed \in AnyNode /\ ChildPerGap(fed) /\ (IsLeaf(fed) <=> IsLeaf(l))
  <2> DEFINE a == Append(l.items, x)
             b == Append(l.kids, Head(r.kids))
  <2>1. /\ a \in Seq(AnyItem) /\ Len(a) = Len(l.items) + 1
        /\ fed = [items |-> a, kids |-> IF IsLeaf(l) THEN <<>> ELSE b]
        /\ ~IsLeaf(l) => /\ b \in Seq(Nat) /\ Len(b) = Len(l.kids) + 1 /\ b # <<>>
                         /\ Len(l.kids) = Len(l.items) + 1
        /\ <<>> \in Seq(Nat)
      BY <1>4, <1>6, <1>8, EmptySeq
  <2> HIDE DEF a, b
  <2>2. CASE IsLeaf(l)
    <3>1. fed.items = a /\ fed.kids = <<>> /\ fed = [items |-> a, kids |-> <<>>]
        BY <2>1, <2>2
    <3> QED BY <2>1, <2>2, <3>1 DEF AnyNode, ChildPerGap, IsLeaf
  <2>3. CASE ~IsLeaf(l)
    <3>1. fed.items = a /\ fed.kids = b /\ fed = [items |-> a, kids |-> b]
        BY <2>1, <2>3
    <3>2. Len(l.items) \in Nat
        BY <1>2, LenProperties
    <3> QED BY <2>1, <2>3, <3>1, <3>2 DEF AnyNode, ChildPerGap, IsLeaf
  <2> QED BY <2>2, <2>3
<1>11. (fed.items \o <<Head(r.items)>>) \o WithoutFirst(r).items = (l.items \o <<x>>) \o r.items
  <2> DEFINE a == l.items \o <<x>>
             y == <<Head(r.items)>>
             b == Tail(r.items)
  <2>1. a \in Seq(AnyItem) /\ y \in Seq(AnyItem) /\ b \in Seq(AnyItem)
    <3>1. a \in Seq(AnyItem)
        BY <1>4
    <3> QED BY <1>3, <3>1
  <2>2. fed.items = a /\ WithoutFirst(r).items = b /\ r.items = y \o b
      BY <1>3, <1>s
  <2> HIDE DEF a, y, b
  <2>3. (a \o y) \o b = a \o (y \o b)
      BY <2>1, ConcatAssociative
  <2> QED BY <2>2, <2>3 DEF a, y
<1>12. fed.kids \o WithoutFirst(r).kids = l.kids \o r.kids
  <2>1. CASE IsLeaf(l)
      BY <1>1, <1>s, <2>1 DEF IsLeaf
  <2>2. CASE ~IsLeaf(l)
    <3> DEFINE a == l.kids
               y == <<Head(r.kids)>>
               b == Tail(r.kids)
    <3>1. a \in Seq(Nat) /\ y \in Seq(Nat) /\ b \in Seq(Nat)
        BY <1>1, <1>2, <1>5, <2>2
    <3>2. r.kids = y \o b
        BY <1>1, <1>5, <2>2
    <3>3. fed.kids = a \o y /\ WithoutFirst(r).kids = b
        BY <1>s, <2>2
    <3>4. a = l.kids
        OBVIOUS
    <3> HIDE DEF a, y, b
    <3>5. (a \o y) \o b = a \o (y \o b)
      <4> DEFINE S == Nat
      <4>1. a \in Seq(S) /\ y \in Seq(S) /\ b \in Seq(S)
          BY <3>1
      <4> HIDE DEF S
      <4> QED BY <4>1, ConcatAssociative
    <3> QED BY <3>2, <3>3, <3>4, <3>5
  <2> QED BY <2>1, <2>2
<1> QED BY <1>1, <1>3, <1>9, <1>10, <1>11, <1>12, <1>x DEF Borrowed, n

\* A page taken out of a list of pages and put after it.
LEMMA TakenOut ==
    ASSUME NEW s \in Seq(Nat), IsInjective(s), NEW i \in 1 .. Len(s)
    PROVE  /\ IsInjective(RemoveAt(s, i)) /\ Range(RemoveAt(s, i)) \subseteq Range(s)
           /\ IsInjective(RemoveAt(s, i) \o <<s[i]>>)
           /\ Range(RemoveAt(s, i) \o <<s[i]>>) = Range(s)
<1> DEFINE n == Len(s)
           r == RemoveAt(s, i)
           e == <<s[i]>>
           t == r \o e
<1>1. n \in Nat /\ i \in 1 .. n /\ DOMAIN s = 1 .. n /\ \A j \in 1 .. n : s[j] \in Nat
    BY RangeIs
<1>2. /\ r \in Seq(Nat) /\ Len(r) = n - 1 /\ DOMAIN r = 1 .. n - 1
      /\ \A j \in 1 .. n - 1 : r[j] = IF j < i THEN s[j] ELSE s[j + 1]
  <2>1. /\ r \in Seq(Nat) /\ Len(r) = n - 1
        /\ \A j \in 1 .. n - 1 : r[j] = IF j < i THEN s[j] ELSE s[j + 1]
      BY RemoveIs
  <2> HIDE DEF n, r
  <2> QED BY <2>1, RangeIs
<1>3. e \in Seq(Nat) /\ Len(e) = 1 /\ e[1] = s[i]
    BY <1>1
<1>4. \A j, k \in 1 .. n : s[j] = s[k] => j = k
    BY <1>1 DEF IsInjective
<1>5. /\ t \in Seq(Nat) /\ Len(t) = n /\ DOMAIN t = 1 .. n
      /\ \A j \in 1 .. n : t[j] = IF j < i THEN s[j] ELSE IF j < n THEN s[j + 1] ELSE s[i]
  <2> HIDE DEF n, r, e, t
  <2>1. /\ t \in Seq(Nat) /\ Len(t) = Len(r) + Len(e)
        /\ \A j \in 1 .. Len(r) + Len(e) : t[j] = IF j <= Len(r) THEN r[j] ELSE e[j - Len(r)]
      BY <1>2, <1>3, ConcatProperties DEF t
  <2>2. Len(r) + Len(e) = n
      BY <1>1, <1>2, <1>3
  <2>3. \A j \in 1 .. n : t[j] = IF j <= n - 1 THEN r[j] ELSE e[j - (n - 1)]
      BY <1>2, <2>1, <2>2
  <2>4. ASSUME NEW j \in 1 .. n
        PROVE  t[j] = IF j < i THEN s[j] ELSE IF j < n THEN s[j + 1] ELSE s[i]
    <3>1. CASE j < n
      <4>1. j \in 1 .. n - 1 /\ j <= n - 1
          BY <1>1, <3>1
      <4> QED BY <1>2, <2>3, <3>1, <4>1
    <3>2. CASE j = n
      <4>1. ~(j <= n - 1) /\ j - (n - 1) = 1 /\ ~(j < n)
          BY <1>1, <3>2
      <4>2. t[j] = s[i]
          BY <1>3, <2>3, <4>1
      <4>3. j < i => FALSE
          BY <1>1, <3>2
      <4> QED BY <4>1, <4>2, <4>3
    <3> QED BY <1>1, <3>1, <3>2
  <2>5. Len(t) = n /\ t \in Seq(Nat)
      BY <2>1, <2>2
  <2>6. DOMAIN t = 1 .. n
      BY <2>5, RangeIs
  <2> QED BY <2>4, <2>5, <2>6
<1> HIDE DEF n, r, e, t
<1>6. \A j \in 1 .. n - 1 : r[j] = s[IF j < i THEN j ELSE j + 1]
    BY <1>2
<1>7. \A j \in 1 .. n : t[j] = s[IF j < i THEN j ELSE IF j < n THEN j + 1 ELSE i]
    BY <1>5
<1>8. IsInjective(r)
  <2> SUFFICES ASSUME NEW j \in 1 .. n - 1, NEW k \in 1 .. n - 1, r[j] = r[k] PROVE j = k
      BY <1>2 DEF IsInjective
  <2> DEFINE a == IF j < i THEN j ELSE j + 1
             b == IF k < i THEN k ELSE k + 1
  <2>1. a \in 1 .. n /\ b \in 1 .. n
      BY <1>1
  <2>2. s[a] = s[b]
      BY <1>6
  <2>3. a = b
    <3> HIDE DEF a, b
    <3> QED BY <1>4, <2>1, <2>2
  <2> QED BY <1>1, <2>3
<1>9. IsInjective(t)
  <2> SUFFICES ASSUME NEW j \in 1 .. n, NEW k \in 1 .. n, t[j] = t[k] PROVE j = k
      BY <1>5 DEF IsInjective
  <2> DEFINE a == IF j < i THEN j ELSE IF j < n THEN j + 1 ELSE i
             b == IF k < i THEN k ELSE IF k < n THEN k + 1 ELSE i
  <2>1. a \in 1 .. n /\ b \in 1 .. n
      BY <1>1
  <2>2. s[a] = s[b]
      BY <1>7
  <2>3. a = b
    <3> HIDE DEF a, b
    <3> QED BY <1>4, <2>1, <2>2
  <2> QED BY <1>1, <2>3
<1>10. Range(t) = Range(s)
  <2>1. ASSUME NEW j \in 1 .. n PROVE \E k \in 1 .. n : t[k] = s[j]
    <3>1. CASE j < i
        BY <1>1, <1>7, <3>1
    <3>2. CASE j = i
      <4>1. n \in 1 .. n /\ ~(n < i) /\ ~(n < n)
          BY <1>1
      <4>2. t[n] = s[i]
          BY <1>7, <4>1
      <4> QED BY <3>2, <4>1, <4>2
    <3>3. CASE j > i
      <4>1. j - 1 \in 1 .. n /\ ~(j - 1 < i) /\ j - 1 < n /\ (j - 1) + 1 = j
          BY <1>1, <3>3
      <4>2. t[j - 1] = s[j]
          BY <1>7, <4>1
      <4> QED BY <4>1, <4>2
    <3> QED BY <1>1, <3>1, <3>2, <3>3
  <2>2. ASSUME NEW j \in 1 .. n PROVE \E k \in 1 .. n : t[j] = s[k]
    <3> DEFINE a == IF j < i THEN j ELSE IF j < n THEN j + 1 ELSE i
    <3>1. a \in 1 .. n /\ t[j] = s[a]
        BY <1>1, <1>7
    <3> HIDE DEF a
    <3> QED BY <3>1
  <2>3. Range(t) = {t[j] : j \in 1 .. n} /\ Range(s) = {s[j] : j \in 1 .. n}
      BY <1>1, <1>5 DEF Range
  <2> QED BY <2>1, <2>2, <2>3
<1>11. Range(r) \subseteq Range(s)
  <2>1. ASSUME NEW j \in 1 .. n - 1 PROVE \E k \in 1 .. n : r[j] = s[k]
    <3> DEFINE a == IF j < i THEN j ELSE j + 1
    <3>1. a \in 1 .. n /\ r[j] = s[a]
        BY <1>1, <1>6
    <3> HIDE DEF a
    <3> QED BY <3>1
  <2>2. Range(r) = {r[j] : j \in 1 .. n - 1} /\ Range(s) = {s[j] : j \in 1 .. n}
      BY <1>1, <1>2 DEF Range
  <2> QED BY <2>1, <2>2
<1> QED BY <1>8, <1>9, <1>10, <1>11 DEF r, e, t

\* The node that two neighbours with x between them make.
MergedNode(l, x, r) ==
    [items |-> Append(l.items, x) \o r.items, kids |-> l.kids \o r.kids]

\* It is a node, and a leaf if they are.
LEMMA MergedIs ==
    ASSUME NEW l \in AnyNode, NEW r \in AnyNode, NEW x \in AnyItem, ChildPerGap(l), ChildPerGap(r),
           IsLeaf(l) <=> IsLeaf(r)
    PROVE  /\ MergedNode(l, x, r) \in AnyNode /\ ChildPerGap(MergedNode(l, x, r))
           /\ IsLeaf(MergedNode(l, x, r)) <=> IsLeaf(l)
           /\ MergedNode(l, x, r).items = (l.items \o <<x>>) \o r.items
           /\ MergedNode(l, x, r).kids = l.kids \o r.kids
<1> DEFINE y == Append(l.items, x)
           a == y \o r.items
           b == l.kids \o r.kids
           m == MergedNode(l, x, r)
<1>1. /\ l.items \in Seq(AnyItem) /\ r.items \in Seq(AnyItem)
      /\ l.kids \in Seq(Nat) /\ r.kids \in Seq(Nat)
    BY DEF AnyNode
<1>2. /\ Len(l.items) \in Nat /\ Len(r.items) \in Nat /\ Len(l.kids) \in Nat /\ Len(r.kids) \in Nat
    BY <1>1, LenProperties
<1>3. y \in Seq(AnyItem) /\ Len(y) = Len(l.items) + 1 /\ y = l.items \o <<x>>
    BY <1>1, Joins
<1>m. m = [items |-> a, kids |-> b]
    BY DEF MergedNode
<1> HIDE DEF y, m
<1>4. a \in Seq(AnyItem) /\ Len(a) = Len(y) + Len(r.items)
    BY <1>1, <1>3, ConcatProperties
<1>5. b \in Seq(Nat) /\ Len(b) = Len(l.kids) + Len(r.kids)
    BY <1>1, ConcatProperties
<1>y. a = (l.items \o <<x>>) \o r.items /\ b = l.kids \o r.kids
    BY <1>3
<1>l. IsLeaf(l) => b = <<>>
  <2> SUFFICES ASSUME IsLeaf(l) PROVE b = <<>>
      OBVIOUS
  <2>1. Len(l.kids) = 0 /\ Len(r.kids) = 0
      BY DEF IsLeaf
  <2>2. Len(b) = 0
      BY <1>5, <2>1
  <2> HIDE DEF b
  <2> QED BY <1>5, <2>2, EmptySeq
<1> HIDE DEF a, b
<1>6. m.items = a /\ m.kids = b
    BY <1>m
<1>7. m \in AnyNode
    BY <1>4, <1>5, <1>m DEF AnyNode
<1>8. ASSUME ~IsLeaf(l) PROVE Len(b) = Len(a) + 1 /\ b # <<>>
  <2>1. Len(l.kids) = Len(l.items) + 1 /\ Len(r.kids) = Len(r.items) + 1
      BY <1>8 DEF ChildPerGap
  <2>2. Len(a) = Len(l.items) + 1 + Len(r.items)
      BY <1>3, <1>4
  <2>3. Len(b) = Len(l.items) + 1 + (Len(r.items) + 1)
      BY <1>5, <2>1
  <2> HIDE DEF a, b
  <2> DEFINE p == Len(l.items)
             q == Len(r.items)
             u == Len(a)
             v == Len(b)
  <2>4. v = u + 1 /\ v # 0
    <3>1. p \in Nat /\ q \in Nat /\ u = p + 1 + q /\ v = p + 1 + (q + 1)
        BY <1>2, <2>2, <2>3
    <3> HIDE DEF p, q, u, v
    <3> QED BY <3>1
  <2>5. b # <<>>
      BY <2>4
  <2> QED BY <2>4, <2>5
<1>9. (IsLeaf(m) <=> IsLeaf(l)) /\ ChildPerGap(m)
    BY <1>l, <1>6, <1>8 DEF IsLeaf, ChildPerGap
<1>10. m \in AnyNode /\ ChildPerGap(m) /\ (IsLeaf(m) <=> IsLeaf(l))
       /\ m.items = (l.items \o <<x>>) \o r.items /\ m.kids = l.kids \o r.kids
    BY <1>6, <1>7, <1>9, <1>y
<1> QED BY <1>10 DEF m

\* A child goes into its left sibling, with the item between them.
Merging(node, c, i, node1, c1) ==
    /\ node1 = [items |-> RemoveAt(node.items, i - 1), kids |-> RemoveAt(node.kids, i)]
    /\ c1 = [k \in 1 .. Len(node.kids) - 1 |->
                IF k = i - 1 THEN MergedNode(c[i - 1], node.items[i - 1], c[i])
                ELSE IF k < i THEN c[k] ELSE c[k + 1]]

\* What is below the node stays in its order.
LEMMA MergingKeeps ==
    ASSUME NEW node, NEW c, Family(node, c), NEW i \in 2 .. Len(node.kids),
           NEW node1, NEW c1, Merging(node, c, i, node1, c1)
    PROVE  /\ Family(node1, c1) /\ node1.kids = RemoveAt(node.kids, i)
           /\ FlattenSeq(ItemBlocks(node1, c1)) = FlattenSeq(ItemBlocks(node, c))
           /\ FlattenSeq(KidBlocks(node1, c1)) = FlattenSeq(KidBlocks(node, c))
<1> DEFINE n == Len(node.kids)
           j == i - 1
           x == node.items[j]
           m == MergedNode(c[j], x, c[i])
           old(k) == IF k < i THEN k ELSE k + 1
<1>1. /\ n \in Nat /\ n - 1 \in Nat /\ n - 1 > 0 /\ i \in 1 .. n /\ j \in 1 .. n /\ j \in 1 .. n - 1
      /\ j + 1 = i /\ Len(node.items) = n - 1 /\ j < n /\ j < i /\ n - 1 + 1 = n
      /\ node.items \in Seq(AnyItem) /\ node.kids \in Seq(Nat) /\ c \in [1 .. n -> AnyNode]
  <2>1. n \in Nat
      BY BlocksAre DEF Blocked
  <2>2. /\ node.items \in Seq(AnyItem) /\ node.kids \in Seq(Nat) /\ c \in [1 .. n -> AnyNode]
        /\ n = Len(node.items) + 1 /\ Len(node.items) \in Nat
      BY LenProperties DEF Family, AnyNode
  <2> QED BY <2>1, <2>2
<1>2. /\ node1 = [items |-> RemoveAt(node.items, j), kids |-> RemoveAt(node.kids, i)]
      /\ c1 = [k \in 1 .. n - 1 |-> IF k = j THEN m ELSE IF k < i THEN c[k] ELSE c[k + 1]]
    BY DEF Merging
<1>3. /\ \A k \in 1 .. n : c[k] \in AnyNode /\ ChildPerGap(c[k])
      /\ \A k, l \in 1 .. n : IsLeaf(c[k]) <=> IsLeaf(c[l])
      /\ IsInjective(node.kids) /\ NodePage \notin Range(node.kids)
    BY DEF Family
<1>4. /\ RemoveAt(node.items, j) \in Seq(AnyItem) /\ Len(RemoveAt(node.items, j)) = (n - 1) - 1
      /\ \A k \in 1 .. (n - 1) - 1 :
             RemoveAt(node.items, j)[k] = IF k < j THEN node.items[k] ELSE node.items[k + 1]
  <2>1. j \in 1 .. Len(node.items) /\ Len(node.items) = n - 1 /\ node.items \in Seq(AnyItem)
      BY <1>1
  <2> HIDE DEF n, j, x, m
  <2>2. /\ RemoveAt(node.items, j) \in Seq(AnyItem) /\ Len(RemoveAt(node.items, j)) = Len(node.items) - 1
        /\ \A k \in 1 .. Len(node.items) - 1 :
               RemoveAt(node.items, j)[k] = IF k < j THEN node.items[k] ELSE node.items[k + 1]
      BY <2>1, RemoveIs
  <2> QED BY <2>1, <2>2
<1>5. /\ RemoveAt(node.kids, i) \in Seq(Nat) /\ Len(RemoveAt(node.kids, i)) = n - 1
      /\ IsInjective(RemoveAt(node.kids, i))
      /\ Range(RemoveAt(node.kids, i)) \subseteq Range(node.kids)
    BY <1>1, <1>3, RemoveIs, TakenOut
<1>6. /\ node1.items = RemoveAt(node.items, j) /\ node1.kids = RemoveAt(node.kids, i)
      /\ node1 \in AnyNode
  <2> DEFINE a == RemoveAt(node.items, j)
             b == RemoveAt(node.kids, i)
  <2>1. a \in Seq(AnyItem) /\ b \in Seq(Nat) /\ node1 = [items |-> a, kids |-> b]
      BY <1>2, <1>4, <1>5
  <2> HIDE DEF a, b
  <2>2. node1.items = a /\ node1.kids = b /\ node1 \in AnyNode
      BY <2>1 DEF AnyNode
  <2> QED BY <2>2 DEF a, b
<1>7. x \in AnyItem
    BY <1>1, RangeIs
<1>8. /\ m \in AnyNode /\ ChildPerGap(m) /\ (IsLeaf(m) <=> IsLeaf(c[j]))
      /\ m.items = (c[j].items \o <<x>>) \o c[i].items /\ m.kids = c[j].kids \o c[i].kids
  <2>1. c[j] \in AnyNode /\ c[i] \in AnyNode /\ ChildPerGap(c[j]) /\ ChildPerGap(c[i])
        /\ (IsLeaf(c[j]) <=> IsLeaf(c[i]))
      BY <1>1, <1>3
  <2> HIDE DEF j, x
  <2> QED BY <1>7, <2>1, MergedIs
<1>x. x = node.items[j]
    OBVIOUS
<1> HIDE DEF n, j, x, m
<1>9. /\ c1[j] = m /\ \A k \in 1 .. n - 1 : k # j => c1[k] = c[old(k)]
      /\ \A k \in 1 .. n - 1 : old(k) \in 1 .. n
  <2>1. \A k \in 1 .. n - 1 : c1[k] = IF k = j THEN m ELSE IF k < i THEN c[k] ELSE c[k + 1]
      BY <1>2
  <2>2. \A k \in 1 .. n - 1 : old(k) \in 1 .. n
      BY <1>1
  <2> QED BY <1>1, <2>1, <2>2
<1>10. Len(node1.kids) = n - 1 /\ Len(node1.items) = (n - 1) - 1 /\ (n - 1) - 1 + 1 = n - 1
    BY <1>1, <1>4, <1>5, <1>6
<1>11. Family(node1, c1)
  <2>1. c1 \in [1 .. n - 1 -> AnyNode]
    <3>1. \A k \in 1 .. n - 1 : c1[k] \in AnyNode
      <4> SUFFICES ASSUME NEW k \in 1 .. n - 1 PROVE c1[k] \in AnyNode
          OBVIOUS
      <4> HIDE DEF old
      <4> QED BY <1>3, <1>8, <1>9
    <3>2. c1 = [k \in 1 .. n - 1 |-> c1[k]]
        BY <1>2
    <3> QED BY <3>1, <3>2
  <2>2. \A k \in 1 .. n - 1 : ChildPerGap(c1[k]) /\ (IsLeaf(c1[k]) <=> IsLeaf(c[j]))
    <3> SUFFICES ASSUME NEW k \in 1 .. n - 1 PROVE ChildPerGap(c1[k]) /\ (IsLeaf(c1[k]) <=> IsLeaf(c[j]))
        OBVIOUS
    <3> HIDE DEF old
    <3> QED BY <1>1, <1>3, <1>8, <1>9
  <2>3. \A k, l \in 1 .. n - 1 : IsLeaf(c1[k]) <=> IsLeaf(c1[l])
      BY <2>2
  <2>4. IsInjective(node1.kids) /\ NodePage \notin Range(node1.kids)
      BY <1>3, <1>5, <1>6
  <2>5. Len(node1.kids) = Len(node1.items) + 1
      BY <1>10
  <2> QED BY <1>6, <1>10, <2>1, <2>2, <2>3, <2>4, <2>5 DEF Family
<1>12. \A k \in 1 .. n - 1 : After(node1, k) = After(node, IF k < j THEN k ELSE k + 1)
  <2> SUFFICES ASSUME NEW k \in 1 .. n - 1
               PROVE  After(node1, k) = After(node, IF k < j THEN k ELSE k + 1)
      OBVIOUS
  <2> DEFINE o == IF k < j THEN k ELSE k + 1
  <2>1. o \in 1 .. n /\ (k < n - 1 <=> o < n) /\ (k = n - 1 <=> o = n)
      BY <1>1
  <2>2. CASE k < n - 1
    <3>1. k \in 1 .. (n - 1) - 1 /\ o < n
        BY <1>1, <2>1, <2>2
    <3>2. node1.items[k] = node.items[o]
        BY <1>4, <1>6, <3>1
    <3> HIDE DEF o
    <3>3. After(node1, k) = <<node1.items[k]>>
        BY <1>10, <1>11, <2>2, AfterIs
    <3>4. After(node, o) = <<node.items[o]>>
        BY <2>1, <3>1, AfterIs DEF n
    <3>5. After(node1, k) = After(node, o)
        BY <3>2, <3>3, <3>4
    <3> QED BY <3>5 DEF o
  <2>3. CASE k = n - 1
    <3> HIDE DEF o
    <3>1. After(node1, k) = <<>>
        BY <1>10, <1>11, <2>3, AfterIs
    <3>2. After(node, o) = <<>>
        BY <2>1, <2>3, AfterIs DEF n
    <3>3. After(node1, k) = After(node, o)
        BY <3>1, <3>2
    <3> QED BY <3>3 DEF o
  <2> QED BY <1>1, <2>2, <2>3
<1>13. /\ ItemBlocks(node, c) \in Seq(Seq(AnyItem)) /\ Len(ItemBlocks(node, c)) = n
       /\ KidBlocks(node, c) \in Seq(Seq(Nat)) /\ Len(KidBlocks(node, c)) = n
       /\ \A k \in 1 .. n : /\ c[k].items \in Seq(AnyItem) /\ c[k].kids \in Seq(Nat)
                            /\ ItemBlocks(node, c)[k] = c[k].items \o After(node, k)
                            /\ KidBlocks(node, c)[k] = c[k].kids
  <2>1. Blocked(node, c)
      BY BlocksAre
  <2> QED BY <2>1 DEF Blocked, n
<1>14. /\ ItemBlocks(node1, c1) \in Seq(Seq(AnyItem)) /\ Len(ItemBlocks(node1, c1)) = n - 1
       /\ KidBlocks(node1, c1) \in Seq(Seq(Nat)) /\ Len(KidBlocks(node1, c1)) = n - 1
       /\ \A k \in 1 .. n - 1 : /\ ItemBlocks(node1, c1)[k] = c1[k].items \o After(node1, k)
                                /\ KidBlocks(node1, c1)[k] = c1[k].kids
  <2>1. Blocked(node1, c1)
      BY <1>11, BlocksAre
  <2> QED BY <1>10, <2>1 DEF Blocked
<1>15. Joined(ItemBlocks(node, c), ItemBlocks(node1, c1), j)
  <2>1. ItemBlocks(node1, c1)[j] = ItemBlocks(node, c)[j] \o ItemBlocks(node, c)[i]
    <3> DEFINE a == c[j].items
               y == <<x>>
               b == c[i].items
               e == After(node, i)
    <3>1. a \in Seq(AnyItem) /\ y \in Seq(AnyItem) /\ b \in Seq(AnyItem) /\ e \in Seq(AnyItem)
      <4>1. e \in Seq(AnyItem)
          BY <1>1, AfterIs DEF n
      <4>2. a \in Seq(AnyItem) /\ b \in Seq(AnyItem)
          BY <1>1, <1>13
      <4>3. y \in Seq(AnyItem)
          BY <1>7
      <4> QED BY <4>1, <4>2, <4>3
    <3>2. ItemBlocks(node, c)[j] = a \o y /\ ItemBlocks(node, c)[i] = b \o e
      <4>1. After(node, j) = y
          BY <1>1, <1>x, AfterIs DEF n
      <4> QED BY <1>1, <1>13, <4>1
    <3>3. ItemBlocks(node1, c1)[j] = ((a \o y) \o b) \o e
      <4>1. After(node1, j) = e
          BY <1>1, <1>12
      <4>2. m.items = (a \o y) \o b
          BY <1>8
      <4> QED BY <1>1, <1>9, <1>14, <4>1, <4>2
    <3> HIDE DEF a, y, b, e
    <3> DEFINE p == a \o y
    <3>4. p \in Seq(AnyItem)
        BY <3>1, ConcatProperties
    <3> HIDE DEF p
    <3>5. (p \o b) \o e = p \o (b \o e)
        BY <3>1, <3>4, ConcatAssociative
    <3> QED BY <3>2, <3>3, <3>5 DEF p
  <2>2. \A k \in 1 .. n - 1 : k < j => ItemBlocks(node1, c1)[k] = ItemBlocks(node, c)[k]
    <3> SUFFICES ASSUME NEW k \in 1 .. n - 1, k < j PROVE ItemBlocks(node1, c1)[k] = ItemBlocks(node, c)[k]
        OBVIOUS
    <3>1. k \in 1 .. n /\ k # j /\ old(k) = k
        BY <1>1
    <3> QED BY <1>9, <1>12, <1>13, <1>14, <3>1
  <2>3. \A k \in 1 .. n - 1 : k > j => ItemBlocks(node1, c1)[k] = ItemBlocks(node, c)[k + 1]
    <3> SUFFICES ASSUME NEW k \in 1 .. n - 1, k > j PROVE ItemBlocks(node1, c1)[k] = ItemBlocks(node, c)[k + 1]
        OBVIOUS
    <3>1. k + 1 \in 1 .. n /\ k # j /\ old(k) = k + 1 /\ ~(k < j)
        BY <1>1
    <3>2. c1[k] = c[k + 1] /\ After(node1, k) = After(node, k + 1)
        BY <1>9, <1>12, <3>1
    <3> QED BY <1>13, <1>14, <3>1, <3>2
  <2> QED BY <1>1, <1>13, <1>14, <2>1, <2>2, <2>3 DEF Joined
<1>16. Joined(KidBlocks(node, c), KidBlocks(node1, c1), j)
  <2>1. KidBlocks(node1, c1)[j] = KidBlocks(node, c)[j] \o KidBlocks(node, c)[i]
      BY <1>1, <1>8, <1>9, <1>13, <1>14
  <2>2. \A k \in 1 .. n - 1 : k < j => KidBlocks(node1, c1)[k] = KidBlocks(node, c)[k]
    <3> SUFFICES ASSUME NEW k \in 1 .. n - 1, k < j PROVE KidBlocks(node1, c1)[k] = KidBlocks(node, c)[k]
        OBVIOUS
    <3>1. k \in 1 .. n /\ k # j /\ old(k) = k
        BY <1>1
    <3> QED BY <1>9, <1>13, <1>14, <3>1
  <2>3. \A k \in 1 .. n - 1 : k > j => KidBlocks(node1, c1)[k] = KidBlocks(node, c)[k + 1]
    <3> SUFFICES ASSUME NEW k \in 1 .. n - 1, k > j PROVE KidBlocks(node1, c1)[k] = KidBlocks(node, c)[k + 1]
        OBVIOUS
    <3>1. k + 1 \in 1 .. n /\ k # j /\ old(k) = k + 1
        BY <1>1
    <3> QED BY <1>9, <1>13, <1>14, <3>1
  <2> QED BY <1>1, <1>13, <1>14, <2>1, <2>2, <2>3 DEF Joined
<1> QED BY <1>6, <1>11, <1>13, <1>14, <1>15, <1>16, FlattenJoined

-----------------------------------------------------------------------------
(***************************************************************************)
(* Borrowing and merging, in the transaction.                              *)
(***************************************************************************)
\* What Tx::getNode returns after Tx::writeNode: the node on that page, and
\* what it returned before on the others.
LEMMA WriteGets ==
    ASSUME NEW s, IsTx(s), NEW p, NEW n
    PROVE  /\ IsTx(Write(s, p, n)) /\ Write(s, p, n).file = s.file
           /\ Write(s, p, n).pagesToDelete = s.pagesToDelete
           /\ Get(Write(s, p, n), p) = n
           /\ \A v : v # p => Get(Write(s, p, n), v) = Get(s, v)
<1> DEFINE t == Write(s, p, n)
           d == Placed(s.dirtyNodes, p, n)
<1>1. IsTx(t) /\ t.file = s.file /\ t.pagesToDelete = s.pagesToDelete /\ t.dirtyNodes = d
    BY DEF Write, IsTx
<1>2. DOMAIN d = DOMAIN s.dirtyNodes \cup {p} /\ d[p] = n
      /\ \A v \in DOMAIN s.dirtyNodes : v # p => d[v] = s.dirtyNodes[v]
  <2> DEFINE m == s.dirtyNodes
  <2> HIDE DEF m
  <2>1. /\ DOMAIN Placed(m, p, n) = DOMAIN m \cup {p} /\ Placed(m, p, n)[p] = n
        /\ \A v \in DOMAIN m : v # p => Placed(m, p, n)[v] = m[v]
      BY DEF Placed
  <2> QED BY <2>1 DEF m
<1> HIDE DEF t, d
<1>3. Get(t, p) = n
    BY <1>1, <1>2 DEF Get
<1>4. \A v : v # p => Get(t, v) = Get(s, v)
    BY <1>1, <1>2 DEF Get
<1> QED BY <1>1, <1>3, <1>4 DEF t

\* The transaction t has the nodes n on the pages p and what s has elsewhere.
Wrote(s, t, n) ==
    /\ IsTx(t) /\ t.file = s.file
    /\ \A p \in DOMAIN n : Get(t, p) = n[p]
    /\ \A p : p \notin DOMAIN n => Get(t, p) = Get(s, p)

\* Three of them, ...
OnThree(w, p, n, q, m, r, o) == DOMAIN w = {p, q, r} /\ w[p] = n /\ w[q] = m /\ w[r] = o

\* ... whose order does not matter.
LEMMA WriteThrice ==
    ASSUME NEW s, IsTx(s), NEW p, NEW n, NEW q, NEW m, NEW r, NEW o, p # q, p # r, q # r,
           NEW w, OnThree(w, p, n, q, m, r, o)
    PROVE  /\ Wrote(s, Write(Write(Write(s, p, n), q, m), r, o), w)
           /\ Write(Write(Write(s, p, n), q, m), r, o).pagesToDelete = s.pagesToDelete
<1> DEFINE t1 == Write(s, p, n)
           t2 == Write(t1, q, m)
           t3 == Write(t2, r, o)
<1>1. /\ IsTx(t1) /\ t1.file = s.file /\ t1.pagesToDelete = s.pagesToDelete /\ Get(t1, p) = n
      /\ \A v : v # p => Get(t1, v) = Get(s, v)
    BY WriteGets
<1> HIDE DEF t1
<1>2. /\ IsTx(t2) /\ t2.file = t1.file /\ t2.pagesToDelete = t1.pagesToDelete /\ Get(t2, q) = m
      /\ \A v : v # q => Get(t2, v) = Get(t1, v)
    BY <1>1, WriteGets
<1> HIDE DEF t2
<1>3. /\ IsTx(t3) /\ t3.file = t2.file /\ t3.pagesToDelete = t2.pagesToDelete /\ Get(t3, r) = o
      /\ \A v : v # r => Get(t3, v) = Get(t2, v)
    BY <1>2, WriteGets
<1> HIDE DEF t3
<1>4. Get(t3, p) = n /\ Get(t3, q) = m /\ Get(t3, r) = o
    BY <1>1, <1>2, <1>3
<1>5. \A v : v \notin {p, q, r} => Get(t3, v) = Get(s, v)
    BY <1>1, <1>2, <1>3
<1>w. DOMAIN w = {p, q, r} /\ w[p] = n /\ w[q] = m /\ w[r] = o
    BY DEF OnThree
<1>6. \A v \in DOMAIN w : Get(t3, v) = w[v]
    BY <1>4, <1>w
<1>7. \A v : v \notin DOMAIN w => Get(t3, v) = Get(s, v)
    BY <1>5, <1>w
<1>8. IsTx(t3) /\ t3.file = s.file /\ t3.pagesToDelete = s.pagesToDelete
    BY <1>1, <1>2, <1>3
<1>9. Wrote(s, t3, w) /\ t3.pagesToDelete = s.pagesToDelete
    BY <1>6, <1>7, <1>8 DEF Wrote
<1> QED BY <1>9 DEF t1, t2, t3

\* The children of a node are on pages of their own.
LEMMA PagesApart ==
    ASSUME NEW node, NEW c, Family(node, c)
    PROVE  /\ \A i \in 1 .. Len(node.kids) : node.kids[i] \in Nat /\ node.kids[i] # NodePage
           /\ \A i, j \in 1 .. Len(node.kids) : node.kids[i] = node.kids[j] => i = j
<1>1. /\ node.kids \in Seq(Nat) /\ IsInjective(node.kids) /\ NodePage \notin Range(node.kids)
    BY DEF Family, AnyNode
<1>2. /\ DOMAIN node.kids = 1 .. Len(node.kids)
      /\ \A i \in 1 .. Len(node.kids) : node.kids[i] \in Nat /\ node.kids[i] \in Range(node.kids)
    BY <1>1, RangeIs
<1> QED BY <1>1, <1>2 DEF IsInjective

\* What a rebalancing of the node and its children makes of s.
Rebalanced(s, node, c, t) ==
    /\ IsTx(t) /\ t.file = s.file
    /\ \E node1, c1 :
           /\ Family(node1, c1) /\ Seen(t, node1, c1)
           /\ FlattenSeq(ItemBlocks(node1, c1)) = FlattenSeq(ItemBlocks(node, c))
           /\ FlattenSeq(KidBlocks(node1, c1)) = FlattenSeq(KidBlocks(node, c))
           /\ IsInjective(node1.kids \o t.pagesToDelete)
           /\ Range(node1.kids \o t.pagesToDelete) = Range(node.kids)

\* Borrowing is one.
LEMMA BorrowedIs ==
    ASSUME NEW s, NEW node, NEW c, Family(node, c), Seen(s, node, c), s.pagesToDelete = <<>>,
           NEW j, NEW l, NEW x, NEW r, Borrowed(node, c, j, l, x, r),
           NEW w, OnThree(w, NodePage, [node EXCEPT !.items[j] = x], node.kids[j], l, node.kids[j + 1], r),
           NEW t, Wrote(s, t, w), t.pagesToDelete = s.pagesToDelete
    PROVE  Rebalanced(s, node, c, t)
<1> DEFINE n == Len(node.kids)
           node1 == [node EXCEPT !.items[j] = x]
           c1 == [i \in 1 .. n |-> IF i = j THEN l ELSE IF i = j + 1 THEN r ELSE c[i]]
<1>1. Traded(node, c, j, l, x, r, node1, c1)
    BY DEF Traded
<1>w. /\ DOMAIN w = {NodePage, node.kids[j], node.kids[j + 1]}
      /\ w[NodePage] = node1 /\ w[node.kids[j]] = l /\ w[node.kids[j + 1]] = r
    BY Zenon DEF OnThree
<1> HIDE DEF node1, c1
<1>2. /\ Family(node1, c1) /\ node1.kids = node.kids
      /\ FlattenSeq(ItemBlocks(node1, c1)) = FlattenSeq(ItemBlocks(node, c))
      /\ FlattenSeq(KidBlocks(node1, c1)) = FlattenSeq(KidBlocks(node, c))
    BY <1>1, BorrowedKeeps
<1>3. n \in Nat /\ j \in 1 .. n /\ j + 1 \in 1 .. n
  <2>1. n \in Nat /\ j \in 1 .. n - 1
      BY BlocksAre DEF Borrowed, Blocked
  <2> QED BY <2>1
<1>4. /\ \A i \in 1 .. n : node.kids[i] # NodePage
      /\ \A i, k \in 1 .. n : node.kids[i] = node.kids[k] => i = k
    BY PagesApart
<1>5. /\ IsTx(t) /\ t.file = s.file /\ \A p \in DOMAIN w : Get(t, p) = w[p]
      /\ \A p : p \notin DOMAIN w => Get(t, p) = Get(s, p)
    BY DEF Wrote
<1>6. Seen(t, node1, c1)
  <2>1. Get(t, NodePage) = node1
      BY <1>5, <1>w
  <2>2. ASSUME NEW i \in 1 .. n PROVE Get(t, node.kids[i]) = c1[i]
    <3>0. c1[i] = IF i = j THEN l ELSE IF i = j + 1 THEN r ELSE c[i]
        BY DEF c1
    <3> HIDE DEF n
    <3>1. CASE i = j
        BY <1>5, <1>w, <3>0, <3>1
    <3>2. CASE i = j + 1
      <4>1. i # j
          BY <1>3, <3>2
      <4> QED BY <1>5, <1>w, <3>0, <3>2, <4>1
    <3>3. CASE i # j /\ i # j + 1
      <4>1. node.kids[i] \notin DOMAIN w
          BY <1>3, <1>4, <1>w, <3>3
      <4>2. Get(s, node.kids[i]) = c[i]
          BY DEF Seen, n
      <4> QED BY <1>5, <3>0, <3>3, <4>1, <4>2
    <3> QED BY <3>1, <3>2, <3>3
  <2> QED BY <1>2, <2>1, <2>2 DEF Seen
<1>7. node1.kids \o t.pagesToDelete = node.kids /\ IsInjective(node.kids)
  <2>1. t.pagesToDelete = <<>>
      OBVIOUS
  <2>2. node.kids \in Seq(Nat) /\ IsInjective(node.kids)
      BY DEF Family, AnyNode
  <2>3. node.kids \o <<>> = node.kids
      BY <2>2
  <2> QED BY <1>2, <2>1, <2>2, <2>3
<1> QED BY <1>2, <1>5, <1>6, <1>7 DEF Rebalanced

\* Node::borrowFromLeft, from a sibling that has an item.
LEMMA BorrowLeftIs ==
    ASSUME NEW s, IsTx(s), NEW node, NEW c, Family(node, c), Seen(s, node, c), s.pagesToDelete = <<>>,
           NEW i \in 2 .. Len(node.kids), c[i - 1].items # <<>>
    PROVE  Rebalanced(s, node, c, BorrowFromLeft(s, NodePage, i))
<1> DEFINE n == Len(node.kids)
           j == i - 1
           l == WithoutLast(c[j])
           x == Last(c[j].items)
           r == FedFromLeft(node, c, i)
           big == [node EXCEPT !.items[j] = x]
           p == node.kids[j]
           q == node.kids[i]
           w == [v \in {NodePage, p, q} |-> IF v = NodePage THEN big ELSE IF v = p THEN l ELSE r]
           t == Write(Write(Write(s, NodePage, big), p, l), q, r)
<1>1. n \in Nat /\ i \in 1 .. n /\ j \in 1 .. n /\ j + 1 = i /\ j # i
  <2>1. n \in Nat
      BY BlocksAre DEF Blocked
  <2> QED BY <2>1
<1>2. p # NodePage /\ q # NodePage /\ p # q
  <2> HIDE DEF n, j
  <2> QED BY <1>1, PagesApart DEF n
<1>3. Borrowed(node, c, j, l, x, r)
    BY BorrowedFromLeft
<1>4. Get(s, NodePage) = node /\ Get(s, p) = c[j] /\ Get(s, q) = c[i]
  <2> HIDE DEF n, j
  <2> QED BY <1>1 DEF Seen, n
<1>5. BorrowFromLeft(s, NodePage, i) = t
    BY <1>4, Zenon DEF BorrowFromLeft, FedFromLeft
<1> HIDE DEF n, j, l, x, r, big, p, q, t
<1>6. OnThree(w, NodePage, big, p, l, q, r)
    BY <1>2 DEF OnThree
<1> HIDE DEF w
<1>7. Wrote(s, t, w) /\ t.pagesToDelete = s.pagesToDelete
    BY <1>2, <1>6, WriteThrice DEF t
<1>8. Rebalanced(s, node, c, t)
  <2>1. OnThree(w, NodePage, [node EXCEPT !.items[j] = x], node.kids[j], l, node.kids[j + 1], r)
      BY <1>1, <1>6, Zenon DEF p, q, big
  <2> QED BY <1>3, <1>7, <2>1, BorrowedIs
<1> QED BY <1>5, <1>8

\* Node::borrowFromRight, from one that has.
LEMMA BorrowRightIs ==
    ASSUME NEW s, IsTx(s), NEW node, NEW c, Family(node, c), Seen(s, node, c), s.pagesToDelete = <<>>,
           NEW i \in 1 .. Len(node.kids) - 1, c[i + 1].items # <<>>
    PROVE  Rebalanced(s, node, c, BorrowFromRight(s, NodePage, i))
<1> DEFINE n == Len(node.kids)
           j == i + 1
           l == FedFromRight(node, c, i)
           x == Head(c[j].items)
           r == WithoutFirst(c[j])
           big == [node EXCEPT !.items[i] = x]
           p == node.kids[i]
           q == node.kids[j]
           w == [v \in {NodePage, p, q} |-> IF v = NodePage THEN big ELSE IF v = p THEN l ELSE r]
           t == Write(Write(Write(s, NodePage, big), q, r), p, l)
<1>1. n \in Nat /\ i \in 1 .. n /\ j \in 1 .. n /\ j # i
  <2>1. n \in Nat
      BY BlocksAre DEF Blocked
  <2> QED BY <2>1
<1>2. p # NodePage /\ q # NodePage /\ p # q
  <2> HIDE DEF n, j
  <2> QED BY <1>1, PagesApart DEF n
<1>3. Borrowed(node, c, i, l, x, r)
    BY BorrowedFromRight
<1>4. Get(s, NodePage) = node /\ Get(s, p) = c[i] /\ Get(s, q) = c[j]
  <2> HIDE DEF n, j
  <2> QED BY <1>1 DEF Seen, n
<1>5. BorrowFromRight(s, NodePage, i) = t
    BY <1>4, Zenon DEF BorrowFromRight, FedFromRight
<1>j. j = i + 1
    OBVIOUS
<1> HIDE DEF n, j, l, x, r, big, p, q, t
<1>6. OnThree(w, NodePage, big, q, r, p, l) /\ OnThree(w, NodePage, big, p, l, q, r)
    BY <1>2 DEF OnThree
<1> HIDE DEF w
<1>7. Wrote(s, t, w) /\ t.pagesToDelete = s.pagesToDelete
    BY <1>2, <1>6, WriteThrice DEF t
<1>8. Rebalanced(s, node, c, t)
  <2>1. OnThree(w, NodePage, [node EXCEPT !.items[i] = x], node.kids[i], l, node.kids[i + 1], r)
      BY <1>6, <1>j, Zenon DEF p, q, big
  <2> QED BY <1>3, <1>7, <2>1, BorrowedIs
<1> QED BY <1>5, <1>8

\* Node::merge; the child's page is left to delete.
LEMMA MergeIs ==
    ASSUME NEW s, IsTx(s), NEW node, NEW c, Family(node, c), Seen(s, node, c), s.pagesToDelete = <<>>,
           NEW i \in 2 .. Len(node.kids)
    PROVE  Rebalanced(s, node, c, Merge(s, NodePage, i))
<1> DEFINE n == Len(node.kids)
           j == i - 1
           m == MergedNode(c[j], node.items[j], c[i])
           small == [items |-> RemoveAt(node.items, j), kids |-> RemoveAt(node.kids, i)]
           p == node.kids[j]
           q == node.kids[i]
           old(k) == IF k < i THEN k ELSE k + 1
           c1 == [k \in 1 .. n - 1 |-> IF k = j THEN m ELSE IF k < i THEN c[k] ELSE c[k + 1]]
           d == Delete(s, q)
           t1 == Write(d, NodePage, small)
           t == Write(t1, p, m)
<1>1. n \in Nat /\ i \in 1 .. n /\ j \in 1 .. n /\ j # i /\ j \in 1 .. n - 1 /\ j < i
      /\ node.kids \in Seq(Nat) /\ IsInjective(node.kids)
  <2>1. n \in Nat
      BY BlocksAre DEF Blocked
  <2>2. node.kids \in Seq(Nat) /\ IsInjective(node.kids)
      BY DEF Family, AnyNode
  <2> QED BY <2>1, <2>2
<1>2. /\ \A k \in 1 .. n : node.kids[k] # NodePage
      /\ \A k, l \in 1 .. n : node.kids[k] = node.kids[l] => k = l
    BY PagesApart
<1>3. Merging(node, c, i, small, c1)
    BY Zenon DEF Merging
<1>4. Get(s, NodePage) = node /\ \A k \in 1 .. n : Get(s, node.kids[k]) = c[k]
    BY DEF Seen
<1>5. Merge(s, NodePage, i) = t
  <2>1. Get(s, p) = c[j] /\ Get(s, q) = c[i]
    <3> HIDE DEF n, j
    <3> QED BY <1>1, <1>4
  <2> QED BY <1>4, <2>1, Zenon DEF Merge, MergedNode
<1>6. IsTx(d) /\ d.file = s.file /\ d.pagesToDelete = <<q>> /\ \A v : Get(d, v) = Get(s, v)
  <2> HIDE DEF q
  <2>1. IsTx(d) /\ d.file = s.file /\ d.dirtyNodes = s.dirtyNodes /\ d.pagesToDelete = Append(s.pagesToDelete, q)
      BY DEF Delete, IsTx
  <2> HIDE DEF d
  <2>2. d.pagesToDelete = <<q>>
      BY <2>1
  <2> QED BY <2>1, <2>2 DEF Get
<1>7. /\ IsTx(t1) /\ t1.file = d.file /\ t1.pagesToDelete = d.pagesToDelete /\ Get(t1, NodePage) = small
      /\ \A v : v # NodePage => Get(t1, v) = Get(d, v)
  <2> HIDE DEF d, small
  <2> QED BY <1>6, WriteGets
<1>8. /\ IsTx(t) /\ t.file = t1.file /\ t.pagesToDelete = t1.pagesToDelete /\ Get(t, p) = m
      /\ \A v : v # p => Get(t, v) = Get(t1, v)
  <2> HIDE DEF t1, m, p
  <2> QED BY <1>7, WriteGets
<1> HIDE DEF d, t1, t
<1>9. /\ Family(small, c1) /\ small.kids = RemoveAt(node.kids, i)
      /\ FlattenSeq(ItemBlocks(small, c1)) = FlattenSeq(ItemBlocks(node, c))
      /\ FlattenSeq(KidBlocks(small, c1)) = FlattenSeq(KidBlocks(node, c))
  <2> HIDE DEF small, c1
  <2> QED BY <1>3, MergingKeeps
<1>10. /\ Len(small.kids) = n - 1 /\ \A k \in 1 .. n - 1 : small.kids[k] = node.kids[old(k)]
  <2>1. /\ Len(RemoveAt(node.kids, i)) = n - 1
        /\ \A k \in 1 .. n - 1 : RemoveAt(node.kids, i)[k] = IF k < i THEN node.kids[k] ELSE node.kids[k + 1]
      BY <1>1, RemoveIs
  <2> HIDE DEF small, n
  <2> QED BY <1>9, <2>1
<1>11. Seen(t, small, c1)
  <2>1. Get(t, NodePage) = small
      BY <1>1, <1>2, <1>7, <1>8
  <2>2. ASSUME NEW k \in 1 .. n - 1 PROVE Get(t, small.kids[k]) = c1[k]
    <3>0. c1[k] = IF k = j THEN m ELSE IF k < i THEN c[k] ELSE c[k + 1]
        OBVIOUS
    <3> HIDE DEF c1, m, small, n, j
    <3>1. small.kids[k] = node.kids[old(k)]
        BY <1>10
    <3>2. CASE k = j
      <4>1. old(k) = j
          BY <1>1, <3>2
      <4> QED BY <1>8, <3>0, <3>1, <3>2, <4>1
    <3>3. CASE k # j
      <4>1. old(k) \in 1 .. n /\ old(k) # j
          BY <1>1, <3>3 DEF j
      <4>2. c1[k] = c[old(k)]
          BY <3>0, <3>3
      <4> HIDE DEF old
      <4>3. small.kids[k] # p /\ small.kids[k] # NodePage
          BY <1>1, <1>2, <3>1, <4>1
      <4>4. Get(t, small.kids[k]) = Get(s, small.kids[k])
          BY <1>6, <1>7, <1>8, <4>3
      <4> QED BY <1>4, <3>1, <4>1, <4>2, <4>4
    <3> QED BY <3>2, <3>3
  <2> QED BY <1>10, <2>1, <2>2 DEF Seen
<1>12. IsInjective(small.kids \o t.pagesToDelete) /\ Range(small.kids \o t.pagesToDelete) = Range(node.kids)
  <2>1. t.pagesToDelete = <<node.kids[i]>>
      BY <1>6, <1>7, <1>8
  <2>2. /\ IsInjective(RemoveAt(node.kids, i) \o <<node.kids[i]>>)
        /\ Range(RemoveAt(node.kids, i) \o <<node.kids[i]>>) = Range(node.kids)
      BY <1>1, TakenOut
  <2> HIDE DEF small
  <2> QED BY <1>9, <2>1, <2>2
<1>13. Rebalanced(s, node, c, t)
  <2>1. IsTx(t) /\ t.file = s.file
      BY <1>6, <1>7, <1>8
  <2> HIDE DEF small, c1
  <2> QED BY <1>9, <1>11, <1>12, <2>1 DEF Rebalanced
<1> QED BY <1>5, <1>13

-----------------------------------------------------------------------------
(***************************************************************************)
(* Node::rebalanceAfterRemove.                                             *)
(***************************************************************************)
\* A node with two or more children, before it is rebalanced: what is on disk.
Started(s, node, c) ==
    /\ IsTx(s) /\ s.dirtyNodes = <<>> /\ s.pagesToDelete = <<>>
    /\ Family(node, c) /\ Seen(s, node, c) /\ Len(node.kids) >= 2

\* Whichever way it takes, it rebalances: a sibling that can spare an item has
\* one to give.
LEMMA RebalanceIs ==
    ASSUME NEW s, NEW node, NEW c, Started(s, node, c), NEW i \in 1 .. Len(node.kids),
           HeaderSize < MinThreshold
    PROVE  Rebalanced(s, node, c, RebalanceAfterRemove(s, NodePage, i))
<1> DEFINE n == Len(node.kids)
           l == i # 1 /\ CanSpareAnElement(Get(s, node.kids[i - 1]))
           r == i # n /\ CanSpareAnElement(Get(s, node.kids[i + 1]))
<1>1. /\ IsTx(s) /\ Family(node, c) /\ Seen(s, node, c) /\ s.pagesToDelete = <<>>
      /\ Get(s, NodePage) = node /\ \A k \in 1 .. n : Get(s, node.kids[k]) = c[k] /\ c[k] \in AnyNode
      /\ n \in Nat /\ n >= 2 /\ i \in 1 .. n
  <2>1. IsTx(s) /\ Family(node, c) /\ Seen(s, node, c) /\ s.pagesToDelete = <<>> /\ n >= 2
      BY DEF Started
  <2>2. n \in Nat
      BY <2>1, BlocksAre DEF Blocked
  <2>3. Get(s, NodePage) = node /\ \A k \in 1 .. n : Get(s, node.kids[k]) = c[k] /\ c[k] \in AnyNode
      BY <2>1 DEF Seen, Family
  <2> QED BY <2>1, <2>2, <2>3
<1>2. RebalanceAfterRemove(s, NodePage, i) =
          IF l THEN BorrowFromLeft(s, NodePage, i)
          ELSE IF r THEN BorrowFromRight(s, NodePage, i)
          ELSE Merge(s, NodePage, IF i = 1 THEN 2 ELSE i)
    BY <1>1, Zenon DEF RebalanceAfterRemove
<1>3. CASE l
  <2>1. i \in 2 .. n /\ i - 1 \in 1 .. n
      BY <1>1, <1>3
  <2>2. c[i - 1] \in AnyNode /\ CanSpareAnElement(c[i - 1])
    <3> DEFINE j == i - 1
    <3>1. j \in 1 .. n /\ CanSpareAnElement(Get(s, node.kids[j]))
        BY <1>3, <2>1
    <3> HIDE DEF j, n
    <3>2. c[j] \in AnyNode /\ CanSpareAnElement(c[j])
        BY <1>1, <3>1
    <3> QED BY <3>2 DEF j
  <2>3. c[i - 1].items # <<>>
      BY <2>2, SparesOne
  <2>4. Rebalanced(s, node, c, BorrowFromLeft(s, NodePage, i))
      BY <1>1, <2>1, <2>3, BorrowLeftIs
  <2> QED BY <1>2, <1>3, <2>4
<1>4. CASE ~l /\ r
  <2>1. i \in 1 .. n - 1 /\ i + 1 \in 1 .. n
      BY <1>1, <1>4
  <2>2. c[i + 1] \in AnyNode /\ CanSpareAnElement(c[i + 1])
    <3> DEFINE j == i + 1
    <3>1. j \in 1 .. n /\ CanSpareAnElement(Get(s, node.kids[j]))
        BY <1>4, <2>1
    <3> HIDE DEF j, n, l, r
    <3>2. c[j] \in AnyNode /\ CanSpareAnElement(c[j])
        BY <1>1, <3>1
    <3> QED BY <3>2 DEF j
  <2>3. c[i + 1].items # <<>>
      BY <2>2, SparesOne
  <2>4. Rebalanced(s, node, c, BorrowFromRight(s, NodePage, i))
      BY <1>1, <2>1, <2>3, BorrowRightIs
  <2> HIDE DEF l, r
  <2> QED BY <1>2, <1>4, <2>4
<1>5. CASE ~l /\ ~r
  <2> DEFINE k == IF i = 1 THEN 2 ELSE i
  <2>1. k \in 2 .. n
      BY <1>1
  <2> HIDE DEF k
  <2>2. Rebalanced(s, node, c, Merge(s, NodePage, k))
      BY <1>1, <2>1, MergeIs
  <2> HIDE DEF l, r
  <2> QED BY <1>2, <1>5, <2>2 DEF k
<1> QED BY <1>3, <1>4, <1>5

\* The state with what is on disk.
LEMMA DiskIs ==
    ASSUME NEW s, IsTx(s), s.dirtyNodes = <<>>, NEW t, IsTx(t), t.file = s.file, NEW p
    PROVE  Get([t EXCEPT !.dirtyNodes = <<>>], p) = Get(s, p)
<1> DEFINE u == [t EXCEPT !.dirtyNodes = <<>>]
           f == s.file
<1>1. u.file = f /\ u.dirtyNodes = <<>>
    BY DEF IsTx
<1>2. p \notin DOMAIN <<>>
    OBVIOUS
<1> HIDE DEF u, f
<1>3. Get(u, p) = f[p]
    BY <1>1, <1>2 DEF Get
<1>4. Get(s, p) = f[p]
    BY <1>2 DEF Get, f
<1> QED BY <1>3, <1>4 DEF u

\* What was below the node then is below it now.
LEMMA RebalancedHas ==
    ASSUME NEW s, NEW node, NEW c, Started(s, node, c), NEW t, Rebalanced(s, node, c, t),
           NEW u, u = [t EXCEPT !.dirtyNodes = <<>>]
    PROVE  /\ InOrder(t) = InOrder(u) /\ Below(t) = Below(u)
           /\ \A p \in Range(Kids(t)) \cup {NodePage} : ChildPerGap(Get(t, p))
           /\ IsInjective(Kids(t) \o t.pagesToDelete)
           /\ Range(Kids(t) \o t.pagesToDelete) = Range(Kids(u))
<1>1. /\ IsTx(s) /\ s.dirtyNodes = <<>> /\ Family(node, c) /\ Seen(s, node, c)
      /\ IsTx(t) /\ t.file = s.file
    BY DEF Started, Rebalanced
<1>2. \A p : Get(u, p) = Get(s, p)
    BY <1>1, DiskIs
<1>3. Seen(u, node, c)
    BY <1>1, <1>2, Zenon DEF Seen
<1>4. PICK node1, c1 :
           /\ Family(node1, c1) /\ Seen(t, node1, c1)
           /\ FlattenSeq(ItemBlocks(node1, c1)) = FlattenSeq(ItemBlocks(node, c))
           /\ FlattenSeq(KidBlocks(node1, c1)) = FlattenSeq(KidBlocks(node, c))
           /\ IsInjective(node1.kids \o t.pagesToDelete)
           /\ Range(node1.kids \o t.pagesToDelete) = Range(node.kids)
    BY DEF Rebalanced
<1>5. /\ InOrder(t) = FlattenSeq(ItemBlocks(node1, c1)) /\ Below(t) = FlattenSeq(KidBlocks(node1, c1))
      /\ InOrder(u) = FlattenSeq(ItemBlocks(node, c)) /\ Below(u) = FlattenSeq(KidBlocks(node, c))
    BY <1>1, <1>3, <1>4, ReadsBlocks
<1>6. Kids(t) = node1.kids /\ Kids(u) = node.kids /\ Get(t, NodePage) = node1
    BY <1>3, <1>4, Zenon DEF Kids, Seen
<1>7. \A p \in Range(Kids(t)) \cup {NodePage} : ChildPerGap(Get(t, p))
  <2>1. ChildPerGap(Get(t, NodePage))
      BY <1>4, <1>6 DEF Family, ChildPerGap
  <2>2. node1.kids \in Seq(Nat) /\ \A i \in 1 .. Len(node1.kids) : ChildPerGap(c1[i])
      BY <1>4 DEF Family, AnyNode
  <2>3. Range(node1.kids) = {node1.kids[i] : i \in 1 .. Len(node1.kids)}
      BY <2>2, RangeIs
  <2>4. \A i \in 1 .. Len(node1.kids) : Get(t, node1.kids[i]) = c1[i]
      BY <1>4 DEF Seen
  <2>5. \A p \in Range(node1.kids) : ChildPerGap(Get(t, p))
      BY <2>2, <2>3, <2>4
  <2> QED BY <1>6, <2>1, <2>5
<1> QED BY <1>4, <1>5, <1>6, <1>7

\* The children of the node, as they are now.
Under(s) == [i \in 1 .. Len(Kids(s)) |-> Get(s, Kids(s)[i])]

\* The inductive invariant: until the call there is a node with its children, a
\* child short of the threshold, and afterwards they are rebalanced.
RebalanceInv ==
    IF balanced THEN OrderKept /\ ChildrenAccounted
    ELSE /\ Started(tx, Get(tx, NodePage), Under(tx)) /\ at \in 1 .. Len(Kids(tx))
         /\ HeaderSize < MinThreshold

\* A child of these values is a node with a child for each gap.
LEMMA ChildIs ==
    ASSUME NEW i \in Nat, NEW k \in Nat, NEW vals \in [1 .. k -> Value], NEW leaf \in BOOLEAN
    PROVE  /\ Child(i, vals, leaf) \in AnyNode /\ ChildPerGap(Child(i, vals, leaf))
           /\ IsLeaf(Child(i, vals, leaf)) <=> leaf
<1> DEFINE it(j) == NewItem(i, j, vals[j])
           items == [j \in 1 .. k |-> it(j)]
           page(j) == Number(i, j)
           pages == [j \in 1 .. k + 1 |-> page(j)]
           n == Child(i, vals, leaf)
<1>1. DOMAIN vals = 1 .. k /\ Len(vals) = k
    OBVIOUS
<1>2. \A j \in 1 .. k : it(j) \in AnyItem
  <2> SUFFICES ASSUME NEW j \in 1 .. k PROVE it(j) \in AnyItem
      OBVIOUS
  <2>1. vals[j] \in Value /\ Number(i, j) \in Int
      BY DEF Number
  <2> QED BY <2>1 DEF NewItem, AnyItem
<1>3. \A j \in 1 .. k + 1 : page(j) \in Nat
    BY DEF Number
<1>4. items \in Seq(AnyItem) /\ Len(items) = k
  <2> HIDE DEF it
  <2> QED BY <1>2
<1>5. pages \in Seq(Nat) /\ Len(pages) = k + 1
  <2> HIDE DEF page
  <2> QED BY <1>3
<1>6. n = [items |-> items, kids |-> IF leaf THEN <<>> ELSE pages]
    BY <1>1, Zenon DEF Child
<1> HIDE DEF it, items, page, pages, n
<1>7. <<>> \in Seq(Nat) /\ pages # <<>>
    BY <1>5, EmptySeq
<1>8. ASSUME leaf PROVE n \in AnyNode /\ ChildPerGap(n) /\ IsLeaf(n)
  <2>1. n = [items |-> items, kids |-> <<>>]
      BY <1>6, <1>8
  <2> QED BY <1>4, <1>7, <2>1 DEF AnyNode, ChildPerGap, IsLeaf
<1>9. ASSUME ~leaf PROVE n \in AnyNode /\ ChildPerGap(n) /\ ~IsLeaf(n)
  <2>1. n = [items |-> items, kids |-> pages]
      BY <1>6, <1>9
  <2> QED BY <1>4, <1>5, <1>7, <2>1 DEF AnyNode, ChildPerGap, IsLeaf
<1> QED BY <1>8, <1>9 DEF n

\* The node over such children, on the pages after its own, is a family.
LEMMA FamilyIs ==
    ASSUME NEW m \in Nat, m >= 2, NEW child, NEW separators \in [1 .. m - 1 -> Value], NEW leaf \in BOOLEAN,
           child \in [1 .. m -> AnyNode],
           \A i \in 1 .. m : ChildPerGap(child[i]) /\ (IsLeaf(child[i]) <=> leaf)
    PROVE  Family([items |-> [i \in 1 .. m - 1 |-> NewItem(i, Separator, separators[i])],
                   kids |-> [i \in 1 .. m |-> NodePage + i]], child)
<1> DEFINE it(i) == NewItem(i, Separator, separators[i])
           items == [i \in 1 .. m - 1 |-> it(i)]
           pages == [i \in 1 .. m |-> NodePage + i]
           node == [items |-> items, kids |-> pages]
<1>1. \A i \in 1 .. m - 1 : it(i) \in AnyItem
  <2> SUFFICES ASSUME NEW i \in 1 .. m - 1 PROVE it(i) \in AnyItem
      OBVIOUS
  <2>1. separators[i] \in Value /\ Number(i, Separator) \in Int
      BY DEF Number, Separator
  <2> QED BY <2>1 DEF NewItem, AnyItem
<1>2. items \in Seq(AnyItem) /\ Len(items) = m - 1
  <2> HIDE DEF it
  <2> QED BY <1>1
<1>3. /\ pages \in Seq(Nat) /\ Len(pages) = m /\ DOMAIN pages = 1 .. m
      /\ \A i \in 1 .. m : pages[i] = NodePage + i
    BY DEF NodePage
<1> HIDE DEF it, items, pages
<1>4. IsInjective(pages)
    BY <1>3 DEF IsInjective, NodePage
<1>5. NodePage \notin Range(pages)
    BY <1>3 DEF Range, NodePage
<1>6. node \in AnyNode /\ node.kids = pages /\ node.items = items
    BY <1>2, <1>3 DEF AnyNode
<1> HIDE DEF node
<1>7. Family(node, child)
    BY <1>2, <1>3, <1>4, <1>5, <1>6 DEF Family
<1> QED BY <1>7 DEF node, items, pages, it

\* Initially there is one.
LEMMA InitRebalanceInv ==
    ASSUME RebalanceInit
    PROVE  RebalanceInv
<1> DEFINE node(k, seps) == [items |-> [i \in 1 .. k - 1 |-> NewItem(i, Separator, seps[i])],
                             kids |-> [i \in 1 .. k |-> NodePage + i]]
           children(k, v, l) == [i \in 1 .. k |-> Child(i, v[i], l)]
<1> DEFINE started(k, l, v, seps) ==
               /\ at \in 1 .. k /\ MissesOne(children(k, v, l)[at])
               /\ tx = [file |-> Placed([p \in Range(node(k, seps).kids) |-> children(k, v, l)[p - NodePage]],
                                        NodePage, node(k, seps)),
                        dirtyNodes |-> <<>>, pagesToDelete |-> <<>>, allocatedPages |-> <<>>,
                        fl |-> EmptyFreeList, metaRoot |-> NodePage]
               /\ balanced = FALSE
<1>p. \E k \in 2 .. MaxKids, l \in BOOLEAN :
      \E v \in [1 .. k -> SeqOf(Value, MaxChildItems)], seps \in [1 .. k - 1 -> Value] : started(k, l, v, seps)
    BY Zenon DEF RebalanceInit
<1>q. PICK m \in 2 .. MaxKids, leaf \in BOOLEAN :
      \E v \in [1 .. m -> SeqOf(Value, MaxChildItems)], seps \in [1 .. m - 1 -> Value] : started(m, leaf, v, seps)
  <2> HIDE DEF started
  <2> QED BY <1>p
<1>1. PICK vals \in [1 .. m -> SeqOf(Value, MaxChildItems)], separators \in [1 .. m - 1 -> Value] :
          started(m, leaf, vals, separators)
  <2> HIDE DEF started
  <2> QED BY <1>q
<1>2. m \in Nat /\ m >= 2
    OBVIOUS
<1> DEFINE c == children(m, vals, leaf)
           n == node(m, separators)
<1>3. \A i \in 1 .. m : c[i] \in AnyNode /\ ChildPerGap(c[i]) /\ (IsLeaf(c[i]) <=> leaf)
  <2> SUFFICES ASSUME NEW i \in 1 .. m
               PROVE  c[i] \in AnyNode /\ ChildPerGap(c[i]) /\ (IsLeaf(c[i]) <=> leaf)
      OBVIOUS
  <2>1. PICK k \in 0 .. MaxChildItems : vals[i] \in [1 .. k -> Value]
    <3> DEFINE v == vals[i]
    <3>1. v \in SeqOf(Value, MaxChildItems)
        OBVIOUS
    <3> HIDE DEF v
    <3>2. \E k \in 0 .. MaxChildItems : v \in [1 .. k -> Value]
        BY <3>1 DEF SeqOf
    <3> QED BY <3>2 DEF v
  <2>2. k \in Nat /\ i \in Nat /\ c[i] = Child(i, vals[i], leaf)
      BY <1>2
  <2> DEFINE v == vals[i]
  <2> HIDE DEF v, c
  <2>3. v \in [1 .. k -> Value] /\ c[i] = Child(i, v, leaf)
      BY <2>1, <2>2 DEF v
  <2>4. /\ Child(i, v, leaf) \in AnyNode /\ ChildPerGap(Child(i, v, leaf))
        /\ (IsLeaf(Child(i, v, leaf)) <=> leaf)
      BY <2>2, <2>3, ChildIs
  <2> QED BY <2>3, <2>4
<1>4. c \in [1 .. m -> AnyNode] /\ c = [i \in 1 .. m |-> c[i]]
  <2>1. c = [i \in 1 .. m |-> c[i]]
      OBVIOUS
  <2> HIDE DEF c
  <2> QED BY <1>3, <2>1
<1>5. Family(n, c)
  <2> HIDE DEF c
  <2> QED BY <1>2, <1>3, <1>4, FamilyIs
<1>6. n.kids = [i \in 1 .. m |-> NodePage + i] /\ Len(n.kids) = m
      /\ \A i \in 1 .. m : n.kids[i] = NodePage + i
    BY <1>2
<1> HIDE DEF c, n
<1>7. /\ IsTx(tx) /\ tx.dirtyNodes = <<>> /\ tx.pagesToDelete = <<>>
      /\ tx.file = Placed([p \in Range(n.kids) |-> c[p - NodePage]], NodePage, n)
    BY <1>1 DEF IsTx, c, n
<1>8. /\ tx.file[NodePage] = n
      /\ \A p \in Range(n.kids) : p # NodePage => tx.file[p] = c[p - NodePage]
  <2> DEFINE below == [p \in Range(n.kids) |-> c[p - NodePage]]
             f == tx.file
  <2>1. f = Placed(below, NodePage, n)
      BY <1>7
  <2>2. DOMAIN below = Range(n.kids) /\ \A p \in Range(n.kids) : below[p] = c[p - NodePage]
      OBVIOUS
  <2> HIDE DEF below, f
  <2>3. f[NodePage] = n /\ \A p \in Range(n.kids) : p # NodePage => f[p] = c[p - NodePage]
      BY <2>1, <2>2 DEF Placed
  <2> QED BY <2>3 DEF f
<1>9. \A p : Get(tx, p) = tx.file[p]
  <2>1. DOMAIN tx.dirtyNodes = {}
      BY <1>7
  <2> QED BY <2>1 DEF Get
<1>10. /\ Get(tx, NodePage) = n
       /\ \A i \in 1 .. m : Get(tx, n.kids[i]) = c[i]
  <2>1. ASSUME NEW i \in 1 .. m PROVE Get(tx, n.kids[i]) = c[i]
    <3>1. n.kids[i] = NodePage + i /\ NodePage + i # NodePage /\ NodePage + i - NodePage = i
        BY <1>2, <1>6 DEF NodePage
    <3>2. n.kids[i] \in Range(n.kids)
        BY <1>2, <1>6 DEF Range
    <3>3. tx.file[n.kids[i]] = c[n.kids[i] - NodePage]
        BY <1>8, <3>1, <3>2
    <3>4. n.kids[i] - NodePage = i
      <4> DEFINE p == n.kids[i]
      <4>1. p = NodePage + i
          BY <3>1
      <4> HIDE DEF p
      <4>2. p - NodePage = i
          BY <4>1 DEF NodePage
      <4> QED BY <4>2 DEF p
    <3>5. tx.file[n.kids[i]] = c[i]
        BY <3>3, <3>4, Zenon
    <3> QED BY <1>9, <3>5
  <2> QED BY <1>8, <1>9, <2>1
<1>11. Kids(tx) = n.kids
    BY <1>10 DEF Kids
<1>12. Under(tx) = c
    BY <1>4, <1>6, <1>10, <1>11 DEF Under
<1>13. Started(tx, n, c)
  <2>1. Seen(tx, n, c)
      BY <1>6, <1>10 DEF Seen
  <2> QED BY <1>2, <1>5, <1>6, <1>7, <2>1 DEF Started
<1>14. HeaderSize < MinThreshold
  <2>1. MissesOne(c[at]) /\ c[at] \in AnyNode
      BY <1>1, <1>3 DEF c
  <2>2. Size(c[at]) < MinThreshold /\ Size(c[at]) \in Nat /\ Size(c[at]) >= HeaderSize
      BY <2>1, SizeAtLeast DEF MissesOne
  <2> QED BY <2>2, NodeAssumption DEF HeaderSize
<1>15. at \in 1 .. Len(Kids(tx)) /\ balanced = FALSE
    BY <1>1, <1>6, <1>11
<1> QED BY <1>10, <1>12, <1>13, <1>14, <1>15, Zenon DEF RebalanceInv

\* The call rebalances; nothing happens after it.
LEMMA RunRebalanceInv ==
    ASSUME RebalanceInv, [Run]_rebalanceVars
    PROVE  RebalanceInv'
<1>1. CASE Run
  <2> DEFINE node == Get(tx, NodePage)
             c == Under(tx)
  <2>1. /\ Started(tx, node, c) /\ at \in 1 .. Len(node.kids) /\ HeaderSize < MinThreshold
        /\ tx' = RebalanceAfterRemove(tx, NodePage, at) /\ balanced' = TRUE
      BY <1>1, Zenon DEF RebalanceInv, Run, Kids
  <2> HIDE DEF node, c
  <2>2. Rebalanced(tx, node, c, tx')
      BY <2>1, RebalanceIs, Zenon
  <2> DEFINE t == tx'
             u == [t EXCEPT !.dirtyNodes = <<>>]
  <2>t. Rebalanced(tx, node, c, t)
      BY <2>2
  <2> HIDE DEF t
  <2>3. /\ InOrder(t) = InOrder(u) /\ Below(t) = Below(u)
        /\ \A p \in Range(Kids(t)) \cup {NodePage} : ChildPerGap(Get(t, p))
        /\ IsInjective(Kids(t) \o t.pagesToDelete)
        /\ Range(Kids(t) \o t.pagesToDelete) = Range(Kids(u))
      BY <2>1, <2>t, RebalancedHas, Zenon
  <2>4. OnDisk' = u
      BY DEF OnDisk, t
  <2>5. OrderKept' /\ ChildrenAccounted'
      BY <2>3, <2>4, Zenon DEF OrderKept, ChildrenAccounted, t
  <2> QED BY <2>1, <2>5, Zenon DEF RebalanceInv
<1>2. CASE UNCHANGED rebalanceVars
    BY <1>2, Zenon DEF rebalanceVars, RebalanceInv, OrderKept, ChildrenAccounted, OnDisk
<1> QED BY <1>1, <1>2

\* Before the call nothing has moved.
LEMMA StartedHas ==
    ASSUME NEW s, NEW node, NEW c, Started(s, node, c)
    PROVE  Rebalanced(s, node, c, s)
<1>1. /\ IsTx(s) /\ Family(node, c) /\ Seen(s, node, c) /\ s.pagesToDelete = <<>>
    BY DEF Started
<1>2. node.kids \in Seq(Nat) /\ IsInjective(node.kids)
    BY <1>1 DEF Family, AnyNode
<1>3. node.kids \o s.pagesToDelete = node.kids
    BY <1>1, <1>2
<1> QED BY <1>1, <1>2, <1>3 DEF Rebalanced

\* The invariant has both properties, before the call and after it.
LEMMA RebalanceInvHas ==
    ASSUME RebalanceInv
    PROVE  OrderKept /\ ChildrenAccounted
<1>1. CASE balanced
    BY <1>1 DEF RebalanceInv
<1>2. CASE ~balanced
  <2> DEFINE node == Get(tx, NodePage)
             c == Under(tx)
             u == [tx EXCEPT !.dirtyNodes = <<>>]
  <2>1. Started(tx, node, c)
      BY <1>2, Zenon DEF RebalanceInv
  <2> HIDE DEF node, c
  <2>2. Rebalanced(tx, node, c, tx)
      BY <2>1, StartedHas
  <2>3. /\ InOrder(tx) = InOrder(u) /\ Below(tx) = Below(u)
        /\ \A p \in Range(Kids(tx)) \cup {NodePage} : ChildPerGap(Get(tx, p))
        /\ IsInjective(Kids(tx) \o tx.pagesToDelete)
        /\ Range(Kids(tx) \o tx.pagesToDelete) = Range(Kids(u))
      BY <2>1, <2>2, RebalancedHas, Zenon
  <2> QED BY <2>3, Zenon DEF OrderKept, ChildrenAccounted, OnDisk
<1> QED BY <1>1, <1>2

\* It holds always.
LEMMA AlwaysRebalanceInv == RebalanceSpec => []RebalanceInv
<1>1. RebalanceInit => RebalanceInv
    BY InitRebalanceInv
<1>2. RebalanceInv /\ [Run]_rebalanceVars => RebalanceInv'
    BY RunRebalanceInv
<1> QED BY <1>1, <1>2, PTL DEF RebalanceSpec

\* Node::rebalanceAfterRemove loses, repeats and reorders no item and no
\* subtree, and leaves a child for each gap, whatever the thresholds, the number
\* of the children and the items in them: borrowing has an item to take because
\* Node::canSpareAnElement asks for more than a header, and a merge brings the
\* item between the two nodes down between theirs.
THEOREM RebalanceKeepsOrder == RebalanceSpec => []OrderKept
BY AlwaysRebalanceInv, RebalanceInvHas, PTL

\* ... and a child is in the node or in pagesToDelete, never both or neither.
THEOREM RebalanceAccounts == RebalanceSpec => []ChildrenAccounted
BY AlwaysRebalanceInv, RebalanceInvHas, PTL
=============================================================================
