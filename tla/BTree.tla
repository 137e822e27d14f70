------------------------------- MODULE BTree -------------------------------
(***************************************************************************)
(* The B-tree of a container inside a transaction: Container::_put and     *)
(* _remove (db/containers/container.cpp) with the methods of Node          *)
(* (dal/node/node.cpp) and Tx (db/tx/tx.cpp) they call.  The operators     *)
(* take and return the state a transaction works on, a record              *)
(*   file            page -> node on disk                                  *)
(*   dirtyNodes      page -> node written by the transaction               *)
(*   pagesToDelete, allocatedPages                                         *)
(*   fl              the free list in memory                               *)
(*   metaRoot        Dal::meta->root                                       *)
(* Tx::getNode hands out the node in dirtyNodes itself but a fresh copy of *)
(* a node on disk; each operator says where the difference is visible.     *)
(***************************************************************************)
EXTENDS BTreeNode, FreeList

\* The nodes m with n on page p, and with the nodes over them.
Placed(m, p, n) == [q \in DOMAIN m \cup {p} |-> IF q = p THEN n ELSE m[q]]
Overlaid(m, over) ==
    [q \in DOMAIN m \cup DOMAIN over |-> IF q \in DOMAIN over THEN over[q] ELSE m[q]]

\* Tx::getNode.
Get_Mutant(s, p) == IF p \in DOMAIN s.file THEN s.file[p] ELSE s.dirtyNodes[p]
Get(s, p) == IF p \in DOMAIN s.dirtyNodes THEN s.dirtyNodes[p] ELSE s.file[p]

\* Tx::writeNode of a node that has a page, and of a new one.
Write(s, p, n) == [s EXCEPT !.dirtyNodes = Placed(@, p, n)]
WriteNew_Mutant(s, n) ==                       \* pushed before it is numbered
    [s EXCEPT !.dirtyNodes = Placed(@, NextPage(s.fl), n),
              !.allocatedPages = Append(@, 0),
              !.fl = AfterNextPage(@)]
WriteNew(s, n) ==
    [s EXCEPT !.dirtyNodes = Placed(@, NextPage(s.fl), n),
              !.allocatedPages = Append(@, NextPage(s.fl)),
              !.fl = AfterNextPage(@)]

\* Tx::deleteNode.
Delete_Mutant(s, p) == s                       \* the page is forgotten
Delete(s, p) == [s EXCEPT !.pagesToDelete = Append(@, p)]

AllPages(s) == DOMAIN s.file \cup DOMAIN s.dirtyNodes

\* Node::findKey from the root: the nodes on the way, each with the index
\* findKeyInNode returned in it.  It ends in the node that holds the key or in
\* the leaf where it belongs; the other indices are ancestorsIndexes.
Path(s, root, k) ==
    LET from[p \in AllPages(s)] ==
            LET n == Get(s, p)
                here == <<[page |-> p, at |-> Slot(n, k)]>>
            IN  IF Holds(n, k) \/ IsLeaf(n) THEN here
                ELSE here \o from[n.kids[Slot(n, k)]]
    IN  from[root]

\* Container::_get: the item, as a set of at most one.
Lookup(s, root, k) ==
    LET n == Get(s, Last(Path(s, root, k)).page)
    IN  {n.items[i] : i \in {j \in DOMAIN n.items : n.items[j].key = k}}

-----------------------------------------------------------------------------
\* Node::split of the node n on page p, under the node `parent' at index i:
\* the new node is written first, then the parent, which a new root gets its
\* page by, then the node itself.
SplitUnder_Mutant(parent, i, n, newPage) ==    \* the new node is not linked
    AddItem(parent, i, Middle(n))
SplitUnder(parent, i, n, newPage) ==
    [AddItem(parent, i, Middle(n)) EXCEPT !.kids = InsertAt(@, i + 1, newPage)]

SplitChild(s, p, i) ==
    LET parent == Get(s, p)
        child == Get(s, parent.kids[i])
        split == SplitUnder(parent, i, child, NextPage(s.fl))
    IN  Write(Write(WriteNew(s, RightHalf(child)), p, split),
              parent.kids[i], LeftHalf(child))

\* The split of the root under a new root; rootNode is what _put holds as the
\* root.  The new root is the last page allocated.
SplitRoot(s, root, rootNode) ==
    LET newRoot == SplitUnder([items |-> <<>>, kids |-> <<root>>], 1, rootNode,
                              NextPage(s.fl))
    IN  Write(WriteNew(WriteNew(s, RightHalf(rootNode)), newRoot),
              root, LeftHalf(rootNode))

\* The loop of _put over the ancestors, from the bottom to the top.
SplitAncestors_Mutant(s, path) == s            \* only the root is looked at
SplitAncestors(s, path) ==
    LET step(i, t) ==
            IF OverPopulated(Get(t, path[i + 1].page))
            THEN SplitChild(t, path[i].page, path[i].at) ELSE t
    IN  FoldRightDomain(step, Front(path), s)

\* What _put holds as rootNode when it balances the root: the node in
\* dirtyNodes if the root was there at the call, or became it as the node the
\* item went into; otherwise the copy read from disk at the call.
RootHeld(before, after, root, path) ==
    IF root \in DOMAIN before.dirtyNodes \/ Len(path) = 1
    THEN Get(after, root) ELSE Get(before, root)

\* Container::_put on a container whose root is a page.  The result adds to
\* the state the root, and whether the item is new.
PutInTree(s, root, k, v) ==
    LET path == Path(s, root, k)
        p == Last(path).page
        i == Last(path).at
        n == Get(s, p)
        item == [key |-> k, val |-> v]
        stored == IF Holds(n, k) THEN [n EXCEPT !.items[i] = item]
                  ELSE AddItem(n, i, item)
        balanced == SplitAncestors(Write(s, p, stored), path)
        rootNode == RootHeld(s, balanced, root, path)
        grown == SplitRoot(balanced, root, rootNode)
        newRoot == Last(grown.allocatedPages)
    IN  IF OverPopulated(rootNode)
        THEN [state |-> [grown EXCEPT !.metaRoot = IF @ = root THEN newRoot ELSE @],
              root |-> newRoot, newItem |-> ~Holds(n, k)]
        ELSE [state |-> balanced, root |-> root, newItem |-> ~Holds(n, k)]
-----------------------------------------------------------------------------
\* Node::borrowFromLeft, borrowFromRight and merge of the node p, at the index
\* of the unbalanced child.
BorrowFromLeft(s, p, i) ==
    LET node == Get(s, p)
        child == Get(s, node.kids[i])
        sibling == Get(s, node.kids[i - 1])
        fed == [items |-> <<node.items[i - 1]>> \o child.items,
                kids |-> IF IsLeaf(child) THEN <<>> ELSE <<Last(sibling.kids)>> \o child.kids]
    IN  Write(Write(Write(s, p, [node EXCEPT !.items[i - 1] = Last(sibling.items)]),
                    node.kids[i - 1], WithoutLast(sibling)), node.kids[i], fed)

BorrowFromRight(s, p, i) ==
    LET node == Get(s, p)
        child == Get(s, node.kids[i])
        sibling == Get(s, node.kids[i + 1])
        fed == [items |-> Append(child.items, node.items[i]),
                kids |-> IF IsLeaf(child) THEN <<>> ELSE Append(child.kids, Head(sibling.kids))]
    IN  Write(Write(Write(s, p, [node EXCEPT !.items[i] = Head(sibling.items)]),
                    node.kids[i + 1], WithoutFirst(sibling)), node.kids[i], fed)

Merge(s, p, i) ==
    LET node == Get(s, p)
        child == Get(s, node.kids[i])
        sibling == Get(s, node.kids[i - 1])
        merged == [items |-> Append(sibling.items, node.items[i - 1]) \o child.items,
                   kids |-> sibling.kids \o child.kids]
        smaller == [items |-> RemoveAt(node.items, i - 1), kids |-> RemoveAt(node.kids, i)]
    IN  Write(Write(Delete(s, node.kids[i]), p, smaller), node.kids[i - 1], merged)

\* Node::rebalanceAfterRemove.
RebalanceAfterRemove(s, p, i) ==
    LET kids == Get(s, p).kids
    IN  IF i # 1 /\ CanSpareAnElement(Get(s, kids[i - 1])) THEN BorrowFromLeft(s, p, i)
        ELSE IF i # Len(kids) /\ CanSpareAnElement(Get(s, kids[i + 1]))
             THEN BorrowFromRight(s, p, i)
             ELSE Merge(s, p, IF i = 1 THEN 2 ELSE i)

-----------------------------------------------------------------------------
\* Node::getPredecessor: the nodes down the last children, from the child on
\* page p, each with the index of that last child.
PredecessorPath(s, p) ==
    LET from[q \in AllPages(s)] ==
            LET kids == Get(s, q).kids
                here == <<[page |-> q, at |-> Len(kids)]>>
            IN  IF kids = <<>> THEN here ELSE here \o from[Last(kids)]
    IN  from[p]

\* Node::removeItemFromLeaf.
RemoveFromLeaf(s, p, i) == Write(s, p, [Get(s, p) EXCEPT !.items = RemoveAt(@, i)])

\* Node::removeItemFromInternal: the item is replaced by the last one of the
\* leaf on page q.
RemoveFromInternal_Mutant(s, p, i, q) ==       \* the leaf keeps its item
    Write(s, p, [Get(s, p) EXCEPT !.items[i] = Last(Get(s, q).items)])
RemoveFromInternal(s, p, i, q) ==
    Write(Write(s, p, [Get(s, p) EXCEPT !.items[i] = Last(Get(s, q).items)]),
          q, [Get(s, q) EXCEPT !.items = Front(@)])

\* The loop of _remove over the ancestors: what it asks is whether a child has
\* become too big.
RebalanceAncestors(s, path) ==
    LET step(i, t) ==
            IF OverPopulated(Get(t, path[i + 1].page))
            THEN RebalanceAfterRemove(t, path[i].page, path[i].at) ELSE t
    IN  FoldRightDomain(step, Front(path), s)

\* Container::_remove of a key the tree holds.  A root that has lost its last
\* item gives way to its only child, which becomes meta->root as well.
RemoveFromTree(s, root, k) ==
    LET path == Path(s, root, k)
        p == Last(path).page
        i == Last(path).at
        below == IF IsLeaf(Get(s, p)) THEN <<>> ELSE PredecessorPath(s, Get(s, p).kids[i])
        removed == IF below = <<>> THEN RemoveFromLeaf(s, p, i)
                   ELSE RemoveFromInternal(s, p, i, Last(below).page)
        balanced == RebalanceAncestors(removed, path \o below)
        rootNode == RootHeld(s, balanced, root, path)
    IN  IF rootNode.items = <<>> /\ ~IsLeaf(rootNode)
        THEN LET child == Head(Get(balanced, root).kids)
             IN  [state |-> [Delete(balanced, root) EXCEPT !.metaRoot = child],
                  root |-> child]
        ELSE [state |-> balanced, root |-> root]

-----------------------------------------------------------------------------
\* The pages of the tree below p, in order, and its items, in order.
PagesBelow(s, p) ==
    LET from[q \in AllPages(s)] ==
            <<q>> \o FlattenSeq([i \in DOMAIN Get(s, q).kids |-> from[Get(s, q).kids[i]]])
    IN  from[p]

ItemsBelow(s, p) ==
    LET from[q \in AllPages(s)] ==
            LET n == Get(s, q)
            IN  IF IsLeaf(n) THEN n.items
                ELSE FlattenSeq([i \in DOMAIN n.kids |->
                         from[n.kids[i]] \o SubSeq(n.items, i, IF i <= Len(n.items) THEN i ELSE 0)])
    IN  from[p]

\* ... and its items, in no order.
ItemSet(s, p) ==
    LET from[q \in AllPages(s)] ==
            Range(Get(s, q).items) \cup UNION {from[c] : c \in Range(Get(s, q).kids)}
    IN  from[p]

\* The levels of leaves below p.
LeafLevels(s, p) ==
    LET from[q \in AllPages(s)] ==
            IF IsLeaf(Get(s, q)) THEN {0}
            ELSE {1 + d : d \in UNION {from[c] : c \in Range(Get(s, q).kids)}}
    IN  from[p]

\* Serialization writes a child before each item and one after the last, so a
\* node that is written needs that many.
ChildPerGap(n) == IsLeaf(n) \/ Len(n.kids) = Len(n.items) + 1
-----------------------------------------------------------------------------
(***************************************************************************)
(* Trees of two levels, as all are while no node with children splits.     *)
(***************************************************************************)
\* The nodes a transaction sees, and all items in some nodes.
Nodes(s) == Overlaid(s.file, s.dirtyNodes)
AllItems(m) == UNION {Range(m[p].items) : p \in DOMAIN m}

\* The nodes m are those of the tree below root and no others: a leaf, or a
\* root with a leaf in each gap, ...
PlainItem == [key : Key, val : Value]
Shaped(m, root) ==
    /\ m \in [DOMAIN m -> [items : Seq(PlainItem), kids : Seq(DOMAIN m)]]
    /\ root \in DOMAIN m /\ \A p \in DOMAIN m \ {root} : IsLeaf(m[p])
    /\ IF IsLeaf(m[root]) THEN DOMAIN m = {root}
       ELSE /\ ChildPerGap(m[root]) /\ IsInjective(m[root].kids)
            /\ Range(m[root].kids) = DOMAIN m \ {root}

\* ... and a root with children has items, but while it is being grown.
Tree(m, root) == Shaped(m, root) /\ (IsLeaf(m[root]) \/ m[root].items # <<>>)

\* Items ascend in each node, and each of the root's is between two leaves.
Sorted(items) == \A i, j \in DOMAIN items : i < j => items[i].key < items[j].key
Ordered(m, root) ==
    /\ \A p \in DOMAIN m : Sorted(m[p].items)
    /\ \A i \in DOMAIN m[root].kids, j \in DOMAIN m[root].items :
       \A x \in Range(m[m[root].kids[i]].items) :
           IF j < i THEN m[root].items[j].key < x.key ELSE x.key < m[root].items[j].key

\* Items small enough for their strings to survive a split, and for both halves
\* of a leaf that one of them made too big to fit.
ItemsFit ==
    LET weight(v) == OffsetSize + LengthsSize + Bytes[v]
    IN  /\ HeaderSize <= MinThreshold /\ MinThreshold <= MaxThreshold
        /\ \A u, v \in Value :
               /\ Bytes[v] <= SmallStrings
               /\ HeaderSize + weight(v) <= MinThreshold + weight(u)
               /\ MinThreshold + weight(v) <= MaxThreshold
               /\ MinThreshold + 2 * weight(v) <= MaxThreshold + 3 * weight(u)
=============================================================================
