----------------------------- MODULE BTreeNode -----------------------------
(***************************************************************************)
(* One node of a B-tree, dal/node/node.cpp: its items and children, its    *)
(* size in bytes, the search inside it, and how it is split.  A node is a  *)
(* record [items, kids]: items is a sequence of [key, val] and kids a      *)
(* sequence of page numbers, empty in a leaf.  Sequences start at 1 and    *)
(* the vectors of the code at 0, so an index here is one more than there.  *)
(***************************************************************************)
EXTENDS Integers, FiniteSetsExt, SequencesExt

CONSTANTS
    Key,           \* keys, integers: std::string::compare is a total order
    Value,         \* values of items
    Bytes,         \* value -> bytes of an item's key and value together
    Garbled,       \* the value read from an item that was destroyed
    MaxThreshold,  \* Dal::nodeMaxThreshold, rounded down to bytes
    MinThreshold   \* Dal::nodeMinThreshold, rounded up to bytes

ASSUME NodeAssumption ==
    /\ Key \subseteq Int
    /\ Bytes \in [Value \cup {Garbled} -> Nat]
    /\ MaxThreshold \in Nat /\ MinThreshold \in Nat

Item == [key : Key, val : Value \cup {Garbled}]

\* Layout of a node's page (Node::size, Node::itemSize).
HeaderSize == 3     \* NODE_HEADER_SIZE
OffsetSize == 2     \* an __int16
LengthsSize == 2    \* two chars
PointerSize == 8    \* a pgnum

\* A std::string of up to 15 bytes lives in the string object itself; this is
\* two of them, the key and the value.
SmallStrings == 30

NewNode == [items |-> <<>>, kids |-> <<>>]

IsLeaf(n) == n.kids = <<>>
Keys(n) == {n.items[i].key : i \in DOMAIN n.items}

ItemSize(n, i) ==
    OffsetSize + LengthsSize + Bytes[n.items[i].val]
        + (IF IsLeaf(n) THEN 0 ELSE PointerSize)

\* The size of a node's header and first j items.
SizeUpTo(n, j) == HeaderSize + MapThenSumSet(LAMBDA i : ItemSize(n, i), 1 .. j)

Size(n) == SizeUpTo(n, Len(n.items)) + (IF IsLeaf(n) THEN 0 ELSE PointerSize)

OverPopulated(n) == Size(n) > MaxThreshold

-----------------------------------------------------------------------------
Holds(n, k) == k \in Keys(n)

\* Node::findKeyInNode: the index of the key, or where it would be inserted.
\* The code finds it by binary search, module FindKeyInNode.
Slot(n, k) == 1 + Cardinality({i \in DOMAIN n.items : n.items[i].key < k})

AddItem(n, i, item) == [n EXCEPT !.items = InsertAt(@, i, item)]

-----------------------------------------------------------------------------
\* Dal::getSplitIndex: the first index that leaves enough on its left, if
\* there are items on its right, and the middle otherwise.
SplitIndex(n) ==
    LET enough == {i \in 1 .. Len(n.items) - 2 : SizeUpTo(n, i) >= MinThreshold}
    IN  1 + (IF enough # {} THEN Min(enough) ELSE Len(n.items) \div 2)

\* Node::canSpareAnElement, the flag of Dal::getSplitIndex.
CanSpareAnElement(n) == SizeUpTo(n, Len(n.items) - 1) >= MinThreshold

\* An item as it reads after vector::erase has destroyed it: a string longer
\* than its own buffer has been freed.
Destroyed(item) ==
    IF Bytes[item.val] <= SmallStrings THEN item ELSE [item EXCEPT !.val = Garbled]

\* Node::split: what stays in the node that is split (its children are cut one
\* too far to the left), ...
LeftHalf(n) ==
    LET s == SplitIndex(n)
    IN  [items |-> SubSeq(n.items, 1, s - 1),
         kids |-> IF IsLeaf(n) THEN <<>> ELSE SubSeq(n.kids, 1, s - 1)]

\* ... what goes to the new node, ...
RightHalf(n) ==
    LET s == SplitIndex(n)
    IN  [items |-> SubSeq(n.items, s + 1, Len(n.items)),
         kids |-> IF IsLeaf(n) THEN <<>> ELSE SubSeq(n.kids, s + 1, Len(n.kids))]

\* ... and the item that goes to the parent, read through a reference into the
\* vector after it was erased from it.
Middle(n) == Destroyed(n.items[SplitIndex(n)])
-----------------------------------------------------------------------------
\* What a sibling keeps when it gives its last or its first item away, and the
\* child beside it if it is not a leaf (Node::borrowFromLeft, borrowFromRight).
WithoutLast(n) ==
    [items |-> Front(n.items), kids |-> IF IsLeaf(n) THEN <<>> ELSE Front(n.kids)]
WithoutFirst_Mutant(n) == [n EXCEPT !.items = Tail(@)] \* the child stays
WithoutFirst(n) ==
    [items |-> Tail(n.items), kids |-> IF IsLeaf(n) THEN <<>> ELSE Tail(n.kids)]
=============================================================================
