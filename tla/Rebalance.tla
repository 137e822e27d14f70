----------------------------- MODULE Rebalance -----------------------------
(***************************************************************************)
(* Node::rebalanceAfterRemove (dal/node/node.cpp) on its own: a node, its  *)
(* children, and one child that a removal has left below the minimum.      *)
(* Container::_remove asks isOverPopulated before it calls it, so module   *)
(* Document never gets here; this is the method in the situation its       *)
(* comment describes, "after _remove was performed".                       *)
(***************************************************************************)
EXTENDS BTree

CONSTANTS
    MaxKids,       \* bound: children of the node
    MaxChildItems  \* bound: items of a child

VARIABLES
    tx,       \* what the transaction works on, see module BTree
    at,       \* the index of the unbalanced child
    balanced  \* rebalanceAfterRemove has returned

rebalanceVars == <<tx, at, balanced>>

\* The node is on page 1, its children on the pages after it.  Keys, and the
\* pages below the children, are numbered from left to right.
NodePage == 1
Separator == 9
Number(i, j) == 10 * i + j
NewItem(i, j, v) == [key |-> Number(i, j), val |-> v]

\* The child at index i, with items of these values.
Child(i, vals, leaf) ==
    [items |-> [j \in DOMAIN vals |-> NewItem(i, j, vals[j])],
     kids |-> IF leaf THEN <<>> ELSE [j \in 1 .. Len(vals) + 1 |-> Number(i, j)]]

\* Filled as Options asks for, and short of that by one item.
Filled(n) == MinThreshold <= Size(n) /\ Size(n) <= MaxThreshold
MissesOne(n) ==
    /\ Size(n) < MinThreshold
    /\ \E v \in Value : Filled([n EXCEPT !.items = Append(@, NewItem(0, 0, v))])

RebalanceInit ==
    \E m \in 2 .. MaxKids, leaf \in BOOLEAN : \E vals \in [1 .. m -> SeqOf(Value, MaxChildItems)] :
        LET child == [i \in 1 .. m |-> Child(i, vals[i], leaf)]
            node(separators) ==
                [items |-> [i \in 1 .. m - 1 |-> NewItem(i, Separator, separators[i])],
                 kids |-> [i \in 1 .. m |-> NodePage + i]]
        IN  /\ at \in 1 .. m
            /\ MissesOne(child[at]) /\ \A i \in 1 .. m \ {at} : Filled(child[i])
            /\ balanced = FALSE
            /\ \E n \in {node(separators) : separators \in [1 .. m - 1 -> Value]} :
                   tx = [file |-> Placed([p \in Range(n.kids) |-> child[p - NodePage]], NodePage, n),
                         dirtyNodes |-> <<>>, pagesToDelete |-> <<>>, allocatedPages |-> <<>>,
                         fl |-> EmptyFreeList, metaRoot |-> NodePage]

Run ==
    /\ ~balanced
    /\ tx' = RebalanceAfterRemove(tx, NodePage, at)
    /\ balanced' = TRUE
    /\ UNCHANGED at

RebalanceSpec == RebalanceInit /\ [][Run]_rebalanceVars
-----------------------------------------------------------------------------
Kids(s) == Get(s, NodePage).kids

\* The items below the node and the pages below its children, left to right.
InOrder(s) == FlattenSeq([i \in DOMAIN Kids(s) |-> Get(s, Kids(s)[i]).items
                             \o SubSeq(Get(s, NodePage).items, i, Min({i, Len(Kids(s)) - 1}))])
Below(s) == FlattenSeq([i \in DOMAIN Kids(s) |-> Get(s, Kids(s)[i]).kids])
OnDisk == [tx EXCEPT !.dirtyNodes = <<>>]

\* Borrowing and merging lose, repeat and reorder no item and no subtree, and
\* leave a child for each gap.
OrderKept ==
    /\ InOrder(tx) = InOrder(OnDisk) /\ Below(tx) = Below(OnDisk)
    /\ \A p \in Range(Kids(tx)) \cup {NodePage} : ChildPerGap(Get(tx, p))

\* A child is in the node or will be deleted, never both or neither.
ChildrenAccounted ==
    /\ IsInjective(Kids(tx) \o tx.pagesToDelete)
    /\ Range(Kids(tx) \o tx.pagesToDelete) = Range(Kids(OnDisk))
=============================================================================
