--------------------------- MODULE FindKeyInNode ---------------------------
(***************************************************************************)
(* The binary search inside a node, Node::findKeyInNode                    *)
(* (dal/node/node.cpp), step by step.  Indices start at 0 as in the code.  *)
(* The tree's modules use its result, Slot and Holds of BTreeNode, where   *)
(* an index is one more than here.                                         *)
(***************************************************************************)
EXTENDS BTreeNode

CONSTANTS
    SearchKey,  \* bound: keys of items and keys searched for
    MaxItems    \* bound: items in the node

ASSUME SearchAssumption == SearchKey \subseteq Key /\ MaxItems \in Nat

VARIABLES
    size,      \* items.size()
    items,     \* index -> key of the item there
    key,       \* what is searched for
    leftPos, rightPos, mid,
    cmpRes,    \* what std::string::compare returned: its sign
    idx,       \* the index returned
    result     \* "searching", then whether the key was "found" or "missing"

vars == <<size, items, key, leftPos, rightPos, mid, cmpRes, idx, result>>

Ascending(s) == \A i, j \in DOMAIN s : i < j => s[i] < s[j]

LastIndex == size - 1

Init ==
    /\ size \in 0 .. MaxItems
    /\ items \in [0 .. size - 1 -> SearchKey] /\ Ascending(items)
    /\ key \in SearchKey
    /\ leftPos = 0 /\ rightPos = LastIndex
    /\ mid = 0 /\ cmpRes = 1
    /\ idx = 0
    /\ result = "searching"

\* std::string::compare, of the item with the key.
Compare(a, b) == IF a < b THEN -1 ELSE IF a > b THEN 1 ELSE 0

\* The right end of the left half.
EndOfLeftHalf_Mutant(m) == m                   \* the middle stays in it
EndOfLeftHalf(m) == m - 1

\* One turn of the loop: the item in the middle is the one, or the search goes
\* on to the left of it, or to the right.
Probe ==
    /\ result = "searching" /\ leftPos <= rightPos
    /\ mid' = (leftPos + rightPos) \div 2
    /\ cmpRes' = Compare(items[mid'], key)
    /\ \/ /\ cmpRes' = 0
          /\ idx' = mid' /\ result' = "found"
          /\ UNCHANGED <<leftPos, rightPos>>
       \/ /\ cmpRes' > 0
          /\ rightPos' = EndOfLeftHalf(mid')
          /\ UNCHANGED <<leftPos, idx, result>>
       \/ /\ cmpRes' < 0
          /\ leftPos' = mid' + 1
          /\ UNCHANGED <<rightPos, idx, result>>
    /\ UNCHANGED <<size, items, key>>

\* Where the key would be inserted, from the last comparison.
InsertionIndex_Mutant == mid
InsertionIndex == IF cmpRes > 0 THEN mid ELSE mid + 1

\* The loop is over.
GiveUp ==
    /\ result = "searching" /\ leftPos > rightPos
    /\ idx' = InsertionIndex
    /\ result' = "missing"
    /\ UNCHANGED <<size, items, key, leftPos, rightPos, mid, cmpRes>>

Next == Probe \/ GiveUp

Spec == Init /\ [][Next]_vars /\ WF_vars(Next)
-----------------------------------------------------------------------------
\* Type invariant: the positions stay inside the vector, or one beside it.
TypeOK ==
    /\ size \in Nat
    /\ items \in [0 .. size - 1 -> SearchKey] /\ Ascending(items)
    /\ key \in SearchKey
    /\ leftPos \in 0 .. size /\ rightPos \in -1 .. size - 1
    /\ mid \in 0 .. size /\ idx \in 0 .. size
    /\ cmpRes \in -1 .. 1
    /\ result \in {"searching", "found", "missing"}

\* The node that is searched, as module BTreeNode has it.  The values of its
\* items play no part.
Searched ==
    [items |-> [i \in 1 .. size |-> [key |-> items[i - 1], val |-> Garbled]], kids |-> <<>>]

\* The search answers what the tree's modules take its answer to be: the key is
\* found if and only if the node holds it, and the index returned is its place,
\* after all the smaller keys.
SearchIsRight ==
    result # "searching" =>
        /\ (result = "found") <=> Holds(Searched, key)
        /\ idx + 1 = Slot(Searched, key)

\* The items the search has ruled out, and what the last comparison says of
\* the gap that is left when the loop ends.
Window ==
    /\ leftPos <= rightPos + 1
    /\ \A i \in DOMAIN items : i < leftPos => items[i] < key
    /\ \A i \in DOMAIN items : i > rightPos => items[i] > key
    /\ result = "searching" =>
        \/ leftPos = 0 /\ mid = 0 /\ cmpRes = 1 /\ rightPos = size - 1
        \/ cmpRes > 0 /\ mid = rightPos + 1
        \/ cmpRes < 0 /\ mid = leftPos - 1

\* Every probe takes at least one item out of the window, so a search ends.
SearchEnds == <>(result # "searching")
=============================================================================
