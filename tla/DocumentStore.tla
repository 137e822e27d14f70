--------------------------- MODULE DocumentStore ---------------------------
(***************************************************************************)
(* What a document promises (db/containers/containers.h, class Document):  *)
(* get, put and remove by key in a transaction that is committed or rolled *)
(* back.  There are no nodes and no pages here.                            *)
(***************************************************************************)
CONSTANTS Key, Value

VARIABLES
    items,  \* the items [key, val], as the transaction sees the document
    saved   \* the items as of the last commit

vars == <<items, saved>>

Init == items = {} /\ saved = {}

Without(k) == {x \in items : x.key # k}

Put(k, v) ==
    /\ items' = Without(k) \cup {[key |-> k, val |-> v]}
    /\ UNCHANGED saved

\* "If key doesn't exist, it will do nothing."
Remove(k) ==
    /\ items' = Without(k)
    /\ UNCHANGED saved

Commit ==
    /\ saved' = items
    /\ UNCHANGED items

Rollback ==
    /\ items' = saved
    /\ UNCHANGED saved

Next ==
    \/ \E k \in Key, v \in Value : Put(k, v)
    \/ \E k \in Key : Remove(k)
    \/ Commit
    \/ Rollback

Spec == Init /\ [][Next]_vars
=============================================================================
