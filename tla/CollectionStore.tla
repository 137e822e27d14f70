-------------------------- MODULE CollectionStore --------------------------
(***************************************************************************)
(* What a collection promises (db/containers/containers.h, classes         *)
(* Collection and Document): documents by name, each a map, changed in a   *)
(* transaction that is committed or rolled back.  There are no trees, no   *)
(* pages and no handles here.                                              *)
(***************************************************************************)
EXTENDS Naturals

CONSTANTS Name, Key, Value

VARIABLES
    facts,   \* <<d>> for a document, <<d, k, v>> for an item in it
    saved,   \* the facts as of the last commit
    commits  \* how many commits there were

vars == <<facts, saved, commits>>

Init == facts = {} /\ saved = {} /\ commits = 0

\* The calls, as what they make of the facts f.
Of(f, d) == {x \in f : x[1] = d}
ItemsOf(f, d, k) == {x \in Of(f, d) : x # <<d>> /\ x[2] = k}

\* "Returns a document in this collection with the provided name."
Open(f, d) == f \cup {<<d>>}

\* "If it already exists it will be overridden."
Put(f, d, k, v) == (f \ ItemsOf(f, d, k)) \cup {<<d, k, v>>}

\* "If key doesn't exist, it will do nothing."
Remove(f, d, k) == f \ ItemsOf(f, d, k)

\* "Removes this document from its parent collection."
RemoveDoc(f, d) == f \ Of(f, d)

Call(old, new) ==
    \/ new = {}                                \* "Deletes this collection."
    \/ \E d \in Name :
        \/ new \in {Open(old, d), RemoveDoc(old, d)}
        \/ <<d>> \in old /\ \E k \in Key :
               new = Remove(old, d, k) \/ \E v \in Value : new = Put(old, d, k, v)

Commit == saved' = facts /\ commits' = commits + 1 /\ UNCHANGED facts
Rollback == facts' = saved /\ UNCHANGED <<saved, commits>>

Next ==
    \/ /\ \E old \in {facts}, new \in {facts'} : Call(old, new)
       /\ UNCHANGED <<saved, commits>>
    \/ Commit \/ Rollback

Spec == Init /\ [][Next]_vars
=============================================================================
