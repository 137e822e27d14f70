----------------------------- MODULE Containers -----------------------------
(***************************************************************************)
(* Collections and documents above their trees: Tx::getCollection and      *)
(* createCollection (db/tx/tx.cpp), Collection::document, _newDoc and      *)
(* _write, Document::_write (db/containers).  The operators take and       *)
(* return a database, a record                                             *)
(*   trees   root page -> what the container's tree holds, by name         *)
(*   fl      the free list                                                 *)
(* The tree of the database holds a record [root, count] per collection,   *)
(* that of a collection one per document, that of a document values.  A    *)
(* tree is the map that module Document shows it to be; it is too small    *)
(* here for its root to split, so a container keeps its root page.         *)
(***************************************************************************)
EXTENDS FreeList

CONSTANTS
    CountRange,  \* _elemCount is unsigned and counts modulo this, 2^64
    MaxInt       \* the largest number stoi returns

ASSUME CountAssumption ==
    CountRange \in Nat /\ MaxInt \in Nat /\ MaxInt + 1 < CountRange

\* Page 1 is the free list, page 2 the root of the collections.
CollectionsRoot == 2

\* The id of the temporary handles that _getRootCollection and _getRootDoc
\* make; they store themselves under it as well.
NoName == ""

EmptyDatabase == [trees |-> [p \in {CollectionsRoot} |-> <<>>],
                  fl |-> [EmptyFreeList EXCEPT !.maxPage = CollectionsRoot]]

\* The map m with x under k, in place of what was there.
With(m, k, x) == [j \in DOMAIN m \cup {k} |-> IF j = k THEN x ELSE m[j]]

Has(db, root, name) == name \in DOMAIN db.trees[root]
Set(db, root, name, x) == [db EXCEPT !.trees[root] = With(@, name, x)]
Unset(db, root, name) == [db EXCEPT !.trees[root] = Restrict(@, DOMAIN @ \ {name})]
-----------------------------------------------------------------------------
\* Container::_put of the record of the handle h on the temporary handle of the
\* tree on page `root' (_write).  A new item makes that handle count to one and
\* write itself.
StoreRecord(db, root, h) ==
    LET stored == Set(db, root, h.id, [root |-> h.root, count |-> h.count])
    IN  IF Has(db, root, h.id) THEN stored
        ELSE Set(stored, root, NoName, [root |-> root, count |-> 1])

\* Collection::_newDoc and Tx::createCollection: an empty tree, and its record
\* in the tree on page `root'.
NewContainer_NoNode(db, root, id) ==           \* mutant: no node is written
    LET h == [id |-> id, root |-> NextPage(db.fl), count |-> 0]
    IN  [db |-> StoreRecord([db EXCEPT !.fl = AfterNextPage(@)], root, h), handle |-> h]
NewContainer_NoPage(db, root, id) ==           \* mutant: the page is not taken
    LET h == [id |-> id, root |-> NextPage(db.fl), count |-> 0]
        allocated == [db EXCEPT !.trees = With(@, h.root, <<>>)]
    IN  [db |-> StoreRecord(allocated, root, h), handle |-> h]
NewContainer(db, root, id) ==
    LET h == [id |-> id, root |-> NextPage(db.fl), count |-> 0]
        allocated == [trees |-> With(db.trees, h.root, <<>>), fl |-> AfterNextPage(db.fl)]
    IN  [db |-> StoreRecord(allocated, root, h), handle |-> h]

\* stoi throws std::out_of_range, which nothing catches, on a longer count.
Readable(db, root, id) == Has(db, root, id) => db.trees[root][id].count <= MaxInt

\* Container::deserialize.
Opened(db, root, id) ==
    [id |-> id, root |-> db.trees[root][id].root, count |-> db.trees[root][id].count]

\* Collection::document and Tx::getCollection, with createIfAbsent.
OpenOrCreate_Mutant(db, root, id) == NewContainer(db, root, id)  \* always new
OpenOrCreate(db, root, id) ==
    IF Has(db, root, id) THEN [db |-> db, handle |-> Opened(db, root, id)]
    ELSE NewContainer(db, root, id)

\* Container::_put on the handle h, whose record is in the tree on page `root'.
PutItem_Mutant(db, root, h, name, x) ==        \* counts a replaced item again
    LET counted == [h EXCEPT !.count = (@ + 1) % CountRange]
    IN  [db |-> StoreRecord(Set(db, h.root, name, x), root, counted), handle |-> counted]
PutItem(db, root, h, name, x) ==
    LET counted == [h EXCEPT !.count = (@ + 1) % CountRange]
        put == Set(db, h.root, name, x)
    IN  IF Has(db, h.root, name) THEN [db |-> put, handle |-> h]
        ELSE [db |-> StoreRecord(put, root, counted), handle |-> counted]

\* Container::_remove; a name that is not there is no change.
RemoveItem_Mutant(db, root, h, name) ==        \* the handle is not written
    [db |-> Unset(db, h.root, name), handle |-> [h EXCEPT !.count = (@ + CountRange - 1) % CountRange]]
RemoveItem(db, root, h, name) ==
    LET counted == [h EXCEPT !.count = (@ + CountRange - 1) % CountRange]
    IN  IF Has(db, h.root, name)
        THEN [db |-> StoreRecord(Unset(db, h.root, name), root, counted), handle |-> counted]
        ELSE [db |-> db, handle |-> h]
-----------------------------------------------------------------------------
\* The names in a tree that stand for collections or documents.
Names(db, root) == DOMAIN db.trees[root] \ {NoName}
RootOf(db, root, id) == db.trees[root][id].root

\* What the database says, as tuples: <<c>> for each collection, <<c, d>> for
\* each document in it, <<c, d, k, v>> for each value.
Facts(db) ==
    LET docs(c) == RootOf(db, CollectionsRoot, c)
        values(c, d) == db.trees[RootOf(db, docs(c), d)]
    IN  UNION {
            {<<c>>} \cup UNION {
                {<<c, d>>} \cup {<<c, d, k, values(c, d)[k]>> : k \in DOMAIN values(c, d)}
                    : d \in Names(db, docs(c))}
                : c \in Names(db, CollectionsRoot)}
=============================================================================
