----------------------------- MODULE Collection -----------------------------
(***************************************************************************)
(* A collection and its documents as a client of the library uses them in  *)
(* write transactions: Tx::getCollection and removeCollection,             *)
(* Collection::document and removeDoc, Document::put and remove            *)
(* (db/containers, db/tx/tx.cpp).                                          *)
(*                                                                         *)
(* The collection has a B-tree with a record [root, count] per document,   *)
(* each document a B-tree of values, all on pages of one file.  The client *)
(* works through handles, objects with a root and a count of their own     *)
(* that were read from a record once; several can stand for one document,  *)
(* and a handle outlives its document.  Steps are whole calls, because     *)
(* the write lock lets one transaction run at a time.                      *)
(***************************************************************************)
EXTENDS BTree

CONSTANTS
    Name,        \* names of documents, keys of the collection's tree
    DocumentKey, \* keys of the documents' trees
    Text,        \* values a client puts
    KeysFor,     \* bound: document -> keys a client puts in it
    Handle,      \* the document handles a client keeps
    None,        \* no handle
    CountRange,  \* _elemCount is unsigned and counts modulo this, 2^64
    MaxInt,      \* the largest number stoi returns
    MaxPages,    \* bound: largest page number handed out
    MaxTx,       \* bound: transactions
    MaxLost,     \* bound: pages that removals leave behind
    Situation    \* what a client does in this instance although the code fails in it

\* The situations:
\*   documentsSplit  the root of the collection's tree splits
\*   twoHandles      two handles of a document are open at once
\*   staleHandle     a handle is used after its document was removed
Situations == {"documentsSplit", "twoHandles", "staleHandle"}

\* Page 2 is the root of the tree of collections, which is not part of this
\* module: the record of the collection in it is a variable.
CollectionsRoot == 2
Page == CollectionsRoot + 1 .. MaxPages
Record == [root : Page, count : 0 .. CountRange - 1]

\* The id of the temporary handles that _getRootDoc makes, before every name.
NoName == 0

ASSUME CollectionAssumption ==
    /\ Name \cup DocumentKey \cup {NoName} \subseteq Key
    /\ \A d \in Name : d > NoName
    /\ KeysFor \in [Name -> SUBSET DocumentKey]
    /\ Text \cup Record \subseteq Value /\ Garbled \notin Value
    /\ CountRange \in Nat /\ MaxInt \in Nat /\ MaxInt + 1 < CountRange
    /\ MaxPages \in Nat /\ CollectionsRoot <= MaxPages
    /\ MaxTx \in Nat /\ MaxLost \in Nat
    /\ Situation \subseteq Situations

VARIABLES
    tx,      \* what the transaction works on, see module BTree
    listed,  \* the root in the record of the collection, {} if there is none
    savedListed, \* ... in the file
    coll,    \* the root in the handle of the collection, None if there is none
    docs,    \* the handles of documents
    ended,   \* transactions that have ended
    commits  \* ... by a commit

vars == <<tx, listed, savedListed, coll, docs, ended, commits>>

NoHandles == [h \in Handle |-> None]

Init ==
    /\ tx = [file |-> <<>>, dirtyNodes |-> <<>>,
             pagesToDelete |-> <<>>, allocatedPages |-> <<>>,
             fl |-> [EmptyFreeList EXCEPT !.maxPage = CollectionsRoot],
             metaRoot |-> CollectionsRoot]
    /\ listed = {} /\ savedListed = {}
    /\ coll = None /\ docs = NoHandles
    /\ ended = 0 /\ commits = 0
-----------------------------------------------------------------------------
Rec(root, count) == [root |-> root, count |-> count]

Minus1(count) == (count + CountRange - 1) % CountRange
Plus1(count) == (count + 1) % CountRange

\* _put of a record in the collection's tree, on a temporary handle of the root
\* that the handle of the collection has.  A new item makes the temporary one
\* count to 1 and write itself, which may be new in turn.  A split of the root
\* allocates pages.
PutRecord(s, id, record) ==
    LET name(i) == IF i = 1 THEN id ELSE NoName
        value(i, root) == IF i = 1 THEN record ELSE Rec(root, 1)
        putNext(r, i) ==
            IF r.newItem THEN PutInTree(r.state, coll, name(i), value(i, r.root)) ELSE r
        asked == [state |-> s, root |-> coll, newItem |-> TRUE]
    IN  \E r \in {FoldLeft(putNext, asked, <<1, 2, 3>>)} :
        /\ r.state.allocatedPages # s.allocatedPages => "documentsSplit" \in Situation
        /\ r.state.fl.maxPage <= MaxPages
        /\ tx' = r.state

\* The behaviour of the code is defined: see module Document.
Defined == \A p \in AllPages(tx) : ChildPerGap(Get(tx, p))
Removable(root, k) ==
    LET found == Last(Path(tx, root, k))
        n == Get(tx, found.page)
    IN  ~IsLeaf(n) => Get(tx, Last(PredecessorPath(tx, n.kids[found.at])).page).items # <<>>

Open(h) == docs[h] # None
Free(h) == docs[h] = None
-----------------------------------------------------------------------------
(***************************************************************************)
(* What the collection holds, from its root through the records of its     *)
(* documents.                                                              *)
(***************************************************************************)
Records(s, root) == {x \in ItemSet(s, root) : x.key # NoName}

Facts(s, roots) == UNION {UNION {
    {<<r.key>>} \cup {<<r.key, x.key, x.val>> : x \in ItemSet(s, r.val.root)}
        : r \in Records(s, root)} : root \in roots}

\* The pages of the collection's tree and of its documents', each as often as
\* a tree has it.
Used(s, root) ==
    FoldSet(LAMBDA r, pages : pages \o PagesBelow(s, r.val.root),
            PagesBelow(s, root), Records(s, root))
AllUsed(s, roots) == FoldSet(LAMBDA root, pages : pages \o Used(s, root), <<>>, roots)

\* The pages that were handed out and are in no tree and on no list.
Lost(s, roots) == (Page \cap 1 .. s.fl.maxPage)
    \ (Range(AllUsed(s, roots)) \cup Range(s.pagesToDelete) \cup Range(s.fl.releasedPages))
-----------------------------------------------------------------------------
\* Tx::getCollection, which makes the collection if there is none.
GetCollection ==
    /\ coll = None /\ ended < MaxTx
    /\ IF listed = {}
       THEN /\ CanAllocate(tx.fl, MaxPages)
            /\ tx' = WriteNew(tx, NewNode)
            /\ listed' = {NextPage(tx.fl)}
       ELSE UNCHANGED <<tx, listed>>
    /\ \E root \in listed' : coll' = root
    /\ UNCHANGED <<savedListed, docs, ended, commits>>

\* Tx::removeCollection and Collection::remove: the record goes, no page does.
RemoveCollection ==
    /\ coll # None
    /\ listed' = {}
    /\ Cardinality(Lost(tx, listed')) <= MaxLost
    /\ coll' = None /\ docs' = NoHandles
    /\ UNCHANGED <<tx, savedListed, ended, commits>>

MayOpen(d) == "twoHandles" \in Situation \/ \A h \in Handle : Open(h) => docs[h].id # d

\* Collection::document of a document that is there; stoi throws on a long
\* count.
OpenDocument(h, d) ==
    /\ coll # None /\ Free(h) /\ MayOpen(d)
    /\ \E x \in Lookup(tx, coll, d) :
        /\ x.val.count <= MaxInt
        /\ docs' = [docs EXCEPT ![h] = [id |-> d, root |-> x.val.root, count |-> x.val.count]]
    /\ UNCHANGED <<tx, listed, savedListed, coll, ended, commits>>

\* Collection::_newDoc: an empty node, and its record.
IsAbsent_Mutant(d) == TRUE                     \* document does not look it up
IsAbsent(d) == Lookup(tx, coll, d) = {}
NewNodeFor_Mutant(s) == [s EXCEPT !.dirtyNodes = (NextPage(s.fl) :> NewNode) @@ @]
NewNodeFor(s) == WriteNew(s, NewNode)

CreateDocument(h, d) ==
    /\ coll # None /\ Free(h) /\ MayOpen(d) /\ Defined
    /\ IsAbsent(d) /\ CanAllocate(tx.fl, MaxPages)
    /\ \E new \in {NextPage(tx.fl)}, s \in {NewNodeFor(tx)} :
        /\ PutRecord(s, d, Rec(new, 0))
        /\ docs' = [docs EXCEPT ![h] = [id |-> d, root |-> new, count |-> 0]]
    /\ UNCHANGED <<listed, savedListed, coll, ended, commits>>

\* Collection::removeDoc, also from Document::remove(), of a document that is
\* there.  The temporary handle counts down from 0 and writes itself.  The count
\* that the handle of the collection has, here as in all calls, is left out:
\* none of them reads or writes it to the file (Shell has the one that does).
DropsHandles(d) ==
    [h \in Handle |-> IF docs[h] # None /\ docs[h].id = d /\ "staleHandle" \notin Situation
                      THEN None ELSE docs[h]]
RemoveDoc(d) ==
    /\ coll # None /\ Defined
    /\ Lookup(tx, coll, d) # {} /\ Removable(coll, d)
    /\ \E r \in {RemoveFromTree(tx, coll, d)} :
           PutRecord(r.state, NoName, Rec(r.root, Minus1(0)))
    /\ Cardinality(Lost(tx', listed)) <= MaxLost
    /\ docs' = DropsHandles(d)
    /\ UNCHANGED <<listed, savedListed, coll, ended, commits>>
-----------------------------------------------------------------------------
\* Container::_incCount and _decCount with Document::_write: the record of the
\* handle is put in the collection's tree.
WriteHandle(s, handle) == PutRecord(s, handle.id, Rec(handle.root, handle.count))

\* The count of the handle h after the put r.
Counted_Mutant(h, r) == Plus1(docs[h].count)   \* also when a value is replaced
Counted(h, r) == IF r.newItem THEN Plus1(docs[h].count) ELSE docs[h].count

\* Document::put.
PutKey(h, k, v) ==
    /\ Open(h) /\ k \in KeysFor[docs[h].id] /\ Defined
    /\ \E r \in {PutInTree(tx, docs[h].root, k, v)} :
       \E handle \in {[docs[h] EXCEPT !.root = r.root, !.count = Counted(h, r)]} :
        /\ r.state.fl.maxPage <= MaxPages
        /\ IF r.newItem THEN WriteHandle(r.state, handle) ELSE tx' = r.state
        /\ docs' = [docs EXCEPT ![h] = handle]
    /\ UNCHANGED <<listed, savedListed, coll, ended, commits>>

\* Document::remove(key) of a key that is there; of another it does nothing.
RemoveKey(h, k) ==
    /\ Open(h) /\ Defined
    /\ Lookup(tx, docs[h].root, k) # {} /\ Removable(docs[h].root, k)
    /\ \E r \in {RemoveFromTree(tx, docs[h].root, k)} :
       \E handle \in {[docs[h] EXCEPT !.root = r.root, !.count = Minus1(@)]} :
        /\ WriteHandle(r.state, handle)
        /\ docs' = [docs EXCEPT ![h] = handle]
    /\ UNCHANGED <<listed, savedListed, coll, ended, commits>>
-----------------------------------------------------------------------------
\* Tx::clean, and the handles of the transaction go with it.
Ended(s) ==
    /\ tx' = [s EXCEPT !.dirtyNodes = <<>>, !.pagesToDelete = <<>>, !.allocatedPages = <<>>]
    /\ coll' = None /\ docs' = NoHandles
    /\ ended' = ended + 1

\* Tx::commit.
Commit_Mutant ==                               \* only new pages are written
    /\ coll # None /\ Defined
    /\ Ended([tx EXCEPT !.file = @ @@ tx.dirtyNodes,
                        !.fl = ReleasePages(@, tx.pagesToDelete)])
    /\ savedListed' = listed /\ commits' = commits + 1
    /\ UNCHANGED listed
Commit ==
    /\ coll # None /\ Defined
    /\ Ended([tx EXCEPT !.file = tx.dirtyNodes @@ @,
                        !.fl = ReleasePages(@, tx.pagesToDelete)])
    /\ savedListed' = listed /\ commits' = commits + 1
    /\ UNCHANGED listed

\* Tx::rollback.
Rollback ==
    /\ coll # None
    /\ Ended([tx EXCEPT !.fl = ReleasePages(@, tx.allocatedPages)])
    /\ listed' = savedListed
    /\ UNCHANGED <<savedListed, commits>>

Next ==
    \/ GetCollection \/ RemoveCollection
    \/ \E d \in Name :
        \/ RemoveDoc(d)
        \/ \E h \in Handle : OpenDocument(h, d) \/ CreateDocument(h, d)
    \/ \E h \in Handle, k \in DocumentKey :
        RemoveKey(h, k) \/ \E v \in Text : PutKey(h, k, v)
    \/ Commit \/ Rollback

Spec == Init /\ [][Next]_vars
-----------------------------------------------------------------------------
(***************************************************************************)
(* Properties                                                              *)
(***************************************************************************)
\* An open handle has the root and the count of its document's record, and the
\* count in every record is the number of items: what one handle does, by puts,
\* splits and removes, another that is opened later finds.
HandlesCurrent ==
    /\ \A h \in Handle : Open(h) =>
           Lookup(tx, coll, docs[h].id)
               = {[key |-> docs[h].id, val |-> Rec(docs[h].root, docs[h].count)]}
    /\ \A root \in listed : \A r \in Records(tx, root) :
           r.val.count = Len(ItemsBelow(tx, r.val.root))

\* Two trees never share a page, and no page of a tree is on the free list.
OwnTrees == IsInjective(AllUsed(tx, listed) \o tx.pagesToDelete \o tx.fl.releasedPages)

\* Pages are lost with the documents and collections that are removed, whose
\* trees are not freed, and by nothing else: no put, split, commit or rollback
\* loses one.
RemovedWith(root) ==
    IF root \notin listed' THEN Range(Used(tx, root))
    ELSE UNION {Range(PagesBelow(tx, r.val.root)) :
                    r \in {x \in Records(tx, root) : Lookup(tx', root, x.key) = {}}}
RemovalAloneLosesPages == [][
    Lost(tx', listed') \subseteq Lost(tx, listed) \cup UNION {RemovedWith(root) : root \in listed}
    ]_vars

Store == INSTANCE CollectionStore WITH
    Key <- DocumentKey, Value <- Text,
    facts <- Facts(tx, listed),
    saved <- Facts([tx EXCEPT !.dirtyNodes = <<>>], savedListed),
    commits <- commits

\* The collection is what its interface promises: what can be found in it and
\* in its documents changes with each call as a map of maps does, and a
\* transaction keeps or loses its changes as a whole.
ImplementsCollection == Store!Spec
=============================================================================
