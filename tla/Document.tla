------------------------------ MODULE Document ------------------------------
(***************************************************************************)
(* One document in write transactions: Document::put and remove            *)
(* (db/containers), which change its B-tree and the record of the document *)
(* in its collection, and Tx::commit and Tx::rollback (db/tx/tx.cpp).      *)
(*                                                                         *)
(* The client holds a handle, the object Document.  What the collection    *)
(* keeps of a document is an item "root,count" that the handle is read     *)
(* from (Collection::document) and that _incCount and _decCount write.     *)
(* The write lock lets one transaction run at a time, so the steps here    *)
(* are whole calls; module Transactions has the lock and the steps of a    *)
(* commit.                                                                 *)
(***************************************************************************)
EXTENDS BTree

CONSTANTS
    MaxPages,   \* bound: largest page number handed out
    ValuesFor,  \* bound: key -> values a client puts under it
    Situation   \* what happens in this instance although the code fails in it

\* The situations, each one a defect of the code:
\*   internalOverflow     a node with children gets too big, by a put or by the
\*                        item that takes the place of a removed one
\*   overwriteSplitsRoot  a put that replaces a value splits the root
Situations == {"internalOverflow", "overwriteSplitsRoot"}

\* Page 1 holds the free list, page 2 the root of the collections, page 3 the
\* root of the collection's documents.
CollectionsRoot == 2
FirstRoot == 4

ASSUME DocumentAssumption ==
    /\ Garbled \notin Value
    /\ ValuesFor \in [Key -> SUBSET Value]
    /\ MaxPages \in Nat /\ FirstRoot <= MaxPages
    /\ Situation \subseteq Situations

VARIABLES
    tx,        \* what the transaction works on, see module BTree
    doc,       \* the handle: root and _elemCount of the Document
    item,      \* root and count in the collection, as the transaction sees it
    savedItem  \* ... and as it is in the file

vars == <<tx, doc, item, savedItem>>

\* Collection::_newDoc has been committed: one empty node, no elements.
NewDocument == [root |-> FirstRoot, count |-> 0]

Init ==
    /\ tx = [file |-> [p \in {FirstRoot} |-> NewNode], dirtyNodes |-> <<>>,
             pagesToDelete |-> <<>>, allocatedPages |-> <<>>,
             fl |-> [EmptyFreeList EXCEPT !.maxPage = FirstRoot],
             metaRoot |-> CollectionsRoot]
    /\ doc = NewDocument
    /\ item = NewDocument
    /\ savedItem = NewDocument
-----------------------------------------------------------------------------
\* The behaviour of the code is defined: a node is not written, and not walked
\* through, without a child for each gap.
Defined == \A p \in AllPages(tx) : ChildPerGap(Get(tx, p))

\* What the call r did to nodes with children: none was split, and none is
\* left too big.
SplitsLeavesOnly(r) ==
    /\ r.root # doc.root => IsLeaf(Get(r.state, doc.root))
    /\ \A p \in AllPages(r.state) :
           ~IsLeaf(Get(r.state, p)) => ~OverPopulated(Get(r.state, p))

\* Container::_incCount and _decCount: the handle counts and writes itself to
\* the collection; a put that replaces a value does neither.
Counted_Mutant(r) == doc.count + 1             \* also when a value is replaced
Counted(r) == IF r.newItem THEN doc.count + 1 ELSE doc.count
Stored(r) == IF r.newItem THEN doc' ELSE item

\* Document::put.
PutKey(k, v) ==
    /\ Defined
    /\ \E r \in {PutInTree(tx, doc.root, k, v)} :
        /\ r.state.fl.maxPage <= MaxPages
        /\ "internalOverflow" \notin Situation => SplitsLeavesOnly(r)
        /\ "overwriteSplitsRoot" \notin Situation => r.newItem \/ r.root = doc.root
        /\ tx' = r.state
        /\ doc' = [root |-> r.root, count |-> Counted(r)]
        /\ item' = Stored(r)
    /\ UNCHANGED savedItem

\* The leaf _remove takes an item from has one; otherwise items[-1] is read
\* and the behaviour is undefined.
LeafHasItem(p, i) ==
    ~IsLeaf(Get(tx, p)) =>
        Get(tx, Last(PredecessorPath(tx, Get(tx, p).kids[i])).page).items # <<>>

\* Document::remove(key) of a key that is there; of another it does nothing.
RemoveKey(k) ==
    /\ Defined
    /\ Lookup(tx, doc.root, k) # {}
    /\ \E found \in {Last(Path(tx, doc.root, k))} : LeafHasItem(found.page, found.at)
    /\ \E r \in {RemoveFromTree(tx, doc.root, k)} :
        /\ "internalOverflow" \notin Situation => SplitsLeavesOnly(r)
        /\ tx' = r.state
        /\ doc' = [root |-> r.root, count |-> doc.count - 1]
    /\ item' = doc'
    /\ UNCHANGED savedItem
-----------------------------------------------------------------------------
\* Tx::clean.
Clean(s) == [s EXCEPT !.dirtyNodes = <<>>, !.pagesToDelete = <<>>, !.allocatedPages = <<>>]

\* Tx::commit; the next transaction opens the document again.
Commit ==
    /\ Defined
    /\ tx' = Clean([tx EXCEPT !.file = Overlaid(@, tx.dirtyNodes),
                              !.fl = ReleasePages(@, tx.pagesToDelete)])
    /\ savedItem' = item
    /\ doc' = item
    /\ UNCHANGED item

\* Tx::rollback; the same.  Dal::meta->root stays what it is in memory.
Rollback_Mutant ==                             \* the pages are not given back
    /\ tx' = Clean(tx)
    /\ item' = savedItem
    /\ doc' = savedItem
    /\ UNCHANGED savedItem
Rollback ==
    /\ tx' = Clean([tx EXCEPT !.fl = ReleasePages(@, tx.allocatedPages)])
    /\ item' = savedItem
    /\ doc' = savedItem
    /\ UNCHANGED savedItem

Next ==
    \/ \E k \in Key : \E v \in ValuesFor[k] : PutKey(k, v)
    \/ \E k \in Key : RemoveKey(k)
    \/ Commit
    \/ Rollback

Spec == Init /\ [][Next]_vars
-----------------------------------------------------------------------------
\* The types of nodes, of stores of nodes and of the record of a document.
Page == FirstRoot .. MaxPages
NodeType == [items : Seq(Item), kids : Seq(Page)]
IsStore(m) == DOMAIN m \subseteq Page /\ Range(m) \subseteq NodeType
Record == [root : Page, count : Nat]

\* Type invariant: nodes hold items and page numbers, every page number that
\* is kept somewhere is one that was handed out, counts are not negative.
TypeOK ==
    /\ IsStore(tx.file) /\ IsStore(tx.dirtyNodes)
    /\ tx.pagesToDelete \in Seq(Page) /\ tx.allocatedPages \in Seq(Page)
    /\ tx.fl.maxPage \in Page /\ tx.fl.releasedPages \in Seq(Page)
    /\ tx.metaRoot = CollectionsRoot
    /\ {doc, item, savedItem} \subseteq Record

\* The keys of the document's tree, read from left to right, ascend, and
\* Node::findKey finds each of them: it turns the right way in every node.
SearchTree ==
    LET items == ItemsBelow(tx, doc.root)
    IN  /\ \A i, j \in DOMAIN items : i < j => items[i].key < items[j].key
        /\ UNION {Lookup(tx, doc.root, k) : k \in Key} = Range(items)

\* Every node has a child for each gap between its items, and all leaves are
\* on one level: splits and removals keep the tree a B-tree.
Balanced ==
    /\ \A p \in Range(PagesBelow(tx, doc.root)) : ChildPerGap(Get(tx, p))
    /\ Cardinality(LeafLevels(tx, doc.root)) = 1

\* No node that is written is over the threshold after a put or a remove, on
\* disk or in the transaction; Node::serialize does not check that it fits.
NodesFit == \A p \in AllPages(tx) : Size(Get(tx, p)) <= MaxThreshold

\* Every page handed out below the collection is reached once from the
\* document's root, is free or will be freed by the commit: put, remove,
\* commit and rollback neither lose a page nor use one twice.
PagesAccounted ==
    LET used == PagesBelow(tx, doc.root) \o tx.pagesToDelete \o tx.fl.releasedPages
    IN  IsInjective(used) /\ Range(used) = FirstRoot .. tx.fl.maxPage

\* The count is the number of keys the tree holds, and the handle and the
\* record in the collection agree on it and on the root, so the next
\* transaction that opens the document finds the tree this one leaves.
CountMatches ==
    /\ doc = item
    /\ doc.count = Len(ItemsBelow(tx, doc.root))

Store == INSTANCE DocumentStore WITH
    items <- ItemSet(tx, doc.root),
    saved <- ItemSet([tx EXCEPT !.dirtyNodes = <<>>], savedItem.root)

\* The document is the map the interface promises: every put, remove, commit
\* and rollback changes what get finds, and what a commit makes durable, like
\* the same call on a map, however the tree splits underneath.
ImplementsDocument == Store!Spec
-----------------------------------------------------------------------------
\* Every node keeps a child for each gap when nodes with children split.
NoChildLost == \A p \in AllPages(tx) : ChildPerGap(Get(tx, p))

\* The item before each item of a node with children is the last one of a
\* leaf, as Node::removeItemFromInternal takes it.
PredecessorExists ==
    \A p \in Range(PagesBelow(tx, doc.root)) : \A i \in DOMAIN Get(tx, p).items :
        LeafHasItem(p, i)
-----------------------------------------------------------------------------
(***************************************************************************)
(* The inductive invariant behind the properties.  While nodes with        *)
(* children do not split, a tree is one leaf or a root with leaves.        *)
(***************************************************************************)
\* The nodes are those that a record of the document speaks of.
Recorded(m, record) ==
    /\ Tree(m, record.root) /\ Ordered(m, record.root)
    /\ \A p \in DOMAIN m : ~OverPopulated(m[p])
    /\ IsFiniteSet(AllItems(m)) /\ record.count = Cardinality(AllItems(m))

\* No page is ever deleted; the new ones are those of the nodes not in the file.
PagesInv(s) ==
    /\ s = [file |-> s.file, dirtyNodes |-> s.dirtyNodes, pagesToDelete |-> <<>>,
            allocatedPages |-> s.allocatedPages, fl |-> s.fl, metaRoot |-> CollectionsRoot]
    /\ s.allocatedPages \in Seq(Nat) /\ IsInjective(s.allocatedPages)
    /\ Range(s.allocatedPages) = DOMAIN s.dirtyNodes \ DOMAIN s.file
    /\ s.fl \in [maxPage : Nat, releasedPages : Seq(Nat)]
    /\ IsInjective(s.fl.releasedPages)
    /\ Range(s.fl.releasedPages) \cap AllPages(s) = {}
    /\ Range(s.fl.releasedPages) \cup AllPages(s) = FirstRoot .. s.fl.maxPage

DocumentInv ==
    /\ PagesInv(tx) /\ tx.fl.maxPage <= MaxPages
    /\ doc \in [root : Nat, count : Nat] /\ item = doc
    /\ savedItem \in [root : Nat, count : Nat]
    /\ Recorded(Nodes(tx), doc) /\ Recorded(tx.file, savedItem)
=============================================================================
