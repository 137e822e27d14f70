---------------------------- MODULE Transactions ----------------------------
(***************************************************************************)
(* Transactions over the database file: db/db.cpp (the lock), db/tx/tx.cpp *)
(* (dirty nodes, commit, rollback), dal/dal.cpp (pages, meta, free list).  *)
(*                                                                         *)
(* A thread opens a read or a write transaction, calls its page methods    *)
(* (getNode, writeNode, deleteNode) the way db/containers/container.cpp    *)
(* does, and ends it.  A node is an opaque value here: what its items and  *)
(* children are is the business of the tree modules.  What matters is      *)
(* which pages hold a node of the tree, which are free, and what is on     *)
(* disk.                                                                   *)
(***************************************************************************)
EXTENDS FreeList, FiniteSets

CONSTANTS
    Thread,     \* client threads
    NoThread,   \* no thread holds the write lock
    Node,       \* what a node page can hold
    EmptyNode,  \* the node the constructor of Dal writes as the root
    NoNode,     \* the page holds no node
    MaxPages,   \* bound: largest page number handed out
    MaxTx,      \* bound: transactions opened by one thread
    Situation   \* what happens in this instance beyond the documented use

\* The situations.  None of them is prevented by the code:
\*   crash            the process dies outside Tx::commit and the file is reopened
\*   crashInCommit    ... or between two page writes of Tx::commit
\*   parallelReads    two read transactions are inside Dal::readPage at once
\*   rollbackNewRoot  a transaction that moved the root is rolled back
\*   readerWrites     a read transaction calls put, remove or removeCollection
\*   abandon          a transaction is deleted without commit or rollback
Situations == {"crash", "crashInCommit", "parallelReads", "rollbackNewRoot",
               "readerWrites", "abandon"}

\* Page 0 is META_PAGE_NUM; the constructor of Dal takes page 1 for the free
\* list and page 2 for the first root.
FreelistPage == NextPage(EmptyFreeList)
FirstRoot == NextPage(AfterNextPage(EmptyFreeList))
Page == FirstRoot .. MaxPages
NoPage == 0

ASSUME ConstantsAssumption ==
    /\ NoThread \notin Thread
    /\ EmptyNode \in Node
    /\ NoNode \notin Node
    /\ MaxPages \in Nat /\ FirstRoot <= MaxPages
    /\ MaxTx \in Nat
    /\ Situation \subseteq Situations

VARIABLES
    pc,        \* thread -> where it is in the life of a transaction
    left,      \* thread -> transactions it may still open
    rwlock,    \* DB::rwlock: [writer, readers]
    tx,        \* thread -> dirtyNodes, pagesToDelete, allocatedPages of its Tx
    unsaved,   \* thread -> dirty pages Tx::commit has still to write
    fl,        \* Dal::fl, in memory
    root,      \* Dal::meta->root, in memory
    file,      \* page -> the node its bytes hold
    fileFl,    \* the free list on its page
    fileRoot,  \* the root on the meta page
    filePos,   \* the position of Dal::file, shared by all threads
    fetching,  \* thread -> page of the Dal::readPage it is inside, or NoPage
    seen,      \* thread -> what its last getNode returned
    committed  \* observer: page -> node as of the last committed transaction

memory == <<tx, unsaved, fl, root>>
disk == <<file, fileFl, fileRoot>>
reads == <<filePos, fetching, seen>>
vars == <<pc, left, rwlock, memory, disk, reads, committed>>

\* "nodes" and "meta" are the steps of Tx::commit, "undo" the end of Tx::rollback.
Phase == {"idle", "waitRead", "waitWrite", "read", "write", "nodes", "meta", "undo"}
Writing == {"write", "nodes", "meta", "undo"}
Committing == {"nodes", "meta"}

NewTx == [dirtyNodes |-> [p \in Page |-> NoNode],
          pagesToDelete |-> <<>>, allocatedPages |-> <<>>]
Unlocked == [writer |-> NoThread, readers |-> {}]
NewFreeList == AfterNextPage(AfterNextPage(EmptyFreeList))
NewFile == [p \in Page |-> IF p = FirstRoot THEN EmptyNode ELSE NoNode]

\* The types of a Tx, of a free list and of the pages of a file.
TxState == [dirtyNodes : [Page -> Node \cup {NoNode}],
            pagesToDelete : Seq(Page), allocatedPages : Seq(Page)]
FreeLists == [maxPage : Page, releasedPages : Seq(Page)]
Store == [Page -> Node \cup {NoNode}]

\* The file after the constructor of Dal has created it.
Init ==
    /\ pc = [t \in Thread |-> "idle"]
    /\ left = [t \in Thread |-> MaxTx]
    /\ rwlock = Unlocked
    /\ tx = [t \in Thread |-> NewTx]
    /\ unsaved = [t \in Thread |-> {}]
    /\ fl = NewFreeList /\ fileFl = NewFreeList
    /\ root = FirstRoot /\ fileRoot = FirstRoot
    /\ file = NewFile
    /\ filePos = 0
    /\ fetching = [t \in Thread |-> NoPage]
    /\ seen = [t \in Thread |-> {}]
    /\ committed = NewFile
-----------------------------------------------------------------------------
Pages(store) == {p \in DOMAIN store : store[p] # NoNode}

\* The pages in the members of the Tx of a thread.
Dirty_Mutant(t) == Range(tx[t].allocatedPages) \* changed old nodes are forgotten
Dirty(t) == Pages(tx[t].dirtyNodes)
Deleted(t) == Range(tx[t].pagesToDelete)
Allocated(t) == Range(tx[t].allocatedPages)

\* The tree as a transaction sees it: its own nodes over the committed ones.
View(t) == [p \in Page |->
    IF p \in Deleted(t) THEN NoNode
    ELSE IF tx[t].dirtyNodes[p] # NoNode THEN tx[t].dirtyNodes[p]
    ELSE committed[p]]

InTree(t, p) == View(t)[p] # NoNode

\* A container operation starts at the root, so it needs one; it runs on its
\* thread, so the page it is reading has arrived.
CanOperate(t) ==
    /\ pc[t] \in {"read", "write"}
    /\ root \in Page /\ InTree(t, root)
    /\ fetching[t] = NoPage

\* Document::put, Document::remove, Collection::removeDoc and
\* Tx::removeCollection do not ask hasWritePermission.
CanChange(t) ==
    /\ CanOperate(t)
    /\ pc[t] = "write" \/ "readerWrites" \in Situation

\* std::shared_mutex: who may lock it.
MayShare == rwlock.writer = NoThread
MayOwn_Mutant == rwlock.writer = NoThread      \* a writer waits for writers only
MayOwn == rwlock = Unlocked

\* DB::readTransaction and DB::writeTransaction: the constructor of the
\* transaction asks for the lock ...
Request(t, phase) ==
    /\ pc[t] = "idle" /\ left[t] > 0
    /\ pc' = [pc EXCEPT ![t] = phase]
    /\ left' = [left EXCEPT ![t] = @ - 1]
    /\ UNCHANGED <<rwlock, memory, disk, reads, committed>>

\* ... and blocks until it has it: shared_lock in ReadTx,
AcquireRead(t) ==
    /\ pc[t] = "waitRead" /\ MayShare
    /\ rwlock' = [rwlock EXCEPT !.readers = @ \cup {t}]
    /\ pc' = [pc EXCEPT ![t] = "read"]
    /\ UNCHANGED <<left, memory, disk, reads, committed>>

\* unique_lock in WriteTx.
AcquireWrite(t) ==
    /\ pc[t] = "waitWrite" /\ MayOwn
    /\ rwlock' = [rwlock EXCEPT !.writer = t]
    /\ pc' = [pc EXCEPT ![t] = "write"]
    /\ UNCHANGED <<left, memory, disk, reads, committed>>

\* Tx::getNode looks in dirtyNodes first.
InDirtyNodes_Mutant(t, p) == FALSE             \* ... or not at all
InDirtyNodes(t, p) == tx[t].dirtyNodes[p] # NoNode

\* Tx::getNode of a page of the tree that is in dirtyNodes.
GetDirtyNode(t, p) ==
    /\ CanOperate(t)
    /\ InTree(t, p)
    /\ InDirtyNodes(t, p)
    /\ seen' = [seen EXCEPT ![t] = {<<p, tx[t].dirtyNodes[p]>>}]
    /\ UNCHANGED <<pc, left, rwlock, memory, disk, filePos, fetching, committed>>

\* Tx::getNode of any other page: Dal::readPage moves the position of the
\* one file stream ...
SeekPage(t, p) ==
    /\ CanOperate(t)
    /\ InTree(t, p)
    /\ ~InDirtyNodes(t, p)
    /\ "parallelReads" \in Situation \/ \A u \in Thread : fetching[u] = NoPage
    /\ fetching' = [fetching EXCEPT ![t] = p]
    /\ filePos' = p
    /\ UNCHANGED <<pc, left, rwlock, memory, disk, seen, committed>>

\* ... and reads one page from wherever the position is by then.
ReadPage(t) ==
    /\ fetching[t] # NoPage
    /\ seen' = [seen EXCEPT ![t] =
                   {<<fetching[t], IF filePos \in Page THEN file[filePos] ELSE NoNode>>}]
    /\ filePos' = filePos + 1
    /\ fetching' = [fetching EXCEPT ![t] = NoPage]
    /\ UNCHANGED <<pc, left, rwlock, memory, disk, committed>>

\* What writeNode of an old page, writeNode of a new page and deleteNode do to
\* the vectors and the map of their Tx.
Dirtied(x, p, n) == [x EXCEPT !.dirtyNodes = [@ EXCEPT ![p] = n]]
Allocating_Mutant(x, p, n) ==                  \* pushed before it is numbered
    [Dirtied(x, p, n) EXCEPT !.allocatedPages = Append(@, NoPage)]
Allocating(x, p, n) ==
    [Dirtied(x, p, n) EXCEPT !.allocatedPages = Append(@, p)]
Deleting(x, p) == [x EXCEPT !.pagesToDelete = Append(@, p)]

\* Tx::writeNode of a node read earlier in the transaction.
WriteNode(t, p, n) ==
    /\ CanChange(t)
    /\ InTree(t, p)
    /\ tx' = [tx EXCEPT ![t] = Dirtied(@, p, n)]
    /\ UNCHANGED <<pc, left, rwlock, unsaved, fl, root, disk, reads, committed>>

\* Tx::writeNode of a new node (pageNum 0): it gets a page.
TakePage(t, n) ==
    /\ CanAllocate(fl, MaxPages)
    /\ tx' = [tx EXCEPT ![t] = Allocating(@, NextPage(fl), n)]
    /\ fl' = AfterNextPage(fl)

\* A new node below the root: a split, a new document or collection.
CreateNode(t, n) ==
    /\ CanChange(t)
    /\ TakePage(t, n)
    /\ UNCHANGED <<pc, left, rwlock, unsaved, root, disk, reads, committed>>

\* Container::_put when the root of the collections tree splits: the new root
\* gets a page and meta->root changes at once, in memory.
GrowRoot(t, n) ==
    /\ CanChange(t)
    /\ TakePage(t, n)
    /\ root' = NextPage(fl)
    /\ UNCHANGED <<pc, left, rwlock, unsaved, disk, reads, committed>>

\* Tx::deleteNode, called by Node::merge for a child it has emptied.
DeleteNode(t, p) ==
    /\ CanChange(t)
    /\ InTree(t, p) /\ p # root
    /\ tx' = [tx EXCEPT ![t] = Deleting(@, p)]
    /\ UNCHANGED <<pc, left, rwlock, unsaved, fl, root, disk, reads, committed>>

\* Mutant: the old root is deleted but meta->root does not move.
ShrinkRoot_Mutant(t, p) ==
    /\ CanChange(t)
    /\ InTree(t, p) /\ p # root
    /\ tx' = [tx EXCEPT ![t] = Deleting(@, root)]
    /\ UNCHANGED <<pc, left, rwlock, unsaved, fl, root, disk, reads, committed>>

\* Container::_remove when the root is down to one child.
ShrinkRoot(t, p) ==
    /\ CanChange(t)
    /\ InTree(t, p) /\ p # root
    /\ tx' = [tx EXCEPT ![t] = Deleting(@, root)]
    /\ root' = p
    /\ UNCHANGED <<pc, left, rwlock, unsaved, fl, disk, reads, committed>>
-----------------------------------------------------------------------------
\* Tx::clean, and the unlock of ReadTx and WriteTx.
Clean(t) == tx' = [tx EXCEPT ![t] = NewTx]

Unlock_Mutant(t) ==                            \* the shared lock is not released
    rwlock' = [rwlock EXCEPT !.writer = IF @ = t THEN NoThread ELSE @]
Unlock(t) ==
    rwlock' = [writer |-> IF rwlock.writer = t THEN NoThread ELSE rwlock.writer,
               readers |-> rwlock.readers \ {t}]

\* The transaction is over.
Close(t) ==
    /\ pc' = [pc EXCEPT ![t] = "idle"]
    /\ Clean(t) /\ Unlock(t)
    /\ seen' = [seen EXCEPT ![t] = {}]

\* Dal::writeFreelist and Dal::writeMeta.
WriteFreelist_Mutant == UNCHANGED <<fileFl, filePos>>  \* nothing reaches the file
WriteFreelist == fileFl' = fl' /\ filePos' = FreelistPage + 1
WriteMeta == fileRoot' = root /\ filePos' = 1

\* ReadTx::commit and ReadTx::rollback: no write permission, so only the unlock.
EndRead(t) ==
    /\ pc[t] = "read" /\ fetching[t] = NoPage
    /\ Close(t)
    /\ UNCHANGED <<left, unsaved, fl, root, disk, filePos, fetching, committed>>

\* WriteTx::commit: Tx::commit walks dirtyNodes, in the order of the hash map,
BeginCommit(t) ==
    /\ pc[t] = "write" /\ fetching[t] = NoPage
    /\ pc' = [pc EXCEPT ![t] = "nodes"]
    /\ unsaved' = [unsaved EXCEPT ![t] = Dirty(t)]
    /\ UNCHANGED <<left, rwlock, tx, fl, root, disk, reads, committed>>

\* writing each node over its page,
SaveNode(t, p) ==
    /\ pc[t] = "nodes" /\ p \in unsaved[t]
    /\ file' = [file EXCEPT ![p] = tx[t].dirtyNodes[p]]
    /\ unsaved' = [unsaved EXCEPT ![t] = @ \ {p}]
    /\ filePos' = p + 1
    /\ UNCHANGED <<pc, left, rwlock, tx, fl, root, fileFl, fileRoot,
                   fetching, seen, committed>>

\* then releases the deleted pages and writes the free list,
SaveFreelist(t) ==
    /\ pc[t] = "nodes" /\ unsaved[t] = {}
    /\ fl' = ReleasePages(fl, tx[t].pagesToDelete)
    /\ WriteFreelist
    /\ pc' = [pc EXCEPT ![t] = "meta"]
    /\ UNCHANGED <<left, rwlock, tx, unsaved, root, file, fileRoot,
                   fetching, seen, committed>>

\* then the meta page; the transaction is complete and the lock is released.
SaveMeta(t) ==
    /\ pc[t] = "meta"
    /\ WriteMeta
    /\ committed' = View(t)
    /\ Close(t)
    /\ UNCHANGED <<left, unsaved, fl, root, file, fileFl, fetching>>

\* WriteTx::rollback: Tx::rollback releases the allocated pages and writes the
\* free list,
ToReturn_Mutant(t) == <<>>                     \* rollback releases nothing
ToReturn(t) == tx[t].allocatedPages
BeginRollback(t) ==
    /\ pc[t] = "write" /\ fetching[t] = NoPage
    /\ "rollbackNewRoot" \in Situation \/ root = fileRoot
    /\ fl' = ReleasePages(fl, ToReturn(t))
    /\ WriteFreelist
    /\ pc' = [pc EXCEPT ![t] = "undo"]
    /\ UNCHANGED <<left, rwlock, tx, unsaved, root, file, fileRoot,
                   fetching, seen, committed>>

\* then the meta page, with the root as it is in memory.
FinishRollback(t) ==
    /\ pc[t] = "undo"
    /\ WriteMeta
    /\ Close(t)
    /\ UNCHANGED <<left, unsaved, fl, root, file, fileFl, fetching, committed>>

\* ~ReadTx and ~WriteTx: the lock is released, nothing is undone.
Abandon(t) ==
    /\ "abandon" \in Situation
    /\ pc[t] = "write" /\ fetching[t] = NoPage
    /\ Close(t)
    /\ UNCHANGED <<left, unsaved, fl, root, disk, filePos, fetching, committed>>

\* The process dies; a later process opens the file, and the constructor of
\* Dal reads meta and free list from it.
Crash ==
    /\ "crash" \in Situation
    /\ "crashInCommit" \in Situation \/ \A t \in Thread : pc[t] \notin Committing
    /\ pc' = [t \in Thread |-> "idle"]
    /\ rwlock' = Unlocked
    /\ tx' = [t \in Thread |-> NewTx]
    /\ unsaved' = [t \in Thread |-> {}]
    /\ fl' = fileFl
    /\ root' = fileRoot
    /\ filePos' = FreelistPage + 1
    /\ fetching' = [t \in Thread |-> NoPage]
    /\ seen' = [t \in Thread |-> {}]
    /\ UNCHANGED <<left, disk, committed>>
-----------------------------------------------------------------------------
Operate(t) ==
    \/ \E p \in Page : GetDirtyNode(t, p) \/ SeekPage(t, p)
    \/ ReadPage(t)
    \/ \E p \in Page, n \in Node : WriteNode(t, p, n)
    \/ \E n \in Node : CreateNode(t, n) \/ GrowRoot(t, n)
    \/ \E p \in Page : DeleteNode(t, p) \/ ShrinkRoot(t, p)

Acquire(t) == AcquireRead(t) \/ AcquireWrite(t)

\* The client ends its transaction.
End(t) == EndRead(t) \/ BeginCommit(t) \/ BeginRollback(t) \/ Abandon(t)

\* The steps of commit and rollback once they have begun.
Finish(t) ==
    \/ \E p \in Page : SaveNode(t, p)
    \/ SaveFreelist(t) \/ SaveMeta(t) \/ FinishRollback(t)

Next ==
    \/ \E t \in Thread :
        \/ Request(t, "waitRead") \/ Request(t, "waitWrite")
        \/ Acquire(t)
        \/ Operate(t)
        \/ End(t)
        \/ Finish(t)
    \/ Crash

Spec == Init /\ [][Next]_vars
-----------------------------------------------------------------------------
(***************************************************************************)
(* Properties                                                              *)
(***************************************************************************)
\* The type of every variable.
TypeOK ==
    /\ pc \in [Thread -> Phase]
    /\ left \in [Thread -> Nat]
    /\ rwlock \in [writer : Thread \cup {NoThread}, readers : SUBSET Thread]
    /\ tx \in [Thread -> TxState]
    /\ unsaved \in [Thread -> SUBSET Page]
    /\ fl \in FreeLists /\ fileFl \in FreeLists
    /\ root \in Page /\ fileRoot \in Page
    /\ file \in Store /\ committed \in Store
    /\ filePos \in Nat
    /\ fetching \in [Thread -> Page \cup {NoPage}]
    /\ seen \in [Thread -> SUBSET (Page \X (Node \cup {NoNode}))]

\* README.md: "multiple read transactions or one write transaction at the
\* same time".  While a write transaction is open, up to the end of its commit
\* or rollback, no other transaction is.
WriterIsAlone == \A t \in Thread : pc[t] \in Writing =>
    \A u \in Thread \ {t} : pc[u] \notin {"read"} \cup Writing

\* The pages somebody holds: the committed tree and the allocations of open
\* transactions, less what a commit or rollback under way has given back.
GivenBack(t) == CASE pc[t] = "meta" -> Deleted(t)
                  [] pc[t] = "undo" -> Allocated(t)
                  [] OTHER          -> {}
InUse == (Pages(committed) \cup UNION {Allocated(t) : t \in Thread})
             \ UNION {GivenBack(t) : t \in Thread}

\* Every page has at most one owner: the free list holds no page twice and no
\* page somebody holds, and two transactions, or a transaction and the
\* committed tree, never hold the same page.  (FreeList does not check what
\* releasePage gives it; a page with two owners is overwritten by one of them.)
OnePageOneOwner ==
    /\ IsInjective(fl.releasedPages)
    /\ Range(fl.releasedPages) \cap InUse = {}
    /\ \A p \in InUse \cup Range(fl.releasedPages) : p <= fl.maxPage
    /\ \A t \in Thread : Allocated(t) \cap Pages(committed) = {}
    /\ \A t, u \in Thread : t # u => Allocated(t) \cap Allocated(u) = {}

\* No page is lost: below the high-water mark a page is free or somebody
\* holds it.  (Documented use: a page of an abandoned transaction or of one
\* that a reader took is lost.)
EveryPageAccounted ==
    \A p \in FirstRoot .. fl.maxPage : p \in InUse \cup Range(fl.releasedPages)

\* Between write transactions the root, which only ever moves in memory before
\* Tx::commit writes it, is a page of the committed tree.
RootInTree ==
    (\A t \in Thread : pc[t] \notin Writing) => committed[root] # NoNode

\* Between write transactions the free list and the root in memory are those
\* of the file: what a transaction does to them is written when it ends.
MemoryMatchesFile ==
    (\A t \in Thread : pc[t] \notin Writing) => fl = fileFl /\ root = fileRoot

\* A free list is sound for the committed tree: it hands out none of its pages.
SoundFor(f, store) ==
    /\ IsInjective(f.releasedPages)
    /\ Range(f.releasedPages) \cap Pages(store) = {}
    /\ \A p \in Range(f.releasedPages) \cup Pages(store) : p <= f.maxPage

\* Outside Tx::commit the file alone is the committed database: its pages, a
\* root in the tree, and a free list that will not hand out a page of it.
Recoverable ==
    (\A t \in Thread : pc[t] \notin Committing) =>
        /\ \A p \in Pages(committed) : file[p] = committed[p]
        /\ fileRoot \in Pages(committed)
        /\ SoundFor(fileFl, committed)

\* README.md: a read transaction sees the committed database, page by page.
ReadersSeeCommitted == \A t \in Thread : pc[t] = "read" =>
    \A r \in seen[t] : r[2] = committed[r[1]]

\* The serializable store that README.md promises.
Mode(t) == CASE pc[t] = "read"     -> "read"
             [] pc[t] \in Writing -> "write"
             [] OTHER              -> "none"

Serial == INSTANCE SerialStore WITH
    InitialStore <- NewFile,
    store <- committed,
    mode <- [t \in Thread |-> Mode(t)],
    view <- [t \in Thread |-> IF Mode(t) = "none" THEN NewFile ELSE View(t)],
    seen <- seen

\* Locks, dirty nodes, pages and file implement the serializable store: every
\* transaction reads the database of its start plus its own writes, and takes
\* effect at once when its commit completes or not at all.
ImplementsSerialStore == Serial!Spec

\* Scheduling: a runnable thread runs; a client ends the transaction it has
\* open, however much it reads (an assumption on the callers).
Fairness == \A t \in Thread :
    /\ WF_vars(Acquire(t)) /\ WF_vars(ReadPage(t)) /\ WF_vars(Finish(t))
    /\ SF_vars(EndRead(t)) /\ SF_vars(BeginCommit(t))

FairSpec == Spec /\ Fairness

\* A thread that asks for a write transaction gets it: commit and rollback
\* release the lock on every path.  std::shared_mutex promises no order, so
\* this is about finitely many competing transactions (MaxTx).
WriterGetsLock == \A t \in Thread : pc[t] = "waitWrite" ~> pc[t] = "write"
-----------------------------------------------------------------------------
(***************************************************************************)
(* The inductive invariant behind WriterIsAlone and OnePageOneOwner.       *)
(***************************************************************************)
\* The lock and the program counters agree.
LockInv ==
    /\ \A t \in Thread : pc[t] \in Writing <=> rwlock.writer = t
    /\ \A t \in Thread : pc[t] = "read" <=> t \in rwlock.readers
    /\ rwlock.writer # NoThread => rwlock.readers = {}

\* A thread without a transaction holds nothing; a transaction only dirties
\* and deletes pages of its own view, each deleted once.
TxInvOf(t) ==
    /\ pc[t] \notin {"read"} \cup Writing => tx[t] = NewTx
    /\ IsInjective(tx[t].allocatedPages)
    /\ IsInjective(tx[t].pagesToDelete)
    /\ Dirty(t) \cup Deleted(t) \subseteq Pages(committed) \cup Allocated(t)
TxInv == \A t \in Thread : TxInvOf(t)

\* The free list on its page is the one in memory once commit or rollback has
\* written it, and is always sound for the tree a reopened file would have.
FileFlInv ==
    /\ \A t \in Thread : pc[t] \in {"meta", "undo"} => fileFl = fl
    /\ (\A t \in Thread : pc[t] \notin Committing) => SoundFor(fileFl, committed)

OwnerInv == TypeOK /\ LockInv /\ TxInv /\ OnePageOneOwner /\ FileFlInv

(***************************************************************************)
(* The inductive invariant behind MemoryMatchesFile, RootInTree and        *)
(* Recoverable.                                                            *)
(***************************************************************************)
\* While a commit or rollback has only the meta page to write, the free list is
\* written.
MemoryInv ==
    /\ MemoryMatchesFile
    /\ \A t \in Thread : pc[t] \in {"meta", "undo"} => fl = fileFl

\* The root of the file is in the committed tree, that in memory in the tree of
\* the transaction that may move it.
RootInv ==
    /\ committed[fileRoot] # NoNode
    /\ \A t \in Thread : pc[t] \in {"write"} \cup Committing => InTree(t, root)
    /\ \A t \in Thread : pc[t] = "undo" => root = fileRoot

\* The file has the committed tree, with the dirty nodes of a commit that have
\* been written over it.
Written(t) == {p \in Page : p \in Dirty(t) /\ p \notin unsaved[t]}
PagesInv ==
    /\ (\A t \in Thread : pc[t] \notin Committing) =>
           \A p \in Pages(committed) : file[p] = committed[p]
    /\ \A t \in Thread : pc[t] \in Committing =>
           /\ unsaved[t] \subseteq Dirty(t) /\ (pc[t] = "meta" => unsaved[t] = {})
           /\ \A p \in Written(t) : file[p] = tx[t].dirtyNodes[p]
           /\ \A p \in Pages(committed) \ Dirty(t) : file[p] = committed[p]

RecoveryInv == OwnerInv /\ MemoryInv /\ RootInv /\ PagesInv

\* The inductive invariant behind EveryPageAccounted: the free list of the file
\* accounts for the pages a reopened file would have, a page that was allocated
\* has a node, and read transactions have nothing.
AccountInv ==
    /\ EveryPageAccounted
    /\ (\A t \in Thread : pc[t] \notin Committing) =>
           \A p \in FirstRoot .. fileFl.maxPage :
               p \in Pages(committed) \cup Range(fileFl.releasedPages)
    /\ \A t \in Thread : Allocated(t) \subseteq Dirty(t) /\ (pc[t] = "read" => tx[t] = NewTx)

(***************************************************************************)
(* The inductive invariant behind ReadersSeeCommitted and                  *)
(* ImplementsSerialStore.                                                  *)
(***************************************************************************)
\* Whoever is inside Dal::readPage is the only one there, is in a transaction,
\* and the stream stands at the page it asked for, which is in the file.  Read
\* transactions have changed nothing, threads without one have read nothing.
ReadingInv == \A t \in Thread :
    /\ pc[t] \notin {"read"} \cup Writing => seen[t] = {}
    /\ pc[t] = "read" => tx[t] = NewTx
    /\ fetching[t] # NoPage =>
           /\ pc[t] \in {"read", "write"} /\ filePos = fetching[t]
           /\ InTree(t, fetching[t]) /\ ~InDirtyNodes(t, fetching[t])
           /\ \A u \in Thread \ {t} : fetching[u] = NoPage

SerialInv == OwnerInv /\ PagesInv /\ ReadingInv
=============================================================================
