------------------------------ MODULE PageFile ------------------------------
(***************************************************************************)
(* The page file, dal/dal.cpp, as bytes in a file: how Dal's constructor   *)
(* creates and opens it, and how its pages are read and written through a  *)
(* std::fstream that fails, buffers, and stays failed.                     *)
(*                                                                         *)
(* One process at a time has the file.  Its transactions come one after    *)
(* the other; what one does in memory is a single step here, the page      *)
(* writes of Tx::commit and Tx::rollback are a step each.  Any call on the *)
(* stream may fail, and the process may die at any point.  A page is       *)
(* stored whole or not at all.                                             *)
(***************************************************************************)
EXTENDS PageFormat

CONSTANTS
    Node,       \* nodes that transactions write
    NoNode,     \* no node
    MaxPages,   \* bound: largest page number handed out
    MaxTx,      \* bound: transactions that write
    MaxStarts,  \* bound: processes that open the file
    SomeNodes, SomeNumbers, SomeLists, \* bound: what the page format is tried on
    Situation   \* what happens beyond the documented use

\* The situations, none prevented by the code:
\*   tornUse    a file is used that was left in the middle of a commit or of
\*              its creation, and opened
\*   longList   the free list is written when it does not fit its page
Situations == {"tornUse", "longList"}

EmptyNode == [items |-> <<>>, kids |-> <<>>]

\* META_PAGE_NUM, and what the constructor takes for free list and root.
MetaPage == 0
FreelistPage == NextPage(EmptyFreeList)
FirstRoot == NextPage(AfterNextPage(EmptyFreeList))
NoPage == 0
Page == FirstRoot .. MaxPages

ASSUME FileAssumption ==
    /\ EmptyNode \in Node /\ NoNode \notin Node
    /\ \A n \in Node : IsNode(n) /\ NodeFits(n)
    /\ MaxPages \in Nat /\ FirstRoot <= MaxPages /\ LongFits(MaxPages)
    /\ MaxTx \in Nat /\ MaxStarts \in Nat
    /\ \A n \in SomeNodes : IsNode(n)
    /\ SomeNumbers \subseteq 0 .. Values[LongSize] - 1
    /\ \A f \in SomeLists : IsFreeList(f)
    /\ Situation \subseteq Situations

VARIABLES
    pc,       \* what the process is doing, "down" if there is none
    starts,   \* processes so far
    exists,   \* there is a file
    stream,   \* Dal::file: [file, buffer, good]
    fl,       \* Dal::fl
    meta,     \* Dal::meta
    tx,       \* dirty nodes, pages to release when it ends, allocated pages
    reply,    \* what the last Dal::getNode returned: {<<page, node>>}
    base,     \* observer: which of history the process works on
    history   \* observer: the databases transactions meant to leave

vars == <<pc, starts, exists, stream, fl, meta, tx, reply, base, history>>

\* In the constructor; between transactions; in one; in its commit or rollback;
\* open, but left half-written by an earlier process.
Phase == {"down", "newRoot", "newMeta", "newFreelist", "open", "tx",
          "nodes", "meta", "torn"}

\* A page of the file remembers, for the properties only, which of history it
\* was written for; 0 is a hole.
Hole == [data |-> EmptyPage, round |-> 0]

Closed == [file |-> <<>>, buffer |-> <<>>, good |-> TRUE]
NoTx == [dirtyNodes |-> [p \in Page |-> NoNode], release |-> <<>>, allocatedPages |-> <<>>]
NewFreeList == AfterNextPage(AfterNextPage(EmptyFreeList))
NoMeta == [freelistPage |-> NoPage, root |-> NoPage]

\* What the constructor is to create.
NewDatabase ==
    [nodes |-> [p \in Page |-> IF p = FirstRoot THEN EmptyNode ELSE NoNode],
     fl |-> NewFreeList,
     meta |-> [freelistPage |-> FreelistPage, root |-> FirstRoot]]

Init ==
    /\ pc = "down" /\ starts = 0 /\ exists = FALSE
    /\ stream = Closed
    /\ fl = EmptyFreeList /\ meta = NoMeta
    /\ tx = NoTx /\ reply = {}
    /\ base = 0 /\ history = <<NewDatabase>>
-----------------------------------------------------------------------------
(***************************************************************************)
(* The stream.  A call returns one of a set of outcomes [stream, result].  *)
(***************************************************************************)
\* The file once the buffered page is in it; a gap reads as zeros.
Flushed(s) ==
    IF s.buffer = <<>> THEN s.file
    ELSE LET w == Head(s.buffer)
         IN  [i \in 1 .. Max({Len(s.file), w.num + 1}) |->
                 IF i = w.num + 1 THEN w.page
                 ELSE IF i <= Len(s.file) THEN s.file[i] ELSE Hole]

\* A call fails, before or after the buffered page got to the file.
Broken(s, result) ==
    {[stream |-> [file |-> f, buffer |-> <<>>, good |-> FALSE], result |-> result] :
        f \in {s.file, Flushed(s)}}

\* Dal::writePage: seekp empties the buffer, write leaves the page in it; on a
\* stream that has failed both do nothing.
MayUse_Mutant(s) == TRUE                       \* as if clear() came first
MayUse(s) == s.good
WritePage(s, num, data) ==
    IF MayUse(s)
    THEN {[stream |-> [file |-> Flushed(s), good |-> TRUE,
                       buffer |-> <<[num |-> num, page |->
                                       [data |-> data, round |-> Len(history)]]>>],
           result |-> TRUE]} \cup Broken(s, FALSE)
    ELSE {[stream |-> s, result |-> FALSE]}

\* Dal::readPage: the page, or nullptr (Unreadable), which is also what comes of
\* reading past the end of the file.
ReadPage(s, num) ==
    IF MayUse(s)
    THEN LET f == Flushed(s)
             in == num \in 0 .. Len(f) - 1
         IN  {[stream |-> [file |-> f, buffer |-> <<>>, good |-> in],
               result |-> IF in THEN f[num + 1].data ELSE Unreadable]}
             \cup Broken(s, Unreadable)
    ELSE {[stream |-> s, result |-> Unreadable]}

-----------------------------------------------------------------------------
\* The process is gone and its memory with it.
Gone ==
    /\ pc' = "down"
    /\ fl' = EmptyFreeList /\ meta' = NoMeta
    /\ tx' = NoTx /\ reply' = {} /\ base' = 0

\* It ends with a stream: what was in the buffer got to the file or did not.
Exit(s) ==
    /\ Gone
    /\ \E f \in {s.file, Flushed(s)} : stream' = [Closed EXCEPT !.file = f]

\* Mutant: the number is asked for once it has been taken.
Create_Mutant ==
    /\ pc = "down" /\ ~exists
    /\ starts < MaxStarts /\ starts' = starts + 1
    /\ exists' = TRUE
    /\ fl' = AfterNextPage(fl)
    /\ meta' = [NoMeta EXCEPT !.freelistPage = NextPage(fl')]
    /\ pc' = "newRoot"
    /\ UNCHANGED <<stream, tx, reply, base, history>>

\* Dal::Dal where there is no file: an empty one is made, and page 1 is taken;
Create ==
    /\ pc = "down" /\ ~exists
    /\ starts < MaxStarts /\ starts' = starts + 1
    /\ exists' = TRUE
    /\ meta' = [NoMeta EXCEPT !.freelistPage = NextPage(fl)]
    /\ fl' = AfterNextPage(fl)
    /\ pc' = "newRoot"
    /\ UNCHANGED <<stream, tx, reply, base, history>>

\* its parts are written, or exit(1) ends the process: the root, on page 2,
Construct(num, data, next) ==
    /\ \E r \in WritePage(stream, num, data) :
        IF r.result
        THEN /\ next
             /\ stream' = r.stream
             /\ UNCHANGED <<tx, reply>>
        ELSE Exit(r.stream)
    /\ UNCHANGED <<starts, exists, history>>

CreateRoot ==
    /\ pc = "newRoot"
    /\ Construct(NextPage(fl), SerializeNode(EmptyNode),
           /\ pc' = "newMeta"
           /\ meta' = [meta EXCEPT !.root = NextPage(fl)]
           /\ fl' = AfterNextPage(fl)
           /\ UNCHANGED base)

\* the meta page,
CreateMeta ==
    /\ pc = "newMeta"
    /\ Construct(MetaPage, SerializeMeta(meta),
           pc' = "newFreelist" /\ UNCHANGED <<fl, meta, base>>)

\* and the free list.
CreateFreelist ==
    /\ pc = "newFreelist"
    /\ Construct(meta.freelistPage, SerializeFreeList(fl),
           pc' = "open" /\ base' = 1 /\ UNCHANGED <<fl, meta>>)

\* No page is newer than the meta page, and the free list is as new.
Whole(f) ==
    /\ Len(f) > FreelistPage /\ f[1].round > 0
    /\ f[FreelistPage + 1].round = f[1].round
    /\ \A i \in DOMAIN f : f[i].round <= f[1].round

\* Dal::Dal where there is a file: meta page and free list are read, or the
\* process exits.
Open ==
    /\ pc = "down" /\ exists
    /\ starts < MaxStarts /\ starts' = starts + 1
    /\ \E r \in ReadPage(stream, MetaPage) :
        IF r.result = Unreadable THEN Exit(r.stream)
        ELSE \E m \in {DeserializeMeta(r.result)} :
             \E q \in ReadPage(r.stream, m.freelistPage) :
                IF q.result = Unreadable THEN Exit(q.stream)
                ELSE /\ meta' = m
                     /\ fl' = DeserializeFreeList(q.result)
                     /\ stream' = q.stream
                     /\ pc' = IF Whole(q.stream.file) \/ "tornUse" \in Situation
                              THEN "open" ELSE "torn"
                     /\ base' = Max({1, q.stream.file[1].round})
                     /\ UNCHANGED <<tx, reply>>
    /\ UNCHANGED <<exists, history>>

\* Dal::~Dal: close empties the buffer, if it can.
Close ==
    /\ pc \in {"open", "tx", "torn"}
    /\ Exit(stream)
    /\ UNCHANGED <<starts, exists, history>>

\* The process dies.
Die ==
    /\ pc # "down"
    /\ Exit(stream)
    /\ UNCHANGED <<starts, exists, history>>
-----------------------------------------------------------------------------
Pages(nodes) == {p \in Page : nodes[p] # NoNode}
Tree == Pages(history[base].nodes)

\* Dal::getNode of a page of the tree.
GetNode(p) ==
    /\ pc \in {"open", "tx"} /\ p \in Tree
    /\ tx.dirtyNodes[p] = NoNode
    /\ \E r \in ReadPage(stream, p) :
        /\ stream' = r.stream
        /\ reply' = {<<p, IF r.result = Unreadable THEN NoNode
                          ELSE DeserializeNode(r.result)>>}
    /\ UNCHANGED <<pc, starts, exists, fl, meta, tx, base, history>>

\* A write transaction in memory: it writes n over some pages of the tree and
\* deletes others; grown, it takes a page for n, which may become the root.
Transact(over, n, grown, moved, gone) ==
    /\ pc = "open" /\ Len(history) <= MaxTx
    /\ over \subseteq Tree /\ gone \subseteq Tree \ {meta.root}
    /\ moved => grown
    /\ grown => CanAllocate(fl, MaxPages)
    /\ LET new == IF grown THEN <<NextPage(fl)>> ELSE <<>>
       IN  tx' = [dirtyNodes |-> [p \in Page |-> IF p \in over \cup Range(new) THEN n ELSE NoNode],
                  release |-> SetToSeq(gone), allocatedPages |-> new]
    /\ fl' = IF grown THEN AfterNextPage(fl) ELSE fl
    /\ meta' = IF moved THEN [meta EXCEPT !.root = NextPage(fl)] ELSE meta
    /\ pc' = "tx"
    /\ UNCHANGED <<starts, exists, stream, reply, base, history>>

\* The database that the end of the transaction is to leave.
Leaving(released) ==
    [nodes |-> [p \in Page |-> IF p \in Range(released) THEN NoNode
                               ELSE IF tx'.dirtyNodes[p] # NoNode THEN tx'.dirtyNodes[p]
                               ELSE history[base].nodes[p]],
     fl |-> ReleasePages(fl, released),
     meta |-> meta]

EndTx(released) ==
    /\ FreeListFits(ReleasePages(fl, released)) \/ "longList" \in Situation
    /\ history' = Append(history, Leaving(released))
    /\ pc' = "nodes"
    /\ UNCHANGED <<starts, exists, stream, fl, meta, reply, base>>

BeginCommit == pc = "tx" /\ tx' = tx /\ EndTx(tx.release)

\* A rollback writes no node.  The root is where it was: see module Transactions
\* for a rollback that comes after the root has moved.
BeginRollback ==
    /\ pc = "tx" /\ meta = history[base].meta
    /\ tx' = [NoTx EXCEPT !.release = tx.allocatedPages]
    /\ EndTx(tx.allocatedPages)

\* Tx::commit: the dirty nodes in any order, whether or not they get written,
SaveNode(p) ==
    /\ pc = "nodes" /\ tx.dirtyNodes[p] # NoNode
    /\ \E r \in WritePage(stream, p, SerializeNode(tx.dirtyNodes[p])) : stream' = r.stream
    /\ tx' = [tx EXCEPT !.dirtyNodes = [@ EXCEPT ![p] = NoNode]]
    /\ UNCHANGED <<pc, starts, exists, fl, meta, reply, base, history>>

\* Mutant: the pages are released after the list is written.
SaveFreelist_Mutant ==
    /\ pc = "nodes" /\ Pages(tx.dirtyNodes) = {}
    /\ fl' = ReleasePages(fl, tx.release)
    /\ \E r \in WritePage(stream, meta.freelistPage, SerializeFreeList(fl)) :
           stream' = r.stream
    /\ pc' = "meta"
    /\ UNCHANGED <<starts, exists, meta, tx, reply, base, history>>

\* the free list, with the pages that were deleted, or allocated for nothing,
SaveFreelist ==
    /\ pc = "nodes" /\ Pages(tx.dirtyNodes) = {}
    /\ fl' = ReleasePages(fl, tx.release)
    /\ \E r \in WritePage(stream, meta.freelistPage, SerializeFreeList(fl')) :
           stream' = r.stream
    /\ pc' = "meta"
    /\ UNCHANGED <<starts, exists, meta, tx, reply, base, history>>

\* Mutant: the meta page is not written.
SaveMeta_Mutant ==
    /\ pc = "meta"
    /\ tx' = NoTx /\ reply' = {}
    /\ base' = Len(history)
    /\ pc' = "open"
    /\ UNCHANGED <<starts, exists, stream, fl, meta, history>>

\* and the meta page; the caller learns nothing of what failed.
SaveMeta ==
    /\ pc = "meta"
    /\ \E r \in WritePage(stream, MetaPage, SerializeMeta(meta)) : stream' = r.stream
    /\ tx' = NoTx /\ reply' = {}
    /\ base' = Len(history)
    /\ pc' = "open"
    /\ UNCHANGED <<starts, exists, fl, meta, history>>
-----------------------------------------------------------------------------
Next ==
    \/ Create \/ CreateRoot \/ CreateMeta \/ CreateFreelist
    \/ Open \/ Close \/ Die
    \/ \E p \in Page : GetNode(p) \/ SaveNode(p)
    \/ \E over, gone \in SUBSET Page, n \in Node, grown, moved \in BOOLEAN :
           Transact(over, n, grown, moved, gone)
    \/ BeginCommit \/ BeginRollback
    \/ SaveFreelist \/ SaveMeta

Spec == Init /\ [][Next]_vars
-----------------------------------------------------------------------------
(***************************************************************************)
(* Properties                                                              *)
(***************************************************************************)
\* The type of every variable.
TypeOK ==
    /\ pc \in Phase /\ starts \in 0 .. MaxStarts /\ exists \in BOOLEAN
    /\ stream \in [file : Seq([data : [Position -> Byte], round : Nat]),
                   buffer : Seq([num : 0 .. MaxPages, page : [data : [Position -> Byte], round : Nat]]),
                   good : BOOLEAN]
    /\ fl \in [maxPage : 0 .. MaxPages, releasedPages : Seq(Page)]
    /\ meta \in [freelistPage : {NoPage, FreelistPage}, root : Page \cup {NoPage}]
    /\ tx \in [dirtyNodes : [Page -> Node \cup {NoNode}],
               release : Seq(Page), allocatedPages : Seq(Page)]
    /\ reply \subseteq Page \X (Node \cup {NoNode})
    /\ history \in Seq([nodes : [Page -> Node \cup {NoNode}],
                        fl : [maxPage : Page, releasedPages : Seq(Page)],
                        meta : [freelistPage : {FreelistPage}, root : Page]])
    /\ base \in 0 .. Len(history)

\* The bytes of a file say that it is a database.
Holds(f, d) ==
    /\ DeserializeMeta(f[MetaPage + 1].data) = d.meta
    /\ DeserializeFreeList(f[FreelistPage + 1].data) = d.fl
    /\ \A p \in Pages(d.nodes) :
           p < Len(f) /\ DeserializeNode(f[p + 1].data) = d.nodes[p]

\* A database whose free list hands out no page of the tree, not the one it is
\* on, and none it has not handed out before, and whose root is in the tree.
Sound(d) ==
    /\ d.meta.root \in Pages(d.nodes)
    /\ \A p \in Pages(d.nodes) : p <= d.fl.maxPage /\ p \notin Range(d.fl.releasedPages)
    /\ IsInjective(d.fl.releasedPages)
    /\ \A p \in Range(d.fl.releasedPages) : p # FreelistPage /\ p <= d.fl.maxPage

\* Tx::commit writes its pages in order over the old ones, and a stream that
\* has failed writes nothing more.  So at any time, also between two of these
\* writes, after failures and after a death, a file none of whose pages is newer
\* than its meta page is the database of the transaction that wrote that page,
\* whole and sound.
WholeFileIsDatabase ==
    Whole(stream.file) => \E d \in {history[stream.file[1].round]} :
        Holds(stream.file, d) /\ Sound(d)

\* If no call failed, what a commit or rollback leaves is all in the file,
\* except that the page written last, the meta page, may still be in the buffer
\* (the free list, after the creation of the file).
EndedIsWritten == pc = "open" /\ stream.good =>
    /\ Whole(Flushed(stream)) /\ Holds(Flushed(stream), history[base])
    /\ stream.buffer = <<>>
           \/ stream.buffer[1].num = IF base = 1 THEN FreelistPage ELSE MetaPage

\* Between transactions free list and meta in memory are those of the last
\* transaction, be it of this process or of an earlier one, read from the file.
\* What a start finds after a death in the constructor, if it does not refuse
\* the file, is a free list that has handed out nothing, so that the next page
\* it gives is its own, and no root or the first one.
OpensAsLeft ==
    /\ pc = "open" => fl = history[base].fl /\ meta = history[base].meta
    /\ pc = "torn" /\ stream.file[FreelistPage + 1].round = 0 =>
           NextPage(fl) = FreelistPage /\ meta.root \in {NoPage, FirstRoot}

\* Dal::getNode returns the node that the last transaction left on the page, or
\* nullptr: never an older one, though commit ignores what failed.
ReadsAreCurrent == \A r \in reply :
    r[2] \in {NoNode, history[base].nodes[r[1]]}

\* What follows is about the page format and no state; once is enough.
AtFirst == starts = 0

\* Node::serialize and Node::deserialize: a node that leaves a byte of its page
\* unused, with keys and values no longer than a char counts, is written inside
\* its buffer and reads back as it was.
NodeRoundTrip == AtFirst => \A n \in SomeNodes : NodeFits(n) => NodeReadsBack(n)

\* writeIntToStream and readIntFromStream keep exactly the numbers below the
\* sign bit of an int; FreeList::serialize and deserialize keep the lists of such
\* numbers that fit the page.
NumbersRoundTrip == AtFirst =>
    /\ \A n \in SomeNumbers : LongReadsBack(n) <=> LongFits(n)
    /\ \A f \in SomeLists : FreeListFits(f) => FreeListReadsBack(f)
-----------------------------------------------------------------------------
(***************************************************************************)
(* The inductive invariant behind these properties.                        *)
(***************************************************************************)
\* The databases that transactions meant to leave are sound, and their lists fit.
Database == [nodes : [Page -> Node \cup {NoNode}],
             fl : [maxPage : Page, releasedPages : Seq(Page)],
             meta : [freelistPage : {FreelistPage}, root : Page]]
Databases(h) ==
    /\ h \in Seq(Database) /\ Len(h) > 0
    /\ h[1] = NewDatabase
    /\ \A i \in DOMAIN h : Sound(h[i]) /\ FreeListFits(h[i].fl)
HistoryInv == Databases(history)

Latest == history[Len(history)]

\* What a page of a file holds, a hole if it is not there.
Stored(f, p) == IF p < Len(f) THEN f[p + 1] ELSE Hole
HasTree(f, nodes) == \A p \in Pages(nodes) :
    p < Len(f) /\ Stored(f, p).data = SerializeNode(nodes[p])

\* Every page of a file is a hole or what the transaction of its round wrote.
\* The free list is there before any transaction; and if the file is whole, it
\* has the tree that its meta page speaks of.
FileOf(f, h) ==
    /\ f = [i \in 1 .. Len(f) |-> f[i]] /\ Len(f) \in {0} \cup (FirstRoot + 1) .. (MaxPages + 1)
    /\ \A p \in 0 .. MaxPages : Stored(f, p).round \in 0 .. Len(h)
                                /\ (Stored(f, p).round = 0 => Stored(f, p) = Hole)
    /\ Stored(f, MetaPage).round > 0 =>
           Stored(f, MetaPage).data = SerializeMeta(h[Stored(f, MetaPage).round].meta)
    /\ IF Stored(f, FreelistPage).round > 0
       THEN Stored(f, FreelistPage).data = SerializeFreeList(h[Stored(f, FreelistPage).round].fl)
       ELSE Stored(f, MetaPage).round <= 1
    /\ Whole(f) => HasTree(f, h[Stored(f, MetaPage).round].nodes)

\* The stream has at most one page in its buffer, none once it has failed; its
\* file is as above, with or without that page.
StreamOf(s, h) ==
    /\ s = [file |-> s.file, buffer |-> s.buffer, good |-> s.good] /\ s.good \in BOOLEAN
    /\ \/ s.buffer = <<>>
       \/ /\ s.good /\ s.buffer[1].num \in 0 .. MaxPages
          /\ s.buffer = << [num |-> s.buffer[1].num, page |-> s.buffer[1].page] >>
    /\ FileOf(s.file, h) /\ FileOf(Flushed(s), h)

\* If no call has failed, the file with the buffered page is as far as the
\* process is.
Saved(f) ==
    /\ pc \in {"newMeta", "newFreelist"} =>
           /\ Stored(f, MetaPage).round = IF pc = "newMeta" THEN 0 ELSE 1
           /\ Stored(f, FreelistPage).round = 0
           /\ HasTree(f, NewDatabase.nodes)
    /\ pc \in {"open", "tx"} => Whole(f) /\ Stored(f, MetaPage).round = base
    /\ pc \in {"nodes", "meta"} => Stored(f, MetaPage).round < Len(history)
    /\ pc = "nodes" => HasTree(f, [p \in Page |-> IF tx.dirtyNodes[p] = NoNode
                                                 THEN Latest.nodes[p] ELSE NoNode])
    /\ pc = "meta" => /\ Stored(f, FreelistPage).round = Len(history)
                      /\ HasTree(f, Latest.nodes)

StreamInv == StreamOf(stream, history) /\ (stream.good => Saved(Flushed(stream)))

\* The transaction in memory, on the database d: it has taken at most one page.
TxOn(d) ==
    /\ tx \in [dirtyNodes : [Page -> Node \cup {NoNode}],
               release : Seq(Page), allocatedPages : Seq(Page)]
    /\ \/ tx.allocatedPages = <<>> /\ fl = d.fl /\ meta = d.meta
       \/ /\ CanAllocate(d.fl, MaxPages)
          /\ tx.allocatedPages = <<NextPage(d.fl)>> /\ fl = AfterNextPage(d.fl)
          /\ meta \in {d.meta, [d.meta EXCEPT !.root = NextPage(d.fl)]}
    /\ Pages(tx.dirtyNodes) \subseteq Pages(d.nodes) \cup Range(tx.allocatedPages)
    /\ Range(tx.allocatedPages) \subseteq Pages(tx.dirtyNodes)
    /\ Range(tx.release) \subseteq Pages(d.nodes) \ {d.meta.root} /\ IsInjective(tx.release)

\* What is in memory, by what the process is doing.
MemoryInv ==
    /\ pc \in Phase /\ exists \in BOOLEAN
    /\ ~exists => pc = "down"
    /\ ~exists \/ pc = "newRoot" => stream = Closed
    /\ pc = "down" => stream.buffer = <<>> /\ stream.good
                      /\ fl = EmptyFreeList /\ meta = NoMeta
    /\ pc \in {"down", "newRoot", "newMeta", "newFreelist", "torn"} => reply = {} /\ tx = NoTx
    /\ pc = "open" => tx = NoTx
    /\ ~exists \/ pc \in {"newRoot", "newMeta", "newFreelist"} => history = <<NewDatabase>>
    /\ pc = "newRoot" => fl = AfterNextPage(EmptyFreeList)
                         /\ meta = [freelistPage |-> FreelistPage, root |-> NoPage]
    /\ pc \in {"newMeta", "newFreelist"} => fl = NewFreeList /\ meta = NewDatabase.meta /\ stream.good
    /\ pc \in {"open", "tx", "nodes", "meta"} => base \in 1 .. Len(history)
    /\ pc = "tx" => TxOn(history[base])
    /\ pc \in {"nodes", "meta"} => base < Len(history) /\ meta = Latest.meta
    /\ pc = "nodes" => /\ tx = [dirtyNodes |-> tx.dirtyNodes, release |-> tx.release,
                               allocatedPages |-> tx.allocatedPages]
                       /\ tx.dirtyNodes \in [Page -> Node \cup {NoNode}]
                       /\ ReleasePages(fl, tx.release) = Latest.fl
                       /\ \A p \in Pages(tx.dirtyNodes) : Latest.nodes[p] \in {NoNode, tx.dirtyNodes[p]}
    /\ pc = "meta" => fl = Latest.fl

PageFileInv ==
    HistoryInv /\ MemoryInv /\ StreamInv /\ EndedIsWritten /\ OpensAsLeft /\ ReadsAreCurrent
=============================================================================
