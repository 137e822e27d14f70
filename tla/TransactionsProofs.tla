------------------------- MODULE TransactionsProofs -------------------------
(***************************************************************************)
(* Theorems of Transactions, for any threads, nodes and bounds.  The       *)
(* lemmas of FreeListProofs say what the page allocator does.              *)
(***************************************************************************)
EXTENDS Transactions, FreeListProofs

\* The pages that the constructor of Dal takes.
LEMMA FirstPages == FreelistPage = 1 /\ FirstRoot = 2
BY DEF FreelistPage, FirstRoot, NextPage, AfterNextPage, EmptyFreeList, InitialPage, Last

\* Pages are numbers; zero stands for none.
LEMMA PageFacts ==
    /\ Page \subseteq Nat
    /\ FirstRoot \in Page
    /\ \A n \in Nat : n \in Page <=> 2 <= n /\ n <= MaxPages
    /\ NoPage \notin Page /\ NoPage \in Nat
BY FirstPages, ConstantsAssumption DEF Page, NoPage

\* The free list of a new file.
LEMMA NewFreeListFacts ==
    /\ NewFreeList = [maxPage |-> 2, releasedPages |-> <<>>]
    /\ NewFreeList \in FreeLists
<1>1. AfterNextPage(EmptyFreeList) = [maxPage |-> 1, releasedPages |-> <<>>]
    BY DEF AfterNextPage, EmptyFreeList, InitialPage
<1>2. AfterNextPage([maxPage |-> 1, releasedPages |-> <<>>])
          = [maxPage |-> 2, releasedPages |-> <<>>]
    BY DEF AfterNextPage
<1>3. NewFreeList = [maxPage |-> 2, releasedPages |-> <<>>]
    BY <1>1, <1>2 DEF NewFreeList
<1> QED BY <1>3, FirstPages, PageFacts, EmptySeq DEF FreeLists

\* Lemmas of FreeListProofs for a free list whose pages are pages of the file.
LEMMA TakeInFile ==
    ASSUME NEW f \in FreeLists,
           CanAllocate(f, MaxPages)
    PROVE  /\ NextPage(f) \in Page
           /\ AfterNextPage(f) \in FreeLists
<1> USE DEF FreeLists
<1> f \in [maxPage : Nat, releasedPages : Seq(Page)]
    BY PageFacts
<1>1. CASE f.releasedPages = <<>>
  <2>1. f.maxPage \in Page /\ f.maxPage < MaxPages
      BY <1>1 DEF CanAllocate
  <2>2. f.maxPage + 1 \in Page
      BY <2>1, PageFacts, ConstantsAssumption
  <2> QED BY <1>1, <2>2, TakeFresh
<1>2. CASE f.releasedPages # <<>>
  <2>1. NextPage(f) \in Page
    <3>1. /\ Len(f.releasedPages) \in 1 .. Len(f.releasedPages)
        BY <1>2, EmptySeq, LenProperties
    <3> QED BY <1>2, <3>1, ElementOfSeq DEF NextPage, Last
  <2>2. Front(f.releasedPages) \in Seq(Page)
    <3>1. Len(f.releasedPages) \in Nat
        BY LenProperties
    <3>2. \A i \in 1 .. Len(f.releasedPages) - 1 : f.releasedPages[i] \in Page
        BY <3>1, ElementOfSeq
    <3> QED BY <3>1, <3>2, SubSeqProperties DEF Front
  <2> QED BY <1>2, <2>1, <2>2 DEF AfterNextPage
<1> QED BY <1>1, <1>2

\* Pages given back.
LEMMA ReleaseInFile ==
    ASSUME NEW f \in FreeLists,
           NEW pages \in Seq(Page)
    PROVE  ReleasePages(f, pages) \in FreeLists
BY ConcatProperties DEF ReleasePages, FreeLists

\* A new transaction, and a new file.
LEMMA NewTxFacts == NewTx \in TxState /\ NewFile \in Store
BY EmptySeq, ConstantsAssumption DEF NewTx, NewFile, TxState, Store

\* The methods of Tx keep the type of its members.
LEMMA TxMethods ==
    ASSUME NEW x \in TxState, NEW p \in Page, NEW n \in Node
    PROVE  /\ Dirtied(x, p, n) \in TxState
           /\ Allocating(x, p, n) \in TxState
           /\ Deleting(x, p) \in TxState
<1>1. Dirtied(x, p, n) \in TxState
    BY DEF Dirtied, TxState
<1>2. \A s \in Seq(Page) : Append(s, p) \in Seq(Page)
    BY AppendProperties
<1>3. \A y \in TxState : [y EXCEPT !.allocatedPages = Append(@, p)] \in TxState
    BY <1>2 DEF TxState
<1>4. Deleting(x, p) \in TxState
    BY <1>2 DEF Deleting, TxState
<1> QED BY <1>1, <1>3, <1>4 DEF Allocating

\* A transaction sees a store.
LEMMA ViewType ==
    ASSUME TypeOK, NEW t \in Thread
    PROVE  View(t) \in Store
<1>1. tx[t].dirtyNodes \in Store /\ committed \in Store
    BY DEF TypeOK, TxState, Store
<1> QED BY <1>1 DEF View, Store
-----------------------------------------------------------------------------
(***************************************************************************)
(* Types                                                                   *)
(***************************************************************************)
LEMMA TypeStep ==
    ASSUME TypeOK, [Next]_vars
    PROVE  TypeOK'
<1> USE DEF TypeOK
<1>1. CASE UNCHANGED vars
    BY <1>1 DEF vars, memory, disk, reads
<1>2. ASSUME NEW t \in Thread, NEW phase \in {"waitRead", "waitWrite"}, Request(t, phase)
      PROVE  TypeOK'
    BY <1>2 DEF Request, memory, disk, reads, Phase
<1>3. ASSUME NEW t \in Thread, Acquire(t)
      PROVE  TypeOK'
    BY <1>3 DEF Acquire, AcquireRead, AcquireWrite, memory, disk, reads, Phase
<1>4. ASSUME NEW t \in Thread, NEW p \in Page, GetDirtyNode(t, p)
      PROVE  TypeOK'
  <2>1. tx[t].dirtyNodes[p] \in Node \cup {NoNode}
      BY DEF TxState
  <2> QED BY <1>4, <2>1 DEF GetDirtyNode, memory, disk
<1>5. ASSUME NEW t \in Thread, NEW p \in Page, SeekPage(t, p)
      PROVE  TypeOK'
    BY <1>5, PageFacts DEF SeekPage, memory, disk
<1>6. ASSUME NEW t \in Thread, ReadPage(t)
      PROVE  TypeOK'
  <2>1. fetching[t] \in Page
      BY <1>6 DEF ReadPage
  <2>2. (IF filePos \in Page THEN file[filePos] ELSE NoNode) \in Node \cup {NoNode}
      BY DEF Store
  <2> QED BY <1>6, <2>1, <2>2 DEF ReadPage, memory, disk
<1>7. ASSUME NEW t \in Thread, NEW p \in Page, NEW n \in Node, WriteNode(t, p, n)
      PROVE  TypeOK'
    BY <1>7, TxMethods DEF WriteNode, disk, reads
<1>8. ASSUME NEW t \in Thread, NEW n \in Node, CreateNode(t, n) \/ GrowRoot(t, n)
      PROVE  TypeOK'
  <2>1. NextPage(fl) \in Page /\ AfterNextPage(fl) \in FreeLists
      BY <1>8, TakeInFile DEF CreateNode, GrowRoot, TakePage
  <2> QED BY <1>8, <2>1, TxMethods DEF CreateNode, GrowRoot, TakePage, disk, reads
<1>9. ASSUME NEW t \in Thread, NEW p \in Page, DeleteNode(t, p) \/ ShrinkRoot(t, p)
      PROVE  TypeOK'
  <2>1. Node # {}
      BY ConstantsAssumption
  <2> QED BY <1>9, <2>1, TxMethods DEF DeleteNode, ShrinkRoot, disk, reads
<1>10. ASSUME NEW t \in Thread, EndRead(t) \/ Abandon(t)
       PROVE  TypeOK'
    BY <1>10, NewTxFacts DEF EndRead, Abandon, Close, Clean, Unlock, disk, Phase
<1>11. ASSUME NEW t \in Thread, BeginCommit(t)
       PROVE  TypeOK'
  <2>1. Dirty(t) \subseteq Page
      BY DEF Dirty, Pages, TxState
  <2> QED BY <1>11, <2>1 DEF BeginCommit, disk, reads, Phase
<1>12. ASSUME NEW t \in Thread, BeginRollback(t)
       PROVE  TypeOK'
  <2>1. ReleasePages(fl, tx[t].allocatedPages) \in FreeLists
      BY ReleaseInFile DEF TxState
  <2> QED BY <1>12, <2>1, FirstPages DEF BeginRollback, ToReturn, WriteFreelist, Phase
<1>13. ASSUME NEW t \in Thread, NEW p \in Page, SaveNode(t, p)
       PROVE  TypeOK'
  <2>1. tx[t].dirtyNodes[p] \in Node \cup {NoNode} /\ p + 1 \in Nat
      BY PageFacts DEF TxState
  <2>2. file' \in Store
      BY <1>13, <2>1 DEF SaveNode, Store
  <2> QED BY <1>13, <2>1, <2>2 DEF SaveNode
<1>14. ASSUME NEW t \in Thread, SaveFreelist(t)
       PROVE  TypeOK'
  <2>1. ReleasePages(fl, tx[t].pagesToDelete) \in FreeLists
      BY ReleaseInFile DEF TxState
  <2> QED BY <1>14, <2>1, FirstPages DEF SaveFreelist, WriteFreelist, Phase
<1>15. ASSUME NEW t \in Thread, SaveMeta(t) \/ FinishRollback(t)
       PROVE  TypeOK'
    BY <1>15, ViewType, NewTxFacts DEF SaveMeta, FinishRollback, WriteMeta, Close, Clean, Unlock, Phase
<1>16. ASSUME Crash
       PROVE  TypeOK'
    BY <1>16, FirstPages, NewTxFacts DEF Crash, Unlocked, disk, Phase
<1> QED
    BY <1>1, <1>2, <1>3, <1>4, <1>5, <1>6, <1>7, <1>8, <1>9, <1>10, <1>11, <1>12,
       <1>13, <1>14, <1>15, <1>16 DEF Next, Operate, End, Finish

\* Every variable keeps its type.
THEOREM TypeCorrect == Spec => []TypeOK
<1>1. Init => TypeOK
    BY PageFacts, NewTxFacts, NewFreeListFacts, ConstantsAssumption
    DEF Init, TypeOK, Phase, Unlocked
<1>2. TypeOK /\ [Next]_vars => TypeOK'
    BY TypeStep
<1> QED BY <1>1, <1>2, PTL DEF Spec
-----------------------------------------------------------------------------
(***************************************************************************)
(* The read-write lock                                                     *)
(***************************************************************************)
LEMMA LockStep ==
    ASSUME TypeOK, LockInv, [Next]_vars
    PROVE  LockInv'
<1> USE DEF TypeOK, LockInv, Phase, Writing
<1> USE ConstantsAssumption
<1>1. CASE UNCHANGED <<pc, rwlock>>
    BY <1>1
<1>2. ASSUME NEW t \in Thread, NEW phase \in {"waitRead", "waitWrite"}, Request(t, phase)
      PROVE  LockInv'
    BY <1>2 DEF Request
<1>3. ASSUME NEW t \in Thread, AcquireRead(t)
      PROVE  LockInv'
    BY <1>3 DEF AcquireRead, MayShare
<1>4. ASSUME NEW t \in Thread, AcquireWrite(t)
      PROVE  LockInv'
    BY <1>4 DEF AcquireWrite, MayOwn, Unlocked
<1>5. ASSUME NEW t \in Thread, pc[t] \in {"read"} \cup Writing, Close(t)
      PROVE  LockInv'
    BY <1>5 DEF Close, Clean, Unlock
<1>6. ASSUME NEW t \in Thread, BeginCommit(t) \/ BeginRollback(t) \/ SaveFreelist(t)
      PROVE  LockInv'
    BY <1>6 DEF BeginCommit, BeginRollback, SaveFreelist
<1>7. ASSUME Crash
      PROVE  LockInv'
    BY <1>7 DEF Crash, Unlocked
<1>8. ASSUME NEW t \in Thread, Operate(t) \/ \E p \in Page : SaveNode(t, p)
      PROVE  UNCHANGED <<pc, rwlock>>
    BY <1>8 DEF Operate, GetDirtyNode, SeekPage, ReadPage, WriteNode, CreateNode,
                GrowRoot, DeleteNode, ShrinkRoot, SaveNode
<1>9. ASSUME NEW t \in Thread, EndRead(t) \/ SaveMeta(t) \/ FinishRollback(t) \/ Abandon(t)
      PROVE  pc[t] \in {"read"} \cup Writing /\ Close(t)
    BY <1>9 DEF EndRead, SaveMeta, FinishRollback, Abandon
<1> QED
  <2>1. UNCHANGED vars => UNCHANGED <<pc, rwlock>>
      BY DEF vars
  <2> QED
      BY <2>1, <1>1, <1>2, <1>3, <1>4, <1>5, <1>6, <1>7, <1>8, <1>9
      DEF Next, Acquire, End, Finish

\* The lock keeps everybody else out of a transaction that writes.
LEMMA LockAlone ==
    ASSUME TypeOK, LockInv, NEW t \in Thread, pc[t] \in Writing
    PROVE  \A u \in Thread \ {t} : pc[u] \notin {"read"} \cup Writing
BY ConstantsAssumption DEF LockInv, TypeOK

\* Locks and program counters agree throughout.
LEMMA LockCorrect == Spec => [](TypeOK /\ LockInv)
<1>1. Init => LockInv
    BY ConstantsAssumption DEF Init, LockInv, Unlocked, Writing
<1>2. TypeOK /\ LockInv /\ [Next]_vars => LockInv'
    BY LockStep
<1> QED BY <1>1, <1>2, TypeCorrect, PTL DEF Spec

\* A write transaction is alone, for any number of threads and whatever they
\* do with their transactions: abandon them, roll them back, crash.
THEOREM WriterAlone == Spec => []WriterIsAlone
<1>1. TypeOK /\ LockInv => WriterIsAlone
    BY LockAlone DEF WriterIsAlone
<1> QED BY <1>1, LockCorrect, PTL
-----------------------------------------------------------------------------
(***************************************************************************)
(* One owner for every page                                                *)
(***************************************************************************)
\* The pages that are not free.
Held == Pages(committed) \cup UNION {Allocated(u) : u \in Thread}

\* The sets of pages, typed.
LEMMA OwnerTypes ==
    ASSUME TypeOK
    PROVE  /\ Pages(committed) \subseteq Page
           /\ Range(fl.releasedPages) \subseteq Page
           /\ \A u \in Thread : /\ tx[u].allocatedPages \in Seq(Page)
                                /\ tx[u].pagesToDelete \in Seq(Page)
                                /\ Allocated(u) \cup Deleted(u) \cup Dirty(u) \subseteq Page
<1>1. \A q \in Seq(Page) : Range(q) \subseteq Page
    BY LenProperties, ElementOfSeq DEF Range
<1>2. Pages(committed) \subseteq Page
    BY DEF TypeOK, Store, Pages
<1>3. Range(fl.releasedPages) \subseteq Page
    BY <1>1 DEF TypeOK, FreeLists
<1>4. \A u \in Thread : /\ tx[u].allocatedPages \in Seq(Page)
                        /\ tx[u].pagesToDelete \in Seq(Page)
                        /\ tx[u].dirtyNodes \in [Page -> Node \cup {NoNode}]
    BY DEF TypeOK, TxState
<1> QED BY <1>1, <1>2, <1>3, <1>4 DEF Allocated, Deleted, Dirty, Pages

\* No commit or rollback is under way: nothing has been given back.
LEMMA NothingGivenBack ==
    ASSUME \A u \in Thread : pc[u] \notin {"meta", "undo"}
    PROVE  InUse = Held /\ \A u \in Thread : GivenBack(u) = {}
BY DEF InUse, Held, GivenBack

\* While a write transaction is open, only it and the tree hold pages.
LEMMA OnlyWriterHolds ==
    ASSUME TypeOK, LockInv, TxInv, NEW t \in Thread, pc[t] \in Writing
    PROVE  /\ \A u \in Thread \ {t} : tx[u] = NewTx /\ Allocated(u) = {} /\ GivenBack(u) = {}
           /\ Held = Pages(committed) \cup Allocated(t)
           /\ InUse = (Pages(committed) \cup Allocated(t)) \ GivenBack(t)
<1>1. \A u \in Thread \ {t} : tx[u] = NewTx /\ Allocated(u) = {} /\ GivenBack(u) = {}
  <2> SUFFICES ASSUME NEW u \in Thread \ {t}
               PROVE  tx[u] = NewTx /\ Allocated(u) = {} /\ GivenBack(u) = {}
      OBVIOUS
  <2>1. pc[u] \notin {"read"} \cup Writing
      BY LockAlone
  <2>2. tx[u] = NewTx
      BY <2>1 DEF TxInv, TxInvOf
  <2>3. Allocated(u) = {}
      BY <2>2 DEF Allocated, NewTx, Range
  <2>4. GivenBack(u) = {}
      BY <2>1 DEF GivenBack, Writing
  <2> QED BY <2>2, <2>3, <2>4
<1> QED BY <1>1 DEF Held, InUse

\* Steps that leave dirty sets, free lists and the tree alone, and neither end
\* a transaction nor begin or complete giving pages back.
LEMMA OwnerFrame ==
    ASSUME OwnerInv, UNCHANGED <<tx, fl, fileFl, committed>>,
           \A u \in Thread :
               \/ pc'[u] = pc[u]
               \/ pc[u] = "idle" /\ pc'[u] \in {"waitRead", "waitWrite"}
               \/ pc[u] \in {"waitRead", "waitWrite"} /\ pc'[u] \in {"read", "write"}
               \/ pc[u] = "write" /\ pc'[u] = "nodes"
    PROVE  TxInv' /\ OnePageOneOwner' /\ FileFlInv'
<1>1. TxInv'
    BY DEF OwnerInv, TxInv, TxInvOf, Dirty, Deleted, Allocated, Writing
<1>2. \A u \in Thread : GivenBack(u)' = GivenBack(u) /\ Allocated(u)' = Allocated(u)
    BY DEF GivenBack, Allocated, Deleted
<1>3. InUse' = InUse
    BY <1>2 DEF InUse
<1>4. OnePageOneOwner'
    BY <1>2, <1>3 DEF OwnerInv, OnePageOneOwner
<1>5. FileFlInv'
    BY DEF OwnerInv, FileFlInv, Committing
<1> QED BY <1>1, <1>4, <1>5

\* A step that changes one transaction.
LEMMA OwnerOfOthers ==
    ASSUME OwnerInv, NEW t \in Thread,
           UNCHANGED committed,
           \A u \in Thread \ {t} : tx'[u] = tx[u] /\ pc'[u] = pc[u],
           TxInvOf(t)'
    PROVE  /\ TxInv'
           /\ \A u \in Thread \ {t} : /\ Allocated(u)' = Allocated(u)
                                      /\ GivenBack(u)' = GivenBack(u)
<1>1. ASSUME NEW u \in Thread, u # t PROVE TxInvOf(u)'
    BY <1>1 DEF OwnerInv, TxInv, TxInvOf, Dirty, Deleted, Allocated
<1>2. TxInv'
    BY <1>1 DEF TxInv
<1> QED BY <1>2 DEF Allocated, GivenBack, Deleted

\* A node is written.
LEMMA OwnerWriteNode ==
    ASSUME OwnerInv, NEW t \in Thread, NEW p \in Page, NEW n \in Node, WriteNode(t, p, n)
    PROVE  TxInv' /\ OnePageOneOwner' /\ FileFlInv'
<1> USE DEF OwnerInv
<1>1. /\ tx' = [tx EXCEPT ![t] = Dirtied(tx[t], p, n)]
      /\ UNCHANGED <<pc, fl, fileFl, committed>>
    BY DEF WriteNode, disk
<1>2. p \in Pages(committed) \cup Allocated(t)
  <2>1. p \in Dirty(t) \/ p \in Pages(committed)
      BY DEF WriteNode, InTree, View, Dirty, Deleted, Pages, TypeOK, TxState, Store
  <2> QED BY <2>1 DEF TxInv, TxInvOf
<1>3. /\ Allocated(t)' = Allocated(t) /\ Deleted(t)' = Deleted(t)
      /\ tx'[t].allocatedPages = tx[t].allocatedPages
      /\ tx'[t].pagesToDelete = tx[t].pagesToDelete
      /\ Dirty(t)' \subseteq Dirty(t) \cup {p}
  <2>1. tx'[t] = Dirtied(tx[t], p, n) /\ tx[t] \in TxState
      BY <1>1 DEF TypeOK
  <2> QED BY <2>1 DEF Dirtied, Allocated, Deleted, Dirty, Pages, TxState
<1>4. \A u \in Thread \ {t} : tx'[u] = tx[u]
    BY <1>1 DEF TypeOK
<1>5. TxInvOf(t)'
  <2>1. pc[t] \in {"read"} \cup Writing
      BY DEF WriteNode, CanChange, CanOperate, Writing
  <2> QED BY <2>1, <1>1, <1>2, <1>3 DEF TxInv, TxInvOf
<1>6. TxInv' /\ \A u \in Thread : Allocated(u)' = Allocated(u) /\ GivenBack(u)' = GivenBack(u)
  <2>1. GivenBack(t)' = GivenBack(t)
      BY <1>1, <1>3 DEF GivenBack
  <2> QED BY <2>1, <1>1, <1>3, <1>4, <1>5, OwnerOfOthers
<1>7. InUse' = InUse
    BY <1>1, <1>6 DEF InUse
<1> QED BY <1>1, <1>6, <1>7 DEF OnePageOneOwner, FileFlInv

\* A page is put on the list of pages to delete.
LEMMA OwnerDelete ==
    ASSUME OwnerInv, NEW t \in Thread, NEW p \in Page, CanChange(t), InTree(t, p),
           tx' = [tx EXCEPT ![t] = Deleting(@, p)],
           UNCHANGED <<pc, fl, fileFl, committed>>
    PROVE  TxInv' /\ OnePageOneOwner' /\ FileFlInv'
<1> USE DEF OwnerInv
<1>1. p \notin Deleted(t) /\ p \in Pages(committed) \cup Allocated(t)
  <2>1. p \in Dirty(t) \/ p \in Pages(committed)
      BY DEF InTree, View, Dirty, Deleted, Pages, TypeOK, TxState, Store
  <2>2. p \notin Deleted(t)
      BY DEF InTree, View, Deleted
  <2> QED BY <2>1, <2>2 DEF TxInv, TxInvOf
<1>2. pc[t] \in {"read", "write"}
    BY DEF CanChange, CanOperate
<1>3. /\ tx'[t].pagesToDelete = Append(tx[t].pagesToDelete, p)
      /\ tx'[t].allocatedPages = tx[t].allocatedPages
      /\ tx'[t].dirtyNodes = tx[t].dirtyNodes
      /\ tx[t].pagesToDelete \in Seq(Page)
    BY DEF TypeOK, TxState, Deleting
<1>4. /\ Allocated(t)' = Allocated(t) /\ Dirty(t)' = Dirty(t)
      /\ Deleted(t)' = Deleted(t) \cup {p}
      /\ IsInjective(tx'[t].pagesToDelete)
  <2>1. Range(Append(tx[t].pagesToDelete, p)) = Deleted(t) \cup {p}
      BY <1>3, Push DEF Deleted
  <2>2. IsInjective(Append(tx[t].pagesToDelete, p))
      BY <1>1, <1>3, Push DEF Deleted, TxInv, TxInvOf
  <2> QED BY <1>3, <2>1, <2>2 DEF Allocated, Dirty, Deleted
<1>5. TxInvOf(t)'
    BY <1>1, <1>2, <1>3, <1>4 DEF TxInv, TxInvOf, Writing
<1>6. \A u \in Thread \ {t} : tx'[u] = tx[u]
    BY DEF TypeOK
<1>7. TxInv' /\ \A u \in Thread : Allocated(u)' = Allocated(u) /\ GivenBack(u)' = GivenBack(u)
  <2>1. GivenBack(t)' = {} /\ GivenBack(t) = {}
      BY <1>2 DEF GivenBack
  <2> QED BY <2>1, <1>4, <1>5, <1>6, OwnerOfOthers
<1>8. InUse' = InUse
    BY <1>7 DEF InUse
<1> QED BY <1>7, <1>8 DEF OnePageOneOwner, FileFlInv

\* A new node takes a page of the free list, which nobody holds.
LEMMA OwnerTake ==
    ASSUME OwnerInv, NEW t \in Thread, NEW n \in Node, CanChange(t), TakePage(t, n),
           UNCHANGED <<pc, fileFl, committed>>
    PROVE  TxInv' /\ OnePageOneOwner' /\ FileFlInv'
<1> DEFINE p == NextPage(fl)
           free == Range(fl.releasedPages)
<1> USE DEF OwnerInv
<1>1. /\ tx' = [tx EXCEPT ![t] = Allocating(tx[t], p, n)]
      /\ fl' = AfterNextPage(fl) /\ p \in Page
    BY TakeInFile DEF TakePage, TypeOK
<1>2. pc[t] \in {"read", "write"} /\ \A u \in Thread : pc[u] \notin {"meta", "undo", "nodes"}
  <2>1. pc[t] \in {"read", "write"}
      BY DEF CanChange, CanOperate
  <2>2. ASSUME NEW u \in Thread, pc[u] \in {"meta", "undo", "nodes"} PROVE FALSE
      BY <2>1, <2>2, LockAlone DEF Writing
  <2> QED BY <2>1, <2>2
<1>3. InUse = Held /\ \A u \in Thread : GivenBack(u) = {}
    BY <1>2, NothingGivenBack
<1>4. /\ IsInjective(fl'.releasedPages)
      /\ Range(fl'.releasedPages) = free \ {p}
      /\ fl'.maxPage \in Nat /\ fl.maxPage \in Nat /\ fl.maxPage <= fl'.maxPage
      /\ p \in free \/ (p = fl.maxPage + 1 /\ fl'.maxPage = p)
  <2>1. fl \in [maxPage : Nat, releasedPages : Seq(Page)]
      BY PageFacts DEF TypeOK, FreeLists
  <2>2. IsInjective(fl.releasedPages)
      BY DEF OnePageOneOwner
  <2>3. /\ IsInjective(AfterNextPage(fl).releasedPages)
        /\ Range(AfterNextPage(fl).releasedPages) = free \ {p}
        /\ \/ p \in free /\ AfterNextPage(fl).maxPage = fl.maxPage
           \/ p = fl.maxPage + 1 /\ AfterNextPage(fl).maxPage = fl.maxPage + 1
      BY <2>1, <2>2, Take
  <2>4. fl.maxPage \in Nat
      BY <2>1
  <2>5. fl' = AfterNextPage(fl)
      BY <1>1
  <2>6. /\ IsInjective(fl'.releasedPages)
        /\ Range(fl'.releasedPages) = free \ {p}
        /\ \/ p \in free /\ fl'.maxPage = fl.maxPage
           \/ p = fl.maxPage + 1 /\ fl'.maxPage = fl.maxPage + 1
      BY <2>3, <2>5, Zenon
  <2> QED BY <2>4, <2>6
<1>5. p \notin Held /\ \A q \in Held \cup (free \ {p}) \cup {p} : q <= fl'.maxPage
  <2>1. Held \cup free \subseteq Nat
      BY PageFacts, OwnerTypes DEF Held
  <2>2. \A q \in Held \cup free : q <= fl.maxPage
      BY <1>3 DEF OnePageOneOwner
  <2>3. p \notin Held
      BY <1>3, <1>4, <2>1, <2>2 DEF OnePageOneOwner
  <2> QED BY <1>4, <2>1, <2>2, <2>3
<1>6. /\ tx'[t].allocatedPages = Append(tx[t].allocatedPages, p)
      /\ tx'[t].pagesToDelete = tx[t].pagesToDelete
      /\ tx'[t].dirtyNodes = [tx[t].dirtyNodes EXCEPT ![p] = n]
      /\ tx[t].allocatedPages \in Seq(Page)
      /\ tx[t].dirtyNodes \in [Page -> Node \cup {NoNode}]
    BY <1>1 DEF TypeOK, TxState, Allocating, Dirtied
<1>7. /\ Allocated(t)' = Allocated(t) \cup {p} /\ Deleted(t)' = Deleted(t)
      /\ Dirty(t)' \subseteq Dirty(t) \cup {p}
      /\ IsInjective(tx'[t].allocatedPages)
  <2>1. p \notin Allocated(t)
      BY <1>5 DEF Held
  <2>2. Dirty(t)' \subseteq Dirty(t) \cup {p}
      BY <1>6 DEF Dirty, Pages
  <2>3. /\ Range(Append(tx[t].allocatedPages, p)) = Allocated(t) \cup {p}
        /\ IsInjective(Append(tx[t].allocatedPages, p))
      BY <1>1, <1>6, <2>1, Push DEF Allocated, TxInv, TxInvOf
  <2> QED BY <1>6, <2>2, <2>3 DEF Allocated, Deleted
<1>8. TxInvOf(t)'
    BY <1>2, <1>6, <1>7 DEF TxInv, TxInvOf, Writing
<1>9. \A u \in Thread \ {t} : tx'[u] = tx[u]
    BY <1>1 DEF TypeOK
<1>10. TxInv' /\ \A u \in Thread \ {t} : Allocated(u)' = Allocated(u)
    BY <1>8, <1>9, OwnerOfOthers
<1>11. InUse' = Held \cup {p}
  <2>1. \A u \in Thread : GivenBack(u)' = {}
      BY <1>2 DEF GivenBack
  <2> QED BY <2>1, <1>7, <1>10 DEF InUse, Held
<1>12. OnePageOneOwner'
  <2>1. p \notin Pages(committed) /\ \A u \in Thread : p \notin Allocated(u)
      BY <1>5 DEF Held
  <2>2. Range(fl'.releasedPages) \cap InUse' = {}
      BY <1>3, <1>4, <1>11 DEF OnePageOneOwner
  <2>3. \A u \in Thread : Allocated(u)' \cap Pages(committed)' = {}
      BY <1>7, <1>10, <2>1 DEF OnePageOneOwner
  <2>4. \A u, v \in Thread : u # v => Allocated(u)' \cap Allocated(v)' = {}
      BY <1>7, <1>10, <2>1 DEF OnePageOneOwner
  <2> QED BY <1>4, <1>5, <1>11, <2>2, <2>3, <2>4 DEF OnePageOneOwner
<1>13. FileFlInv'
    BY <1>2 DEF FileFlInv
<1> QED BY <1>10, <1>12, <1>13

\* A Tx that has been cleaned holds nothing.
LEMMA CleanTx ==
    ASSUME NEW t \in Thread, tx'[t] = NewTx
    PROVE  TxInvOf(t)' /\ Allocated(t)' = {}
<1>1. Allocated(t)' = {} /\ Deleted(t)' = {} /\ Dirty(t)' = {}
    BY DEF NewTx, Allocated, Deleted, Dirty, Pages, Range
<1>2. IsInjective(tx'[t].allocatedPages) /\ IsInjective(tx'[t].pagesToDelete)
    BY DEF NewTx, IsInjective
<1> QED BY <1>1, <1>2 DEF TxInvOf

\* A transaction ends without effect: a read transaction, or an abandoned one.
LEMMA OwnerEnd ==
    ASSUME OwnerInv, NEW t \in Thread, pc[t] \in {"read", "write"}, Close(t),
           UNCHANGED <<fl, fileFl, committed>>
    PROVE  TxInv' /\ OnePageOneOwner' /\ FileFlInv'
<1> USE DEF OwnerInv
<1>1. /\ tx'[t] = NewTx /\ pc'[t] = "idle"
      /\ \A u \in Thread \ {t} : tx'[u] = tx[u] /\ pc'[u] = pc[u]
    BY DEF Close, Clean, Unlock, TypeOK
<1>2. TxInvOf(t)' /\ Allocated(t)' = {}
    BY <1>1, CleanTx
<1>3. /\ TxInv'
      /\ \A u \in Thread \ {t} : Allocated(u)' = Allocated(u) /\ GivenBack(u)' = GivenBack(u)
    BY <1>1, <1>2, OwnerOfOthers
<1>4. InUse' \subseteq InUse
  <2>1. GivenBack(t) = {} /\ GivenBack(t)' = {}
      BY <1>1 DEF GivenBack
  <2> QED BY <1>2, <1>3, <2>1 DEF InUse
<1>5. OnePageOneOwner'
    BY <1>2, <1>3, <1>4 DEF OnePageOneOwner
<1>6. FileFlInv'
    BY <1>1 DEF FileFlInv, Committing
<1> QED BY <1>3, <1>5, <1>6

\* Tx::rollback gives the allocated pages back, and the list it writes to the
\* file is sound for the committed tree.
LEMMA OwnerBeginRollback ==
    ASSUME OwnerInv, NEW t \in Thread, BeginRollback(t)
    PROVE  TxInv' /\ OnePageOneOwner' /\ FileFlInv'
<1> DEFINE pages == tx[t].allocatedPages
           free == Range(fl.releasedPages)
<1> USE DEF OwnerInv
<1>1. /\ pc[t] = "write" /\ pc' = [pc EXCEPT ![t] = "undo"]
      /\ fl' = ReleasePages(fl, pages) /\ fileFl' = fl'
      /\ UNCHANGED <<tx, committed>>
    BY DEF BeginRollback, ToReturn, WriteFreelist
<1>2. /\ \A u \in Thread \ {t} : tx[u] = NewTx /\ Allocated(u) = {} /\ GivenBack(u) = {}
      /\ GivenBack(t) = {}
      /\ InUse = Pages(committed) \cup Allocated(t)
  <2>1. GivenBack(t) = {}
      BY <1>1 DEF GivenBack
  <2> QED BY <1>1, <2>1, OnlyWriterHolds DEF Writing
<1>3. /\ fl'.maxPage = fl.maxPage
      /\ Range(fl'.releasedPages) = free \cup Allocated(t)
      /\ IsInjective(fl'.releasedPages)
  <2>1. fl \in [maxPage : Nat, releasedPages : Seq(Page)] /\ pages \in Seq(Page)
      BY PageFacts, OwnerTypes DEF TypeOK, FreeLists
  <2>2. /\ IsInjective(fl.releasedPages) /\ IsInjective(pages)
        /\ Range(fl.releasedPages) \cap Range(pages) = {}
      BY <1>2 DEF OnePageOneOwner, TxInv, TxInvOf, Allocated
  <2>3. /\ ReleasePages(fl, pages).maxPage = fl.maxPage
        /\ Range(ReleasePages(fl, pages).releasedPages) = free \cup Range(pages)
        /\ IsInjective(ReleasePages(fl, pages).releasedPages)
    <3> HIDE DEF pages
    <3> QED BY <2>1, <2>2, Release
  <2> QED BY <1>1, <2>3 DEF Allocated
<1>4. TxInv'
    BY <1>1 DEF TxInv, TxInvOf, Writing, Dirty, Deleted, Allocated, TypeOK
<1>5. InUse' = Pages(committed)
  <2>1. \A u \in Thread : Allocated(u)' = Allocated(u)
      BY <1>1 DEF Allocated
  <2>2. GivenBack(t)' = Allocated(t)
      BY <1>1 DEF GivenBack, Allocated, TypeOK
  <2>3. \A u \in Thread \ {t} : GivenBack(u)' = {}
      BY <1>1, <1>2 DEF GivenBack, Allocated, Deleted, TypeOK
  <2>4. Allocated(t) \cap Pages(committed) = {}
      BY DEF OnePageOneOwner
  <2> QED BY <1>1, <1>2, <2>1, <2>2, <2>3, <2>4 DEF InUse
<1>6. OnePageOneOwner'
  <2>1. (free \cup Allocated(t)) \cap Pages(committed) = {}
      BY <1>2 DEF OnePageOneOwner
  <2>2. \A p \in free \cup Allocated(t) \cup Pages(committed) : p <= fl.maxPage
      BY <1>2 DEF OnePageOneOwner
  <2> QED BY <1>1, <1>3, <1>5, <2>1, <2>2 DEF OnePageOneOwner, Allocated
<1>7. FileFlInv'
  <2>1. SoundFor(fileFl, committed)'
      BY <1>1, <1>5, <1>6 DEF OnePageOneOwner, SoundFor
  <2>2. \A u \in Thread : pc'[u] \in {"meta", "undo"} => fileFl' = fl'
      BY <1>1
  <2> QED BY <2>1, <2>2 DEF FileFlInv
<1> QED BY <1>4, <1>6, <1>7

\* Tx::rollback is complete: the allocated pages were given back already.
LEMMA OwnerFinishRollback ==
    ASSUME OwnerInv, NEW t \in Thread, FinishRollback(t)
    PROVE  TxInv' /\ OnePageOneOwner' /\ FileFlInv'
<1> USE DEF OwnerInv
<1>1. /\ pc[t] = "undo" /\ tx'[t] = NewTx /\ pc'[t] = "idle"
      /\ \A u \in Thread \ {t} : tx'[u] = tx[u] /\ pc'[u] = pc[u]
      /\ UNCHANGED <<fl, fileFl, committed>>
    BY DEF FinishRollback, Close, Clean, Unlock, TypeOK
<1>2. TxInvOf(t)' /\ Allocated(t)' = {}
    BY <1>1, CleanTx
<1>3. /\ TxInv'
      /\ \A u \in Thread \ {t} : Allocated(u)' = Allocated(u) /\ GivenBack(u)' = GivenBack(u)
    BY <1>1, <1>2, OwnerOfOthers
<1>4. InUse' \subseteq InUse
  <2>1. GivenBack(t) = Allocated(t) /\ GivenBack(t)' = {}
      BY <1>1 DEF GivenBack
  <2>2. /\ InUse = (Pages(committed) \cup Allocated(t)) \ GivenBack(t)
        /\ \A u \in Thread \ {t} : Allocated(u) = {}
      BY <1>1, OnlyWriterHolds DEF Writing
  <2>3. Allocated(t) \cap Pages(committed) = {}
      BY DEF OnePageOneOwner
  <2>4. InUse' \subseteq Pages(committed)
      BY <1>1, <1>2, <1>3, <2>2 DEF InUse
  <2> QED BY <2>1, <2>2, <2>3, <2>4
<1>5. OnePageOneOwner'
    BY <1>1, <1>2, <1>3, <1>4 DEF OnePageOneOwner
<1>6. FileFlInv'
    BY <1>1 DEF FileFlInv, Committing
<1> QED BY <1>3, <1>5, <1>6

\* Tx::commit gives the deleted pages back before the meta page is written.
LEMMA OwnerSaveFreelist ==
    ASSUME OwnerInv, NEW t \in Thread, SaveFreelist(t)
    PROVE  TxInv' /\ OnePageOneOwner' /\ FileFlInv'
<1> DEFINE pages == tx[t].pagesToDelete
           free == Range(fl.releasedPages)
<1> USE DEF OwnerInv
<1>1. /\ pc[t] = "nodes" /\ pc' = [pc EXCEPT ![t] = "meta"]
      /\ fl' = ReleasePages(fl, pages) /\ fileFl' = fl'
      /\ UNCHANGED <<tx, committed>>
    BY DEF SaveFreelist, WriteFreelist
<1>2. /\ \A u \in Thread \ {t} : tx[u] = NewTx /\ Allocated(u) = {} /\ GivenBack(u) = {}
      /\ GivenBack(t) = {}
      /\ InUse = Pages(committed) \cup Allocated(t)
      /\ Deleted(t) \subseteq InUse
  <2>1. GivenBack(t) = {}
      BY <1>1 DEF GivenBack
  <2>2. Deleted(t) \subseteq Pages(committed) \cup Allocated(t)
      BY DEF TxInv, TxInvOf
  <2> QED BY <1>1, <2>1, <2>2, OnlyWriterHolds DEF Writing
<1>3. /\ fl'.maxPage = fl.maxPage
      /\ Range(fl'.releasedPages) = free \cup Deleted(t)
      /\ IsInjective(fl'.releasedPages)
  <2>1. fl \in [maxPage : Nat, releasedPages : Seq(Page)] /\ pages \in Seq(Page)
      BY PageFacts, OwnerTypes DEF TypeOK, FreeLists
  <2>2. IsInjective(fl.releasedPages) /\ IsInjective(pages)
      BY DEF OnePageOneOwner, TxInv, TxInvOf
  <2>3. free \cap Range(pages) = {}
      BY <1>2 DEF OnePageOneOwner, Deleted
  <2>4. /\ ReleasePages(fl, pages).maxPage = fl.maxPage
        /\ Range(ReleasePages(fl, pages).releasedPages) = free \cup Range(pages)
        /\ IsInjective(ReleasePages(fl, pages).releasedPages)
    <3> HIDE DEF pages
    <3> QED BY <2>1, <2>2, <2>3, Release
  <2> QED BY <1>1, <2>4 DEF Deleted
<1>4. TxInv'
    BY <1>1 DEF TxInv, TxInvOf, Writing, Dirty, Deleted, Allocated, TypeOK
<1>5. InUse' = InUse \ Deleted(t)
  <2>1. \A u \in Thread : Allocated(u)' = Allocated(u)
      BY <1>1 DEF Allocated
  <2>2. GivenBack(t)' = Deleted(t)
      BY <1>1 DEF GivenBack, Deleted, TypeOK
  <2>3. \A u \in Thread \ {t} : GivenBack(u)' = {}
      BY <1>1, <1>2 DEF GivenBack, Allocated, Deleted, TypeOK
  <2> QED BY <1>1, <1>2, <2>1, <2>2, <2>3 DEF InUse
<1>6. OnePageOneOwner'
  <2>1. (free \cup Deleted(t)) \cap (InUse \ Deleted(t)) = {}
      BY DEF OnePageOneOwner
  <2>2. \A p \in InUse \cup free \cup Deleted(t) : p <= fl.maxPage
      BY <1>2 DEF OnePageOneOwner
  <2> QED BY <1>1, <1>3, <1>5, <2>1, <2>2 DEF OnePageOneOwner, Allocated
<1>7. FileFlInv'
  <2>1. pc'[t] \in Committing
      BY <1>1 DEF TypeOK, Committing
  <2> QED BY <1>1, <2>1 DEF FileFlInv
<1> QED BY <1>4, <1>6, <1>7

\* The commit is complete: the new tree holds what the transaction held, less
\* what it gave back, and the free list on its page is sound for it.
LEMMA OwnerSaveMeta ==
    ASSUME OwnerInv, NEW t \in Thread, SaveMeta(t)
    PROVE  TxInv' /\ OnePageOneOwner' /\ FileFlInv'
<1> USE DEF OwnerInv
<1>1. /\ pc[t] = "meta" /\ tx'[t] = NewTx /\ pc'[t] = "idle"
      /\ \A u \in Thread \ {t} : tx'[u] = tx[u] /\ pc'[u] = pc[u]
      /\ committed' = View(t) /\ fileFl' = fileFl /\ fl' = fl
    BY DEF SaveMeta, Close, Clean, Unlock, TypeOK
<1>2. /\ \A u \in Thread \ {t} : tx[u] = NewTx
      /\ InUse = (Pages(committed) \cup Allocated(t)) \ Deleted(t)
    BY <1>1, OnlyWriterHolds DEF Writing, GivenBack
<1>3. Pages(committed)' \subseteq InUse
  <2>1. \A p \in Page : View(t)[p] # NoNode =>
            p \notin Deleted(t) /\ (p \in Dirty(t) \/ p \in Pages(committed))
      BY DEF View, Deleted, Dirty, Pages, TypeOK, TxState, Store
  <2>2. Pages(committed)' \subseteq (Dirty(t) \cup Pages(committed)) \ Deleted(t)
      BY <1>1, <2>1, ViewType DEF Pages, Store
  <2>3. Dirty(t) \subseteq Pages(committed) \cup Allocated(t)
      BY DEF TxInv, TxInvOf
  <2> QED BY <1>2, <2>2, <2>3
<1>4. \A u \in Thread : tx'[u] = NewTx
    BY <1>1, <1>2
<1>5. TxInv' /\ \A u \in Thread : Allocated(u)' = {}
    BY <1>4, CleanTx DEF TxInv
<1>6. InUse' \subseteq InUse
    BY <1>3, <1>5 DEF InUse
<1>7. OnePageOneOwner'
    BY <1>1, <1>5, <1>6 DEF OnePageOneOwner
<1>8. FileFlInv'
  <2>1. fileFl' = fl'
      BY <1>1 DEF FileFlInv
  <2>2. SoundFor(fileFl, committed)'
      BY <1>1, <1>3, <2>1 DEF OnePageOneOwner, SoundFor
  <2> QED BY <2>1, <2>2 DEF FileFlInv
<1> QED BY <1>5, <1>7, <1>8

\* A crash outside Tx::commit: the free list comes from the file, where it is
\* sound for the committed tree.
LEMMA OwnerCrash ==
    ASSUME OwnerInv, "crashInCommit" \notin Situation, Crash
    PROVE  TxInv' /\ OnePageOneOwner' /\ FileFlInv'
<1> USE DEF OwnerInv
<1>1. /\ \A u \in Thread : pc[u] \notin Committing /\ tx'[u] = NewTx /\ pc'[u] = "idle"
      /\ fl' = fileFl /\ UNCHANGED <<fileFl, committed>>
    BY DEF Crash, disk
<1>2. TxInv' /\ \A u \in Thread : Allocated(u)' = {}
    BY <1>1, CleanTx DEF TxInv
<1>3. SoundFor(fileFl, committed)
    BY <1>1 DEF FileFlInv
<1>4. InUse' \subseteq Pages(committed)
    BY <1>1, <1>2 DEF InUse
<1>5. OnePageOneOwner'
    BY <1>1, <1>2, <1>3, <1>4 DEF OnePageOneOwner, SoundFor
<1>6. FileFlInv'
    BY <1>1, <1>3 DEF FileFlInv, SoundFor, Pages
<1> QED BY <1>2, <1>5, <1>6

\* Every step keeps one owner to a page.
LEMMA OwnerStep ==
    ASSUME OwnerInv, "crashInCommit" \notin Situation, [Next]_vars
    PROVE  OwnerInv'
<1> DEFINE Goal == TxInv' /\ OnePageOneOwner' /\ FileFlInv'
<1> USE DEF OwnerInv
<1>1. CASE UNCHANGED vars
  <2>1. UNCHANGED <<pc, tx, fl, fileFl, committed>>
      BY <1>1 DEF vars, memory, disk
  <2> QED BY <1>1, <2>1, OwnerFrame, TypeStep, LockStep
<1>2. ASSUME NEW t \in Thread, NEW phase \in {"waitRead", "waitWrite"}, Request(t, phase)
      PROVE  Goal
  <2>1. /\ UNCHANGED <<tx, fl, fileFl, committed>>
        /\ pc[t] = "idle" /\ pc' = [pc EXCEPT ![t] = phase]
      BY <1>2 DEF Request, memory, disk
  <2> QED BY <2>1, OwnerFrame DEF TypeOK
<1>3. ASSUME NEW t \in Thread, Acquire(t)
      PROVE  Goal
  <2>1. /\ UNCHANGED <<tx, fl, fileFl, committed>>
        /\ pc[t] \in {"waitRead", "waitWrite"}
        /\ (pc' = [pc EXCEPT ![t] = "read"] \/ pc' = [pc EXCEPT ![t] = "write"])
      BY <1>3 DEF Acquire, AcquireRead, AcquireWrite, memory, disk
  <2>2. \A u \in Thread : \/ pc'[u] = pc[u]
                        \/ (pc[u] \in {"waitRead", "waitWrite"} /\ pc'[u] \in {"read", "write"})
      BY <2>1 DEF TypeOK
  <2> QED BY <2>1, <2>2, OwnerFrame
<1>4. ASSUME NEW t \in Thread, NEW p \in Page,
             GetDirtyNode(t, p) \/ SeekPage(t, p) \/ ReadPage(t) \/ SaveNode(t, p)
      PROVE  Goal
  <2>1. UNCHANGED <<pc, tx, fl, fileFl, committed>>
      BY <1>4 DEF GetDirtyNode, SeekPage, ReadPage, SaveNode, memory, disk
  <2> QED BY <2>1, OwnerFrame
<1>5. ASSUME NEW t \in Thread, BeginCommit(t)
      PROVE  Goal
  <2>1. /\ UNCHANGED <<tx, fl, fileFl, committed>>
        /\ pc[t] = "write" /\ pc' = [pc EXCEPT ![t] = "nodes"]
      BY <1>5 DEF BeginCommit, disk
  <2> QED BY <2>1, OwnerFrame DEF TypeOK
<1>6. ASSUME NEW t \in Thread, NEW n \in Node, CreateNode(t, n) \/ GrowRoot(t, n)
      PROVE  Goal
  <2>1. CanChange(t) /\ TakePage(t, n) /\ UNCHANGED <<pc, fileFl, committed>>
      BY <1>6 DEF CreateNode, GrowRoot, disk
  <2> QED BY <2>1, OwnerTake
<1>7. ASSUME NEW t \in Thread, NEW p \in Page, DeleteNode(t, p)
      PROVE  Goal
    BY <1>7, OwnerDelete DEF DeleteNode, disk
<1>8. ASSUME NEW t \in Thread, NEW p \in Page, ShrinkRoot(t, p)
      PROVE  Goal
  <2>1. root \in Page /\ InTree(t, root) /\ CanChange(t)
      BY <1>8 DEF ShrinkRoot, CanChange, CanOperate
  <2>2. /\ tx' = [tx EXCEPT ![t] = Deleting(@, root)]
        /\ UNCHANGED <<pc, fl, fileFl, committed>>
      BY <1>8 DEF ShrinkRoot, disk
  <2> HIDE DEF OwnerInv
  <2> QED BY <2>1, <2>2, OwnerDelete
<1>9. ASSUME NEW t \in Thread, EndRead(t) \/ Abandon(t)
      PROVE  Goal
  <2>1. /\ pc[t] \in {"read", "write"} /\ Close(t)
        /\ UNCHANGED <<fl, fileFl, committed>>
      BY <1>9 DEF EndRead, Abandon, disk
  <2> QED BY <2>1, OwnerEnd
<1> QED
  <2>1. TypeOK' /\ LockInv'
      BY TypeStep, LockStep
  <2>2. ASSUME Next PROVE Goal
      BY <2>2, <1>2, <1>3, <1>4, <1>5, <1>6, <1>7, <1>8, <1>9, OwnerWriteNode,
         OwnerBeginRollback, OwnerFinishRollback, OwnerSaveFreelist, OwnerSaveMeta,
         OwnerCrash, PageFacts
      DEF Next, Operate, End, Finish
  <2> QED BY <1>1, <2>1, <2>2

\* A new file has them apart.
LEMMA OwnerInit == Init => OwnerInv
<1> SUFFICES ASSUME Init PROVE OwnerInv
    OBVIOUS
<1>1. TypeOK /\ LockInv
    BY PageFacts, NewTxFacts, NewFreeListFacts, ConstantsAssumption
    DEF Init, TypeOK, Phase, Unlocked, LockInv, Writing
<1>2. TxInv /\ \A u \in Thread : Allocated(u) = {}
  <2> SUFFICES ASSUME NEW u \in Thread PROVE TxInvOf(u) /\ Allocated(u) = {}
      BY DEF TxInv
  <2>1. tx[u] = NewTx
      BY DEF Init
  <2>2. Allocated(u) = {} /\ Deleted(u) = {} /\ Dirty(u) = {}
      BY <2>1 DEF NewTx, Allocated, Deleted, Dirty, Pages, Range
  <2>3. IsInjective(tx[u].allocatedPages) /\ IsInjective(tx[u].pagesToDelete)
      BY <2>1 DEF NewTx, IsInjective
  <2> QED BY <2>1, <2>2, <2>3 DEF TxInvOf
<1>3. /\ fl.maxPage = 2 /\ IsInjective(fl.releasedPages)
      /\ Range(fl.releasedPages) = {} /\ fileFl = fl
    BY NewFreeListFacts DEF Init, IsInjective, Range
<1>4. Pages(committed) \subseteq {2}
    BY FirstPages DEF Init, NewFile, Pages
<1>5. InUse \subseteq {2}
    BY <1>2, <1>4 DEF InUse
<1>6. OnePageOneOwner
    BY <1>2, <1>3, <1>5 DEF OnePageOneOwner
<1>7. FileFlInv
    BY <1>3, <1>4 DEF FileFlInv, SoundFor, Init
<1> QED BY <1>1, <1>2, <1>6, <1>7 DEF OwnerInv

\* No page ever has two owners, whatever the transactions write, delete, roll
\* back or abandon, even when read transactions write, and across crashes,
\* provided no crash falls between two page writes of Tx::commit.
THEOREM PagesHaveOneOwner ==
    ASSUME "crashInCommit" \notin Situation
    PROVE  Spec => []OnePageOneOwner
<1>1. OwnerInv /\ [Next]_vars => OwnerInv'
    BY OwnerStep
<1>2. OwnerInv => OnePageOneOwner
    BY DEF OwnerInv
<1> QED BY <1>1, <1>2, OwnerInit, PTL DEF Spec

-----------------------------------------------------------------------------
(***************************************************************************)
(* What is in memory and what is in the file: the free list, the root and  *)
(* the pages.  The assumptions are about what callers do: a read           *)
(* transaction does not write, no transaction is deleted before it is      *)
(* committed or rolled back, none that moved the root is rolled back, and  *)
(* the process does not die inside Tx::commit.                             *)
(***************************************************************************)
\* What db.h asks of callers: readers do not write, transactions are ended.
Documented == {"readerWrites", "abandon"} \cap Situation = {}

\* Steps that leave the locks of writers, memory and the file's free list and
\* root alone.
LEMMA MemoryStep ==
    ASSUME TypeOK, LockInv, MemoryInv, Documented, [Next]_vars
    PROVE  MemoryInv'
<1> USE DEF MemoryInv, MemoryMatchesFile
<1>1. ASSUME UNCHANGED <<fl, fileFl, root, fileRoot>>,
             \A u \in Thread : /\ pc'[u] \in {"meta", "undo"} => pc[u] = pc'[u]
                               /\ pc[u] \in Writing => pc'[u] \in Writing
      PROVE  MemoryInv'
    BY <1>1
<1>2. ASSUME NEW t \in Thread, pc[t] \in Writing, pc'[t] \in Writing,
             \A u \in Thread \ {t} : pc'[u] = pc[u],
             pc'[t] \in {"meta", "undo"} => fl' = fileFl'
      PROVE  MemoryInv'
  <2>1. \A u \in Thread \ {t} : pc'[u] \notin {"meta", "undo"}
      BY <1>2, LockAlone DEF Writing
  <2> QED BY <1>2, <2>1
<1>3. ASSUME UNCHANGED vars
      PROVE  MemoryInv'
    BY <1>1, <1>3 DEF vars, memory, disk
<1>4. ASSUME NEW t \in Thread, NEW phase \in {"waitRead", "waitWrite"}, Request(t, phase)
      PROVE  MemoryInv'
    BY <1>1, <1>4 DEF Request, memory, disk, TypeOK, Writing
<1>5. ASSUME NEW t \in Thread, Acquire(t)
      PROVE  MemoryInv'
    BY <1>1, <1>5 DEF Acquire, AcquireRead, AcquireWrite, memory, disk, TypeOK, Writing
<1>6. ASSUME NEW t \in Thread, NEW p \in Page,
             GetDirtyNode(t, p) \/ SeekPage(t, p) \/ ReadPage(t) \/ SaveNode(t, p)
      PROVE  MemoryInv'
    BY <1>1, <1>6 DEF GetDirtyNode, SeekPage, ReadPage, SaveNode, memory, disk
<1>7. ASSUME NEW t \in Thread, CanChange(t), UNCHANGED pc
      PROVE  MemoryInv'
  <2>1. pc[t] = "write"
      BY <1>7 DEF CanChange, Documented
  <2> QED BY <1>2, <1>7, <2>1 DEF Writing
<1>8. ASSUME NEW t \in Thread, BeginCommit(t)
      PROVE  MemoryInv'
    BY <1>2, <1>8 DEF BeginCommit, TypeOK, Writing
<1>9. ASSUME NEW t \in Thread, BeginRollback(t) \/ SaveFreelist(t)
      PROVE  MemoryInv'
    BY <1>2, <1>9 DEF BeginRollback, SaveFreelist, WriteFreelist, TypeOK, Writing
<1>10. ASSUME NEW t \in Thread, SaveMeta(t) \/ FinishRollback(t)
       PROVE  MemoryInv'
  <2>1. /\ pc[t] \in {"meta", "undo"} /\ pc' = [pc EXCEPT ![t] = "idle"]
        /\ fileRoot' = root /\ UNCHANGED <<fl, fileFl, root>>
      BY <1>10 DEF SaveMeta, FinishRollback, WriteMeta, Close
  <2> QED BY <2>1 DEF TypeOK
<1>11. ASSUME NEW t \in Thread, EndRead(t)
       PROVE  MemoryInv'
    BY <1>1, <1>11 DEF EndRead, Close, disk, TypeOK, Writing
<1>12. ASSUME Crash
       PROVE  MemoryInv'
    BY <1>12 DEF Crash, disk
<1>13. ASSUME NEW t \in Thread, Abandon(t)
       PROVE  FALSE
    BY <1>13 DEF Abandon, Documented
<1>14. ASSUME NEW t \in Thread, NEW p \in Page, NEW n \in Node,
              WriteNode(t, p, n) \/ CreateNode(t, n) \/ GrowRoot(t, n)
                  \/ DeleteNode(t, p) \/ ShrinkRoot(t, p)
       PROVE  CanChange(t) /\ UNCHANGED pc
    BY <1>14 DEF WriteNode, CreateNode, GrowRoot, DeleteNode, ShrinkRoot
<1> QED
  <2>1. \E p \in Page : TRUE
      BY PageFacts
  <2>2. \E n \in Node : TRUE
      BY ConstantsAssumption
  <2> HIDE DEF MemoryInv, MemoryMatchesFile
  <2>3. ASSUME NEW t \in Thread, Operate(t)
        PROVE  MemoryInv'
      BY <1>6, <1>7, <1>14, <2>1, <2>2, <2>3 DEF Operate
  <2>4. ASSUME NEW t \in Thread, End(t) \/ Finish(t)
        PROVE  MemoryInv'
      BY <1>6, <1>8, <1>9, <1>10, <1>11, <1>13, <2>4 DEF End, Finish
  <2> QED BY <1>3, <1>4, <1>5, <1>12, <2>3, <2>4 DEF Next

\* Between write transactions the free list and the root in memory are those of
\* the file, for any threads, across rollbacks of moved roots and crashes, even
\* inside Tx::commit.
THEOREM MemoryIsFile ==
    ASSUME Documented
    PROVE  Spec => []MemoryMatchesFile
<1>1. Init => MemoryInv
    BY DEF Init, MemoryInv, MemoryMatchesFile
<1>2. TypeOK /\ LockInv /\ MemoryInv /\ [Next]_vars => MemoryInv'
    BY MemoryStep
<1>3. MemoryInv => MemoryMatchesFile
    BY DEF MemoryInv
<1> QED BY <1>1, <1>2, <1>3, LockCorrect, PTL DEF Spec
-----------------------------------------------------------------------------
\* A page handed out has not been deleted by the transaction that gets it.
LEMMA NextPageIsNew ==
    ASSUME OwnerInv, NEW t \in Thread, pc[t] = "write", CanAllocate(fl, MaxPages)
    PROVE  NextPage(fl) \in Page /\ NextPage(fl) \notin Deleted(t)
<1> DEFINE p == NextPage(fl)
<1> USE DEF OwnerInv
<1>1. p \in Page
    BY TakeInFile DEF TypeOK
<1>2. p \in Range(fl.releasedPages) \/ p = fl.maxPage + 1
  <2>1. fl \in [maxPage : Nat, releasedPages : Seq(Page)]
      BY PageFacts DEF TypeOK, FreeLists
  <2>2. IsInjective(fl.releasedPages)
      BY DEF OnePageOneOwner
  <2> QED BY <2>1, <2>2, Take
<1>3. Deleted(t) \subseteq InUse
  <2>1. GivenBack(t) = {}
      BY DEF GivenBack
  <2> QED BY <2>1, OnlyWriterHolds DEF Writing, TxInv, TxInvOf
<1>4. \A q \in InUse : q <= fl.maxPage /\ q \notin Range(fl.releasedPages)
    BY DEF OnePageOneOwner
<1>5. fl.maxPage \in Nat
    BY PageFacts DEF TypeOK, FreeLists
<1> QED BY <1>1, <1>2, <1>3, <1>4, <1>5

\* What the methods of Tx do to the tree the transaction sees.
LEMMA ViewOfChange ==
    ASSUME TypeOK, NEW t \in Thread, NEW p \in Page, NEW n \in Node, UNCHANGED committed
    PROVE  /\ tx' = [tx EXCEPT ![t] = Dirtied(@, p, n)] =>
                  \A q \in Page : InTree(t, q) => InTree(t, q)'
           /\ tx' = [tx EXCEPT ![t] = Allocating(@, p, n)] =>
                  /\ \A q \in Page : InTree(t, q) => InTree(t, q)'
                  /\ p \notin Deleted(t) => InTree(t, p)'
           /\ tx' = [tx EXCEPT ![t] = Deleting(@, p)] =>
                  \A q \in Page : InTree(t, q) /\ q # p => InTree(t, q)'
<1>0. n # NoNode
    BY ConstantsAssumption
<1>1. ASSUME tx'[t].pagesToDelete = tx[t].pagesToDelete,
             tx'[t].dirtyNodes = [tx[t].dirtyNodes EXCEPT ![p] = n]
      PROVE  /\ \A q \in Page : InTree(t, q) => InTree(t, q)'
             /\ p \notin Deleted(t) => InTree(t, p)'
  <2>1. Deleted(t)' = Deleted(t)
      BY <1>1 DEF Deleted
  <2> QED BY <1>0, <1>1, <2>1 DEF InTree, View, TypeOK, TxState
<1>2. ASSUME tx' = [tx EXCEPT ![t] = Dirtied(@, p, n)]
      PROVE  \A q \in Page : InTree(t, q) => InTree(t, q)'
    BY <1>1, <1>2 DEF TypeOK, TxState, Dirtied
<1>3. ASSUME tx' = [tx EXCEPT ![t] = Allocating(@, p, n)]
      PROVE  /\ \A q \in Page : InTree(t, q) => InTree(t, q)'
             /\ p \notin Deleted(t) => InTree(t, p)'
    BY <1>1, <1>3 DEF TypeOK, TxState, Dirtied, Allocating
<1>4. ASSUME tx' = [tx EXCEPT ![t] = Deleting(@, p)]
      PROVE  \A q \in Page : InTree(t, q) /\ q # p => InTree(t, q)'
  <2>1. /\ tx'[t].pagesToDelete = Append(tx[t].pagesToDelete, p)
        /\ tx'[t].dirtyNodes = tx[t].dirtyNodes
        /\ tx[t].pagesToDelete \in Seq(Page)
      BY <1>4 DEF TypeOK, TxState, Deleting
  <2>2. Deleted(t)' = Deleted(t) \cup {p}
      BY <2>1, Push DEF Deleted
  <2> QED BY <2>1, <2>2 DEF InTree, View
<1> QED BY <1>2, <1>3, <1>4

\* Every step keeps the root in the tree.
LEMMA RootStep ==
    ASSUME OwnerInv, MemoryInv, RootInv, Documented, "rollbackNewRoot" \notin Situation,
           [Next]_vars
    PROVE  RootInv'
<1> USE DEF RootInv, Committing
<1>0. TypeOK /\ LockInv /\ TxInv
    BY DEF OwnerInv
<1>1. ASSUME UNCHANGED <<committed, fileRoot, root>>,
             \A u \in Thread :
                 /\ pc'[u] \in {"write", "nodes", "meta"} =>
                        pc[u] \in {"write", "nodes", "meta"} /\ tx'[u] = tx[u]
                 /\ pc'[u] = "undo" => pc[u] = "undo"
      PROVE  RootInv'
    BY <1>1 DEF InTree, View, Deleted
<1>2. ASSUME NEW t \in Thread, AcquireWrite(t)
      PROVE  RootInv'
  <2>1. /\ \A u \in Thread : pc[u] \notin Writing
        /\ pc[t] = "waitWrite" /\ pc' = [pc EXCEPT ![t] = "write"]
        /\ UNCHANGED <<tx, root, fileRoot, committed>>
      BY <1>0, <1>2, ConstantsAssumption
      DEF AcquireWrite, MayOwn, Unlocked, LockInv, memory, disk
  <2>2. root = fileRoot /\ tx[t] = NewTx /\ root \in Page
      BY <1>0, <2>1 DEF MemoryInv, MemoryMatchesFile, TxInv, TxInvOf, Writing, TypeOK
  <2>3. Deleted(t)' = {} /\ \A p \in Page : tx'[t].dirtyNodes[p] = NoNode
      BY <2>1, <2>2 DEF Deleted, Range, NewTx
  <2>4. InTree(t, root)'
      BY <2>1, <2>2, <2>3 DEF InTree, View
  <2>5. \A u \in Thread \ {t} : pc'[u] \notin Writing
      BY <1>0, <2>1 DEF TypeOK
  <2> QED BY <2>1, <2>4, <2>5 DEF Writing
<1>3. ASSUME NEW t \in Thread, CanChange(t), UNCHANGED <<pc, committed, fileRoot>>, InTree(t, root)'
      PROVE  RootInv'
  <2>1. pc[t] = "write"
      BY <1>3 DEF CanChange, Documented
  <2>2. \A u \in Thread \ {t} : pc[u] \notin Writing
      BY <1>0, <2>1, LockAlone DEF Writing
  <2> QED BY <1>3, <2>1, <2>2 DEF Writing
<1>4. ASSUME NEW t \in Thread, NEW p \in Page, NEW n \in Node,
             WriteNode(t, p, n) \/ CreateNode(t, n) \/ GrowRoot(t, n)
                 \/ DeleteNode(t, p) \/ ShrinkRoot(t, p)
      PROVE  RootInv'
  <2>1. CanChange(t) /\ UNCHANGED <<pc, committed, fileRoot>>
      BY <1>4 DEF WriteNode, CreateNode, GrowRoot, DeleteNode, ShrinkRoot, disk
  <2>2. pc[t] = "write" /\ root \in Page /\ InTree(t, root)
      BY <2>1 DEF CanChange, CanOperate, Documented
  <2>3. CASE WriteNode(t, p, n)
      BY <1>0, <1>3, <2>1, <2>2, <2>3, ViewOfChange DEF WriteNode, InTree
  <2>4. CASE CreateNode(t, n)
    <3>1. NextPage(fl) \in Page /\ tx' = [tx EXCEPT ![t] = Allocating(@, NextPage(fl), n)]
        BY <2>2, <2>4, NextPageIsNew DEF CreateNode, TakePage
    <3>2. InTree(t, root)'
        BY <1>0, <2>1, <2>2, <2>4, <3>1, ViewOfChange DEF CreateNode, InTree
    <3> QED BY <1>3, <2>1, <3>2
  <2>5. CASE GrowRoot(t, n)
    <3>1. /\ NextPage(fl) \in Page /\ NextPage(fl) \notin Deleted(t)
          /\ tx' = [tx EXCEPT ![t] = Allocating(@, NextPage(fl), n)]
        BY <2>2, <2>5, NextPageIsNew DEF GrowRoot, TakePage
    <3>2. InTree(t, root)'
        BY <1>0, <2>1, <2>5, <3>1, ViewOfChange DEF GrowRoot, InTree
    <3> QED BY <1>3, <2>1, <3>2
  <2>6. CASE DeleteNode(t, p)
      BY <1>0, <1>3, <2>1, <2>2, <2>6, ViewOfChange DEF DeleteNode, InTree
  <2>7. CASE ShrinkRoot(t, p)
    <3>1. tx' = [tx EXCEPT ![t] = Deleting(@, root)] /\ root' = p /\ InTree(t, p) /\ p # root
        BY <2>7 DEF ShrinkRoot
    <3>2. InTree(t, root)'
        BY <1>0, <2>1, <2>2, <3>1, ViewOfChange DEF InTree
    <3> QED BY <1>3, <2>1, <3>2
  <2> QED BY <1>4, <2>3, <2>4, <2>5, <2>6, <2>7
<1>5. ASSUME NEW t \in Thread, BeginRollback(t)
      PROVE  RootInv'
  <2>1. /\ pc[t] = "write" /\ pc' = [pc EXCEPT ![t] = "undo"] /\ root = fileRoot
        /\ UNCHANGED <<tx, root, fileRoot, committed>>
      BY <1>5 DEF BeginRollback
  <2>2. \A u \in Thread \ {t} : pc[u] \notin Writing
      BY <1>0, <2>1, LockAlone DEF Writing
  <2> QED BY <1>0, <2>1, <2>2 DEF Writing, TypeOK
<1>6. ASSUME NEW t \in Thread, SaveMeta(t)
      PROVE  RootInv'
  <2>1. /\ pc[t] = "meta" /\ pc' = [pc EXCEPT ![t] = "idle"]
        /\ fileRoot' = root /\ committed' = View(t) /\ root' = root
      BY <1>6 DEF SaveMeta, WriteMeta, Close
  <2>2. \A u \in Thread : pc'[u] \notin Writing
      BY <1>0, <2>1, LockAlone DEF Writing, TypeOK
  <2>3. committed'[fileRoot'] # NoNode
      BY <2>1 DEF InTree
  <2> QED BY <2>2, <2>3 DEF Writing
<1>7. ASSUME NEW t \in Thread, FinishRollback(t)
      PROVE  RootInv'
  <2>1. /\ pc[t] = "undo" /\ pc' = [pc EXCEPT ![t] = "idle"]
        /\ fileRoot' = root /\ root = fileRoot /\ UNCHANGED committed
      BY <1>7 DEF FinishRollback, WriteMeta, Close
  <2>2. \A u \in Thread : pc'[u] \notin Writing
      BY <1>0, <2>1, LockAlone DEF Writing, TypeOK
  <2> QED BY <2>1, <2>2 DEF Writing
<1>8. ASSUME NEW t \in Thread, EndRead(t)
      PROVE  RootInv'
    BY <1>0, <1>1, <1>8 DEF EndRead, Close, Clean, disk, TypeOK
<1>9. ASSUME Crash
      PROVE  RootInv'
    BY <1>9 DEF Crash, disk
<1>10. ASSUME UNCHANGED vars
       PROVE  RootInv'
    BY <1>1, <1>10 DEF vars, memory, disk
<1>11. ASSUME NEW t \in Thread, NEW p \in Page,
              \/ Request(t, "waitRead") \/ Request(t, "waitWrite") \/ AcquireRead(t)
              \/ GetDirtyNode(t, p) \/ SeekPage(t, p) \/ ReadPage(t) \/ SaveNode(t, p)
              \/ BeginCommit(t) \/ SaveFreelist(t)
       PROVE  RootInv'
    BY <1>0, <1>1, <1>11
    DEF Request, AcquireRead, GetDirtyNode, SeekPage, ReadPage, SaveNode, BeginCommit,
        SaveFreelist, memory, disk, TypeOK
<1>12. ASSUME NEW t \in Thread, Abandon(t)
       PROVE  FALSE
    BY <1>12 DEF Abandon, Documented
<1> QED
  <2>1. \E p \in Page : TRUE
      BY PageFacts
  <2>2. \E n \in Node : TRUE
      BY ConstantsAssumption
  <2> HIDE DEF RootInv
  <2>3. ASSUME NEW t \in Thread, Operate(t) \/ Acquire(t)
        PROVE  RootInv'
      BY <1>2, <1>4, <1>11, <2>1, <2>2, <2>3 DEF Operate, Acquire
  <2>4. ASSUME NEW t \in Thread, End(t) \/ Finish(t)
        PROVE  RootInv'
      BY <1>5, <1>6, <1>7, <1>8, <1>11, <1>12, <2>1, <2>4 DEF End, Finish
  <2> QED BY <1>9, <1>10, <1>11, <2>1, <2>3, <2>4 DEF Next
-----------------------------------------------------------------------------
\* Every step keeps the pages of the file those of the tree, written so far.
LEMMA PagesStep ==
    ASSUME OwnerInv, PagesInv, {"readerWrites", "crashInCommit"} \cap Situation = {},
           [Next]_vars
    PROVE  PagesInv'
<1> USE DEF PagesInv, Committing
<1>0. TypeOK /\ LockInv
    BY DEF OwnerInv
<1>1. ASSUME UNCHANGED <<file, committed>>,
             \A u \in Thread :
                 /\ pc'[u] = pc[u] \/ (pc[u] \notin Committing /\ pc'[u] \notin Committing)
                 /\ pc[u] \in Committing => tx'[u] = tx[u] /\ unsaved'[u] = unsaved[u]
      PROVE  PagesInv'
    BY <1>1 DEF Written, Dirty
<1>2. ASSUME NEW t \in Thread, BeginCommit(t)
      PROVE  PagesInv'
  <2>1. /\ pc[t] = "write" /\ pc' = [pc EXCEPT ![t] = "nodes"]
        /\ unsaved' = [unsaved EXCEPT ![t] = Dirty(t)]
        /\ UNCHANGED <<tx, file, committed>>
      BY <1>2 DEF BeginCommit, disk
  <2>2. /\ \A u \in Thread : pc[u] \notin Committing
        /\ \A u \in Thread \ {t} : pc'[u] \notin Committing
        /\ pc'[t] = "nodes"
      BY <1>0, <2>1, LockAlone DEF Writing, TypeOK
  <2>3. unsaved'[t] = Dirty(t) /\ Dirty(t)' = Dirty(t)
      BY <1>0, <2>1 DEF TypeOK, Dirty
  <2> QED BY <2>1, <2>2, <2>3 DEF Written
<1>3. ASSUME NEW t \in Thread, NEW p \in Page, SaveNode(t, p)
      PROVE  PagesInv'
  <2>1. /\ pc[t] = "nodes" /\ pc' = pc /\ p \in unsaved[t] /\ p \in Dirty(t)
        /\ file' = [file EXCEPT ![p] = tx[t].dirtyNodes[p]]
        /\ unsaved' = [unsaved EXCEPT ![t] = @ \ {p}]
        /\ UNCHANGED <<tx, committed>>
      BY <1>3 DEF SaveNode
  <2>2. \A u \in Thread \ {t} : pc[u] \notin Committing
      BY <1>0, <2>1, LockAlone DEF Writing
  <2>3. /\ file'[p] = tx[t].dirtyNodes[p]
        /\ \A q \in Page \ {p} : file'[q] = file[q]
        /\ unsaved'[t] = unsaved[t] \ {p}
        /\ Dirty(t)' = Dirty(t) /\ Pages(committed) \subseteq Page
      BY <1>0, <2>1 DEF TypeOK, Store, Dirty, Pages
  <2>4. \A q \in Written(t)' : file'[q] = tx[t].dirtyNodes[q]
      BY <2>1, <2>3 DEF Written
  <2>5. \A q \in Pages(committed) \ Dirty(t) : file'[q] = committed[q]
      BY <2>1, <2>3
  <2> QED BY <2>1, <2>2, <2>3, <2>4, <2>5
<1>4. ASSUME NEW t \in Thread, SaveFreelist(t)
      PROVE  PagesInv'
  <2>1. /\ pc[t] = "nodes" /\ unsaved[t] = {} /\ pc' = [pc EXCEPT ![t] = "meta"]
        /\ UNCHANGED <<tx, unsaved, file, committed>>
      BY <1>4 DEF SaveFreelist
  <2>2. \A u \in Thread \ {t} : pc'[u] \notin Committing
      BY <1>0, <2>1, LockAlone DEF Writing, TypeOK
  <2> QED BY <1>0, <2>1, <2>2 DEF Written, Dirty, TypeOK
<1>5. ASSUME NEW t \in Thread, SaveMeta(t)
      PROVE  PagesInv'
  <2>1. /\ pc[t] = "meta" /\ pc' = [pc EXCEPT ![t] = "idle"]
        /\ committed' = View(t) /\ file' = file
      BY <1>5 DEF SaveMeta, Close
  <2>2. \A u \in Thread : pc'[u] \notin Committing
      BY <1>0, <2>1, LockAlone DEF Writing, TypeOK
  <2>3. ASSUME NEW p \in Pages(View(t)) PROVE file[p] = View(t)[p]
    <3>1. /\ p \in Page /\ View(t)[p] # NoNode
          /\ View(t)[p] = IF tx[t].dirtyNodes[p] # NoNode THEN tx[t].dirtyNodes[p] ELSE committed[p]
        BY <2>3 DEF Pages, View
    <3>2. CASE p \in Dirty(t)
        BY <2>1, <3>1, <3>2 DEF Written, Dirty, Pages
    <3>3. CASE p \notin Dirty(t)
      <4>1. tx[t].dirtyNodes[p] = NoNode /\ p \in Pages(committed)
          BY <1>0, <3>1, <3>3 DEF Dirty, Pages, TypeOK, TxState, Store
      <4> QED BY <2>1, <3>1, <3>3, <4>1
    <3> QED BY <3>2, <3>3
  <2> QED BY <2>1, <2>2, <2>3
<1>6. ASSUME NEW t \in Thread, \/ BeginRollback(t) \/ FinishRollback(t)
                            \/ EndRead(t) \/ Abandon(t)
      PROVE  PagesInv'
  <2>1. /\ UNCHANGED <<file, committed, unsaved>>
        /\ pc[t] \notin Committing /\ pc'[t] \notin Committing
        /\ \A u \in Thread \ {t} : pc'[u] = pc[u] /\ tx'[u] = tx[u]
      BY <1>0, <1>6 
      DEF BeginRollback, FinishRollback, EndRead, Abandon, Close, Clean, disk, TypeOK
  <2> QED BY <1>1, <2>1
<1>7. ASSUME NEW t \in Thread, NEW p \in Page, NEW n \in Node,
             WriteNode(t, p, n) \/ CreateNode(t, n) \/ GrowRoot(t, n)
                 \/ DeleteNode(t, p) \/ ShrinkRoot(t, p)
      PROVE  PagesInv'
  <2>1. CanChange(t) /\ UNCHANGED <<pc, file, committed>>
      BY <1>7 DEF WriteNode, CreateNode, GrowRoot, DeleteNode, ShrinkRoot, disk
  <2>2. \A u \in Thread : pc[u] \notin Committing
      BY <1>0, <2>1, LockAlone DEF CanChange, Writing
  <2> QED BY <1>1, <2>1, <2>2
<1>8. ASSUME Crash
      PROVE  PagesInv'
    BY <1>8 DEF Crash, disk
<1>9. ASSUME UNCHANGED vars
      PROVE  PagesInv'
    BY <1>1, <1>9 DEF vars, memory, disk
<1>10. ASSUME NEW t \in Thread, NEW p \in Page,
              \/ Request(t, "waitRead") \/ Request(t, "waitWrite")
              \/ AcquireRead(t) \/ AcquireWrite(t)
              \/ GetDirtyNode(t, p) \/ SeekPage(t, p) \/ ReadPage(t)
       PROVE  PagesInv'
    BY <1>0, <1>1, <1>10
    DEF Request, AcquireRead, AcquireWrite, GetDirtyNode, SeekPage, ReadPage, memory, disk, TypeOK
<1> QED
  <2>1. \E p \in Page : TRUE
      BY PageFacts
  <2>2. \E n \in Node : TRUE
      BY ConstantsAssumption
  <2> HIDE DEF PagesInv
  <2>3. ASSUME NEW t \in Thread, Operate(t) \/ Acquire(t)
        PROVE  PagesInv'
      BY <1>7, <1>10, <2>1, <2>2, <2>3 DEF Operate, Acquire
  <2>4. ASSUME NEW t \in Thread, End(t) \/ Finish(t)
        PROVE  PagesInv'
      BY <1>2, <1>3, <1>4, <1>5, <1>6, <2>4 DEF End, Finish
  <2> QED BY <1>8, <1>9, <1>10, <2>1, <2>3, <2>4 DEF Next

\* The four invariants hold together throughout.
LEMMA RecoveryCorrect ==
    ASSUME Documented, {"rollbackNewRoot", "crashInCommit"} \cap Situation = {}
    PROVE  Spec => []RecoveryInv
<1>1. Init => MemoryInv /\ RootInv /\ PagesInv
  <2> SUFFICES ASSUME Init PROVE MemoryInv /\ RootInv /\ PagesInv
      OBVIOUS
  <2>1. MemoryInv
      BY DEF Init, MemoryInv, MemoryMatchesFile
  <2>2. RootInv
      BY PageFacts, ConstantsAssumption DEF Init, RootInv, NewFile, Committing
  <2>3. PagesInv
      BY DEF Init, PagesInv, Committing
  <2> QED BY <2>1, <2>2, <2>3
<1>2. RecoveryInv /\ [Next]_vars => RecoveryInv'
    BY OwnerStep, MemoryStep, RootStep, PagesStep DEF RecoveryInv, OwnerInv, Documented
<1> QED BY <1>1, <1>2, OwnerInit, PTL DEF Spec, RecoveryInv

\* Between write transactions the root in memory is a page of the committed
\* tree, for any threads and nodes.
THEOREM RootIsInTree ==
    ASSUME Documented, {"rollbackNewRoot", "crashInCommit"} \cap Situation = {}
    PROVE  Spec => []RootInTree
<1>1. RecoveryInv => RootInTree
    BY DEF RecoveryInv, MemoryInv, MemoryMatchesFile, RootInv, RootInTree
<1> QED BY <1>1, RecoveryCorrect, PTL

\* Outside Tx::commit the file alone is the committed database, for any threads
\* and nodes: a process that dies there loses nothing that was committed.
THEOREM FileIsRecoverable ==
    ASSUME Documented, {"rollbackNewRoot", "crashInCommit"} \cap Situation = {}
    PROVE  Spec => []Recoverable
<1>1. RecoveryInv => Recoverable
  <2> SUFFICES ASSUME RecoveryInv, \A t \in Thread : pc[t] \notin Committing
               PROVE  /\ \A p \in Pages(committed) : file[p] = committed[p]
                      /\ fileRoot \in Pages(committed)
                      /\ SoundFor(fileFl, committed)
      BY DEF Recoverable
  <2>1. fileRoot \in Page /\ committed \in Store
      BY DEF RecoveryInv, OwnerInv, TypeOK
  <2>2. fileRoot \in Pages(committed)
      BY <2>1 DEF RecoveryInv, RootInv, Pages, Store
  <2> QED BY <2>2 DEF RecoveryInv, PagesInv, OwnerInv, FileFlInv
<1> QED BY <1>1, RecoveryCorrect, PTL
-----------------------------------------------------------------------------
\* Steps that leave the pages of all transactions and free lists alone.
LEMMA AccountFrame ==
    ASSUME AccountInv, UNCHANGED <<tx, fl, fileFl, committed>>,
           \A u \in Thread :
               /\ pc[u] \in {"meta", "undo"} \/ pc'[u] \in {"meta", "undo"} => pc'[u] = pc[u]
               /\ pc[u] \in Committing => pc'[u] \in Committing
               /\ pc'[u] = "read" => tx[u] = NewTx
    PROVE  AccountInv'
<1>1. \A u \in Thread : /\ GivenBack(u)' = GivenBack(u) /\ Allocated(u)' = Allocated(u)
                        /\ Dirty(u)' = Dirty(u)
    BY DEF GivenBack, Allocated, Deleted, Dirty
<1>2. InUse' = InUse
    BY <1>1 DEF InUse
<1> QED BY <1>1, <1>2 DEF AccountInv, EveryPageAccounted

\* Steps of a transaction whose pages are neither taken nor given back.
LEMMA AccountWrite ==
    ASSUME OwnerInv, AccountInv, NEW t \in Thread, pc[t] = "write",
           UNCHANGED <<pc, fl, fileFl, committed>>,
           \A u \in Thread \ {t} : tx'[u] = tx[u],
           tx'[t].allocatedPages = tx[t].allocatedPages,
           Dirty(t) \subseteq Dirty(t)'
    PROVE  AccountInv'
<1>1. /\ \A u \in Thread : GivenBack(u)' = GivenBack(u) /\ Allocated(u)' = Allocated(u)
      /\ \A u \in Thread \ {t} : Dirty(u)' = Dirty(u)
    BY DEF GivenBack, Allocated, Deleted, Dirty
<1>2. InUse' = InUse
    BY <1>1 DEF InUse
<1> QED BY <1>1, <1>2 DEF AccountInv, EveryPageAccounted

\* A page that is taken leaves the free list and has an owner.
LEMMA AccountTake ==
    ASSUME OwnerInv, AccountInv, NEW t \in Thread, NEW n \in Node, pc[t] = "write",
           TakePage(t, n), UNCHANGED <<pc, fileFl, committed>>
    PROVE  AccountInv'
<1> DEFINE p == NextPage(fl)
           free == Range(fl.releasedPages)
<1> USE DEF OwnerInv
<1>1. /\ tx' = [tx EXCEPT ![t] = Allocating(@, p, n)]
      /\ fl' = AfterNextPage(fl) /\ p \in Page
    BY NextPageIsNew DEF TakePage
<1>2. /\ tx'[t].allocatedPages = Append(tx[t].allocatedPages, p)
      /\ tx'[t].dirtyNodes = [tx[t].dirtyNodes EXCEPT ![p] = n]
      /\ tx[t].allocatedPages \in Seq(Page)
      /\ \A u \in Thread \ {t} : tx'[u] = tx[u]
    BY <1>1 DEF TypeOK, TxState, Allocating, Dirtied
<1>3. /\ Allocated(t)' = Allocated(t) \cup {p}
      /\ Dirty(t)' = Dirty(t) \cup {p}
      /\ \A u \in Thread \ {t} : Allocated(u)' = Allocated(u) /\ Dirty(u)' = Dirty(u)
  <2>1. Allocated(t)' = Allocated(t) \cup {p}
    <3>1. \A s \in Seq(Page), q \in Page : Range(Append(s, q)) = Range(s) \cup {q}
        BY Push
    <3>2. Range(Append(tx[t].allocatedPages, p)) = Range(tx[t].allocatedPages) \cup {p}
        BY <1>1, <1>2, <3>1, Zenon
    <3> QED BY <1>2, <3>2, Zenon DEF Allocated
  <2>2. Dirty(t)' = Dirty(t) \cup {p}
      BY <1>1, <1>2, ConstantsAssumption DEF Dirty, Pages, TypeOK, TxState
  <2> QED BY <2>1, <2>2, <1>2 DEF Allocated, Dirty
<1>4. \A u \in Thread : GivenBack(u) = {} /\ GivenBack(u)' = {}
  <2>1. \A u \in Thread : pc[u] \notin {"meta", "undo"}
      BY LockAlone DEF Writing
  <2> QED BY <2>1 DEF GivenBack
<1>5. InUse' = InUse \cup {p}
    BY <1>3, <1>4 DEF InUse
<1>6. /\ Range(fl'.releasedPages) = free \ {p}
      /\ \/ p \in free /\ fl'.maxPage = fl.maxPage
         \/ p = fl.maxPage + 1 /\ fl'.maxPage = fl.maxPage + 1
  <2>1. fl \in [maxPage : Nat, releasedPages : Seq(Page)] /\ IsInjective(fl.releasedPages)
      BY PageFacts DEF TypeOK, FreeLists, OnePageOneOwner
  <2>2. /\ Range(AfterNextPage(fl).releasedPages) = free \ {p}
        /\ \/ p \in free /\ AfterNextPage(fl).maxPage = fl.maxPage
           \/ p = fl.maxPage + 1 /\ AfterNextPage(fl).maxPage = fl.maxPage + 1
      BY <2>1, Take
  <2> QED BY <1>1, <2>2, Zenon
<1>7. EveryPageAccounted'
  <2> SUFFICES ASSUME NEW q \in FirstRoot .. fl'.maxPage
               PROVE  q \in InUse' \cup Range(fl'.releasedPages)
      BY FirstPages DEF EveryPageAccounted
  <2>1. fl.maxPage \in Nat
      BY PageFacts DEF TypeOK, FreeLists
  <2>2. q = p \/ q \in FirstRoot .. fl.maxPage
    <3> HIDE DEF p
    <3> QED BY <1>6, <2>1, FirstPages
  <2> QED BY <1>5, <1>6, <2>2 DEF AccountInv, EveryPageAccounted
<1>8. ASSUME \A u \in Thread : pc'[u] \notin Committing, NEW q \in FirstRoot .. fileFl'.maxPage
      PROVE  q \in Pages(committed)' \cup Range(fileFl'.releasedPages)
    BY <1>8 DEF AccountInv
<1>9. ASSUME NEW u \in Thread
      PROVE  Allocated(u)' \subseteq Dirty(u)' /\ (pc'[u] = "read" => tx'[u] = NewTx)
  <2>1. CASE u = t
      BY <1>3, <2>1 DEF AccountInv
  <2>2. CASE u # t
      BY <1>2, <1>3, <2>2 DEF AccountInv
  <2> QED BY <2>1, <2>2
<1> HIDE DEF p, free
<1> QED BY <1>7, <1>8, <1>9, Zenon DEF AccountInv

\* Pages given back change from their owner to the free list.
LEMMA AccountGiveBack ==
    ASSUME OwnerInv, AccountInv, NEW t \in Thread, BeginRollback(t) \/ SaveFreelist(t)
    PROVE  AccountInv'
<1> DEFINE pages == IF pc[t] = "write" THEN tx[t].allocatedPages ELSE tx[t].pagesToDelete
           free == Range(fl.releasedPages)
<1> USE DEF OwnerInv
<1>1. /\ pc[t] \in {"write", "nodes"}
      /\ pc' = [pc EXCEPT ![t] = IF pc[t] = "write" THEN "undo" ELSE "meta"]
      /\ fl' = ReleasePages(fl, pages) /\ fileFl' = fl' /\ UNCHANGED <<tx, committed>>
    BY DEF BeginRollback, SaveFreelist, ToReturn, WriteFreelist
<1>2. /\ \A u \in Thread \ {t} : Allocated(u) = {} /\ GivenBack(u) = {} /\ pc[u] \notin Writing
      /\ InUse = Pages(committed) \cup Allocated(t)
      /\ Deleted(t) \subseteq InUse
  <2>1. GivenBack(t) = {}
      BY <1>1 DEF GivenBack
  <2>2. Deleted(t) \subseteq Pages(committed) \cup Allocated(t)
      BY DEF TxInv, TxInvOf
  <2> QED BY <1>1, <2>1, <2>2, OnlyWriterHolds, LockAlone DEF Writing
<1>3. fl'.maxPage = fl.maxPage /\ Range(fl'.releasedPages) = free \cup Range(pages)
  <2>1. fl \in [maxPage : Nat, releasedPages : Seq(Page)] /\ pages \in Seq(Page)
      BY PageFacts, OwnerTypes DEF TypeOK, FreeLists
  <2>2. IsInjective(fl.releasedPages) /\ IsInjective(pages) /\ free \cap Range(pages) = {}
      BY <1>2 DEF OnePageOneOwner, TxInv, TxInvOf, Allocated, Deleted
  <2>3. /\ ReleasePages(fl, pages).maxPage = fl.maxPage
        /\ Range(ReleasePages(fl, pages).releasedPages) = free \cup Range(pages)
    <3> HIDE DEF pages
    <3> QED BY <2>1, <2>2, Release
  <2> QED BY <1>1, <2>3
<1>4. InUse' = InUse \ Range(pages)
  <2>1. /\ \A u \in Thread : Allocated(u)' = Allocated(u)
        /\ \A u \in Thread \ {t} : GivenBack(u)' = {}
      BY <1>1, <1>2 DEF Allocated, GivenBack, Deleted, Writing, TypeOK
  <2>2. GivenBack(t)' = Range(pages)
      BY <1>1 DEF GivenBack, Allocated, Deleted, TypeOK
  <2> QED BY <1>1, <1>2, <2>1, <2>2 DEF InUse
<1>5. EveryPageAccounted'
    BY <1>3, <1>4 DEF AccountInv, EveryPageAccounted
<1>6. ASSUME \A u \in Thread : pc'[u] \notin Committing, NEW q \in FirstRoot .. fileFl'.maxPage
      PROVE  q \in Pages(committed)' \cup Range(fileFl'.releasedPages)
  <2>1. pc[t] = "write"
      BY <1>1, <1>6 DEF Committing, TypeOK
  <2>2. InUse' \subseteq Pages(committed)'
      BY <1>1, <1>2, <1>4, <2>1 DEF Allocated
  <2> QED BY <1>1, <1>5, <1>6, <2>2 DEF EveryPageAccounted
<1>7. /\ \A u \in Thread : Allocated(u)' \subseteq Dirty(u)'
      /\ \A u \in Thread : pc'[u] = "read" => tx'[u] = NewTx
    BY <1>1 DEF AccountInv, Allocated, Dirty, TypeOK
<1>8. ASSUME \A u \in Thread : pc'[u] \notin Committing
      PROVE  \A q \in FirstRoot .. fileFl'.maxPage :
                 q \in Pages(committed)' \cup Range(fileFl'.releasedPages)
    BY <1>6, <1>8
<1> HIDE DEF pages, free
<1> QED BY <1>5, <1>7, <1>8 DEF AccountInv

\* A transaction that is over: its pages are the tree's or the free list's.
LEMMA AccountEnd ==
    ASSUME OwnerInv, AccountInv, NEW t \in Thread,
           SaveMeta(t) \/ FinishRollback(t) \/ EndRead(t)
    PROVE  AccountInv'
<1> USE DEF OwnerInv
<1>1. /\ tx'[t] = NewTx /\ pc'[t] = "idle" /\ UNCHANGED <<fl, fileFl>>
      /\ \A u \in Thread \ {t} : tx'[u] = tx[u] /\ pc'[u] = pc[u]
    BY DEF SaveMeta, FinishRollback, EndRead, Close, Clean, disk, TypeOK
<1>2. /\ Allocated(t)' = {} /\ GivenBack(t)' = {}
      /\ \A u \in Thread \ {t} : /\ Allocated(u)' = Allocated(u) /\ GivenBack(u)' = GivenBack(u)
                                 /\ Dirty(u)' = Dirty(u)
    BY <1>1, CleanTx DEF Allocated, GivenBack, Deleted, Dirty
<1>3. \A u \in Thread : Allocated(u)' \subseteq Dirty(u)' /\ (pc'[u] = "read" => tx'[u] = NewTx)
    BY <1>1, <1>2 DEF AccountInv
<1>4. CASE SaveMeta(t)
  <2>1. pc[t] = "meta" /\ committed' = View(t)
      BY <1>4 DEF SaveMeta
  <2>2. /\ \A u \in Thread \ {t} : Allocated(u) = {} /\ GivenBack(u) = {} /\ pc[u] \notin Writing
        /\ InUse = (Pages(committed) \cup Allocated(t)) \ Deleted(t)
      BY <2>1, OnlyWriterHolds, LockAlone DEF Writing, GivenBack
  <2>3. InUse \subseteq Pages(committed)'
    <3> SUFFICES ASSUME NEW p \in InUse PROVE p \in Pages(View(t))
        BY <2>1
    <3>1. p \in Pages(committed) \cup Dirty(t) /\ p \notin Deleted(t) /\ p \in Page
        BY <2>2, OwnerTypes DEF AccountInv
    <3> QED BY <3>1 DEF View, Pages, Dirty, TypeOK, TxState, Store
  <2>4. InUse' = Pages(committed)'
      BY <1>2, <2>2 DEF InUse
  <2>5. EveryPageAccounted'
      BY <1>1, <2>3, <2>4 DEF AccountInv, EveryPageAccounted
  <2>6. fileFl' = fl'
      BY <1>1, <2>1 DEF FileFlInv
  <2> QED BY <1>3, <2>4, <2>5, <2>6 DEF AccountInv, EveryPageAccounted
<1>5. CASE FinishRollback(t)
  <2>1. pc[t] = "undo" /\ committed' = committed
      BY <1>5 DEF FinishRollback
  <2>2. /\ \A u \in Thread \ {t} : Allocated(u) = {} /\ GivenBack(u) = {} /\ pc[u] \notin Writing
        /\ InUse \subseteq Pages(committed)
      BY <2>1, OnlyWriterHolds, LockAlone DEF Writing, GivenBack
  <2>3. InUse' = Pages(committed)
      BY <1>2, <2>1, <2>2 DEF InUse
  <2>4. EveryPageAccounted'
      BY <1>1, <2>2, <2>3 DEF AccountInv, EveryPageAccounted
  <2>5. \A u \in Thread : pc[u] \notin Committing
      BY <2>1, <2>2 DEF Committing, Writing
  <2> QED BY <1>1, <1>3, <2>1, <2>4, <2>5 DEF AccountInv
<1>6. CASE EndRead(t)
  <2>1. pc[t] = "read" /\ tx[t] = NewTx /\ committed' = committed
      BY <1>6 DEF EndRead, AccountInv
  <2>2. Allocated(t) = {} /\ GivenBack(t) = {}
      BY <2>1 DEF Allocated, NewTx, Range, GivenBack
  <2>3. InUse' = InUse
      BY <1>2, <2>1, <2>2 DEF InUse
  <2>4. EveryPageAccounted'
      BY <1>1, <2>3 DEF AccountInv, EveryPageAccounted
  <2>5. (\A u \in Thread : pc'[u] \notin Committing) => \A u \in Thread : pc[u] \notin Committing
      BY <1>1, <2>1 DEF Committing
  <2> QED BY <1>1, <1>3, <2>1, <2>4, <2>5 DEF AccountInv
<1> QED BY <1>4, <1>5, <1>6

\* Every step accounts for every page.
LEMMA AccountStep ==
    ASSUME OwnerInv, AccountInv, Documented, "crashInCommit" \notin Situation, [Next]_vars
    PROVE  AccountInv'
<1> USE DEF Committing
<1>0. TypeOK /\ LockInv /\ TxInv
    BY DEF OwnerInv
<1>1. ASSUME UNCHANGED vars
      PROVE  AccountInv'
    BY <1>1, AccountFrame DEF vars, memory, disk, AccountInv
<1>2. ASSUME NEW t \in Thread, NEW p \in Page,
             GetDirtyNode(t, p) \/ SeekPage(t, p) \/ ReadPage(t) \/ SaveNode(t, p)
      PROVE  AccountInv'
  <2>1. UNCHANGED <<pc, tx, fl, fileFl, committed>>
      BY <1>2 DEF GetDirtyNode, SeekPage, ReadPage, SaveNode, memory, disk
  <2> QED BY <2>1, AccountFrame DEF AccountInv
<1>3. ASSUME NEW t \in Thread,
             \/ Request(t, "waitRead") \/ Request(t, "waitWrite")
             \/ AcquireRead(t) \/ AcquireWrite(t) \/ BeginCommit(t)
      PROVE  AccountInv'
  <2>1. /\ UNCHANGED <<tx, fl, fileFl, committed>>
        /\ \A u \in Thread \ {t} : pc'[u] = pc[u]
        /\ pc[t] \notin {"meta", "undo", "nodes"}
        /\ pc'[t] \notin {"meta", "undo"}
        /\ pc'[t] = "read" => pc[t] = "waitRead"
      BY <1>0, <1>3
      DEF Request, AcquireRead, AcquireWrite, BeginCommit, memory, disk, TypeOK
  <2>2. \A u \in Thread : pc'[u] = "read" => tx[u] = NewTx
      BY <1>0, <2>1 DEF AccountInv, TxInv, TxInvOf, Writing
  <2> QED BY <2>1, <2>2, AccountFrame
<1>4. ASSUME NEW t \in Thread, CanChange(t)
      PROVE  pc[t] = "write"
    BY <1>4 DEF CanChange, Documented
<1>5. ASSUME NEW t \in Thread, NEW p \in Page, NEW n \in Node, WriteNode(t, p, n)
      PROVE  AccountInv'
  <2>1. /\ pc[t] = "write" /\ UNCHANGED <<pc, fl, fileFl, committed>>
        /\ \A u \in Thread \ {t} : tx'[u] = tx[u]
        /\ tx'[t].allocatedPages = tx[t].allocatedPages
        /\ tx'[t].dirtyNodes = [tx[t].dirtyNodes EXCEPT ![p] = n]
      BY <1>0, <1>4, <1>5 DEF WriteNode, disk, Dirtied, TypeOK, TxState
  <2>2. Dirty(t) \subseteq Dirty(t)'
      BY <1>0, <2>1, ConstantsAssumption DEF Dirty, Pages, TypeOK, TxState
  <2> QED BY <2>1, <2>2, AccountWrite
<1>6. ASSUME NEW t \in Thread, NEW p \in Page, DeleteNode(t, p) \/ ShrinkRoot(t, p)
      PROVE  AccountInv'
  <2>1. /\ pc[t] = "write" /\ UNCHANGED <<pc, fl, fileFl, committed>>
        /\ \A u \in Thread \ {t} : tx'[u] = tx[u]
        /\ tx'[t].allocatedPages = tx[t].allocatedPages
        /\ tx'[t].dirtyNodes = tx[t].dirtyNodes
      BY <1>0, <1>4, <1>6 DEF DeleteNode, ShrinkRoot, disk, Deleting, TypeOK, TxState
  <2> QED BY <2>1, AccountWrite DEF Dirty
<1>7. ASSUME NEW t \in Thread, NEW n \in Node, CreateNode(t, n) \/ GrowRoot(t, n)
      PROVE  AccountInv'
  <2>1. CanChange(t) /\ TakePage(t, n) /\ UNCHANGED <<pc, fileFl, committed>>
      BY <1>7 DEF CreateNode, GrowRoot, disk
  <2> QED BY <1>4, <2>1, AccountTake
<1>8. ASSUME Crash
      PROVE  AccountInv'
  <2>1. /\ \A u \in Thread : pc[u] \notin Committing /\ tx'[u] = NewTx /\ pc'[u] = "idle"
        /\ fl' = fileFl /\ UNCHANGED <<fileFl, committed>>
      BY <1>8 DEF Crash, disk
  <2>2. \A u \in Thread : Allocated(u)' = {} /\ GivenBack(u)' = {}
      BY <2>1, CleanTx DEF GivenBack
  <2>3. InUse' = Pages(committed)
      BY <2>1, <2>2 DEF InUse
  <2> QED BY <2>1, <2>2, <2>3 DEF AccountInv, EveryPageAccounted
<1>9. ASSUME NEW t \in Thread, Abandon(t)
      PROVE  FALSE
    BY <1>9 DEF Abandon, Documented
<1> QED
  <2>1. \E p \in Page : TRUE
      BY PageFacts
  <2>2. ASSUME NEW t \in Thread, Operate(t) \/ Acquire(t)
        PROVE  AccountInv'
      BY <1>2, <1>3, <1>5, <1>6, <1>7, <2>1, <2>2 DEF Operate, Acquire
  <2>3. ASSUME NEW t \in Thread, End(t) \/ Finish(t)
        PROVE  AccountInv'
      BY <1>2, <1>3, <1>9, <2>3, AccountGiveBack, AccountEnd DEF End, Finish
  <2> QED BY <1>1, <1>3, <1>8, <2>2, <2>3 DEF Next

\* No page is ever lost, for any threads and nodes: below the high-water mark a
\* page is in the tree, free, or held by an open transaction.
THEOREM NoPageIsLost ==
    ASSUME Documented, "crashInCommit" \notin Situation
    PROVE  Spec => []EveryPageAccounted
<1>1. Init => AccountInv
  <2> SUFFICES ASSUME Init PROVE AccountInv
      OBVIOUS
  <2>1. \A u \in Thread : Allocated(u) = {} /\ GivenBack(u) = {}
      BY DEF Init, Allocated, NewTx, Range, GivenBack
  <2>2. InUse = Pages(committed) /\ FirstRoot \in Pages(committed)
      BY <2>1, PageFacts, ConstantsAssumption DEF InUse, Init, Pages, NewFile
  <2>3. \A p \in FirstRoot .. fl.maxPage : p = FirstRoot
      BY NewFreeListFacts, FirstPages DEF Init
  <2> QED BY <2>1, <2>2, <2>3 DEF Init, AccountInv, EveryPageAccounted
<1>2. OwnerInv /\ AccountInv /\ [Next]_vars => OwnerInv' /\ AccountInv'
    BY OwnerStep, AccountStep
<1>3. AccountInv => EveryPageAccounted
    BY DEF AccountInv
<1> QED BY <1>1, <1>2, <1>3, OwnerInit, PTL DEF Spec

-----------------------------------------------------------------------------
(***************************************************************************)
(* The steps of locks, vectors, pages and file implement SerialStore: what *)
(* is read, and what a transaction is to everybody else.  The assumptions: *)
(* a read transaction does not write, two of them are not inside           *)
(* Dal::readPage at once, and the process does not die inside Tx::commit.  *)
(* Transactions may be abandoned, and rolled back after the root moved.    *)
(***************************************************************************)
\* What the theorems exclude, because transactions are not serializable with it.
Serializable == {"readerWrites", "parallelReads", "crashInCommit"} \cap Situation = {}

-----------------------------------------------------------------------------
(***************************************************************************)
(* What is read                                                            *)
(***************************************************************************)
\* Steps that leave the stream and what was read alone: the threads that are in
\* Dal::readPage stay in their transactions and see the same tree.
LEMMA ReadingFrame ==
    ASSUME ReadingInv, UNCHANGED <<filePos, fetching, seen>>,
           \A u \in Thread :
               \/ pc'[u] = pc[u] /\ tx'[u] = tx[u] /\ committed' = committed
               \/ /\ fetching[u] = NoPage
                  /\ pc'[u] \notin {"read"} \cup Writing => seen[u] = {}
                  /\ pc'[u] = "read" => tx'[u] = NewTx
    PROVE  ReadingInv'
<1>1. ASSUME NEW u \in Thread, fetching[u] # NoPage
      PROVE  /\ pc'[u] = pc[u]
             /\ InTree(u, fetching[u])' = InTree(u, fetching[u])
             /\ InDirtyNodes(u, fetching[u])' = InDirtyNodes(u, fetching[u])
    BY <1>1 DEF InTree, View, Deleted, InDirtyNodes
<1> QED BY <1>1 DEF ReadingInv

\* A step of one transaction, outside Dal::readPage; the others are not there
\* either, or the position stays.
LEMMA ReadingStepOf ==
    ASSUME TypeOK, ReadingInv, NEW t \in Thread,
           fetching' = fetching, fetching[t] = NoPage,
           \A u \in Thread \ {t} :
               /\ pc'[u] = pc[u] /\ tx'[u] = tx[u] /\ seen'[u] = seen[u]
               /\ fetching[u] # NoPage => filePos' = filePos /\ committed' = committed,
           pc'[t] \notin {"read"} \cup Writing => seen'[t] = {},
           pc'[t] = "read" => tx'[t] = NewTx
    PROVE  ReadingInv'
<1>1. ASSUME NEW u \in Thread \ {t}, fetching[u] # NoPage
      PROVE  /\ InTree(u, fetching[u])' = InTree(u, fetching[u])
             /\ InDirtyNodes(u, fetching[u])' = InDirtyNodes(u, fetching[u])
    BY <1>1 DEF InTree, View, Deleted, InDirtyNodes
<1>2. ASSUME NEW u \in Thread \ {t}
      PROVE  /\ pc'[u] \notin {"read"} \cup Writing => seen'[u] = {}
             /\ pc'[u] = "read" => tx'[u] = NewTx
             /\ fetching'[u] # NoPage =>
                    /\ pc'[u] \in {"read", "write"} /\ filePos' = fetching'[u]
                    /\ InTree(u, fetching[u])' /\ ~InDirtyNodes(u, fetching[u])'
                    /\ \A v \in Thread \ {u} : fetching'[v] = NoPage
    BY <1>1, <1>2 DEF ReadingInv
<1> QED BY <1>2 DEF ReadingInv

\* Every step keeps ReadingInv.
LEMMA ReadingStep ==
    ASSUME OwnerInv, ReadingInv, Serializable, [Next]_vars
    PROVE  ReadingInv'
<1>0. TypeOK /\ LockInv /\ TxInv
    BY DEF OwnerInv
\* A writer that has ended its changes, or is about to, is not reading, and
\* nobody else is in a transaction.
<1>1. ASSUME NEW t \in Thread, pc[t] \in Writing
      PROVE  \A u \in Thread \ {t} : fetching[u] = NoPage
  <2>1. \A u \in Thread \ {t} : pc[u] \notin {"read"} \cup Writing
      BY <1>0, <1>1, LockAlone
  <2> QED BY <2>1 DEF ReadingInv, Writing
<1>2. ASSUME NEW t \in Thread, pc[t] \in {"nodes", "meta", "undo"}
      PROVE  fetching[t] = NoPage
    BY <1>2 DEF ReadingInv
<1>3. ASSUME UNCHANGED vars
      PROVE  ReadingInv'
    BY <1>3, ReadingFrame DEF vars, memory, disk, reads
<1>4. ASSUME NEW t \in Thread,
             Request(t, "waitRead") \/ Request(t, "waitWrite") \/ AcquireRead(t) \/ AcquireWrite(t)
      PROVE  ReadingInv'
  <2>1. /\ UNCHANGED <<tx, filePos, fetching, seen, committed>>
        /\ pc[t] \in {"idle", "waitRead", "waitWrite"}
        /\ \A u \in Thread \ {t} : pc'[u] = pc[u]
      BY <1>0, <1>4 DEF Request, AcquireRead, AcquireWrite, memory, reads, TypeOK
  <2>2. seen[t] = {} /\ tx[t] = NewTx /\ fetching[t] = NoPage
      BY <1>0, <2>1 DEF ReadingInv, TxInv, TxInvOf, Writing
  <2> QED BY <1>0, <2>1, <2>2, ReadingStepOf
<1>5. ASSUME NEW t \in Thread, NEW p \in Page, GetDirtyNode(t, p)
      PROVE  ReadingInv'
  <2>1. /\ UNCHANGED <<pc, tx, filePos, fetching, committed>>
        /\ pc[t] \in {"read", "write"} /\ fetching[t] = NoPage
        /\ \A u \in Thread \ {t} : seen'[u] = seen[u]
      BY <1>0, <1>5 DEF GetDirtyNode, CanOperate, memory, TypeOK
  <2>2. pc[t] = "read" => tx[t] = NewTx
      BY DEF ReadingInv
  <2> QED BY <1>0, <2>1, <2>2, ReadingStepOf DEF Writing
<1>6. ASSUME NEW t \in Thread, NEW p \in Page, SeekPage(t, p)
      PROVE  ReadingInv'
  <2>1. /\ UNCHANGED <<pc, tx, seen, committed>> /\ filePos' = p
        /\ fetching' = [fetching EXCEPT ![t] = p]
        /\ pc[t] \in {"read", "write"} /\ InTree(t, p) /\ ~InDirtyNodes(t, p)
        /\ \A u \in Thread : fetching[u] = NoPage
      BY <1>6 DEF SeekPage, CanOperate, memory, Serializable
  <2>2. InTree(t, p)' /\ ~InDirtyNodes(t, p)'
      BY <2>1 DEF InTree, View, Deleted, InDirtyNodes
  <2>3. fetching'[t] = p /\ \A u \in Thread \ {t} : fetching'[u] = NoPage
      BY <1>0, <2>1 DEF TypeOK
  <2>4. ASSUME NEW u \in Thread, u # t
        PROVE  /\ pc'[u] \notin {"read"} \cup Writing => seen'[u] = {}
               /\ pc'[u] = "read" => tx'[u] = NewTx
               /\ fetching'[u] = NoPage
      BY <2>1, <2>3, <2>4 DEF ReadingInv
  <2>5. /\ pc'[t] \notin {"read"} \cup Writing => seen'[t] = {}
        /\ pc'[t] = "read" => tx'[t] = NewTx
      BY <2>1 DEF ReadingInv
  <2> QED BY <2>1, <2>2, <2>3, <2>4, <2>5 DEF ReadingInv
<1>7. ASSUME NEW t \in Thread, ReadPage(t)
      PROVE  ReadingInv'
  <2>1. /\ UNCHANGED <<pc, tx>> /\ fetching[t] # NoPage
        /\ fetching' = [fetching EXCEPT ![t] = NoPage]
        /\ \A u \in Thread \ {t} : seen'[u] = seen[u]
      BY <1>0, <1>7 DEF ReadPage, memory, TypeOK
  <2>2. \A u \in Thread : fetching'[u] = NoPage
      BY <1>0, <2>1 DEF ReadingInv, TypeOK
  <2>3. pc[t] \in {"read", "write"}
      BY <2>1 DEF ReadingInv
  <2>4. ASSUME NEW u \in Thread
        PROVE  /\ pc'[u] \notin {"read"} \cup Writing => seen'[u] = {}
               /\ pc'[u] = "read" => tx'[u] = NewTx
      BY <2>1, <2>3 DEF ReadingInv, Writing
  <2> QED BY <2>2, <2>4 DEF ReadingInv
<1>8. ASSUME NEW t \in Thread, CanChange(t), UNCHANGED <<pc, reads, committed>>,
             \A u \in Thread \ {t} : tx'[u] = tx[u]
      PROVE  ReadingInv'
  <2>1. pc[t] = "write" /\ fetching[t] = NoPage
      BY <1>8 DEF CanChange, CanOperate, Serializable
  <2> QED BY <1>0, <1>8, <2>1, ReadingStepOf DEF Writing, reads
<1>9. ASSUME NEW t \in Thread, NEW p \in Page, NEW n \in Node,
             WriteNode(t, p, n) \/ CreateNode(t, n) \/ GrowRoot(t, n)
                 \/ DeleteNode(t, p) \/ ShrinkRoot(t, p)
      PROVE  ReadingInv'
  <2>1. /\ CanChange(t) /\ UNCHANGED <<pc, reads, committed>>
        /\ \A u \in Thread \ {t} : tx'[u] = tx[u]
      BY <1>0, <1>9
      DEF WriteNode, CreateNode, GrowRoot, TakePage, DeleteNode, ShrinkRoot, TypeOK
  <2> QED BY <1>8, <2>1
<1>10. ASSUME NEW t \in Thread, EndRead(t) \/ SaveMeta(t) \/ FinishRollback(t) \/ Abandon(t)
       PROVE  ReadingInv'
  <2>1. /\ Close(t) /\ fetching' = fetching /\ fetching[t] = NoPage
        /\ \/ pc[t] = "read" /\ UNCHANGED <<filePos, committed>>
           \/ pc[t] \in Writing
      BY <1>2, <1>10 DEF EndRead, SaveMeta, FinishRollback, Abandon, Writing
  <2>2. /\ pc'[t] = "idle" /\ seen'[t] = {}
        /\ \A u \in Thread \ {t} : pc'[u] = pc[u] /\ tx'[u] = tx[u] /\ seen'[u] = seen[u]
      BY <1>0, <2>1 DEF Close, Clean, TypeOK
  <2> QED BY <1>0, <1>1, <2>1, <2>2, ReadingStepOf
<1>11. ASSUME NEW t \in Thread, NEW p \in Page,
              BeginCommit(t) \/ BeginRollback(t) \/ SaveNode(t, p) \/ SaveFreelist(t)
       PROVE  ReadingInv'
  <2>1. /\ UNCHANGED <<tx, fetching, seen, committed>> /\ fetching[t] = NoPage
        /\ pc[t] \in Writing /\ pc'[t] \in Writing /\ pc'[t] # "read"
        /\ \A u \in Thread \ {t} : pc'[u] = pc[u]
      BY <1>0, <1>2, <1>11
      DEF BeginCommit, BeginRollback, SaveNode, SaveFreelist, reads, Writing, TypeOK
  <2> QED BY <1>0, <1>1, <2>1, ReadingStepOf
<1>12. ASSUME Crash
       PROVE  ReadingInv'
    BY <1>12 DEF Crash, ReadingInv
<1> QED
  <2>1. \E p \in Page : TRUE
      BY PageFacts
  <2>2. \E n \in Node : TRUE
      BY ConstantsAssumption
  <2>3. ASSUME NEW t \in Thread, Operate(t) \/ Acquire(t)
        PROVE  ReadingInv'
      BY <1>4, <1>5, <1>6, <1>7, <1>9, <2>1, <2>2, <2>3 DEF Operate, Acquire
  <2>4. ASSUME NEW t \in Thread, End(t) \/ Finish(t)
        PROVE  ReadingInv'
      BY <1>10, <1>11, <2>1, <2>4 DEF End, Finish
  <2> QED BY <1>3, <1>4, <1>12, <2>3, <2>4 DEF Next

\* The three invariants hold together throughout.
LEMMA SerialCorrect ==
    ASSUME Serializable
    PROVE  Spec => []SerialInv
<1>1. Init => PagesInv /\ ReadingInv
    BY DEF Init, PagesInv, Committing, ReadingInv
<1>2. SerialInv /\ [Next]_vars => SerialInv'
    BY OwnerStep, PagesStep, ReadingStep DEF SerialInv, OwnerInv, Serializable
<1> QED BY <1>1, <1>2, OwnerInit, PTL DEF Spec, SerialInv

\* A page that Dal::readPage returns is the page of the tree that was asked for.
LEMMA ReadPageIsRight ==
    ASSUME SerialInv, NEW t \in Thread, ReadPage(t)
    PROVE  /\ pc[t] \in {"read", "write"} /\ fetching[t] \in Page
           /\ View(t)[fetching[t]] = committed[fetching[t]]
           /\ View(t)[fetching[t]] # NoNode
           /\ seen' = [seen EXCEPT ![t] = {<<fetching[t], View(t)[fetching[t]]>>}]
<1> DEFINE p == fetching[t]
<1>1. TypeOK /\ LockInv
    BY DEF SerialInv, OwnerInv
<1>2. /\ p \in Page /\ filePos = p /\ pc[t] \in {"read", "write"}
      /\ View(t)[p] # NoNode /\ tx[t].dirtyNodes[p] = NoNode
    BY <1>1 DEF ReadPage, SerialInv, ReadingInv, InTree, InDirtyNodes, TypeOK
<1>3. \A u \in Thread : pc[u] \notin Committing
    BY <1>1, <1>2, ConstantsAssumption DEF LockInv, Writing, Committing, TypeOK
<1>4. View(t)[p] = committed[p] /\ p \in Pages(committed)
    BY <1>1, <1>2 DEF View, Pages, TypeOK, Store
<1>5. file[p] = committed[p]
    BY <1>3, <1>4 DEF SerialInv, PagesInv
<1> QED BY <1>2, <1>4, <1>5 DEF ReadPage

\* What a read transaction has seen is in the committed database, which stays as
\* it is until it has ended.
LEMMA ReadersStep ==
    ASSUME SerialInv, ReadersSeeCommitted, Serializable, [Next]_vars
    PROVE  ReadersSeeCommitted'
<1>0. TypeOK /\ LockInv
    BY DEF SerialInv, OwnerInv
<1>1. ASSUME \A u \in Thread : pc'[u] = "read" =>
                 \/ seen'[u] = {}
                 \/ pc[u] = "read" /\ seen'[u] = seen[u] /\ committed' = committed
      PROVE  ReadersSeeCommitted'
    BY <1>1 DEF ReadersSeeCommitted
<1>2. ASSUME UNCHANGED <<seen, committed>>,
             \A u \in Thread : pc'[u] = "read" => pc[u] \in {"read", "waitRead"}
      PROVE  ReadersSeeCommitted'
    BY <1>1, <1>2 DEF SerialInv, ReadingInv, Writing
<1>3. ASSUME NEW t \in Thread, NEW p \in Page, GetDirtyNode(t, p)
      PROVE  ReadersSeeCommitted'
  <2>1. pc[t] # "read"
      BY <1>3 DEF GetDirtyNode, InDirtyNodes, SerialInv, ReadingInv, NewTx
  <2> QED BY <1>0, <1>1, <1>3, <2>1 DEF GetDirtyNode, TypeOK
<1>4. ASSUME NEW t \in Thread, ReadPage(t)
      PROVE  ReadersSeeCommitted'
  <2>1. /\ seen'[t] = {<<fetching[t], committed[fetching[t]]>>}
        /\ \A u \in Thread \ {t} : seen'[u] = seen[u]
      BY <1>0, <1>4, ReadPageIsRight DEF TypeOK
  <2>2. UNCHANGED <<pc, committed>>
      BY <1>4 DEF ReadPage
  <2> QED BY <2>1, <2>2 DEF ReadersSeeCommitted
<1>5. ASSUME NEW t \in Thread, SaveMeta(t)
      PROVE  ReadersSeeCommitted'
  <2>1. \A u \in Thread : pc'[u] # "read"
      BY <1>0, <1>5, LockAlone DEF SaveMeta, Close, Writing, TypeOK
  <2> QED BY <2>1 DEF ReadersSeeCommitted
<1>6. ASSUME NEW t \in Thread, EndRead(t) \/ FinishRollback(t) \/ Abandon(t)
      PROVE  ReadersSeeCommitted'
    BY <1>0, <1>1, <1>6 DEF EndRead, FinishRollback, Abandon, Close, TypeOK
<1>7. ASSUME Crash
      PROVE  ReadersSeeCommitted'
    BY <1>7 DEF Crash, ReadersSeeCommitted
<1>8. ASSUME NEW t \in Thread, NEW p \in Page, NEW n \in Node,
             \/ SeekPage(t, p) \/ WriteNode(t, p, n) \/ CreateNode(t, n) \/ GrowRoot(t, n)
             \/ DeleteNode(t, p) \/ ShrinkRoot(t, p) \/ SaveNode(t, p)
      PROVE  ReadersSeeCommitted'
  <2>1. UNCHANGED <<pc, seen, committed>>
      BY <1>8 DEF SeekPage, WriteNode, CreateNode, GrowRoot, DeleteNode, ShrinkRoot,
                  SaveNode, memory, disk, reads
  <2> QED BY <1>2, <2>1
<1>9. ASSUME NEW t \in Thread,
             \/ Request(t, "waitRead") \/ Request(t, "waitWrite") \/ Acquire(t)
             \/ BeginCommit(t) \/ BeginRollback(t) \/ SaveFreelist(t)
      PROVE  ReadersSeeCommitted'
  <2>1. /\ UNCHANGED <<seen, committed>> /\ (pc'[t] = "read" => pc[t] = "waitRead")
        /\ \A u \in Thread \ {t} : pc'[u] = pc[u]
      BY <1>0, <1>9
      DEF Request, Acquire, AcquireRead, AcquireWrite, BeginCommit, BeginRollback,
          SaveFreelist, reads, TypeOK
  <2> QED BY <1>2, <2>1
<1>10. ASSUME UNCHANGED vars
       PROVE  ReadersSeeCommitted'
    BY <1>2, <1>10 DEF vars, reads
<1> QED
  <2>1. \E p \in Page : TRUE
      BY PageFacts
  <2>2. \E n \in Node : TRUE
      BY ConstantsAssumption
  <2>3. ASSUME NEW t \in Thread, Operate(t)
        PROVE  ReadersSeeCommitted'
      BY <1>3, <1>4, <1>8, <2>1, <2>2, <2>3 DEF Operate
  <2>4. ASSUME NEW t \in Thread, End(t) \/ Finish(t)
        PROVE  ReadersSeeCommitted'
      BY <1>5, <1>6, <1>8, <1>9, <2>1, <2>2, <2>4 DEF End, Finish
  <2> QED BY <1>7, <1>9, <1>10, <2>3, <2>4 DEF Next

\* A read transaction never sees anything but the committed database, for any
\* threads and nodes, whatever is written, rolled back or abandoned before and
\* after it, and across crashes outside Tx::commit.
THEOREM ReadsAreCommitted ==
    ASSUME Serializable
    PROVE  Spec => []ReadersSeeCommitted
<1>1. Init => ReadersSeeCommitted
    BY DEF Init, ReadersSeeCommitted
<1> QED BY <1>1, ReadersStep, SerialCorrect, PTL DEF Spec
-----------------------------------------------------------------------------
(***************************************************************************)
(* The refinement: what each step is in SerialStore                        *)
(***************************************************************************)
\* The mode and the copy of the store of a thread, as SerialStore has them.
Copy(t) == IF Mode(t) = "none" THEN NewFile ELSE View(t)

\* What a transaction is to SerialStore, by its program counter.
LEMMA SerialModes ==
    ASSUME TypeOK, LockInv, NEW t \in Thread
    PROVE  /\ Mode(t) = "read" <=> pc[t] = "read"
           /\ Mode(t) = "write" <=> pc[t] \in Writing
           /\ Mode(t) \in {"none", "read", "write"}
           /\ Mode(t) = "write" => \A u \in Thread \ {t} : Mode(u) = "none"
<1>1. \A u \in Thread :
          /\ Mode(u) = "read" <=> pc[u] = "read"
          /\ Mode(u) = "write" <=> pc[u] \in Writing
          /\ Mode(u) \in {"none", "read", "write"}
    BY DEF Mode, Writing
<1>2. ASSUME Mode(t) = "write", NEW u \in Thread \ {t}
      PROVE  Mode(u) = "none"
  <2>1. pc[u] \notin {"read"} \cup Writing
      BY <1>1, <1>2, LockAlone
  <2> QED BY <2>1 DEF Mode
<1> QED BY <1>1, <1>2

\* A step in which the copies of the others stay changes one entry of the maps.
LEMMA SerialStepOf ==
    ASSUME NEW t \in Thread,
           \A u \in Thread \ {t} : Mode(u)' = Mode(u) /\ Copy(u)' = Copy(u)
    PROVE  /\ [u \in Thread |-> Mode(u)]' = [[u \in Thread |-> Mode(u)] EXCEPT ![t] = Mode(t)']
           /\ [u \in Thread |-> Copy(u)]' = [[u \in Thread |-> Copy(u)] EXCEPT ![t] = Copy(t)']
OBVIOUS

\* The same for a step that changes the transaction of one thread, in memory,
\* or the tree when all the others are at rest.
LEMMA SerialOthers ==
    ASSUME TypeOK, LockInv, NEW t \in Thread,
           \A u \in Thread \ {t} : pc'[u] = pc[u] /\ tx'[u] = tx[u],
           committed' = committed \/ pc[t] \in Writing
    PROVE  \A u \in Thread \ {t} : Mode(u)' = Mode(u) /\ Copy(u)' = Copy(u)
<1> SUFFICES ASSUME NEW u \in Thread \ {t}
             PROVE  Mode(u)' = Mode(u) /\ Copy(u)' = Copy(u)
    OBVIOUS
<1>1. Mode(u)' = Mode(u)
    BY DEF Mode
<1>2. CASE committed' = committed
    BY <1>1, <1>2 DEF Copy, View, Deleted
<1>3. CASE pc[t] \in Writing
    BY <1>1, <1>3, SerialModes DEF Copy
<1> QED BY <1>1, <1>2, <1>3

\* Taking the lock begins a transaction.
LEMMA SerialBegin ==
    ASSUME SerialInv, NEW t \in Thread, AcquireRead(t) \/ AcquireWrite(t)
    PROVE  \E m \in {"read", "write"} : Serial!Begin(t, m)
<1>0. TypeOK /\ LockInv /\ TxInv
    BY DEF SerialInv, OwnerInv
<1> DEFINE m == IF pc[t] = "waitRead" THEN "read" ELSE "write"
<1>1. /\ UNCHANGED <<tx, seen, committed>>
      /\ pc[t] \in {"waitRead", "waitWrite"} /\ pc' = [pc EXCEPT ![t] = m]
      /\ m = "read" => rwlock.writer = NoThread
      /\ m = "write" => rwlock = Unlocked
    BY DEF AcquireRead, AcquireWrite, MayShare, MayOwn, memory, reads
<1>2. /\ tx[t] = NewTx /\ seen[t] = {} /\ Mode(t) = "none" /\ m \in {"read", "write"}
      /\ Mode(t)' = m
    BY <1>0, <1>1 DEF TxInv, TxInvOf, Writing, SerialInv, ReadingInv, Mode, TypeOK
<1>3. /\ \A u \in Thread : Mode(u) # "write"
      /\ m = "write" => \A u \in Thread : Mode(u) = "none"
    BY <1>0, <1>1, SerialModes, ConstantsAssumption DEF LockInv, Unlocked
<1>4. View(t)' = committed
  <2>1. Deleted(t)' = {} /\ \A p \in Page : tx'[t].dirtyNodes[p] = NoNode
      BY <1>1, <1>2 DEF Deleted, Range, NewTx
  <2>2. View(t)' = [p \in Page |-> committed[p]]
      BY <1>1, <2>1 DEF View
  <2> QED BY <1>0, <2>2 DEF TypeOK, Store
<1>5. \A u \in Thread \ {t} : Mode(u)' = Mode(u) /\ Copy(u)' = Copy(u)
    BY <1>0, <1>1, SerialOthers DEF TypeOK
<1>6. Copy(t)' = committed /\ seen' = [seen EXCEPT ![t] = {}]
    BY <1>0, <1>1, <1>2, <1>4 DEF Copy, TypeOK
<1>7. Serial!Begin(t, m)
    BY <1>1, <1>2, <1>3, <1>5, <1>6, SerialStepOf DEF Serial!Begin, Copy
<1> QED BY <1>2, <1>7

\* A node from dirtyNodes or from the file is the one in the transaction's copy.
LEMMA SerialRead ==
    ASSUME SerialInv, NEW t \in Thread, ReadPage(t) \/ \E p \in Page : GetDirtyNode(t, p)
    PROVE  \E p \in Page : Serial!Read(t, p)
<1>0. TypeOK /\ LockInv /\ TxInv
    BY DEF SerialInv, OwnerInv
<1>1. PICK p \in Page : /\ pc[t] \in {"read", "write"} /\ View(t)[p] # NoNode
                        /\ seen' = [seen EXCEPT ![t] = {<<p, View(t)[p]>>}]
                        /\ UNCHANGED <<pc, tx, committed>>
  <2>1. CASE ReadPage(t)
      BY <2>1, ReadPageIsRight DEF ReadPage, memory
  <2>2. ASSUME NEW p \in Page, GetDirtyNode(t, p)
        PROVE  /\ pc[t] \in {"read", "write"} /\ View(t)[p] = tx[t].dirtyNodes[p]
               /\ View(t)[p] # NoNode
      BY <2>2 DEF GetDirtyNode, CanOperate, InTree, InDirtyNodes, View
  <2> QED BY <2>1, <2>2 DEF GetDirtyNode, memory
<1>2. Mode(t) # "none" /\ Copy(t) = View(t)
    BY <1>0, <1>1 DEF Mode, Writing, Copy
<1>3. \A u \in Thread : Mode(u)' = Mode(u) /\ Copy(u)' = Copy(u)
    BY <1>1 DEF Mode, Copy, View, Deleted
<1> QED BY <1>1, <1>2, <1>3 DEF Serial!Read, Copy

\* What changes dirtyNodes and the vectors changes the copy of the writer.
LEMMA SerialUpdate ==
    ASSUME SerialInv, TypeOK', Serializable, NEW t \in Thread, NEW p \in Page, NEW n \in Node,
           WriteNode(t, p, n) \/ CreateNode(t, n) \/ GrowRoot(t, n)
               \/ DeleteNode(t, p) \/ ShrinkRoot(t, p)
    PROVE  Serial!Update(t)
<1>0. TypeOK /\ LockInv
    BY DEF SerialInv, OwnerInv
<1>1. /\ pc[t] = "write" /\ UNCHANGED <<pc, seen, committed>>
      /\ \A u \in Thread \ {t} : tx'[u] = tx[u]
    BY <1>0
    DEF WriteNode, CreateNode, GrowRoot, TakePage, DeleteNode, ShrinkRoot, CanChange,
        Serializable, reads, TypeOK
<1>2. Mode(t) = "write" /\ Mode(t)' = "write"
    BY <1>1 DEF Mode, Writing
<1>3. \A u \in Thread \ {t} : Mode(u)' = Mode(u) /\ Copy(u)' = Copy(u)
    BY <1>0, <1>1, SerialOthers
<1>4. Copy(t)' \in [Page -> Node \cup {NoNode}]
  <2>1. View(t)' \in [Page -> Node \cup {NoNode}]
      BY <1>1 DEF View, TypeOK, TxState, Store
  <2> QED BY <1>2, <2>1 DEF Copy
<1> QED BY <1>1, <1>2, <1>3, <1>4, SerialStepOf DEF Serial!Update, Copy

\* The last page of a commit commits the copy; other ends drop it.
LEMMA SerialEnd ==
    ASSUME SerialInv, NEW t \in Thread,
           EndRead(t) \/ FinishRollback(t) \/ Abandon(t) \/ SaveMeta(t)
    PROVE  IF SaveMeta(t) THEN Serial!Commit(t) ELSE Serial!End(t)
<1>0. TypeOK /\ LockInv
    BY DEF SerialInv, OwnerInv
<1>1. /\ pc[t] \in {"read"} \cup Writing /\ pc'[t] = "idle"
      /\ seen' = [seen EXCEPT ![t] = {}]
      /\ \A u \in Thread \ {t} : pc'[u] = pc[u] /\ tx'[u] = tx[u]
      /\ SaveMeta(t) => pc[t] = "meta" /\ committed' = View(t)
      /\ ~SaveMeta(t) => committed' = committed
    BY <1>0 DEF EndRead, FinishRollback, Abandon, SaveMeta, Close, Clean, Writing, TypeOK
<1>2. /\ Mode(t) # "none" /\ Mode(t)' = "none" /\ Copy(t)' = NewFile
      /\ SaveMeta(t) => Mode(t) = "write" /\ Copy(t) = View(t)
    BY <1>1 DEF Mode, Writing, Copy
<1>3. \A u \in Thread \ {t} : Mode(u)' = Mode(u) /\ Copy(u)' = Copy(u)
    BY <1>0, <1>1, SerialOthers DEF Writing
<1> QED BY <1>1, <1>2, <1>3, SerialStepOf DEF Serial!End, Serial!Commit, Copy

\* A crash ends all transactions.
LEMMA SerialCrash ==
    ASSUME Crash
    PROVE  Serial!Crash
<1>1. \A t \in Thread : Mode(t)' = "none" /\ Copy(t)' = NewFile
    BY DEF Crash, Mode, Writing, Copy
<1> QED BY <1>1 DEF Crash, Serial!Crash, Copy

\* Steps towards the lock, towards a page, and of a commit or rollback before
\* its last change nothing that anybody could see.
LEMMA SerialStutter ==
    ASSUME SerialInv, NEW t \in Thread, NEW p \in Page,
           \/ Request(t, "waitRead") \/ Request(t, "waitWrite") \/ SeekPage(t, p)
           \/ BeginCommit(t) \/ BeginRollback(t) \/ SaveNode(t, p) \/ SaveFreelist(t)
    PROVE  UNCHANGED Serial!vars
<1>1. /\ UNCHANGED <<tx, seen, committed>> /\ \A u \in Thread \ {t} : pc'[u] = pc[u]
      /\ \/ pc'[t] = pc[t]
         \/ pc[t] = "idle" /\ pc'[t] \in {"waitRead", "waitWrite"}
         \/ pc[t] \in Writing /\ pc'[t] \in Writing
    BY DEF Request, SeekPage, BeginCommit, BeginRollback, SaveNode, SaveFreelist, memory,
           reads, Writing, SerialInv, OwnerInv, TypeOK
<1>2. \A u \in Thread : Mode(u)' = Mode(u)
    BY <1>1 DEF Mode, Writing
<1>3. \A u \in Thread : Copy(u)' = Copy(u)
    BY <1>1, <1>2 DEF Copy, View, Deleted
<1> QED BY <1>1, <1>2, <1>3 DEF Serial!vars, Copy

\* Transactions are serializable: to each other they are SerialStore, which has
\* one copy of the database per transaction and commits in one step, for any
\* threads and nodes, when they are abandoned or roll back a moved root, too.
THEOREM TransactionsAreSerial ==
    ASSUME Serializable
    PROVE  Spec => ImplementsSerialStore
<1>1. Init => Serial!Init
  <2> SUFFICES ASSUME Init PROVE Serial!Init
      OBVIOUS
  <2>1. \A t \in Thread : Mode(t) = "none"
      BY DEF Init, Mode, Writing
  <2> QED BY <2>1 DEF Init, Serial!Init
<1>2. SerialInv /\ TypeOK' /\ [Next]_vars => [Serial!Next]_(Serial!vars)
  <2> SUFFICES ASSUME SerialInv, TypeOK', [Next]_vars
               PROVE  Serial!Next \/ UNCHANGED Serial!vars
      OBVIOUS
  <2>1. \E p \in Page : TRUE
      BY PageFacts
  <2>2. \E n \in Node : TRUE
      BY ConstantsAssumption
  <2>3. ASSUME NEW t \in Thread, Request(t, "waitRead") \/ Request(t, "waitWrite") \/ Acquire(t)
        PROVE  Serial!Next \/ UNCHANGED Serial!vars
      BY <2>1, <2>3, SerialBegin, SerialStutter DEF Acquire, Serial!Next
  <2>4. ASSUME NEW t \in Thread, Operate(t)
        PROVE  Serial!Next \/ UNCHANGED Serial!vars
      BY <2>1, <2>2, <2>4, SerialRead, SerialUpdate, SerialStutter DEF Operate, Serial!Next
  <2>5. ASSUME NEW t \in Thread, End(t) \/ Finish(t)
        PROVE  Serial!Next \/ UNCHANGED Serial!vars
      BY <2>1, <2>5, SerialEnd, SerialStutter DEF End, Finish, Serial!Next
  <2>6. ASSUME UNCHANGED vars
        PROVE  UNCHANGED Serial!vars
      BY <2>6 DEF vars, memory, reads, Serial!vars, Mode, View, Deleted
  <2> QED BY <2>3, <2>4, <2>5, <2>6, SerialCrash DEF Next, Serial!Next
<1>3. SerialInv => TypeOK
    BY DEF SerialInv, OwnerInv
<1> QED BY <1>1, <1>2, <1>3, SerialCorrect, PTL DEF Spec, ImplementsSerialStore, Serial!Spec
=============================================================================
