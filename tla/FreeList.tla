------------------------------ MODULE FreeList ------------------------------
(***************************************************************************)
(* The page allocator, dal/freelist.cpp: a high-water mark and a stack of  *)
(* released page numbers.  A free list is a record                         *)
(* [maxPage, releasedPages]; the operators are the methods of FreeList,    *)
(* from the list before the call to the list after it.                     *)
(***************************************************************************)
EXTENDS Integers, SequencesExt

\* config.h: the constructor starts counting at INITIAL_PAGE, so page 0 is
\* never handed out; it is META_PAGE_NUM, where the meta record lives.
InitialPage == 0

EmptyFreeList == [maxPage |-> InitialPage, releasedPages |-> <<>>]

\* FreeList::getNextPageNum: the page it returns ...
NextPage(fl) ==
    IF fl.releasedPages # <<>> THEN Last(fl.releasedPages) ELSE fl.maxPage + 1

\* Mutant: the last released page is handed out but not popped.
AfterNextPage_Mutant(fl) ==
    IF fl.releasedPages # <<>> THEN fl ELSE [fl EXCEPT !.maxPage = @ + 1]

\* ... and the list it leaves: the last released page is popped, or the
\* high-water mark rises.
AfterNextPage(fl) ==
    IF fl.releasedPages # <<>>
    THEN [fl EXCEPT !.releasedPages = Front(@)]
    ELSE [fl EXCEPT !.maxPage = @ + 1]

\* FreeList::releasePage for every page of a vector, in its order: the loops
\* of Tx::commit and Tx::rollback.
ReleasePages(fl, pages) == [fl EXCEPT !.releasedPages = @ \o pages]

\* Bound on the file of an instance: a page can be handed out within maxPages.
CanAllocate(fl, maxPages) == fl.releasedPages # <<>> \/ fl.maxPage < maxPages
=============================================================================
