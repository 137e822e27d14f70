------------------------------- MODULE MCNode -------------------------------
(***************************************************************************)
(* One call of a method of Node: a search in a node, or a rebalancing of   *)
(* its children.  The method that is not called has already returned.      *)
(***************************************************************************)
EXTENDS FindKeyInNode, Rebalance

CONSTANTS Short, Long

\* Items of two sizes, as in module MCDocument.
MCKey == 1 .. 99
MCValue == {Short, Long}
MCBytes == (Short :> 10) @@ (Long :> 30) @@ (Garbled :> 60)

MCSearchKey == 1 .. 7

SearchReturned ==
    /\ size = 0 /\ items = <<>> /\ key \in {1}
    /\ leftPos = 0 /\ rightPos = -1 /\ mid = 0 /\ cmpRes = 1
    /\ idx = 0 /\ result = "missing"

\* A node with one child.
RebalanceReturned ==
    /\ tx = [file |-> (NodePage :> [NewNode EXCEPT !.kids = <<2>>]) @@ (2 :> NewNode),
             dirtyNodes |-> <<>>, pagesToDelete |-> <<>>, allocatedPages |-> <<>>,
             fl |-> EmptyFreeList, metaRoot |-> NodePage]
    /\ at = 1 /\ balanced = TRUE

CallInit == (Init /\ RebalanceReturned) \/ (RebalanceInit /\ SearchReturned)

CallNext ==
    \/ Next /\ UNCHANGED rebalanceVars
    \/ Run /\ UNCHANGED vars

CallSpec == CallInit /\ [][CallNext]_<<vars, rebalanceVars>> /\ WF_vars(Next)
=============================================================================
