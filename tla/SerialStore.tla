---------------------------- MODULE SerialStore -----------------------------
(***************************************************************************)
(* What the transactions of the database promise (README.md, the           *)
(* Transactions feature): "multiple read transactions or one write         *)
(* transaction at the same time".  A transaction reads the store as it was *)
(* when the transaction began, a write transaction changes a private copy, *)
(* and a commit installs that copy in one step.  There is no disk, no free *)
(* list, no lock and no dirty set here.                                    *)
(***************************************************************************)
CONSTANTS Thread, Page, Node, NoNode, InitialStore

VARIABLES store,  \* page -> node, NoNode for a page that holds no node
          mode,   \* thread -> "none", "read" or "write"
          view,   \* thread -> its copy of the store while a transaction runs
          seen    \* thread -> the pages and nodes its last read returned

vars == <<store, mode, view, seen>>

Init ==
    /\ store = InitialStore
    /\ mode = [t \in Thread |-> "none"]
    /\ view = [t \in Thread |-> InitialStore]
    /\ seen = [t \in Thread |-> {}]

Begin(t, m) ==
    /\ mode[t] = "none"
    /\ \A u \in Thread : mode[u] # "write"
    /\ m = "write" => \A u \in Thread : mode[u] = "none"
    /\ mode' = [mode EXCEPT ![t] = m]
    /\ view' = [view EXCEPT ![t] = store]
    /\ seen' = [seen EXCEPT ![t] = {}]
    /\ UNCHANGED store

Read(t, p) ==
    /\ mode[t] # "none"
    /\ view[t][p] # NoNode
    /\ seen' = [seen EXCEPT ![t] = {<<p, view[t][p]>>}]
    /\ UNCHANGED <<store, mode, view>>

Update(t) ==
    /\ mode[t] = "write"
    /\ view'[t] \in [Page -> Node \cup {NoNode}]
    /\ view' = [view EXCEPT ![t] = view'[t]]
    /\ UNCHANGED <<store, mode, seen>>

\* End without effect: a read transaction, or a write transaction rolled back.
End(t) ==
    /\ mode[t] # "none"
    /\ mode' = [mode EXCEPT ![t] = "none"]
    /\ view' = [view EXCEPT ![t] = InitialStore]
    /\ seen' = [seen EXCEPT ![t] = {}]
    /\ UNCHANGED store

Commit(t) ==
    /\ mode[t] = "write"
    /\ store' = view[t]
    /\ mode' = [mode EXCEPT ![t] = "none"]
    /\ view' = [view EXCEPT ![t] = InitialStore]
    /\ seen' = [seen EXCEPT ![t] = {}]

\* The process dies and the file is reopened: every transaction is gone, and
\* the store is the last committed one.
Crash ==
    /\ mode' = [t \in Thread |-> "none"]
    /\ view' = [t \in Thread |-> InitialStore]
    /\ seen' = [t \in Thread |-> {}]
    /\ UNCHANGED store

Next ==
    \/ \E t \in Thread :
        \/ \E m \in {"read", "write"} : Begin(t, m)
        \/ \E p \in Page : Read(t, p)
        \/ Update(t)
        \/ End(t)
        \/ Commit(t)
    \/ Crash

Spec == Init /\ [][Next]_vars
=============================================================================
