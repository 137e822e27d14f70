--------------------------- MODULE ContainerStore ---------------------------
(***************************************************************************)
(* What a session with the database promises (db/containers/containers.h,  *)
(* cli/misc/Command.h): collections of documents of named values, changed  *)
(* in a transaction that is kept when the collection is left and lost when *)
(* the process dies.  There are no pages, handles or counts here.          *)
(***************************************************************************)
EXTENDS SequencesExt

CONSTANTS Collection, DocumentName, Key, Value

VARIABLES
    facts,   \* <<c>>, <<c, d>>, <<c, d, k, v>>, as the session sees them
    saved,   \* ... as they are on disk
    reply    \* the last operation, what it was on, and the value it displayed

vars == <<facts, saved, reply>>

Reply(did, to, shows) == reply' = [did |-> did, to |-> to, shows |-> shows]

Init == facts = {} /\ saved = {} /\ reply = [did |-> "nothing", to |-> <<>>, shows |-> {}]

\* "Enters a collection"; "Document will be created if it doesn't exist."
Enter(f) ==
    /\ Reply("enter", f, {})
    /\ facts' = facts \cup {f}
    /\ UNCHANGED saved

\* "Fetches a resource and displays its value, if it exists."
Get(f) ==
    /\ Reply("get", f, {v \in Value : Append(f, v) \in facts})
    /\ UNCHANGED <<facts, saved>>

Without(prefix) == {f \in facts : ~IsPrefix(prefix, f)}

\* "Updates or creates new if it doesn't exist."
Put(f, v) ==
    /\ Reply("put", f, {})
    /\ facts' = Without(f) \cup {Append(f, v)}
    /\ UNCHANGED saved

\* "Deletes a resource."
Delete(f) ==
    /\ Reply("delete", f, {})
    /\ facts' = Without(f)
    /\ UNCHANGED saved

Save == Reply("save", <<>>, {}) /\ saved' = facts /\ UNCHANGED facts
Lose == Reply("lose", <<>>, {}) /\ facts' = saved /\ UNCHANGED saved
Rest == Reply("nothing", <<>>, {}) /\ UNCHANGED <<facts, saved>>

Next ==
    \/ \E c \in Collection :
        \/ Enter(<<c>>)
        \/ \E n \in DocumentName \cup Key : Delete(<<c, n>>)
        \/ \E d \in DocumentName :
            \/ Enter(<<c, d>>)
            \/ \E n \in DocumentName \cup Key : Delete(<<c, d, n>>)
            \/ \E k \in Key : Get(<<c, d, k>>) \/ \E v \in Value : Put(<<c, d, k>>, v)
    \/ Save \/ Lose \/ Rest

Spec == Init /\ [][Next]_vars
=============================================================================
