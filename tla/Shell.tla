------------------------------- MODULE Shell -------------------------------
(***************************************************************************)
(* The command line client, src/cli: a line of commands is parsed as a     *)
(* whole and then executed one by one; collections and documents are       *)
(* entered and left, and leaving a collection commits.                     *)
(*                                                                         *)
(* The shell is one thread with the file to itself; a step is one command. *)
(* Module Transactions has the steps of the commit, Document the tree.     *)
(***************************************************************************)
EXTENDS Containers, FiniteSets

CONSTANTS
    Line,         \* lines that may be typed, sequences of words
    Collection, DocumentName, Key, Value,  \* the words they use as arguments
    MaxPages      \* bound: largest page number handed out

ASSUME ShellAssumption ==
    /\ Line \subseteq Seq(STRING)
    /\ NoName \notin Collection \cup DocumentName \cup Key
    /\ MaxPages \in Nat /\ CollectionsRoot < MaxPages

\* No document can hold as many items as its count has values, 2^64.
ASSUME KeyAssumption == IsFiniteSet(Key) /\ Cardinality(Key) < CountRange

VARIABLES
    path,      \* DBStateManager::path: the open entries [kind, ref]
    commands,  \* the rest of the line, parsed
    active,    \* mainLoop's flag: it will ask for another line
    running,   \* the process is alive
    locked,    \* a WriteTx is open
    db,        \* the database in the transaction, see module Containers
    saved,     \* ... and in the file
    reply      \* observer: the last command, its target, the value it displayed

session == <<path, active, running, locked>>
vars == <<session, commands, db, saved, reply>>

File == <<[kind |-> "file", ref |-> NoName]>>

Init ==
    /\ path = File
    /\ commands = <<>>
    /\ active = TRUE /\ running = TRUE
    /\ locked = FALSE
    /\ db = EmptyDatabase /\ saved = EmptyDatabase
    /\ reply = [did |-> "nothing", to |-> <<>>, shows |-> {}]
-----------------------------------------------------------------------------
\* Command::typeFromString and the parsers: the commands, each with the number
\* of arguments it takes.  Aliases and case are left out.
Arguments == [collection |-> 1, document |-> 1, get |-> 1, put |-> 2, delete |-> 1,
              up |-> 0, top |-> 0, help |-> 0, close |-> 0]

EndsLine_Mutant(type) == FALSE                 \* parseCommands goes on
EndsLine(type) == type = "close"               \* parseClose returns EXIT

\* CommandParser::parseCommands: the commands of the line, as a set of one
\* sequence; empty if there is an error in the line.
Parse(line) ==
    LET from[i \in 1 .. Len(line) + 1] ==
            IF i > Len(line) THEN {<<>>}
            ELSE IF line[i] \notin DOMAIN Arguments THEN {}
            ELSE LET next == i + 1 + Arguments[line[i]]
                     cmd == [type |-> line[i], args |-> SubSeq(line, i + 1, next - 1)]
                 IN  IF next > Len(line) + 1 THEN {}
                     ELSE IF EndsLine(cmd.type) THEN {<<cmd>>}
                     ELSE {<<cmd>> \o rest : rest \in from[next]}
    IN  from[1]

\* What the lines of this instance parse to; a line with an error is not
\* executed at all.
Parsed == UNION {Parse(line) : line \in Line}

\* The words are what the commands take them for, and none is empty: handleInput
\* reads them with >>.
Fits(cmd) ==
    /\ cmd.type = "collection"      => cmd.args[1] \in Collection
    /\ cmd.type = "document"        => cmd.args[1] \in DocumentName
    /\ cmd.type = "delete"          => cmd.args[1] \in DocumentName \cup Key
    /\ cmd.type \in {"get", "put"} => cmd.args[1] \in Key
    /\ cmd.type = "put"             => cmd.args[2] \in Value

ASSUME LineAssumption ==
    \A typed \in Parsed : \A i \in DOMAIN typed : Fits(typed[i])

Reply(did, to, shows) == reply' = [did |-> did, to |-> to, shows |-> shows]
Quiet == Reply("nothing", <<>>, {})

\* CLIManager::mainLoop and handleInput at the prompt.  An empty line changes
\* nothing, nor does the end of the input, at which the shell prompts forever.
ReadLine ==
    /\ running /\ active /\ commands = <<>>
    /\ commands' \in Parsed \ {<<>>}
    /\ Quiet
    /\ UNCHANGED <<session, db, saved>>
-----------------------------------------------------------------------------
Top == Last(path)

\* The tree that holds the record of an entry: the collections', or that of the
\* parentCollection.
ParentRoot(i) == IF path[i].kind = "collection" THEN CollectionsRoot ELSE path[i - 1].ref.root

\* The levels at which CommandDispatcher executes a command.
Levels(type) ==
    CASE type = "collection"      -> {"file"}
      [] type = "document"        -> {"collection"}
      [] type \in {"get", "put"} -> {"document"}
      [] type = "delete"          -> {"collection", "document"}
      [] OTHER                    -> {"file", "collection", "document"}

\* CommandDispatcher::execute of the next command of the line.  The commands
\* after one that fails are executed all the same.
IsNext(type) ==
    /\ running
    /\ commands # <<>> /\ Head(commands).type = type
    /\ Top.kind \in Levels(type)
Execute(type) == IsNext(type) /\ commands' = Tail(commands)

Argument(i) == Head(commands).args[i]

\* The names on the path, with the first argument of the command.
Target == Append([i \in 1 .. Len(path) - 1 |-> path[i + 1].ref.id], Argument(1))

Refuse ==
    /\ running
    /\ commands # <<>> /\ Top.kind \notin Levels(Head(commands).type)
    /\ commands' = Tail(commands)
    /\ Quiet
    /\ UNCHANGED <<session, db, saved>>

\* getCollection or document has put a container on the path; each throws if
\* the record it finds cannot be read.
Entered(kind, root, id) ==
    LET r == OpenOrCreate(db, root, id)
    IN  /\ Readable(db, root, id)
        /\ r.db.fl.maxPage <= MaxPages
        /\ db' = r.db
        /\ path' = Append(path, [kind |-> kind, ref |-> r.handle])
        /\ Reply("enter", Target, {})
        /\ UNCHANGED <<active, running, saved>>

\* executeCollection waits for the lock, forever if the shell has it itself.
ExecuteCollection ==
    /\ Execute("collection")
    /\ ~locked /\ locked' = TRUE
    /\ Entered("collection", CollectionsRoot, Argument(1))

ExecuteDocument ==
    /\ Execute("document")
    /\ Entered("document", Top.ref.root, Argument(1))
    /\ UNCHANGED locked

ExecuteGet ==
    /\ Execute("get")
    /\ LET tree == db.trees[Top.ref.root]
       IN  Reply("get", Target, {tree[k] : k \in DOMAIN tree \cap {Argument(1)}})
    /\ UNCHANGED <<session, db, saved>>

\* What a put or a delete leaves: the database and the handle on the path.
Changed(r) ==
    /\ db' = r.db
    /\ path' = [path EXCEPT ![Len(path)].ref = r.handle]
    /\ UNCHANGED <<active, running, locked, saved>>

ExecutePut ==
    /\ Execute("put")
    /\ Reply("put", Target, {})
    /\ Changed(PutItem(db, ParentRoot(Len(path)), Top.ref, Argument(1), Argument(2)))

\* A document of the collection, or an item of the document.  The branch for a
\* command without an argument is never taken: the parser asks for one.
ExecuteDelete ==
    /\ Execute("delete")
    /\ Reply("delete", Target, {})
    /\ Changed(RemoveItem(db, ParentRoot(Len(path)), Top.ref, Argument(1)))

\* DBStateManager::navigateUp n times: leaving a collection commits its
\* transaction, which releases the lock.
NavigateUp_Mutant(n) ==                        \* leaving a document commits too
    /\ path' = SubSeq(path, 1, IF Len(path) > n THEN Len(path) - n ELSE 1)
    /\ saved' = db /\ locked' = FALSE
    /\ Reply("save", <<>>, {})
    /\ UNCHANGED db
NavigateUp(n) ==
    LET kept == IF Len(path) > n THEN Len(path) - n ELSE 1
        commits == \E i \in kept + 1 .. Len(path) : path[i].kind = "collection"
    IN  /\ path' = SubSeq(path, 1, kept)
        /\ saved' = IF commits THEN db ELSE saved
        /\ locked' = (locked /\ ~commits)
        /\ Reply(IF commits THEN "save" ELSE "nothing", <<>>, {})
        /\ UNCHANGED db

ExecuteNavigateUp ==
    /\ Execute("up")
    /\ NavigateUp(1)
    /\ UNCHANGED <<active, running>>

ExecuteNavigateToTop ==
    /\ Execute("top")
    /\ NavigateUp(Len(path))
    /\ UNCHANGED <<active, running>>

ExecuteHelp ==
    /\ Execute("help")
    /\ Quiet
    /\ UNCHANGED <<session, db, saved>>

\* The loop over the commands of the line goes on.
ExecuteClose ==
    /\ Execute("close")
    /\ active' = FALSE
    /\ Quiet
    /\ UNCHANGED <<path, running, locked, db, saved>>
-----------------------------------------------------------------------------
\* The end of mainLoop, and ~CLIManager: ~DBStateManager leaves every entry
\* before the database is closed.
Exit_Mutant ==                                 \* entries are dropped, not left
    /\ running /\ ~active /\ commands = <<>>
    /\ path' = File
    /\ locked' = FALSE
    /\ running' = FALSE
    /\ Quiet
    /\ UNCHANGED <<active, commands, db, saved>>
Exit ==
    /\ running /\ ~active /\ commands = <<>>
    /\ NavigateUp(Len(path))
    /\ running' = FALSE
    /\ UNCHANGED <<active, commands>>

\* The process ends without its destructors.
Die ==
    /\ running' = FALSE
    /\ path' = File
    /\ commands' = <<>>
    /\ locked' = FALSE
    /\ db' = saved
    /\ Reply("lose", <<>>, {})
    /\ UNCHANGED <<active, saved>>

\* It is killed, between two commands.
Crash == running /\ Die

\* The exception of getCollection or document ends it.
Throw ==
    /\ \/ IsNext("collection") /\ ~locked /\ ~Readable(db, CollectionsRoot, Argument(1))
       \/ IsNext("document") /\ ~Readable(db, Top.ref.root, Argument(1))
    /\ Die

\* main opens the file again.
Start ==
    /\ ~running
    /\ running' = TRUE /\ active' = TRUE
    /\ Quiet
    /\ UNCHANGED <<path, commands, locked, db, saved>>

Next ==
    \/ ReadLine \/ Refuse
    \/ ExecuteCollection \/ ExecuteDocument
    \/ ExecuteGet \/ ExecutePut \/ ExecuteDelete
    \/ ExecuteNavigateUp \/ ExecuteNavigateToTop
    \/ ExecuteHelp \/ ExecuteClose
    \/ Exit \/ Crash \/ Throw \/ Start

Spec == Init /\ [][Next]_vars
-----------------------------------------------------------------------------
(***************************************************************************)
(* Properties                                                              *)
(***************************************************************************)
Command == [type : DOMAIN Arguments, args : Seq(STRING)]
HandleOf(name) == [id : name, root : Nat, count : 0 .. CountRange - 1]

\* The path is the file, a collection in it, a document in that.
InFile == path = File
InCollection ==
    path = <<File[1], [kind |-> "collection", ref |-> path[2].ref]>>
InDocument ==
    path = <<File[1], [kind |-> "collection", ref |-> path[2].ref],
             [kind |-> "document", ref |-> path[3].ref]>>

\* Type invariant; a page that is a root is one that was handed out.
TypeOK ==
    /\ InFile \/ InCollection \/ InDocument
    /\ ~InFile => path[2].ref \in HandleOf(Collection)
    /\ Len(path) > 2 => path[3].ref \in HandleOf(DocumentName)
    /\ {active, running, locked} \subseteq BOOLEAN
    /\ commands \in Seq(Command)
    /\ \A s \in {db, saved} : DOMAIN s.trees = CollectionsRoot .. s.fl.maxPage
    /\ reply.shows \subseteq Value

\* The shell has a write transaction open exactly while it is in a collection,
\* so `collection', allowed at the top level only, never waits for a lock that
\* the shell holds itself, and the lock is free for others when it has ended.
LockFollowsPath == locked <=> \E i \in DOMAIN path : path[i].kind = "collection"

\* At the top level, and when the process has ended in whatever way, what the
\* session sees is what the file holds: nothing entered is left uncommitted.
NothingUnsavedAtTop == Len(path) = 1 => db = saved

\* The handle on the path and the record in the tree above agree on root and
\* count, for every open entry, however deep the change was made: going up and
\* entering again continues with the same tree.
HandlesCurrent == \A i \in 2 .. Len(path) :
    /\ Has(db, ParentRoot(i), path[i].ref.id)
    /\ Opened(db, ParentRoot(i), path[i].ref.id) = path[i].ref

\* The roots of the documents in a collection.
DocumentsRoots(s) == {RootOf(s, CollectionsRoot, c) : c \in Names(s, CollectionsRoot)}
Records(s) == {<<CollectionsRoot, c>> : c \in Names(s, CollectionsRoot)} \cup
    UNION {{<<p, d>> : d \in Names(s, p)} : p \in DocumentsRoots(s)}

\* No two collections or documents have the same root page, in the session and
\* in the file: a put into one is never seen in another.
OwnTrees == \A s \in {db, saved} : \A x, y \in Records(s) :
    RootOf(s, x[1], x[2]) = RootOf(s, y[1], y[2]) => x = y

Counted(s) == \A p \in DocumentsRoots(s) : \A d \in Names(s, p) :
    s.trees[p][d].count = Cardinality(DOMAIN s.trees[RootOf(s, p, d)])

\* The count stored for a document is the number of its items, through any
\* puts, deletes, exits and crashes.  (That of a collection is not.)
DocumentsCounted == Counted(db) /\ Counted(saved)

\* mainLoop executes the rest of the line after a close; the parser sees to it
\* that there is none.
CloseIsLast == ~active => commands = <<>>

Promised == INSTANCE ContainerStore WITH
    facts <- Facts(db), saved <- Facts(saved), reply <- reply

\* The session does what the help text and containers.h promise of entering,
\* getting, putting and deleting, keeps what was entered when a collection is
\* left by up, top or close, and loses at most the open collection's changes
\* when the process dies.
ImplementsStore == Promised!Spec
-----------------------------------------------------------------------------
\* Every collection can be entered again.
CollectionsOpen == \A c \in Names(saved, CollectionsRoot) :
    Readable(saved, CollectionsRoot, c)
-----------------------------------------------------------------------------
\* The inductive invariant behind LockFollowsPath and NothingUnsavedAtTop, which
\* with the first line of TypeOK say the same: where the shell is, what it has
\* locked, and what it has not saved there.
Position ==
    \/ InFile /\ ~locked /\ db = saved
    \/ InCollection /\ locked
    \/ InDocument /\ locked

\* The inductive invariant behind OwnTrees, HandlesCurrent and TypeOK: what the
\* trees of a database hold, and that the records of collections and documents
\* share no root page.
Pages(s) == CollectionsRoot + 1 .. s.fl.maxPage
RecordIn(s) == [root : Pages(s), count : 0 .. CountRange - 1]

Formed(s) ==
    /\ s = [trees |-> s.trees, fl |-> s.fl]
    /\ s.fl \in [maxPage : Nat, releasedPages : {<<>>}]
    /\ CollectionsRoot <= s.fl.maxPage
    /\ DOMAIN s.trees = CollectionsRoot .. s.fl.maxPage

HoldsCollections(s) ==
    /\ Names(s, CollectionsRoot) \subseteq Collection
    /\ \A c \in Names(s, CollectionsRoot) : s.trees[CollectionsRoot][c] \in RecordIn(s)
HoldsDocuments(s, p) ==
    /\ Names(s, p) \subseteq DocumentName
    /\ \A d \in Names(s, p) : s.trees[p][d] \in RecordIn(s)
HoldsItems(s, p) ==
    /\ DOMAIN s.trees[p] \subseteq Key
    /\ \A k \in DOMAIN s.trees[p] : s.trees[p][k] \in Value

Sound(s) ==
    /\ Formed(s) /\ HoldsCollections(s)
    /\ \A p \in DocumentsRoots(s) :
        /\ HoldsDocuments(s, p)
        /\ \A d \in Names(s, p) : HoldsItems(s, RootOf(s, p, d))
    /\ \A x, y \in Records(s) : RootOf(s, x[1], x[2]) = RootOf(s, y[1], y[2]) => x = y

\* The handles on the path are those of the records.
Handles ==
    /\ Len(path) > 1 =>
        /\ path[2].ref.id \in Names(db, CollectionsRoot)
        /\ path[2].ref = Opened(db, CollectionsRoot, path[2].ref.id)
    /\ Len(path) > 2 =>
        /\ path[3].ref.id \in Names(db, path[2].ref.root)
        /\ path[3].ref = Opened(db, path[2].ref.root, path[3].ref.id)

DatabaseInv == Sound(db) /\ Sound(saved) /\ Handles
=============================================================================
