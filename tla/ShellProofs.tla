----------------------------- MODULE ShellProofs -----------------------------
(***************************************************************************)
(* Theorems of Shell, for any lines, names, values and bounds.             *)
(*                                                                         *)
(* First the session: the transaction and what is unsaved follow the path. *)
(* Position ties them together; it is inductive because a path is the      *)
(* file, a collection in it, or a document in that, and the commands know  *)
(* which.  Lines says what is left of the line: it rests on what the       *)
(* parser returns for a line of any length.                                *)
(*                                                                         *)
(* Then the database, with fewer keys than a count has values.  The        *)
(* inductive invariant is DatabaseInv, with Position and Lines: the        *)
(* database and the file are Sound, that is their trees hold records and   *)
(* values of their kinds and no two records share a root page, and the     *)
(* handles on the path are those of the records.  First come the operators *)
(* of module Containers, each as what it leaves alone (Adds, Edits,        *)
(* Loses), then what that does to a sound database, to the names, records  *)
(* and items in it, to the counts, and to the facts that module            *)
(* ContainerStore speaks of; the commands apply these.                     *)
(***************************************************************************)
EXTENDS Shell, TLAPS, SequenceTheorems, WellFoundedInduction, FiniteSetTheorems

\* What Append does to a path of no entries.
LEMMA AppendToNone ==
    ASSUME NEW a
    PROVE  Append(<<>>, a) = <<a>>
OBVIOUS

\* ... to one entry.
LEMMA AppendToOne ==
    ASSUME NEW a, NEW b
    PROVE  Append(<<a>>, b) = <<a, b>>
<1> DEFINE S == {a, b}
<1>1. /\ <<a>> \in Seq(S) /\ b \in S /\ <<a, b>> \in Seq(S)
      /\ Len(<<a>>) = 1 /\ Len(<<a, b>>) = 2
    OBVIOUS
<1> HIDE DEF S
<1>2. /\ Append(<<a>>, b) \in Seq(S) /\ Len(Append(<<a>>, b)) = 2
      /\ Append(<<a>>, b)[1] = <<a>>[1] /\ Append(<<a>>, b)[2] = b
    BY <1>1, AppendProperties
<1>3. \A i \in 1 .. 2 : Append(<<a>>, b)[i] = <<a, b>>[i]
    BY <1>2
<1> QED BY <1>1, <1>2, <1>3, SeqEqual

\* ... to two.
LEMMA AppendToTwo ==
    ASSUME NEW a, NEW b, NEW c
    PROVE  Append(<<a, b>>, c) = <<a, b, c>>
<1> DEFINE S == {a, b, c}
<1>1. /\ <<a, b>> \in Seq(S) /\ c \in S /\ <<a, b, c>> \in Seq(S)
      /\ Len(<<a, b>>) = 2 /\ Len(<<a, b, c>>) = 3
    OBVIOUS
<1> HIDE DEF S
<1>2. /\ Append(<<a, b>>, c) \in Seq(S) /\ Len(Append(<<a, b>>, c)) = 3
      /\ \A i \in 1 .. 2 : Append(<<a, b>>, c)[i] = <<a, b>>[i]
      /\ Append(<<a, b>>, c)[3] = c
    BY <1>1, AppendProperties
<1>3. \A i \in 1 .. 3 : Append(<<a, b>>, c)[i] = <<a, b, c>>[i]
    BY <1>2
<1> QED BY <1>1, <1>2, <1>3, SeqEqual

\* The path after all but the first entry are left.
LEMMA FirstOf ==
    ASSUME NEW s, NEW a, s[1] = a
    PROVE  SubSeq(s, 1, 1) = <<a>>
<1> DEFINE S == {a}
<1>1. /\ <<a>> \in Seq(S) /\ Len(<<a>>) = 1 /\ \A i \in 1 .. 1 : s[i] \in S
    OBVIOUS
<1> HIDE DEF S
<1>2. /\ SubSeq(s, 1, 1) \in Seq(S) /\ Len(SubSeq(s, 1, 1)) = 1
      /\ SubSeq(s, 1, 1)[1] = s[1]
    BY <1>1, SubSeqProperties
<1>3. \A i \in 1 .. 1 : SubSeq(s, 1, 1)[i] = <<a>>[i]
    BY <1>2
<1> QED BY <1>1, <1>2, <1>3, SeqEqual

\* ... and all but the first two.
LEMMA FirstTwoOf ==
    ASSUME NEW s, NEW a, NEW b, s[1] = a, s[2] = b
    PROVE  SubSeq(s, 1, 2) = <<a, b>>
<1> DEFINE S == {a, b}
<1>1. /\ <<a, b>> \in Seq(S) /\ Len(<<a, b>>) = 2 /\ \A i \in 1 .. 2 : s[i] \in S
    OBVIOUS
<1> HIDE DEF S
<1>2. /\ SubSeq(s, 1, 2) \in Seq(S) /\ Len(SubSeq(s, 1, 2)) = 2
      /\ \A i \in 1 .. 2 : SubSeq(s, 1, 2)[i] = s[i]
  <2>1. \A i \in 1 .. 2 - 1 + 1 : SubSeq(s, 1, 2)[i] = s[1 + i - 1]
      BY <1>1, SubSeqProperties
  <2>2. SubSeq(s, 1, 2) \in Seq(S) /\ Len(SubSeq(s, 1, 2)) = 2
      BY <1>1, SubSeqProperties
  <2> QED BY <2>1, <2>2
<1>3. \A i \in 1 .. 2 : SubSeq(s, 1, 2)[i] = <<a, b>>[i]
    BY <1>2
<1> QED BY <1>1, <1>2, <1>3, SeqEqual

\* The entries of a path, one by one.
LEMMA Entries ==
    /\ InFile => Len(path) = 1 /\ path[1] = File[1]
    /\ InCollection => /\ Len(path) = 2
                       /\ path[1] = File[1] /\ path[2].kind = "collection"
    /\ InDocument => /\ Len(path) = 3
                     /\ path[1] = File[1] /\ path[2].kind = "collection"
                     /\ path[3].kind = "document"
    /\ File[1].kind = "file" /\ File = <<File[1]>>
<1>1. File[1].kind = "file" /\ Len(File) = 1 /\ File = <<File[1]>>
    BY DEF File
<1>2. ASSUME InCollection
      PROVE  Len(path) = 2 /\ path[1] = File[1] /\ path[2].kind = "collection"
    BY <1>2 DEF InCollection
<1>3. ASSUME InDocument
      PROVE  /\ Len(path) = 3 /\ path[1] = File[1]
             /\ path[2].kind = "collection" /\ path[3].kind = "document"
    BY <1>3 DEF InDocument
<1> QED BY <1>1, <1>2, <1>3 DEF InFile

\* Position holds at the start, and every step keeps it.
LEMMA PositionInit == Init => Position
BY DEF Init, Position, InFile

\* Entering appends an entry of the next kind.
LEMMA EnterStep ==
    ASSUME Position, ExecuteCollection \/ ExecuteDocument
    PROVE  Position'
<1>1. CASE ExecuteCollection
  <2>1. PICK r : path' = Append(path, [kind |-> "collection", ref |-> r]) /\ locked'
      BY <1>1 DEF ExecuteCollection, Entered
  <2>2. path = <<File[1]>>
      BY <1>1, Entries DEF ExecuteCollection, Position, InFile
  <2>3. path' = <<File[1], [kind |-> "collection", ref |-> r]>>
      BY <2>1, <2>2, AppendToOne
  <2>4. path'[2].ref = r
      BY <2>3
  <2> QED BY <2>1, <2>3, <2>4 DEF Position, InCollection, File
<1>2. CASE ExecuteDocument
  <2>1. PICK r : path' = Append(path, [kind |-> "document", ref |-> r])
      BY <1>2 DEF ExecuteDocument, Entered
  <2>2. Top.kind = "collection"
      BY <1>2 DEF ExecuteDocument, Execute, IsNext, Levels
  <2>3. InCollection /\ locked
      BY <2>2, Entries DEF Position, Top, Last
  <2>4. path' = <<File[1], [kind |-> "collection", ref |-> path[2].ref],
                  [kind |-> "document", ref |-> r]>>
    <3> HIDE DEF File
    <3> QED BY <2>1, <2>3, AppendToTwo DEF InCollection
  <2>5. path'[2].ref = path[2].ref /\ path'[3].ref = r
      BY <2>4
  <2>6. locked'
      BY <1>2, <2>3 DEF ExecuteDocument
  <2> QED BY <2>4, <2>5, <2>6 DEF Position, InDocument, File
<1> QED BY <1>1, <1>2

\* A put or a delete changes the handle of the last entry only, and there is
\* none at the top level.
LEMMA ChangeStep ==
    ASSUME Position, ExecutePut \/ ExecuteDelete
    PROVE  Position'
<1>1. PICK h : path' = [path EXCEPT ![Len(path)].ref = h] /\ locked' = locked
  <2>1. CASE ExecutePut
      BY <2>1 DEF ExecutePut, Changed
  <2>2. CASE ExecuteDelete
      BY <2>2 DEF ExecuteDelete, Changed
  <2> QED BY <2>1, <2>2
<1>2. Top.kind \in {"collection", "document"}
    BY DEF ExecutePut, ExecuteDelete, Execute, IsNext, Levels
<1>3. ~InFile
    BY <1>2, Entries DEF Top, Last
<1>4. CASE InCollection
  <2>1. path' = [path EXCEPT ![2].ref = h]
      BY <1>1, <1>4, Entries
  <2>2. path' = <<File[1], [kind |-> "collection", ref |-> h]>>
      BY <2>1, <1>4 DEF InCollection
  <2>3. path'[2].ref = h
      BY <2>2
  <2>4. locked'
      BY <1>1, <1>3 DEF Position
  <2> QED BY <2>2, <2>3, <2>4 DEF Position, InCollection, File
<1>5. CASE InDocument
  <2>1. path' = [path EXCEPT ![3].ref = h]
      BY <1>1, <1>5, Entries
  <2>2. path' = <<File[1], [kind |-> "collection", ref |-> path[2].ref],
                  [kind |-> "document", ref |-> h]>>
      BY <2>1, <1>5 DEF InDocument
  <2>3. path'[2].ref = path[2].ref /\ path'[3].ref = h
      BY <2>2
  <2>4. locked'
      BY <1>1, <1>3 DEF Position
  <2> QED BY <2>2, <2>3, <2>4 DEF Position, InDocument, File
<1> QED BY <1>3, <1>4, <1>5 DEF Position

\* Leaving entries: from a collection or a document, one of those left is a
\* collection if and only if the file is all that stays.
LEMMA LeaveStep ==
    ASSUME Position, NEW n \in Nat \ {0}, NavigateUp(n)
    PROVE  Position'
<1> DEFINE kept == IF Len(path) > n THEN Len(path) - n ELSE 1
           commits == \E i \in kept + 1 .. Len(path) : path[i].kind = "collection"
<1>1. /\ path' = SubSeq(path, 1, kept) /\ db' = db
      /\ commits => saved' = db /\ ~locked'
      /\ ~commits => saved' = saved /\ (locked => locked') /\ (~locked => ~locked')
  <2>1. /\ path' = SubSeq(path, 1, kept) /\ db' = db
        /\ saved' = IF commits THEN db ELSE saved
        /\ locked' = (locked /\ ~commits)
      BY DEF NavigateUp
  <2> HIDE DEF kept, commits
  <2> QED BY <2>1
<1>2. ASSUME kept = 1, path[1] = File[1]
      PROVE  InFile'
    BY <1>1, <1>2, FirstOf, Entries DEF InFile, File
<1>3. CASE InFile
  <2>1. Len(path) = 1 /\ path[1] = File[1]
      BY <1>3, Entries
  <2>2. kept = 1
      BY <2>1
  <2>3. ~commits
      BY <2>1, <2>2
  <2>4. ~locked /\ db = saved
      BY <1>3, Entries DEF Position
  <2>5. InFile'
      BY <1>2, <2>1, <2>2
  <2> HIDE DEF kept, commits
  <2> QED BY <1>1, <2>3, <2>4, <2>5 DEF Position
<1>4. CASE ~InFile /\ kept = 1
  <2>1. /\ Len(path) \in {2, 3}
        /\ path[1] = File[1] /\ path[2].kind = "collection"
      BY <1>4, Entries DEF Position
  <2>2. commits
    <3>1. 2 \in kept + 1 .. Len(path)
        BY <1>4, <2>1
    <3> QED BY <2>1, <3>1
  <2>3. InFile'
      BY <1>2, <1>4, <2>1
  <2> HIDE DEF kept, commits
  <2> QED BY <1>1, <2>2, <2>3 DEF Position
<1>5. CASE ~InFile /\ kept # 1
  <2>1. InDocument /\ locked
    <3>1. Len(path) = 2 => kept = 1
        BY n \in Nat \ {0}
    <3> HIDE DEF kept, commits
    <3> QED BY <1>5, <3>1, Entries DEF Position
  <2>2. /\ Len(path) = 3 /\ path[1] = File[1]
        /\ path[2] = [kind |-> "collection", ref |-> path[2].ref]
        /\ path[3].kind = "document"
      BY <2>1, Entries DEF InDocument
  <2>3. kept = 2
      BY <1>5, <2>2
  <2>4. ~commits
    <3>1. kept + 1 .. Len(path) = {3}
        BY <2>2, <2>3
    <3> QED BY <2>2, <3>1
  <2> HIDE DEF kept, commits
  <2>5. path' = <<path[1], path[2]>>
      BY <1>1, <2>3, FirstTwoOf
  <2>6. path'[2] = path[2]
      BY <2>5
  <2>7. InCollection'
      BY <2>2, <2>5, <2>6 DEF InCollection, File
  <2> QED BY <1>1, <2>1, <2>4, <2>7 DEF Position
<1> QED BY <1>3, <1>4, <1>5

\* When the process has died, the session is back at the file.
LEMMA DieStep ==
    ASSUME Die
    PROVE  Position'
BY DEF Die, Position, InFile, File

\* Commands that stay where they are, and the lemmas above for the others.
LEMMA PositionStep == Position /\ [Next]_vars => Position'
<1> SUFFICES ASSUME Position, [Next]_vars PROVE Position'
    OBVIOUS
<1>1. ASSUME UNCHANGED <<session, db, saved>> PROVE Position'
    BY <1>1 DEF session, Position, InFile, InCollection, InDocument, File
<1>2. Len(path) \in Nat \ {0}
    BY Entries DEF Position
<1>3. CASE ReadLine \/ Refuse \/ ExecuteGet \/ ExecuteHelp
    BY <1>1, <1>3 DEF ReadLine, Refuse, ExecuteGet, ExecuteHelp
<1>4. CASE ExecuteNavigateUp \/ ExecuteNavigateToTop \/ Exit
    BY <1>2, <1>4, LeaveStep DEF ExecuteNavigateUp, ExecuteNavigateToTop, Exit
<1>5. CASE ExecuteClose \/ Start
  <2>1. UNCHANGED <<path, locked, db, saved>>
      BY <1>5 DEF ExecuteClose, Start
  <2> QED BY <2>1 DEF Position, InFile, InCollection, InDocument, File
<1>6. CASE Crash \/ Throw
    BY <1>6, DieStep DEF Crash, Throw
<1>7. CASE UNCHANGED vars
    BY <1>1, <1>7 DEF vars
<1> QED BY <1>3, <1>4, <1>5, <1>6, <1>7, EnterStep, ChangeStep DEF Next

\* So it always holds.
LEMMA PositionCorrect == Spec => []Position
BY PositionInit, PositionStep, PTL DEF Spec

\* For any lines, names and bounds: the shell has a write transaction open
\* exactly while it is in a collection.
THEOREM TransactionFollowsPath == Spec => []LockFollowsPath
<1>1. Position => LockFollowsPath
  <2> SUFFICES ASSUME Position PROVE LockFollowsPath
      OBVIOUS
  <2>1. CASE InFile
      BY <2>1, Entries DEF Position, LockFollowsPath, InFile, File
  <2>2. CASE InCollection
      BY <2>2, Entries DEF Position, LockFollowsPath, InCollection
  <2>3. CASE InDocument
      BY <2>3, Entries DEF Position, LockFollowsPath, InDocument
  <2> QED BY <2>1, <2>2, <2>3 DEF Position
<1> QED BY <1>1, PositionCorrect, PTL

\* For any lines, names and bounds: at the top level, however it was reached,
\* the session and the file agree.
THEOREM TopIsSaved == Spec => []NothingUnsavedAtTop
<1>1. Position => NothingUnsavedAtTop
    BY Entries DEF Position, NothingUnsavedAtTop
<1> QED BY <1>1, PositionCorrect, PTL
-----------------------------------------------------------------------------
\* Induction over a set in place of a predicate: a well-founded order has a
\* least number that is not in it.
LEMMA SetInduction ==
    ASSUME NEW S, 0 \in S, \A n \in Nat : n \in S => n + 1 \in S
    PROVE  Nat \subseteq S
<1> DEFINE T == Nat \ S
           R == OpToRel(<, Nat)
<1> SUFFICES ASSUME T # {} PROVE FALSE
    OBVIOUS
<1>1. IsWellFoundedOn(R, Nat) /\ T \subseteq Nat /\ T # {}
    BY NatLessThanWellFounded
<1>2. PICK n \in T : \A m \in T : <<m, n>> \notin R
  <2> HIDE DEF T, R
  <2> QED BY <1>1, WFMin
<1>3. n - 1 \in Nat /\ n - 1 < n /\ n = (n - 1) + 1 /\ n \notin S
    OBVIOUS
<1>4. n - 1 \in S
    BY <1>2, <1>3 DEF OpToRel
<1> HIDE DEF T, R
<1> QED BY <1>3, <1>4

\* The recursion of Parse, as the function it defines.
ParseRest(line, from, i) ==
    IF i > Len(line) THEN {<<>>}
    ELSE IF line[i] \notin DOMAIN Arguments THEN {}
    ELSE LET next == i + 1 + Arguments[line[i]]
             cmd == [type |-> line[i], args |-> SubSeq(line, i + 1, next - 1)]
         IN  IF next > Len(line) + 1 THEN {}
             ELSE IF EndsLine(cmd.type) THEN {<<cmd>>}
             ELSE {<<cmd>> \o rest : rest \in from[next]}

\* No command takes more than two arguments.
LEMMA ArgumentsNumber == \A type \in DOMAIN Arguments : Arguments[type] \in 0 .. 2
BY DEF Arguments

\* The recursive function in Parse exists: one is built from the end of the line
\* backwards.  So Parse(line) is what ParseRest says of the whole line.
LEMMA ParseDefined ==
    ASSUME NEW line \in Seq(STRING)
    PROVE  \E from : /\ from = [i \in 1 .. Len(line) + 1 |-> ParseRest(line, from, i)]
                     /\ Parse(line) = from[1]
<1> DEFINE n == Len(line) + 1
           def(from, i) == ParseRest(line, from, i)
           Good(from, j) == \A i \in 1 .. n : i + j > n => from[i] = def(from, i)
           S == {j \in Nat : \E from : from = [i \in 1 .. n |-> from[i]] /\ Good(from, j)}
<1>n. n \in Nat /\ Len(line) \in Nat /\ n >= 1
    OBVIOUS
<1>1. 0 \in S
  <2>1. Good([i \in 1 .. n |-> {}], 0)
      BY <1>n
  <2> HIDE DEF Good
  <2> QED BY <2>1
<1>2. ASSUME NEW j \in Nat, j \in S PROVE j + 1 \in S
  <2>1. PICK f : f = [i \in 1 .. n |-> f[i]] /\ Good(f, j)
      BY <1>2
  <2> DEFINE g == [i \in 1 .. n |-> IF i = n - j THEN def(f, i) ELSE f[i]]
  <2>2. \A i \in 1 .. n : i + j + 1 > n => def(g, i) = def(f, i)
    <3> SUFFICES ASSUME NEW i \in 1 .. n, i + j + 1 > n PROVE def(g, i) = def(f, i)
        OBVIOUS
    <3>1. CASE i > Len(line) \/ line[i] \notin DOMAIN Arguments
        BY <3>1 DEF ParseRest
    <3>2. CASE ~(i > Len(line) \/ line[i] \notin DOMAIN Arguments)
      <4> DEFINE a == Arguments[line[i]]
      <4>1. a \in 0 .. 2
          BY <3>2, ArgumentsNumber
      <4> HIDE DEF a
      <4>2. i + 1 + a > Len(line) + 1 \/ (i + 1 + a \in 1 .. n /\ i + 1 + a # n - j)
          BY <4>1, <1>n
      <4>3. i + 1 + a > Len(line) + 1 \/ g[i + 1 + a] = f[i + 1 + a]
          BY <4>2
      <4> HIDE DEF g
      <4> QED BY <4>3 DEF ParseRest, a
    <3> QED BY <3>1, <3>2
  <2>3. Good(g, j + 1)
    <3> SUFFICES ASSUME NEW i \in 1 .. n, i + (j + 1) > n PROVE g[i] = def(g, i)
        OBVIOUS
    <3>1. def(g, i) = def(f, i)
        BY <2>2
    <3>2. CASE i = n - j
      <4> HIDE DEF def
      <4>1. g[i] = def(f, i)
        BY <3>2
      <4> QED BY <3>1, <4>1
    <3>3. CASE i # n - j
      <4>1. i + j > n
        BY <3>3, <1>n
      <4>2. f[i] = def(f, i)
        BY <2>1, <4>1
      <4> HIDE DEF def
      <4>3. g[i] = f[i]
        BY <3>3
      <4> QED BY <3>1, <4>2, <4>3
    <3> QED BY <3>2, <3>3
  <2>4. g = [i \in 1 .. n |-> g[i]]
      OBVIOUS
  <2> HIDE DEF Good, g
  <2> QED BY <2>3, <2>4
<1>3. n \in S
  <2> HIDE DEF S
  <2>1. 0 \in S /\ \A j \in Nat : j \in S => j + 1 \in S
      BY <1>1, <1>2
  <2> QED BY <1>n, <2>1, SetInduction
<1>4. PICK from : from = [i \in 1 .. n |-> from[i]] /\ Good(from, n)
    BY <1>3
<1>5. from = [i \in 1 .. n |-> def(from, i)]
  <2>1. \A i \in 1 .. n : from[i] = def(from, i)
      BY <1>4, <1>n
  <2> HIDE DEF def
  <2> QED BY <1>4, <2>1
<1> DEFINE P == CHOOSE f : f = [i \in 1 .. n |-> def(f, i)]
<1>6. P = [i \in 1 .. n |-> def(P, i)]
  <2> HIDE DEF def
  <2> QED BY <1>5, Zenon
<1>7. Parse(line) = P[1]
  BY Zenon DEF Parse, ParseRest
<1> HIDE DEF P
<1> QED BY <1>6, <1>7
-----------------------------------------------------------------------------
\* Commands as parseCommands returns them: of their types, close only at the end.
Complete(typed) ==
    /\ typed \in Seq(Command)
    /\ \A i \in 1 .. Len(typed) : typed[i].type = "close" => i = Len(typed)

\* What Parse returns is complete, for a line of any length: by induction on how
\* much of it is left.
LEMMA ParseComplete ==
    ASSUME NEW line \in Seq(STRING)
    PROVE  \A typed \in Parse(line) : Complete(typed)
<1> DEFINE n == Len(line) + 1
<1>1. n \in Nat \ {0} /\ Len(line) \in Nat
    OBVIOUS
<1>2. PICK from : /\ from = [i \in 1 .. n |-> ParseRest(line, from, i)]
                  /\ Parse(line) = from[1]
    BY ParseDefined
<1> DEFINE S == {j \in Nat : \A i \in 1 .. n : i + j > n => \A typed \in from[i] : Complete(typed)}
<1>3. 0 \in S
    BY <1>1
<1>4. ASSUME NEW j \in Nat, j \in S PROVE j + 1 \in S
  <2> SUFFICES ASSUME NEW i \in 1 .. n, i + j = n, NEW typed \in from[i]
               PROVE  Complete(typed)
    <3>1. \A i \in 1 .. n : i + (j + 1) > n => i + j = n \/ i + j > n
        BY <1>1
    <3>2. \A i \in 1 .. n : i + j > n => \A typed \in from[i] : Complete(typed)
        BY <1>4
    <3> QED BY <3>1, <3>2
  <2>1. typed \in ParseRest(line, from, i)
      BY <1>2
  <2>2. CASE i > Len(line)
    <3>1. typed = <<>>
        BY <2>1, <2>2 DEF ParseRest
    <3> QED BY <3>1 DEF Complete
  <2>3. CASE ~(i > Len(line))
    <3> DEFINE a == Arguments[line[i]]
               next == i + 1 + a
               cmd == [type |-> line[i], args |-> SubSeq(line, i + 1, next - 1)]
    <3>1. line[i] \in DOMAIN Arguments /\ ~(next > Len(line) + 1)
        BY <2>1, <2>3 DEF ParseRest
    <3>2. a \in 0 .. 2
        BY <3>1, ArgumentsNumber
    <3>3. cmd \in Command /\ cmd.type = line[i]
      <4> HIDE DEF a
      <4>1. \A x \in i + 1 .. next - 1 : line[x] \in STRING
          BY <1>1, <3>1, <3>2
      <4>2. SubSeq(line, i + 1, next - 1) \in Seq(STRING)
          BY <1>1, <3>2, <4>1, SubSeqProperties
      <4> QED BY <3>1, <4>2 DEF Command
    <3>4. CASE EndsLine(cmd.type)
      <4>1. typed = <<cmd>>
          BY <2>1, <2>3, <3>1, <3>4 DEF ParseRest
      <4> HIDE DEF cmd
      <4> QED BY <3>3, <4>1 DEF Complete
    <3>5. CASE ~EndsLine(cmd.type)
      <4>1. PICK rest \in from[next] : typed = <<cmd>> \o rest
          BY <2>1, <2>3, <3>1, <3>5 DEF ParseRest
      <4>2. next \in 1 .. n /\ next + j > n
        <5> HIDE DEF a
        <5> QED BY <1>1, <3>1, <3>2
      <4>3. Complete(rest)
          BY <1>4, <4>1, <4>2
      <4>4. cmd.type # "close"
          BY <3>5 DEF EndsLine
      <4> HIDE DEF cmd, next
      <4>5. /\ typed \in Seq(Command) /\ Len(typed) = 1 + Len(rest)
            /\ typed[1] = cmd /\ \A x \in 1 .. Len(rest) : typed[x + 1] = rest[x]
          BY <3>3, <4>1, <4>3 DEF Complete
      <4>6. ASSUME NEW x \in 1 .. Len(typed), typed[x].type = "close"
            PROVE  x = Len(typed)
        <5>1. x # 1
            BY <4>4, <4>5, <4>6
        <5>2. Len(rest) \in Nat
            BY <4>3 DEF Complete
        <5>3. x - 1 \in 1 .. Len(rest) /\ typed[(x - 1) + 1] = typed[x]
            BY <4>5, <5>1, <5>2
        <5>4. rest[x - 1].type = "close"
            BY <4>5, <4>6, <5>3
        <5>5. x - 1 = Len(rest)
            BY <4>3, <5>3, <5>4 DEF Complete
        <5> QED BY <4>5, <5>2, <5>5
      <4> QED BY <4>5, <4>6 DEF Complete
    <3> QED BY <3>4, <3>5
  <2> QED BY <2>2, <2>3
<1>5. n \in S
  <2> HIDE DEF S
  <2>1. 0 \in S /\ \A j \in Nat : j \in S => j + 1 \in S
      BY <1>3, <1>4
  <2> QED BY <1>1, <2>1, SetInduction
<1>6. \A typed \in from[1] : Complete(typed)
    BY <1>1, <1>5
<1> QED BY <1>2, <1>6

\* The inductive invariant behind CloseIsLast: the commands left are complete,
\* and take arguments of their kinds.
Lines ==
    /\ Complete(commands)
    /\ \A i \in 1 .. Len(commands) : Fits(commands[i])
    /\ CloseIsLast
    /\ active \in BOOLEAN

\* Every command takes itself off the line; only ReadLine brings others.
LEMMA LinesStep == Lines /\ [Next]_vars => Lines'
<1> SUFFICES ASSUME Lines, [Next]_vars PROVE Lines'
    OBVIOUS
<1>1. ASSUME commands # <<>>, commands' = Tail(commands),
             active' # active => active' = FALSE /\ Head(commands).type = "close"
      PROVE  Lines'
  <2> DEFINE n == Len(commands)
             c == commands
             d == Tail(c)
  <2>1. c \in Seq(Command) /\ c # <<>> /\ n \in Nat \ {0} /\ active
      BY <1>1 DEF Lines, Complete, CloseIsLast
  <2>2. /\ d \in Seq(Command) /\ Len(d) = n - 1
        /\ \A i \in 1 .. n - 1 : d[i] = c[i + 1]
    <3> HIDE DEF n
    <3>1. d \in Seq(Command) /\ Len(d) = n - 1
        BY <2>1 DEF n
    <3> QED BY <2>1, <3>1 DEF n
  <2>3. \A i \in 1 .. n : c[i].type = "close" => i = n
      BY DEF Lines, Complete
  <2>4. \A i \in 1 .. n : Fits(c[i])
      BY DEF Lines
  <2> HIDE DEF n, d, c
  <2>5. Complete(d)
    <3>1. ASSUME NEW i \in 1 .. Len(d), d[i].type = "close" PROVE i = Len(d)
      <4>1. i + 1 \in 1 .. n /\ c[i + 1].type = "close"
          BY <2>1, <2>2, <3>1
      <4> QED BY <2>2, <2>3, <4>1
    <3> QED BY <2>2, <3>1 DEF Complete
  <2>6. \A i \in 1 .. Len(d) : Fits(d[i])
    <3> SUFFICES ASSUME NEW i \in 1 .. Len(d) PROVE Fits(d[i])
        OBVIOUS
    <3>1. i + 1 \in 1 .. n /\ d[i] = c[i + 1]
        BY <2>1, <2>2
    <3> QED BY <2>4, <3>1
  <2>7. ASSUME Head(c).type = "close" PROVE d = <<>>
    <3>1. c[1].type = "close" /\ 1 \in 1 .. n
        BY <2>1, <2>7 DEF c
    <3>2. n = 1
        BY <2>3, <3>1
    <3> QED BY <2>2, <3>2
  <2>8. active' \in BOOLEAN /\ (~active' => d = <<>>)
      BY <1>1, <2>1, <2>7 DEF c
  <2> QED BY <1>1, <2>5, <2>6, <2>8 DEF Lines, CloseIsLast, d, c
<1>2. CASE ReadLine
  <2>1. PICK line \in Line : commands' \in Parse(line)
      BY <1>2 DEF ReadLine, Parsed
  <2>2. line \in Seq(STRING)
      BY ShellAssumption
  <2>3. Complete(commands')
      BY <2>1, <2>2, ParseComplete
  <2>4. commands' \in Parsed /\ active /\ active' = active
      BY <1>2 DEF ReadLine, session
  <2>5. \A i \in 1 .. Len(commands') : Fits(commands'[i])
    <3>1. DOMAIN commands' = 1 .. Len(commands')
        BY <2>3 DEF Complete
    <3> QED BY <2>4, <3>1, LineAssumption
  <2> QED BY <2>3, <2>4, <2>5 DEF Lines, CloseIsLast
<1>3. CASE Refuse \/ ExecuteCollection \/ ExecuteDocument \/ ExecuteGet \/ ExecutePut \/ ExecuteDelete
           \/ ExecuteNavigateUp \/ ExecuteNavigateToTop \/ ExecuteHelp
  <2>1. commands # <<>> /\ commands' = Tail(commands)
      BY <1>3 DEF Refuse, ExecuteCollection, ExecuteDocument, ExecuteGet, ExecutePut, ExecuteDelete,
                  ExecuteNavigateUp, ExecuteNavigateToTop, ExecuteHelp, Execute, IsNext
  <2>2. active' = active
      BY <1>3 DEF Refuse, ExecuteCollection, ExecuteDocument, ExecuteGet, ExecutePut, ExecuteDelete,
                  ExecuteNavigateUp, ExecuteNavigateToTop, ExecuteHelp, Entered, Changed, session
  <2> QED BY <1>1, <2>1, <2>2
<1>4. CASE ExecuteClose
    BY <1>1, <1>4 DEF ExecuteClose, Execute, IsNext
<1>5. CASE Crash \/ Throw
  <2>1. commands' = <<>> /\ active' = active
      BY <1>5 DEF Crash, Throw, Die
  <2>2. Complete(<<>>) /\ Len(<<>>) = 0
      BY DEF Complete
  <2> QED BY <2>1, <2>2 DEF Lines, CloseIsLast
<1>6. CASE Exit \/ Start \/ UNCHANGED vars
  <2>1. commands' = commands /\ (active' = active \/ active' = TRUE)
      BY <1>6 DEF Exit, Start, vars, session
  <2> QED BY <2>1 DEF Lines, CloseIsLast
<1> QED BY <1>2, <1>3, <1>4, <1>5, <1>6 DEF Next

\* The shell starts with no commands.
LEMMA LinesInit == Init => Lines
<1>1. Complete(<<>>) /\ Len(<<>>) = 0
    BY DEF Complete
<1>2. Init => commands = <<>> /\ active = TRUE
    BY DEF Init
<1> QED BY <1>1, <1>2 DEF Lines, CloseIsLast

\* The lines invariant holds throughout.
LEMMA LinesCorrect == Spec => []Lines
BY LinesInit, LinesStep, PTL DEF Spec

\* For any lines, of any length: there is nothing left to execute after a close,
\* since parseCommands stops there.
THEOREM NothingAfterClose == Spec => []CloseIsLast
<1>1. Lines => CloseIsLast
    BY DEF Lines
<1> QED BY <1>1, LinesCorrect, PTL

-----------------------------------------------------------------------------
(***************************************************************************)
(* The database.                                                           *)
(***************************************************************************)
\* A record of maps: what the operators of Containers need to work on it.
LEMMA WithEntries ==
    ASSUME NEW m, NEW k, NEW x
    PROVE  /\ DOMAIN With(m, k, x) = DOMAIN m \cup {k}
           /\ With(m, k, x)[k] = x
           /\ \A j \in DOMAIN m \ {k} : With(m, k, x)[j] = m[j]
BY DEF With

\* A database with its two fields and no others.
IsDatabase(s) == s = [trees |-> s.trees, fl |-> s.fl]

\* A name stored in a tree, and taken out of one.
LEMMA SetEntries ==
    ASSUME NEW s, IsDatabase(s), NEW p \in DOMAIN s.trees, NEW k, NEW x
    PROVE  /\ IsDatabase(Set(s, p, k, x)) /\ Set(s, p, k, x).fl = s.fl
           /\ DOMAIN Set(s, p, k, x).trees = DOMAIN s.trees
           /\ Set(s, p, k, x).trees[p] = With(s.trees[p], k, x)
           /\ \A q \in DOMAIN s.trees \ {p} : Set(s, p, k, x).trees[q] = s.trees[q]
<1>1. Set(s, p, k, x) = [trees |-> [s.trees EXCEPT ![p] = With(@, k, x)], fl |-> s.fl]
    BY DEF Set, IsDatabase
<1> QED BY <1>1 DEF IsDatabase

\* ... and no other tree is touched.
LEMMA UnsetEntries ==
    ASSUME NEW s, IsDatabase(s), NEW p \in DOMAIN s.trees, NEW k
    PROVE  /\ IsDatabase(Unset(s, p, k)) /\ Unset(s, p, k).fl = s.fl
           /\ DOMAIN Unset(s, p, k).trees = DOMAIN s.trees
           /\ DOMAIN Unset(s, p, k).trees[p] = DOMAIN s.trees[p] \ {k}
           /\ \A j \in DOMAIN s.trees[p] \ {k} : Unset(s, p, k).trees[p][j] = s.trees[p][j]
           /\ \A q \in DOMAIN s.trees \ {p} : Unset(s, p, k).trees[q] = s.trees[q]
<1>1. Unset(s, p, k) = [trees |-> [s.trees EXCEPT ![p] = Restrict(@, DOMAIN @ \ {k})], fl |-> s.fl]
    BY DEF Unset, IsDatabase
<1> QED BY <1>1 DEF IsDatabase, Restrict

\* t is s with one more tree, which is empty, and its record `id' in the tree on
\* page p.
Adds(s, t, p, id) ==
    /\ Formed(t) /\ t.fl.maxPage = s.fl.maxPage + 1
    /\ DOMAIN t.trees[s.fl.maxPage + 1] = {}
    /\ \A q \in DOMAIN s.trees \ {p} : t.trees[q] = s.trees[q]
    /\ Names(t, p) = Names(s, p) \cup {id}
    /\ t.trees[p][id] = [root |-> s.fl.maxPage + 1, count |-> 0]
    /\ \A j \in Names(s, p) : t.trees[p][j] = s.trees[p][j]

\* NewContainer adds one.
LEMMA NewContainerAdds ==
    ASSUME NEW s, Formed(s), NEW p \in DOMAIN s.trees,
           NEW id, id # NoName, ~Has(s, p, id)
    PROVE  /\ Adds(s, NewContainer(s, p, id).db, p, id)
           /\ NewContainer(s, p, id).handle = [id |-> id, root |-> s.fl.maxPage + 1, count |-> 0]
<1> DEFINE r == NewContainer(s, p, id)
           new == s.fl.maxPage + 1
           h == [id |-> id, root |-> new, count |-> 0]
           a == [trees |-> With(s.trees, new, <<>>), fl |-> [s.fl EXCEPT !.maxPage = new]]
           b == Set(a, p, id, [root |-> new, count |-> 0])
           c == Set(b, p, NoName, [root |-> p, count |-> 1])
<1>1. /\ s.fl.maxPage \in Nat /\ new \in Nat /\ s.fl.releasedPages = <<>>
      /\ DOMAIN s.trees = CollectionsRoot .. s.fl.maxPage
      /\ new \notin DOMAIN s.trees /\ p # new /\ CollectionsRoot <= s.fl.maxPage
    BY DEF Formed
<1>2. NextPage(s.fl) = new /\ AfterNextPage(s.fl) = [s.fl EXCEPT !.maxPage = new]
    BY <1>1 DEF NextPage, AfterNextPage
<1>3. /\ IsDatabase(a) /\ DOMAIN a.trees = DOMAIN s.trees \cup {new}
      /\ a.trees[new] = <<>> /\ \A q \in DOMAIN s.trees : a.trees[q] = s.trees[q]
      /\ a.fl = [s.fl EXCEPT !.maxPage = new]
  <2>1. new \notin DOMAIN s.trees
      BY <1>1
  <2> HIDE DEF new
  <2> QED BY <2>1 DEF With, IsDatabase
<1>4. ~Has(a, p, id)
    BY <1>3 DEF Has
<1>5. r = [db |-> c, handle |-> h]
    BY <1>2, <1>4 DEF NewContainer, StoreRecord
<1> HIDE DEF a, r, new
<1>6. /\ IsDatabase(b) /\ b.fl = a.fl /\ DOMAIN b.trees = DOMAIN a.trees
      /\ b.trees[p] = With(a.trees[p], id, [root |-> new, count |-> 0])
      /\ \A q \in DOMAIN a.trees \ {p} : b.trees[q] = a.trees[q]
    BY <1>3, SetEntries
<1> HIDE DEF b
<1>7. /\ IsDatabase(c) /\ c.fl = b.fl /\ DOMAIN c.trees = DOMAIN b.trees
      /\ c.trees[p] = With(b.trees[p], NoName, [root |-> p, count |-> 1])
      /\ \A q \in DOMAIN b.trees \ {p} : c.trees[q] = b.trees[q]
    BY <1>3, <1>6, SetEntries
<1> HIDE DEF c
<1>8. c.trees[new] = <<>> /\ \A q \in DOMAIN s.trees \ {p} : c.trees[q] = s.trees[q]
    BY <1>1, <1>3, <1>6, <1>7
<1>9. /\ DOMAIN c.trees[p] = DOMAIN s.trees[p] \cup {id, NoName}
      /\ c.trees[p][id] = [root |-> new, count |-> 0]
      /\ \A j \in DOMAIN s.trees[p] \ {id, NoName} : c.trees[p][j] = s.trees[p][j]
  <2> DEFINE u == b.trees[p]
             v == c.trees[p]
             w == s.trees[p]
  <2>1. u = With(w, id, [root |-> new, count |-> 0])
      BY <1>3, <1>6
  <2>2. v = With(u, NoName, [root |-> p, count |-> 1])
      BY <1>7
  <2> HIDE DEF u, v, w
  <2>3. /\ DOMAIN u = DOMAIN w \cup {id} /\ u[id] = [root |-> new, count |-> 0]
        /\ \A j \in DOMAIN w \ {id} : u[j] = w[j]
      BY <2>1 DEF With
  <2>4. DOMAIN v = DOMAIN u \cup {NoName} /\ \A j \in DOMAIN u \ {NoName} : v[j] = u[j]
      BY <2>2 DEF With
  <2> HIDE DEF NoName
  <2>5. DOMAIN v = DOMAIN w \cup {id, NoName}
      BY <2>3, <2>4
  <2>6. id \in DOMAIN u \ {NoName}
      BY <2>3
  <2>7. v[id] = [root |-> new, count |-> 0]
      BY <2>3, <2>4, <2>6
  <2>8. \A j \in DOMAIN w \ {id, NoName} : v[j] = w[j]
      BY <2>3, <2>4
  <2> QED BY <2>5, <2>7, <2>8 DEF u, v, w
<1>10. Formed(c) /\ c.fl.maxPage = new
  <2>1. s.fl \in [maxPage : Nat, releasedPages : {<<>>}]
      BY DEF Formed
  <2>2. c.fl = [s.fl EXCEPT !.maxPage = new]
      BY <1>3, <1>6, <1>7
  <2>3. c.fl.maxPage = new /\ c.fl \in [maxPage : Nat, releasedPages : {<<>>}]
      BY <1>1, <2>1, <2>2 DEF new
  <2>4. DOMAIN c.trees = CollectionsRoot .. new
    <3>1. DOMAIN c.trees = (CollectionsRoot .. s.fl.maxPage) \cup {new}
        BY <1>1, <1>3, <1>6, <1>7
    <3> QED BY <1>1, <3>1 DEF new, CollectionsRoot
  <2>5. CollectionsRoot <= c.fl.maxPage
      BY <1>1, <2>3 DEF CollectionsRoot, new
  <2> QED BY <1>7, <2>3, <2>4, <2>5 DEF Formed, IsDatabase
<1>11. Names(c, p) = Names(s, p) \cup {id} /\ Names(s, p) \subseteq DOMAIN s.trees[p] \ {id, NoName}
    BY <1>9 DEF Names, Has
<1>12. DOMAIN c.trees[new] = {}
    BY <1>8
<1>13. r.db = c /\ r.handle = [id |-> id, root |-> new, count |-> 0]
    BY <1>5
<1>14. \A j \in Names(s, p) : c.trees[p][j] = s.trees[p][j]
    BY <1>9, <1>11
<1> QED BY <1>8, <1>9, <1>10, <1>11, <1>12, <1>13, <1>14 DEF r, new, Adds

\* The handle h is that of a record in the tree on page p.
HandleIn(s, p, h) ==
    /\ p \in DOMAIN s.trees /\ h.root \in DOMAIN s.trees /\ p # h.root
    /\ Has(s, p, h.id)
    /\ h = [id |-> h.id, root |-> h.root, count |-> h.count]
    /\ h.count \in 0 .. CountRange - 1
    /\ s.trees[p][h.id] = [root |-> h.root, count |-> h.count]

\* What a put and a remove through h leave alone: all trees but that of h, and
\* in the tree on page p all but the count of h; g is the handle after it.
Edits(s, t, p, h, g) ==
    /\ IsDatabase(t) /\ t.fl = s.fl /\ DOMAIN t.trees = DOMAIN s.trees
    /\ \A q \in DOMAIN s.trees \ {p, h.root} : t.trees[q] = s.trees[q]
    /\ DOMAIN t.trees[p] = DOMAIN s.trees[p]
    /\ \A j \in DOMAIN s.trees[p] \ {h.id} : t.trees[p][j] = s.trees[p][j]
    /\ g.id = h.id /\ g.root = h.root
    /\ HandleIn(t, p, g)

\* The record of a handle is written over the one that is there.
LEMMA StoreEntries ==
    ASSUME NEW s, IsDatabase(s), NEW u, IsDatabase(u), NEW p, NEW h, HandleIn(s, p, h),
           u.fl = s.fl, DOMAIN u.trees = DOMAIN s.trees,
           \A q \in DOMAIN s.trees \ {h.root} : u.trees[q] = s.trees[q],
           NEW n \in 0 .. CountRange - 1
    PROVE  LET g == [h EXCEPT !.count = n]
               t == StoreRecord(u, p, g)
           IN  Edits(s, t, p, h, g) /\ t.trees[h.root] = u.trees[h.root] /\ g.count = n
<1> DEFINE g == [h EXCEPT !.count = n]
           x == [root |-> h.root, count |-> n]
           t == Set(u, p, h.id, x)
<1>1. g = [id |-> h.id, root |-> h.root, count |-> n]
    BY DEF HandleIn
<1>2. u.trees[p] = s.trees[p] /\ h.id \in DOMAIN s.trees[p] /\ p \in DOMAIN u.trees
    BY DEF HandleIn, Has
<1>3. StoreRecord(u, p, g) = t
  <2>1. Has(u, p, h.id)
      BY <1>2 DEF Has
  <2> QED BY <1>1, <2>1 DEF StoreRecord
<1>4. /\ IsDatabase(t) /\ t.fl = u.fl /\ DOMAIN t.trees = DOMAIN u.trees
      /\ t.trees[p] = With(u.trees[p], h.id, x)
      /\ \A q \in DOMAIN u.trees \ {p} : t.trees[q] = u.trees[q]
    BY <1>2, SetEntries
<1> HIDE DEF t, g
<1>5. /\ DOMAIN t.trees[p] = DOMAIN s.trees[p] /\ t.trees[p][h.id] = x
      /\ \A j \in DOMAIN s.trees[p] \ {h.id} : t.trees[p][j] = s.trees[p][j]
    BY <1>2, <1>4 DEF With
<1>6. HandleIn(t, p, g)
    BY <1>1, <1>2, <1>4, <1>5 DEF HandleIn, Has
<1>7. t.trees[h.root] = u.trees[h.root] /\ \A q \in DOMAIN s.trees \ {p, h.root} : t.trees[q] = s.trees[q]
    BY <1>4 DEF HandleIn
<1>8. Edits(s, t, p, h, g)
    BY <1>1, <1>4, <1>5, <1>6, <1>7 DEF Edits
<1> QED BY <1>1, <1>3, <1>7, <1>8 DEF g

\* A count stays in its range, up or down.
LEMMA CountInRange ==
    ASSUME NEW n \in 0 .. CountRange - 1
    PROVE  /\ (n + 1) % CountRange \in 0 .. CountRange - 1
           /\ (n + CountRange - 1) % CountRange \in 0 .. CountRange - 1
           /\ n + 1 < CountRange => (n + 1) % CountRange = n + 1
           /\ n > 0 => (n + CountRange - 1) % CountRange = n - 1
<1>1. CountRange \in Nat /\ CountRange > 1
    BY CountAssumption
<1>2. \A m \in Nat : m % CountRange \in 0 .. CountRange - 1
    BY <1>1
<1>3. \A m \in 0 .. CountRange - 1 : m % CountRange = m /\ (m + CountRange) % CountRange = m
    BY <1>1
<1>4. n > 0 => n - 1 \in 0 .. CountRange - 1 /\ n + CountRange - 1 = (n - 1) + CountRange
    BY <1>1
<1> QED BY <1>1, <1>2, <1>3, <1>4

\* Container::_put and _remove on a handle.
LEMMA PutEntries ==
    ASSUME NEW s, IsDatabase(s), NEW p, NEW h, HandleIn(s, p, h), NEW k, NEW x
    PROVE  LET r == PutItem(s, p, h, k, x)
           IN  /\ Edits(s, r.db, p, h, r.handle)
               /\ r.db.trees[h.root] = With(s.trees[h.root], k, x)
               /\ r.handle.count = IF Has(s, h.root, k) THEN h.count ELSE (h.count + 1) % CountRange
<1> DEFINE r == PutItem(s, p, h, k, x)
           n == (h.count + 1) % CountRange
           g == [h EXCEPT !.count = n]
           u == Set(s, h.root, k, x)
<1>1. /\ IsDatabase(u) /\ u.fl = s.fl /\ DOMAIN u.trees = DOMAIN s.trees
      /\ u.trees[h.root] = With(s.trees[h.root], k, x)
      /\ \A q \in DOMAIN s.trees \ {h.root} : u.trees[q] = s.trees[q]
    BY SetEntries DEF HandleIn
<1>2. n \in 0 .. CountRange - 1
    BY CountInRange DEF HandleIn
<1>3. CASE Has(s, h.root, k)
  <2>1. r = [db |-> u, handle |-> h]
      BY <1>3 DEF PutItem
  <2> HIDE DEF u, r
  <2>2. HandleIn(u, p, h)
      BY <1>1 DEF HandleIn, Has
  <2>3. Edits(s, u, p, h, h)
      BY <1>1, <2>2 DEF Edits, HandleIn
  <2> QED BY <1>1, <1>3, <2>1, <2>3 DEF r
<1>4. CASE ~Has(s, h.root, k)
  <2>1. r = [db |-> StoreRecord(u, p, g), handle |-> g]
      BY <1>4 DEF PutItem
  <2> DEFINE t == StoreRecord(u, p, g)
  <2> HIDE DEF u, n
  <2>2. Edits(s, t, p, h, g) /\ t.trees[h.root] = u.trees[h.root] /\ g.count = n
      BY <1>1, <1>2, StoreEntries
  <2> HIDE DEF t, g, r
  <2>3. r.db = t /\ r.handle = g
      BY <2>1 DEF t
  <2> QED BY <1>1, <1>4, <2>2, <2>3 DEF r, n
<1> QED BY <1>3, <1>4

\* The tree on page q has lost the item k.
Loses(s, t, q, k) ==
    /\ DOMAIN t.trees[q] = DOMAIN s.trees[q] \ {k}
    /\ \A j \in DOMAIN s.trees[q] \ {k} : t.trees[q][j] = s.trees[q][j]

\* A remove through the handle h, of a name that is there or not.
LEMMA RemoveEntries ==
    ASSUME NEW s, IsDatabase(s), NEW p, NEW h, HandleIn(s, p, h), NEW k
    PROVE  LET r == RemoveItem(s, p, h, k)
           IN  /\ Edits(s, r.db, p, h, r.handle)
               /\ Loses(s, r.db, h.root, k)
               /\ r.handle.count = IF Has(s, h.root, k) THEN (h.count + CountRange - 1) % CountRange
                                   ELSE h.count
<1> DEFINE r == RemoveItem(s, p, h, k)
           n == (h.count + CountRange - 1) % CountRange
           g == [h EXCEPT !.count = n]
           u == Unset(s, h.root, k)
<1>1. /\ IsDatabase(u) /\ u.fl = s.fl /\ DOMAIN u.trees = DOMAIN s.trees
      /\ DOMAIN u.trees[h.root] = DOMAIN s.trees[h.root] \ {k}
      /\ \A j \in DOMAIN s.trees[h.root] \ {k} : u.trees[h.root][j] = s.trees[h.root][j]
      /\ \A q \in DOMAIN s.trees \ {h.root} : u.trees[q] = s.trees[q]
  <2>1. h.root \in DOMAIN s.trees
      BY DEF HandleIn
  <2> QED BY <2>1, UnsetEntries
<1>2. n \in 0 .. CountRange - 1
    BY CountInRange DEF HandleIn
<1>3. CASE ~Has(s, h.root, k)
  <2>1. r = [db |-> s, handle |-> h]
      BY <1>3 DEF RemoveItem
  <2> HIDE DEF u, r
  <2>2. Edits(s, s, p, h, h)
      BY DEF Edits
  <2> QED BY <1>3, <2>1, <2>2 DEF r, Has, Loses
<1>4. CASE Has(s, h.root, k)
  <2>1. r = [db |-> StoreRecord(u, p, g), handle |-> g]
      BY <1>4 DEF RemoveItem
  <2> DEFINE t == StoreRecord(u, p, g)
  <2> HIDE DEF u, n
  <2>2. Edits(s, t, p, h, g) /\ t.trees[h.root] = u.trees[h.root] /\ g.count = n
      BY <1>1, <1>2, StoreEntries
  <2> HIDE DEF t, g, r
  <2>3. r.db = t /\ r.handle = g
      BY <2>1 DEF t
  <2> QED BY <1>1, <1>4, <2>2, <2>3 DEF r, n, Loses
<1> QED BY <1>3, <1>4
-----------------------------------------------------------------------------
(***************************************************************************)
(* Sound databases                                                         *)
(***************************************************************************)
\* Own root pages, said of collections and of documents.
Own(s) ==
    /\ \A c1, c2 \in Names(s, CollectionsRoot) :
           RootOf(s, CollectionsRoot, c1) = RootOf(s, CollectionsRoot, c2) => c1 = c2
    /\ \A p \in DocumentsRoots(s) : \A d \in Names(s, p) : RootOf(s, p, d) \notin DocumentsRoots(s)
    /\ \A p1, p2 \in DocumentsRoots(s) : \A d1 \in Names(s, p1), d2 \in Names(s, p2) :
           RootOf(s, p1, d1) = RootOf(s, p2, d2) => p1 = p2 /\ d1 = d2

\* The records are those of the collections, and of the documents in them.
LEMMA RecordsAre ==
    ASSUME NEW s, NEW x
    PROVE  x \in Records(s) <=> \/ \E c \in Names(s, CollectionsRoot) : x = <<CollectionsRoot, c>>
                                \/ \E p \in DocumentsRoots(s) : \E d \in Names(s, p) : x = <<p, d>>
BY DEF Records

\* Own is the last part of Sound, said of collections and documents apart.
LEMMA OwnIs ==
    ASSUME NEW s, CollectionsRoot \notin DocumentsRoots(s)
    PROVE  (\A x, y \in Records(s) : RootOf(s, x[1], x[2]) = RootOf(s, y[1], y[2]) => x = y)
               <=> Own(s)
<1>1. ASSUME \A x, y \in Records(s) : RootOf(s, x[1], x[2]) = RootOf(s, y[1], y[2]) => x = y
      PROVE  Own(s)
  <2>1. \A p1, p2, n1, n2 :
            /\ <<p1, n1>> \in Records(s) /\ <<p2, n2>> \in Records(s)
            /\ RootOf(s, p1, n1) = RootOf(s, p2, n2)
            => p1 = p2 /\ n1 = n2
    <3> SUFFICES ASSUME NEW p1, NEW p2, NEW n1, NEW n2,
                        <<p1, n1>> \in Records(s), <<p2, n2>> \in Records(s),
                        RootOf(s, p1, n1) = RootOf(s, p2, n2)
                 PROVE  p1 = p2 /\ n1 = n2
        OBVIOUS
    <3>1. <<p1, n1>> = <<p2, n2>>
        BY <1>1
    <3> QED BY <3>1
  <2>2. \A c \in Names(s, CollectionsRoot) : <<CollectionsRoot, c>> \in Records(s)
      BY RecordsAre
  <2>3. \A p \in DocumentsRoots(s) : \A d \in Names(s, p) : <<p, d>> \in Records(s)
      BY RecordsAre
  <2>4. ASSUME NEW p \in DocumentsRoots(s), NEW d \in Names(s, p), RootOf(s, p, d) \in DocumentsRoots(s)
        PROVE  FALSE
    <3>1. PICK c \in Names(s, CollectionsRoot) : RootOf(s, p, d) = RootOf(s, CollectionsRoot, c)
        BY <2>4 DEF DocumentsRoots
    <3> QED BY <2>1, <2>2, <2>3, <3>1
  <2>5. ASSUME NEW c1 \in Names(s, CollectionsRoot), NEW c2 \in Names(s, CollectionsRoot),
               RootOf(s, CollectionsRoot, c1) = RootOf(s, CollectionsRoot, c2)
        PROVE  c1 = c2
      BY <2>1, <2>2, <2>5
  <2>6. ASSUME NEW p1 \in DocumentsRoots(s), NEW p2 \in DocumentsRoots(s),
               NEW d1 \in Names(s, p1), NEW d2 \in Names(s, p2),
               RootOf(s, p1, d1) = RootOf(s, p2, d2)
        PROVE  p1 = p2 /\ d1 = d2
    <3>1. <<p1, d1>> \in Records(s) /\ <<p2, d2>> \in Records(s)
        BY <2>3
    <3> HIDE DEF Records
    <3> QED BY <2>1, <2>6, <3>1, Zenon
  <2> QED BY <2>4, <2>5, <2>6, Zenon DEF Own
<1>2. ASSUME Own(s),
             NEW x \in Records(s), NEW y \in Records(s),
             RootOf(s, x[1], x[2]) = RootOf(s, y[1], y[2])
      PROVE  x = y
  <2>1. CASE \E c \in Names(s, CollectionsRoot) : x = <<CollectionsRoot, c>>
    <3>1. PICK c \in Names(s, CollectionsRoot) : x = <<CollectionsRoot, c>>
        BY <2>1
    <3>2. RootOf(s, CollectionsRoot, c) \in DocumentsRoots(s)
        BY DEF DocumentsRoots
    <3>3. \A p \in DocumentsRoots(s) : \A d \in Names(s, p) : y # <<p, d>>
        BY <1>2, <3>1, <3>2 DEF Own
    <3>4. PICK e \in Names(s, CollectionsRoot) : y = <<CollectionsRoot, e>>
        BY <3>3, RecordsAre
    <3> QED BY <1>2, <3>1, <3>4 DEF Own
  <2>2. CASE \E p \in DocumentsRoots(s) : \E d \in Names(s, p) : x = <<p, d>>
    <3>1. PICK p \in DocumentsRoots(s) : \E d \in Names(s, p) : x = <<p, d>>
        BY <2>2
    <3>2. PICK d \in Names(s, p) : x = <<p, d>>
        BY <3>1
    <3>3. RootOf(s, p, d) \notin DocumentsRoots(s)
        BY <1>2 DEF Own
    <3>4. \A e \in Names(s, CollectionsRoot) : y # <<CollectionsRoot, e>>
        BY <1>2, <3>2, <3>3 DEF DocumentsRoots
    <3>5. PICK q \in DocumentsRoots(s) : \E e \in Names(s, q) : y = <<q, e>>
        BY <3>4, RecordsAre
    <3>6. PICK e \in Names(s, q) : y = <<q, e>>
        BY <3>5
    <3> QED BY <1>2, <3>2, <3>6 DEF Own
  <2> QED BY <2>1, <2>2, RecordsAre
<1> QED BY <1>1, <1>2

\* Where the trees of a sound database are.
LEMMA SoundTrees ==
    ASSUME NEW s, Sound(s)
    PROVE  /\ IsDatabase(s) /\ s.fl.maxPage \in Nat
           /\ DOMAIN s.trees = CollectionsRoot .. s.fl.maxPage /\ CollectionsRoot \in DOMAIN s.trees
           /\ DocumentsRoots(s) \subseteq Pages(s)
           /\ \A p \in Pages(s) : p \in DOMAIN s.trees /\ p # CollectionsRoot /\ p \in Nat
                                  /\ p # s.fl.maxPage + 1
           /\ \A p \in DocumentsRoots(s) : \A d \in Names(s, p) : RootOf(s, p, d) \in Pages(s)
           /\ CollectionsRoot \notin DocumentsRoots(s)
<1>1. Formed(s) /\ HoldsCollections(s) /\ \A p \in DocumentsRoots(s) : HoldsDocuments(s, p)
    BY DEF Sound
<1>2. \A c \in Names(s, CollectionsRoot) : RootOf(s, CollectionsRoot, c) \in Pages(s)
    BY <1>1 DEF HoldsCollections, RecordIn, RootOf
<1>3. \A p \in DocumentsRoots(s) : \A d \in Names(s, p) : RootOf(s, p, d) \in Pages(s)
    BY <1>1 DEF HoldsDocuments, RecordIn, RootOf
<1>4. DocumentsRoots(s) \subseteq Pages(s)
    BY <1>2 DEF DocumentsRoots
<1>5. /\ IsDatabase(s) /\ s.fl.maxPage \in Nat
      /\ DOMAIN s.trees = CollectionsRoot .. s.fl.maxPage /\ CollectionsRoot \in DOMAIN s.trees
    BY <1>1 DEF Formed, IsDatabase, CollectionsRoot
<1>6. \A p \in Pages(s) : p \in DOMAIN s.trees /\ p # CollectionsRoot /\ p \in Nat
                          /\ p # s.fl.maxPage + 1
    BY <1>5 DEF Pages, CollectionsRoot
<1> QED BY <1>3, <1>4, <1>5, <1>6

\* What makes a database sound, with Own in that form.
LEMMA SoundIs ==
    ASSUME NEW s, Formed(s), HoldsCollections(s),
           \A p \in DocumentsRoots(s) :
               /\ HoldsDocuments(s, p)
               /\ \A d \in Names(s, p) : HoldsItems(s, RootOf(s, p, d)),
           Own(s)
    PROVE  Sound(s)
<1>1. CollectionsRoot \notin DocumentsRoots(s)
  <2>1. \A c \in Names(s, CollectionsRoot) : RootOf(s, CollectionsRoot, c) \in Pages(s)
      BY DEF HoldsCollections, RecordIn, RootOf
  <2>2. CollectionsRoot \notin Pages(s)
      BY DEF Pages, CollectionsRoot, Formed
  <2> QED BY <2>1, <2>2 DEF DocumentsRoots
<1> QED BY <1>1, OwnIs DEF Sound

\* ... and what a sound one has.
LEMMA SoundOwn ==
    ASSUME NEW s, Sound(s)
    PROVE  Own(s)
BY SoundTrees, OwnIs DEF Sound

\* The new database is sound.
LEMMA EmptySound == Sound(EmptyDatabase)
<1> DEFINE e == EmptyDatabase
<1>1. /\ e = [trees |-> e.trees, fl |-> e.fl] /\ DOMAIN e.trees = {CollectionsRoot}
      /\ e.fl.maxPage = CollectionsRoot /\ e.fl.releasedPages = <<>>
      /\ e.fl \in [maxPage : Nat, releasedPages : {<<>>}]
      /\ DOMAIN e.trees[CollectionsRoot] = {}
    BY DEF EmptyDatabase, EmptyFreeList, CollectionsRoot
<1> HIDE DEF e
<1>2. Formed(e)
    BY <1>1 DEF Formed, CollectionsRoot
<1>3. Names(e, CollectionsRoot) = {} /\ DocumentsRoots(e) = {}
    BY <1>1 DEF Names, DocumentsRoots
<1>4. Sound(e)
    BY <1>2, <1>3, SoundIs DEF HoldsCollections, Own
<1> QED BY <1>4 DEF e

\* Creating a collection: its tree is empty and on a page of its own.
LEMMA CreateCollection ==
    ASSUME NEW s, Sound(s), NEW c \in Collection, ~Has(s, CollectionsRoot, c)
    PROVE  Sound(NewContainer(s, CollectionsRoot, c).db)
<1> DEFINE t == NewContainer(s, CollectionsRoot, c).db
           new == s.fl.maxPage + 1
           R == CollectionsRoot
<1>1. /\ Formed(t) /\ t.fl.maxPage = new /\ DOMAIN t.trees[new] = {}
      /\ \A q \in DOMAIN s.trees \ {R} : t.trees[q] = s.trees[q]
      /\ Names(t, R) = Names(s, R) \cup {c}
      /\ t.trees[R][c] = [root |-> new, count |-> 0]
      /\ \A j \in Names(s, R) : t.trees[R][j] = s.trees[R][j]
  <2>1. c # NoName
      BY ShellAssumption
  <2>2. Formed(s) /\ R \in DOMAIN s.trees
      BY SoundTrees DEF Sound
  <2>3. Adds(s, t, R, c)
      BY <2>1, <2>2, NewContainerAdds
  <2> QED BY <2>3 DEF Adds
<1> HIDE DEF t
<1>2. /\ DocumentsRoots(s) \subseteq Pages(s)
      /\ \A p \in Pages(s) : p \in DOMAIN s.trees \ {R} /\ p # new
      /\ Pages(s) \subseteq Pages(t) /\ new \in Pages(t)
      /\ \A p \in DocumentsRoots(s) : \A d \in Names(s, p) : RootOf(s, p, d) \in Pages(s)
  <2>1. s.fl.maxPage \in Nat /\ R <= s.fl.maxPage
      BY SoundTrees DEF Sound, Formed
  <2>2. Pages(s) \subseteq Pages(t) /\ new \in Pages(t)
      BY <1>1, <2>1 DEF Pages, CollectionsRoot
  <2> QED BY <2>2, SoundTrees
<1>3. /\ \A j \in Names(s, R) : RootOf(t, R, j) = RootOf(s, R, j) /\ RootOf(s, R, j) # new
      /\ RootOf(t, R, c) = new
  <2>1. \A j \in Names(s, R) : RootOf(s, R, j) \in DocumentsRoots(s)
      BY DEF DocumentsRoots
  <2> QED BY <1>1, <1>2, <2>1 DEF RootOf
<1>4. DocumentsRoots(t) = DocumentsRoots(s) \cup {new}
  <2>1. \A q : q \in DocumentsRoots(t) <=> \E j \in Names(s, R) \cup {c} : q = RootOf(t, R, j)
      BY <1>1 DEF DocumentsRoots
  <2>2. \A q : q \in DocumentsRoots(s) <=> \E j \in Names(s, R) : q = RootOf(s, R, j)
      BY DEF DocumentsRoots
  <2> HIDE DEF R, new
  <2> QED BY <1>3, <2>1, <2>2
<1>5. \A p \in Pages(s) : t.trees[p] = s.trees[p]
    BY <1>1, <1>2
<1>6. \A p \in DocumentsRoots(s) :
          Names(t, p) = Names(s, p) /\ \A d \in Names(s, p) : RootOf(t, p, d) = RootOf(s, p, d)
    BY <1>2, <1>5 DEF Names, RootOf
<1>7. Names(t, new) = {}
    BY <1>1 DEF Names
<1>8. HoldsCollections(t)
  <2>1. HoldsCollections(s) /\ RecordIn(s) \subseteq RecordIn(t)
      BY <1>2 DEF Sound, RecordIn
  <2>2. [root |-> new, count |-> 0] \in RecordIn(t)
      BY <1>2, CountAssumption DEF RecordIn
  <2> QED BY <1>1, <2>1, <2>2 DEF HoldsCollections
<1>9. \A p \in DocumentsRoots(t) : HoldsDocuments(t, p) /\ \A d \in Names(t, p) : HoldsItems(t, RootOf(t, p, d))
  <2>1. CASE TRUE
    <3>1. ASSUME NEW p \in DocumentsRoots(s) PROVE HoldsDocuments(t, p)
      <4>1. HoldsDocuments(s, p) /\ RecordIn(s) \subseteq RecordIn(t)
          BY <1>2 DEF Sound, RecordIn
      <4> QED BY <1>2, <1>5, <1>6, <4>1 DEF HoldsDocuments
    <3>2. ASSUME NEW p \in DocumentsRoots(s), NEW d \in Names(s, p) PROVE HoldsItems(t, RootOf(s, p, d))
      <4>1. HoldsItems(s, RootOf(s, p, d))
          BY DEF Sound
      <4> QED BY <1>2, <1>5, <4>1 DEF HoldsItems
    <3>3. HoldsDocuments(t, new)
        BY <1>7 DEF HoldsDocuments
    <3> QED BY <1>4, <1>6, <1>7, <3>1, <3>2, <3>3
  <2> QED BY <2>1
<1>10. Own(t)
  <2> USE <1>1, <1>2, <1>3, <1>4, <1>6, <1>7, SoundOwn
  <2>1. ASSUME NEW c1 \in Names(t, R), NEW c2 \in Names(t, R), RootOf(t, R, c1) = RootOf(t, R, c2)
        PROVE  c1 = c2
      BY <2>1 DEF Own
  <2>2. ASSUME NEW p \in DocumentsRoots(t), NEW d \in Names(t, p)
        PROVE  RootOf(t, p, d) \notin DocumentsRoots(t)
      BY DEF Own
  <2>3. ASSUME NEW p1 \in DocumentsRoots(t), NEW p2 \in DocumentsRoots(t),
               NEW d1 \in Names(t, p1), NEW d2 \in Names(t, p2),
               RootOf(t, p1, d1) = RootOf(t, p2, d2)
        PROVE  p1 = p2 /\ d1 = d2
      BY <2>3 DEF Own
  <2> QED BY <2>1, <2>2, <2>3, Zenon DEF Own
<1>11. Sound(t)
    BY <1>1, <1>8, <1>9, <1>10, SoundIs
<1> QED BY <1>11 DEF t

\* Creating a document, in the tree of a collection.
LEMMA CreateDocument ==
    ASSUME NEW s, Sound(s), NEW p \in DocumentsRoots(s),
           NEW d \in DocumentName, ~Has(s, p, d)
    PROVE  Sound(NewContainer(s, p, d).db)
<1> DEFINE t == NewContainer(s, p, d).db
           new == s.fl.maxPage + 1
           R == CollectionsRoot
<1>1. /\ Formed(t) /\ t.fl.maxPage = new /\ DOMAIN t.trees[new] = {}
      /\ \A q \in DOMAIN s.trees \ {p} : t.trees[q] = s.trees[q]
      /\ Names(t, p) = Names(s, p) \cup {d}
      /\ t.trees[p][d] = [root |-> new, count |-> 0]
      /\ \A j \in Names(s, p) : t.trees[p][j] = s.trees[p][j]
  <2>1. d # NoName
      BY ShellAssumption
  <2>2. Formed(s) /\ p \in DOMAIN s.trees
      BY SoundTrees DEF Sound
  <2>3. Adds(s, t, p, d)
      BY <2>1, <2>2, NewContainerAdds
  <2> QED BY <2>3 DEF Adds
<1> HIDE DEF t
<1>2. /\ DocumentsRoots(s) \subseteq Pages(s)
      /\ \A q \in Pages(s) : q \in DOMAIN s.trees /\ q # R /\ q # new
      /\ R \in DOMAIN s.trees
      /\ Pages(s) \subseteq Pages(t) /\ new \in Pages(t)
      /\ \A q \in DocumentsRoots(s) : \A e \in Names(s, q) : RootOf(s, q, e) \in Pages(s)
  <2>1. s.fl.maxPage \in Nat /\ R <= s.fl.maxPage
      BY SoundTrees DEF Sound, Formed
  <2>2. Pages(s) \subseteq Pages(t) /\ new \in Pages(t)
      BY <1>1, <2>1 DEF Pages, CollectionsRoot
  <2> QED BY <2>2, SoundTrees
<1>3. t.trees[R] = s.trees[R]
    BY <1>1, <1>2
<1>4. DocumentsRoots(t) = DocumentsRoots(s)
    BY <1>3 DEF DocumentsRoots, Names, RootOf
<1>5. \A q \in DocumentsRoots(s) \ {p} :
          Names(t, q) = Names(s, q) /\ \A e \in Names(s, q) : RootOf(t, q, e) = RootOf(s, q, e)
    BY <1>1, <1>2 DEF Names, RootOf
<1>6. /\ \A e \in Names(s, p) : RootOf(t, p, e) = RootOf(s, p, e)
      /\ RootOf(t, p, d) = new
    BY <1>1 DEF RootOf
<1>7. HoldsCollections(t)
  <2>1. HoldsCollections(s) /\ RecordIn(s) \subseteq RecordIn(t)
      BY <1>2 DEF Sound, RecordIn
  <2> QED BY <1>3, <2>1 DEF HoldsCollections, Names
<1>8. ASSUME NEW q \in DocumentsRoots(t) PROVE HoldsDocuments(t, q)
  <2>1. HoldsDocuments(s, q) /\ RecordIn(s) \subseteq RecordIn(t)
      BY <1>2, <1>4 DEF Sound, RecordIn
  <2>2. [root |-> new, count |-> 0] \in RecordIn(t)
      BY <1>2, CountAssumption DEF RecordIn
  <2>3. CASE q = p
      BY <1>1, <2>1, <2>2, <2>3 DEF HoldsDocuments
  <2>4. CASE q # p
    <3>1. t.trees[q] = s.trees[q]
        BY <1>1, <1>2, <1>4, <2>4
    <3> QED BY <2>1, <3>1 DEF HoldsDocuments, Names
  <2> QED BY <2>3, <2>4
<1>9. ASSUME NEW q \in DocumentsRoots(t), NEW e \in Names(t, q) PROVE HoldsItems(t, RootOf(t, q, e))
  <2>1. CASE e \in Names(s, q)
    <3> DEFINE x == RootOf(s, q, e)
    <3>1. HoldsItems(s, x)
        BY <1>4, <2>1 DEF Sound
    <3>2. RootOf(t, q, e) = x
        BY <1>4, <1>5, <1>6, <2>1
    <3>3. x # p
        BY <1>4, <2>1, SoundOwn DEF Own
    <3>4. x \in DOMAIN s.trees
        BY <1>2, <1>4, <2>1
    <3>5. t.trees[x] = s.trees[x]
        BY <1>1, <3>3, <3>4
    <3> HIDE DEF x
    <3> QED BY <3>1, <3>2, <3>5 DEF HoldsItems
  <2>2. CASE e \notin Names(s, q)
    <3>1. RootOf(t, q, e) = new
        BY <1>1, <1>4, <1>5, <1>6, <2>2
    <3> QED BY <1>1, <3>1 DEF HoldsItems
  <2> QED BY <2>1, <2>2
<1>10. Own(t)
  <2> USE <1>1, <1>2, <1>4, <1>5, <1>6, SoundOwn
  <2>1. ASSUME NEW c1 \in Names(t, R), NEW c2 \in Names(t, R), RootOf(t, R, c1) = RootOf(t, R, c2)
        PROVE  c1 = c2
      BY <1>3, <2>1 DEF Own, Names, RootOf
  <2>2. ASSUME NEW q \in DocumentsRoots(t), NEW e \in Names(t, q)
        PROVE  RootOf(t, q, e) \notin DocumentsRoots(t)
      BY DEF Own
  <2>3. ASSUME NEW q1 \in DocumentsRoots(t), NEW q2 \in DocumentsRoots(t),
               NEW e1 \in Names(t, q1), NEW e2 \in Names(t, q2),
               RootOf(t, q1, e1) = RootOf(t, q2, e2)
        PROVE  q1 = q2 /\ e1 = e2
      BY <2>3 DEF Own
  <2> QED BY <2>1, <2>2, <2>3, Zenon DEF Own
<1>11. Sound(t)
    BY <1>1, <1>7, <1>8, <1>9, <1>10, SoundIs
<1> QED BY <1>11 DEF t

\* A put or remove in a document, which leaves items in it.
LEMMA EditDocument ==
    ASSUME NEW s, Sound(s), NEW p \in DocumentsRoots(s), NEW h, h.id \in Names(s, p),
           HandleIn(s, p, h), NEW t, NEW g, Edits(s, t, p, h, g), HoldsItems(t, h.root)
    PROVE  Sound(t)
<1> DEFINE R == CollectionsRoot
<1>1. /\ IsDatabase(t) /\ t.fl = s.fl /\ DOMAIN t.trees = DOMAIN s.trees
      /\ \A q \in DOMAIN s.trees \ {p, h.root} : t.trees[q] = s.trees[q]
      /\ DOMAIN t.trees[p] = DOMAIN s.trees[p]
      /\ \A j \in DOMAIN s.trees[p] \ {h.id} : t.trees[p][j] = s.trees[p][j]
      /\ t.trees[p][h.id] = [root |-> h.root, count |-> g.count]
      /\ s.trees[p][h.id] = [root |-> h.root, count |-> h.count]
      /\ g.count \in 0 .. CountRange - 1
    BY DEF Edits, HandleIn
<1>2. /\ DocumentsRoots(s) \subseteq Pages(s)
      /\ \A q \in Pages(s) : q \in DOMAIN s.trees /\ q # R
      /\ R \in DOMAIN s.trees
      /\ Pages(t) = Pages(s) /\ RecordIn(t) = RecordIn(s)
      /\ \A q \in DocumentsRoots(s) : \A e \in Names(s, q) : RootOf(s, q, e) \in Pages(s)
  <2>1. Pages(t) = Pages(s) /\ RecordIn(t) = RecordIn(s)
      BY <1>1 DEF Pages, RecordIn
  <2> QED BY <2>1, SoundTrees
<1>3. /\ RootOf(s, p, h.id) = h.root /\ h.root \in Pages(s)
      /\ h.root \notin DocumentsRoots(s)
      /\ \A q \in DocumentsRoots(s) : \A e \in Names(s, q) :
             RootOf(s, q, e) = h.root => q = p /\ e = h.id
  <2>1. RootOf(s, p, h.id) = h.root
      BY <1>1 DEF RootOf
  <2> QED BY <1>2, <2>1, SoundOwn DEF Own
<1>4. t.trees[R] = s.trees[R]
    BY <1>1, <1>2, <1>3
<1>5. DocumentsRoots(t) = DocumentsRoots(s)
    BY <1>4 DEF DocumentsRoots, Names, RootOf
<1>6. \A q \in DocumentsRoots(s) \ {p} : t.trees[q] = s.trees[q]
    BY <1>1, <1>2, <1>3
<1>7. \A q \in DocumentsRoots(s) :
          Names(t, q) = Names(s, q) /\ \A e \in Names(s, q) : RootOf(t, q, e) = RootOf(s, q, e)
  <2>1. \A q \in DocumentsRoots(s) \ {p} :
            Names(t, q) = Names(s, q) /\ \A e \in Names(s, q) : RootOf(t, q, e) = RootOf(s, q, e)
      BY <1>6 DEF Names, RootOf
  <2>2. Names(t, p) = Names(s, p) /\ \A e \in Names(s, p) : RootOf(t, p, e) = RootOf(s, p, e)
      BY <1>1 DEF Names, RootOf
  <2> QED BY <2>1, <2>2
<1>8. HoldsCollections(t)
  <2>1. HoldsCollections(s)
      BY DEF Sound
  <2> QED BY <1>2, <1>4, <2>1 DEF HoldsCollections, Names
<1>9. ASSUME NEW q \in DocumentsRoots(t) PROVE HoldsDocuments(t, q)
  <2>1. HoldsDocuments(s, q)
      BY <1>5 DEF Sound
  <2>2. CASE q = p
    <3>1. [root |-> h.root, count |-> g.count] \in RecordIn(t)
        BY <1>1, <1>2, <1>3 DEF RecordIn
    <3>2. \A e \in Names(s, p) : e \in DOMAIN s.trees[p]
        BY DEF Names
    <3> QED BY <1>1, <1>2, <1>5, <1>7, <2>1, <2>2, <3>1, <3>2 DEF HoldsDocuments
  <2>3. CASE q # p
    <3>1. t.trees[q] = s.trees[q]
        BY <1>5, <1>6, <2>3
    <3> QED BY <1>2, <2>1, <3>1 DEF HoldsDocuments, Names
  <2> QED BY <2>2, <2>3
<1>10. ASSUME NEW q \in DocumentsRoots(t), NEW e \in Names(t, q) PROVE HoldsItems(t, RootOf(t, q, e))
  <2> DEFINE x == RootOf(s, q, e)
  <2>1. RootOf(t, q, e) = x /\ x \in DOMAIN s.trees /\ HoldsItems(s, x)
      BY <1>2, <1>5, <1>7 DEF Sound
  <2>2. x # p
      BY <1>5, <1>7, SoundOwn DEF Own
  <2>3. CASE x = h.root
      BY <2>1, <2>3
  <2>4. CASE x # h.root
    <3>1. t.trees[x] = s.trees[x]
        BY <1>1, <2>1, <2>2, <2>4
    <3> HIDE DEF x
    <3> QED BY <2>1, <3>1 DEF HoldsItems
  <2> QED BY <2>3, <2>4
<1>11. Own(t)
  <2> USE <1>5, <1>7, SoundOwn
  <2>1. ASSUME NEW c1 \in Names(t, R), NEW c2 \in Names(t, R), RootOf(t, R, c1) = RootOf(t, R, c2)
        PROVE  c1 = c2
      BY <1>4, <2>1 DEF Own, Names, RootOf
  <2>2. ASSUME NEW q \in DocumentsRoots(t), NEW e \in Names(t, q)
        PROVE  RootOf(t, q, e) \notin DocumentsRoots(t)
      BY DEF Own
  <2>3. ASSUME NEW q1 \in DocumentsRoots(t), NEW q2 \in DocumentsRoots(t),
               NEW e1 \in Names(t, q1), NEW e2 \in Names(t, q2),
               RootOf(t, q1, e1) = RootOf(t, q2, e2)
        PROVE  q1 = q2 /\ e1 = e2
      BY <2>3 DEF Own
  <2> QED BY <2>1, <2>2, <2>3, Zenon DEF Own
<1>12. Formed(t)
    BY <1>1 DEF Sound, Formed, IsDatabase
<1> QED BY <1>8, <1>9, <1>10, <1>11, <1>12, SoundIs

\* A remove in a collection: fewer documents, and the others as they were.
LEMMA DropDocument ==
    ASSUME NEW s, Sound(s), NEW h, h.id \in Names(s, CollectionsRoot),
           HandleIn(s, CollectionsRoot, h),
           NEW t, NEW g, Edits(s, t, CollectionsRoot, h, g),
           NEW k, Loses(s, t, h.root, k)
    PROVE  Sound(t)
<1> DEFINE R == CollectionsRoot
           p == h.root
<1>1. /\ IsDatabase(t) /\ t.fl = s.fl /\ DOMAIN t.trees = DOMAIN s.trees
      /\ \A q \in DOMAIN s.trees \ {R, p} : t.trees[q] = s.trees[q]
      /\ DOMAIN t.trees[p] = DOMAIN s.trees[p] \ {k}
      /\ \A j \in DOMAIN s.trees[p] \ {k} : t.trees[p][j] = s.trees[p][j]
      /\ DOMAIN t.trees[R] = DOMAIN s.trees[R]
      /\ \A j \in DOMAIN s.trees[R] \ {h.id} : t.trees[R][j] = s.trees[R][j]
      /\ t.trees[R][h.id] = [root |-> p, count |-> g.count]
      /\ s.trees[R][h.id] = [root |-> p, count |-> h.count]
      /\ g.count \in 0 .. CountRange - 1
    BY DEF Edits, HandleIn, Loses
<1>2. /\ DocumentsRoots(s) \subseteq Pages(s)
      /\ \A q \in Pages(s) : q \in DOMAIN s.trees /\ q # R
      /\ Pages(t) = Pages(s) /\ RecordIn(t) = RecordIn(s)
      /\ \A q \in DocumentsRoots(s) : \A e \in Names(s, q) : RootOf(s, q, e) \in Pages(s)
  <2>1. Pages(t) = Pages(s) /\ RecordIn(t) = RecordIn(s)
      BY <1>1 DEF Pages, RecordIn
  <2> QED BY <2>1, SoundTrees
<1>3. /\ Names(t, R) = Names(s, R)
      /\ \A c \in Names(s, R) : RootOf(t, R, c) = RootOf(s, R, c)
      /\ p \in DocumentsRoots(s)
  <2>1. Names(t, R) = Names(s, R) /\ \A c \in Names(s, R) : c \in DOMAIN s.trees[R]
      BY <1>1 DEF Names
  <2>2. \A c \in Names(s, R) : RootOf(t, R, c) = RootOf(s, R, c)
      BY <1>1, <2>1 DEF RootOf
  <2>3. RootOf(s, R, h.id) = p
      BY <1>1 DEF RootOf
  <2> QED BY <2>1, <2>2, <2>3 DEF DocumentsRoots
<1>4. DocumentsRoots(t) = DocumentsRoots(s)
  <2>1. \A q : q \in DocumentsRoots(t) <=> \E j \in Names(s, R) : q = RootOf(t, R, j)
      BY <1>3 DEF DocumentsRoots
  <2>2. \A q : q \in DocumentsRoots(s) <=> \E j \in Names(s, R) : q = RootOf(s, R, j)
      BY DEF DocumentsRoots
  <2> HIDE DEF R, p
  <2> QED BY <1>3, <2>1, <2>2
<1>5. \A q \in DocumentsRoots(s) \ {p} : t.trees[q] = s.trees[q]
    BY <1>1, <1>2
<1>6. \A q \in DocumentsRoots(s) :
          /\ Names(t, q) \subseteq Names(s, q)
          /\ \A e \in Names(t, q) : t.trees[q][e] = s.trees[q][e]
          /\ \A e \in Names(t, q) : RootOf(t, q, e) = RootOf(s, q, e)
  <2>1. \A q \in DocumentsRoots(s) \ {p} :
            Names(t, q) = Names(s, q) /\ \A e \in Names(s, q) : t.trees[q][e] = s.trees[q][e]
      BY <1>5 DEF Names
  <2>2. Names(t, p) \subseteq Names(s, p) /\ \A e \in Names(t, p) : t.trees[p][e] = s.trees[p][e]
      BY <1>1 DEF Names
  <2> QED BY <2>1, <2>2 DEF RootOf
<1>7. HoldsCollections(t)
  <2>1. HoldsCollections(s)
      BY DEF Sound
  <2>2. [root |-> p, count |-> g.count] \in RecordIn(t)
      BY <1>1, <1>2, <1>3 DEF RecordIn
  <2>3. \A c \in Names(s, R) : c \in DOMAIN s.trees[R]
      BY DEF Names
  <2> QED BY <1>1, <1>2, <1>3, <2>1, <2>2, <2>3 DEF HoldsCollections
<1>8. ASSUME NEW q \in DocumentsRoots(t) PROVE HoldsDocuments(t, q)
  <2>1. HoldsDocuments(s, q)
      BY <1>4 DEF Sound
  <2> QED BY <1>2, <1>4, <1>6, <2>1 DEF HoldsDocuments
<1>9. ASSUME NEW q \in DocumentsRoots(t), NEW e \in Names(t, q) PROVE HoldsItems(t, RootOf(t, q, e))
  <2> DEFINE x == RootOf(s, q, e)
  <2>1. RootOf(t, q, e) = x /\ x \in DOMAIN s.trees /\ x # R /\ HoldsItems(s, x)
      BY <1>2, <1>4, <1>6 DEF Sound
  <2>2. x # p
      BY <1>3, <1>4, <1>6, SoundOwn DEF Own
  <2>3. t.trees[x] = s.trees[x]
      BY <1>1, <2>1, <2>2
  <2> HIDE DEF x
  <2> QED BY <2>1, <2>3 DEF HoldsItems
<1>10. Own(t)
  <2> USE <1>3, <1>4, <1>6, SoundOwn
  <2>1. ASSUME NEW c1 \in Names(t, R), NEW c2 \in Names(t, R), RootOf(t, R, c1) = RootOf(t, R, c2)
        PROVE  c1 = c2
      BY <2>1 DEF Own
  <2>2. ASSUME NEW q \in DocumentsRoots(t), NEW e \in Names(t, q)
        PROVE  RootOf(t, q, e) \notin DocumentsRoots(t)
      BY DEF Own
  <2>3. ASSUME NEW q1 \in DocumentsRoots(t), NEW q2 \in DocumentsRoots(t),
               NEW e1 \in Names(t, q1), NEW e2 \in Names(t, q2),
               RootOf(t, q1, e1) = RootOf(t, q2, e2)
        PROVE  q1 = q2 /\ e1 = e2
      BY <2>3 DEF Own
  <2> QED BY <2>1, <2>2, <2>3, Zenon DEF Own
<1>11. Formed(t)
    BY <1>1 DEF Sound, Formed, IsDatabase
<1> QED BY <1>7, <1>8, <1>9, <1>10, <1>11, SoundIs
-----------------------------------------------------------------------------
(***************************************************************************)
(* What a database says                                                    *)
(***************************************************************************)
\* The tree of documents of a collection, the record and the items of one.
Docs(s, c) == RootOf(s, CollectionsRoot, c)
\* The record of the document d of c.
Doc(s, c, d) == s.trees[Docs(s, c)][d]
\* Its items.
Items(s, c, d) == s.trees[RootOf(s, Docs(s, c), d)]

\* The document d of c is in t as it is in s.
SameDoc(s, t, c, d) == Doc(t, c, d).count = Doc(s, c, d).count /\ Items(t, c, d) = Items(s, c, d)
\* All documents of c are.
SameDocs(s, t, c) ==
    /\ Names(t, Docs(t, c)) = Names(s, Docs(s, c))
    /\ \A d \in Names(s, Docs(s, c)) : SameDoc(s, t, c, d)

\* Where they are.
LEMMA DocsAre ==
    ASSUME NEW s, Sound(s), NEW c \in Names(s, CollectionsRoot)
    PROVE  /\ Docs(s, c) \in DocumentsRoots(s) /\ Docs(s, c) \in DOMAIN s.trees
           /\ Docs(s, c) # CollectionsRoot
           /\ c \in Collection
           /\ Names(s, Docs(s, c)) \subseteq DocumentName
           /\ \A d \in Names(s, Docs(s, c)) :
                  /\ RootOf(s, Docs(s, c), d) \in DOMAIN s.trees
                  /\ RootOf(s, Docs(s, c), d) # CollectionsRoot
                  /\ \A p \in DocumentsRoots(s) : RootOf(s, Docs(s, c), d) # p
                  /\ DOMAIN Items(s, c, d) \subseteq Key
                  /\ \A k \in DOMAIN Items(s, c, d) : Items(s, c, d)[k] \in Value
<1>1. Docs(s, c) \in DocumentsRoots(s)
    BY DEF Docs, DocumentsRoots
<1>2. Docs(s, c) \in DOMAIN s.trees /\ Docs(s, c) # CollectionsRoot
    BY <1>1, SoundTrees
<1>3. c \in Collection /\ Names(s, Docs(s, c)) \subseteq DocumentName
    BY <1>1 DEF Sound, HoldsCollections, HoldsDocuments
<1>4. ASSUME NEW d \in Names(s, Docs(s, c))
      PROVE  /\ RootOf(s, Docs(s, c), d) \in DOMAIN s.trees
             /\ RootOf(s, Docs(s, c), d) # CollectionsRoot
             /\ \A p \in DocumentsRoots(s) : RootOf(s, Docs(s, c), d) # p
             /\ DOMAIN Items(s, c, d) \subseteq Key
             /\ \A k \in DOMAIN Items(s, c, d) : Items(s, c, d)[k] \in Value
  <2>1. RootOf(s, Docs(s, c), d) \in DOMAIN s.trees /\ RootOf(s, Docs(s, c), d) # CollectionsRoot
      BY <1>1, SoundTrees
  <2>2. \A p \in DocumentsRoots(s) : RootOf(s, Docs(s, c), d) # p
      BY <1>1, SoundOwn DEF Own
  <2>3. HoldsItems(s, RootOf(s, Docs(s, c), d))
      BY <1>1 DEF Sound
  <2> QED BY <2>1, <2>2, <2>3 DEF HoldsItems, Items
<1> QED BY <1>1, <1>2, <1>3, <1>4

\* A collection is added, and has no documents.
LEMMA CollectionAdded ==
    ASSUME NEW s, Sound(s), NEW t, NEW c, Adds(s, t, CollectionsRoot, c), ~Has(s, CollectionsRoot, c)
    PROVE  /\ Names(t, CollectionsRoot) = Names(s, CollectionsRoot) \cup {c}
           /\ Names(t, Docs(t, c)) = {}
           /\ \A x \in Names(s, CollectionsRoot) : SameDocs(s, t, x)
<1>1. /\ DOMAIN t.trees[s.fl.maxPage + 1] = {}
      /\ \A q \in DOMAIN s.trees \ {CollectionsRoot} : t.trees[q] = s.trees[q]
      /\ Names(t, CollectionsRoot) = Names(s, CollectionsRoot) \cup {c}
      /\ t.trees[CollectionsRoot][c] = [root |-> s.fl.maxPage + 1, count |-> 0]
      /\ \A j \in Names(s, CollectionsRoot) : t.trees[CollectionsRoot][j] = s.trees[CollectionsRoot][j]
    BY DEF Adds
<1>2. Names(t, Docs(t, c)) = {}
    BY <1>1 DEF Docs, RootOf, Names
<1>3. ASSUME NEW x \in Names(s, CollectionsRoot) PROVE SameDocs(s, t, x)
  <2>1. Docs(t, x) = Docs(s, x)
      BY <1>1 DEF Docs, RootOf
  <2>2. t.trees[Docs(s, x)] = s.trees[Docs(s, x)]
      BY <1>1, DocsAre
  <2>3. ASSUME NEW d \in Names(s, Docs(s, x)) PROVE SameDoc(s, t, x, d)
    <3>1. RootOf(t, Docs(t, x), d) = RootOf(s, Docs(s, x), d)
        BY <2>1, <2>2 DEF RootOf
    <3>2. t.trees[RootOf(s, Docs(s, x), d)] = s.trees[RootOf(s, Docs(s, x), d)]
        BY <1>1, DocsAre
    <3> QED BY <2>1, <2>2, <3>1, <3>2 DEF SameDoc, Doc, Items
  <2> QED BY <2>1, <2>2, <2>3 DEF SameDocs, Names
<1> QED BY <1>1, <1>2, <1>3

\* The trees of other collections, and their documents, are left alone.
LEMMA OthersSame ==
    ASSUME NEW s, Sound(s), NEW t, NEW c \in Names(s, CollectionsRoot),
           t.trees[CollectionsRoot] = s.trees[CollectionsRoot],
           \A q \in DOMAIN s.trees \ {CollectionsRoot} :
               t.trees[q] # s.trees[q] =>
                   q = Docs(s, c) \/ \E d \in Names(s, Docs(s, c)) : q = RootOf(s, Docs(s, c), d)
    PROVE  /\ Names(t, CollectionsRoot) = Names(s, CollectionsRoot)
           /\ \A x \in Names(s, CollectionsRoot) : Docs(t, x) = Docs(s, x)
           /\ \A x \in Names(s, CollectionsRoot) \ {c} : SameDocs(s, t, x)
<1>1. \A x \in Names(s, CollectionsRoot) : Docs(t, x) = Docs(s, x)
    BY DEF Docs, RootOf
<1>2. ASSUME NEW x \in Names(s, CollectionsRoot) \ {c} PROVE SameDocs(s, t, x)
  <2>1. Docs(s, x) # Docs(s, c)
      BY SoundOwn DEF Own, Docs
  <2>2. t.trees[Docs(s, x)] = s.trees[Docs(s, x)]
      BY <2>1, DocsAre
  <2>3. ASSUME NEW d \in Names(s, Docs(s, x)) PROVE SameDoc(s, t, x, d)
    <3>1. RootOf(t, Docs(t, x), d) = RootOf(s, Docs(s, x), d)
        BY <1>1, <2>2 DEF RootOf
    <3>2. \A e \in Names(s, Docs(s, c)) : RootOf(s, Docs(s, x), d) # RootOf(s, Docs(s, c), e)
        BY <2>1, DocsAre, SoundOwn DEF Own
    <3>3. t.trees[RootOf(s, Docs(s, x), d)] = s.trees[RootOf(s, Docs(s, x), d)]
        BY <3>2, DocsAre
    <3> QED BY <1>1, <2>2, <3>1, <3>3 DEF SameDoc, Doc, Items
  <2> QED BY <1>1, <2>2, <2>3 DEF SameDocs, Names
<1> QED BY <1>1, <1>2 DEF Names

\* A document is added, and has no items.
LEMMA DocumentAdded ==
    ASSUME NEW s, Sound(s), NEW t, NEW c \in Names(s, CollectionsRoot), NEW d,
           Adds(s, t, Docs(s, c), d), ~Has(s, Docs(s, c), d)
    PROVE  /\ Names(t, CollectionsRoot) = Names(s, CollectionsRoot)
           /\ \A x \in Names(s, CollectionsRoot) \ {c} : SameDocs(s, t, x)
           /\ Names(t, Docs(t, c)) = Names(s, Docs(s, c)) \cup {d}
           /\ \A e \in Names(s, Docs(s, c)) : SameDoc(s, t, c, e)
           /\ DOMAIN Items(t, c, d) = {} /\ Doc(t, c, d).count = 0
<1> DEFINE p == Docs(s, c)
<1>1. /\ DOMAIN t.trees[s.fl.maxPage + 1] = {}
      /\ \A q \in DOMAIN s.trees \ {p} : t.trees[q] = s.trees[q]
      /\ Names(t, p) = Names(s, p) \cup {d}
      /\ t.trees[p][d] = [root |-> s.fl.maxPage + 1, count |-> 0]
      /\ \A j \in Names(s, p) : t.trees[p][j] = s.trees[p][j]
    BY DEF Adds
<1>2. t.trees[CollectionsRoot] = s.trees[CollectionsRoot]
  <2>1. CollectionsRoot \in DOMAIN s.trees
      BY SoundTrees
  <2> QED BY <1>1, <2>1, DocsAre
<1>3. /\ Names(t, CollectionsRoot) = Names(s, CollectionsRoot) /\ Docs(t, c) = p
      /\ \A x \in Names(s, CollectionsRoot) \ {c} : SameDocs(s, t, x)
    BY <1>1, <1>2, OthersSame
<1>4. DOMAIN Items(t, c, d) = {} /\ Doc(t, c, d).count = 0
  <2>1. RootOf(t, p, d) = s.fl.maxPage + 1
      BY <1>1 DEF RootOf
  <2> QED BY <1>1, <1>3, <2>1 DEF Items, Doc
<1>5. ASSUME NEW e \in Names(s, p) PROVE SameDoc(s, t, c, e)
  <2>1. RootOf(t, p, e) = RootOf(s, p, e) /\ t.trees[p][e] = s.trees[p][e]
      BY <1>1 DEF RootOf
  <2>2. t.trees[RootOf(s, p, e)] = s.trees[RootOf(s, p, e)]
      BY <1>1, DocsAre
  <2> QED BY <1>3, <2>1, <2>2 DEF SameDoc, Doc, Items
<1> QED BY <1>1, <1>3, <1>4, <1>5

\* An item is put into the document of the handle h, or removed from it.
LEMMA DocumentEdited ==
    ASSUME NEW s, Sound(s), NEW t, NEW c \in Names(s, CollectionsRoot),
           NEW h, h.id \in Names(s, Docs(s, c)), HandleIn(s, Docs(s, c), h),
           NEW g, Edits(s, t, Docs(s, c), h, g)
    PROVE  /\ Names(t, CollectionsRoot) = Names(s, CollectionsRoot)
           /\ \A x \in Names(s, CollectionsRoot) \ {c} : SameDocs(s, t, x)
           /\ Names(t, Docs(t, c)) = Names(s, Docs(s, c))
           /\ \A e \in Names(s, Docs(s, c)) \ {h.id} : SameDoc(s, t, c, e)
           /\ Items(t, c, h.id) = t.trees[h.root] /\ Doc(t, c, h.id).count = g.count
           /\ Items(s, c, h.id) = s.trees[h.root] /\ Doc(s, c, h.id).count = h.count
<1> DEFINE p == Docs(s, c)
<1>1. /\ \A q \in DOMAIN s.trees \ {p, h.root} : t.trees[q] = s.trees[q]
      /\ DOMAIN t.trees[p] = DOMAIN s.trees[p]
      /\ \A j \in DOMAIN s.trees[p] \ {h.id} : t.trees[p][j] = s.trees[p][j]
      /\ t.trees[p][h.id] = [root |-> h.root, count |-> g.count]
      /\ s.trees[p][h.id] = [root |-> h.root, count |-> h.count]
    BY DEF Edits, HandleIn
<1>2. RootOf(s, p, h.id) = h.root /\ RootOf(t, p, h.id) = h.root
    BY <1>1 DEF RootOf
<1>3. t.trees[CollectionsRoot] = s.trees[CollectionsRoot]
  <2>1. CollectionsRoot \in DOMAIN s.trees
      BY SoundTrees
  <2>2. CollectionsRoot # h.root /\ CollectionsRoot # p
      BY <1>2, DocsAre
  <2> QED BY <1>1, <2>1, <2>2
<1>4. /\ Names(t, CollectionsRoot) = Names(s, CollectionsRoot) /\ Docs(t, c) = p
      /\ \A x \in Names(s, CollectionsRoot) \ {c} : SameDocs(s, t, x)
    BY <1>1, <1>2, <1>3, OthersSame
<1>5. ASSUME NEW e \in Names(s, p) \ {h.id} PROVE SameDoc(s, t, c, e)
  <2>1. e \in DOMAIN s.trees[p] \ {h.id}
      BY DEF Names
  <2>2. t.trees[p][e] = s.trees[p][e] /\ RootOf(t, p, e) = RootOf(s, p, e)
      BY <1>1, <2>1 DEF RootOf
  <2>3. RootOf(s, p, e) # h.root
      BY <1>2, DocsAre, SoundOwn DEF Own
  <2>4. t.trees[RootOf(s, p, e)] = s.trees[RootOf(s, p, e)]
      BY <1>1, <2>3, DocsAre
  <2> QED BY <1>4, <2>2, <2>4 DEF SameDoc, Doc, Items
<1>6. /\ Items(t, c, h.id) = t.trees[h.root] /\ Doc(t, c, h.id).count = g.count
      /\ Items(s, c, h.id) = s.trees[h.root] /\ Doc(s, c, h.id).count = h.count
    BY <1>1, <1>2, <1>4 DEF Items, Doc
<1>7. Names(t, p) = Names(s, p)
    BY <1>1 DEF Names
<1> QED BY <1>4, <1>5, <1>6, <1>7

\* A document is removed from the collection of the handle h.
LEMMA DocumentDropped ==
    ASSUME NEW s, Sound(s), NEW t, NEW h, h.id \in Names(s, CollectionsRoot),
           HandleIn(s, CollectionsRoot, h), NEW g, Edits(s, t, CollectionsRoot, h, g),
           NEW k, Loses(s, t, h.root, k)
    PROVE  /\ Names(t, CollectionsRoot) = Names(s, CollectionsRoot)
           /\ \A x \in Names(s, CollectionsRoot) \ {h.id} : SameDocs(s, t, x)
           /\ Names(t, Docs(t, h.id)) = Names(s, Docs(s, h.id)) \ {k}
           /\ \A e \in Names(s, Docs(s, h.id)) \ {k} : SameDoc(s, t, h.id, e)
<1> DEFINE R == CollectionsRoot
           p == h.root
<1>1. /\ \A q \in DOMAIN s.trees \ {R, p} : t.trees[q] = s.trees[q]
      /\ DOMAIN t.trees[p] = DOMAIN s.trees[p] \ {k}
      /\ \A j \in DOMAIN s.trees[p] \ {k} : t.trees[p][j] = s.trees[p][j]
      /\ DOMAIN t.trees[R] = DOMAIN s.trees[R]
      /\ \A j \in DOMAIN s.trees[R] \ {h.id} : t.trees[R][j] = s.trees[R][j]
      /\ t.trees[R][h.id] = [root |-> p, count |-> g.count]
      /\ s.trees[R][h.id] = [root |-> p, count |-> h.count]
    BY DEF Edits, HandleIn, Loses
<1>2. Names(t, R) = Names(s, R) /\ \A x \in Names(s, R) : Docs(t, x) = Docs(s, x)
  <2>1. Docs(t, h.id) = p /\ Docs(s, h.id) = p
      BY <1>1 DEF Docs, RootOf
  <2>2. \A x \in Names(s, R) \ {h.id} : x \in DOMAIN s.trees[R] \ {h.id}
      BY DEF Names
  <2>3. \A x \in Names(s, R) \ {h.id} : Docs(t, x) = Docs(s, x)
      BY <1>1, <2>2 DEF Docs, RootOf
  <2> QED BY <1>1, <2>1, <2>3 DEF Names
<1>3. Docs(s, h.id) = p
    BY <1>1 DEF Docs, RootOf
<1>4. ASSUME NEW x \in Names(s, R), NEW e \in Names(s, Docs(s, x)),
             Docs(s, x) # p \/ e # k
      PROVE  SameDoc(s, t, x, e)
  <2>1. t.trees[Docs(s, x)][e] = s.trees[Docs(s, x)][e]
    <3>1. CASE Docs(s, x) = p
        BY <1>1, <1>4, <3>1 DEF Names
    <3>2. CASE Docs(s, x) # p
        BY <1>1, <3>2, DocsAre
    <3> QED BY <3>1, <3>2
  <2>2. RootOf(t, Docs(s, x), e) = RootOf(s, Docs(s, x), e)
      BY <2>1 DEF RootOf
  <2>3. t.trees[RootOf(s, Docs(s, x), e)] = s.trees[RootOf(s, Docs(s, x), e)]
      BY <1>1, <1>3, DocsAre
  <2> QED BY <1>2, <2>1, <2>2, <2>3 DEF SameDoc, Doc, Items
<1>5. ASSUME NEW x \in Names(s, R) \ {h.id} PROVE SameDocs(s, t, x)
  <2>1. Docs(s, x) # p
      BY <1>3, SoundOwn DEF Own, Docs
  <2>2. Names(t, Docs(t, x)) = Names(s, Docs(s, x))
    <3>1. t.trees[Docs(s, x)] = s.trees[Docs(s, x)]
        BY <1>1, <2>1, DocsAre
    <3> QED BY <1>2, <3>1 DEF Names
  <2> QED BY <1>4, <2>1, <2>2 DEF SameDocs
<1>6. Names(t, Docs(t, h.id)) = Names(s, Docs(s, h.id)) \ {k}
    BY <1>1, <1>2, <1>3 DEF Names
<1> QED BY <1>2, <1>4, <1>5, <1>6
-----------------------------------------------------------------------------
(***************************************************************************)
(* The counts of documents                                                 *)
(***************************************************************************)
CountOk(s, c, d) == Doc(s, c, d).count = Cardinality(DOMAIN Items(s, c, d))

\* Counted, in the same terms.
LEMMA CountedIs ==
    ASSUME NEW s
    PROVE  Counted(s) <=>
               \A c \in Names(s, CollectionsRoot) : \A d \in Names(s, Docs(s, c)) : CountOk(s, c, d)
BY DEF Counted, CountOk, Doc, Docs, Items, DocumentsRoots

\* A document that stays as it is stays right.
LEMMA CountStays ==
    ASSUME NEW s, NEW t, NEW c, NEW d, SameDoc(s, t, c, d), CountOk(s, c, d)
    PROVE  CountOk(t, c, d)
BY DEF SameDoc, CountOk

\* A new document is right.
LEMMA CountOfEmpty ==
    ASSUME NEW t, NEW c, NEW d, DOMAIN Items(t, c, d) = {}, Doc(t, c, d).count = 0
    PROVE  CountOk(t, c, d)
BY FS_EmptySet DEF CountOk

\* OpenOrCreate of a collection, and of a document in one.
LEMMA EnteringCounted ==
    ASSUME NEW s, Sound(s), Counted(s), NEW p, NEW id,
           \/ p = CollectionsRoot /\ id \in Collection
           \/ p \in DocumentsRoots(s) /\ id \in DocumentName
    PROVE  Counted(OpenOrCreate(s, p, id).db)
<1> DEFINE t == NewContainer(s, p, id).db
<1>1. CASE Has(s, p, id)
    BY <1>1 DEF OpenOrCreate
<1>2. CASE ~Has(s, p, id)
  <2>1. OpenOrCreate(s, p, id).db = t
      BY <1>2 DEF OpenOrCreate
  <2>2. Formed(s) /\ p \in DOMAIN s.trees /\ id # NoName
      BY SoundTrees, ShellAssumption DEF Sound
  <2>3. Adds(s, t, p, id)
      BY <1>2, <2>2, NewContainerAdds
  <2> HIDE DEF t
  <2>4. \A c \in Names(s, CollectionsRoot) : \A d \in Names(s, Docs(s, c)) : CountOk(s, c, d)
      BY CountedIs
  <2>5. CASE p = CollectionsRoot
    <3>1. /\ Names(t, CollectionsRoot) = Names(s, CollectionsRoot) \cup {id}
          /\ Names(t, Docs(t, id)) = {}
          /\ \A x \in Names(s, CollectionsRoot) : SameDocs(s, t, x)
        BY <1>2, <2>3, <2>5, CollectionAdded
    <3>2. \A c \in Names(t, CollectionsRoot) : \A d \in Names(t, Docs(t, c)) : CountOk(t, c, d)
        BY <2>4, <3>1, CountStays DEF SameDocs
    <3> QED BY <2>1, <3>2, CountedIs
  <2>6. CASE p \in DocumentsRoots(s)
    <3>1. PICK c \in Names(s, CollectionsRoot) : p = Docs(s, c)
        BY <2>6 DEF DocumentsRoots, Docs
    <3>2. /\ Names(t, CollectionsRoot) = Names(s, CollectionsRoot)
          /\ \A x \in Names(s, CollectionsRoot) \ {c} : SameDocs(s, t, x)
          /\ Names(t, Docs(t, c)) = Names(s, Docs(s, c)) \cup {id}
          /\ \A e \in Names(s, Docs(s, c)) : SameDoc(s, t, c, e)
          /\ DOMAIN Items(t, c, id) = {} /\ Doc(t, c, id).count = 0
        BY <1>2, <2>3, <3>1, DocumentAdded
    <3>3. \A d \in Names(t, Docs(t, c)) : CountOk(t, c, d)
        BY <2>4, <3>2, CountStays, CountOfEmpty
    <3>4. \A x \in Names(s, CollectionsRoot) \ {c} : \A d \in Names(t, Docs(t, x)) : CountOk(t, x, d)
        BY <2>4, <3>2, CountStays DEF SameDocs
    <3> QED BY <2>1, <3>2, <3>3, <3>4, CountedIs
  <2> QED BY <2>5, <2>6
<1> QED BY <1>1, <1>2

\* A change in the document of the handle h, if h counts it.
LEMMA EditCounted ==
    ASSUME NEW s, Sound(s), Counted(s), NEW p \in DocumentsRoots(s),
           NEW h, h.id \in Names(s, p), HandleIn(s, p, h),
           NEW t, NEW g, Edits(s, t, p, h, g),
           h.count = Cardinality(DOMAIN s.trees[h.root]) =>
               g.count = Cardinality(DOMAIN t.trees[h.root])
    PROVE  Counted(t)
<1>1. PICK c \in Names(s, CollectionsRoot) : p = Docs(s, c)
    BY DEF DocumentsRoots, Docs
<1>2. \A x \in Names(s, CollectionsRoot) : \A d \in Names(s, Docs(s, x)) : CountOk(s, x, d)
    BY CountedIs
<1>3. /\ Names(t, CollectionsRoot) = Names(s, CollectionsRoot)
      /\ \A x \in Names(s, CollectionsRoot) \ {c} : SameDocs(s, t, x)
      /\ Names(t, Docs(t, c)) = Names(s, Docs(s, c))
      /\ \A e \in Names(s, Docs(s, c)) \ {h.id} : SameDoc(s, t, c, e)
      /\ Items(t, c, h.id) = t.trees[h.root] /\ Doc(t, c, h.id).count = g.count
      /\ Items(s, c, h.id) = s.trees[h.root] /\ Doc(s, c, h.id).count = h.count
    BY <1>1, DocumentEdited
<1>4. CountOk(t, c, h.id)
  <2>1. CountOk(s, c, h.id)
      BY <1>1, <1>2
  <2> QED BY <1>3, <2>1 DEF CountOk
<1>5. \A d \in Names(t, Docs(t, c)) : CountOk(t, c, d)
    BY <1>2, <1>3, <1>4, CountStays
<1>6. \A x \in Names(s, CollectionsRoot) \ {c} : \A d \in Names(t, Docs(t, x)) : CountOk(t, x, d)
    BY <1>2, <1>3, CountStays DEF SameDocs
<1> QED BY <1>3, <1>5, <1>6, CountedIs

\* A put counts a new item, a remove one that was there, and the count does not
\* wrap: there are fewer keys than it has values.
LEMMA ChangeCounted ==
    ASSUME NEW s, Sound(s), Counted(s), NEW p \in DocumentsRoots(s),
           NEW h, h.id \in Names(s, p), HandleIn(s, p, h), NEW k, NEW v
    PROVE  /\ k \in Key => Counted(PutItem(s, p, h, k, v).db)
           /\ Counted(RemoveItem(s, p, h, k).db)
<1> DEFINE T == DOMAIN s.trees[h.root]
           n == Cardinality(T)
<1>1. IsDatabase(s) /\ T \subseteq Key
  <2>1. RootOf(s, p, h.id) = h.root
      BY DEF HandleIn, RootOf
  <2> QED BY <2>1, SoundTrees DEF Sound, HoldsItems
<1>2. IsFiniteSet(T) /\ IsFiniteSet(T \cup {k}) /\ n \in Nat
    BY <1>1, KeyAssumption, FS_Subset, FS_AddElement, FS_CardinalityType
<1>3. ASSUME k \in Key PROVE Cardinality(T \cup {k}) < CountRange
  <2>1. T \cup {k} \subseteq Key
      BY <1>1, <1>3
  <2>2. /\ Cardinality(T \cup {k}) \in Nat /\ Cardinality(Key) \in Nat
        /\ Cardinality(T \cup {k}) <= Cardinality(Key)
    <3> HIDE DEF T
    <3> QED BY <1>2, <2>1, KeyAssumption, FS_Subset, FS_CardinalityType
  <2> HIDE DEF T
  <2> QED BY <2>2, KeyAssumption, CountAssumption
<1>4. h.count \in 0 .. CountRange - 1
    BY DEF HandleIn
<1> HIDE DEF T
<1>5. ASSUME h.count = n, k \in Key
      PROVE  Cardinality(T \cup {k}) = IF k \in T THEN h.count ELSE (h.count + 1) % CountRange
  <2>1. Cardinality(T \cup {k}) = IF k \in T THEN n ELSE n + 1
      BY <1>2, FS_AddElement
  <2> QED BY <1>2, <1>3, <1>4, <1>5, <2>1, CountInRange, CountAssumption
<1>6. ASSUME h.count = n
      PROVE  Cardinality(T \ {k}) = IF k \in T THEN (h.count + CountRange - 1) % CountRange ELSE h.count
  <2>1. Cardinality(T \ {k}) = IF k \in T THEN n - 1 ELSE n
      BY <1>2, FS_RemoveElement
  <2>2. Cardinality(T \ {k}) \in Nat
      BY <1>2, FS_RemoveElement, FS_CardinalityType
  <2> QED BY <1>2, <1>4, <1>6, <2>1, <2>2, CountInRange
<1>7. ASSUME k \in Key PROVE Counted(PutItem(s, p, h, k, v).db)
  <2> DEFINE r == PutItem(s, p, h, k, v)
  <2>1. /\ Edits(s, r.db, p, h, r.handle)
        /\ r.db.trees[h.root] = With(s.trees[h.root], k, v)
        /\ r.handle.count = IF Has(s, h.root, k) THEN h.count ELSE (h.count + 1) % CountRange
      BY <1>1, PutEntries
  <2> HIDE DEF r
  <2>2. DOMAIN r.db.trees[h.root] = T \cup {k}
      BY <2>1 DEF With, T
  <2>3. h.count = n => r.handle.count = Cardinality(DOMAIN r.db.trees[h.root])
      BY <1>5, <1>7, <2>1, <2>2 DEF Has, T
  <2>4. Counted(r.db)
      BY <2>1, <2>3, EditCounted DEF T
  <2> QED BY <2>4 DEF r
<1>8. Counted(RemoveItem(s, p, h, k).db)
  <2> DEFINE r == RemoveItem(s, p, h, k)
  <2>1. /\ Edits(s, r.db, p, h, r.handle)
        /\ Loses(s, r.db, h.root, k)
        /\ r.handle.count = IF Has(s, h.root, k) THEN (h.count + CountRange - 1) % CountRange
                            ELSE h.count
      BY <1>1, RemoveEntries
  <2> HIDE DEF r
  <2>2. h.count = n => r.handle.count = Cardinality(DOMAIN r.db.trees[h.root])
      BY <1>6, <2>1 DEF Has, T, Loses
  <2>3. Counted(r.db)
      BY <2>1, <2>2, EditCounted DEF T
  <2> QED BY <2>3 DEF r
<1> QED BY <1>7, <1>8

\* A document less leaves the others counted.
LEMMA DropCounted ==
    ASSUME NEW s, Sound(s), Counted(s), NEW h, h.id \in Names(s, CollectionsRoot),
           HandleIn(s, CollectionsRoot, h),
           NEW t, NEW g, Edits(s, t, CollectionsRoot, h, g),
           NEW k, Loses(s, t, h.root, k)
    PROVE  Counted(t)
<1>3. /\ Names(t, CollectionsRoot) = Names(s, CollectionsRoot)
      /\ \A x \in Names(s, CollectionsRoot) \ {h.id} : SameDocs(s, t, x)
      /\ Names(t, Docs(t, h.id)) = Names(s, Docs(s, h.id)) \ {k}
      /\ \A e \in Names(s, Docs(s, h.id)) \ {k} : SameDoc(s, t, h.id, e)
    BY DocumentDropped
<1>4. \A x \in Names(s, CollectionsRoot) : \A d \in Names(s, Docs(s, x)) : CountOk(s, x, d)
    BY CountedIs
<1>5. \A d \in Names(t, Docs(t, h.id)) : CountOk(t, h.id, d)
    BY <1>3, <1>4, CountStays
<1>6. \A x \in Names(s, CollectionsRoot) \ {h.id} : \A d \in Names(t, Docs(t, x)) : CountOk(t, x, d)
    BY <1>3, <1>4, CountStays DEF SameDocs
<1> QED BY <1>3, <1>5, <1>6, CountedIs
-----------------------------------------------------------------------------
(***************************************************************************)
(* The commands                                                            *)
(***************************************************************************)
\* The arguments of the next command.
LEMMA NextFits ==
    ASSUME Lines, NEW type, IsNext(type)
    PROVE  Fits(Head(commands)) /\ Head(commands).type = type
<1>1. commands \in Seq(Command) /\ commands # <<>>
    BY DEF Lines, Complete, IsNext
<1>2. 1 \in 1 .. Len(commands) /\ Head(commands) = commands[1]
    BY <1>1
<1> QED BY <1>2 DEF Lines, IsNext

\* The names on the path and the argument.
LEMMA TargetIs ==
    /\ InFile => Target = <<Argument(1)>>
    /\ InCollection => Target = <<path[2].ref.id, Argument(1)>>
    /\ InDocument => Target = <<path[2].ref.id, path[3].ref.id, Argument(1)>>
<1> DEFINE names == [i \in 1 .. Len(path) - 1 |-> path[i + 1].ref.id]
<1>1. Target = Append(names, Argument(1))
    BY DEF Target
<1> HIDE DEF Target
<1>2. ASSUME InFile PROVE Target = <<Argument(1)>>
  <2>1. Len(path) = 1
      BY <1>2, Entries
  <2>2. names = <<>>
      BY <2>1
  <2> HIDE DEF names
  <2> QED BY <1>1, <2>2, AppendToNone
<1>3. ASSUME InCollection PROVE Target = <<path[2].ref.id, Argument(1)>>
  <2>1. Len(path) = 2
      BY <1>3, Entries
  <2>2. names = <<path[2].ref.id>>
      BY <2>1
  <2> HIDE DEF names
  <2> QED BY <1>1, <2>2, AppendToOne
<1>4. ASSUME InDocument PROVE Target = <<path[2].ref.id, path[3].ref.id, Argument(1)>>
  <2>1. Len(path) = 3
      BY <1>4, Entries
  <2>2. names = <<path[2].ref.id, path[3].ref.id>>
      BY <2>1
  <2> HIDE DEF names
  <2> QED BY <1>1, <2>2, AppendToTwo
<1> QED BY <1>2, <1>3, <1>4

\* What the commands on the data do, and where.
LEMMA CollectionCommand ==
    ASSUME Position, Lines, ExecuteCollection
    PROVE  LET c == Argument(1)
               r == OpenOrCreate(db, CollectionsRoot, c)
           IN  /\ InFile /\ c \in Collection
               /\ db' = r.db /\ saved' = saved
               /\ path' = Append(path, [kind |-> "collection", ref |-> r.handle])
               /\ Reply("enter", <<c>>, {})
<1>1. InFile
    BY DEF ExecuteCollection, Position
<1>2. Argument(1) \in Collection
    BY NextFits DEF ExecuteCollection, Execute, Fits, Argument
<1> QED BY <1>1, <1>2, TargetIs DEF ExecuteCollection, Entered

\* document, in a collection.
LEMMA DocumentCommand ==
    ASSUME Position, Lines, ExecuteDocument
    PROVE  LET d == Argument(1)
               a == path[2].ref
               r == OpenOrCreate(db, a.root, d)
           IN  /\ InCollection /\ d \in DocumentName
               /\ db' = r.db /\ saved' = saved
               /\ path' = Append(path, [kind |-> "document", ref |-> r.handle])
               /\ Reply("enter", <<a.id, d>>, {})
<1>1. Top.kind = "collection"
    BY DEF ExecuteDocument, Execute, IsNext, Levels
<1>2. InCollection
    BY <1>1, Entries DEF Position, Top, Last
<1>3. Top.ref = path[2].ref
    BY <1>2, Entries DEF Top, Last
<1>4. Argument(1) \in DocumentName
    BY NextFits DEF ExecuteDocument, Execute, Fits, Argument
<1> QED BY <1>2, <1>3, <1>4, TargetIs DEF ExecuteDocument, Entered

\* The top of the path in a document.
LEMMA InDocumentTop ==
    ASSUME InDocument
    PROVE  Top.ref = path[3].ref /\ ParentRoot(Len(path)) = path[2].ref.root
<1>1. Len(path) = 3 /\ path[3].kind = "document" /\ 3 - 1 = 2
    BY Entries
<1> QED BY <1>1 DEF Top, Last, ParentRoot

\* get, in a document.
LEMMA GetCommand ==
    ASSUME Position, Lines, ExecuteGet
    PROVE  LET k == Argument(1)
               tree == db.trees[path[3].ref.root]
           IN  /\ InDocument /\ k \in Key
               /\ UNCHANGED <<session, db, saved>>
               /\ Reply("get", <<path[2].ref.id, path[3].ref.id, k>>,
                        {tree[j] : j \in DOMAIN tree \cap {k}})
<1>1. Top.kind = "document"
    BY DEF ExecuteGet, Execute, IsNext, Levels
<1>2. InDocument
    BY <1>1, Entries DEF Position, Top, Last
<1>3. Argument(1) \in Key
    BY NextFits DEF ExecuteGet, Execute, Fits, Argument
<1> QED BY <1>2, <1>3, InDocumentTop, TargetIs DEF ExecuteGet

\* put, in a document.
LEMMA PutCommand ==
    ASSUME Position, Lines, ExecutePut
    PROVE  LET k == Argument(1)
               r == PutItem(db, path[2].ref.root, path[3].ref, k, Argument(2))
           IN  /\ InDocument /\ k \in Key /\ Argument(2) \in Value
               /\ db' = r.db /\ saved' = saved
               /\ path' = [path EXCEPT ![Len(path)].ref = r.handle]
               /\ Reply("put", <<path[2].ref.id, path[3].ref.id, k>>, {})
<1>1. Top.kind = "document"
    BY DEF ExecutePut, Execute, IsNext, Levels
<1>2. InDocument
    BY <1>1, Entries DEF Position, Top, Last
<1>3. Argument(1) \in Key /\ Argument(2) \in Value
    BY NextFits DEF ExecutePut, Execute, Fits, Argument
<1> QED BY <1>2, <1>3, InDocumentTop, TargetIs DEF ExecutePut, Changed

\* delete, in a document or in a collection.
LEMMA DeleteCommand ==
    ASSUME Position, Lines, ExecuteDelete
    PROVE  LET k == Argument(1)
               parent == IF InDocument THEN path[2].ref.root ELSE CollectionsRoot
               handle == IF InDocument THEN path[3].ref ELSE path[2].ref
               names == IF InDocument THEN <<path[2].ref.id, path[3].ref.id, k>>
                        ELSE <<path[2].ref.id, k>>
               r == RemoveItem(db, parent, handle, k)
           IN  /\ InDocument \/ InCollection
               /\ k \in DocumentName \cup Key
               /\ db' = r.db /\ saved' = saved
               /\ path' = [path EXCEPT ![Len(path)].ref = r.handle]
               /\ Reply("delete", names, {})
<1>1. Top.kind \in {"collection", "document"}
    BY DEF ExecuteDelete, Execute, IsNext, Levels
<1>2. InDocument \/ InCollection
    BY <1>1, Entries DEF Position, Top, Last
<1>3. InCollection => ~InDocument /\ Top.ref = path[2].ref /\ ParentRoot(Len(path)) = CollectionsRoot
  <2>1. InCollection => ~InDocument
      BY Entries
  <2> QED BY <2>1, Entries DEF Top, Last, ParentRoot
<1>4. Argument(1) \in DocumentName \cup Key
    BY NextFits DEF ExecuteDelete, Execute, Fits, Argument
<1>5. CASE InDocument
    BY <1>4, <1>5, InDocumentTop, TargetIs DEF ExecuteDelete, Changed
<1>6. CASE InCollection
    BY <1>3, <1>4, <1>6, TargetIs DEF ExecuteDelete, Changed
<1> QED BY <1>2, <1>5, <1>6
-----------------------------------------------------------------------------
(***************************************************************************)
(* Sessions                                                                *)
(***************************************************************************)
\* A handle that agrees with its record.
LEMMA OpenedIsHandle ==
    ASSUME NEW s, Sound(s), NEW p \in {CollectionsRoot} \cup DocumentsRoots(s),
           NEW h, h.id \in Names(s, p), h = Opened(s, p, h.id)
    PROVE  /\ HandleIn(s, p, h) /\ h.root = RootOf(s, p, h.id)
           /\ p = CollectionsRoot => h.root \in DocumentsRoots(s)
<1>1. s.trees[p][h.id] \in RecordIn(s)
    BY DEF Sound, HoldsCollections, HoldsDocuments
<1>2. h.root = RootOf(s, p, h.id) /\ h.count = s.trees[p][h.id].count
    BY DEF Opened, RootOf
<1>3. s.trees[p][h.id] = [root |-> h.root, count |-> h.count] /\ h.count \in 0 .. CountRange - 1
    BY <1>1, <1>2 DEF RecordIn, RootOf
<1>4. p = CollectionsRoot => h.root \in DocumentsRoots(s)
    BY <1>2 DEF DocumentsRoots
<1>5. p # h.root
  <2>1. h.root \in Pages(s)
      BY <1>1, <1>2 DEF RecordIn, RootOf
  <2>2. CASE p = CollectionsRoot
      BY <2>1, <2>2, SoundTrees
  <2>3. CASE p \in DocumentsRoots(s)
      BY <1>2, <2>3, SoundOwn DEF Own
  <2> QED BY <2>2, <2>3
<1>6. h = [id |-> h.id, root |-> h.root, count |-> h.count]
    BY DEF Opened
<1>7. p \in DOMAIN s.trees /\ h.root \in DOMAIN s.trees
    BY <1>1, <1>2, SoundTrees DEF RecordIn, RootOf
<1>8. Has(s, p, h.id)
    BY DEF Has, Names
<1> QED BY <1>2, <1>3, <1>4, <1>5, <1>6, <1>7, <1>8 DEF HandleIn

\* ... is the one Container::deserialize would make.
LEMMA HandleIsOpened ==
    ASSUME NEW s, NEW p, NEW h, HandleIn(s, p, h)
    PROVE  h = Opened(s, p, h.id)
<1>1. s.trees[p][h.id].root = h.root /\ s.trees[p][h.id].count = h.count
    BY DEF HandleIn
<1> QED BY <1>1 DEF HandleIn, Opened

\* The handles on the path, in this light.
LEMMA PathHandles ==
    ASSUME Position, DatabaseInv
    PROVE  /\ ~InFile =>
               /\ path[2].ref.id \in Names(db, CollectionsRoot)
               /\ path[2].ref.root \in DocumentsRoots(db)
               /\ path[2].ref.root = RootOf(db, CollectionsRoot, path[2].ref.id)
               /\ HandleIn(db, CollectionsRoot, path[2].ref)
           /\ InDocument =>
               /\ path[3].ref.id \in Names(db, path[2].ref.root)
               /\ HandleIn(db, path[2].ref.root, path[3].ref)
<1>1. Sound(db) /\ Handles
    BY DEF DatabaseInv
<1>2. ASSUME ~InFile
      PROVE  /\ path[2].ref.id \in Names(db, CollectionsRoot)
             /\ path[2].ref.root \in DocumentsRoots(db)
             /\ path[2].ref.root = RootOf(db, CollectionsRoot, path[2].ref.id)
             /\ HandleIn(db, CollectionsRoot, path[2].ref)
  <2>1. Len(path) > 1
      BY <1>2, Entries DEF Position
  <2>2. /\ path[2].ref.id \in Names(db, CollectionsRoot)
        /\ path[2].ref = Opened(db, CollectionsRoot, path[2].ref.id)
      BY <1>1, <2>1 DEF Handles
  <2> QED BY <1>1, <2>2, OpenedIsHandle
<1>3. ASSUME InDocument
      PROVE  /\ path[3].ref.id \in Names(db, path[2].ref.root)
             /\ HandleIn(db, path[2].ref.root, path[3].ref)
  <2>1. Len(path) = 3 /\ ~InFile
      BY <1>3, Entries
  <2>2. /\ path[3].ref.id \in Names(db, path[2].ref.root)
        /\ path[3].ref = Opened(db, path[2].ref.root, path[3].ref.id)
      BY <1>1, <2>1 DEF Handles
  <2>3. path[2].ref.root \in DocumentsRoots(db)
      BY <1>2, <2>1
  <2> QED BY <1>1, <2>2, <2>3, OpenedIsHandle
<1> QED BY <1>2, <1>3

\* OpenOrCreate of a collection, and of a document in one.
LEMMA Entering ==
    ASSUME NEW s, Sound(s), NEW p, NEW id,
           \/ p = CollectionsRoot /\ id \in Collection
           \/ p \in DocumentsRoots(s) /\ id \in DocumentName,
           NEW r, r = OpenOrCreate(s, p, id)
    PROVE  /\ Sound(r.db)
           /\ r.handle.id = id /\ id \in Names(r.db, p)
           /\ r.handle = Opened(r.db, p, id)
           /\ Names(s, CollectionsRoot) \subseteq Names(r.db, CollectionsRoot)
           /\ \A c \in Names(s, CollectionsRoot) :
                  Opened(r.db, CollectionsRoot, c) = Opened(s, CollectionsRoot, c)
<1>1. id # NoName
    BY ShellAssumption
<1>2. CASE Has(s, p, id)
  <2>1. r = [db |-> s, handle |-> Opened(s, p, id)]
      BY <1>2 DEF OpenOrCreate
  <2> QED BY <1>1, <1>2, <2>1 DEF Has, Names, Opened
<1>3. CASE ~Has(s, p, id)
  <2> DEFINE new == s.fl.maxPage + 1
  <2>1. r = NewContainer(s, p, id)
      BY <1>3 DEF OpenOrCreate
  <2>2. Formed(s) /\ p \in DOMAIN s.trees /\ CollectionsRoot \in DOMAIN s.trees
      BY SoundTrees DEF Sound
  <2>3. Adds(s, r.db, p, id) /\ r.handle = [id |-> id, root |-> new, count |-> 0]
      BY <1>1, <1>3, <2>1, <2>2, NewContainerAdds
  <2>4. Sound(r.db)
      BY <1>3, <2>1, CreateCollection, CreateDocument
  <2> HIDE DEF new
  <2>5. r.db.trees[p][id] = [root |-> new, count |-> 0] /\ Names(r.db, p) = Names(s, p) \cup {id}
      BY <2>3 DEF Adds, new
  <2>6. r.handle = Opened(r.db, p, id)
      BY <2>3, <2>5 DEF Opened
  <2>7. /\ Names(s, CollectionsRoot) \subseteq Names(r.db, CollectionsRoot)
        /\ \A c \in Names(s, CollectionsRoot) :
               r.db.trees[CollectionsRoot][c] = s.trees[CollectionsRoot][c]
    <3>1. CASE p = CollectionsRoot
        BY <2>3, <3>1 DEF Adds
    <3>2. CASE p # CollectionsRoot
      <4>1. r.db.trees[CollectionsRoot] = s.trees[CollectionsRoot]
          BY <2>2, <2>3, <3>2 DEF Adds
      <4> QED BY <4>1 DEF Names
    <3> QED BY <3>1, <3>2
  <2> QED BY <2>3, <2>4, <2>5, <2>6, <2>7 DEF Opened
<1> QED BY <1>2, <1>3

\* After a step to one of the three places, the handles are those of the path
\* there.
LEMMA HandlesAt ==
    ASSUME NEW a, NEW b
    PROVE  /\ path' = <<File[1]>> => Handles'
           /\ (/\ path' = <<File[1], [kind |-> "collection", ref |-> a]>>
               /\ a.id \in Names(db', CollectionsRoot)
               /\ a = Opened(db', CollectionsRoot, a.id)) => Handles'
           /\ (/\ path' = <<File[1], [kind |-> "collection", ref |-> a],
                            [kind |-> "document", ref |-> b]>>
               /\ a.id \in Names(db', CollectionsRoot)
               /\ a = Opened(db', CollectionsRoot, a.id)
               /\ b.id \in Names(db', a.root)
               /\ b = Opened(db', a.root, b.id)) => Handles'
<1>1. ASSUME path' = <<File[1]>> PROVE Handles'
  <2>1. Len(path') = 1
      BY <1>1
  <2> QED BY <2>1 DEF Handles
<1>2. ASSUME path' = <<File[1], [kind |-> "collection", ref |-> a]>>,
             a.id \in Names(db', CollectionsRoot),
             a = Opened(db', CollectionsRoot, a.id)
      PROVE  Handles'
  <2>1. Len(path') = 2 /\ path'[2].ref = a
      BY <1>2
  <2> QED BY <1>2, <2>1 DEF Handles
<1>3. ASSUME path' = <<File[1], [kind |-> "collection", ref |-> a],
                       [kind |-> "document", ref |-> b]>>,
             a.id \in Names(db', CollectionsRoot),
             a = Opened(db', CollectionsRoot, a.id),
             b.id \in Names(db', a.root),
             b = Opened(db', a.root, b.id)
      PROVE  Handles'
  <2>1. path'[2].ref = a /\ path'[3].ref = b
      BY <1>3
  <2> QED BY <1>3, <2>1 DEF Handles
<1> QED BY <1>1, <1>2, <1>3

\* Entering keeps the database sound and the handles right.
LEMMA EnterData ==
    ASSUME Position, Lines, DatabaseInv, ExecuteCollection \/ ExecuteDocument
    PROVE  DatabaseInv'
<1>1. CASE ExecuteCollection
  <2> DEFINE c == Argument(1)
             r == OpenOrCreate(db, CollectionsRoot, c)
  <2>1. /\ db' = r.db /\ saved' = saved
        /\ path' = Append(path, [kind |-> "collection", ref |-> r.handle])
        /\ InFile /\ c \in Collection
      BY <1>1, CollectionCommand
  <2>2. c \in Collection
      BY <2>1
  <2>3. path = <<File[1]>>
      BY <2>1, Entries DEF InFile
  <2> HIDE DEF c, r
  <2>4. path' = <<File[1], [kind |-> "collection", ref |-> r.handle]>>
      BY <2>1, <2>3, AppendToOne
  <2>5. /\ Sound(r.db) /\ r.handle.id = c /\ c \in Names(r.db, CollectionsRoot)
        /\ r.handle = Opened(r.db, CollectionsRoot, c)
      BY <2>2, Entering DEF DatabaseInv, r
  <2>6. Handles'
      BY <2>1, <2>4, <2>5, HandlesAt
  <2> QED BY <2>1, <2>5, <2>6 DEF DatabaseInv
<1>2. CASE ExecuteDocument
  <2> DEFINE d == Argument(1)
             a == path[2].ref
             r == OpenOrCreate(db, a.root, d)
  <2>1. /\ InCollection /\ d \in DocumentName
        /\ db' = r.db /\ saved' = saved
        /\ path' = Append(path, [kind |-> "document", ref |-> r.handle])
      BY <1>2, DocumentCommand
  <2>2. InCollection /\ ~InFile
      BY <2>1, Entries
  <2>6. a.root \in DocumentsRoots(db) /\ a.id \in Names(db, CollectionsRoot)
        /\ HandleIn(db, CollectionsRoot, a)
      BY <2>2, PathHandles
  <2> HIDE DEF d, r
  <2>7. path' = <<File[1], [kind |-> "collection", ref |-> a],
                  [kind |-> "document", ref |-> r.handle]>>
    <3> HIDE DEF File
    <3> QED BY <2>2, <2>1, AppendToTwo DEF InCollection
  <2> HIDE DEF a
  <2>8. /\ Sound(r.db) /\ r.handle.id = d /\ d \in Names(r.db, a.root)
        /\ r.handle = Opened(r.db, a.root, d)
        /\ a.id \in Names(r.db, CollectionsRoot)
        /\ Opened(r.db, CollectionsRoot, a.id) = Opened(db, CollectionsRoot, a.id)
      BY <2>1, <2>6, Entering DEF DatabaseInv, r
  <2>9. a = Opened(db, CollectionsRoot, a.id)
      BY <2>6, HandleIsOpened
  <2>10. Handles'
      BY <2>1, <2>7, <2>8, <2>9, HandlesAt
  <2> QED BY <2>1, <2>8, <2>10 DEF DatabaseInv
<1> QED BY <1>1, <1>2

\* A change in a document keeps the database sound and the collection's handle
\* right.
LEMMA DocumentChange ==
    ASSUME NEW s, Sound(s), NEW a, a.id \in Names(s, CollectionsRoot),
           HandleIn(s, CollectionsRoot, a), a.root \in DocumentsRoots(s),
           NEW h, h.id \in Names(s, a.root), HandleIn(s, a.root, h),
           NEW t, NEW g, Edits(s, t, a.root, h, g), HoldsItems(t, h.root)
    PROVE  /\ Sound(t)
           /\ a.id \in Names(t, CollectionsRoot) /\ a = Opened(t, CollectionsRoot, a.id)
           /\ g.id \in Names(t, a.root) /\ g = Opened(t, a.root, g.id)
<1>1. Sound(t)
    BY EditDocument
<1>2. t.trees[CollectionsRoot] = s.trees[CollectionsRoot]
  <2>1. RootOf(s, a.root, h.id) = h.root
      BY DEF HandleIn, RootOf
  <2>2. /\ CollectionsRoot \in DOMAIN s.trees /\ CollectionsRoot # a.root
        /\ CollectionsRoot # h.root
      BY <2>1, SoundTrees
  <2> QED BY <2>2 DEF Edits
<1>3. a.id \in Names(t, CollectionsRoot) /\ a = Opened(t, CollectionsRoot, a.id)
  <2>1. a = Opened(s, CollectionsRoot, a.id)
      BY HandleIsOpened
  <2>2. Opened(t, CollectionsRoot, a.id) = Opened(s, CollectionsRoot, a.id)
      BY <1>2 DEF Opened
  <2>3. a.id \in Names(t, CollectionsRoot)
      BY <1>2 DEF Names
  <2> QED BY <2>1, <2>2, <2>3
<1>4. g.id \in Names(t, a.root) /\ g = Opened(t, a.root, g.id)
    BY HandleIsOpened DEF Edits, Names
<1> QED BY <1>1, <1>3, <1>4

\* So do put and delete.
LEMMA ChangeData ==
    ASSUME Position, Lines, DatabaseInv, ExecutePut \/ ExecuteDelete
    PROVE  DatabaseInv'
<1> DEFINE k == Argument(1)
           a == path[2].ref
           h == path[3].ref
<1>1. Sound(db) /\ Sound(saved)
    BY DEF DatabaseInv
<1>2. ASSUME InDocument,
             NEW t, NEW g, Edits(db, t, a.root, h, g), HoldsItems(t, h.root),
             db' = t, saved' = saved, path' = [path EXCEPT ![Len(path)].ref = g]
      PROVE  DatabaseInv'
  <2>1. /\ a.id \in Names(db, CollectionsRoot) /\ HandleIn(db, CollectionsRoot, a)
        /\ a.root \in DocumentsRoots(db)
        /\ h.id \in Names(db, a.root) /\ HandleIn(db, a.root, h)
      BY <1>2, Entries, PathHandles
  <2>2. path' = <<File[1], [kind |-> "collection", ref |-> a], [kind |-> "document", ref |-> g]>>
    <3>1. path' = [path EXCEPT ![3].ref = g]
        BY <1>2, Entries
    <3> QED BY <1>2, <3>1 DEF InDocument
  <2> HIDE DEF a, h
  <2>3. /\ Sound(t)
        /\ a.id \in Names(t, CollectionsRoot) /\ a = Opened(t, CollectionsRoot, a.id)
        /\ g.id \in Names(t, a.root) /\ g = Opened(t, a.root, g.id)
      BY <1>1, <1>2, <2>1, DocumentChange
  <2>4. Handles'
      BY <1>2, <2>2, <2>3, HandlesAt
  <2> QED BY <1>1, <1>2, <2>3, <2>4 DEF DatabaseInv
<1>3. CASE ExecutePut
  <2> DEFINE r == PutItem(db, a.root, h, k, Argument(2))
  <2>2. /\ InDocument /\ k \in Key /\ Argument(2) \in Value
        /\ db' = r.db /\ saved' = saved /\ path' = [path EXCEPT ![Len(path)].ref = r.handle]
      BY <1>3, PutCommand
  <2>6. /\ a.root \in DocumentsRoots(db) /\ h.id \in Names(db, a.root)
        /\ HandleIn(db, a.root, h)
      BY <2>2, Entries, PathHandles
  <2>7. IsDatabase(db) /\ HoldsItems(db, h.root)
    <3>1. RootOf(db, a.root, h.id) = h.root
        BY <2>6 DEF HandleIn, RootOf
    <3> QED BY <1>1, <2>6, <3>1, SoundTrees DEF Sound
  <2> HIDE DEF a, h, k
  <2>8. /\ Edits(db, r.db, a.root, h, r.handle)
        /\ r.db.trees[h.root] = With(db.trees[h.root], k, Argument(2))
      BY <2>6, <2>7, PutEntries
  <2> HIDE DEF r
  <2>9. HoldsItems(r.db, h.root)
      BY <2>2, <2>7, <2>8 DEF HoldsItems, With
  <2> QED BY <1>2, <2>2, <2>8, <2>9
<1>4. CASE ExecuteDelete /\ InDocument
  <2> DEFINE r == RemoveItem(db, a.root, h, k)
  <2>2. db' = r.db /\ saved' = saved /\ path' = [path EXCEPT ![Len(path)].ref = r.handle]
      BY <1>4, DeleteCommand
  <2>3. /\ a.root \in DocumentsRoots(db) /\ h.id \in Names(db, a.root)
        /\ HandleIn(db, a.root, h)
      BY <1>4, Entries, PathHandles
  <2>4. IsDatabase(db) /\ HoldsItems(db, h.root)
    <3>1. RootOf(db, a.root, h.id) = h.root
        BY <2>3 DEF HandleIn, RootOf
    <3> QED BY <1>1, <2>3, <3>1, SoundTrees DEF Sound
  <2> HIDE DEF a, h, k
  <2>5. /\ Edits(db, r.db, a.root, h, r.handle)
        /\ Loses(db, r.db, h.root, k)
      BY <2>3, <2>4, RemoveEntries
  <2> HIDE DEF r
  <2>6. HoldsItems(r.db, h.root)
      BY <2>4, <2>5 DEF HoldsItems, Loses
  <2> QED BY <1>2, <1>4, <2>2, <2>5, <2>6
<1>5. CASE ExecuteDelete /\ InCollection
  <2> DEFINE r == RemoveItem(db, CollectionsRoot, a, k)
  <2>1. ~InDocument
      BY <1>5, Entries
  <2>2. db' = r.db /\ saved' = saved /\ path' = [path EXCEPT ![Len(path)].ref = r.handle]
      BY <1>5, <2>1, DeleteCommand
  <2>3. path' = <<File[1], [kind |-> "collection", ref |-> r.handle]>>
    <3> HIDE DEF r
    <3>1. path' = [path EXCEPT ![2].ref = r.handle]
        BY <1>5, <2>2, Entries
    <3> QED BY <1>5, <3>1 DEF InCollection
  <2>4. a.id \in Names(db, CollectionsRoot) /\ HandleIn(db, CollectionsRoot, a)
      BY <1>5, Entries, PathHandles
  <2> HIDE DEF a, h, k
  <2>5. /\ Edits(db, r.db, CollectionsRoot, a, r.handle)
        /\ Loses(db, r.db, a.root, k)
      BY <1>1, <2>4, SoundTrees, RemoveEntries
  <2> HIDE DEF r
  <2>6. Sound(r.db)
      BY <1>1, <2>4, <2>5, DropDocument
  <2>7. /\ r.handle.id \in Names(r.db, CollectionsRoot)
        /\ r.handle = Opened(r.db, CollectionsRoot, r.handle.id)
      BY <2>4, <2>5, HandleIsOpened DEF Edits, Names
  <2>8. Handles'
      BY <2>2, <2>3, <2>7, HandlesAt
  <2> QED BY <1>1, <2>2, <2>6, <2>8 DEF DatabaseInv
<1>6. ExecuteDelete => InDocument \/ InCollection
    BY DeleteCommand
<1> QED BY <1>3, <1>4, <1>5, <1>6

\* Leaving entries: those that stay have the handles they had.
LEMMA LeaveData ==
    ASSUME Position, DatabaseInv, NEW n \in Nat \ {0}, NavigateUp(n)
    PROVE  DatabaseInv'
<1> DEFINE kept == IF Len(path) > n THEN Len(path) - n ELSE 1
<1>1. /\ path' = SubSeq(path, 1, kept) /\ db' = db /\ saved' \in {db, saved}
      /\ Sound(db) /\ Sound(saved)
    BY DEF NavigateUp, DatabaseInv
<1>2. CASE kept = 1
  <2>1. path[1] = File[1]
      BY Entries DEF Position
  <2>2. path' = <<File[1]>>
      BY <1>1, <1>2, <2>1, FirstOf
  <2>3. Handles'
      BY <2>2, HandlesAt
  <2> QED BY <1>1, <2>3 DEF DatabaseInv
<1>3. CASE kept # 1
  <2>1. InDocument /\ kept = 2
    <3>1. Len(path) = 1 => kept = 1
        OBVIOUS
    <3>2. Len(path) = 2 => kept = 1
        BY n \in Nat \ {0}
    <3> HIDE DEF kept
    <3>3. InDocument /\ Len(path) = 3
        BY <1>3, <3>1, <3>2, Entries DEF Position
    <3>4. kept = 2
        BY <1>3, <3>3 DEF kept
    <3> QED BY <3>3, <3>4
  <2>2. /\ path[1] = File[1]
        /\ path[2] = [kind |-> "collection", ref |-> path[2].ref]
      BY <2>1, Entries DEF InDocument
  <2>3. path' = <<File[1], [kind |-> "collection", ref |-> path[2].ref]>>
      BY <1>1, <2>1, <2>2, FirstTwoOf
  <2>4. /\ path[2].ref.id \in Names(db, CollectionsRoot)
        /\ path[2].ref = Opened(db, CollectionsRoot, path[2].ref.id)
    <3>1. Len(path) > 1
        BY <2>1, Entries
    <3> QED BY <3>1 DEF DatabaseInv, Handles
  <2>5. Handles'
      BY <1>1, <2>3, <2>4, HandlesAt
  <2> QED BY <1>1, <2>5 DEF DatabaseInv
<1> QED BY <1>2, <1>3

\* The new file is sound, and no entry is open.
LEMMA DataInit == Init => DatabaseInv
<1> SUFFICES ASSUME Init PROVE DatabaseInv
    OBVIOUS
<1>1. db = EmptyDatabase /\ saved = EmptyDatabase /\ Len(path) = 1
    BY DEF Init, File
<1> QED BY <1>1, EmptySound DEF DatabaseInv, Handles

\* Every step keeps both databases sound and the handles right.
LEMMA DataStep == Position /\ Lines /\ DatabaseInv /\ [Next]_vars => DatabaseInv'
<1> SUFFICES ASSUME Position, Lines, DatabaseInv, [Next]_vars PROVE DatabaseInv'
    OBVIOUS
<1>1. ASSUME UNCHANGED <<path, db, saved>> PROVE DatabaseInv'
    BY <1>1 DEF DatabaseInv, Handles
<1>2. Len(path) \in Nat \ {0}
    BY Entries DEF Position
<1>3. CASE ReadLine \/ Refuse \/ ExecuteGet \/ ExecuteHelp \/ ExecuteClose \/ Start
    BY <1>1, <1>3 DEF ReadLine, Refuse, ExecuteGet, ExecuteHelp, ExecuteClose, Start, session
<1>4. CASE ExecuteNavigateUp \/ ExecuteNavigateToTop \/ Exit
    BY <1>2, <1>4, LeaveData DEF ExecuteNavigateUp, ExecuteNavigateToTop, Exit
<1>5. CASE Crash \/ Throw
  <2>1. db' = saved /\ saved' = saved /\ path' = <<File[1]>>
      BY <1>5, Entries DEF Crash, Throw, Die
  <2>2. Handles'
      BY <2>1, HandlesAt
  <2> QED BY <2>1, <2>2 DEF DatabaseInv
<1>6. CASE UNCHANGED vars
    BY <1>1, <1>6 DEF vars, session
<1> QED BY <1>3, <1>4, <1>5, <1>6, EnterData, ChangeData DEF Next

\* The three invariants hold together throughout.
LEMMA DataCorrect == Spec => [](Position /\ Lines /\ DatabaseInv)
<1>1. Position /\ Lines /\ DatabaseInv /\ [Next]_vars => DatabaseInv'
    BY DataStep
<1> QED BY <1>1, DataInit, PositionCorrect, LinesCorrect, PTL DEF Spec

\* For any lines, names and bounds: no two collections or documents have the
\* same root page, in the session and in the file.
THEOREM ContainersHaveOwnTrees == Spec => []OwnTrees
<1>1. DatabaseInv => OwnTrees
    BY DEF DatabaseInv, OwnTrees, Sound
<1> QED BY <1>1, DataCorrect, PTL

\* For any lines, names and bounds: the open handles agree with their records.
THEOREM OpenHandlesAreCurrent == Spec => []HandlesCurrent
<1>1. Position /\ DatabaseInv => HandlesCurrent
  <2> SUFFICES ASSUME Position, DatabaseInv, NEW i \in 2 .. Len(path)
               PROVE  /\ Has(db, ParentRoot(i), path[i].ref.id)
                      /\ Opened(db, ParentRoot(i), path[i].ref.id) = path[i].ref
      BY DEF HandlesCurrent
  <2>1. Len(path) \in 1 .. 3 /\ (Len(path) > 1 => path[2].kind = "collection")
        /\ (Len(path) > 2 => path[3].kind = "document")
      BY Entries DEF Position
  <2>2. CASE i = 2
    <3>1. Len(path) > 1 /\ ParentRoot(2) = CollectionsRoot
        BY <2>1, <2>2 DEF ParentRoot
    <3> QED BY <2>2, <3>1 DEF DatabaseInv, Handles, Names, Has
  <2>3. CASE i = 3
    <3>1. Len(path) > 2 /\ 3 - 1 = 2
        BY <2>1, <2>3
    <3>2. ParentRoot(3) = path[2].ref.root
        BY <2>1, <3>1 DEF ParentRoot
    <3> QED BY <2>3, <3>1, <3>2 DEF DatabaseInv, Handles, Names, Has
  <2> QED BY <2>1, <2>2, <2>3
<1> QED BY <1>1, DataCorrect, PTL

\* Every command keeps the counts of documents right.
LEMMA CountedStep ==
    Position /\ Lines /\ DatabaseInv /\ DocumentsCounted /\ [Next]_vars => DocumentsCounted'
<1> SUFFICES ASSUME Position, Lines, DatabaseInv, DocumentsCounted, [Next]_vars
             PROVE  DocumentsCounted'
    OBVIOUS
<1>1. Sound(db) /\ Counted(db) /\ Counted(saved)
    BY DEF DatabaseInv, DocumentsCounted
<1>2. ASSUME Counted(db'), Counted(saved') PROVE DocumentsCounted'
    BY <1>2 DEF DocumentsCounted
<1>3. CASE ReadLine \/ Refuse \/ ExecuteGet \/ ExecuteHelp \/ ExecuteClose \/ Start
  <2>1. db' = db /\ saved' = saved
      BY <1>3 DEF ReadLine, Refuse, ExecuteGet, ExecuteHelp, ExecuteClose, Start
  <2> QED BY <1>1, <1>2, <2>1
<1>4. CASE ExecuteNavigateUp \/ ExecuteNavigateToTop \/ Exit
  <2>1. db' = db /\ saved' \in {db, saved}
      BY <1>4 DEF ExecuteNavigateUp, ExecuteNavigateToTop, Exit, NavigateUp
  <2> QED BY <1>1, <1>2, <2>1
<1>5. CASE Crash \/ Throw
  <2>1. db' = saved /\ saved' = saved
      BY <1>5 DEF Crash, Throw, Die
  <2> QED BY <1>1, <1>2, <2>1
<1>6. CASE ExecuteCollection
  <2>1. /\ Argument(1) \in Collection /\ saved' = saved
        /\ db' = OpenOrCreate(db, CollectionsRoot, Argument(1)).db
      BY <1>6, CollectionCommand
  <2>2. Counted(OpenOrCreate(db, CollectionsRoot, Argument(1)).db)
      BY <1>1, <2>1, EnteringCounted
  <2> QED BY <1>1, <1>2, <2>1, <2>2
<1>7. CASE ExecuteDocument
  <2>1. InCollection /\ ~InFile
      BY <1>7, DocumentCommand, Entries
  <2> QED BY <1>1, <1>2, <1>7, <2>1, DocumentCommand, PathHandles, EnteringCounted
<1>8. CASE ExecutePut \/ (ExecuteDelete /\ InDocument)
  <2>1. InDocument /\ ~InFile
      BY <1>8, PutCommand, Entries
  <2>2. /\ path[2].ref.root \in DocumentsRoots(db)
        /\ path[3].ref.id \in Names(db, path[2].ref.root)
        /\ HandleIn(db, path[2].ref.root, path[3].ref)
      BY <2>1, PathHandles
  <2>3. CASE ExecutePut
      BY <1>1, <1>2, <2>2, <2>3, PutCommand, ChangeCounted
  <2>4. CASE ExecuteDelete
    <3> DEFINE t == RemoveItem(db, path[2].ref.root, path[3].ref, Argument(1)).db
    <3>1. db' = t /\ saved' = saved
        BY <2>1, <2>4, DeleteCommand
    <3>2. Counted(t)
        BY <1>1, <2>2, ChangeCounted
    <3> QED BY <1>1, <1>2, <3>1, <3>2
  <2> QED BY <1>8, <2>3, <2>4
<1>9. CASE ExecuteDelete /\ ~InDocument
  <2> DEFINE a == path[2].ref
             k == Argument(1)
             r == RemoveItem(db, CollectionsRoot, a, k)
  <2>1. db' = r.db /\ saved' = saved /\ ~InFile
      BY <1>9, DeleteCommand, Entries
  <2>2. a.id \in Names(db, CollectionsRoot) /\ HandleIn(db, CollectionsRoot, a)
      BY <2>1, PathHandles
  <2>3. IsDatabase(db)
      BY <1>1, SoundTrees
  <2> HIDE DEF a, k
  <2>4. /\ Edits(db, r.db, CollectionsRoot, a, r.handle)
        /\ Loses(db, r.db, a.root, k)
      BY <2>2, <2>3, RemoveEntries
  <2> HIDE DEF r
  <2>5. Counted(r.db)
      BY <1>1, <2>2, <2>4, DropCounted
  <2> QED BY <1>1, <1>2, <2>1, <2>5
<1>10. CASE UNCHANGED vars
    BY <1>1, <1>2, <1>10 DEF vars
<1>11. CASE ExecuteDelete
  <2>1. CASE InDocument
      BY <1>8, <1>11, <2>1
  <2>2. CASE ~InDocument
      BY <1>9, <1>11, <2>2
  <2> QED BY <2>1, <2>2
<1>12. CASE ExecutePut
    BY <1>8, <1>12
<1> QED BY <1>3, <1>4, <1>5, <1>6, <1>7, <1>10, <1>11, <1>12 DEF Next

\* For any lines, names and bounds, with fewer keys than a count has values: the
\* count stored for a document is the number of its items.
THEOREM CountsAreRight == Spec => []DocumentsCounted
<1>1. Init => DocumentsCounted
  <2>1. Names(EmptyDatabase, CollectionsRoot) = {}
      BY DEF EmptyDatabase, Names, CollectionsRoot
  <2>2. Counted(EmptyDatabase)
      BY <2>1, CountedIs
  <2> QED BY <2>2 DEF Init, DocumentsCounted
<1> QED BY <1>1, CountedStep, DataCorrect, PTL DEF Spec

\* The value displayed is one of a document's.
Shown == reply.shows \subseteq Value /\ running \in BOOLEAN /\ locked \in BOOLEAN

\* Every step shows values of documents, or nothing.
LEMMA ShownStep == Position /\ Lines /\ DatabaseInv /\ Shown /\ [Next]_vars => Shown'
<1> SUFFICES ASSUME Position, Lines, DatabaseInv, Shown, [Next]_vars PROVE Shown'
    OBVIOUS
<1>1. ASSUME NEW d, NEW f, Reply(d, f, {}), running' \in BOOLEAN, locked' \in BOOLEAN
      PROVE  Shown'
    BY <1>1 DEF Reply, Shown
<1>2. running \in BOOLEAN /\ locked \in BOOLEAN
    BY DEF Shown
<1>3. CASE ReadLine \/ Refuse \/ ExecuteHelp \/ ExecuteClose \/ Start
  <2>1. Quiet /\ locked' = locked /\ running' \in {running, TRUE}
      BY <1>3 DEF ReadLine, Refuse, ExecuteHelp, ExecuteClose, Start, session
  <2> QED BY <1>1, <1>2, <2>1 DEF Quiet
<1>4. CASE ExecuteCollection \/ ExecuteDocument \/ ExecutePut \/ ExecuteDelete
  <2>1. Reply("enter", Target, {}) \/ Reply("put", Target, {}) \/ Reply("delete", Target, {})
      BY <1>4 DEF ExecuteCollection, ExecuteDocument, ExecutePut, ExecuteDelete, Entered
  <2>2. running' = running /\ locked' \in {locked, TRUE}
      BY <1>4 DEF ExecuteCollection, ExecuteDocument, ExecutePut, ExecuteDelete, Entered, Changed
  <2> QED BY <1>1, <1>2, <2>1, <2>2
<1>5. CASE ExecuteNavigateUp \/ ExecuteNavigateToTop \/ Exit \/ Crash \/ Throw
  <2>1. ASSUME NEW n, NavigateUp(n)
        PROVE  (\E d : Reply(d, <<>>, {})) /\ locked' \in BOOLEAN
    <3> DEFINE kept == IF Len(path) > n THEN Len(path) - n ELSE 1
               commits == \E i \in kept + 1 .. Len(path) : path[i].kind = "collection"
    <3>1. /\ Reply(IF commits THEN "save" ELSE "nothing", <<>>, {})
          /\ locked' = (locked /\ ~commits)
        BY <2>1 DEF NavigateUp
    <3> HIDE DEF commits
    <3> QED BY <3>1
  <2>2. CASE ExecuteNavigateUp \/ ExecuteNavigateToTop \/ Exit
    <3>1. running' \in {running, FALSE} /\ \E n : NavigateUp(n)
        BY <2>2 DEF ExecuteNavigateUp, ExecuteNavigateToTop, Exit
    <3> QED BY <1>1, <1>2, <2>1, <3>1
  <2>3. CASE Crash \/ Throw
    <3>1. running' = FALSE /\ locked' = FALSE /\ Reply("lose", <<>>, {})
        BY <2>3 DEF Crash, Throw, Die
    <3> QED BY <1>1, <3>1
  <2> QED BY <1>5, <2>2, <2>3
<1>6. CASE ExecuteGet
  <2> DEFINE tree == db.trees[path[3].ref.root]
             shows == {tree[k] : k \in DOMAIN tree \cap {Argument(1)}}
  <2>1. reply'.shows = shows /\ running' = running /\ locked' = locked
      BY <1>6, GetCommand DEF Reply, session
  <2>2. InDocument
      BY <1>6, GetCommand
  <2>5. HoldsItems(db, path[3].ref.root)
    <3>1. /\ path[2].ref.root \in DocumentsRoots(db)
          /\ path[3].ref.id \in Names(db, path[2].ref.root)
          /\ HandleIn(db, path[2].ref.root, path[3].ref)
        BY <2>2, Entries, PathHandles
    <3>2. RootOf(db, path[2].ref.root, path[3].ref.id) = path[3].ref.root
        BY <3>1 DEF HandleIn, RootOf
    <3> QED BY <3>1, <3>2 DEF DatabaseInv, Sound
  <2>6. \A k \in DOMAIN tree : tree[k] \in Value
      BY <2>5 DEF HoldsItems
  <2> HIDE DEF tree
  <2> QED BY <2>1, <2>6 DEF Shown
<1>7. CASE UNCHANGED vars
    BY <1>7 DEF vars, session, Shown
<1> QED BY <1>3, <1>4, <1>5, <1>6, <1>7 DEF Next

\* For any lines, names and bounds: the types of the session and its database.
THEOREM TypeCorrect == Spec => []TypeOK
<1>1. Init => Shown
  <2>1. Init => reply.shows = {} /\ running = TRUE /\ locked = FALSE
      BY DEF Init
  <2> QED BY <2>1 DEF Shown
<1>2. Position /\ Lines /\ DatabaseInv /\ Shown => TypeOK
  <2> SUFFICES ASSUME Position, Lines, DatabaseInv, Shown PROVE TypeOK
      OBVIOUS
  <2>1. ~InFile => path[2].ref \in HandleOf(Collection)
    <3> SUFFICES ASSUME ~InFile PROVE path[2].ref \in HandleOf(Collection)
        OBVIOUS
    <3>1. /\ HandleIn(db, CollectionsRoot, path[2].ref)
          /\ path[2].ref.id \in Names(db, CollectionsRoot)
          /\ path[2].ref.root \in DocumentsRoots(db)
        BY PathHandles
    <3>2. path[2].ref.id \in Collection
        BY <3>1 DEF DatabaseInv, Sound, HoldsCollections
    <3>3. path[2].ref.root \in Nat
        BY <3>1, SoundTrees DEF DatabaseInv
    <3> QED BY <3>1, <3>2, <3>3 DEF HandleIn, HandleOf
  <2>2. Len(path) > 2 => path[3].ref \in HandleOf(DocumentName)
    <3> SUFFICES ASSUME Len(path) > 2 PROVE path[3].ref \in HandleOf(DocumentName)
        OBVIOUS
    <3>1. InDocument /\ ~InFile
      <4>1. Len(path) \in 1 .. 3
          BY Entries DEF Position
      <4>2. \A n \in 1 .. 3 : n > 2 => n # 1 /\ n # 2
          OBVIOUS
      <4>3. Len(path) # 1 /\ Len(path) # 2
          BY <4>1, <4>2
      <4> QED BY <4>3, Entries DEF Position
    <3>2. /\ HandleIn(db, path[2].ref.root, path[3].ref)
          /\ path[3].ref.id \in Names(db, path[2].ref.root)
          /\ path[2].ref.root \in DocumentsRoots(db)
        BY <3>1, PathHandles
    <3>3. path[3].ref.id \in DocumentName
        BY <3>2 DEF DatabaseInv, Sound, HoldsDocuments
    <3>4. path[3].ref.root \in Nat
      <4>1. RootOf(db, path[2].ref.root, path[3].ref.id) = path[3].ref.root
          BY <3>2 DEF HandleIn, RootOf
      <4> QED BY <3>2, <4>1, SoundTrees DEF DatabaseInv
    <3> QED BY <3>2, <3>3, <3>4 DEF HandleIn, HandleOf
  <2>3. \A s \in {db, saved} : DOMAIN s.trees = CollectionsRoot .. s.fl.maxPage
      BY SoundTrees DEF DatabaseInv
  <2> QED BY <2>1, <2>2, <2>3 DEF TypeOK, Position, Lines, Complete, Shown
<1> QED BY <1>1, <1>2, DataCorrect, ShownStep, PTL DEF Spec
-----------------------------------------------------------------------------
(***************************************************************************)
(* What the database says, as facts                                        *)
(***************************************************************************)
\* The facts about a document ...
DocFacts(s, c, d) ==
    {<<c, d>>} \cup {<<c, d, k, Items(s, c, d)[k]>> : k \in DOMAIN Items(s, c, d)}
\* ... about a collection and all in it.
CollectionFacts(s, c) ==
    {<<c>>} \cup UNION {DocFacts(s, c, d) : d \in Names(s, Docs(s, c))}

\* Facts, in these terms.
LEMMA FactsAre ==
    ASSUME NEW s
    PROVE  Facts(s) = UNION {CollectionFacts(s, c) : c \in Names(s, CollectionsRoot)}
BY DEF Facts, CollectionFacts, DocFacts, Items, Docs

\* A document that stays as it is says the same.
LEMMA SameDocFacts ==
    ASSUME NEW s, NEW t, NEW c, NEW d, SameDoc(s, t, c, d)
    PROVE  DocFacts(t, c, d) = DocFacts(s, c, d)
BY DEF SameDoc, DocFacts

\* So does a collection.
LEMMA SameFacts ==
    ASSUME NEW s, NEW t, NEW c, SameDocs(s, t, c)
    PROVE  CollectionFacts(t, c) = CollectionFacts(s, c)
<1>1. \A d \in Names(s, Docs(s, c)) : DocFacts(t, c, d) = DocFacts(s, c, d)
    BY SameDocFacts DEF SameDocs
<1>2. Names(t, Docs(t, c)) = Names(s, Docs(s, c))
    BY DEF SameDocs
<1> QED BY <1>1, <1>2 DEF CollectionFacts

\* Facts come from the documents and collections they name.
LEMMA FactIs ==
    ASSUME NEW s, NEW f
    PROVE  f \in Facts(s) <=>
               \E c \in Names(s, CollectionsRoot) :
                   \/ f = <<c>>
                   \/ \E d \in Names(s, Docs(s, c)) : f \in DocFacts(s, c, d)
BY FactsAre DEF CollectionFacts

\* Which facts begin with the names of an item, and of a document.
LEMMA PrefixOfTwo ==
    ASSUME NEW a, NEW b
    PROVE  /\ \A x : ~Promised!IsPrefix(<<a, b>>, <<x>>)
           /\ \A x, y : Promised!IsPrefix(<<a, b>>, <<x, y>>) <=> a = x /\ b = y
           /\ \A x, y, z, v : Promised!IsPrefix(<<a, b>>, <<x, y, z, v>>) <=> a = x /\ b = y
<1>1. \A x, y : SubSeq(<<x, y>>, 1, 2) = <<x, y>>
    BY FirstTwoOf
<1>2. \A x, y, z, v : SubSeq(<<x, y, z, v>>, 1, 2) = <<x, y>>
    BY FirstTwoOf
<1>3. \A x, y, z, v : Len(<<x>>) = 1 /\ Len(<<x, y>>) = 2 /\ Len(<<x, y, z, v>>) = 4
    OBVIOUS
<1>4. \A x, y : <<a, b>> = <<x, y>> <=> a = x /\ b = y
    OBVIOUS
<1> QED BY <1>1, <1>2, <1>3, <1>4 DEF Promised!IsPrefix

\* The first three of a sequence.
LEMMA FirstThreeOf ==
    ASSUME NEW s, NEW a, NEW b, NEW c, s[1] = a, s[2] = b, s[3] = c
    PROVE  SubSeq(s, 1, 3) = <<a, b, c>>
<1> DEFINE S == {a, b, c}
<1>1. /\ <<a, b, c>> \in Seq(S) /\ Len(<<a, b, c>>) = 3 /\ \A i \in 1 .. 3 : s[i] \in S
    OBVIOUS
<1> HIDE DEF S
<1>2. /\ SubSeq(s, 1, 3) \in Seq(S) /\ Len(SubSeq(s, 1, 3)) = 3
      /\ \A i \in 1 .. 3 : SubSeq(s, 1, 3)[i] = s[i]
    BY <1>1, SubSeqProperties
<1>3. \A i \in 1 .. 3 : SubSeq(s, 1, 3)[i] = <<a, b, c>>[i]
    BY <1>2
<1> QED BY <1>1, <1>2, <1>3, SeqEqual

\* The same for three names.
LEMMA PrefixOfThree ==
    ASSUME NEW a, NEW b, NEW c
    PROVE  /\ \A x : ~Promised!IsPrefix(<<a, b, c>>, <<x>>)
           /\ \A x, y : ~Promised!IsPrefix(<<a, b, c>>, <<x, y>>)
           /\ \A x, y, z, v : Promised!IsPrefix(<<a, b, c>>, <<x, y, z, v>>) <=> a = x /\ b = y /\ c = z
<1>1. SubSeq(<<a, b, c>>, 1, 3) = <<a, b, c>>
    BY FirstThreeOf
<1>2. \A x, y, z, v : SubSeq(<<x, y, z, v>>, 1, 3) = <<x, y, z>>
    BY FirstThreeOf
<1>3. \A x, y, z, v : Len(<<x>>) = 1 /\ Len(<<x, y>>) = 2 /\ Len(<<x, y, z, v>>) = 4 /\ Len(<<x, y, z>>) = 3
    OBVIOUS
<1>4. \A x, y, z : <<a, b, c>> = <<x, y, z>> <=> a = x /\ b = y /\ c = z
    OBVIOUS
<1> QED BY <1>1, <1>2, <1>3, <1>4 DEF Promised!IsPrefix

\* Entering a collection adds the fact that it is there, if it was not.
LEMMA EnterCollectionFacts ==
    ASSUME NEW s, Sound(s), NEW c \in Collection
    PROVE  Facts(OpenOrCreate(s, CollectionsRoot, c).db) = Facts(s) \cup {<<c>>}
<1> DEFINE t == NewContainer(s, CollectionsRoot, c).db
<1>1. c # NoName
    BY ShellAssumption
<1>2. CASE Has(s, CollectionsRoot, c)
  <2>1. OpenOrCreate(s, CollectionsRoot, c).db = s
      BY <1>2 DEF OpenOrCreate
  <2>2. <<c>> \in Facts(s)
      BY <1>1, <1>2, FactIs DEF Names, Has
  <2> QED BY <2>1, <2>2
<1>3. CASE ~Has(s, CollectionsRoot, c)
  <2>1. OpenOrCreate(s, CollectionsRoot, c).db = t
      BY <1>3 DEF OpenOrCreate
  <2>2. Adds(s, t, CollectionsRoot, c)
    <3>1. Formed(s) /\ CollectionsRoot \in DOMAIN s.trees
        BY SoundTrees DEF Sound
    <3> QED BY <1>1, <1>3, <3>1, NewContainerAdds
  <2> HIDE DEF t
  <2>3. /\ Names(t, CollectionsRoot) = Names(s, CollectionsRoot) \cup {c}
        /\ Names(t, Docs(t, c)) = {}
        /\ \A x \in Names(s, CollectionsRoot) : SameDocs(s, t, x)
      BY <1>3, <2>2, CollectionAdded
  <2>4. CollectionFacts(t, c) = {<<c>>}
      BY <2>3 DEF CollectionFacts
  <2>5. \A x \in Names(s, CollectionsRoot) : CollectionFacts(t, x) = CollectionFacts(s, x)
      BY <2>3, SameFacts
  <2>6. Facts(t) = Facts(s) \cup {<<c>>}
    <3> HIDE DEF CollectionFacts
    <3> QED BY <2>3, <2>4, <2>5, FactsAre
  <2> QED BY <2>1, <2>6
<1> QED BY <1>2, <1>3

\* Entering a document adds the fact that it is there, if it was not.
LEMMA EnterDocumentFacts ==
    ASSUME NEW s, Sound(s), NEW c \in Names(s, CollectionsRoot), NEW d \in DocumentName
    PROVE  Facts(OpenOrCreate(s, Docs(s, c), d).db) = Facts(s) \cup {<<c, d>>}
<1> DEFINE t == NewContainer(s, Docs(s, c), d).db
<1>1. d # NoName
    BY ShellAssumption
<1>2. CASE Has(s, Docs(s, c), d)
  <2>1. OpenOrCreate(s, Docs(s, c), d).db = s
      BY <1>2 DEF OpenOrCreate
  <2>2. d \in Names(s, Docs(s, c)) /\ <<c, d>> \in DocFacts(s, c, d)
      BY <1>1, <1>2 DEF Names, Has, DocFacts
  <2>3. <<c, d>> \in Facts(s)
      BY <2>2, FactIs
  <2> QED BY <2>1, <2>3
<1>3. CASE ~Has(s, Docs(s, c), d)
  <2>1. OpenOrCreate(s, Docs(s, c), d).db = t
      BY <1>3 DEF OpenOrCreate
  <2>2. Adds(s, t, Docs(s, c), d)
    <3>1. Formed(s) /\ Docs(s, c) \in DOMAIN s.trees
        BY DocsAre DEF Sound
    <3> QED BY <1>1, <1>3, <3>1, NewContainerAdds
  <2> HIDE DEF t
  <2>3. /\ Names(t, CollectionsRoot) = Names(s, CollectionsRoot)
        /\ \A x \in Names(s, CollectionsRoot) \ {c} : SameDocs(s, t, x)
        /\ Names(t, Docs(t, c)) = Names(s, Docs(s, c)) \cup {d}
        /\ \A e \in Names(s, Docs(s, c)) : SameDoc(s, t, c, e)
        /\ DOMAIN Items(t, c, d) = {}
      BY <1>3, <2>2, DocumentAdded
  <2>4. DocFacts(t, c, d) = {<<c, d>>}
      BY <2>3 DEF DocFacts
  <2>5. \A e \in Names(s, Docs(s, c)) : DocFacts(t, c, e) = DocFacts(s, c, e)
      BY <2>3, SameDocFacts
  <2>6. CollectionFacts(t, c) = CollectionFacts(s, c) \cup {<<c, d>>}
      BY <2>3, <2>4, <2>5 DEF CollectionFacts
  <2>7. \A x \in Names(s, CollectionsRoot) \ {c} : CollectionFacts(t, x) = CollectionFacts(s, x)
      BY <2>3, SameFacts
  <2>8. Facts(t) = Facts(s) \cup {<<c, d>>}
      BY <2>3, <2>6, <2>7, FactsAre
  <2> QED BY <2>1, <2>8
<1> QED BY <1>2, <1>3

\* The facts with a prefix, by the document they are about.
LEMMA DocumentPrefix ==
    ASSUME NEW s, NEW a, NEW b
    PROVE  /\ \A x : ~Promised!IsPrefix(<<a, b>>, <<x>>)
           /\ \A x, y : \A f \in DocFacts(s, x, y) :
                  Promised!IsPrefix(<<a, b>>, f) <=> x = a /\ y = b
<1>1. ASSUME NEW x, NEW y, NEW f \in DocFacts(s, x, y)
      PROVE  Promised!IsPrefix(<<a, b>>, f) <=> x = a /\ y = b
  <2>1. CASE f = <<x, y>>
      BY <2>1, PrefixOfTwo
  <2>2. CASE f # <<x, y>>
    <3>1. PICK j \in DOMAIN Items(s, x, y) : f = <<x, y, j, Items(s, x, y)[j]>>
        BY <2>2 DEF DocFacts
    <3> QED BY <3>1, PrefixOfTwo
  <2> QED BY <2>1, <2>2
<1> QED BY <1>1, PrefixOfTwo

\* ... and by the item they are about.
LEMMA ItemPrefix ==
    ASSUME NEW s, NEW a, NEW b, NEW k
    PROVE  /\ \A x : ~Promised!IsPrefix(<<a, b, k>>, <<x>>)
           /\ \A x, y : \A f \in DocFacts(s, x, y) :
                  Promised!IsPrefix(<<a, b, k>>, f)
                      <=> /\ x = a /\ y = b /\ k \in DOMAIN Items(s, a, b)
                          /\ f = <<a, b, k, Items(s, a, b)[k]>>
<1>1. ASSUME NEW x, NEW y, NEW f \in DocFacts(s, x, y)
      PROVE  Promised!IsPrefix(<<a, b, k>>, f)
                 <=> /\ x = a /\ y = b /\ k \in DOMAIN Items(s, a, b)
                     /\ f = <<a, b, k, Items(s, a, b)[k]>>
  <2>1. CASE f = <<x, y>>
    <3>1. <<x, y>> # <<a, b, k, Items(s, a, b)[k]>>
        OBVIOUS
    <3> QED BY <2>1, <3>1, PrefixOfThree
  <2>2. CASE f # <<x, y>>
    <3>1. PICK j \in DOMAIN Items(s, x, y) : f = <<x, y, j, Items(s, x, y)[j]>>
        BY <2>2 DEF DocFacts
    <3>2. Promised!IsPrefix(<<a, b, k>>, f) <=> a = x /\ b = y /\ k = j
        BY <3>1, PrefixOfThree
    <3>3. f = <<a, b, k, Items(s, a, b)[k]>> => a = x /\ b = y /\ k = j
        BY <3>1
    <3> QED BY <3>1, <3>2, <3>3
  <2> QED BY <2>1, <2>2
<1> QED BY <1>1, PrefixOfThree

\* ContainerStore takes away the facts with a prefix.
Without(s, prefix) == {f \in Facts(s) : ~Promised!IsPrefix(prefix, f)}

\* A change to the document d of c alone, which takes away the facts with a
\* prefix that others do not have, and adds some.
OnlyDoc(s, t, c, d) ==
    /\ Names(t, CollectionsRoot) = Names(s, CollectionsRoot)
    /\ \A x \in Names(s, CollectionsRoot) \ {c} : SameDocs(s, t, x)
    /\ Names(t, Docs(t, c)) = Names(s, Docs(s, c))
    /\ \A y \in Names(s, Docs(s, c)) \ {d} : SameDoc(s, t, c, y)
\* Only facts about the document d of c have the prefix.
OfDoc(s, c, d, prefix) ==
    /\ \A x : ~Promised!IsPrefix(prefix, <<x>>)
    /\ \A x, y : \A f \in DocFacts(s, x, y) : Promised!IsPrefix(prefix, f) => x = c /\ y = d
\* The facts about d: those with the prefix go, more come.
Replaces(s, t, c, d, prefix, more) ==
    \A f : f \in DocFacts(t, c, d) <=>
        f \in more \/ (f \in DocFacts(s, c, d) /\ ~Promised!IsPrefix(prefix, f))

\* What such a change makes of all facts.
LEMMA FactsAfter ==
    ASSUME NEW s, NEW t, NEW c \in Names(s, CollectionsRoot), NEW d \in Names(s, Docs(s, c)),
           OnlyDoc(s, t, c, d),
           NEW prefix, OfDoc(s, c, d, prefix),
           NEW more, Replaces(s, t, c, d, prefix, more)
    PROVE  Facts(t) = Without(s, prefix) \cup more
<1> USE DEF OnlyDoc, OfDoc, Replaces
<1>1. \A x \in Names(s, CollectionsRoot) \ {c} :
          /\ Names(t, Docs(t, x)) = Names(s, Docs(s, x))
          /\ \A y \in Names(s, Docs(s, x)) : DocFacts(t, x, y) = DocFacts(s, x, y)
    BY SameDocFacts DEF SameDocs
<1>2. \A y \in Names(s, Docs(s, c)) \ {d} : DocFacts(t, c, y) = DocFacts(s, c, y)
    BY SameDocFacts
<1>3. ASSUME NEW f, f \in Facts(t) PROVE f \in Without(s, prefix) \cup more
  <2>1. PICK x \in Names(s, CollectionsRoot) :
            f = <<x>> \/ \E y \in Names(t, Docs(t, x)) : f \in DocFacts(t, x, y)
      BY <1>3, FactIs
  <2>2. CASE f = <<x>>
      BY <2>2, FactIs DEF Without
  <2>3. CASE f # <<x>>
    <3>1. PICK y \in Names(t, Docs(t, x)) : f \in DocFacts(t, x, y)
        BY <2>1, <2>3
    <3>2. CASE x = c /\ y = d
        BY <3>1, <3>2, FactIs DEF Without
    <3>3. CASE ~(x = c /\ y = d)
      <4>1. y \in Names(s, Docs(s, x)) /\ f \in DocFacts(s, x, y)
          BY <1>1, <1>2, <3>1, <3>3
      <4> QED BY <3>3, <4>1, FactIs DEF Without
    <3> QED BY <3>2, <3>3
  <2> QED BY <2>2, <2>3
<1>4. ASSUME NEW f, f \in Without(s, prefix) PROVE f \in Facts(t)
  <2>1. f \in Facts(s) /\ ~Promised!IsPrefix(prefix, f)
      BY <1>4 DEF Without
  <2>2. PICK x \in Names(s, CollectionsRoot) :
            f = <<x>> \/ \E y \in Names(s, Docs(s, x)) : f \in DocFacts(s, x, y)
      BY <2>1, FactIs
  <2>3. CASE f = <<x>>
      BY <2>3, FactIs
  <2>4. CASE f # <<x>>
    <3>1. PICK y \in Names(s, Docs(s, x)) : f \in DocFacts(s, x, y)
        BY <2>2, <2>4
    <3>2. y \in Names(t, Docs(t, x)) /\ f \in DocFacts(t, x, y)
        BY <1>1, <1>2, <2>1, <3>1
    <3> QED BY <3>2, FactIs
  <2> QED BY <2>3, <2>4
<1>5. ASSUME NEW f \in more PROVE f \in Facts(t)
    BY FactIs
<1> QED BY <1>3, <1>4, <1>5

\* An item is put in the place of another, or as a new one.
LEMMA PutFacts ==
    ASSUME NEW s, Sound(s), NEW c \in Names(s, CollectionsRoot),
           NEW h, h.id \in Names(s, Docs(s, c)), HandleIn(s, Docs(s, c), h), NEW k, NEW v
    PROVE  Facts(PutItem(s, Docs(s, c), h, k, v).db)
               = Without(s, <<c, h.id, k>>) \cup {<<c, h.id, k, v>>}
<1> DEFINE p == Docs(s, c)
           r == PutItem(s, p, h, k, v)
           d == h.id
           old == Items(s, c, d)
           new == Items(r.db, c, d)
<1>1. IsDatabase(s)
    BY SoundTrees
<1>2. /\ Edits(s, r.db, p, h, r.handle)
      /\ r.db.trees[h.root] = With(s.trees[h.root], k, v)
    BY <1>1, PutEntries
<1> HIDE DEF r
<1>3. /\ Names(r.db, CollectionsRoot) = Names(s, CollectionsRoot)
      /\ \A x \in Names(s, CollectionsRoot) \ {c} : SameDocs(s, r.db, x)
      /\ Names(r.db, Docs(r.db, c)) = Names(s, p)
      /\ \A e \in Names(s, p) \ {d} : SameDoc(s, r.db, c, e)
      /\ new = With(old, k, v)
    BY <1>2, DocumentEdited
<1> HIDE DEF new, old
<1>4. DOMAIN new = DOMAIN old \cup {k} /\ new[k] = v /\ \A j \in DOMAIN old \ {k} : new[j] = old[j]
    BY <1>3 DEF With
<1>5. \A f : f \in DocFacts(r.db, c, d) <=>
          f \in {<<c, d, k, v>>} \/ (f \in DocFacts(s, c, d) /\ ~Promised!IsPrefix(<<c, d, k>>, f))
  <2>1. \A f : f \in DocFacts(r.db, c, d) <=>
            f = <<c, d>> \/ \E j \in DOMAIN new : f = <<c, d, j, new[j]>>
      BY DEF DocFacts, new
  <2>2. \A f : f \in DocFacts(s, c, d) /\ ~Promised!IsPrefix(<<c, d, k>>, f) <=>
            f = <<c, d>> \/ \E j \in DOMAIN old \ {k} : f = <<c, d, j, old[j]>>
      BY PrefixOfThree DEF DocFacts, old
  <2> QED BY <1>4, <2>1, <2>2
<1>6. /\ OnlyDoc(s, r.db, c, d) /\ OfDoc(s, c, d, <<c, d, k>>)
      /\ Replaces(s, r.db, c, d, <<c, d, k>>, {<<c, d, k, v>>})
    BY <1>3, <1>5, ItemPrefix DEF OnlyDoc, OfDoc, Replaces, p
<1>7. Facts(r.db) = Without(s, <<c, d, k>>) \cup {<<c, d, k, v>>}
    BY <1>6, FactsAfter DEF p
<1> QED BY <1>7 DEF r, p

\* An item is removed, or is not there.
LEMMA RemoveFacts ==
    ASSUME NEW s, Sound(s), NEW t, NEW c \in Names(s, CollectionsRoot),
           NEW h, h.id \in Names(s, Docs(s, c)), HandleIn(s, Docs(s, c), h),
           NEW g, Edits(s, t, Docs(s, c), h, g), NEW k, Loses(s, t, h.root, k)
    PROVE  Facts(t) = Without(s, <<c, h.id, k>>)
<1> DEFINE d == h.id
           old == Items(s, c, d)
           new == Items(t, c, d)
<1>1. /\ Names(t, CollectionsRoot) = Names(s, CollectionsRoot)
      /\ \A x \in Names(s, CollectionsRoot) \ {c} : SameDocs(s, t, x)
      /\ Names(t, Docs(t, c)) = Names(s, Docs(s, c))
      /\ \A e \in Names(s, Docs(s, c)) \ {d} : SameDoc(s, t, c, e)
      /\ new = t.trees[h.root] /\ old = s.trees[h.root]
    BY DocumentEdited
<1> HIDE DEF new, old
<1>4. DOMAIN new = DOMAIN old \ {k} /\ \A j \in DOMAIN old \ {k} : new[j] = old[j]
    BY <1>1 DEF Loses
<1>5. \A f : f \in DocFacts(t, c, d) <=>
          f \in {} \/ (f \in DocFacts(s, c, d) /\ ~Promised!IsPrefix(<<c, d, k>>, f))
  <2>1. \A f : f \in DocFacts(t, c, d) <=>
            f = <<c, d>> \/ \E j \in DOMAIN new : f = <<c, d, j, new[j]>>
      BY DEF DocFacts, new
  <2>2. \A f : f \in DocFacts(s, c, d) /\ ~Promised!IsPrefix(<<c, d, k>>, f) <=>
            f = <<c, d>> \/ \E j \in DOMAIN old \ {k} : f = <<c, d, j, old[j]>>
      BY PrefixOfThree DEF DocFacts, old
  <2> QED BY <1>4, <2>1, <2>2
<1>6. /\ OnlyDoc(s, t, c, d) /\ OfDoc(s, c, d, <<c, d, k>>)
      /\ Replaces(s, t, c, d, <<c, d, k>>, {})
    BY <1>1, <1>5, ItemPrefix DEF OnlyDoc, OfDoc, Replaces
<1>7. Facts(t) = Without(s, <<c, d, k>>) \cup {}
    BY <1>6, FactsAfter
<1> QED BY <1>7

\* A document is removed with all that is in it.
LEMMA DropFacts ==
    ASSUME NEW s, Sound(s), NEW t, NEW h, h.id \in Names(s, CollectionsRoot),
           HandleIn(s, CollectionsRoot, h), NEW g, Edits(s, t, CollectionsRoot, h, g),
           NEW k, Loses(s, t, h.root, k)
    PROVE  Facts(t) = Without(s, <<h.id, k>>)
<1> DEFINE c == h.id
<1>1. /\ Names(t, CollectionsRoot) = Names(s, CollectionsRoot)
      /\ \A x \in Names(s, CollectionsRoot) \ {c} : SameDocs(s, t, x)
      /\ Names(t, Docs(t, c)) = Names(s, Docs(s, c)) \ {k}
      /\ \A e \in Names(s, Docs(s, c)) \ {k} : SameDoc(s, t, c, e)
    BY DocumentDropped
<1>2. \A x \in Names(s, CollectionsRoot) \ {c} :
          /\ Names(t, Docs(t, x)) = Names(s, Docs(s, x))
          /\ \A y \in Names(s, Docs(s, x)) : DocFacts(t, x, y) = DocFacts(s, x, y)
    BY <1>1, SameDocFacts DEF SameDocs
<1>3. \A y \in Names(s, Docs(s, c)) \ {k} : DocFacts(t, c, y) = DocFacts(s, c, y)
    BY <1>1, SameDocFacts
<1>4. \A x \in Names(s, CollectionsRoot) : \A y : 
          y \in Names(t, Docs(t, x)) <=> y \in Names(s, Docs(s, x)) /\ ~(x = c /\ y = k)
    BY <1>1, <1>2
<1>5. \A x \in Names(s, CollectionsRoot) : \A y \in Names(t, Docs(t, x)) :
          DocFacts(t, x, y) = DocFacts(s, x, y)
    BY <1>2, <1>3, <1>4
<1>6. ASSUME NEW f PROVE f \in Facts(t) <=> f \in Without(s, <<c, k>>)
  <2> DEFINE P == Promised!IsPrefix(<<c, k>>, f)
  <2>1. f \in Facts(t) <=>
            \E x \in Names(s, CollectionsRoot) :
                \/ f = <<x>>
                \/ \E y \in Names(t, Docs(t, x)) : f \in DocFacts(t, x, y)
      BY <1>1, FactIs
  <2>2. /\ \A x : f = <<x>> => ~P
        /\ \A x, y : f \in DocFacts(s, x, y) => (P <=> x = c /\ y = k)
      BY DocumentPrefix
  <2>3. f \in Without(s, <<c, k>>) <=> f \in Facts(s) /\ ~P
      BY DEF Without
  <2>4. f \in Facts(s) <=>
            \E x \in Names(s, CollectionsRoot) :
                \/ f = <<x>>
                \/ \E y \in Names(s, Docs(s, x)) : f \in DocFacts(s, x, y)
      BY FactIs
  <2> HIDE DEF P
  <2> QED BY <1>4, <1>5, <2>1, <2>2, <2>3, <2>4
<1> QED BY <1>6

\* An item is its names and its value.
LEMMA AppendToThree ==
    ASSUME NEW a, NEW b, NEW c, NEW x
    PROVE  Append(<<a, b, c>>, x) = <<a, b, c, x>>
<1> DEFINE S == {a, b, c, x}
<1>1. /\ <<a, b, c>> \in Seq(S) /\ x \in S /\ <<a, b, c, x>> \in Seq(S)
      /\ Len(<<a, b, c>>) = 3 /\ Len(<<a, b, c, x>>) = 4
    OBVIOUS
<1> HIDE DEF S
<1>2. /\ Append(<<a, b, c>>, x) \in Seq(S) /\ Len(Append(<<a, b, c>>, x)) = 4
      /\ \A i \in 1 .. 3 : Append(<<a, b, c>>, x)[i] = <<a, b, c>>[i]
      /\ Append(<<a, b, c>>, x)[4] = x
    BY <1>1, AppendProperties
<1>3. \A i \in 1 .. 4 : Append(<<a, b, c>>, x)[i] = <<a, b, c, x>>[i]
    BY <1>2
<1> QED BY <1>1, <1>2, <1>3, SeqEqual

\* What get shows.
LEMMA ValueFacts ==
    ASSUME NEW s, Sound(s), NEW c \in Names(s, CollectionsRoot), NEW d \in Names(s, Docs(s, c)), NEW k
    PROVE  {v \in Value : Append(<<c, d, k>>, v) \in Facts(s)}
               = {Items(s, c, d)[j] : j \in DOMAIN Items(s, c, d) \cap {k}}
<1> DEFINE tree == Items(s, c, d)
<1>1. ASSUME NEW v
      PROVE  <<c, d, k, v>> \in Facts(s) <=> k \in DOMAIN tree /\ v = tree[k]
  <2>1. ASSUME <<c, d, k, v>> \in Facts(s) PROVE k \in DOMAIN tree /\ v = tree[k]
    <3>1. PICK x \in Names(s, CollectionsRoot) :
              \/ <<c, d, k, v>> = <<x>>
              \/ \E y \in Names(s, Docs(s, x)) : <<c, d, k, v>> \in DocFacts(s, x, y)
        BY <2>1, FactIs
    <3>2. PICK y \in Names(s, Docs(s, x)) : <<c, d, k, v>> \in DocFacts(s, x, y)
        BY <3>1
    <3>3. PICK j \in DOMAIN Items(s, x, y) : <<c, d, k, v>> = <<x, y, j, Items(s, x, y)[j]>>
        BY <3>2 DEF DocFacts
    <3>4. c = x /\ d = y /\ k = j /\ v = Items(s, x, y)[j]
        BY <3>3
    <3> QED BY <3>4
  <2>2. ASSUME k \in DOMAIN tree, v = tree[k] PROVE <<c, d, k, v>> \in Facts(s)
    <3>1. <<c, d, k, v>> \in DocFacts(s, c, d)
        BY <2>2 DEF DocFacts
    <3> QED BY <3>1, FactIs
  <2> QED BY <2>1, <2>2
<1>2. \A j \in DOMAIN tree : tree[j] \in Value
    BY DocsAre
<1>3. \A v : Append(<<c, d, k>>, v) = <<c, d, k, v>>
    BY AppendToThree
<1> HIDE DEF tree
<1>4. \A v : v \in {tree[j] : j \in DOMAIN tree \cap {k}} <=> k \in DOMAIN tree /\ v = tree[k]
    OBVIOUS
<1> QED BY <1>1, <1>2, <1>3, <1>4 DEF tree

-----------------------------------------------------------------------------
\* Every step of the shell is a step of ContainerStore: entering, get, put and
\* delete are those of the store, leaving a collection is Save, the end of the
\* process Lose, and what changes neither database Rest.
LEMMA StoreStep ==
    Position /\ Lines /\ DatabaseInv /\ [Next]_vars => [Promised!Next]_(Promised!vars)
<1> SUFFICES ASSUME Position, Lines, DatabaseInv, [Next]_vars
             PROVE  [Promised!Next]_(Promised!vars)
    OBVIOUS
<1>1. Sound(db)
    BY DEF DatabaseInv
<1>2. ASSUME Quiet, UNCHANGED <<db, saved>> PROVE Promised!Next
    BY <1>2 DEF Quiet, Reply, Promised!Next, Promised!Rest, Promised!Reply
<1>3. CASE ReadLine \/ Refuse \/ ExecuteHelp \/ ExecuteClose \/ Start
    BY <1>2, <1>3 DEF ReadLine, Refuse, ExecuteHelp, ExecuteClose, Start
<1>4. CASE ExecuteNavigateUp \/ ExecuteNavigateToTop \/ Exit
  <2>1. PICK n : NavigateUp(n)
      BY <1>4 DEF ExecuteNavigateUp, ExecuteNavigateToTop, Exit
  <2> DEFINE kept == IF Len(path) > n THEN Len(path) - n ELSE 1
             commits == \E i \in kept + 1 .. Len(path) : path[i].kind = "collection"
  <2>2. /\ db' = db /\ saved' = IF commits THEN db ELSE saved
        /\ Reply(IF commits THEN "save" ELSE "nothing", <<>>, {})
      BY <2>1 DEF NavigateUp
  <2> HIDE DEF commits
  <2>3. CASE commits
    <3>1. Promised!Save
        BY <2>2, <2>3 DEF Reply, Promised!Save, Promised!Reply
    <3> QED BY <3>1 DEF Promised!Next
  <2>4. CASE ~commits
      BY <1>2, <2>2, <2>4 DEF Quiet
  <2> QED BY <2>3, <2>4
<1>5. CASE Crash \/ Throw
  <2>1. db' = saved /\ saved' = saved /\ Reply("lose", <<>>, {})
      BY <1>5 DEF Crash, Throw, Die
  <2>2. Promised!Lose
      BY <2>1 DEF Reply, Promised!Lose, Promised!Reply
  <2> QED BY <2>2 DEF Promised!Next
<1>6. CASE ExecuteCollection
  <2> DEFINE c == Argument(1)
  <2>1. /\ c \in Collection /\ saved' = saved
        /\ db' = OpenOrCreate(db, CollectionsRoot, c).db
        /\ Reply("enter", <<c>>, {})
      BY <1>6, CollectionCommand
  <2> HIDE DEF c
  <2>2. Facts(db') = Facts(db) \cup {<<c>>}
      BY <1>1, <2>1, EnterCollectionFacts
  <2>3. Promised!Enter(<<c>>)
      BY <2>1, <2>2 DEF Reply, Promised!Enter, Promised!Reply
  <2> QED BY <2>1, <2>3 DEF Promised!Next
<1>7. CASE ExecuteDocument
  <2> DEFINE c == path[2].ref.id
             d == Argument(1)
  <2>1. /\ InCollection /\ d \in DocumentName /\ saved' = saved
        /\ db' = OpenOrCreate(db, path[2].ref.root, d).db
        /\ Reply("enter", <<c, d>>, {})
      BY <1>7, DocumentCommand
  <2>2. c \in Names(db, CollectionsRoot) /\ path[2].ref.root = Docs(db, c)
      BY <2>1, Entries, PathHandles DEF Docs
  <2> HIDE DEF c, d
  <2>3. c \in Collection
      BY <1>1, <2>2, DocsAre
  <2>4. Facts(db') = Facts(db) \cup {<<c, d>>}
      BY <1>1, <2>1, <2>2, EnterDocumentFacts
  <2>5. Promised!Enter(<<c, d>>)
      BY <2>1, <2>4 DEF Reply, Promised!Enter, Promised!Reply
  <2> QED BY <2>1, <2>3, <2>5 DEF Promised!Next
<1>8. ASSUME InDocument
      PROVE  /\ path[2].ref.id \in Names(db, CollectionsRoot) /\ path[2].ref.id \in Collection
             /\ path[2].ref.root = Docs(db, path[2].ref.id)
             /\ path[3].ref.id \in Names(db, Docs(db, path[2].ref.id))
             /\ path[3].ref.id \in DocumentName
             /\ HandleIn(db, Docs(db, path[2].ref.id), path[3].ref)
             /\ db.trees[path[3].ref.root] = Items(db, path[2].ref.id, path[3].ref.id)
  <2>1. /\ path[2].ref.id \in Names(db, CollectionsRoot)
        /\ path[2].ref.root = Docs(db, path[2].ref.id)
        /\ path[3].ref.id \in Names(db, path[2].ref.root)
        /\ HandleIn(db, path[2].ref.root, path[3].ref)
      BY <1>8, Entries, PathHandles DEF Docs
  <2>2. path[2].ref.id \in Collection /\ path[3].ref.id \in DocumentName
      BY <1>1, <2>1, DocsAre
  <2>3. RootOf(db, Docs(db, path[2].ref.id), path[3].ref.id) = path[3].ref.root
      BY <2>1 DEF HandleIn, RootOf
  <2> QED BY <2>1, <2>2, <2>3 DEF Items
<1>9. CASE ExecuteGet
  <2> DEFINE c == path[2].ref.id
             d == path[3].ref.id
             k == Argument(1)
             tree == db.trees[path[3].ref.root]
  <2>1. /\ InDocument /\ k \in Key /\ db' = db /\ saved' = saved
        /\ Reply("get", <<c, d, k>>, {tree[j] : j \in DOMAIN tree \cap {k}})
      BY <1>9, GetCommand
  <2>2. /\ c \in Names(db, CollectionsRoot) /\ c \in Collection
        /\ d \in Names(db, Docs(db, c)) /\ d \in DocumentName
        /\ tree = Items(db, c, d)
      BY <1>8, <2>1
  <2> HIDE DEF c, d, k, tree
  <2>3. {v \in Value : Append(<<c, d, k>>, v) \in Facts(db)}
            = {tree[j] : j \in DOMAIN tree \cap {k}}
      BY <1>1, <2>2, ValueFacts
  <2>4. Promised!Get(<<c, d, k>>)
      BY <2>1, <2>3 DEF Reply, Promised!Get, Promised!Reply
  <2> QED BY <2>1, <2>2, <2>4 DEF Promised!Next
<1>10. CASE ExecutePut
  <2> DEFINE c == path[2].ref.id
             h == path[3].ref
             k == Argument(1)
             v == Argument(2)
  <2>1. /\ InDocument /\ k \in Key /\ v \in Value /\ saved' = saved
        /\ db' = PutItem(db, path[2].ref.root, h, k, v).db
        /\ Reply("put", <<c, h.id, k>>, {})
      BY <1>10, PutCommand
  <2>2. /\ c \in Names(db, CollectionsRoot) /\ c \in Collection
        /\ path[2].ref.root = Docs(db, c)
        /\ h.id \in Names(db, Docs(db, c)) /\ h.id \in DocumentName
        /\ HandleIn(db, Docs(db, c), h)
      BY <1>8, <2>1
  <2> HIDE DEF c, h, k, v
  <2>3. Facts(db') = Without(db, <<c, h.id, k>>) \cup {<<c, h.id, k, v>>}
      BY <1>1, <2>1, <2>2, PutFacts
  <2>4. Append(<<c, h.id, k>>, v) = <<c, h.id, k, v>>
      BY AppendToThree
  <2>5. Promised!Put(<<c, h.id, k>>, v)
      BY <2>1, <2>3, <2>4 DEF Reply, Without, Promised!Put, Promised!Without, Promised!Reply
  <2> QED BY <2>1, <2>2, <2>5 DEF Promised!Next
<1>11. CASE ExecuteDelete /\ InDocument
  <2> DEFINE c == path[2].ref.id
             h == path[3].ref
             k == Argument(1)
             r == RemoveItem(db, path[2].ref.root, h, k)
  <2>1. /\ k \in DocumentName \cup Key /\ saved' = saved /\ db' = r.db
        /\ Reply("delete", <<c, h.id, k>>, {})
      BY <1>11, DeleteCommand
  <2>2. /\ c \in Names(db, CollectionsRoot) /\ c \in Collection
        /\ path[2].ref.root = Docs(db, c)
        /\ h.id \in Names(db, Docs(db, c)) /\ h.id \in DocumentName
        /\ HandleIn(db, Docs(db, c), h)
      BY <1>8, <1>11
  <2>3. IsDatabase(db)
      BY <1>1, SoundTrees
  <2> HIDE DEF c, h, k
  <2>4. /\ Edits(db, r.db, Docs(db, c), h, r.handle)
        /\ Loses(db, r.db, h.root, k)
      BY <2>2, <2>3, RemoveEntries
  <2> HIDE DEF r
  <2>5. Facts(db') = Without(db, <<c, h.id, k>>)
      BY <1>1, <2>1, <2>2, <2>4, RemoveFacts
  <2>6. Promised!Delete(<<c, h.id, k>>)
      BY <2>1, <2>5 DEF Reply, Without, Promised!Delete, Promised!Without, Promised!Reply
  <2> QED BY <2>1, <2>2, <2>6 DEF Promised!Next
<1>12. CASE ExecuteDelete /\ ~InDocument
  <2> DEFINE a == path[2].ref
             k == Argument(1)
             r == RemoveItem(db, CollectionsRoot, a, k)
  <2>1. /\ k \in DocumentName \cup Key /\ saved' = saved /\ db' = r.db /\ ~InFile
        /\ Reply("delete", <<a.id, k>>, {})
      BY <1>12, DeleteCommand, Entries
  <2>2. a.id \in Names(db, CollectionsRoot) /\ HandleIn(db, CollectionsRoot, a)
      BY <2>1, PathHandles
  <2>3. IsDatabase(db) /\ a.id \in Collection
      BY <1>1, <2>2, SoundTrees, DocsAre
  <2> HIDE DEF a, k
  <2>4. /\ Edits(db, r.db, CollectionsRoot, a, r.handle)
        /\ Loses(db, r.db, a.root, k)
      BY <2>2, <2>3, RemoveEntries
  <2> HIDE DEF r
  <2>5. Facts(db') = Without(db, <<a.id, k>>)
      BY <1>1, <2>1, <2>2, <2>4, DropFacts
  <2>6. Promised!Delete(<<a.id, k>>)
      BY <2>1, <2>5 DEF Reply, Without, Promised!Delete, Promised!Without, Promised!Reply
  <2> QED BY <2>1, <2>3, <2>6 DEF Promised!Next
<1>13. CASE UNCHANGED vars
    BY <1>13 DEF vars, Promised!vars
<1>14. CASE ExecuteDelete
    BY <1>11, <1>12, <1>14
<1> QED BY <1>3, <1>4, <1>5, <1>6, <1>7, <1>9, <1>10, <1>13, <1>14 DEF Next

\* For any lines, names and bounds, with fewer keys than a count has values: a
\* session does what module ContainerStore promises.
THEOREM SessionsKeepTheirPromise == Spec => ImplementsStore
<1>1. Init => Promised!Init
  <2>1. Names(EmptyDatabase, CollectionsRoot) = {}
      BY DEF EmptyDatabase, Names, CollectionsRoot
  <2>2. Facts(EmptyDatabase) = {}
      BY <2>1, FactsAre
  <2> QED BY <2>2 DEF Init, Promised!Init
<1>2. Spec => Promised!Spec
    BY <1>1, StoreStep, DataCorrect, PTL DEF Spec, Promised!Spec
<1> QED BY <1>2 DEF ImplementsStore
=============================================================================
