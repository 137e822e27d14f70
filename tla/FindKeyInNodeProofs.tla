------------------------ MODULE FindKeyInNodeProofs ------------------------
(***************************************************************************)
(* Proofs about Node::findKeyInNode: for nodes of any size and any keys    *)
(* the index it returns is the place of the key.  The inductive invariant  *)
(* is TypeOK, Window and Answer together: Window says what the             *)
(* probes so far have ruled out, which is all the answer rests on.         *)
(***************************************************************************)
EXTENDS FindKeyInNode, FiniteSetTheorems, TLAPS

\* What the search answers, of the vector: the key is found if and only if an
\* item has it, every item before the index is smaller and none from it on is.
Answer ==
    result # "searching" =>
        /\ (result = "found") <=> (\E i \in DOMAIN items : items[i] = key)
        /\ \A i \in DOMAIN items : (items[i] < key) <=> (i < idx)

\* The inductive invariant.
IInv == TypeOK /\ Window /\ Answer

\* Keys can be compared.
LEMMA KeysAreIntegers == SearchKey \subseteq Int
BY SearchAssumption, NodeAssumption

\* The middle of a window that is not empty lies in it.
LEMMA MiddleInWindow ==
    ASSUME NEW l \in Int, NEW r \in Int, l <= r
    PROVE  (l + r) \div 2 \in Int /\ l <= (l + r) \div 2 /\ (l + r) \div 2 <= r
OBVIOUS

\* At first the window is the whole node.
LEMMA InitInv == Init => IInv
BY SearchAssumption, SMT
   DEF Init, IInv, TypeOK, Window, Answer, LastIndex

\* One turn of the loop: the three ways it can go.
LEMMA ProbeInv == IInv /\ Probe => IInv'
<1> SUFFICES ASSUME IInv, Probe PROVE IInv'
  OBVIOUS
<1> USE DEF IInv, TypeOK
<1> DEFINE m == (leftPos + rightPos) \div 2
<1>1. /\ m \in DOMAIN items /\ leftPos <= m /\ m <= rightPos
      /\ mid' = m /\ cmpRes' = Compare(items[m], key)
      /\ size' = size /\ items' = items /\ key' = key
  BY MiddleInWindow DEF Probe
<1>2. items[m] \in Int /\ key \in Int /\ \A i \in DOMAIN items : items[i] \in Int
  BY <1>1, KeysAreIntegers
<1>3. CASE cmpRes' = 0
  <2>1. items[m] = key /\ idx' = m /\ result' = "found"
        /\ leftPos' = leftPos /\ rightPos' = rightPos
    BY <1>1, <1>2, <1>3 DEF Probe, Compare
  <2>2. \A i \in DOMAIN items : (items[i] < key) <=> (i < m)
    BY <1>1, <1>2, <2>1 DEF Ascending
  <2> QED
    BY <1>1, <1>3, <2>1, <2>2 DEF Window, Answer
<1>4. CASE cmpRes' > 0
  <2>1. items[m] > key /\ rightPos' = m - 1 /\ leftPos' = leftPos
        /\ idx' = idx /\ result' = "searching" /\ cmpRes' = 1
    BY <1>1, <1>2, <1>4 DEF Probe, Compare, EndOfLeftHalf
  <2>2. \A i \in DOMAIN items : i > m - 1 => items[i] > key
    BY <1>1, <1>2, <2>1 DEF Ascending
  <2> QED
    BY <1>1, <2>1, <2>2 DEF Window, Answer
<1>5. CASE cmpRes' < 0
  <2>1. items[m] < key /\ leftPos' = m + 1 /\ rightPos' = rightPos
        /\ idx' = idx /\ result' = "searching" /\ cmpRes' = -1
    BY <1>1, <1>2, <1>5 DEF Probe, Compare
  <2>2. \A i \in DOMAIN items : i < m + 1 => items[i] < key
    BY <1>1, <1>2, <2>1 DEF Ascending
  <2> QED
    BY <1>1, <2>1, <2>2 DEF Window, Answer
<1> QED
  BY <1>1, <1>2, <1>3, <1>4, <1>5 DEF Compare

\* The end of the loop: the window has closed between the smaller and the
\* larger items, and the last comparison tells which side mid is on.
LEMMA GiveUpInv == IInv /\ GiveUp => IInv'
<1> SUFFICES ASSUME IInv, GiveUp PROVE IInv'
  OBVIOUS
<1> USE DEF IInv, TypeOK, GiveUp
<1>1. InsertionIndex = leftPos /\ leftPos = rightPos + 1
  BY DEF Window, InsertionIndex
<1>2. \A i \in 0 .. size - 1 : items[i] \in Int
  BY KeysAreIntegers
<1>3. key \in Int
  BY KeysAreIntegers
<1>4. \A i \in 0 .. size - 1 : (i < leftPos => items[i] < key) /\ (i >= leftPos => items[i] > key)
  BY <1>1, <1>2 DEF Window
<1>5. Answer'
  BY <1>1, <1>2, <1>3, <1>4 DEF Answer
<1> QED
  BY <1>1, <1>5 DEF Window

\* Both steps keep the invariant.
LEMMA StepInv == IInv /\ [Next]_vars => IInv'
<1>1. IInv /\ UNCHANGED vars => IInv'
  BY DEF IInv, TypeOK, Window, Answer, vars
<1> QED
  BY <1>1, ProbeInv, GiveUpInv DEF Next

\* Then the index is Slot, the number of the smaller keys.
LEMMA AnswerIsSlot ==
    ASSUME TypeOK, Answer
    PROVE  SearchIsRight
<1> SUFFICES ASSUME result # "searching"
             PROVE  /\ (result = "found") <=> Holds(Searched, key)
                    /\ idx + 1 = Slot(Searched, key)
  BY DEF SearchIsRight
<1> DEFINE is == [i \in 1 .. size |-> [key |-> items[i - 1], val |-> Garbled]]
<1>1. size \in Nat /\ idx \in 0 .. size /\ DOMAIN items = 0 .. size - 1
  BY DEF TypeOK
<1>2. Searched.items = is
  BY DEF Searched
<1>3. DOMAIN is = 1 .. size /\ \A i \in 1 .. size : is[i].key = items[i - 1] /\ i - 1 \in DOMAIN items
  BY <1>1
<1> HIDE DEF is
<1>4. (result = "found") <=> Holds(Searched, key)
  <2>1. Keys(Searched) = {items[i - 1] : i \in 1 .. size}
    BY <1>2, <1>3 DEF Keys
  <2>2. \A i \in DOMAIN items : i + 1 \in 1 .. size /\ (i + 1) - 1 = i
    BY <1>1
  <2>3. key \in Keys(Searched) <=> \E i \in DOMAIN items : items[i] = key
    BY <1>3, <2>1, <2>2
  <2> QED
    BY <2>3 DEF Answer, Holds
<1>5. {i \in DOMAIN is : is[i].key < key} = 1 .. idx
  <2>1. \A i \in 1 .. size : is[i].key < key <=> i - 1 < idx
    BY <1>3 DEF Answer
  <2> QED
    BY <1>1, <1>3, <2>1
<1>6. Cardinality(1 .. idx) = idx
  BY <1>1, FS_Interval
<1>7. idx + 1 = Slot(Searched, key)
  <2>1. Slot(Searched, key) = 1 + Cardinality({i \in DOMAIN is : is[i].key < key})
    BY <1>2, Zenon DEF Slot
  <2>2. Slot(Searched, key) = 1 + idx
    BY <2>1, <1>5, <1>6, Zenon
  <2> QED
    BY <1>1, <2>2
<1> QED
  BY <1>4, <1>7

\* The search stays inside the node and returns the place of the key, however
\* many items the node has and whatever they are.
THEOREM SearchCorrect == Spec => [](TypeOK /\ Window /\ SearchIsRight)
<1>1. IInv => TypeOK /\ Window /\ SearchIsRight
  BY AnswerIsSlot DEF IInv
<1> QED
  BY InitInv, StepInv, <1>1, PTL DEF Spec

\* However many items the node has: the probes rule out only items on the wrong
\* side of the key.
THEOREM SearchNarrows == Spec => []Window
<1>1. IInv => Window
  BY DEF IInv
<1> QED
  BY InitInv, StepInv, <1>1, PTL DEF Spec
=============================================================================
