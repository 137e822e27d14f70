----------------------------- MODULE MCPageFile -----------------------------
(***************************************************************************)
(* The page file with three nodes, and the page format on all small        *)
(* inputs.  A byte has 8 values, so a char is at most 3, a short 31 and an *)
(* int 2047.  The inner node just fits a page of 26 bytes, and a free list *)
(* of one page does.                                                       *)
(***************************************************************************)
EXTENDS PageFile

Leaf == [items |-> << [key |-> <<1>>, value |-> <<7, 0>>], [key |-> <<2, 3>>, value |-> <<>>] >>,
         kids |-> <<>>]
Inner == [items |-> << [key |-> <<1>>, value |-> <<5>>] >>, kids |-> <<3, 4>>]
MCNode == {EmptyNode, Leaf, Inner}

Text(len, byte) == [i \in 1 .. len |-> byte]
Items(keys, values) == {[key |-> Text(k, 5), value |-> Text(v, 7)] : k \in keys, v \in values}
Leaves(n, items) == {[items |-> s, kids |-> <<>>] : s \in [1 .. n -> items]}
Inners(n, items) ==
    {[items |-> s, kids |-> [i \in 1 .. n + 1 |-> i]] : s \in [1 .. n -> items]}

\* Leaves of up to four items and inner nodes of up to two, around every limit:
\* lengths 0, 3 and 4, lengths that wrap to 0 and 1, pages just full.
MCNodes ==
    LET any == Items({1, 3, 4, 8, 9}, {0, 1, 3, 4, 8})
        few == Items({1, 2}, {0, 1, 3})
    IN  UNION {Leaves(n, any) : n \in 0 .. 2} \cup Leaves(3, few)
            \cup Leaves(4, Items({1}, {0, 1})) \cup Inners(0, any)
            \cup Leaves(1, Items({0}, {0, 3}))
            \cup Inners(1, any) \cup Inners(2, Items({1}, {0, 1}))

MCNumbers == (0 .. 70) \cup (2040 .. 2060) \cup (4090 .. 4100) \cup {8 ^ 7, 8 ^ 8 - 1}
MCLists == {[maxPage |-> 90, releasedPages |-> pages] :
                pages \in UNION {[1 .. n -> {2, 7, 9, 80}] : n \in 0 .. 4}}

\* Where the format ends: a node that is bigger than a page or has a longer
\* string does not read back, nor does a list that does not fit its page; a node
\* that just fills its page may or may not.
FormatLimits == AtFirst =>
    /\ \A n \in MCNodes : NodeReadsBack(n) => LengthsFit(n) /\ Size(n) <= PageSize
    /\ \E n \in MCNodes : LengthsFit(n) /\ Size(n) = PageSize /\ ~NodeReadsBack(n)
    /\ \A f \in MCLists : FreeListReadsBack(f) => FreeListFits(f)
=============================================================================
