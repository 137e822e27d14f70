----------------------------- MODULE PageFormat -----------------------------
(***************************************************************************)
(* What the pages of the file look like: utils/ioutils.h (integers), and   *)
(* serialize and deserialize of Meta, FreeList and Node.                   *)
(*                                                                         *)
(* A page is a function from positions to bytes.  A byte has ByteRange     *)
(* values, so that a small ByteRange scales every limit that comes from    *)
(* the width of a char, a short or an int; a key or a value is a sequence  *)
(* of bytes.  What is written outside the page is written outside its      *)
(* buffer; Overruns says when.                                             *)
(***************************************************************************)
EXTENDS FreeList

CONSTANTS
    ByteRange,  \* values of a byte, 256
    PageSize,   \* Options::pageSize
    Unreadable  \* a page that deserialize does not get through

CharSize == 1
ShortSize == 2  \* __int16
IntSize == 4
LongSize == 8   \* uint64 and pgnum, PAGE_NUM_SIZE

\* How many numbers so many bytes have.
Values[size \in Nat] == IF size = 0 THEN 1 ELSE ByteRange * Values[size - 1]

ASSUME FormatAssumption ==
    /\ ByteRange \in Nat /\ ByteRange > 1 /\ ByteRange % 2 = 0
    /\ PageSize \in Nat /\ 2 * LongSize <= PageSize
    /\ PageSize <= Values[ShortSize] \div 2

Byte == 0 .. ByteRange - 1
Position == 0 .. PageSize - 1

\* Dal::allocateEmptyPage.
EmptyPage == [i \in Position |-> 0]

\* Some bytes that are copied to a position, <<position, bytes>>, cover a position
\* with one of them.
Covers(write, p) == p - write[1] + 1 \in DOMAIN write[2]
ByteOf(write, p) == write[2][p - write[1] + 1]

\* An empty page after such writes: the last one over a position counts.
Written(writes) ==
    LET over(p) == {i \in DOMAIN writes : Covers(writes[i], p)}
    IN  [p \in Position |-> IF over(p) = {} THEN 0 ELSE ByteOf(writes[Max(over(p))], p)]

\* The sum of the first i of a sequence of numbers.
SumOf(numbers, i) ==
    LET sum[j \in 0 .. Len(numbers)] == IF j = 0 THEN 0 ELSE sum[j - 1] + numbers[j]
    IN  sum[i]

\* A number as a signed integer of a width.
Signed(n, size) ==
    LET half == Values[size] \div 2
    IN  ((n + half) % Values[size]) - half

CharMax == ByteRange \div 2 - 1

\* writeIntToStream: little endian.
IntBytes(n, size) == [i \in 1 .. size |-> (n \div Values[i - 1]) % ByteRange]
Long(n) == IntBytes(n, LongSize)

\* readIntFromStream<char> and <__int16>.
Unsigned(page, pos, size) ==
    SumOf([i \in 1 .. size |-> page[pos + i - 1] * Values[i - 1]], size)
ReadSigned(page, pos, size) == Signed(Unsigned(page, pos, size), size)

\* readIntFromStream<uint64> shifts each byte as an int.  The lower bytes make
\* an int that is sign-extended; a byte above them is shifted by more than the
\* width of an int, for which C++ defines no result.
NoNumber == -1
ReadLong_Mutant(page, pos) ==                  \* read as a short
    ReadSigned(page, pos, ShortSize) % Values[LongSize]
ReadLong(page, pos) ==
    IF \A i \in IntSize .. LongSize - 1 : page[pos + i] = 0
    THEN ReadSigned(page, pos, IntSize) % Values[LongSize]
    ELSE NoNumber
-----------------------------------------------------------------------------
\* Meta::serialize and Meta::deserialize.
SerializeMeta(m) == Written(<< <<0, Long(m.freelistPage)>>, <<LongSize, Long(m.root)>> >>)
DeserializeMeta(page) ==
    [freelistPage |-> ReadLong(page, 0), root |-> ReadLong(page, LongSize)]

\* FreeList::serialize.
ReleasedAt(i) == (i + 1) * LongSize
FreeListWrites(f) ==
    << <<0, Long(f.maxPage)>>, <<LongSize, Long(Len(f.releasedPages))>> >>
        \o [i \in DOMAIN f.releasedPages |-> <<ReleasedAt(i), Long(f.releasedPages[i])>>]
SerializeFreeList(f) == Written(FreeListWrites(f))
FreeListFits(f) == (2 + Len(f.releasedPages)) * LongSize <= PageSize

\* FreeList::deserialize, of a list that lies in the page.
DeserializeFreeList(page) ==
    LET count == ReadLong(page, LongSize)
    IN  IF count \in 0 .. PageSize \div LongSize - 2
        THEN [maxPage |-> ReadLong(page, 0),
              releasedPages |-> [i \in 1 .. count |-> ReadLong(page, ReleasedAt(i))]]
        ELSE Unreadable
-----------------------------------------------------------------------------
(***************************************************************************)
(* Nodes.  A node is a record [items, kids], its items are [key, value].   *)
(* From the start of the page: a header, and per item the page of a child, *)
(* if there are any, and the offset of the item; from the end of the page  *)
(* downwards the items themselves, each a length and a key, a length and a *)
(* value.                                                                  *)
(***************************************************************************)
HeaderSize == CharSize + ShortSize     \* NODE_HEADER_SIZE
LengthsSize == 2 * CharSize

IsLeaf(n) == n.kids = <<>>

\* kLen and vLen: the lengths as chars.
CharLength(s) == Signed(Len(s), CharSize)
LengthOf(item) == CharLength(item.key) + CharLength(item.value)

\* Node::size.
Pointer(isLeaf) == IF isLeaf THEN 0 ELSE LongSize
SizeOf(isLeaf, item) ==
    Pointer(isLeaf) + ShortSize + LengthsSize + Len(item.key) + Len(item.value)
Size(n) ==
    HeaderSize + Pointer(IsLeaf(n))
        + SumOf([i \in DOMAIN n.items |-> SizeOf(IsLeaf(n), n.items[i])], Len(n.items))

\* startPos before an item, and after the last.
HeaderAt(isLeaf, i) == HeaderSize + (i - 1) * (Pointer(isLeaf) + ShortSize)

\* endPos before an item; the last byte of the page stays unused.
LastPosition_Mutant == PageSize                \* bufSize, not bufSize - 1
LastPosition == PageSize - 1
EndAt(n, i) ==
    LastPosition - SumOf([j \in DOMAIN n.items |-> LengthOf(n.items[j]) + LengthsSize], i - 1)
OffsetOf(n, i) == EndAt(n, i + 1)

\* std::string::copy(buf, len): a negative length is a huge count.
Copied(s, len) == IF len < 0 THEN s ELSE SubSeq(s, 1, len)

\* The bytes Node::serialize writes, with their positions and in its order.
ItemWrites(n, i) ==
    LET item == n.items[i]
        kLen == CharLength(item.key)
        vLen == CharLength(item.value)
        start == HeaderAt(IsLeaf(n), i)
        valueAt == EndAt(n, i) - vLen
        keyAt == valueAt - CharSize - kLen
    IN  (IF IsLeaf(n) THEN <<>> ELSE << <<start, Long(n.kids[i])>> >>)
        \o << <<start + Pointer(IsLeaf(n)), IntBytes(OffsetOf(n, i), ShortSize)>>,
              <<valueAt, Copied(item.value, vLen)>>,
              <<valueAt - CharSize, IntBytes(vLen, CharSize)>>,
              <<keyAt, Copied(item.key, kLen)>>,
              <<keyAt - CharSize, IntBytes(kLen, CharSize)>> >>

NodeWrites(n) ==
    << <<0, <<IF IsLeaf(n) THEN 1 ELSE 0>> \o IntBytes(Len(n.items), ShortSize)>> >>
        \o FlattenSeq([i \in DOMAIN n.items |-> ItemWrites(n, i)])
        \o (IF IsLeaf(n) THEN <<>>
            ELSE << <<HeaderAt(FALSE, Len(n.items) + 1), Long(Last(n.kids))>> >>)

SerializeNode(n) == Written(NodeWrites(n))

\* Something is written outside the buffer.
Overruns(n) == \E w \in Range(NodeWrites(n)) :
    \E i \in DOMAIN w[2] : w[1] + i - 1 \notin Position

\* Node::deserialize.  A length that is negative throws, and one that leads
\* out of the page reads beyond it.
StringAt(page, pos) == SubSeq([i \in 1 .. PageSize |-> page[i - 1]], pos + 2,
                              pos + 1 + ReadSigned(page, pos, CharSize))
StringFits(page, pos) == pos \in Position /\
    LET len == ReadSigned(page, pos, CharSize) IN len >= 0 /\ pos + len \in Position

ItemOffset(page, isLeaf, i) ==
    ReadSigned(page, HeaderAt(isLeaf, i) + Pointer(isLeaf), ShortSize)
ValueOffset_Mutant(page, at) == at + ReadSigned(page, at, CharSize)  \* no length byte
ValueOffset(page, at) == at + CharSize + ReadSigned(page, at, CharSize)

DeserializeNode(page) ==
    LET isLeaf == page[0] # 0
        count == ReadSigned(page, CharSize, ShortSize)
        at(i) == ItemOffset(page, isLeaf, i)
        readable ==
            /\ HeaderAt(isLeaf, count + 1) + Pointer(isLeaf) <= PageSize
            /\ \A i \in 1 .. count : StringFits(page, at(i))
                                     /\ StringFits(page, ValueOffset(page, at(i)))
    IN  IF ~readable THEN Unreadable
        ELSE [items |-> [i \in 1 .. count |->
                  [key |-> StringAt(page, at(i)),
                   value |-> StringAt(page, ValueOffset(page, at(i)))]],
              kids |-> IF isLeaf THEN <<>>
                       ELSE [i \in 1 .. (IF count < 0 THEN 0 ELSE count) + 1 |->
                                ReadLong(page, HeaderAt(FALSE, i))]]
-----------------------------------------------------------------------------
(***************************************************************************)
(* What reads back.  The code checks none of these limits.                 *)
(***************************************************************************)
\* Half of the numbers an int has: page numbers and counts.
LongFits(n) == n < Values[IntSize] \div 2
LongReadsBack(n) == ReadLong(Written(<< <<0, Long(n)>> >>), 0) = n

\* A free list of pages with such numbers.
IsFreeList(f) ==
    /\ f \in [maxPage : Nat, releasedPages : Seq(Nat)] /\ LongFits(f.maxPage)
    /\ \A i \in DOMAIN f.releasedPages : LongFits(f.releasedPages[i])
FreeListReadsBack(f) == DeserializeFreeList(SerializeFreeList(f)) = f

\* What the classes can have in a node: strings of bytes, and no children or one
\* for each gap.
IsNode(n) ==
    /\ n \in [items : Seq([key : Seq(Byte), value : Seq(Byte)]), kids : Seq(Nat)]
    /\ IsLeaf(n) \/ Len(n.kids) = Len(n.items) + 1

LengthsFit(n) == \A i \in DOMAIN n.items :
    Len(n.items[i].key) <= CharMax /\ Len(n.items[i].value) <= CharMax
NodeFits(n) ==
    /\ LengthsFit(n)
    /\ \A i \in DOMAIN n.kids : LongFits(n.kids[i])
    /\ Size(n) < PageSize
NodeReadsBack(n) == ~Overruns(n) /\ DeserializeNode(SerializeNode(n)) = n
=============================================================================
