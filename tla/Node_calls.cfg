\* Nodes of up to five of seven keys, every key searched for; two or three
\* children of up to four items of two sizes, thresholds that hold two to four
\* of the longer items.
SPECIFICATION CallSpec
CONSTANTS
    Key <- MCKey
    Value <- MCValue
    Bytes <- MCBytes
    SearchKey <- MCSearchKey
    MaxItems = 5
    Short = Short
    Long = Long
    Garbled = Garbled
    MaxThreshold = 142
    MinThreshold = 71
    MaxKids = 3
    MaxChildItems = 4
INVARIANTS SearchIsRight OrderKept ChildrenAccounted
PROPERTY SearchEnds
\* Each method is called once.
CHECK_DEADLOCK FALSE
