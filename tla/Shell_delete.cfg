\* 2^64 and 2^31 - 1 are scaled to 8 and 3; no tree has three items.  Pages up
\* to 5 let a collection and two documents exist, or two and one, or one be
\* deleted and made again.
SPECIFICATION Spec
CONSTANTS
    Line <- MCLine
    Collection = {"a", "b"}
    DocumentName = {"x", "y"}
    Key = {"k"}
    Value = {"v", "w"}
    MaxPages = 5
    CountRange = 8
    MaxInt = 3
INVARIANT CollectionsOpen
