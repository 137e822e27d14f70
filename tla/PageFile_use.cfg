SPECIFICATION Spec
CONSTANTS
    ByteRange = 8
    PageSize = 26
    Unreadable = Unreadable
    Node <- MCNode
    NoNode = NoNode
    SomeNodes <- MCNodes
    SomeNumbers <- MCNumbers
    SomeLists <- MCLists
    MaxPages = 4
    MaxTx = 2
    MaxStarts = 3
    Situation = {}
INVARIANTS TypeOK WholeFileIsDatabase EndedIsWritten OpensAsLeft ReadsAreCurrent
    NodeRoundTrip  
CHECK_DEADLOCK FALSE
