CONSTANTS
    t1 = t1
    t2 = t2
    Thread = {t1, t2}
    NoThread = NoThread
    empty = empty
    full = full
    Node = {empty, full}
    EmptyNode = empty
    NoNode = NoNode
    MaxPages = 3
    MaxTx = 2
    Situation = {"crash"}
CHECK_DEADLOCK FALSE
SPECIFICATION Spec
SYMMETRY Clients
INVARIANTS TypeOK WriterIsAlone OnePageOneOwner EveryPageAccounted RootInTree MemoryMatchesFile Recoverable
PROPERTY ImplementsSerialStore
