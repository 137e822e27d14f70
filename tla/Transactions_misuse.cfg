CONSTANTS
    t1 = t1
    t2 = t2
    Thread = {t1, t2}
    NoThread = NoThread
    empty = empty
    full = full
    Node = {empty}
    EmptyNode = empty
    NoNode = NoNode
    MaxPages = 3
    MaxTx = 2
    Situation = {"rollbackNewRoot", "readerWrites", "abandon"}
CHECK_DEADLOCK FALSE
SPECIFICATION FairSpec
PROPERTY WriterGetsLock
