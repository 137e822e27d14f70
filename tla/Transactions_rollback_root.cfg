CONSTANTS
    t1 = t1
    t2 = t2
    Thread = {t1, t2}
    NoThread = NoThread
    empty = empty
    full = full
    Node = {empty}
    EmptyNode = empty
    NoNode = NoNode
    MaxPages = 3
    MaxTx = 1
    Situation = {"rollbackNewRoot"}
CHECK_DEADLOCK FALSE
SPECIFICATION Spec
INVARIANT RootInTree
