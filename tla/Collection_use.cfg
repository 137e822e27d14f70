\* A leaf holds two items of a document, or all records of the collection.
SPECIFICATION Spec
CONSTANTS
    NNames = 2
    NKeys = 3
    RecordBytes = 6
    Name <- MCName
    DocumentKey <- MCDocumentKey
    Key <- MCKey
    Text = {Long}
    Value <- MCValue
    KeysFor <- MCKeysFor
    Garbled = Garbled
    Bytes <- MCBytes
    MaxThreshold = 102
    MinThreshold = 52
    Handle = {h1, h2}
    None = None
    CountRange = 5
    MaxInt = 3
    MaxPages = 7
    MaxTx = 2
    MaxLost = 1
    Situation = {}
SYMMETRY Symmetry
INVARIANTS HandlesCurrent OwnTrees
PROPERTIES RemovalAloneLosesPages ImplementsCollection
CHECK_DEADLOCK FALSE
