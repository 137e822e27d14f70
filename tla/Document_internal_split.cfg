\* Seven items: the root gets a third item and is split.
SPECIFICATION Spec
CONSTANTS
    NKeys = 7
    Key <- MCKey
    Value = {Long}
    Short = Short
    Long = Long
    Garbled = Garbled
    Mixed = {}
    Bytes <- MCBytes
    ValuesFor <- MCValuesFor
    MaxThreshold = 102
    MinThreshold = 52
    MaxPages = 11
    Situation = {"internalOverflow"}
INVARIANT NoChildLost
