\* A leaf loses its last item.
SPECIFICATION Spec
CONSTANTS
    NKeys = 3
    Key <- MCKey
    Value = {Long}
    Short = Short
    Long = Long
    Garbled = Garbled
    Mixed = {}
    Bytes <- MCBytes
    ValuesFor <- MCValuesFor
    MaxThreshold = 102
    MinThreshold = 52
    MaxPages = 7
    Situation = {}
INVARIANT PredecessorExists
