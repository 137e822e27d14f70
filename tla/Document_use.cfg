\* The thresholds are those of main.cpp, fill between .0125 and .025 of 4096
\* bytes: a leaf or an inner node holds two long items, a leaf three if one is
\* short.  Pages up to 7 give the root three leaves.
SPECIFICATION Spec
CONSTANTS
    NKeys = 4
    Key <- MCKey
    Value = {Long, Short}
    Short = Short
    Long = Long
    Garbled = Garbled
    Mixed = {3, 4}
    Bytes <- MCBytes
    ValuesFor <- MCValuesFor
    MaxThreshold = 102
    MinThreshold = 52
    MaxPages = 7
    Situation = {}
INVARIANTS TypeOK Balanced SearchTree NodesFit PagesAccounted CountMatches
PROPERTY ImplementsDocument
