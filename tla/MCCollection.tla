---------------------------- MODULE MCCollection ----------------------------
\* Documents 1.. of keys 1..NKeys; the values are long items, the records short
\* ones or, with long names, long ones.
EXTENDS Collection

CONSTANTS NNames, NKeys, RecordBytes

MCName == 1 .. NNames
MCDocumentKey == 1 .. NKeys
MCKey == 0 .. NKeys
MCValue == Text \cup Record
MCBytes == [v \in Value \cup {Garbled} |-> IF v \in Record THEN RecordBytes ELSE 30]
MCKeysFor == [d \in Name |-> IF d = 1 THEN DocumentKey ELSE {1}]
Symmetry == Permutations(Handle)
=============================================================================
