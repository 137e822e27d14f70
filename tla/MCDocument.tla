----------------------------- MODULE MCDocument -----------------------------
\* Documents with keys 1..NKeys and items of two sizes.
EXTENDS Document

CONSTANTS NKeys, Short, Long, Mixed

MCKey == 1 .. NKeys

\* Key and value together: "key1" and "value1" of main.cpp are 10 bytes, 30 are
\* the most that surely stay in the string objects.
MCBytes == [v \in Value \cup {Garbled} |-> IF v = Short THEN 10 ELSE 30]

\* The keys in Mixed get values of both sizes, the others long ones.
MCValuesFor == [k \in Key |-> IF k \in Mixed THEN Value ELSE {Long}]

\* The items and thresholds of the runs are those the theorems are about.
ASSUME RunsFit == ItemsFit
=============================================================================
