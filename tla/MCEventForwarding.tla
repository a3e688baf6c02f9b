--------------------------- MODULE MCEventForwarding ---------------------------
(***************************************************************************)
(* Small instances of EventForwarding: a digital and an analog input share *)
(* the index 1, a virtual point has an index too.                          *)
(***************************************************************************)
EXTENDS EventForwarding

CONSTANTS p1, p2, v1

\* Two reported points, as dnp3buildConfigs numbers them: each class from 1.
TwoPoints   == {p1, p2}
TwoClasses  == [p \in TwoPoints |-> IF p = p1 THEN "DI" ELSE "AI"]
TwoIndices  == [p \in TwoPoints |-> 1]
SameClass   == [p \in TwoPoints |-> "AI"]
SameIndices == [p \in TwoPoints |-> IF p = p1 THEN 1 ELSE 2]

\* With a virtual point; p2 has a type that the program does not know, and no
\* index.
ThreePoints == {p1, p2, v1}
OddClasses == [p \in ThreePoints |->
                  CASE p = p1 -> "DI" [] p = p2 -> NoClass [] p = v1 -> "AI"]
OddIndices == [p \in {p1, v1} |-> 1]
================================================================================
