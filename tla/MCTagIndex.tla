------------------------------- MODULE MCTagIndex -------------------------------
(***************************************************************************)
(* Small instances of TagIndex: two analog inputs and an engineering input *)
(* share a counter, and one point has a type that the build does not know. *)
(***************************************************************************)
EXTENDS TagIndex, TLC

CONSTANTS t1, t2, t3, t4

Tags == {t1, t2, t3, t4}

MixedTypes == [t \in Tags |-> CASE t = t3 -> "EI" [] t = t4 -> "XX" [] OTHER -> "AI"]

\* The two analog inputs may be exchanged.
Alike == Permutations({t1, t2})
================================================================================
