----------------------------- MODULE MCControlPath -----------------------------
(***************************************************************************)
(* Small instances of ControlPath: one digital and one analog output.      *)
(***************************************************************************)
EXTENDS ControlPath

CONSTANTS d1, a1, a2

Tags == {d1, a1, a2}

\* Index 2 is unknown among the digital outputs.
AllTags  == [k \in {<<"DO", 1>>, <<"AO", 1>>, <<"AO", 2>>} |->
                CASE k = <<"DO", 1>> -> d1 [] k = <<"AO", 1>> -> a1 [] OTHER -> a2]

\* a1 has a range with a negative end, a2 has no row in anapnt.
Signed   == [lowEng |-> -2, lowRaw |-> 0, hiEng |-> 4, hiRaw |-> 2]
OneRange == [t \in {a1} |-> Signed]
================================================================================
