------------------------------ MODULE MCStatusFeed -----------------------------
(***************************************************************************)
(* Small instances of StatusFeed, one per length of the report.            *)
(***************************************************************************)
EXTENDS StatusFeed

CONSTANTS a1, a2, a3

Addresses  == {a1, a2, a3}
TwoParts   == <<<<a1, a2>>, <<a3>>>>
ThreeParts == <<<<a1>>, <<a2>>, <<a3>>>>
================================================================================
