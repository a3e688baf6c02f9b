------------------------------ MODULE MCAlarmFeed ------------------------------
(***************************************************************************)
(* Small instances of AlarmFeed.                                           *)
(***************************************************************************)
EXTENDS AlarmFeed

CONSTANTS a1, a2

Addresses == {a1, a2}
================================================================================
