----------------------------- MODULE MCChangeQueue -----------------------------
(***************************************************************************)
(* Small instances of ChangeQueue.                                         *)
(***************************************************************************)
EXTENDS ChangeQueue

CONSTANTS l1, l2, u1, u2

Threads == {l1, l2, u1, u2}
================================================================================
