-------------------------------- MODULE HandOff --------------------------------
(***************************************************************************)
(* What a queue of changes of InfoLink promises the user of the class: a   *)
(* change is appended in one step, and one step hands all waiting changes  *)
(* over and leaves none behind.  ChangeQueue implements it.                *)
(***************************************************************************)
EXTENDS Naturals, Sequences

VARIABLES
    waiting,  \* the changes that no call has returned
    delivered \* the changes that calls have returned, in their order

Init == waiting = <<>> /\ delivered = <<>>

\* Changes are numbered as they come.
Put == /\ waiting' = Append(waiting, Len(waiting) + Len(delivered) + 1)
       /\ UNCHANGED delivered

TakeAll == delivered' = delivered \o waiting /\ waiting' = <<>>

Next == Put \/ TakeAll

Spec == Init /\ [][Next]_<<waiting, delivered>>
================================================================================
