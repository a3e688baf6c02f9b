------------------------------ MODULE CursorList -------------------------------
(***************************************************************************)
(* What class DoublyLinkedList promises: a list with a cursor.  An added   *)
(* object becomes the current one; after a removal it is the next object,  *)
(* or the previous one when the last was removed; the count is that of the *)
(* objects, once there was one.  DoublyLinkedList implements it.           *)
(***************************************************************************)
EXTENDS Integers, Sequences, SequencesExt

CONSTANTS
    Object,
    Garbage \* what the count of a new list may be

VARIABLES
    items,  \* the objects in their order
    cursor, \* position of the current one, 0 in an empty list
    size    \* the count

Init == items = <<>> /\ cursor = 0 /\ size \in Garbage

\* o comes to stand at position i and becomes current.
Insert(i, o) ==
    /\ o \notin ToSet(items)
    /\ items' = InsertAt(items, i, o)
    /\ cursor' = i /\ size' = Len(items')

Add ==
    \E o \in Object :
        \E i \in {1, cursor, cursor + 1, Len(items) + 1} \ {0} :
            Insert(i, o)

Delete(i) ==
    /\ items # <<>>
    /\ items' = RemoveAt(items, i)
    /\ cursor' = IF i <= Len(items') THEN i ELSE Len(items')
    /\ size' = Len(items')

DeleteFromEmpty ==
    items = <<>> /\ size' = 0 /\ UNCHANGED <<items, cursor>>

Move ==
    /\ items # <<>>
    /\ cursor' \in {1, cursor - 1, cursor + 1, Len(items)} \cap (1..Len(items))
    /\ UNCHANGED <<items, size>>

Next ==
    \/ Add
    \/ Delete(cursor) \/ Delete(Len(items))
    \/ DeleteFromEmpty
    \/ Move

Spec == Init /\ [][Next]_<<items, cursor, size>>
================================================================================
