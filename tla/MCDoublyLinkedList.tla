-------------------------- MODULE MCDoublyLinkedList --------------------------
(***************************************************************************)
(* A small instance of DoublyLinkedList: with four objects a list has a    *)
(* head, a tail and a middle of two, and an object outside it.             *)
(***************************************************************************)
EXTENDS DoublyLinkedList, TLC

CONSTANTS o1, o2, o3, o4

Objects == {o1, o2, o3, o4}
Perms   == Permutations(Objects)
================================================================================
