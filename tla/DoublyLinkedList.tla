--------------------------- MODULE DoublyLinkedList ---------------------------
(***************************************************************************)
(* Classes DoublyLinkedList and Linkable (std/): objects that hold their   *)
(* own links, and a list of three pointers and a count.  UDPServer keeps   *)
(* its clients and messages in such lists.  The caller adds an object that *)
(* is in no list; a removed object keeps the links it had.                 *)
(***************************************************************************)
EXTENDS Integers, FiniteSets, Sequences

CONSTANTS
    Object,  \* the objects
    Garbage, \* what the uninitialized count may be
    NULL

ASSUME DLAssumption ==
    /\ IsFiniteSet(Object) /\ NULL \notin Object
    /\ Garbage \subseteq Int

VARIABLES
    next, prev,          \* links of the objects
    head, tail, current, \* the list
    count,
    members              \* history: the objects the caller added and did not remove

links == <<next, prev>>
ends  == <<head, tail>>
listVars == <<links, ends, current, count, members>>

Pointer == Object \cup {NULL}

ListTypeOK ==
    /\ next \in [Object -> Pointer] /\ prev \in [Object -> Pointer]
    /\ head \in Pointer /\ tail \in Pointer /\ current \in Pointer
    /\ count \in Garbage \cup 0..Cardinality(Object)
    /\ members \subseteq Object

\* The constructors; that of the list leaves the count alone.
ListInit ==
    /\ next = [o \in Object |-> NULL] /\ prev = [o \in Object |-> NULL]
    /\ head = NULL /\ tail = NULL /\ current = NULL
    /\ count \in Garbage
    /\ members = {}

-----------------------------------------------------------------------------
\* Link p's field to o, where p may be NULL.
Set(link, p, o) == IF p = NULL THEN link ELSE [link EXCEPT ![p] = o]

initList(o) ==
    /\ head' = o /\ tail' = o /\ current' = o
    /\ next' = [next EXCEPT ![o] = NULL] /\ prev' = [prev EXCEPT ![o] = NULL]
    /\ count' = 1

\* addBefore with current = c.
LinkBefore(c, o) ==
    IF c = NULL THEN initList(o)
    ELSE /\ next' = Set([next EXCEPT ![o] = c], prev[c], o)
         /\ prev' = [prev EXCEPT ![o] = prev[c], ![c] = o]
         /\ head' = IF prev[c] = NULL THEN o ELSE head
         /\ current' = o /\ count' = count + 1
         /\ UNCHANGED tail

\* Mutant: the object that follows keeps its link.
LinkAfterOnly(c, o) ==
    IF c = NULL THEN initList(o)
    ELSE /\ next' = [next EXCEPT ![o] = next[c], ![c] = o]
         /\ prev' = [prev EXCEPT ![o] = c]
         /\ tail' = IF next[c] = NULL THEN o ELSE tail
         /\ current' = o /\ count' = count + 1
         /\ UNCHANGED head

\* addAfter with current = c.
LinkAfter(c, o) ==
    IF c = NULL THEN initList(o)
    ELSE /\ next' = [next EXCEPT ![o] = next[c], ![c] = o]
         /\ prev' = Set([prev EXCEPT ![o] = c], next[c], o)
         /\ tail' = IF next[c] = NULL THEN o ELSE tail
         /\ current' = o /\ count' = count + 1
         /\ UNCHANGED head

Added(o) == o \notin members /\ members' = members \cup {o}

addBefore(o) == Added(o) /\ LinkBefore(current, o)
addAfter(o)  == Added(o) /\ LinkAfter(current, o)
addFirst(o)  == Added(o) /\ LinkBefore(head, o)
addLast(o)   == Added(o) /\ LinkAfter(tail, o)

-----------------------------------------------------------------------------
UnlinkHead ==
    /\ current' = next[head] /\ head' = next[head]
    /\ prev' = Set(prev, next[head], NULL)
    /\ tail' = IF next[head] = NULL THEN NULL ELSE tail
    /\ UNCHANGED next

UnlinkTail ==
    /\ current' = prev[tail] /\ tail' = prev[tail]
    /\ next' = Set(next, prev[tail], NULL)
    /\ head' = IF prev[tail] = NULL THEN NULL ELSE head
    /\ UNCHANGED prev

\* Mutant: the previous object becomes current.
UnlinkMoveBack(c) ==
    /\ next' = [next EXCEPT ![prev[c]] = next[c]]
    /\ prev' = [prev EXCEPT ![next[c]] = prev[c]]
    /\ current' = prev[c]
    /\ UNCHANGED ends

UnlinkMiddle(c) ==
    /\ next' = [next EXCEPT ![prev[c]] = next[c]]
    /\ prev' = [prev EXCEPT ![next[c]] = prev[c]]
    /\ current' = next[c]
    /\ UNCHANGED ends

\* remove with current = c.
Unlink(c) ==
    /\ c # NULL
    /\ \/ c = head /\ UnlinkHead
       \/ c # head /\ c = tail /\ UnlinkTail
       \/ c \notin {head, tail} /\ UnlinkMiddle(c)
    /\ count' = count - 1
    /\ members' = members \ {c}

remove == Unlink(current)
pop    == Unlink(tail)

removeFromEmpty ==
    /\ current = NULL /\ count' = 0
    /\ UNCHANGED <<links, ends, current, members>>

-----------------------------------------------------------------------------
MoveTo(p) == current' = p /\ UNCHANGED <<links, ends, count, members>>

stepForward  == current # NULL /\ next[current] # NULL /\ MoveTo(next[current])
stepBackward == current # NULL /\ prev[current] # NULL /\ MoveTo(prev[current])
gotoStart    == MoveTo(head)
gotoEnd      == MoveTo(tail)

ListNext ==
    \/ \E o \in Object : addBefore(o) \/ addAfter(o) \/ addFirst(o) \/ addLast(o)
    \/ remove \/ pop \/ removeFromEmpty
    \/ stepForward \/ stepBackward \/ gotoStart \/ gotoEnd

ListSpec == ListInit /\ [][ListNext]_listVars

-----------------------------------------------------------------------------
\* The objects met from p along a link, up to NULL.
Walk(p, link) ==
    LET at[i \in 1..Cardinality(Object) + 1] ==
            IF i = 1 THEN p
            ELSE IF at[i - 1] = NULL THEN NULL ELSE link[at[i - 1]]
        length == Cardinality({i \in 1..Cardinality(Object) + 1 : at[i] # NULL})
    IN  [i \in 1..length |-> at[i]]

Forward  == Walk(head, next)
Backward == Walk(tail, prev)

\* The list read backwards is the list read forwards, and it has what the caller
\* put in, whatever was added, removed and visited before.
SameBothWays ==
    /\ Len(Forward) = Cardinality(members)
    /\ {Forward[i] : i \in DOMAIN Forward} = members
    /\ Len(Backward) = Len(Forward)
    /\ \A i \in DOMAIN Forward : Backward[i] = Forward[Len(Forward) + 1 - i]

Position == IF current = NULL THEN 0 ELSE CHOOSE i \in DOMAIN Forward : Forward[i] = current

AsList == INSTANCE CursorList WITH items <- Forward, cursor <- Position, size <- count

\* Every operation does to the list of objects what its name says.
IsCursorList == AsList!Spec
================================================================================
