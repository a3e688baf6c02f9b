------------------------------ MODULE StatusFeed -------------------------------
(***************************************************************************)
(* The status listener of class InfoLink.  It registers the addresses it   *)
(* watches; infoserver answers with an ACK and a report of all of them, in *)
(* several datagrams when one is too small, and then sends every change.   *)
(* The parts but the last begin with MORE+ and are collected in            *)
(* recv_buffer.  The user may have the socket made anew ("reset status").  *)
(* Infoserver is external: it makes a report when it is asked for, cuts it *)
(* between two points and sends the parts one by one; changes may come     *)
(* between them, and any datagram may be lost.  This is the listener       *)
(* without a callback: with one, a message goes no further than the queue, *)
(* as in AlarmFeed.                                                        *)
(***************************************************************************)
EXTENDS Naturals, Sequences

CONSTANTS
    Address,    \* the watched points
    Value,      \* values of a point
    Parts,      \* the report: a sequence of sequences of addresses
    MaxChanges, \* bound: changes of points
    MaxLost,    \* bound: datagrams lost on their way
    MaxResets,  \* bound: "reset status" requests
    None        \* no entry, no message

ASSUME SFAssumption ==
    /\ Parts \in Seq(Seq(Address)) /\ Len(Parts) > 0
    /\ MaxChanges \in Nat /\ MaxLost \in Nat /\ MaxResets \in Nat

VARIABLES
    value,    \* infoserver: the points
    started,  \* the listener has registered
    watched,  \* infoserver's registration leads to the listener's socket
    reported, \* infoserver: the points as they were when it made the report
    unsent,   \* infoserver: the parts of the report that it has not sent yet
    channel,  \* datagrams in the socket
    pc,       \* where the listener is
    msg,      \* the datagram in its buffer
    recv,     \* recv_buffer: the parts collected
    status,   \* the map: the last value stored for an address
    queue,    \* changed_status
    changes,  \* changes so far
    resets,   \* resets so far
    lost,     \* datagrams lost so far on their way to the socket
    behind    \* history: the points whose last news was lost, or was sent before
              \* the report was complete

server   == <<value, reported, unsent, changes, behind>>
socket   == <<started, watched, resets>>
listener == <<pc, msg, recv, status>>
vars     == <<server, socket, channel, lost, listener, queue>>

Point   == [addr : Address, val : Value]
Kinds   == {"ACK", "MORE", "LAST", "STATUS"}
Message == [kind : Kinds, points : Seq(Point)]

TypeOK ==
    /\ value \in [Address -> Value]
    /\ started \in BOOLEAN /\ watched \in BOOLEAN
    /\ reported \in [Address -> Value] /\ unsent \in 0..Len(Parts)
    /\ behind \subseteq Address
    /\ channel \in Seq(Message)
    /\ pc \in {"read", "store"}
    /\ msg \in Message \cup {None}
    /\ recv \in Seq(Message)
    /\ status \in [Address -> Value \cup {None}]
    /\ queue \in Seq(Message)
    /\ changes \in 0..MaxChanges /\ resets \in 0..MaxResets
    /\ lost \in 0..MaxLost

Init ==
    /\ value \in [Address -> Value]
    /\ started = FALSE /\ watched = FALSE /\ channel = <<>>
    /\ pc = "read" /\ msg = None /\ recv = <<>>
    /\ status = [a \in Address |-> None]
    /\ queue = <<>>
    /\ reported = value /\ unsent = 0 /\ behind = {}
    /\ changes = 0 /\ resets = 0 /\ lost = 0

-----------------------------------------------------------------------------
(***************************************************************************)
(* Infoserver, and the datagrams to the listener's socket.                 *)
(***************************************************************************)

\* A datagram gets to the listener's socket or is lost on its way, or was sent to a
\* socket that nobody reads any more.
Delivered(m) == channel' = Append(channel, m) /\ UNCHANGED lost

Lost == lost < MaxLost /\ lost' = lost + 1 /\ UNCHANGED channel

Astray == ~watched /\ UNCHANGED <<channel, lost>>

\* A part of the report of the points as they were in old.
Part(i, old) ==
    [kind   |-> IF i < Len(Parts) THEN "MORE" ELSE "LAST",
     points |-> [j \in 1..Len(Parts[i]) |-> [addr |-> Parts[i][j], val |-> old[Parts[i][j]]]]]

\* The thread starts: "5 13 -1" and the addresses.  Infoserver answers with an ACK
\* and makes its report.
Register ==
    /\ ~started /\ started' = TRUE /\ watched' = TRUE
    /\ reported' = value /\ unsent' = Len(Parts) /\ behind' = {}
    /\ Delivered([kind |-> "ACK", points |-> <<>>]) \/ Lost
    /\ UNCHANGED <<value, changes, resets, listener, queue>>

\* Without its last part a report comes to nothing.
Reports(n) == IF n = Len(Parts) THEN Address ELSE {Parts[n][j] : j \in 1..Len(Parts[n])}

SendPart ==
    /\ unsent > 0 /\ unsent' = unsent - 1
    /\ LET n == Len(Parts) - unsent + 1
       IN \/ watched /\ Delivered(Part(n, reported)) /\ UNCHANGED behind
          \/ watched /\ Lost /\ behind' = behind \cup Reports(n)
          \/ Astray /\ UNCHANGED behind
    /\ UNCHANGED <<value, reported, changes, socket, listener, queue>>

Change(a, v) ==
    /\ changes < MaxChanges /\ changes' = changes + 1
    /\ v # value[a] /\ value' = [value EXCEPT ![a] = v]
    /\ \/ /\ watched /\ Delivered([kind |-> "STATUS", points |-> <<[addr |-> a, val |-> v]>>])
          /\ behind' = IF unsent > 0 THEN behind \cup {a} ELSE behind \ {a}
       \/ watched /\ Lost /\ behind' = behind \cup {a}
       \/ Astray /\ UNCHANGED behind
    /\ UNCHANGED <<reported, unsent, socket, listener, queue>>

\* initStatusSocket(): the new socket has a port that infoserver does not know,
\* and nobody registers again.
ResetSocket ==
    /\ started /\ resets < MaxResets /\ resets' = resets + 1
    /\ watched' = FALSE /\ channel' = <<>>
    /\ UNCHANGED <<server, started, lost, listener, queue>>

-----------------------------------------------------------------------------
(***************************************************************************)
(* listenToInfoserverStatus.                                               *)
(***************************************************************************)

\* readMessage and setStatus; an ACK is skipped.
Receive ==
    /\ pc = "read" /\ channel # <<>>
    /\ msg' = Head(channel) /\ channel' = Tail(channel)
    /\ queue' = IF msg'.kind = "ACK" THEN queue ELSE Append(queue, msg')
    /\ pc' = IF msg'.kind = "ACK" THEN "read" ELSE "store"
    /\ UNCHANGED <<server, socket, lost, recv, status>>

\* Mutant: the prefix is never taken off.
AllPrefixed(parts, i) == parts[i].kind = "MORE"

\* The prefix MORE+ is taken off the whole text, that is off its first part;
\* it stays before the first address of any other part.
Prefixed(parts, i) == i > 1 /\ parts[i].kind = "MORE"

Readable(parts) ==
    {parts[k[1]].points[k[2]] : k \in
        {k \in UNION {{i} \X DOMAIN parts[i].points : i \in DOMAIN parts} :
            ~(Prefixed(parts, k[1]) /\ k[2] = 1)}}

Stored(points) ==
    [a \in Address |-> IF \E p \in points : p.addr = a
                       THEN (CHOOSE p \in points : p.addr = a).val
                       ELSE status[a]]

StoreOne ==
    /\ pc = "store" /\ msg.kind = "STATUS" /\ pc' = "read"
    /\ status' = Stored({msg.points[1]})
    /\ UNCHANGED <<server, socket, channel, lost, msg, recv, queue>>

Collect ==
    /\ pc = "store" /\ msg.kind = "MORE" /\ pc' = "read"
    /\ recv' = Append(recv, msg)
    /\ UNCHANGED <<server, socket, channel, lost, msg, status, queue>>

StoreAll ==
    /\ pc = "store" /\ msg.kind = "LAST" /\ pc' = "read"
    /\ status' = Stored(Readable(Append(recv, msg)))
    /\ recv' = <<>>
    /\ UNCHANGED <<server, socket, channel, lost, msg, queue>>

\* getStatusChanges(), by the user, in the callback, or for the debug command
\* "changed status", which keeps them from the user.
TakeChanges ==
    /\ queue # <<>> /\ queue' = <<>>
    /\ UNCHANGED <<server, socket, channel, lost, listener>>

Listener == Register \/ Receive \/ StoreOne \/ Collect \/ StoreAll

Next ==
    \/ \E a \in Address, v \in Value : Change(a, v)
    \/ SendPart
    \/ ResetSocket
    \/ Listener
    \/ TakeChanges

Spec == Init /\ [][Next]_vars

\* The listener is an endless loop, and infoserver sends the whole report; points
\* change or not, users poll or not.
FairSpec == Spec /\ WF_vars(Listener) /\ WF_vars(SendPart)

-----------------------------------------------------------------------------
Quiet == unsent = 0 /\ channel = <<>> /\ pc = "read"

\* When the report is sent and all datagrams are handled, the map has the value of
\* every watched point, in whatever order changes and parts arrived, and whatever
\* was lost of the others: all but the points that are behind.  If nothing was lost,
\* a point is behind only because it changed while the report was sent: the listener
\* stores the change at once and the report when it is complete, so that the map
\* has the older value, until the next change.
StatusCurrent ==
    watched /\ Quiet => \A a \in Address :
        /\ a \notin behind => status[a] = value[a]
        /\ a \in behind /\ lost = 0 => status[a] = reported[a]

\* "status request functions that show current state of alarm & status"
\* (infolinker.hpp, of getStatus): when nothing was lost and all is handled, the map
\* has the value of every watched point.
ShowsCurrentState == watched /\ lost = 0 /\ Quiet => status = value

\* A value that stays is the one that the map shows in the end, after losses too, if
\* the news of it reached the listener's socket when the report was complete, or
\* the report has it.  After "reset status" infoserver's way leads nowhere, and
\* the map is never brought up to date.
StatusShown ==
    \A a \in Address, v \in Value :
        <>[](value[a] = v /\ watched /\ a \notin behind) => <>[](status[a] = v)
================================================================================
