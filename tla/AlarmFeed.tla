------------------------------- MODULE AlarmFeed -------------------------------
(***************************************************************************)
(* The alarm listener of class InfoLink. Infoserver sends a datagram for   *)
(* every change of an alarm; the listener thread puts the message into the *)
(* queue of changes and then either calls the user's callback or applies   *)
(* the message to the map `alarms`. The user polls the queue and looks the *)
(* addresses up in the map. Infoserver is external: it is modelled by the  *)
(* life of an alarm that the listener's branches show (raised,             *)
(* acknowledged, cleared). The user may have the socket made anew ("reset  *)
(* alarm"). set...() and get...() are single steps: module ChangeQueue and *)
(* its proofs show that they may be. So are the operations of the          *)
(* std::map, which in the code have no mutex at all.                       *)
(***************************************************************************)
EXTENDS Naturals, Sequences

CONSTANTS
    Address,   \* alarm points
    MaxSent,   \* bound: messages
    MaxOthers, \* bound: messages of another kind among them, or an ACK too short
    MaxLost,   \* bound: datagrams lost on their way
    MaxResets, \* bound: "reset alarm" requests
    None       \* no address, no entry

\* "BARE": without a comma.
Kind == {"NEW", "CLEAR", "ACK", "OTHER", "BARE"}

Message == [no : 1..MaxSent, kind : Kind, addr : Address]

ASSUME AFAssumption ==
    /\ Address # {} /\ None \notin Address \cup Message
    /\ MaxSent \in Nat /\ MaxOthers \in Nat /\ MaxLost \in Nat /\ MaxResets \in Nat

VARIABLES
    active,  \* infoserver: the alarms that are on
    unacked, \* infoserver: the alarms that nobody has acknowledged
    channel, \* datagrams in the socket
    sent,    \* messages sent so far
    others,  \* messages of another kind among them
    lost,    \* datagrams lost so far, or sent where nobody reads
    started, \* the listener has registered
    watched, \* infoserver's registration leads to the listener's socket
    resets,  \* resets so far
    callback, \* func_ptr_alarm is given; it takes what is in the queue
    pc,      \* where the listener is
    msg,     \* the message in its buffer
    addr,    \* its local addr, which keeps its value from message to message
    queue,   \* changed_alarms; the flag is up when it is not empty
    alarms,  \* the map: the last message for an address
    todo,    \* the user's copy of the queue
    shown    \* history: the messages that the command "alarms" took from the queue

server   == <<active, unacked>>
listener == <<callback, pc, msg, addr, alarms>>
socket   == <<started, watched, resets>>
user     == <<todo, shown>>
vars     == <<server, channel, sent, others, lost, socket, listener, queue, user>>

TypeOK ==
    /\ active \subseteq Address /\ unacked \subseteq Address
    /\ channel \in Seq(Message)
    /\ sent \in 0..MaxSent /\ lost \in 0..MaxSent /\ others \in 0..MaxOthers
    /\ started \in BOOLEAN /\ watched \in BOOLEAN /\ resets \in 0..MaxResets
    /\ callback \in BOOLEAN
    /\ pc \in {"read", "call", "store"}
    /\ msg \in Message \cup {None}
    /\ addr \in Address \cup {None}
    /\ queue \in Seq(Message) /\ todo \in Seq(Message)
    /\ alarms \in [Address \cup {None} -> Message \cup {None}]
    /\ shown \subseteq 1..MaxSent

Init ==
    /\ active = {} /\ unacked = {}
    /\ channel = <<>> /\ sent = 0 /\ others = 0 /\ lost = 0
    /\ started = FALSE /\ watched = FALSE /\ resets = 0
    /\ callback \in BOOLEAN
    /\ pc = "read" /\ msg = None /\ addr = None
    /\ queue = <<>> /\ todo = <<>> /\ shown = {}
    /\ alarms = [a \in Address \cup {None} |-> None]

-----------------------------------------------------------------------------
(***************************************************************************)
(* Infoserver.                                                             *)
(***************************************************************************)

Send(kind, a) ==
    /\ sent < MaxSent /\ sent' = sent + 1
    /\ \/ watched /\ UNCHANGED lost
          /\ channel' = Append(channel, [no |-> sent + 1, kind |-> kind, addr |-> a])
       \/ /\ watched => lost < MaxLost
          /\ lost' = lost + 1 /\ UNCHANGED channel
    /\ UNCHANGED <<socket, listener, queue, user>>

RaiseAlarm(a) ==
    /\ a \notin active
    /\ active' = active \cup {a} /\ unacked' = unacked \cup {a}
    /\ Send("NEW", a) /\ UNCHANGED others

ClearAlarm(a) ==
    /\ a \in active
    /\ active' = active \ {a} /\ UNCHANGED unacked
    /\ Send("CLEAR", a) /\ UNCHANGED others

Acknowledge(a) ==
    /\ a \in unacked
    /\ unacked' = unacked \ {a} /\ UNCHANGED active
    /\ Send("ACK", a) /\ UNCHANGED others

\* The listener reads no address in such a message: any will do.
Unread == CHOOSE a \in Address : TRUE

SendOther ==
    /\ \/ Send("BARE", Unread) /\ UNCHANGED others
       \/ Send("OTHER", Unread) /\ others < MaxOthers /\ others' = others + 1
    /\ UNCHANGED server

-----------------------------------------------------------------------------
(***************************************************************************)
(* listenToInfoserverAlarm.                                                *)
(***************************************************************************)

\* The thread starts: initAlarmSocket() and "5 12 -1".
Register ==
    /\ ~started /\ started' = TRUE /\ watched' = TRUE
    /\ UNCHANGED <<server, channel, sent, others, lost, resets, listener, queue, user>>

\* initAlarmSocket() again, on the monitor's thread: nobody reads the old socket
\* any more, infoserver does not know the new one, and nobody registers it.
ResetSocket ==
    /\ started /\ resets < MaxResets /\ resets' = resets + 1
    /\ watched' = FALSE
    /\ channel' = <<>> /\ lost' = lost + Len(channel)
    /\ UNCHANGED <<server, sent, others, started, listener, queue, user>>

\* Mutant: an ACK is no change.
NotAcks(m) == IF m.kind = "ACK" THEN queue ELSE Append(queue, m)

\* setAlarm
Changed(m) == Append(queue, m)

\* readMessage and setAlarm.
Receive ==
    /\ started /\ pc = "read" /\ channel # <<>>
    /\ msg' = Head(channel) /\ channel' = Tail(channel)
    /\ queue' = Changed(msg')
    /\ pc' = IF callback THEN "call" ELSE "store"
    /\ UNCHANGED <<server, sent, others, lost, socket, callback, addr, alarms, user>>

\* The user's callback takes what is in the queue now; then `continue`.
Callback ==
    /\ pc = "call" /\ pc' = "read"
    /\ todo' = todo \o queue /\ queue' = <<>>
    /\ UNCHANGED <<server, channel, sent, others, lost, socket, callback, msg, addr, alarms, shown>>

Cleared(entry) == entry # None /\ entry.kind = "CLEAR"

\* Mutants: any ACK takes the alarm away; an ACK never does.
GoneOnAck(entry, m) == IF m.kind = "ACK" THEN None ELSE m
NeverGone(entry, m) == m

\* What the map holds for the address after m: an ACK takes a cleared alarm away.
Applied(entry, m) == IF m.kind = "ACK" /\ Cleared(entry) THEN None ELSE m

\* The rest of the loop's body; a message without a comma is passed over.
Store ==
    /\ pc = "store" /\ pc' = "read"
    /\ addr' = IF msg.kind \in {"OTHER", "BARE"} THEN addr ELSE msg.addr
    /\ alarms' = IF msg.kind = "BARE" THEN alarms
                 ELSE [alarms EXCEPT ![addr'] = Applied(@, msg)]
    /\ UNCHANGED <<server, channel, sent, others, lost, socket, callback, msg, queue, user>>

-----------------------------------------------------------------------------
(***************************************************************************)
(* The user: alarmChange(), getAlarmChanges(), getAlarm(address).          *)
(***************************************************************************)

TakeChanges ==
    /\ ~callback /\ todo = <<>> /\ queue # <<>>
    /\ todo' = queue /\ queue' = <<>>
    /\ UNCHANGED <<server, channel, sent, others, lost, socket, listener, shown>>

\* The debug command "alarms", on the monitor's thread, takes the changes too, and
\* the user has none.
ShowAlarms ==
    /\ queue # <<>> /\ queue' = <<>>
    /\ shown' = shown \cup {queue[i].no : i \in 1..Len(queue)}
    /\ UNCHANGED <<server, channel, sent, others, lost, socket, listener, todo>>

LookUp ==
    /\ todo # <<>> /\ todo' = Tail(todo)
    /\ UNCHANGED <<server, channel, sent, others, lost, socket, listener, queue, shown>>

Listener == Register \/ Receive \/ Callback \/ Store

Next ==
    \/ \E a \in Address : RaiseAlarm(a) \/ ClearAlarm(a) \/ Acknowledge(a)
    \/ SendOther
    \/ ResetSocket
    \/ Listener
    \/ TakeChanges \/ ShowAlarms \/ LookUp

Spec == Init /\ [][Next]_vars

\* The listener thread is an endless loop that sleeps only when nothing is there.
FairSpec == Spec /\ WF_vars(Listener)

-----------------------------------------------------------------------------
Quiet == channel = <<>> /\ pc = "read"

\* An alarm that is on, or that nobody has acknowledged, is in the map when no
\* datagram was lost: no order of NEW, CLEAR and ACK, of this address and of
\* others, makes the listener forget it.
NoAlarmForgotten ==
    Quiet /\ lost = 0 /\ ~callback => \A a \in active \cup unacked : alarms[a] # None

\* "show current state of alarm & status" (infolinker.hpp, of getAlarm): when all
\* is read, nothing was lost and no message of another kind was sent, the last
\* message in the map says what the alarm is.  Only an alarm that was acknowledged
\* before it was cleared stays, as cleared.
Tells(a, entry) ==
    IF a \in active THEN entry # None /\ entry.kind = (IF a \in unacked THEN "NEW" ELSE "ACK")
    ELSE IF a \in unacked THEN Cleared(entry)
    ELSE entry = None \/ Cleared(entry)

MapTells ==
    Quiet /\ lost = 0 /\ others = 0 /\ ~callback => \A a \in Address : Tells(a, alarms[a])

\* "The user will walk the queue and use the addresses stored there to pull
\* values from the maps above" (infolinker.hpp): the message has been applied
\* when the user looks its address up.  It need not be, setAlarm comes before
\* the update of the map, and this fails.
TakenIsApplied ==
    todo # <<>> => ~(pc = "store" /\ msg = Head(todo))

\* With a callback every message that reaches the socket is handed to the user, or
\* the socket is replaced, or the command "alarms" came between setAlarm and the
\* callback and took the message: then the callback is called and finds nothing.
EachHandedOver ==
    \A n \in 1..MaxSent :
        (callback /\ \E i \in 1..Len(channel) : channel[i].no = n)
            ~> (~watched \/ n \in shown \/ \E i \in 1..Len(todo) : todo[i].no = n)

\* An alarm that stays on is, in the end, in the map for good, if no datagram
\* about any alarm was lost.
AlarmShown ==
    \A a \in Address :
        <>[](a \in active /\ lost = 0 /\ ~callback) => <>[](alarms[a] # None)
================================================================================
