------------------------------- MODULE DriverLink -------------------------------
(***************************************************************************)
(* Class InfoLink between a driver's stations and infoserver.  The monitor *)
(* thread (startStationMonitoring) reads lines from a TCP server with one  *)
(* socket per station, keeps the messages in station_comm, and calls the   *)
(* user when nothing waits; the command listener (listenToInfoserver)      *)
(* keeps infoserver's commands and calls the user for each.  On either     *)
(* thread the user may answer once with sendToStation, which goes to the   *)
(* last socket that was read and replaces the TCP server when that fails.  *)
(* Nothing locks the server or LAST_SOCKET: the listener keeps the socket  *)
(* it has looked up while the monitor reads another station.               *)
(* Lines for debugging show what is stored or send points to infoserver.   *)
(*                                                                         *)
(* External: classes TcpServer and UDPServer.  A read takes all that has   *)
(* come on a socket; a datagram overwrites the start of the buffer only,   *)
(* and a read that fails leaves it as it is.                               *)
(***************************************************************************)
EXTENDS PointMessages, Sequences

CONSTANTS
    Station,
    Socket,      \* the indices of a TcpServer's sockets, numbers
    LineKind,    \* what stations send
    CommandKind, \* what infoserver sends: a kind, and whether it is a long text
    Updates,     \* the numbers of points in a "mass update"
    Calls,       \* the calls that lines for debugging make
    PerMessage,  \* points in one message of setPoints, 21
    MaxLines,    \* bound: lines
    MaxCommands, \* bound: commands, and reads of the listener that fail
    MaxCloses,   \* bound: connections closed by a station
    MaxServers,  \* bound: TCP servers made after the first one
    None         \* no station, no socket, no text

Command == [no : 1..MaxCommands, kind : {"control", "notice", "other"}, long : BOOLEAN]

\* A line that starts with a digit is a message; others are for debugging, the
\* empty one among them.  Of the commands the controls are set twice, notices
\* only logged, others unknown.
ASSUME DLinkAssumption ==
    /\ Socket \subseteq Nat
    /\ LineKind \subseteq {"message", "debug"}
    /\ CommandKind \subseteq [kind : {"control", "notice", "other"}, long : BOOLEAN]
    /\ Updates \subseteq Nat /\ PerMessage \in Nat \ {0}
    /\ Calls \subseteq Call /\ None \notin Call \cup Command
    /\ MaxLines \in Nat /\ MaxCommands \in Nat /\ MaxCloses \in Nat /\ MaxServers \in Nat

VARIABLES
    server,     \* this->server: "bound", "unbound", or "deleted" (NULL)
    lastsock,   \* its last socket, from a read until the monitor asks for it
    conn,       \* the station at a socket
    inbox,      \* the lines that have come on a socket
    lastSocket, \* LAST_SOCKET
    monitor,    \* where the monitor thread is
    line,       \* the line in its buffer
    comm,       \* station_comm
    listener,   \* where the command listener is
    sockindex,  \* the socket it is about to send to
    buf,        \* its buffer: a text and what follows it
    commands,   \* the container of commands
    callback,   \* the user gave the listener a callback
    alive,      \* the process runs
    came,       \* history: the commands that came
    taken,      \* history: the messages the user has taken
    update,     \* history: what the line just handled asked for, and what infoserver gets
    sent, arrived, closes, servers \* how much happened so far

tcp     == <<server, lastsock, conn, inbox>>
watch   == <<monitor, line, comm, taken, update>>
texts   == <<buf, commands, callback, came>>
control == <<listener, sockindex, texts>>
limits  == <<sent, arrived, closes, servers>>
vars    == <<tcp, lastSocket, watch, control, alive, limits>>

Line    == [from : Station, no : 1..MaxLines, kind : LineKind]

\* A buffer's text: the command at its start, and the end of the command that
\* the bytes after it come from.
Text == [start : Command \cup {None}, end : Command \cup {None}]

NoUpdate == [points |-> <<>>, messages |-> <<>>, call |-> None, out |-> <<>>]

Blank    == [start |-> None, end |-> None]
Whole(c) == [start |-> c, end |-> IF c.long THEN c ELSE None]

TypeOK ==
    /\ server \in {"bound", "unbound", "deleted"}
    /\ conn \in [Socket -> Station \cup {None}]
    /\ inbox \in [Socket -> Seq(Line)]
    /\ lastSocket \in Socket \cup {None} /\ lastsock \in Socket \cup {None}
    /\ monitor \in {"look", "read", "note", "handle", "idle", "renew", "sent"}
    /\ line \in Line \cup {None}
    /\ comm \in Seq(Line) /\ taken \in Seq(Line)
    /\ update.points \in Seq(Nat) /\ update.messages \in Seq(Seq(Nat))
    /\ update.call \in Calls \cup {None}
    /\ listener \in {"read", "handle", "callback", "send", "renew", "sent"}
    /\ sockindex \in Socket \cup {None}
    /\ buf \in Text
    /\ commands \in Seq(Text) /\ came \in Seq(Command)
    /\ callback \in BOOLEAN /\ alive \in BOOLEAN
    /\ sent \in 0..MaxLines /\ arrived \in 0..MaxCommands
    /\ closes \in 0..MaxCloses /\ servers \in 0..MaxServers

Init ==
    /\ server = "bound" /\ conn = [i \in Socket |-> None] /\ inbox = [i \in Socket |-> <<>>]
    /\ lastSocket = None /\ lastsock = None
    /\ monitor = "look" /\ line = None /\ comm = <<>> /\ taken = <<>>
    /\ update = NoUpdate
    /\ listener = "read" /\ sockindex = None
    /\ buf = Blank /\ commands = <<>> /\ came = <<>>
    /\ callback \in BOOLEAN
    /\ alive = TRUE
    /\ sent = 0 /\ arrived = 0 /\ closes = 0 /\ servers = 0

-----------------------------------------------------------------------------
(***************************************************************************)
(* The stations.                                                           *)
(***************************************************************************)

\* The first free socket is taken.
Connect(s, i) ==
    /\ alive /\ server = "bound" /\ conn[i] = None
    /\ \A j \in Socket : conn[j] # s /\ (j < i => conn[j] # None)
    /\ conn' = [conn EXCEPT ![i] = s]
    /\ UNCHANGED <<server, lastsock, inbox, lastSocket, watch, control, alive, limits>>

SendLine(i, k) ==
    /\ alive /\ conn[i] # None
    /\ sent < MaxLines /\ sent' = sent + 1
    /\ inbox' = [inbox EXCEPT ![i] = Append(@, [from |-> conn[i], no |-> sent', kind |-> k])]
    /\ UNCHANGED <<server, lastsock, conn, lastSocket, watch, control, alive,
                   arrived, closes, servers>>

\* A connection ends; lines that were not read before are gone with the socket.
Disconnect(i) ==
    /\ alive /\ conn[i] # None
    /\ closes < MaxCloses /\ closes' = closes + 1
    /\ conn' = [conn EXCEPT ![i] = None] /\ inbox' = [inbox EXCEPT ![i] = <<>>]
    /\ UNCHANGED <<server, lastsock, lastSocket, watch, control, alive, sent, arrived, servers>>

-----------------------------------------------------------------------------
(***************************************************************************)
(* startStationMonitoring.                                                 *)
(***************************************************************************)

Ready == {i \in Socket : inbox[i] # <<>>}

\* Mutant: shouldsleep stays FALSE once a message was read.
LookAwake ==
    /\ alive /\ monitor = "look"
    /\ monitor' = IF server = "bound" /\ Ready # {} THEN "read"
                  ELSE IF lastSocket = None THEN "idle" ELSE "look"
    /\ update' = NoUpdate
    /\ UNCHANGED <<tcp, lastSocket, line, comm, taken, control, alive, limits>>

\* this->server != NULL && isMessageReady().
Look ==
    /\ alive /\ monitor = "look"
    /\ monitor' = IF server = "bound" /\ Ready # {} THEN "read" ELSE "idle"
    /\ update' = NoUpdate
    /\ UNCHANGED <<tcp, lastSocket, line, comm, taken, control, alive, limits>>

\* Mutant: the lines are not removed from the stream.
Unread(lines) == lines

\* What is left in the stream.
Rest(lines) == <<>>

\* readMessage.  The buffer holds every line that came, and is cut after the first.
Read ==
    /\ alive /\ monitor = "read" /\ server = "bound"
    /\ \E i \in Ready :
        /\ line' = Head(inbox[i])
        /\ inbox' = [inbox EXCEPT ![i] = Rest(@)]
        /\ lastsock' = i
    /\ monitor' = "note"
    /\ UNCHANGED <<server, conn, lastSocket, comm, taken, update, control, alive, limits>>

\* The connection was closed since Look, or another thread has replaced the
\* server: nothing is read.
ReadNothing ==
    /\ alive /\ monitor = "read" /\ server # "deleted" /\ Ready = {}
    /\ monitor' = "note"
    /\ UNCHANGED <<tcp, lastSocket, line, comm, taken, update, control, alive, limits>>

\* LAST_SOCKET = getLastSocketIndex(), whatever it is when this server has read nothing.
NoteSocket ==
    /\ alive /\ monitor = "note" /\ server # "deleted"
    /\ lastSocket' \in IF lastsock = None THEN Socket \cup {None} ELSE {lastsock}
    /\ lastsock' = None
    /\ monitor' = IF line = None THEN "idle" ELSE "handle"
    /\ UNCHANGED <<server, conn, inbox, line, comm, taken, update, control, alive, limits>>

HandleMessage ==
    /\ alive /\ monitor = "handle" /\ line.kind = "message"
    /\ comm' = Append(comm, line)
    /\ monitor' = "look" /\ line' = None
    /\ UNCHANGED <<tcp, lastSocket, taken, update, control, alive, limits>>

\* "get status", "alarms", "commands" and the like: what is stored is printed.
Show == UNCHANGED <<commands, update>>

\* "set command": without its number, like a control that is set again.
SetCommand == commands' = Append(commands, Blank) /\ UNCHANGED update

\* "set analog", "set digital", "set module" and others, one call each.  Without
\* a conduit to infoserver nothing is sent, as in Show.
SetOne ==
    /\ \E c \in Calls : update' = [NoUpdate EXCEPT !.call = c, !.out = Sent(c)]
    /\ UNCHANGED commands

\* Mutant: one point too many.
Overfull(messages, p) ==
    IF Len(messages[Len(messages)]) > PerMessage THEN Append(messages, <<p>>)
    ELSE [messages EXCEPT ![Len(messages)] = Append(@, p)]

\* A full message is sent before the next point is added.
AddPoint(messages, p) ==
    IF Len(messages[Len(messages)]) >= PerMessage THEN Append(messages, <<p>>)
    ELSE [messages EXCEPT ![Len(messages)] = Append(@, p)]

\* made[n] is what the loop has made after n points.
setPoints(points) ==
    LET made[n \in 0..Len(points)] ==
            IF n = 0 THEN << <<>> >> ELSE AddPoint(made[n - 1], points[n])
    IN  IF points = <<>> THEN <<>> ELSE made[Len(points)]

MassUpdate ==
    /\ \E n \in Updates :
        LET points == [i \in 1..n |-> i]
        IN  update' = [NoUpdate EXCEPT !.points = points, !.messages = setPoints(points)]
    /\ UNCHANGED commands

HandleDebug ==
    /\ alive /\ monitor = "handle" /\ line.kind = "debug"
    /\ Show \/ SetCommand \/ SetOne \/ MassUpdate
    /\ monitor' = "look" /\ line' = None
    /\ UNCHANGED <<tcp, lastSocket, comm, taken, listener, sockindex, buf, callback, came,
                   alive, limits>>

\* The line ends the process: a blank one, of which sanitize_me.at(0) throws and
\* nobody catches; "get alarm" and nothing more, of which substr(10) does; or a
\* mass update in an object of the second or the fourth constructor, in which
\* sendThesePoints finds info_client NULL.
EndProcess ==
    /\ alive /\ monitor = "handle" /\ line.kind = "debug"
    /\ alive' = FALSE
    /\ UNCHANGED <<tcp, lastSocket, watch, control, limits>>

\* The user's function at the end of an idle turn takes what there is.
CallUser ==
    /\ alive /\ monitor \in {"idle", "sent"}
    /\ taken' = taken \o comm /\ comm' = <<>>
    /\ commands' = <<>>
    /\ monitor' = "look"
    /\ UNCHANGED <<tcp, lastSocket, line, update, listener, sockindex, buf, callback, came,
                   alive, limits>>

-----------------------------------------------------------------------------
(***************************************************************************)
(* listenToInfoserver.                                                     *)
(***************************************************************************)

\* readMessage: a short command leaves the end of a longer one before it.  Only
\* the switch, which a callback skips, looks at the kind.
ReadCommand(k) ==
    /\ alive /\ listener = "read"
    /\ arrived < MaxCommands /\ arrived' = arrived + 1
    /\ LET c == [no |-> Len(came) + 1, kind |-> IF callback THEN "other" ELSE k.kind,
                 long |-> k.long]
       IN  /\ came' = Append(came, c)
           /\ buf' = IF c.long THEN Whole(c) ELSE [buf EXCEPT !.start = c]
    /\ listener' = "handle"
    /\ UNCHANGED <<tcp, lastSocket, watch, sockindex, commands, callback, alive,
                   sent, closes, servers>>

\* readMessage returns -1, which is not 0 either: what the buffer holds is handled.
ReadError ==
    /\ alive /\ listener = "read"
    /\ arrived < MaxCommands /\ arrived' = arrived + 1
    /\ listener' = "handle"
    /\ UNCHANGED <<tcp, lastSocket, watch, sockindex, texts, alive, sent, closes, servers>>

\* Mutant: the buffer is not cleared.
Kept(text) == text

\* memset.
Cleared(text) == Blank

\* The cases of the switch, by the number at the start of the text.
IsKind(text, kinds) == text.start # None /\ text.start.kind \in kinds

\* setCommand, and the user's callback; without one a control is set again
\* without its number.  `continue` skips the memset.
HandleCommand ==
    /\ alive /\ listener = "handle"
    /\ commands' = commands \o IF ~callback /\ IsKind(buf, {"control"}) THEN <<buf, buf>> ELSE <<buf>>
    /\ listener' = IF callback THEN "callback" ELSE "read"
    /\ buf' = IF ~callback /\ IsKind(buf, {"control", "notice"}) THEN Cleared(buf) ELSE buf
    /\ UNCHANGED <<tcp, lastSocket, watch, sockindex, callback, came, alive, limits>>

EndCallback ==
    /\ alive /\ listener \in {"callback", "sent"} /\ listener' = "read"
    /\ commands' = <<>>
    /\ UNCHANGED <<tcp, lastSocket, watch, sockindex, buf, callback, came, alive, limits>>

-----------------------------------------------------------------------------
(***************************************************************************)
(* sendToStation, in one of the user's functions.                          *)
(***************************************************************************)

\* "lost socket": the server is deleted with all its connections.
DeleteServer ==
    /\ servers < MaxServers /\ server' = "deleted" /\ lastsock' = None
    /\ conn' = [i \in Socket |-> None] /\ inbox' = [i \in Socket |-> <<>>]

\* The monitor alone sets LAST_SOCKET: looking it up and sending are one step.
SendFromMonitor ==
    /\ alive /\ monitor = "idle" /\ lastSocket # None /\ server # "deleted"
    /\ \/ conn[lastSocket] # None /\ monitor' = "sent" /\ UNCHANGED tcp
       \/ conn[lastSocket] = None /\ monitor' = "renew" /\ DeleteServer
    /\ UNCHANGED <<lastSocket, line, comm, taken, update, control, alive, limits>>

\* sockindex = LAST_SOCKET.
LookUpSocket ==
    /\ alive /\ listener = "callback" /\ lastSocket # None
    /\ sockindex' = lastSocket /\ listener' = "send"
    /\ UNCHANGED <<tcp, lastSocket, watch, texts, alive, limits>>

\* sendMessage: whoever is at that socket of the server there is now gets it.
SendFromListener ==
    /\ alive /\ listener = "send" /\ server # "deleted"
    /\ \/ conn[sockindex] # None /\ listener' = "sent" /\ UNCHANGED tcp
       \/ conn[sockindex] = None /\ listener' = "renew" /\ DeleteServer
    /\ sockindex' = None
    /\ UNCHANGED <<lastSocket, watch, texts, alive, limits>>

\* makeTcpServer: the port may not be free.
makeTcpServer ==
    /\ alive /\ server = "deleted"
    /\ server' \in {"bound", "unbound"}
    /\ servers' = servers + 1
    /\ UNCHANGED <<lastsock, conn, inbox, lastSocket, line, comm, taken, update, sockindex, texts,
                   alive, sent, arrived, closes>>

RenewFromMonitor ==
    monitor = "renew" /\ monitor' = "sent" /\ makeTcpServer /\ UNCHANGED listener

RenewFromListener ==
    listener = "renew" /\ listener' = "sent" /\ makeTcpServer /\ UNCHANGED monitor

\* A thread uses the server that the other one has just deleted.
UseDeleted ==
    /\ alive /\ server = "deleted"
    /\ monitor \in {"look", "read", "note", "idle"} \/ listener = "send"
    /\ alive' = FALSE
    /\ UNCHANGED <<tcp, lastSocket, watch, control, limits>>

\* What a thread does when it is its turn; whether a user replies is up to him.
Monitor ==
    \/ Look \/ Read \/ ReadNothing \/ NoteSocket
    \/ HandleMessage \/ HandleDebug \/ EndProcess
    \/ CallUser \/ RenewFromMonitor

Listener == HandleCommand \/ EndCallback \/ SendFromListener \/ RenewFromListener

Next ==
    \/ \E i \in Socket :
        \/ \E s \in Station : Connect(s, i)
        \/ \E k \in LineKind : SendLine(i, k)
        \/ Disconnect(i)
    \/ Monitor \/ SendFromMonitor
    \/ \E k \in CommandKind : ReadCommand(k)
    \/ ReadError \/ Listener \/ LookUpSocket
    \/ UseDeleted

Spec == Init /\ [][Next]_vars

\* The threads are endless loops and the user's functions return.
FairSpec == Spec /\ WF_vars(Monitor) /\ WF_vars(Listener)

-----------------------------------------------------------------------------
\* No message of a station is given to the user twice, and none before one that
\* was sent earlier; of several lines in one read the first is kept and the others
\* are dropped (startStationMonitoring), so a message may be missing.
InOrderOnce ==
    LET got == taken \o comm
    IN  \A i, j \in DOMAIN got : i < j /\ got[i].from = got[j].from => got[i].no < got[j].no

\* A command ends with what an older one left in the buffer only if the listener
\* cleared the buffer after none of the commands from the older one on: each was
\* unknown, or handled by the user's callback; and the older one is the last long
\* one (`continue` before the memset in listenToInfoserver).
LeftoversExplained ==
    \A i \in DOMAIN commands :
        LET text == commands[i]
        IN  text.end \notin {None, text.start} =>
                \A n \in text.end.no .. text.start.no - 1 :
                    /\ callback \/ came[n].kind = "other"
                    /\ came[n].long => n = text.end.no

\* The parts, one after the other.
Joined(parts) ==
    LET upTo[n \in 0..Len(parts)] == IF n = 0 THEN <<>> ELSE upTo[n - 1] \o parts[n]
    IN  upTo[Len(parts)]

\* "Set status on multiple points at once" (setPoints): infoserver gets each point
\* of an update once and in order, in messages that are neither empty nor overfull.
UpdateComplete ==
    /\ Joined(update.messages) = update.points
    /\ \A i \in DOMAIN update.messages : Len(update.messages[i]) \in 1..PerMessage

\* A call of legal arguments sends infoserver one message, about the station, the
\* module and the point that were named: with the driver or without, in the range
\* of the own driver or of another one, for modules with a letter of their own.
Addressed ==
    update.call # None /\ Legal(update.call) =>
        Len(update.out) = 1 /\ Target(update.out[1]) = Named(update.call)

\* No message stays in station_comm for ever, whoever replaces the server: once
\* the stations pause the monitor calls the user (shouldsleep).
AllTaken == comm # <<>> ~> comm = <<>> \/ ~alive
================================================================================
