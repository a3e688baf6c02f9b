--------------------------- MODULE DriverLinkProofs ---------------------------
(***************************************************************************)
(* Proofs about DriverLink, for any stations, sockets, lines and commands, *)
(* and about the messages of PointMessages, for every driver, station,     *)
(* module and point.                                                       *)
(***************************************************************************)
EXTENDS DriverLink, SequenceTheorems, NaturalsInduction, WellFoundedInduction, TLAPS

\* Driver and station can be told apart in a full number.
LEMMA FullNumber ==
    ASSUME NEW d \in 1..9, NEW s \in 1..(PerDriver - 1)
    PROVE  /\ buildStation(d, s) \in 1..MaxStation /\ buildStation(d, s) >= PerDriver
           /\ buildStation(d, s) \div PerDriver = d /\ buildStation(d, s) % PerDriver = s
           /\ s \in 1..MaxStation /\ s < PerDriver /\ s % PerDriver = s
<1>0. s \in 1..MaxStation /\ s < PerDriver
  BY DEF PerDriver, MaxStation
<1>1. buildStation(d, s) \in 1..MaxStation /\ buildStation(d, s) >= PerDriver
  BY DEF buildStation, PerDriver, MaxStation
<1>2. buildStation(d, s) \div PerDriver = d
  BY DEF buildStation, PerDriver
<1>3. buildStation(d, s) % PerDriver = s
  BY DEF buildStation, PerDriver
<1>4. s % PerDriver = s
  BY DEF PerDriver
<1> QED
  BY <1>0, <1>1, <1>2, <1>3, <1>4

\* The own driver is put before a number that has none.
LEMMA OwnNumber ==
    ASSUME NEW s \in 1..MaxStation
    PROVE  /\ s >= PerDriver => FullStation(s) = s
           /\ s < PerDriver /\ Driver \in 1..9 => FullStation(s) = buildStation(Driver, s)
<1>1. Driver \in Nat
  BY PMAssumption
<1> QED
  BY <1>1 DEF FullStation, PerDriver, MaxStation

\* No two modules have the same number, and a number is no letter.
LEMMA ModuleBack ==
    ASSUME NEW c \in Module
    PROVE  ModuleRead(c) = c /\ ModuleRead(moduleCharToInt(c)) = c /\ ModuleRead(ModuleField(c)) = c
<1> USE DEF MINMODC, MAXMODC, PLCMODC, RIMMODC, PLCMOD, RIMMOD
<1>1. /\ c \notin 1..17
      /\ moduleCharToInt(c) \in 1..17
      /\ \A b \in Module : moduleCharToInt(b) = moduleCharToInt(c) => b = c
  BY DEF Module, moduleCharToInt
<1>2. ModuleRead(c) = c
  BY <1>1 DEF ModuleRead
<1>3. ModuleRead(moduleCharToInt(c)) = c
  BY <1>1 DEF ModuleRead
<1> QED
  BY <1>2, <1>3 DEF ModuleField

\* The function that a call runs.
LEMMA SentBy ==
    ASSUME NEW call
    PROVE  LET s == call.station
               c == call.module
               p == call.point
           IN  /\ call.fn = "setAnalogPointRaw" => Sent(call) = setAnalogPointRaw(OrOwn(call), s, p, c)
               /\ call.fn = "setAnalogQPoint" => Sent(call) = setAnalogQPoint(OrOwn(call), s, p, c)
               /\ call.fn = "setDigitalPulsePoint" =>
                     Sent(call) = setDigitalPulsePoint(OrOwn(call), s, p, c)
               /\ call.fn = "setDigitalPoint" => Sent(call) = setDigitalPoint(OrOwn(call), s, p, c)
               /\ call.fn = "setModuleOffline" => Sent(call) = setModuleOffline(StationArg(call), c)
               /\ call.fn = "setModuleOnline" => Sent(call) = setModuleOnline(StationArg(call), c)
               /\ call.fn = "setDfsStationOffline" => Sent(call) = setDfsStationOffline(s)
               /\ call.fn = "clearDfsStationOffline" => Sent(call) = clearDfsStationOffline(s)
  BY ZenonT(30) DEF Sent

\* What a message about a point is about.
LEMMA PointAddressed ==
    ASSUME NEW kind, NEW header, NEW d \in 1..9, NEW s \in 1..(PerDriver - 1), NEW c \in Module, NEW p
    PROVE  LET out == PointMessage(kind, header, d, s, c, p)
           IN  /\ Len(out) = 1
               /\ Target(out[1]) = [driver |-> d, station |-> s, module |-> c, point |-> p]
<1>1. /\ buildStation(d, s) \div PerDriver = d /\ buildStation(d, s) % PerDriver = s
  BY FullNumber
<1>2. ModuleRead(ModuleField(c)) = c
  BY ModuleBack
<1> QED
  BY <1>1, <1>2 DEF PointMessage, Target

\* What a message about a module or a station is about.
LEMMA StationAddressed ==
    ASSUME NEW kind, NEW n, NEW c, NEW field, ModuleRead(field) = c
    PROVE  Target(StationMessage(kind, n, field)) =
               [driver |-> n \div PerDriver, station |-> n % PerDriver, module |-> c, point |-> 0]
  BY DEF StationMessage, Target

\* The number that a legal call of a module function ends up with.
LEMMA ModuleStation ==
    ASSUME NEW call, Legal(call), call.fn \in ModuleFn
    PROVE  LET n == FullStation(StationArg(call))
           IN  /\ StationArg(call) \in 1..MaxStation
               /\ n \div PerDriver = CallDriver(call) /\ n % PerDriver = call.station % PerDriver
<1>1. /\ call.driver \in Int /\ Driver \in Nat /\ call.fn \notin StationFn
  BY PMAssumption DEF Legal, Call, ModuleFn, StationFn
<1>2. CASE Full(call)
  <2>0. call.station >= PerDriver
    BY <1>1, <1>2 DEF Full
  <2>1. call.driver = Short /\ call.station >= PerDriver /\ call.station \in 1..MaxStation
    BY <1>2, <2>0 DEF Legal
  <2>2. StationArg(call) = call.station
    BY <2>1 DEF StationArg
  <2>4. FullStation(call.station) = call.station
    BY <2>1, OwnNumber
  <2>3. CallDriver(call) = call.station \div PerDriver
    BY <1>2 DEF CallDriver
  <2> QED
    BY <2>1, <2>2, <2>3, <2>4
<1>3. CASE ~Full(call)
  <2>1. call.station \in 1..(PerDriver - 1) /\ CallDriver(call) \in 1..9
    BY <1>3 DEF Legal
  <2>2. CallDriver(call) = OrOwn(call)
    BY <1>3 DEF CallDriver, OrOwn
  <2>3. /\ buildStation(OrOwn(call), call.station) \in 1..MaxStation
        /\ buildStation(OrOwn(call), call.station) >= PerDriver
        /\ call.station \in 1..MaxStation /\ call.station < PerDriver
        /\ buildStation(OrOwn(call), call.station) \div PerDriver = OrOwn(call)
        /\ buildStation(OrOwn(call), call.station) % PerDriver = call.station
        /\ call.station % PerDriver = call.station
    BY <2>1, <2>2, FullNumber
  <2>4. /\ StationArg(call) \in 1..MaxStation
        /\ FullStation(StationArg(call)) = buildStation(OrOwn(call), call.station)
    <3>1. CASE call.driver = Short
      <4>1. StationArg(call) = call.station /\ OrOwn(call) = Driver
        BY <3>1 DEF StationArg, OrOwn
      <4>2. call.station \in 1..MaxStation /\ call.station < PerDriver
        BY <2>3
      <4> QED
        BY <2>2, <2>1, <4>1, <4>2, OwnNumber
    <3>2. CASE call.driver # Short
      <4>1. StationArg(call) = buildStation(OrOwn(call), call.station)
        BY <3>2 DEF StationArg, OrOwn
      <4>2. StationArg(call) \in 1..MaxStation /\ StationArg(call) >= PerDriver
        BY <2>3, <4>1
      <4> QED
        BY <4>1, <4>2, OwnNumber
    <3> QED
      BY <3>1, <3>2
  <2> QED
    BY <2>2, <2>3, <2>4
<1> QED
  BY <1>2, <1>3

\* One legal call, one message, about what the call named.
LEMMA CallAddressed ==
    ASSUME NEW call, Legal(call)
    PROVE  Len(Sent(call)) = 1 /\ Target(Sent(call)[1]) = Named(call)
<1>1. /\ call.fn \in PointFn \cup ModuleFn \cup StationFn /\ call.module \in Module
  BY DEF Legal, Call
<1>2. CASE call.fn \in PointFn
  <2>1. ~Full(call)
    BY <1>2 DEF Full, PointFn, ModuleFn, StationFn
  <2>0. /\ CallDriver(call) = OrOwn(call) /\ OrOwn(call) \in 1..9
        /\ call.station \in 1..(PerDriver - 1)
    BY <2>1 DEF Legal, CallDriver, OrOwn
  <2>2. CallDriver(call) = OrOwn(call) /\ call.station % PerDriver = call.station
    BY <2>0, FullNumber
  <2>3. ModuleNamed(call) \in Module
    BY <1>1, <1>2 DEF ModuleNamed, PointFn, StationFn, Module
  <2>4. \E kind, header : Sent(call) =
          PointMessage(kind, header, OrOwn(call), call.station, ModuleNamed(call), call.point)
    <3>1. CASE call.fn = "setAnalogPointRaw"
      BY <3>1, SentBy DEF setAnalogPointRaw, ModuleNamed, StationFn
    <3>2. CASE call.fn = "setAnalogQPoint"
      BY <3>2, SentBy DEF setAnalogQPoint, ModuleNamed, StationFn
    <3>3. CASE call.fn = "setDigitalPulsePoint"
      BY <3>3, SentBy DEF setDigitalPulsePoint, ModuleNamed, StationFn
    <3>4. CASE call.fn = "setDigitalPoint"
      BY <3>4, SentBy DEF setDigitalPoint, ModuleNamed, StationFn
    <3> QED
      BY <1>2, <3>1, <3>2, <3>3, <3>4 DEF PointFn
  <2> QED
    <3>1. PICK kind, header : Sent(call) =
            PointMessage(kind, header, OrOwn(call), call.station, ModuleNamed(call), call.point)
      BY <2>4
    <3>2. /\ Len(Sent(call)) = 1
          /\ Target(Sent(call)[1]) = [driver |-> OrOwn(call), station |-> call.station,
                                      module |-> ModuleNamed(call), point |-> call.point]
      BY <2>0, <2>3, <3>1, PointAddressed
    <3> QED
      BY <1>2, <2>2, <3>2 DEF Named
<1>3. CASE call.fn \in ModuleFn
  <2> DEFINE n == FullStation(StationArg(call))
  <2>1. /\ StationArg(call) \in 1..MaxStation
        /\ n \div PerDriver = CallDriver(call) /\ n % PerDriver = call.station % PerDriver
    BY <1>3, ModuleStation
  <2>2. ModuleNamed(call) = call.module /\ call.fn \notin PointFn
    BY <1>3 DEF ModuleNamed, ModuleFn, StationFn, PointFn
  <2>3. \E kind, field : /\ ModuleRead(field) = call.module
                         /\ Sent(call) = <<StationMessage(kind, n, field)>>
    <3>0. /\ ModuleRead(call.module) = call.module
          /\ ModuleRead(moduleCharToInt(call.module)) = call.module
      BY <1>1, ModuleBack
    <3>1. CASE call.fn = "setModuleOffline"
      <4>1. Sent(call) = setModuleOffline(StationArg(call), call.module)
        BY <3>1, SentBy
      <4>2. Sent(call) = <<StationMessage("offline", n, moduleCharToInt(call.module))>>
        BY <1>1, <2>1, <4>1 DEF setModuleOffline
      <4> QED
        BY <3>0, <4>2
    <3>2. CASE call.fn = "setModuleOnline"
      <4>1. Sent(call) = setModuleOnline(StationArg(call), call.module)
        BY <3>2, SentBy
      <4>2. Sent(call) = <<StationMessage("online", n, IF call.module = RIMMODC THEN call.module
                                                       ELSE moduleCharToInt(call.module))>>
        BY <1>1, <2>1, <4>1 DEF setModuleOnline
      <4> QED
        BY <3>0, <4>2
    <3> QED
      BY <1>3, <3>1, <3>2 DEF ModuleFn
  <2> HIDE DEF n
  <2>4. PICK kind, field : /\ ModuleRead(field) = call.module
                           /\ Sent(call) = <<StationMessage(kind, n, field)>>
    BY <2>3
  <2>5. Target(StationMessage(kind, n, field)) =
          [driver |-> n \div PerDriver, station |-> n % PerDriver, module |-> call.module, point |-> 0]
    BY <2>4, StationAddressed
  <2> QED
    BY <2>1, <2>2, <2>4, <2>5 DEF Named
<1>4. CASE call.fn \in StationFn
  <2>1. Full(call) /\ call.fn \notin PointFn /\ ModuleNamed(call) = RIMMODC
    BY <1>4 DEF Full, ModuleNamed, StationFn, PointFn
  <2>2. call.station \in 1..MaxStation /\ CallDriver(call) = call.station \div PerDriver
    BY <2>1 DEF Legal, CallDriver
  <2>3. \E kind : Sent(call) = <<StationMessage(kind, call.station, RIMMODC)>>
    <3>1. CASE call.fn = "setDfsStationOffline"
      BY <2>2, <3>1, SentBy DEF setDfsStationOffline
    <3>2. CASE call.fn = "clearDfsStationOffline"
      BY <2>2, <3>2, SentBy DEF clearDfsStationOffline
    <3> QED
      BY <1>4, <3>1, <3>2 DEF StationFn
  <2>4. ModuleRead(RIMMODC) = RIMMODC
    BY ModuleBack DEF Module
  <2>5. PICK kind : Sent(call) = <<StationMessage(kind, call.station, RIMMODC)>>
    BY <2>3
  <2>6. Target(StationMessage(kind, call.station, RIMMODC)) =
          [driver |-> call.station \div PerDriver, station |-> call.station % PerDriver,
           module |-> RIMMODC, point |-> 0]
    BY <2>4, StationAddressed
  <2> QED
    BY <2>1, <2>2, <2>5, <2>6 DEF Named
<1> QED
  BY <1>1, <1>2, <1>3, <1>4

\* Two legal calls with the same message named the same thing: infoserver can tell
\* any two points, modules or stations apart.
THEOREM MessagesTellApart ==
    ASSUME NEW a, NEW b, Legal(a), Legal(b), Sent(a) = Sent(b)
    PROVE  Named(a) = Named(b)
  BY CallAddressed

\* What the history `update` says of the line just handled.
CallSent == update.call # None => update.out = Sent(update.call)

\* Every message for a debugging line is about what the line named.
THEOREM MessagesAddressed == Spec => []Addressed
<1>1. Init => CallSent
  BY DEF Init, CallSent, NoUpdate
<1>2. CallSent /\ [Next]_vars => CallSent'
  <2> SUFFICES ASSUME CallSent, [Next]_vars
               PROVE  CallSent'
    OBVIOUS
  <2>1. CASE update' = update
    BY <2>1 DEF CallSent
  <2>2. CASE Look
    BY <2>2 DEF Look, CallSent, NoUpdate
  <2>3. CASE HandleDebug
    <3>1. CASE SetOne
      BY <3>1 DEF SetOne, CallSent, NoUpdate
    <3>2. CASE MassUpdate
      BY <3>2 DEF MassUpdate, CallSent, NoUpdate
    <3>3. CASE Show \/ SetCommand
      BY <3>3 DEF Show, SetCommand, CallSent
    <3> QED
      BY <2>3, <3>1, <3>2, <3>3 DEF HandleDebug
  <2>4. update' = update \/ Look \/ HandleDebug
    BY DEF Next, Monitor, Listener, Connect, SendLine, Disconnect, Read, ReadNothing, NoteSocket,
       HandleMessage, EndProcess, CallUser, ReadCommand, ReadError, HandleCommand, EndCallback,
       SendFromMonitor, LookUpSocket, SendFromListener, RenewFromMonitor, RenewFromListener,
       makeTcpServer, UseDeleted, vars, watch
  <2> QED
    BY <2>1, <2>2, <2>3, <2>4
<1>3. CallSent => Addressed
  BY CallAddressed DEF CallSent, Addressed
<1> QED
  BY <1>1, <1>2, <1>3, PTL DEF Spec

-----------------------------------------------------------------------------
(***************************************************************************)
(* The lines of the stations.                                              *)
(***************************************************************************)

Got == taken \o comm

\* All of got that came from the same station was sent before m.
Ahead(got, m) == \A i \in 1..Len(got) : got[i].from = m.from => got[i].no < m.no

Ordered(got) ==
    \A i, j \in 1..Len(got) : i < j /\ got[i].from = got[j].from => got[i].no < got[j].no

LineShape ==
    /\ conn \in [Socket -> Station \cup {None}]
    /\ inbox \in [Socket -> Seq(Line)]
    /\ comm \in Seq(Line) /\ taken \in Seq(Line)
    /\ line # None => line \in Line
    /\ monitor = "handle" => line # None
    /\ sent \in 0..MaxLines

\* A station is at one socket only, and only its lines are there.
OneSocket ==
    /\ \A i, j \in Socket : conn[i] # None /\ conn[i] = conn[j] => i = j
    /\ \A i \in Socket : \A k \in 1..Len(inbox[i]) :
           conn[i] # None /\ inbox[i][k].from = conn[i]

\* What waits in a socket was sent after what the user has or is about to have.
Waiting ==
    \A i \in Socket : \A k \in 1..Len(inbox[i]) :
        LET m == inbox[i][k]
        IN  /\ m.no <= sent
            /\ Ahead(Got, m)
            /\ line # None /\ line.from = m.from => line.no < m.no

InHand == line # None => line.no <= sent /\ Ahead(Got, line)

Numbered == \A i \in 1..Len(Got) : Got[i].no <= sent

LineInv == LineShape /\ OneSocket /\ Waiting /\ InHand /\ Numbered /\ Ordered(Got)

\* A member is put at the end of the second part, or of both.
LEMMA ConcatAppend ==
    ASSUME NEW X, NEW s \in Seq(X), NEW t \in Seq(X), NEW e \in X
    PROVE  s \o Append(t, e) = Append(s \o t, e)
<1>0. <<e>> \in Seq(X)
  OBVIOUS
<1>1. PICK u \in Seq(X) : u = <<e>>
  BY <1>0, Zenon
<1>2. (s \o t) \o u = s \o (t \o u)
  BY ConcatAssociative
<1>3. PICK both \in Seq(X) : both = s \o t
  BY ConcatProperties
<1>4. Append(t, e) = t \o u /\ Append(both, e) = both \o u
  BY <1>1, AppendIsConcat
<1> QED
  BY <1>2, <1>3, <1>4

\* One more message is stored.
LEMMA OneMore ==
    ASSUME NEW got \in Seq(Line), NEW m \in Line, Ahead(got, m)
    PROVE  /\ Append(got, m) \in Seq(Line)
           /\ Ordered(got) => Ordered(Append(got, m))
           /\ \A n : Ahead(got, n) /\ (m.from = n.from => m.no < n.no) => Ahead(Append(got, m), n)
           /\ \A n \in Nat : m.no <= n /\ (\A i \in 1..Len(got) : got[i].no <= n) =>
                  \A i \in 1..Len(Append(got, m)) : Append(got, m)[i].no <= n
<1> DEFINE new == Append(got, m)
<1>1. /\ new \in Seq(Line) /\ Len(new) = Len(got) + 1 /\ Len(got) \in Nat
      /\ \A i \in 1..Len(got) : new[i] = got[i]
      /\ new[Len(got) + 1] = m
  BY AppendProperties, LenProperties
<1> HIDE DEF new
<1>2. \A i \in 1..Len(new) : i \in 1..Len(got) \/ i = Len(got) + 1
  BY <1>1
<1>3. ASSUME Ordered(got), NEW i \in 1..Len(new), NEW j \in 1..Len(new), i < j, new[i].from = new[j].from
      PROVE  new[i].no < new[j].no
  <2>1. i \in 1..Len(got)
    BY <1>1, <1>3
  <2>2. CASE j \in 1..Len(got)
    BY <1>1, <1>3, <2>1, <2>2 DEF Ordered
  <2>3. CASE j = Len(got) + 1
    BY <1>1, <1>3, <2>1, <2>3 DEF Ahead
  <2> QED
    BY <1>2, <2>2, <2>3
<1>4. Ordered(got) => Ordered(new)
  BY <1>3 DEF Ordered
<1>5. \A n : Ahead(got, n) /\ (m.from = n.from => m.no < n.no) => Ahead(new, n)
  BY <1>1, <1>2 DEF Ahead
<1>6. \A n \in Nat : m.no <= n /\ (\A i \in 1..Len(got) : got[i].no <= n) =>
          \A i \in 1..Len(new) : new[i].no <= n
  BY <1>1, <1>2
<1> QED
  BY <1>1, <1>4, <1>5, <1>6 DEF new

\* The types of the messages that the user has or will take.
LEMMA GotTyped ==
    ASSUME LineShape
    PROVE  /\ Got \in Seq(Line) /\ Len(Got) \in Nat /\ MaxLines \in Nat /\ sent \in Nat
           /\ \A i \in 1..Len(Got) : Got[i] \in Line
           /\ \A i \in Socket : Len(inbox[i]) \in Nat /\ \A k \in 1..Len(inbox[i]) : inbox[i][k] \in Line
<1>1. Got \in Seq(Line)
  BY ConcatProperties DEF LineShape, Got
<1>2. Len(Got) \in Nat /\ \A i \in 1..Len(Got) : Got[i] \in Line
  BY <1>1, LenProperties, ElementOfSeq
<1>3. \A i \in Socket : Len(inbox[i]) \in Nat /\ \A k \in 1..Len(inbox[i]) : inbox[i][k] \in Line
  BY LenProperties, ElementOfSeq DEF LineShape
<1> QED
  BY <1>1, <1>2, <1>3, DLinkAssumption DEF LineShape

\* A line is sent: its number is above all of them.
LEMMA SendLineStep ==
    ASSUME LineInv, NEW i \in Socket, NEW k \in LineKind, SendLine(i, k)
    PROVE  LineInv'
<1>0. LineShape /\ OneSocket /\ Waiting /\ InHand /\ Numbered /\ Ordered(Got)
  BY DEF LineInv
<1>1. /\ conn[i] # None /\ sent < MaxLines /\ sent' = sent + 1
      /\ inbox' = [inbox EXCEPT ![i] = Append(@, [from |-> conn[i], no |-> sent + 1, kind |-> k])]
      /\ UNCHANGED <<conn, comm, taken, monitor, line, Got>>
  BY DEF SendLine, watch, Got
<1>2. sent \in Nat /\ MaxLines \in Nat /\ inbox[i] \in Seq(Line) /\ Len(inbox[i]) \in Nat
  BY <1>0, GotTyped, LenProperties DEF LineShape
<1>3. PICK m \in Line : /\ m.from = conn[i] /\ m.no = sent + 1
                        /\ inbox' = [inbox EXCEPT ![i] = Append(@, m)]
  <2>1. [from |-> conn[i], no |-> sent + 1, kind |-> k] \in Line
    <3>1. conn[i] \in Station
      BY <1>0, <1>1 DEF LineShape
    <3>2. sent + 1 \in 1..MaxLines
      BY <1>1, <1>2
    <3> QED
      BY <3>1, <3>2 DEF Line
  <2> QED
    BY <1>1, <2>1
<1>4. /\ inbox'[i] = Append(inbox[i], m) /\ inbox'[i] \in Seq(Line)
      /\ Len(inbox'[i]) = Len(inbox[i]) + 1 /\ inbox'[i][Len(inbox[i]) + 1] = m
      /\ \A l \in 1..Len(inbox[i]) : inbox'[i][l] = inbox[i][l]
      /\ \A j \in Socket \ {i} : inbox'[j] = inbox[j]
  BY <1>0, <1>2, <1>3, AppendProperties DEF LineShape
<1>5. ASSUME NEW j \in Socket, NEW l \in 1..Len(inbox'[j])
      PROVE  \/ j = i /\ inbox'[j][l] = m
             \/ l \in 1..Len(inbox[j]) /\ inbox'[j][l] = inbox[j][l]
  <2>1. CASE j # i
    BY <1>4, <2>1
  <2>2. CASE j = i
    <3>1. l \in 1..Len(inbox[i]) \/ l = Len(inbox[i]) + 1
      BY <1>2, <1>4, <2>2
    <3> QED
      BY <1>4, <2>2, <3>1
  <2> QED
    BY <2>1, <2>2
<1>6. LineShape'
  <2>1. inbox' \in [Socket -> Seq(Line)]
    BY <1>0, <1>3, <1>4 DEF LineShape
  <2>2. sent' \in 0..MaxLines
    BY <1>1, <1>2
  <2> QED
    BY <1>0, <1>1, <2>1, <2>2 DEF LineShape
<1>7. OneSocket'
  BY <1>0, <1>1, <1>3, <1>5 DEF OneSocket
<1>8. \A n \in Nat : n <= sent => n <= sent' /\ n < m.no
  BY <1>1, <1>2, <1>3
<1>9. /\ \A j \in 1..Len(Got) : Got[j].no \in Nat /\ Got[j].no <= sent
      /\ line # None => line.no \in Nat /\ line.no <= sent
      /\ \A j \in Socket : \A l \in 1..Len(inbox[j]) : inbox[j][l].no \in Nat /\ inbox[j][l].no <= sent
  <2>1. \A x \in Line : x.no \in Nat
    BY DEF Line
  <2>2. \A j \in 1..Len(Got) : Got[j].no \in Nat /\ Got[j].no <= sent
    BY <1>0, <2>1, GotTyped DEF Numbered
  <2>3. line # None => line.no \in Nat /\ line.no <= sent
    BY <1>0, <2>1 DEF InHand, LineShape
  <2>4. \A j \in Socket : \A l \in 1..Len(inbox[j]) : inbox[j][l].no \in Nat /\ inbox[j][l].no <= sent
    BY <1>0, <2>1, GotTyped DEF Waiting
  <2> QED
    BY <2>2, <2>3, <2>4
<1>10. Numbered' /\ InHand' /\ Ordered(Got)'
  BY <1>0, <1>1, <1>8, <1>9 DEF Numbered, InHand, Ahead, Ordered
<1>11. Waiting'
  <2> SUFFICES ASSUME NEW j \in Socket, NEW l \in 1..Len(inbox'[j])
               PROVE  /\ inbox'[j][l].no <= sent'
                      /\ Ahead(Got, inbox'[j][l])
                      /\ line # None /\ line.from = inbox'[j][l].from => line.no < inbox'[j][l].no
    BY <1>1 DEF Waiting, Ahead
  <2>1. CASE inbox'[j][l] = m
    BY <1>1, <1>2, <1>3, <1>8, <1>9, <2>1 DEF Ahead
  <2>2. CASE l \in 1..Len(inbox[j]) /\ inbox'[j][l] = inbox[j][l]
    BY <1>0, <1>8, <1>9, <2>2 DEF Waiting
  <2> QED
    BY <1>5, <2>1, <2>2
<1> QED
  BY <1>6, <1>7, <1>10, <1>11 DEF LineInv

\* One line is read, and what came after it on the socket is lost.
LEMMA ReadStep ==
    ASSUME LineInv, Read
    PROVE  LineInv'
<1>0. LineShape /\ OneSocket /\ Waiting /\ InHand /\ Numbered /\ Ordered(Got)
  BY DEF LineInv
<1>1. PICK i \in Socket :
        /\ inbox[i] # <<>> /\ line' = Head(inbox[i])
        /\ inbox' = [inbox EXCEPT ![i] = <<>>]
  BY DEF Read, Ready, Rest
<1>2. monitor' = "note" /\ UNCHANGED <<conn, comm, taken, sent, Got>>
  BY DEF Read, Got, limits
<1>3. inbox[i] \in Seq(Line) /\ Len(inbox[i]) \in Nat /\ 1 \in 1..Len(inbox[i]) /\ line' = inbox[i][1]
  <2>1. inbox[i] \in Seq(Line)
    BY <1>0 DEF LineShape
  <2>2. Len(inbox[i]) \in Nat \ {0} /\ Head(inbox[i]) = inbox[i][1]
    BY <1>1, <2>1, EmptySeq, HeadTailProperties
  <2> QED
    BY <1>1, <2>1, <2>2
<1>4. /\ line' \in Line /\ line'.from = conn[i] /\ conn[i] # None
      /\ line'.no <= sent /\ Ahead(Got, line')
  BY <1>0, <1>3, GotTyped DEF OneSocket, Waiting
<1>5. inbox'[i] = <<>> /\ Len(inbox'[i]) = 0 /\ \A j \in Socket \ {i} : inbox'[j] = inbox[j]
  BY <1>0, <1>1, EmptySeq DEF LineShape
<1>6. ASSUME NEW j \in Socket, NEW l \in 1..Len(inbox'[j])
      PROVE  j # i /\ inbox'[j] = inbox[j]
  BY <1>5
<1>7. LineShape'
  <2>1. inbox' \in [Socket -> Seq(Line)]
    BY <1>0, <1>1, EmptySeq DEF LineShape
  <2> QED
    BY <1>0, <1>2, <1>4, <2>1 DEF LineShape
<1>8. OneSocket'
  BY <1>0, <1>2, <1>6 DEF OneSocket
<1>9. Numbered' /\ InHand' /\ Ordered(Got)'
  BY <1>0, <1>2, <1>4 DEF Numbered, InHand, Ahead, Ordered
<1>10. Waiting'
  <2> SUFFICES ASSUME NEW j \in Socket, NEW l \in 1..Len(inbox'[j])
               PROVE  /\ inbox'[j][l].no <= sent
                      /\ Ahead(Got, inbox'[j][l])
                      /\ line'.from = inbox'[j][l].from => line'.no < inbox'[j][l].no
    BY <1>2 DEF Waiting, Ahead
  <2>1. j # i /\ inbox'[j] = inbox[j] /\ l \in 1..Len(inbox[j])
    BY <1>6
  <2>2. inbox[j][l].from = conn[j] /\ conn[j] # conn[i]
    BY <1>0, <1>4, <2>1 DEF OneSocket
  <2> QED
    BY <1>0, <1>4, <2>1, <2>2 DEF Waiting
<1> QED
  BY <1>7, <1>8, <1>9, <1>10 DEF LineInv

\* The line is stored, behind all that came before it.
LEMMA MessageStep ==
    ASSUME LineInv, HandleMessage
    PROVE  LineInv'
<1>0. LineShape /\ OneSocket /\ Waiting /\ InHand /\ Numbered /\ Ordered(Got)
  BY DEF LineInv
<1>1. /\ monitor = "handle" /\ monitor' = "look" /\ line' = None /\ comm' = Append(comm, line)
      /\ UNCHANGED <<conn, inbox, taken, sent>>
  BY DEF HandleMessage, tcp, limits
<1>2. line # None /\ line \in Line /\ line.no <= sent /\ Ahead(Got, line) /\ Got \in Seq(Line) /\ sent \in Nat
  BY <1>0, <1>1, GotTyped DEF LineShape, InHand
<1>3. Got' = Append(Got, line) /\ comm' \in Seq(Line)
  <2>1. taken \in Seq(Line) /\ comm \in Seq(Line)
    BY <1>0 DEF LineShape
  <2>2. taken \o Append(comm, line) = Append(taken \o comm, line)
    BY <1>2, <2>1, ConcatAppend
  <2>3. Append(comm, line) \in Seq(Line)
    BY <1>2, <2>1, AppendProperties
  <2> QED
    BY <1>1, <2>2, <2>3 DEF Got
<1>4. /\ Ordered(Append(Got, line))
      /\ \A n : Ahead(Got, n) /\ (line.from = n.from => line.no < n.no) => Ahead(Append(Got, line), n)
      /\ \A i \in 1..Len(Append(Got, line)) : Append(Got, line)[i].no <= sent
  BY <1>0, <1>2, OneMore DEF Numbered
<1>5. LineShape' /\ OneSocket' /\ InHand'
  BY <1>0, <1>1, <1>3 DEF LineShape, OneSocket, InHand
<1>6. Waiting'
  <2> SUFFICES ASSUME NEW j \in Socket, NEW l \in 1..Len(inbox[j])
               PROVE  inbox[j][l].no <= sent /\ Ahead(Append(Got, line), inbox[j][l])
    BY <1>1, <1>3 DEF Waiting, Ahead
  <2> QED
    BY <1>0, <1>1, <1>2, <1>4 DEF Waiting
<1>7. Numbered' /\ Ordered(Got)'
  BY <1>1, <1>3, <1>4 DEF Numbered, Ordered
<1> QED
  BY <1>5, <1>6, <1>7 DEF LineInv

\* Nobody looks at the messages, a line is dropped, or the user takes them all.
LEMMA TakeStep ==
    ASSUME LineInv, UNCHANGED <<conn, inbox, sent>>,
           \/ UNCHANGED <<comm, taken>>
           \/ taken' = taken \o comm /\ comm' = <<>>,
           \/ line' = line /\ (monitor' = "handle" => monitor = "handle" \/ line # None)
           \/ line' = None /\ monitor' # "handle"
    PROVE  LineInv'
<1>0. LineShape /\ OneSocket /\ Waiting /\ InHand /\ Numbered /\ Ordered(Got)
  BY DEF LineInv
<1>1. Got' = Got /\ taken' \in Seq(Line) /\ comm' \in Seq(Line)
  <2>1. Got \o <<>> = Got /\ Got \in Seq(Line) /\ <<>> \in Seq(Line)
    BY <1>0, GotTyped, ConcatEmptySeq, EmptySeq
  <2> QED
    BY <1>0, <2>1 DEF Got, LineShape
<1>2. LineShape' /\ OneSocket'
  BY <1>0, <1>1 DEF LineShape, OneSocket
<1>3. Waiting' /\ InHand' /\ Numbered' /\ Ordered(Got)'
  BY <1>0, <1>1 DEF Waiting, InHand, Numbered, Ahead, Ordered
<1> QED
  BY <1>2, <1>3 DEF LineInv

\* Connections come and go; a socket that is closed is empty.
LEMMA ConnectionStep ==
    ASSUME LineInv, UNCHANGED <<comm, taken, line, sent>>, monitor' = "handle" => monitor = "handle",
           \/ \E s \in Station, i \in Socket :
                  /\ conn[i] = None /\ \A j \in Socket : conn[j] # s
                  /\ conn' = [conn EXCEPT ![i] = s] /\ inbox' = inbox
           \/ \E i \in Socket : conn' = [conn EXCEPT ![i] = None] /\ inbox' = [inbox EXCEPT ![i] = <<>>]
           \/ conn' = [i \in Socket |-> None] /\ inbox' = [i \in Socket |-> <<>>]
    PROVE  LineInv'
<1>0. LineShape /\ OneSocket /\ Waiting /\ InHand /\ Numbered /\ Ordered(Got)
  BY DEF LineInv
<1>1. <<>> \in Seq(Line) /\ \A n \in 1..Len(<<>>) : FALSE
  BY EmptySeq
<1>2. /\ conn' \in [Socket -> Station \cup {None}] /\ inbox' \in [Socket -> Seq(Line)]
      /\ \A i, j \in Socket : conn'[i] # None /\ conn'[i] = conn'[j] => i = j
      /\ \A i \in Socket : \/ inbox'[i] = inbox[i] /\ (conn[i] # None => conn'[i] = conn[i])
                           \/ inbox'[i] = <<>>
  <2>1. ASSUME NEW s \in Station, NEW i \in Socket,
               conn[i] = None, \A j \in Socket : conn[j] # s,
               conn' = [conn EXCEPT ![i] = s], inbox' = inbox
        PROVE  <1>2
    BY <1>0, <2>1 DEF LineShape, OneSocket
  <2>2. ASSUME NEW i \in Socket, conn' = [conn EXCEPT ![i] = None], inbox' = [inbox EXCEPT ![i] = <<>>]
        PROVE  <1>2
    BY <1>0, <1>1, <2>2 DEF LineShape, OneSocket
  <2>3. CASE conn' = [i \in Socket |-> None] /\ inbox' = [i \in Socket |-> <<>>]
    BY <1>1, <2>3
  <2> QED
    BY <2>1, <2>2, <2>3
<1>3. ASSUME NEW i \in Socket, NEW k \in 1..Len(inbox'[i])
      PROVE  /\ inbox'[i] = inbox[i] /\ k \in 1..Len(inbox[i])
             /\ conn[i] # None => conn'[i] = conn[i]
  BY <1>1, <1>2
<1>4. LineShape' /\ Got' = Got
  BY <1>0, <1>2 DEF LineShape, Got
<1>5. OneSocket'
  BY <1>0, <1>2, <1>3 DEF OneSocket
<1>6. Waiting'
  BY <1>0, <1>3, <1>4 DEF Waiting, Ahead
<1>7. InHand' /\ Numbered' /\ Ordered(Got)'
  BY <1>0, <1>4 DEF InHand, Numbered, Ahead, Ordered
<1> QED
  BY <1>4, <1>5, <1>6, <1>7 DEF LineInv

\* Every step keeps the invariant.
LEMMA LineStep == LineInv /\ [Next]_vars => LineInv'
<1> SUFFICES ASSUME LineInv, [Next]_vars
             PROVE  LineInv'
  OBVIOUS
<1>1. ASSUME NEW i \in Socket, NEW s \in Station, Connect(s, i)
      PROVE  LineInv'
  BY <1>1, ConnectionStep DEF Connect, watch, limits
<1>2. ASSUME NEW i \in Socket, Disconnect(i)
      PROVE  LineInv'
  BY <1>2, ConnectionStep DEF Disconnect, watch
<1>3. CASE SendFromMonitor \/ SendFromListener
  <2>1. CASE DeleteServer
    BY <1>3, <2>1, ConnectionStep DEF SendFromMonitor, SendFromListener, DeleteServer, watch, limits
  <2>2. CASE UNCHANGED tcp
    BY <1>3, <2>2, TakeStep DEF SendFromMonitor, SendFromListener, tcp, watch, limits
  <2> QED
    BY <1>3, <2>1, <2>2 DEF SendFromMonitor, SendFromListener
<1>4. CASE Look \/ ReadNothing \/ HandleDebug \/ EndProcess \/ CallUser
  BY <1>4, TakeStep DEF Look, ReadNothing, HandleDebug, EndProcess, CallUser, Show, SetCommand, SetOne,
         MassUpdate, tcp, watch, limits
<1>9. CASE NoteSocket
  BY <1>9, TakeStep DEF NoteSocket, limits
<1>5. ASSUME NEW k \in CommandKind, ReadCommand(k)
      PROVE  LineInv'
  BY <1>5, TakeStep DEF ReadCommand, tcp, watch
<1>6. CASE ReadError \/ HandleCommand \/ EndCallback \/ LookUpSocket
  BY <1>6, TakeStep DEF ReadError, HandleCommand, EndCallback, LookUpSocket, tcp, watch, limits
<1>7. CASE RenewFromMonitor \/ RenewFromListener \/ UseDeleted
  BY <1>7, TakeStep DEF RenewFromMonitor, RenewFromListener, makeTcpServer, UseDeleted, tcp, watch, limits
<1>8. CASE UNCHANGED vars
  BY <1>8, TakeStep DEF vars, tcp, watch, limits
<1> QED
  BY <1>1, <1>2, <1>3, <1>4, <1>5, <1>6, <1>7, <1>8, <1>9, SendLineStep, ReadStep, MessageStep
     DEF Next, Monitor, Listener

\* InOrderOnce: no message twice and none before an earlier one of its station, for
\* any number of stations, sockets and lines, whoever replaces the server.
THEOREM LinesInOrder == Spec => []InOrderOnce
<1>1. Init => LineInv
  <2> SUFFICES ASSUME Init
               PROVE  LineInv
    OBVIOUS
  <2>1. /\ <<>> \in Seq(Line) /\ <<>> \o <<>> = <<>> /\ \A n \in 1..Len(<<>>) : FALSE
    BY EmptySeq, ConcatEmptySeq
  <2>2. Got = <<>> /\ line = None /\ \A i \in Socket : inbox[i] = <<>> /\ conn[i] = None
    BY <2>1 DEF Init, Got
  <2>3. LineShape
    BY <2>1, DLinkAssumption DEF Init, LineShape
  <2>4. OneSocket /\ Waiting /\ InHand
    BY <2>1, <2>2 DEF OneSocket, Waiting, InHand
  <2>5. Numbered /\ Ordered(Got)
    BY <2>1, <2>2 DEF Numbered, Ordered
  <2> QED
    BY <2>3, <2>4, <2>5 DEF LineInv
<1>2. LineInv => InOrderOnce
  <2> SUFFICES ASSUME LineInv
               PROVE  InOrderOnce
    OBVIOUS
  <2>1. Got \in Seq(Line) /\ DOMAIN Got = 1..Len(Got)
    BY GotTyped, LenProperties DEF LineInv
  <2> QED
    BY <2>1 DEF LineInv, Ordered, InOrderOnce, Got
<1> QED
  BY <1>1, <1>2, LineStep, PTL DEF Spec

-----------------------------------------------------------------------------
(***************************************************************************)
(* The commands of infoserver.                                             *)
(***************************************************************************)

\* The listener did not clear its buffer after the command of that number.
Skipped(cb, seq, n) == cb \/ seq[n].kind = "other"

\* Each command from a to b left the buffer as it was, and only a may be long.
Left(cb, seq, a, b) == \A n \in a..b : Skipped(cb, seq, n) /\ (seq[n].long => n = a)

\* What LeftoversExplained says of one text.
Explained(cb, seq, text) ==
    text.end \notin {None, text.start} => Left(cb, seq, text.end.no, text.start.no - 1)

\* A text that was stored.
Known(cb, seq, text) ==
    \/ text = Blank
    \/ text.start # None /\ text.start.no \in 1..Len(seq) /\ Explained(cb, seq, text)

\* The buffer is clear, or starts with the last of the commands.
Last(cb, seq, text) ==
    \/ text = Blank
    \/ /\ Len(seq) # 0 /\ text.start = seq[Len(seq)] /\ text.start.no = Len(seq)
       /\ text.end # None => /\ text.end.no \in 1..Len(seq)
                             /\ Left(cb, seq, text.end.no, Len(seq) - 1)
                             /\ seq[Len(seq)].long => text.end.no = Len(seq)

\* The listener reads over a buffer that is clear or was left as it was.
TextInv ==
    /\ came \in Seq(Command) /\ Len(came) <= arrived /\ arrived \in 0..MaxCommands
    /\ buf \in Text /\ Last(callback, came, buf)
    /\ listener # "handle" => buf = Blank \/ Skipped(callback, came, Len(came))
    /\ commands \in Seq(Text) /\ \A i \in 1..Len(commands) : Known(callback, came, commands[i])

\* What the buffer holds may be stored.
LEMMA LastKnown ==
    ASSUME NEW cb, NEW seq \in Seq(Command), NEW text \in Text, Last(cb, seq, text)
    PROVE  Known(cb, seq, text)
<1>1. CASE text = Blank
  BY <1>1 DEF Known
<1>2. CASE text # Blank
  <2>1. /\ Len(seq) \in Nat \ {0} /\ text.start = seq[Len(seq)] /\ text.start.no = Len(seq)
        /\ text.end # None => Left(cb, seq, text.end.no, Len(seq) - 1)
    BY <1>2, LenProperties DEF Last
  <2>2. text.start # None
    <3>1. seq[Len(seq)] \in Command
      BY <2>1, ElementOfSeq
    <3> QED
      BY <2>1, <3>1, DLinkAssumption
  <2>3. text.start.no \in 1..Len(seq)
    BY <2>1
  <2> QED
    BY <2>1, <2>2, <2>3 DEF Known, Explained
<1> QED
  BY <1>1, <1>2

\* One more command does not change what is said of those before.
LEMMA LeftStays ==
    ASSUME NEW cb, NEW seq \in Seq(Command), NEW c \in Command,
           NEW a \in Nat \ {0}, NEW b \in Int, b <= Len(seq), Left(cb, seq, a, b)
    PROVE  Left(cb, Append(seq, c), a, b)
<1>1. Len(seq) \in Nat /\ \A n \in 1..Len(seq) : Append(seq, c)[n] = seq[n]
  BY AppendProperties, LenProperties
<1>2. \A n \in a..b : n \in 1..Len(seq)
  BY <1>1
<1> QED
  BY <1>1, <1>2 DEF Left, Skipped

LEMMA KnownStays ==
    ASSUME NEW cb, NEW seq \in Seq(Command), NEW c \in Command, NEW text \in Text,
           Known(cb, seq, text)
    PROVE  Known(cb, Append(seq, c), text)
<1>1. Len(seq) \in Nat /\ Len(Append(seq, c)) = Len(seq) + 1
  BY AppendProperties, LenProperties
<1>2. CASE text = Blank
  BY <1>2 DEF Known
<1>3. CASE text # Blank
  <2>1. text.start # None /\ text.start.no \in 1..Len(seq) /\ Explained(cb, seq, text)
    BY <1>3 DEF Known
  <2>2. text.start.no \in 1..Len(Append(seq, c))
    BY <1>1, <2>1
  <2>3. ASSUME text.end \notin {None, text.start}
        PROVE  Left(cb, Append(seq, c), text.end.no, text.start.no - 1)
    <3>1. text.end.no \in Nat \ {0}
      BY <2>3 DEF Text, Command
    <3>2. text.start.no - 1 \in Int /\ text.start.no - 1 <= Len(seq)
      BY <1>1, <2>1
    <3>3. Left(cb, seq, text.end.no, text.start.no - 1)
      BY <2>1, <2>3 DEF Explained
    <3> QED
      BY <3>1, <3>2, <3>3, LeftStays
  <2> QED
    BY <2>1, <2>2, <2>3 DEF Known, Explained
<1> QED
  BY <1>2, <1>3

\* A command is read over a buffer that was left as it was.
LEMMA ReadOver ==
    ASSUME NEW cb, NEW seq \in Seq(Command), NEW c \in Command, c.no = Len(seq) + 1,
           NEW old \in Text, Last(cb, seq, old), old = Blank \/ Skipped(cb, seq, Len(seq)),
           NEW new, new = IF c.long THEN Whole(c) ELSE [old EXCEPT !.start = c]
    PROVE  new \in Text /\ Last(cb, Append(seq, c), new)
<1> DEFINE more == Append(seq, c)
<1>1. /\ Len(seq) \in Nat /\ Len(more) = Len(seq) + 1 /\ more[Len(seq) + 1] = c
      /\ \A n \in 1..Len(seq) : more[n] = seq[n]
  BY AppendProperties, LenProperties
<1>2. PICK k \in Nat : k = Len(seq)
  BY <1>1
<1>3. Len(more) = k + 1 /\ more[k + 1] = c /\ k + 1 # 0 /\ c.no = k + 1 /\ (k + 1) - 1 = k
  BY <1>1, <1>2
<1>4. c.long \in BOOLEAN /\ c # None
  BY DLinkAssumption DEF Command
<1>5. CASE c.long
  <2>1. new = [start |-> c, end |-> c]
    BY <1>5 DEF Whole
  <2>2. Left(cb, more, k + 1, k) /\ k + 1 \in 1..k + 1
    BY DEF Left
  <2>3. new \in Text
    BY <2>1 DEF Text
  <2> HIDE DEF more
  <2>4. Last(cb, more, new)
    BY <1>3, <2>1, <2>2 DEF Last
  <2> QED
    BY <2>3, <2>4 DEF more
<1>6. CASE ~c.long
  <2>1. new = [start |-> c, end |-> old.end] /\ old.end \in Command \cup {None}
    BY <1>6 DEF Text
  <2>2. new \in Text
    BY <2>1 DEF Text
  <2>3. CASE old.end = None
    <3> HIDE DEF more
    <3>1. Last(cb, more, new)
      BY <1>3, <2>1, <2>3 DEF Last
    <3> QED
      BY <2>2, <3>1 DEF more
  <2>4. CASE old.end # None
    <3>1. old # Blank /\ old.end \in Command
      BY <2>1, <2>4 DEF Blank
    <3>2. /\ k # 0 /\ old.end.no \in 1..k /\ Left(cb, seq, old.end.no, k - 1)
          /\ seq[k].long => old.end.no = k
          /\ Skipped(cb, seq, k)
      BY <1>2, <2>4, <3>1 DEF Last
    <3>3. Left(cb, seq, old.end.no, k)
      <4>1. \A n \in old.end.no..k : n \in old.end.no..k - 1 \/ n = k
        BY <3>2
      <4> QED
        BY <3>2, <4>1 DEF Left
    <3>4. Left(cb, more, old.end.no, k)
      <4>1. old.end.no \in Nat \ {0} /\ k \in Int /\ k <= Len(seq)
        BY <1>2, <3>2
      <4> QED
        BY <3>3, <4>1, LeftStays
    <3>5. old.end.no \in 1..k + 1
      BY <3>2
    <3> HIDE DEF more
    <3>6. Last(cb, more, new)
      BY <1>3, <1>6, <2>1, <3>4, <3>5 DEF Last
    <3> QED
      BY <2>2, <3>6 DEF more
  <2> QED
    BY <2>3, <2>4
<1> QED
  BY <1>4, <1>5, <1>6

\* Known texts are stored.
LEMMA Stored ==
    ASSUME NEW cb, NEW seq, NEW stored \in Seq(Text), NEW text \in Text,
           \A i \in 1..Len(stored) : Known(cb, seq, stored[i]), Known(cb, seq, text),
           NEW more \in {Append(stored, text), stored \o <<text>>, stored \o <<text, text>>}
    PROVE  more \in Seq(Text) /\ \A i \in 1..Len(more) : Known(cb, seq, more[i])
<1>0. <<text>> \in Seq(Text)
  OBVIOUS
<1>1. ASSUME NEW many \in Seq(Text), \A i \in 1..Len(many) : Known(cb, seq, many[i])
      PROVE  /\ Append(many, text) \in Seq(Text)
             /\ \A i \in 1..Len(Append(many, text)) : Known(cb, seq, Append(many, text)[i])
  <2>1. /\ Append(many, text) \in Seq(Text) /\ Len(Append(many, text)) = Len(many) + 1
        /\ \A i \in 1..Len(many) : Append(many, text)[i] = many[i]
        /\ Append(many, text)[Len(many) + 1] = text /\ Len(many) \in Nat
    BY AppendProperties, LenProperties
  <2>2. \A i \in 1..Len(many) + 1 : i \in 1..Len(many) \/ i = Len(many) + 1
    BY <2>1
  <2> QED
    BY <1>1, <2>1, <2>2
<1>2. stored \o <<text>> = Append(stored, text)
  BY AppendIsConcat
<1>3. stored \o <<text, text>> = Append(Append(stored, text), text)
  <2>1. <<text, text>> = Append(<<text>>, text)
    OBVIOUS
  <2>2. PICK one \in Seq(Text) : one = <<text>>
    BY <1>0
  <2>3. stored \o Append(one, text) = Append(stored \o one, text)
    BY ConcatAppend
  <2> QED
    BY <1>2, <2>1, <2>2, <2>3
<1>4. PICK first \in Seq(Text) : /\ first = Append(stored, text)
                                 /\ \A i \in 1..Len(first) : Known(cb, seq, first[i])
  BY <1>1
<1>5. CASE more = first
  BY <1>4, <1>5
<1>6. CASE more = Append(first, text)
  BY <1>1, <1>4, <1>6
<1> QED
  BY <1>2, <1>3, <1>4, <1>5, <1>6

\* LeftoversExplained, however commands of different lengths and reads that fail
\* follow one another.
THEOREM LeftoversKnown == Spec => []LeftoversExplained
<1>1. Init => TextInv
  BY EmptySeq, DLinkAssumption DEF Init, TextInv, Last, Blank, Text
<1>2. TextInv /\ [Next]_vars => TextInv'
  <2> SUFFICES ASSUME TextInv, [Next]_vars
               PROVE  TextInv'
    OBVIOUS
  <2>0. /\ came \in Seq(Command) /\ Len(came) \in Nat /\ Len(came) <= arrived /\ arrived \in Nat
        /\ MaxCommands \in Nat /\ arrived <= MaxCommands
        /\ buf \in Text /\ Last(callback, came, buf) /\ Known(callback, came, buf)
        /\ commands \in Seq(Text) /\ \A i \in 1..Len(commands) : Known(callback, came, commands[i])
    BY LastKnown, LenProperties, DLinkAssumption DEF TextInv
  <2>a. Blank \in Text /\ Last(callback, came, Blank) /\ Known(callback, came, Blank)
    BY DEF Blank, Text, Last, Known
  <2>b. <<>> \in Seq(Text) /\ \A i \in 1..Len(<<>>) : FALSE
    BY EmptySeq
  <2>1. ASSUME UNCHANGED <<buf, came, callback, arrived>>, commands' = commands \/ commands' = <<>>,
               listener # "handle" \/ listener' = "handle"
        PROVE  TextInv'
    <3>1. commands' \in Seq(Text) /\ \A i \in 1..Len(commands') : Known(callback, came, commands'[i])
      BY <2>0, <2>b, <2>1
    <3> QED
      BY <2>1, <3>1 DEF TextInv
  <2>2. ASSUME NEW k \in CommandKind, ReadCommand(k)
        PROVE  TextInv'
    <3>1. PICK c \in Command : /\ c.no = Len(came) + 1 /\ came' = Append(came, c)
                               /\ buf' = IF c.long THEN Whole(c) ELSE [buf EXCEPT !.start = c]
      <4> DEFINE c == [no |-> Len(came) + 1, kind |-> IF callback THEN "other" ELSE k.kind,
                       long |-> k.long]
      <4>1. c \in Command
        <5>1. Len(came) + 1 \in 1..MaxCommands
          BY <2>0, <2>2 DEF ReadCommand
        <5>2. k.long \in BOOLEAN /\ k.kind \in {"control", "notice", "other"}
          BY DLinkAssumption
        <5> QED
          BY <5>1, <5>2 DEF Command
      <4> QED
        BY <2>2, <4>1 DEF ReadCommand
    <3>2. /\ listener = "read" /\ listener' = "handle" /\ UNCHANGED <<commands, callback>>
          /\ arrived < MaxCommands /\ arrived' = arrived + 1
      BY <2>2 DEF ReadCommand
    <3>3. buf = Blank \/ Skipped(callback, came, Len(came))
      BY <3>2 DEF TextInv
    <3>4. buf' \in Text /\ Last(callback, came', buf')
      BY <2>0, <3>1, <3>3, ReadOver
    <3>5. \A i \in 1..Len(commands) : Known(callback, came', commands[i])
      BY <2>0, <3>1, KnownStays, ElementOfSeq
    <3>6. came' \in Seq(Command) /\ Len(came') = Len(came) + 1
      BY <2>0, <3>1, AppendProperties
    <3>7. Len(came') <= arrived' /\ arrived' \in 0..MaxCommands
      BY <2>0, <3>2, <3>6
    <3> QED
      BY <2>0, <3>2, <3>4, <3>5, <3>6, <3>7 DEF TextInv
  <2>3. CASE ReadError
    <3>1. /\ listener' = "handle" /\ UNCHANGED <<buf, came, commands, callback>>
          /\ arrived < MaxCommands /\ arrived' = arrived + 1
      BY <2>3 DEF ReadError, texts
    <3>2. Len(came) <= arrived' /\ arrived' \in 0..MaxCommands
      BY <2>0, <3>1
    <3> QED
      BY <3>1, <3>2 DEF TextInv
  <2>4. CASE HandleCommand
    <3>1. /\ commands' \in {commands \o <<buf>>, commands \o <<buf, buf>>}
          /\ UNCHANGED <<came, callback, arrived>>
          /\ buf' = IF ~callback /\ IsKind(buf, {"control", "notice"}) THEN Blank ELSE buf
      BY <2>4 DEF HandleCommand, Cleared, limits
    <3>2. commands' \in Seq(Text) /\ \A i \in 1..Len(commands') : Known(callback, came, commands'[i])
      BY <2>0, <3>1, Stored
    <3>3. buf' \in Text /\ Last(callback, came, buf')
      BY <2>0, <2>a, <3>1
    <3>4. buf' = Blank \/ Skipped(callback, came, Len(came))
      <4>1. CASE callback
        BY <4>1 DEF Skipped
      <4>2. CASE buf' # Blank /\ ~callback
        <5>1. buf # Blank /\ ~IsKind(buf, {"control", "notice"})
          BY <3>1, <4>2
        <5>2. Len(came) # 0 /\ buf.start = came[Len(came)]
          BY <2>0, <5>1 DEF Last
        <5>3. Len(came) \in 1..Len(came)
          BY <2>0, <5>2
        <5>4. came[Len(came)] \in Command
          BY <2>0, <5>3, ElementOfSeq
        <5>5. buf.start # None /\ buf.start.kind \in {"control", "notice", "other"}
          BY <5>2, <5>4, DLinkAssumption DEF Command
        <5> QED
          BY <5>1, <5>2, <5>5 DEF IsKind, Skipped
      <4> QED
        BY <4>1, <4>2
    <3> QED
      BY <3>1, <3>2, <3>3, <3>4 DEF TextInv
  <2>5. CASE HandleDebug
    <3>1. /\ UNCHANGED <<listener, buf, came, callback, arrived>>
          /\ commands' = commands \/ commands' = Append(commands, Blank)
      BY <2>5 DEF HandleDebug, Show, SetCommand, SetOne, MassUpdate, limits
    <3>2. commands' \in Seq(Text) /\ \A i \in 1..Len(commands') : Known(callback, came, commands'[i])
      BY <2>0, <2>a, <3>1, Stored
    <3> QED
      BY <3>1, <3>2 DEF TextInv
  <2>6. CASE CallUser
    BY <2>1, <2>6 DEF CallUser, limits
  <2>7. CASE EndCallback
    BY <2>1, <2>7 DEF EndCallback, limits
  <2>8. CASE /\ UNCHANGED <<buf, came, callback, arrived, commands>>
             /\ listener # "handle" \/ listener' = "handle"
    BY <2>1, <2>8
  <2>9. \A i \in Socket :
          /\ \A s \in Station : Connect(s, i) => UNCHANGED <<listener, texts, arrived>>
          /\ \A k \in LineKind : SendLine(i, k) => UNCHANGED <<listener, texts, arrived>>
          /\ Disconnect(i) => UNCHANGED <<listener, texts, arrived>>
    BY DEF Connect, SendLine, Disconnect, control, limits
  <2>10. Look \/ Read \/ ReadNothing \/ NoteSocket \/ HandleMessage \/ EndProcess \/ UseDeleted
             \/ SendFromMonitor \/ RenewFromMonitor \/ UNCHANGED vars => UNCHANGED <<listener, texts, arrived>>
    BY DEF Look, Read, ReadNothing, NoteSocket, HandleMessage, EndProcess, UseDeleted, SendFromMonitor,
           RenewFromMonitor, makeTcpServer, vars, control, limits
  <2>11. LookUpSocket \/ SendFromListener \/ RenewFromListener =>
             listener # "handle" /\ UNCHANGED <<texts, arrived>>
    BY DEF LookUpSocket, SendFromListener, RenewFromListener, makeTcpServer, limits
  <2> QED
    BY <2>2, <2>3, <2>4, <2>5, <2>6, <2>7, <2>8, <2>9, <2>10, <2>11 DEF Next, Monitor, Listener, texts
<1>3. TextInv => LeftoversExplained
  <2> SUFFICES ASSUME TextInv, NEW i \in DOMAIN commands, commands[i].end \notin {None, commands[i].start},
                      NEW n \in commands[i].end.no .. commands[i].start.no - 1
               PROVE  /\ callback \/ came[n].kind = "other"
                      /\ came[n].long => n = commands[i].end.no
    BY DEF LeftoversExplained
  <2>1. commands \in Seq(Text) /\ i \in 1..Len(commands) /\ Known(callback, came, commands[i])
    BY LenProperties DEF TextInv
  <2>2. commands[i] # Blank
    BY DEF Blank
  <2> QED
    BY <2>1, <2>2 DEF Known, Explained, Left, Skipped
<1> QED
  BY <1>1, <1>2, <1>3, PTL DEF Spec

-----------------------------------------------------------------------------
(***************************************************************************)
(* The messages of setPoints.  Its loop is a recursive function, and what  *)
(* it makes after n points is shown for one n after the other.             *)
(***************************************************************************)

\* A set of natural numbers has a least one.
LEMMA Least ==
    ASSUME NEW S \in SUBSET Nat, S # {}
    PROVE  \E m \in S : \A k \in S : m <= k
<1>1. IsWellFoundedOn(OpToRel(<, Nat), Nat)
  BY NatLessThanWellFounded
<1>2. \E m \in S : \A k \in S : ~ (<<k, m>> \in OpToRel(<, Nat))
  BY <1>1, WFMin
<1>3. OpToRel(<, Nat) = {p \in Nat \X Nat : p[1] < p[2]}
  BY DEF OpToRel
<1>4. PICK m \in S : \A k \in S : ~ (<<k, m>> \in {p \in Nat \X Nat : p[1] < p[2]})
  BY <1>2, <1>3
<1>5. ASSUME NEW k \in S PROVE m <= k
  <2>1. ~(k < m) 
    BY <1>4
  <2> QED BY <2>1
<1> QED
  BY <1>5

\* What holds for 0, and for n + 1 where it does for n, holds for every number.
LEMMA Induction ==
    ASSUME NEW S \in SUBSET Nat, 0 \in S, \A n \in S : n + 1 \in S
    PROVE  S = Nat
<1> SUFFICES ASSUME Nat \ S # {}
             PROVE  FALSE
  OBVIOUS
<1>1. PICK m \in Nat \ S : \A k \in Nat \ S : m <= k
  <2>1. Nat \ S \in SUBSET Nat
    OBVIOUS
  <2> QED
    BY <2>1, Least
<1>2. m - 1 \in S
  <2>1. m # 0
    BY <1>1
  <2>2. m - 1 \in Nat /\ ~(m <= m - 1)
    BY <2>1
  <2> QED
    BY <1>1, <2>2
<1>3. (m - 1) + 1 = m
  OBVIOUS
<1> QED
  BY <1>2, <1>3

\* f is the sequence of partial concatenations of parts.
Joins(f, parts, k) ==
   f = [n \in 0..k |-> IF n = 0 THEN <<>> ELSE f[n - 1] \o parts[n]]

\* There is such an f.
LEMMA JoinsExists ==
    ASSUME NEW parts, NEW k \in Nat
    PROVE  \E f : Joins(f, parts, k)
<1> DEFINE S == {n \in Nat : \E f : Joins(f, parts, n)}
<1>1. 0 \in S
  <2>1. Joins([n \in 0..0 |-> <<>>], parts, 0)
    BY DEF Joins
  <2> QED
    BY <2>1
<1>2. ASSUME NEW n \in S
      PROVE  n + 1 \in S
  <2>1. PICK f : Joins(f, parts, n)
    OBVIOUS
  <2> DEFINE g == [i \in 0..n + 1 |-> IF i = n + 1 THEN f[n] \o parts[n + 1] ELSE f[i]]
  <2>2. ASSUME NEW i \in 0..n + 1
        PROVE  g[i] = IF i = 0 THEN <<>> ELSE g[i - 1] \o parts[i]
    <3>1. CASE i = n + 1
      BY <3>1
    <3>2. CASE i \in 0..n
      <4>1. f[i] = IF i = 0 THEN <<>> ELSE f[i - 1] \o parts[i]
        BY <2>1, <3>2 DEF Joins
      <4>2. g[i] = f[i]
        BY <3>2
      <4>3. i # 0 => g[i - 1] = f[i - 1]
        BY <3>2
      <4> QED
        BY <4>1, <4>2, <4>3
    <3> QED
      BY <3>1, <3>2
  <2>3. Joins(g, parts, n + 1)
    BY <2>2 DEF Joins
  <2> QED
    BY <2>3
<1>3. S = Nat
  <2> HIDE DEF S
  <2>1. S \in SUBSET Nat
    BY DEF S
  <2> QED
    BY <1>1, <1>2, <2>1, Induction
<1> QED
  BY <1>3

\* Joined(parts) is its last value.
LEMMA JoinedDef ==
    ASSUME NEW parts, Len(parts) \in Nat
    PROVE  \E f : Joins(f, parts, Len(parts)) /\ Joined(parts) = f[Len(parts)]
<1> DEFINE f == CHOOSE g : Joins(g, parts, Len(parts))
<1>1. Joins(f, parts, Len(parts))
  BY JoinsExists
<1>2. Joined(parts) = f[Len(parts)]
  BY DEF Joined, Joins
<1> QED
  BY <1>1, <1>2

\* Each of its values comes from the one before.
LEMMA JoinsStep ==
    ASSUME NEW parts, NEW k \in Nat, NEW f, Joins(f, parts, k), NEW i \in 1..k
    PROVE  f[i] = f[i - 1] \o parts[i]
  BY DEF Joins

\* What is joined of the first k parts depends on these only.
LEMMA JoinsAgree ==
    ASSUME NEW p, NEW q, NEW k \in Nat, NEW l \in Nat, k <= l,
           NEW f, NEW g, Joins(f, p, k), Joins(g, q, l),
           \A i \in 1..k : p[i] = q[i]
    PROVE  f[k] = g[k]
<1> DEFINE S == {n \in Nat : n <= k => f[n] = g[n]}
<1>1. 0 \in S
  BY DEF Joins
<1>2. ASSUME NEW n \in S
      PROVE  n + 1 \in S
  <2> SUFFICES ASSUME n + 1 <= k
               PROVE  f[n + 1] = g[n + 1]
    BY DEF S
  <2>1. f[n] = g[n]
    BY DEF S
  <2> HIDE DEF S
  <2>2. PICK m \in 1..k : m = n + 1 /\ m - 1 = n /\ m \in 1..l
    <3>1. n \in Nat
      BY DEF S
    <3> QED
      BY <3>1
  <2>3. f[m] = f[m - 1] \o p[m]
    BY JoinsStep
  <2>4. g[m] = g[m - 1] \o q[m]
    BY <2>2, JoinsStep
  <2>5. p[m] = q[m]
    OBVIOUS
  <2> QED
    BY <2>1, <2>2, <2>3, <2>4, <2>5
<1>3. S = Nat
  <2> HIDE DEF S
  <2>1. S \in SUBSET Nat
    BY DEF S
  <2> QED
    BY <1>1, <1>2, <2>1, Induction
<1> QED
  BY <1>3

\* No parts.
LEMMA JoinedEmpty == Joined(<< >>) = << >>
<1>1. Len(<< >>) = 0
  OBVIOUS
<1>2. PICK f : Joins(f, << >>, 0) /\ Joined(<< >>) = f[0]
  BY <1>1, JoinedDef
<1> QED
  BY <1>2 DEF Joins

\* One part more.
LEMMA JoinedAppend ==
    ASSUME NEW X, NEW parts \in Seq(X), NEW m \in X
    PROVE  Joined(Append(parts, m)) = Joined(parts) \o m
<1> DEFINE more == Append(parts, m)
<1>1. /\ Len(parts) \in Nat /\ Len(more) = Len(parts) + 1 /\ more[Len(parts) + 1] = m
      /\ \A i \in 1..Len(parts) : parts[i] = more[i]
  OBVIOUS
<1>2. PICK f : Joins(f, parts, Len(parts)) /\ Joined(parts) = f[Len(parts)]
  BY <1>1, JoinedDef
<1> HIDE DEF more
<1>3. PICK g : Joins(g, more, Len(parts) + 1) /\ Joined(more) = g[Len(parts) + 1]
  <2>1. Len(more) \in Nat
    BY <1>1
  <2>2. PICK g : Joins(g, more, Len(more)) /\ Joined(more) = g[Len(more)]
    BY <2>1, JoinedDef
  <2> QED
    BY <1>1, <2>2
<1>4. f[Len(parts)] = g[Len(parts)]
  BY <1>1, <1>2, <1>3, JoinsAgree
<1>5. g[Len(parts) + 1] = g[Len(parts)] \o m
  <2>1. PICK k \in Nat : k = Len(parts) + 1 /\ k \in 1..k /\ k - 1 = Len(parts)
    BY <1>1
  <2>2. Joins(g, more, k)
    BY <1>3, <2>1
  <2>3. g[k] = g[k - 1] \o more[k]
    BY <2>1, <2>2, JoinsStep
  <2> QED
    BY <1>1, <2>1, <2>3
<1> QED
  BY <1>2, <1>3, <1>4, <1>5 DEF more

\* Parts that are sequences over X.
LEMMA JoinedType ==
    ASSUME NEW X, NEW parts \in Seq(Seq(X))
    PROVE  Joined(parts) \in Seq(X)
<1>0. PICK k \in Nat : k = Len(parts)
  OBVIOUS
<1>1. PICK f : Joins(f, parts, k) /\ Joined(parts) = f[k]
  BY <1>0, JoinedDef
<1> DEFINE S == {n \in Nat : n <= k => f[n] \in Seq(X)}
<1>2. 0 \in S
  BY <1>1, EmptySeq DEF Joins
<1>3. ASSUME NEW n \in S
      PROVE  n + 1 \in S
  <2> SUFFICES ASSUME n + 1 <= k
               PROVE  f[n + 1] \in Seq(X)
    BY DEF S
  <2>1. f[n] \in Seq(X)
    BY DEF S
  <2>2. n \in Nat /\ n + 1 \in 1..k
    OBVIOUS
  <2>3. f[n + 1] = f[n] \o parts[n + 1]
    <3> HIDE DEF S
    <3>1. Joins(f, parts, k)
      BY <1>1
    <3>2. PICK m \in 1..k : m = n + 1 /\ m - 1 = n
      BY <2>2
    <3>3. f[m] = f[m - 1] \o parts[m]
      BY <3>1, JoinsStep
    <3> QED
      BY <3>2, <3>3
  <2>4. parts[n + 1] \in Seq(X)
    BY <1>0, <2>2, ElementOfSeq
  <2> QED
    BY <2>1, <2>3, <2>4, ConcatProperties
<1>4. S = Nat
  <2> HIDE DEF S
  <2>1. S \in SUBSET Nat
    BY DEF S
  <2> QED
    BY <1>2, <1>3, <2>1, Induction
<1>5. k \in S
  BY <1>4
<1> QED
  BY <1>1, <1>5

\* A sequence that is not empty ends with its last member.
LEMMA LastPart ==
    ASSUME NEW X, NEW parts \in Seq(X), parts # << >>
    PROVE  \E front \in Seq(X), last \in X :
              /\ parts = Append(front, last) /\ last = parts[Len(parts)]
              /\ Len(front) = Len(parts) - 1
<1> DEFINE front == SubSeq(parts, 1, Len(parts) - 1)
<1>1. Len(parts) \in Nat \ {0}
  BY EmptySeq
<1>2. parts[Len(parts)] \in X
  BY <1>1, ElementOfSeq
<1>3. front \in Seq(X) /\ Len(front) = Len(parts) - 1
      /\ \A i \in 1..Len(parts) - 1 : front[i] = parts[i]
  <2>1. PICK k \in Nat : k = Len(parts) - 1
    BY <1>1
  <2>2. /\ SubSeq(parts, 1, k) \in Seq(X) /\ Len(SubSeq(parts, 1, k)) = k
        /\ \A i \in 1..k : SubSeq(parts, 1, k)[i] = parts[i]
    BY <2>1, SubSeqProperties
  <2> QED
    BY <2>1, <2>2
<1> HIDE DEF front
<1>4. parts = Append(front, parts[Len(parts)])
  <2>1. Append(front, parts[Len(parts)]) \in Seq(X)
    BY <1>2, <1>3
  <2>2. Len(Append(front, parts[Len(parts)])) = Len(parts)
    BY <1>1, <1>3
  <2>3. \A i \in 1..Len(parts) : parts[i] = Append(front, parts[Len(parts)])[i]
    BY <1>1, <1>2, <1>3, AppendProperties
  <2> QED
    BY <2>1, <2>2, <2>3, SeqEqual
<1> QED
  BY <1>2, <1>3, <1>4

\* The loop after k points: all of them are in a message, in order; none is overfull,
\* and only the first of all is empty.
Filled(messages, points, k, P) ==
    /\ messages \in Seq(Seq(P)) /\ messages # << >>
    /\ Joined(messages) = SubSeq(points, 1, k)
    /\ \A i \in 1..Len(messages) : Len(messages[i]) <= PerMessage
    /\ \A i \in 1..Len(messages) : k = 0 \/ Len(messages[i]) >= 1
    /\ k = 0 => Len(messages) = 1

\* AddPoint adds the next point.
LEMMA PointAdded ==
    ASSUME NEW P, NEW points \in Seq(P), NEW k \in Nat, k < Len(points),
           NEW messages, Filled(messages, points, k, P)
    PROVE  Filled(AddPoint(messages, points[k + 1]), points, k + 1, P)
<1>1. PICK p \in P : p = points[k + 1]
  BY ElementOfSeq
<1>2. PICK front \in Seq(Seq(P)), last \in Seq(P) :
          /\ messages = Append(front, last) /\ last = messages[Len(messages)]
          /\ Len(front) = Len(messages) - 1
  BY LastPart DEF Filled
<1>3. Len(messages) \in Nat \ {0} /\ Len(last) \in Nat /\ Len(last) <= PerMessage
  BY <1>2, EmptySeq DEF Filled
<1>4. SubSeq(points, 1, k + 1) = Append(SubSeq(points, 1, k), p)
  <2>1. SubSeq(points, 1, k) \in Seq(P) /\ SubSeq(points, 1, k + 1) \in Seq(P)
    BY SubSeqProperties
  <2>2. Len(SubSeq(points, 1, k + 1)) = k + 1 /\ Len(SubSeq(points, 1, k)) = k
    BY SubSeqProperties
  <2>3. \A i \in 1..k + 1 : SubSeq(points, 1, k + 1)[i] = points[i]
    BY SubSeqProperties
  <2>4. \A i \in 1..k : SubSeq(points, 1, k)[i] = points[i]
    BY SubSeqProperties
  <2>5. Append(SubSeq(points, 1, k), p) \in Seq(P)
        /\ Len(Append(SubSeq(points, 1, k), p)) = k + 1
    BY <2>1, <2>2, AppendProperties
  <2>6. \A i \in 1..k + 1 : SubSeq(points, 1, k + 1)[i] = Append(SubSeq(points, 1, k), p)[i]
    BY <1>1, <2>1, <2>2, <2>3, <2>4, AppendProperties
  <2> QED
    BY <2>1, <2>2, <2>5, <2>6, SeqEqual
<1>5. CASE Len(last) >= PerMessage
  <2>1. PICK new \in Seq(P) : new = << p >> /\ Len(new) = 1
    <3>1. << p >> \in Seq(P)
      BY EmptySeq, AppendProperties, AppendIsConcat
    <3> QED
      BY <3>1
  <2>2. AddPoint(messages, p) = Append(messages, new)
    BY <1>2, <1>5, <2>1 DEF AddPoint
  <2>3. Joined(Append(messages, new)) = Append(Joined(messages), p)
    <3>1. Joined(Append(messages, new)) = Joined(messages) \o << p >>
      BY <2>1, JoinedAppend DEF Filled
    <3>2. Joined(messages) \in Seq(P)
      BY SubSeqProperties DEF Filled
    <3> QED
      BY <3>1, <3>2, AppendIsConcat
  <2>4. k # 0
    <3>1. SUFFICES ASSUME k = 0
                   PROVE  FALSE
      OBVIOUS
    <3>2. Len(messages) = 1 /\ Len(last) >= 1
      BY <1>3, <1>5, <3>1, DLinkAssumption DEF Filled
    <3>3. front = << >>
      BY <1>2, <3>2, EmptySeq
    <3>4. Joined(messages) = << >> \o last
      BY <1>2, <3>3, JoinedAppend, JoinedEmpty
    <3>5. Len(SubSeq(points, 1, 0)) = 0
      BY SubSeqProperties
    <3> QED
      BY <3>1, <3>2, <3>4, <3>5 DEF Filled
  <2> DEFINE out == Append(messages, new)
  <2>5. /\ out \in Seq(Seq(P)) /\ out # << >> /\ Len(out) = Len(messages) + 1
        /\ out[Len(messages) + 1] = new /\ \A i \in 1..Len(messages) : out[i] = messages[i]
    <3>1. messages \in Seq(Seq(P))
      BY DEF Filled
    <3>2. /\ out \in Seq(Seq(P)) /\ Len(out) = Len(messages) + 1
          /\ out[Len(messages) + 1] = new /\ \A i \in 1..Len(messages) : out[i] = messages[i]
      BY <2>1, <3>1, AppendProperties
    <3>3. out # << >>
      <4>1. Len(out) # 0
        BY <1>3, <3>2
      <4> QED
        BY <4>1, EmptySeq
    <3> QED
      BY <3>2, <3>3
  <2> HIDE DEF out
  <2>6. \A i \in 1..Len(out) : Len(out[i]) <= PerMessage /\ Len(out[i]) >= 1
    <3> TAKE i \in 1..Len(out)
    <3>1. CASE i \in 1..Len(messages)
      <4>1. out[i] = messages[i]
        BY <2>5, <3>1
      <4>2. Len(messages[i]) <= PerMessage /\ Len(messages[i]) >= 1
        BY <2>4, <3>1 DEF Filled
      <4> HIDE DEF Filled
      <4> QED
        BY <4>1, <4>2, Zenon
    <3>2. CASE i = Len(messages) + 1
      <4>1. out[i] = new
        BY <2>5, <3>2
      <4>2. Len(new) <= PerMessage /\ Len(new) >= 1
        BY <2>1, DLinkAssumption
      <4> QED
        BY <4>1, <4>2, Zenon
    <3> QED
      BY <1>3, <2>5, <3>1, <3>2
  <2>7. Joined(out) = SubSeq(points, 1, k + 1)
    BY <1>4, <2>3 DEF Filled, out
  <2>8. AddPoint(messages, points[k + 1]) = out
    BY <1>1, <2>2 DEF out
  <2> QED
    BY <2>5, <2>6, <2>7, <2>8 DEF Filled
<1>6. CASE Len(last) < PerMessage
  <2>1. PICK new \in Seq(P) : new = Append(last, p) /\ Len(new) = Len(last) + 1
    BY AppendProperties
  <2> DEFINE out == Append(front, new)
  <2>2. /\ out \in Seq(Seq(P)) /\ out # << >> /\ Len(out) = Len(messages)
        /\ out[Len(messages)] = new
        /\ \A i \in 1..Len(messages) - 1 : out[i] = front[i] /\ front[i] = messages[i]
    BY <1>2, <1>3, <2>1
  <2> HIDE DEF out
  <2>3. AddPoint(messages, p) = out
    <3>1. ~(Len(messages[Len(messages)]) >= PerMessage)
      BY <1>2, <1>3, <1>6, DLinkAssumption
    <3>2. AddPoint(messages, p) = [messages EXCEPT ![Len(messages)] = new]
      BY <1>2, <2>1, <3>1 DEF AddPoint
    <3> DEFINE put == [messages EXCEPT ![Len(messages)] = new]
    <3>3. put \in Seq(Seq(P)) /\ Len(put) = Len(messages)
      BY <1>3, <2>1, ExceptSeq DEF Filled
    <3>4. \A i \in 1..Len(messages) : put[i] = IF i = Len(messages) THEN new ELSE messages[i]
      BY <1>3 DEF Filled
    <3> HIDE DEF put
    <3>5. \A i \in 1..Len(put) : put[i] = out[i]
      <4> TAKE i \in 1..Len(put)
      <4>1. CASE i = Len(messages)
        BY <1>3, <2>2, <3>4, <4>1
      <4>2. CASE i \in 1..Len(messages) - 1
        BY <1>3, <2>2, <3>4, <4>2
      <4> QED
        BY <1>3, <3>3, <4>1, <4>2
    <3>6. Len(put) = Len(out) /\ out \in Seq(Seq(P))
      BY <2>2, <3>3
    <3>7. put = out
      BY ONLY <3>3, <3>5, <3>6, SeqEqual
    <3> QED
      BY <3>2, <3>7 DEF put
  <2>4. Joined(out) = SubSeq(points, 1, k + 1)
    <3>1. Joined(messages) = Joined(front) \o last /\ Joined(out) = Joined(front) \o new
      BY <1>2, <2>1, JoinedAppend DEF out
    <3>2. Joined(front) \in Seq(P)
      BY JoinedType
    <3>3. Joined(front) \o Append(last, p) = Append(Joined(front) \o last, p)
      BY <3>2, ConcatAppend
    <3> QED
      BY <1>4, <2>1, <3>1, <3>3 DEF Filled
  <2>5. \A i \in 1..Len(out) : Len(out[i]) <= PerMessage /\ Len(out[i]) >= 1
    <3> TAKE i \in 1..Len(out)
    <3>1. CASE i = Len(messages)
      BY <1>3, <1>6, <2>1, <2>2, <3>1, DLinkAssumption
    <3>2. CASE i \in 1..Len(messages) - 1
      <4>1. i \in 1..Len(messages) /\ Len(messages) # 1
        <5>1. PICK l \in Nat : l = Len(messages)
          BY <1>3
        <5>2. i \in 1..l - 1
          BY <3>2, <5>1
        <5>3. i \in 1..l /\ l # 1
          BY <5>2
        <5> QED
          BY <5>1, <5>3
      <4>2. k # 0
        BY <4>1 DEF Filled
      <4> QED
        BY <2>2, <3>2, <4>1, <4>2 DEF Filled
    <3> QED
      BY <1>3, <2>2, <3>1, <3>2
  <2>6. AddPoint(messages, points[k + 1]) = out
    BY <1>1, <2>3
  <2>7. k + 1 # 0
    OBVIOUS
  <2>8. Filled(out, points, k + 1, P)
    BY <2>2, <2>4, <2>5, <2>7, Zenon DEF Filled
  <2> QED
    BY <2>6, <2>8
<1> QED
  BY DLinkAssumption, <1>3, <1>5, <1>6

\* f is the sequence of what the loop has made after each point.
Sends(f, points, k) ==
    f = [n \in 0..k |-> IF n = 0 THEN << <<>> >> ELSE AddPoint(f[n - 1], points[n])]

\* There is such an f.
LEMMA SendsExists ==
    ASSUME NEW points, NEW k \in Nat
    PROVE  \E f : Sends(f, points, k)
<1> DEFINE S == {n \in Nat : \E f : Sends(f, points, n)}
<1>1. 0 \in S
  <2>1. Sends([n \in 0..0 |-> << <<>> >>], points, 0)
    BY DEF Sends
  <2> QED
    BY <2>1
<1>2. ASSUME NEW n \in S
      PROVE  n + 1 \in S
  <2>1. PICK f : Sends(f, points, n)
    OBVIOUS
  <2> DEFINE g == [i \in 0..n + 1 |-> IF i = n + 1 THEN AddPoint(f[n], points[n + 1]) ELSE f[i]]
  <2>2. ASSUME NEW i \in 0..n + 1
        PROVE  g[i] = IF i = 0 THEN << <<>> >> ELSE AddPoint(g[i - 1], points[i])
    <3>1. CASE i = n + 1
      BY <3>1
    <3>2. CASE i \in 0..n
      <4>1. f[i] = IF i = 0 THEN << <<>> >> ELSE AddPoint(f[i - 1], points[i])
        BY <2>1, <3>2 DEF Sends
      <4>2. g[i] = f[i]
        BY <3>2
      <4>3. i # 0 => g[i - 1] = f[i - 1]
        BY <3>2
      <4> QED
        BY <4>1, <4>2, <4>3
    <3> QED
      BY <3>1, <3>2
  <2>3. Sends(g, points, n + 1)
    BY <2>2 DEF Sends
  <2> QED
    BY <2>3
<1>3. S = Nat
  <2> HIDE DEF S
  <2>1. S \in SUBSET Nat
    BY DEF S
  <2> QED
    BY <1>1, <1>2, <2>1, Induction
<1> QED
  BY <1>3

\* Each of its values comes from the one before.
LEMMA SendsStep ==
    ASSUME NEW points, NEW k \in Nat, NEW f, Sends(f, points, k), NEW i \in 1..k
    PROVE  f[i] = AddPoint(f[i - 1], points[i])
  BY DEF Sends

\* The loop as a whole.
LEMMA SendsFilled ==
    ASSUME NEW P, NEW points \in Seq(P), NEW k \in Nat, k = Len(points),
           NEW f, Sends(f, points, k)
    PROVE  Filled(f[k], points, k, P)
<1> DEFINE S == {n \in Nat : n <= k => Filled(f[n], points, n, P)}
<1>1. 0 \in S
  <2>1. f[0] = << <<>> >>
    BY DEF Sends
  <2>2. << >> \in Seq(P) /\ << >> \in Seq(Seq(P))
    BY EmptySeq
  <2>3. << <<>> >> = Append(<< >>, << >>)
    OBVIOUS
  <2>4. /\ << <<>> >> \in Seq(Seq(P)) /\ Len(<< <<>> >>) = 1 /\ << <<>> >>[1] = << >>
    BY <2>2, <2>3, AppendProperties, EmptySeq
  <2>5. Joined(<< <<>> >>) = << >>
    <3>1. Joined(<< <<>> >>) = << >> \o << >>
      BY <2>2, <2>3, JoinedAppend, JoinedEmpty
    <3> QED
      BY <3>1
  <2>6. SubSeq(points, 1, 0) = << >>
    BY SubSeqProperties, EmptySeq
  <2>7. \A i \in 1..1 : << <<>> >>[i] = << >> /\ Len(<< >>) = 0
    BY <2>4, EmptySeq
  <2>8. Filled(<< <<>> >>, points, 0, P)
    BY <2>4, <2>5, <2>6, <2>7, DLinkAssumption DEF Filled
  <2> QED
    BY <2>1, <2>8
<1>2. ASSUME NEW n \in S
      PROVE  n + 1 \in S
  <2> SUFFICES ASSUME n + 1 <= k
               PROVE  Filled(f[n + 1], points, n + 1, P)
    BY DEF S
  <2>1. Filled(f[n], points, n, P) /\ n < Len(points) /\ n \in Nat
    BY DEF S
  <2> HIDE DEF S
  <2>2. PICK m \in 1..k : m = n + 1 /\ m - 1 = n
    BY <2>1
  <2>3. f[m] = AddPoint(f[m - 1], points[m])
    BY SendsStep
  <2> QED
    BY <2>1, <2>2, <2>3, PointAdded
<1>3. S = Nat
  <2> HIDE DEF S
  <2>1. S \in SUBSET Nat
    BY DEF S
  <2> QED
    BY <1>1, <1>2, <2>1, Induction
<1> QED
  BY <1>3

\* setPoints, for any points and any size of a message.
LEMMA PointsComplete ==
    ASSUME NEW P, NEW points \in Seq(P)
    PROVE  /\ Joined(setPoints(points)) = points
           /\ \A i \in DOMAIN setPoints(points) : Len(setPoints(points)[i]) \in 1..PerMessage
<1>1. CASE points = << >>
  BY <1>1, JoinedEmpty DEF setPoints
<1>2. CASE points # << >>
  <2>1. PICK k \in Nat : k = Len(points) /\ k # 0
    BY <1>2, EmptySeq
  <2> DEFINE f == CHOOSE g : Sends(g, points, k)
  <2>2. Sends(f, points, k)
    BY SendsExists
  <2>3. setPoints(points) = f[k]
    BY <1>2, <2>1 DEF setPoints, Sends
  <2> HIDE DEF f
  <2>4. Filled(f[k], points, k, P)
    BY <2>1, <2>2, SendsFilled
  <2>5. PICK out : out = f[k]
    OBVIOUS
  <2>6. Joined(out) = points
    BY <2>1, <2>4, <2>5, SubSeqProperties DEF Filled
  <2>7. ASSUME NEW i \in DOMAIN out
        PROVE  Len(out[i]) \in 1..PerMessage
    <3>1. out \in Seq(Seq(P)) /\ i \in 1..Len(out)
      BY <2>4, <2>5 DEF Filled
    <3>2. out[i] \in Seq(P)
      BY <3>1, ElementOfSeq
    <3>3. Len(out[i]) <= PerMessage /\ Len(out[i]) >= 1
      BY <2>1, <2>4, <2>5, <3>1 DEF Filled
    <3> QED
      BY <3>2, <3>3, DLinkAssumption
  <2> QED
    BY <2>3, <2>5, <2>6, <2>7
<1> QED
  BY <1>1, <1>2

\* UpdateComplete, of an update u.
Complete(u) ==
    /\ Joined(u.messages) = u.points
    /\ \A i \in DOMAIN u.messages : Len(u.messages[i]) \in 1..PerMessage

\* UpdateComplete: each point once and in order, in messages neither empty nor
\* overfull, for any number of points and any size of a message.
THEOREM UpdatesWhole == Spec => []UpdateComplete
<1>1. UpdateComplete <=> Complete(update)
  BY DEF UpdateComplete, Complete
<1>2. ASSUME NEW u, u.points = << >>, u.messages = << >>
      PROVE  Complete(u)
  <2>1. Joined(u.messages) = u.points /\ DOMAIN u.messages = {}
    BY <1>2, JoinedEmpty
  <2> QED
    BY <2>1 DEF Complete
<1>3. Init => UpdateComplete
  BY <1>1, <1>2 DEF Init, NoUpdate
<1>4. ASSUME UpdateComplete, [Next]_vars
      PROVE  UpdateComplete'
  <2>1. \/ UNCHANGED update
        \/ update' = NoUpdate
        \/ \E c \in Calls : update' = [NoUpdate EXCEPT !.call = c, !.out = Sent(c)]
        \/ \E n \in Updates : LET points == [i \in 1..n |-> i]
                             IN  update' = [NoUpdate EXCEPT !.points = points,
                                                            !.messages = setPoints(points)]
    BY <1>4 DEF Next, Monitor, Listener, Connect, SendLine, Disconnect, Look, Read, ReadNothing,
           NoteSocket, HandleMessage, HandleDebug, Show, SetCommand, SetOne, MassUpdate, EndProcess,
           CallUser, ReadCommand, ReadError, HandleCommand, EndCallback, SendFromMonitor, LookUpSocket,
           SendFromListener, RenewFromMonitor, RenewFromListener, makeTcpServer, UseDeleted, vars, watch
  <2>2. CASE UNCHANGED update
    BY <1>4, <2>2 DEF UpdateComplete
  <2>3. CASE update' = NoUpdate
    <3>1. Complete(NoUpdate)
      BY <1>2 DEF NoUpdate
    <3> QED
      BY <2>3, <3>1 DEF UpdateComplete, Complete
  <2>4. ASSUME NEW c \in Calls, update' = [NoUpdate EXCEPT !.call = c, !.out = Sent(c)]
        PROVE  UpdateComplete'
    <3>1. Complete([NoUpdate EXCEPT !.call = c, !.out = Sent(c)])
      BY <1>2 DEF NoUpdate
    <3> QED
      BY <2>4, <3>1 DEF UpdateComplete, Complete
  <2>5. ASSUME NEW n \in Updates, NEW points, points = [i \in 1..n |-> i],
               update' = [NoUpdate EXCEPT !.points = points, !.messages = setPoints(points)]
        PROVE  UpdateComplete'
    <3>1. n \in Nat
      BY DLinkAssumption
    <3>2. points \in Seq(Nat)
      BY <2>5, <3>1
    <3>3. PICK u : u = [NoUpdate EXCEPT !.points = points, !.messages = setPoints(points)]
      OBVIOUS
    <3>4. u.points = points /\ u.messages = setPoints(points)
      BY <3>3 DEF NoUpdate
    <3>5. Complete(u)
      BY <3>2, <3>4, PointsComplete DEF Complete
    <3> QED
      BY <2>5, <3>3, <3>5 DEF UpdateComplete, Complete
  <2> QED
    BY <2>1, <2>2, <2>3, <2>4, <2>5
<1> QED
  BY <1>3, <1>4, PTL DEF Spec
================================================================================
