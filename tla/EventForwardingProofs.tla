------------------------- MODULE EventForwardingProofs -------------------------
(***************************************************************************)
(* Proofs about EventForwarding, for every value of its constants.         *)
(***************************************************************************)
EXTENDS EventForwarding, TLAPS

\* No update is queued: a function as the others (UpdateBuilder when it is new).
LEMMA EmptyType == Empty \in [Key -> Report \cup {None}]
BY DEF Empty

\* Every variable keeps its type, whatever the database refuses and whatever
\* the library's thread does (dnp3client.cpp, main.cpp).
THEOREM TypeCorrect == Spec => []TypeOK
<1>1. Init => TypeOK
  <2>1. 0 \in Index
    BY DEF Index
  <2>2. 1 \in 1..IxMax /\ 0 \in 0..IxMax /\ 0 \in 0..MaxFails /\ 0 \in 0..MaxExits
    BY EFAssumption
  <2> QED
    BY <2>1, <2>2, EmptyType DEF Init, TypeOK
<1>2. TypeOK /\ [Next]_vars => TypeOK'
  <2> SUFFICES ASSUME TypeOK, [Next]_vars
               PROVE  TypeOK'
    OBVIOUS
  <2> USE EFAssumption DEF TypeOK, Row, Report, Statements
  <2>1. ASSUME NEW p \in Point, NEW v \in Value, Change(p, v)
        PROVE  TypeOK'
    BY <2>1 DEF Change, Above, table, locals, statics, api, limits
  <2>2. CASE ResetTable
    BY <2>2 DEF ResetTable, table, locals, statics, api, limits, Index
  <2>3. CASE DropOldTrigger \/ CreateTrigger
    BY <2>3 DEF DropOldTrigger, CreateTrigger, locals, statics, api, limits
  <2>4. CASE SelectEvents
    <3>1. dangling' \in BOOLEAN /\ batch' \subseteq Row
      BY <2>4 DEF SelectEvents
    <3>2. fails' \in 0..MaxFails
      BY <2>4 DEF SelectEvents, Refuse
    <3> QED
      BY <2>4, <3>1, <3>2 DEF SelectEvents, table, statics, api
  <2>5. ASSUME NEW p \in Point, Lookup(p)
        PROVE  lastIx' \in Index /\ fails' \in 0..MaxFails
    BY <2>5 DEF Lookup, Found, Refuse, Index
  <2>6. ASSUME NEW p \in Point, NEW v \in Value, lastIx' \in Index, Queue(p, v)
        PROVE  builder' \in [Key -> Report \cup {None}]
    <3>1. <<Class[p], lastIx'>> \in Key
      BY <2>6 DEF Key
    <3> QED
      BY <2>6, <3>1 DEF Queue
  <2>7. CASE ForwardRow
    <3> PICK r \in batch : /\ batch' = batch \ {r}
                           /\ read' = read \cup {r}
                           /\ evMax' = Highest(r)
                           /\ Lookup(r.tag)
                           /\ Queue(r.tag, r.val)
      BY <2>7 DEF ForwardRow
    <3>1. r.tag \in Point /\ r.val \in Value
      OBVIOUS
    <3>2. lastIx' \in Index /\ fails' \in 0..MaxFails
      BY <2>5, <3>1
    <3>3. builder' \in [Key -> Report \cup {None}]
      BY <2>6, <3>1, <3>2
    <3> QED
      BY <2>7, <3>2, <3>3 DEF ForwardRow, Highest, table
  <2>8. CASE ScanDone
    BY <2>8 DEF ScanDone, table, locals, statics, api, limits
  <2>9. CASE DeleteEvents
    <3>1. dangling' \in BOOLEAN
      BY <2>9 DEF DeleteEvents
    <3>2. fails' \in 0..MaxFails /\ evMax' \in 0..IxMax
      BY <2>9 DEF DeleteEvents, Refuse
    <3>3. events' \subseteq Row /\ read' \subseteq Row
      BY <2>9 DEF DeleteEvents, Left
    <3> QED
      BY <2>9, <3>1, <3>2, <3>3 DEF DeleteEvents, statics, api
  <2>10. CASE ResetCounter
    <3>1. dangling' \in BOOLEAN
      BY <2>10 DEF ResetCounter
    <3>2. fails' \in 0..MaxFails /\ nextIx' \in 1..IxMax
      BY <2>10 DEF ResetCounter, Refuse
    <3> QED
      BY <2>10, <3>1, <3>2 DEF ResetCounter, statics, api
  <2>11. CASE CheckFirst
    BY <2>11 DEF CheckFirst, table, locals, api, limits
  <2>12. CASE SelectStatus
    <3>1. report' \subseteq Report
      BY <2>12 DEF SelectStatus
    <3>0. dangling' \in BOOLEAN
      BY <2>12 DEF SelectStatus
    <3>2. fails' \in 0..MaxFails
      BY <2>12 DEF SelectStatus, Refuse
    <3> QED
      BY <2>12, <3>0, <3>1, <3>2 DEF SelectStatus, table, statics, api
  <2>13. CASE ReportRow
    <3> PICK r \in report : /\ report' = report \ {r}
                            /\ Lookup(r.tag)
                            /\ Queue(r.tag, r.val)
      BY <2>13 DEF ReportRow
    <3>1. r.tag \in Point /\ r.val \in Value
      OBVIOUS
    <3>2. lastIx' \in Index /\ fails' \in 0..MaxFails
      BY <2>5, <3>1
    <3>3. builder' \in [Key -> Report \cup {None}]
      BY <2>6, <3>1, <3>2
    <3> QED
      BY <2>13, <3>2, <3>3 DEF ReportRow, table
  <2>14. CASE ReportDone
    BY <2>14 DEF ReportDone, table, locals, statics, api, limits
  <2>15. CASE StartApi
    BY <2>15 DEF StartApi, table, locals, statics, limits
  <2>16. CASE Flush
    <3>1. outstation' \in [Key -> Report \cup {None}]
      BY <2>16 DEF Flush
    <3>2. builder' \in [Key -> Report \cup {None}]
      BY <2>16, EmptyType DEF Flush
    <3> QED
      BY <2>16, <3>1, <3>2 DEF Flush, table, locals, statics, limits
  <2>17. CASE Bye
    <3>1. closing' \in BOOLEAN /\ trigger' \in BOOLEAN
      BY <2>17 DEF Bye
    <3>2. fails' \in 0..MaxFails
      BY <2>17 DEF Bye, Refuse
    <3> QED
      BY <2>17, <3>1, <3>2 DEF Bye, locals, statics, api
  <2>18. ASSUME Down, exits' \in 0..MaxExits
         PROVE  TypeOK'
    <3>1. /\ builder' \in [Key -> Report \cup {None}]
          /\ outstation' \in [Key -> Report \cup {None}]
      BY <2>18, EmptyType DEF Down
    <3>2. evMax' \in 0..IxMax
      BY <2>18 DEF Down
    <3>3. /\ closing' \in BOOLEAN /\ apiUp' \in BOOLEAN /\ dangling' \in BOOLEAN
          /\ batch' \subseteq Row /\ read' \subseteq Row /\ report' \subseteq Report
      BY <2>18 DEF Down
    <3> QED
      BY <2>18, <3>1, <3>2, <3>3 DEF Down, table, statics
  <2>19. CASE UNCHANGED vars
    BY <2>19 DEF vars, table, locals, statics, api, limits
  <2>20. CASE Exit
    <3>1. exits' \in 0..MaxExits
      BY <2>20 DEF Exit
    <3> QED
      BY <2>18, <2>20, <3>1 DEF Exit
  <2>21. CASE Abort
    BY <2>18, <2>21 DEF Abort
  <2> QED
    BY <2>1, <2>2, <2>3, <2>4, <2>7, <2>8, <2>9, <2>10, <2>11, <2>12, <2>13, <2>14,
       <2>15, <2>16, <2>17, <2>19, <2>20, <2>21 DEF Next, Client, ByeExit, Crash
<1>3. QED
  BY <1>1, <1>2, PTL DEF Spec

-----------------------------------------------------------------------------
(***************************************************************************)
(* The table and the SELECT's copy of it.                                  *)
(***************************************************************************)

\* The key the counter names is above every row, when no row has it yet.
LEMMA CounterAbove ==
    ASSUME TypeOK, TableInv, IxFree
    PROVE  \A r \in events : r.ix < nextIx
<1> SUFFICES ASSUME NEW r \in events
             PROVE  r.ix < nextIx
  OBVIOUS
<1>1. r.ix \in 1..IxMax /\ nextIx \in 1..IxMax
  BY DEF TypeOK, Row
<1>2. r.ix <= nextIx /\ r.ix # nextIx
  BY DEF TableInv, IxFree
<1> QED
  BY <1>1, <1>2, EFAssumption

\* The numbering of the rows survives every step of the database, the client
\* and the library.
LEMMA TableStep == TypeOK /\ TableInv /\ [Next]_vars => TableInv'
<1> SUFFICES ASSUME TypeOK, TableInv, [Next]_vars
             PROVE  TableInv'
  OBVIOUS
<1>1. ASSUME NEW p \in Point, NEW v \in Value, Change(p, v)
      PROVE  TableInv'
  <2>1. CASE trigger /\ p \notin Virtual
    <3> DEFINE new == [ix |-> nextIx, tag |-> p, val |-> v]
    <3>1. /\ events' = events \cup {new}
          /\ nextIx' = IF nextIx < IxMax THEN nextIx + 1 ELSE nextIx
          /\ \A r \in events : r.ix < nextIx
      BY <1>1, <2>1, CounterAbove DEF Change, Above
    <3>2. nextIx \in 1..IxMax /\ new.ix = nextIx /\ \A r \in events : r.ix \in 1..IxMax
      BY DEF TypeOK, Row
    <3> HIDE DEF new
    <3>3. \A r \in events' : r.ix <= nextIx' /\ (r.ix = nextIx' => nextIx' = IxMax)
      BY <3>1, <3>2, EFAssumption
    <3>4. \A r, s \in events' : r.ix = s.ix => r = s
      BY <3>1, <3>2 DEF TableInv
    <3> QED
      BY <3>3, <3>4 DEF TableInv
  <2>2. CASE ~(trigger /\ p \notin Virtual)
    BY <1>1, <2>2 DEF Change, Above, TableInv
  <2> QED
    BY <2>1, <2>2
<1>2. CASE ResetTable
  BY <1>2 DEF ResetTable, TableInv
<1>3. CASE DeleteEvents
  <2>1. events' \subseteq events /\ nextIx' = nextIx
    BY <1>3 DEF DeleteEvents, Left
  <2> QED
    BY <2>1 DEF TableInv
<1>4. CASE ResetCounter
  <2>1. events' = events
    BY <1>4 DEF ResetCounter
  <2>2. CASE nextIx' = nextIx
    BY <2>1, <2>2 DEF TableInv
  <2>3. CASE \E n \in 1..IxMax : FirstFree(n) /\ nextIx' = n
    <3> PICK n \in 1..IxMax : FirstFree(n) /\ nextIx' = n
      BY <2>3
    <3>1. \A r \in events : r.ix \in 1..IxMax
      BY DEF TypeOK, Row
    <3>2. \A r \in events : r.ix <= n /\ (r.ix = n => n = IxMax)
      BY <3>1, EFAssumption DEF FirstFree
    <3> QED
      BY <2>1, <3>2 DEF TableInv
  <2> QED
    BY <1>4, <2>2, <2>3 DEF ResetCounter
<1>5. ASSUME UNCHANGED <<events, nextIx>>
      PROVE  TableInv'
  BY <1>5 DEF TableInv
<1>6. CASE DropOldTrigger \/ CreateTrigger \/ SelectEvents \/ ForwardRow \/ ScanDone
  BY <1>5, <1>6 DEF DropOldTrigger, CreateTrigger, SelectEvents, ForwardRow, ScanDone, table
<1>7. CASE CheckFirst \/ SelectStatus \/ ReportRow \/ ReportDone
  BY <1>5, <1>7 DEF CheckFirst, SelectStatus, ReportRow, ReportDone, table
<1>8. CASE StartApi \/ Flush \/ Bye \/ Down
  BY <1>5, <1>8 DEF StartApi, Flush, Bye, Down, table
<1>9. CASE UNCHANGED vars
  BY <1>5, <1>9 DEF vars, table
<1> QED
  BY <1>1, <1>2, <1>3, <1>4, <1>6, <1>7, <1>8, <1>9 DEF Next, Client, Exit, ByeExit, Crash, Abort

\* The relation of the SELECT's copy to the table survives every step; the
\* ones that matter are the insertion of a row, the fetch and the DELETE.
LEMMA ScanStep == TypeOK /\ TableInv /\ ScanInv /\ [Next]_vars => ScanInv'
<1> SUFFICES ASSUME TypeOK, TableInv, ScanInv, [Next]_vars
             PROVE  ScanInv'
  OBVIOUS
<1>t. /\ evMax \in 0..IxMax /\ nextIx \in 1..IxMax
      /\ \A r \in events : r.ix \in 1..IxMax
  BY DEF TypeOK, Row
<1>1. ASSUME NEW p \in Point, NEW v \in Value, Change(p, v)
      PROVE  ScanInv'
  <2>0. UNCHANGED <<pc, batch, read, evMax, report>>
    BY <1>1 DEF Change, Above, locals
  <2>1. CASE trigger /\ p \notin Virtual
    <3> DEFINE new == [ix |-> nextIx, tag |-> p, val |-> v]
    <3>1. /\ events' = events \cup {new} /\ new.ix = nextIx
          /\ \A r \in events : r.ix < nextIx
      BY <1>1, <2>1, CounterAbove DEF Change, Above
    <3> HIDE DEF new
    <3> QED
      BY <2>0, <3>1 DEF ScanInv
  <2>2. CASE ~(trigger /\ p \notin Virtual)
    BY <1>1, <2>0, <2>2 DEF Change, Above, ScanInv
  <2> QED
    BY <2>1, <2>2
<1>2. CASE ResetTable
  BY <1>2 DEF ResetTable, locals, ScanInv
<1>3. CASE SelectEvents
  <2>1. batch = {} /\ read = {} /\ evMax = 0
    BY <1>3 DEF SelectEvents, ScanInv
  <2> QED
    BY <1>3, <1>t, <2>1 DEF SelectEvents, table, ScanInv
<1>4. CASE ForwardRow
  <2> PICK r \in batch : /\ \A s \in batch : r.ix <= s.ix
                         /\ batch' = batch \ {r}
                         /\ read' = read \cup {r}
                         /\ evMax' = Highest(r)
    BY <1>4 DEF ForwardRow
  <2>1. UNCHANGED <<events, pc, report>> /\ pc = "scan"
    BY <1>4 DEF ForwardRow, table
  <2>2. r \in events /\ evMax < r.ix /\ evMax' = r.ix
    BY DEF Highest, ScanInv
  <2>3. \A s \in read' : s.ix <= evMax'
    BY <1>t, <2>2 DEF ScanInv
  <2>4. \A s \in batch' : evMax' < s.ix
    BY <1>t, <2>2 DEF ScanInv, TableInv
  <2>5. batch' \cup read' = batch \cup read
    OBVIOUS
  <2> QED
    BY <2>1, <2>2, <2>3, <2>4, <2>5 DEF ScanInv
<1>5. CASE ScanDone
  <2>1. UNCHANGED <<events, batch, read, evMax, report>>
    BY <1>5 DEF ScanDone, table, locals
  <2>2. evMax = 0 => read = {}
    BY <1>t DEF ScanInv
  <2> QED
    BY <1>5, <2>1, <2>2 DEF ScanDone, ScanInv
<1>6. CASE DeleteEvents
  BY <1>6 DEF DeleteEvents, Left, ScanInv
<1>7. CASE SelectStatus \/ ReportRow
  BY <1>7 DEF SelectStatus, ReportRow, ScanInv, table
<1>8. CASE ReportDone \/ ResetCounter \/ CheckFirst
  BY <1>8 DEF ReportDone, ResetCounter, CheckFirst, ScanInv, table, locals
<1>9. CASE DropOldTrigger \/ CreateTrigger
  BY <1>9 DEF DropOldTrigger, CreateTrigger, ScanInv, locals
<1>10. CASE StartApi \/ Flush \/ Bye
  BY <1>10 DEF StartApi, Flush, Bye, ScanInv, table, locals
<1>11. CASE Down
  BY <1>11 DEF Down, ScanInv
<1>12. CASE UNCHANGED vars
  BY <1>12 DEF vars, table, locals, ScanInv
<1> QED
  BY <1>1, <1>2, <1>3, <1>4, <1>5, <1>6, <1>7, <1>8, <1>9, <1>10, <1>11, <1>12
  DEF Next, Client, Exit, ByeExit, Crash, Abort

\* The two parts that need no assumption on refusals, races or tags.
LEMMA TableCorrect == Spec => [](TypeOK /\ TableInv /\ ScanInv)
<1>1. Init => TableInv /\ ScanInv
  BY DEF Init, TableInv, ScanInv
<1>2. TypeOK /\ TableInv /\ ScanInv /\ [Next]_vars => TableInv' /\ ScanInv'
  BY TableStep, ScanStep
<1> QED
  BY <1>1, <1>2, TypeCorrect, PTL DEF Spec

\* A row that was inserted after the SELECT is never deleted with those that
\* were read, also at the counter's last value (dnp3clientService, its DELETE).
THEOREM DeleteIsSafe == Spec => DeletedWereRead
<1>1. TypeOK /\ TableInv /\ ScanInv /\ [Next]_vars
        => (pc = "delete" => (events \ events') \subseteq read)
  <2> SUFFICES ASSUME TypeOK, ScanInv, [Next]_vars, pc = "delete",
                      NEW r \in events, r \notin events'
               PROVE  r \in read
    OBVIOUS
  <2>1. r.ix \in 1..IxMax /\ evMax \in 0..IxMax
    BY DEF TypeOK, Row
  <2>2. batch = {}
    BY DEF ScanInv
  <2>3. CASE r.ix <= evMax
    <3>1. PICK s \in read : s.ix = evMax
      BY <2>1, <2>3, EFAssumption DEF ScanInv
    <3> QED
      BY <2>1, <2>2, <2>3, <3>1, EFAssumption DEF ScanInv
  <2>4. CASE DeleteEvents
    <3>1. r.ix <= evMax
      BY <2>1, <2>4 DEF DeleteEvents, Left
    <3> QED
      BY <2>3, <3>1
  <2>5. ASSUME NEW p \in Point, NEW v \in Value, Change(p, v)
        PROVE  FALSE
    BY <2>5 DEF Change, Above
  <2>6. CASE Bye \/ Down \/ StartApi \/ Flush
    BY <2>6 DEF Bye, Down, StartApi, Flush, table
  <2>7. CASE Client /\ ~DeleteEvents
    BY <2>7 DEF Client, ResetTable, DropOldTrigger, CreateTrigger, SelectEvents, ForwardRow,
       ScanDone, ResetCounter, CheckFirst, SelectStatus, ReportRow, ReportDone
  <2>8. CASE UNCHANGED vars
    BY <2>8 DEF vars, table
  <2> QED
    BY <2>4, <2>5, <2>6, <2>7, <2>8 DEF Next, Exit, ByeExit, Crash, Abort
<1>2. TypeOK /\ TableInv /\ ScanInv /\ [Next]_vars
        => [pc = "delete" => (events \ events') \subseteq read]_vars
  BY <1>1
<1> QED
  BY <1>2, TableCorrect, PTL DEF Spec, DeletedWereRead

-----------------------------------------------------------------------------
(***************************************************************************)
(* The current value is always on its way.                                 *)
(***************************************************************************)

\* What LatestInPipeline needs: no SELECT or DELETE is refused (FLUSH TABLES and
\* ALTER may be, and the process may die of it), no update is lost in an overlap with Build, and every point has a key of its own, which
\* module TagIndex shows of the table that dnp3buildConfigs makes.
CleanRun ==
    /\ FailAt \subseteq {"flush", "alter", "bye"}
    /\ ~BuilderRace
    /\ DOMAIN TagIx = Point
    /\ \A p, q \in Point : KeyOf(p) = KeyOf(q) => p = q

\* An insertion by the trigger: the new row is the newest of its point.
LEMMA SoundInsert ==
    ASSUME NEW S, Sound(S), NEW p \in Point, NEW v \in Value, rtStatus \in [Point -> Value],
           NEW new, new.tag = p, new.val = v, rtStatus' = [rtStatus EXCEPT ![p] = v],
           new.ix \in Nat, \A r \in S : r.tag \in Point /\ r.ix \in Nat /\ r.ix < new.ix,
           NEW T, T = S \cup {new}
    PROVE  \A r \in T : (r.tag \in Reported /\ \A s \in T : s.tag = r.tag => s.ix <= r.ix)
                             => r.val = rtStatus'[r.tag]
<1> SUFFICES ASSUME NEW r \in T, r.tag \in Reported,
                    \A s \in T : s.tag = r.tag => s.ix <= r.ix
             PROVE  r.val = rtStatus'[r.tag]
  OBVIOUS
<1>1. CASE r = new
  BY <1>1
<1>2. CASE r \in S /\ r.tag = p
  BY <1>2
<1>3. CASE r \in S /\ r.tag # p
  BY <1>3 DEF Sound
<1> QED
  BY <1>1, <1>2, <1>3

\* The soundness of the rows that are not read yet survives every step.
LEMMA SoundStep ==
    ASSUME CleanRun
    PROVE  TypeOK /\ TableInv /\ ScanInv /\ SoundInv /\ [Next]_vars => SoundInv'
<1> SUFFICES ASSUME TypeOK, TableInv, ScanInv, SoundInv, [Next]_vars
             PROVE  SoundInv'
  OBVIOUS
<1>t. /\ evMax \in 0..IxMax /\ nextIx \in 1..IxMax /\ rtStatus \in [Point -> Value]
      /\ \A r \in events : r.ix \in 1..IxMax /\ r.tag \in Point
  BY DEF TypeOK, Row
<1>1. ASSUME NEW p \in Point, NEW v \in Value, Change(p, v)
      PROVE  SoundInv'
  <2>0. /\ UNCHANGED <<trigger, pc, batch, read, evMax, first, closing>>
        /\ rtStatus' = [rtStatus EXCEPT ![p] = v]
    BY <1>1 DEF Change, Above, locals, statics
  <2>1. CASE trigger /\ p \notin Virtual
    <3> DEFINE new == [ix |-> nextIx, tag |-> p, val |-> v]
    <3>1. /\ events' = events \cup {new}
          /\ \A r \in events : r.ix < new.ix
      BY <1>1, <2>1, CounterAbove DEF Change, Above
    <3>2. new.tag = p /\ new.val = v /\ new.ix = nextIx /\ new.ix \in Nat
      BY <1>t
    <3>3. ASSUME NEW S, S \subseteq events, Sound(S), NEW T, T = S \cup {new}
          PROVE  \A r \in T : (r.tag \in Reported /\ \A s \in T : s.tag = r.tag => s.ix <= r.ix)
                                  => r.val = rtStatus'[r.tag]
      <4>1. \A r \in S : r.tag \in Point /\ r.ix \in Nat /\ r.ix < new.ix
        BY <1>t, <3>1, <3>3
      <4> HIDE DEF new
      <4> QED
        BY <1>t, <2>0, <3>2, <3>3, <4>1, SoundInsert
    <3>4. new \notin batch \cup read /\ evMax < new.ix
      BY <1>t, <3>1, <3>2 DEF ScanInv
    <3> HIDE DEF new
    <3>5. /\ events' \ (batch' \cup read') = (events \ (batch \cup read)) \cup {new}
          /\ {r \in events' : r.ix > evMax'} = {r \in events : r.ix > evMax} \cup {new}
      BY <1>t, <2>0, <3>1, <3>2, <3>4
    <3>6. ASSUME trigger, ~closing
          PROVE  /\ pc \in {"scan", "delete"} => Sound(events \ (batch \cup read))'
                 /\ pc \in {"alter", "pause"} => Sound(events)'
                 /\ Started /\ ~first => Sound({r \in events : r.ix > evMax})'
      <4>1. ASSUME pc \in {"scan", "delete"}
            PROVE  Sound(events \ (batch \cup read))'
        <5>1. Sound(events \ (batch \cup read))
          BY <3>6, <4>1 DEF SoundInv
        <5> QED
          BY <3>3, <3>5, <5>1 DEF Sound
      <4>2. ASSUME pc \in {"alter", "pause"}
            PROVE  Sound(events)'
        <5>1. Sound(events)
          BY <3>6, <4>2 DEF SoundInv
        <5> QED
          BY <3>1, <3>3, <5>1 DEF Sound
      <4>3. ASSUME Started, ~first
            PROVE  Sound({r \in events : r.ix > evMax})'
        <5> DEFINE U == {r \in events : r.ix > evMax}
        <5>1. Sound(U) /\ U \subseteq events
          BY <3>6, <4>3 DEF SoundInv
        <5>2. U' = U \cup {new}
          BY <3>5
        <5> HIDE DEF U
        <5>3. Sound(U)'
          BY <3>3, <5>1, <5>2 DEF Sound
        <5> QED
          BY <5>3 DEF U
      <4> QED
        BY <4>1, <4>2, <4>3
    <3> QED
      BY <2>0, <3>6 DEF SoundInv, Started
  <2>2. CASE ~trigger
    BY <2>0, <2>2 DEF SoundInv
  <2>3. CASE p \in Virtual
    <3>1. events' = events
      BY <1>1, <2>3 DEF Change, Above
    <3>2. \A q \in Reported : q \in Point /\ rtStatus'[q] = rtStatus[q]
      BY <1>t, <2>0, <2>3, EFAssumption DEF Reported
    <3> QED
      BY <2>0, <3>1, <3>2 DEF SoundInv, Sound, Started
  <2> QED
    BY <2>1, <2>2, <2>3
<1>2. CASE ResetTable \/ DropOldTrigger \/ CreateTrigger
  BY <1>2 DEF ResetTable, DropOldTrigger, CreateTrigger, statics, SoundInv, Started
<1>3. CASE SelectEvents
  <2>1. /\ pc = "poll" /\ pc' = "scan" /\ batch' = events
        /\ UNCHANGED <<rtStatus, events, trigger, read, evMax, first, closing>>
    BY <1>3 DEF SelectEvents, Refuse, CleanRun, table, statics
  <2>2. events' \ (batch' \cup read') = {}
    BY <2>1
  <2> QED
    BY <2>1, <2>2 DEF SoundInv, Sound, Started
<1>4. CASE ForwardRow
  <2> PICK r \in batch : /\ batch' = batch \ {r}
                         /\ read' = read \cup {r}
                         /\ evMax' = Highest(r)
                         /\ \A s \in batch : r.ix <= s.ix
    BY <1>4 DEF ForwardRow
  <2>1. /\ pc = "scan" /\ batch' \cup read' = batch \cup read
        /\ UNCHANGED <<rtStatus, events, trigger, pc, first, closing>>
    BY <1>4 DEF ForwardRow, table
  <2>2. r \in events /\ evMax < r.ix /\ evMax' = r.ix
    BY DEF Highest, ScanInv
  <2>3. ASSUME Sound({s \in events : s.ix > evMax})
        PROVE  Sound({s \in events : s.ix > evMax})'
    <3> SUFFICES ASSUME NEW q \in events, q.ix > r.ix, q.tag \in Reported,
                        \A s \in events : s.ix > r.ix /\ s.tag = q.tag => s.ix <= q.ix
                 PROVE  q.val = rtStatus[q.tag]
      BY <2>1, <2>2 DEF Sound
    <3>1. q.ix > evMax /\ \A s \in events : s.tag = q.tag => s.ix <= q.ix
      BY <1>t, <2>2
    <3> QED
      BY <2>3, <3>1 DEF Sound
  <2> QED
    BY <2>1, <2>3 DEF SoundInv, Sound, Started
<1>5. CASE ScanDone
  <2>1. /\ pc = "scan" /\ pc' \in {"delete", "pause"} /\ (pc' = "pause" => evMax = 0)
        /\ batch = {}
        /\ UNCHANGED <<rtStatus, events, trigger, batch, read, evMax, first, closing>>
    BY <1>5 DEF ScanDone, table, locals, statics
  <2>2. pc' = "pause" => events \ (batch \cup read) = events
    BY <1>t, <2>1 DEF ScanInv
  <2> QED
    BY <2>1, <2>2 DEF SoundInv, Sound, Started
<1>6. CASE DeleteEvents
  <2>1. /\ pc = "delete" /\ pc' \in {"alter", "pause"}
        /\ events' = {r \in events : r.ix > evMax}
        /\ batch = {} /\ evMax' = 0
        /\ UNCHANGED <<rtStatus, trigger, first, closing>>
    BY <1>6 DEF DeleteEvents, Left, Refuse, CleanRun, statics, ScanInv
  <2>2. ASSUME NEW r \in events
        PROVE  r.ix > evMax <=> r \notin read
    <3>1. CASE r \in read
      BY <1>t, <3>1 DEF ScanInv
    <3>2. CASE r \notin read
      BY <1>t, <2>1, <3>2 DEF ScanInv
    <3> QED
      BY <3>1, <3>2
  <2>3. events' = events \ (batch \cup read)
    BY <2>1, <2>2
  <2>4. {r \in events' : r.ix > evMax'} = events'
    BY <1>t, <2>1
  <2> QED
    BY <2>1, <2>3, <2>4 DEF SoundInv, Sound, Started
<1>7. CASE ResetCounter
  BY <1>7 DEF ResetCounter, locals, statics, SoundInv, Sound, Started
<1>8. CASE CheckFirst
  <2>1. /\ pc = "pause" /\ pc' \in {"status", "poll"} /\ first' = FALSE
        /\ evMax = 0
        /\ UNCHANGED <<rtStatus, events, trigger, batch, read, evMax, closing>>
    BY <1>8 DEF CheckFirst, table, locals, ScanInv
  <2>2. {r \in events : r.ix > evMax} = events
    BY <1>t, <2>1
  <2> QED
    BY <2>1, <2>2 DEF SoundInv, Sound, Started
<1>9. CASE SelectStatus \/ ReportRow \/ ReportDone
  BY <1>9 DEF SelectStatus, ReportRow, ReportDone, table, locals, statics, SoundInv, Sound, Started
<1>10. CASE StartApi \/ Flush
  BY <1>10 DEF StartApi, Flush, table, locals, statics, SoundInv, Sound, Started
<1>11. CASE Bye \/ Down
  BY <1>11 DEF Bye, Down, statics, SoundInv, Started
<1>12. CASE UNCHANGED vars
  BY <1>12 DEF vars, table, locals, statics, SoundInv, Sound, Started
<1> QED
  BY <1>1, <1>2, <1>3, <1>4, <1>5, <1>6, <1>7, <1>8, <1>9, <1>10, <1>11, <1>12
  DEF Next, Client, Exit, ByeExit, Crash, Abort

\* The queue operation of a reported point and its effect on the key of p.
LEMMA QueueKey ==
    ASSUME CleanRun, TypeOK, NEW q \in Point, NEW v \in Value, Lookup(q), Queue(q, v),
           NEW p \in Reported
    PROVE  builder'[KeyOf(p)] = IF q = p THEN [tag |-> p, val |-> v] ELSE builder[KeyOf(p)]
<1>1. /\ p \in Point /\ Class[p] # NoClass
      /\ KeyOf(p) \in Key /\ builder \in [Key -> Report \cup {None}]
  BY EFAssumption DEF Reported, KeyOf, Key, Index, TypeOK
<1>2. <<Class[q], lastIx'>> = KeyOf(q)
  BY DEF CleanRun, Lookup, Found, Refuse, KeyOf
<1>3. KeyOf(q) = KeyOf(p) => q = p
  BY <1>1 DEF CleanRun
<1>4. \/ builder' = [builder EXCEPT ![KeyOf(q)] = [tag |-> q, val |-> v]]
      \/ Class[q] = NoClass /\ builder' = builder
  BY <1>2 DEF CleanRun, Queue
<1> HIDE DEF KeyOf
<1> QED
  BY <1>1, <1>3, <1>4

\* Every step keeps the current value of every reported point on its way.
LEMMA LatestStep ==
    ASSUME CleanRun
    PROVE  TypeOK /\ PipelineInv /\ LatestInPipeline /\ [Next]_vars => LatestInPipeline'
<1> SUFFICES ASSUME TypeOK, TableInv, ScanInv, SoundInv, LatestInPipeline, [Next]_vars,
                    Synced', NEW p \in Reported
             PROVE  Pipelined(p)'
  BY DEF LatestInPipeline, PipelineInv
<1>t. /\ evMax \in 0..IxMax /\ nextIx \in 1..IxMax /\ rtStatus \in [Point -> Value]
      /\ \A r \in events : r.ix \in 1..IxMax /\ r.tag \in Point /\ r.val \in Value
      /\ p \in Point /\ p \notin Virtual /\ KeyOf(p) \in Key
      /\ rtStatus[p] \in Value
  BY EFAssumption DEF TypeOK, Row, Reported, KeyOf, Key, Index
<1> DEFINE now == [tag |-> p, val |-> rtStatus[p]]
<1>p. Synced => \/ Undelivered(p) # {}
                \/ now \in report
                \/ /\ \A r \in report : r.tag # p
                   /\ \/ builder[KeyOf(p)] = now
                      \/ builder[KeyOf(p)] = None /\ outstation[KeyOf(p)] = now
  BY DEF LatestInPipeline, Pipelined
<1>s. Synced => \A r \in Undelivered(p) :
                   (\A s \in Undelivered(p) : s.ix <= r.ix) => r.val = rtStatus[p]
  BY DEF SoundInv, Synced, Sound, Undelivered
<1>1. ASSUME Synced, UNCHANGED <<rtStatus, report, builder, outstation>>,
             Undelivered(p)' = Undelivered(p)
      PROVE  Pipelined(p)'
  BY <1>1, <1>p, <1>s DEF Pipelined
<1>2. ASSUME NEW q \in Point, NEW v \in Value, Change(q, v)
      PROVE  Pipelined(p)'
  <2>1. /\ Synced /\ trigger
        /\ UNCHANGED <<evMax, report, builder, outstation>>
        /\ rtStatus' = [rtStatus EXCEPT ![q] = v]
    BY <1>2 DEF Change, Above, Synced, Started, statics, locals, api
  <2>2. CASE q \notin Virtual
    <3> DEFINE new == [ix |-> nextIx, tag |-> q, val |-> v]
    <3>1. /\ events' = events \cup {new}
          /\ \A r \in events : r.ix < nextIx
      BY <1>2, <2>1, <2>2, CounterAbove DEF Change, Above
    <3>2. new.tag = q /\ new.val = v /\ new.ix = nextIx /\ evMax < nextIx
      BY <1>t, <3>1 DEF ScanInv
    <3> HIDE DEF new
    <3>3. CASE q = p
      <4>1. Undelivered(p)' = Undelivered(p) \cup {new}
        BY <2>1, <3>1, <3>2, <3>3 DEF Undelivered
      <4>2. \A r \in Undelivered(p) : r.ix < nextIx /\ r.ix \in Nat
        BY <1>t, <3>1 DEF Undelivered
      <4>3. rtStatus'[p] = v
        BY <1>t, <2>1, <3>3
      <4> QED
        BY <1>t, <3>2, <4>1, <4>2, <4>3 DEF Pipelined
    <3>4. CASE q # p
      <4>1. Undelivered(p)' = Undelivered(p)
        BY <2>1, <3>1, <3>2, <3>4 DEF Undelivered
      <4>2. rtStatus'[p] = rtStatus[p]
        BY <1>t, <2>1, <3>4
      <4> QED
        BY <1>p, <1>s, <2>1, <4>1, <4>2 DEF Pipelined
    <3> QED
      BY <3>3, <3>4
  <2>3. CASE q \in Virtual
    <3>1. Undelivered(p)' = Undelivered(p)
      BY <1>2, <2>1, <2>3 DEF Change, Above, Undelivered
    <3>2. rtStatus'[p] = rtStatus[p]
      BY <1>t, <2>1, <2>3
    <3> QED
      BY <1>p, <1>s, <2>1, <3>1, <3>2 DEF Pipelined
  <2> QED
    BY <2>2, <2>3
<1>3. CASE ResetTable \/ DropOldTrigger \/ CreateTrigger
  BY <1>3 DEF ResetTable, DropOldTrigger, CreateTrigger, statics, SoundInv, Synced, Started
<1>4. CASE SelectEvents \/ ScanDone \/ ResetCounter \/ ReportDone
  <2>1. /\ Synced
        /\ UNCHANGED <<rtStatus, events, evMax, report, builder, outstation>>
    <3>1. /\ pc \in {"poll", "scan", "alter", "report"}
          /\ UNCHANGED <<rtStatus, events, trigger, evMax, first, closing, builder, outstation>>
      BY <1>4 DEF SelectEvents, ScanDone, ResetCounter, ReportDone, table, locals, statics, api
    <3>2. UNCHANGED report
      BY <1>4 DEF SelectEvents, ScanDone, ResetCounter, ReportDone, locals
    <3> QED
      BY <3>1, <3>2 DEF Synced, Started
  <2> QED
    BY <1>1, <2>1 DEF Undelivered
<1>5. CASE CheckFirst
  <2>1. /\ Synced
        /\ UNCHANGED <<rtStatus, events, evMax, report, builder, outstation>>
    BY <1>5 DEF CheckFirst, Synced, Started, table, locals, api
  <2> QED
    BY <1>1, <2>1 DEF Undelivered
<1>6. CASE DeleteEvents
  <2>1. /\ Synced /\ evMax' = 0 /\ events' = {r \in events : r.ix > evMax}
        /\ UNCHANGED <<rtStatus, report, builder, outstation>>
    BY <1>6 DEF DeleteEvents, Left, Refuse, CleanRun, Synced, Started, statics, api, table
  <2>2. Undelivered(p)' = Undelivered(p)
    BY <1>t, <2>1 DEF Undelivered
  <2> QED
    BY <1>1, <2>1, <2>2
<1>7. CASE ForwardRow
  <2> PICK r \in batch : /\ \A s \in batch : r.ix <= s.ix
                         /\ evMax' = Highest(r)
                         /\ Lookup(r.tag)
                         /\ Queue(r.tag, r.val)
    BY <1>7 DEF ForwardRow
  <2>1. /\ Synced /\ report = {} /\ report' = {}
        /\ UNCHANGED <<rtStatus, events, outstation>>
    BY <1>7 DEF ForwardRow, Synced, Started, table, ScanInv
  <2>2. r \in events /\ evMax < r.ix /\ evMax' = r.ix
    BY DEF Highest, ScanInv
  <2>3. builder'[KeyOf(p)] = IF r.tag = p THEN [tag |-> p, val |-> r.val] ELSE builder[KeyOf(p)]
    BY <1>t, <2>2, QueueKey
  <2>4. \A s \in events : s.ix > evMax => s = r \/ s.ix > r.ix
    BY <1>t, <2>2 DEF ScanInv, TableInv
  <2>5. Undelivered(p)' = Undelivered(p) \ {r}
    BY <1>t, <2>1, <2>2, <2>4 DEF Undelivered
  <2>6. CASE Undelivered(p) \ {r} # {}
    <3>1. \A s \in Undelivered(p) \ {r} : s.ix > r.ix /\ s.ix \in Nat /\ r.ix \in Nat
      BY <1>t, <2>2, <2>4 DEF Undelivered
    <3>2. ASSUME NEW s \in Undelivered(p) \ {r}, \A u \in Undelivered(p) \ {r} : u.ix <= s.ix
          PROVE  s.val = rtStatus[p]
      <4>1. \A u \in Undelivered(p) : u.ix <= s.ix
        BY <3>1, <3>2
      <4> QED
        BY <1>s, <2>1, <3>2, <4>1
    <3> QED
      BY <2>1, <2>5, <2>6, <3>2 DEF Pipelined
  <2>7. CASE Undelivered(p) = {r}
    <3>1. r.val = rtStatus[p] /\ r.tag = p
      BY <1>s, <1>t, <2>1, <2>2, <2>7 DEF Undelivered
    <3>2. builder'[KeyOf(p)] = [tag |-> p, val |-> rtStatus'[p]]
      BY <2>1, <2>3, <3>1
    <3> QED
      BY <2>1, <2>5, <2>7, <3>2 DEF Pipelined
  <2>8. CASE Undelivered(p) = {}
    <3>1. r.tag # p
      BY <2>2, <2>8 DEF Undelivered
    <3> QED
      BY <1>p, <2>1, <2>3, <2>5, <2>8, <3>1 DEF Pipelined
  <2> QED
    BY <2>6, <2>7, <2>8
<1>8. CASE SelectStatus
  <2>1. /\ pc' = "report" /\ report' = {[tag |-> q, val |-> rtStatus[q]] : q \in Point}
        /\ UNCHANGED <<rtStatus, events, evMax, trigger, closing, first>>
        /\ pc = "status"
    BY <1>8 DEF SelectStatus, Refuse, CleanRun, table, statics
  <2>2. trigger /\ ~closing /\ ~first /\ Started
    BY <2>1 DEF Synced, SoundInv, Started
  <2>3. \A r \in Undelivered(p) :
           (\A s \in Undelivered(p) : s.ix <= r.ix) => r.val = rtStatus[p]
    BY <2>2 DEF SoundInv, Sound, Undelivered
  <2>4. now \in report' /\ Undelivered(p)' = Undelivered(p)
    BY <1>t, <2>1 DEF Undelivered
  <2> QED
    BY <2>1, <2>3, <2>4 DEF Pipelined
<1>9. CASE ReportRow
  <2> PICK m \in report : /\ report' = report \ {m}
                          /\ Lookup(m.tag)
                          /\ Queue(m.tag, m.val)
    BY <1>9 DEF ReportRow
  <2>1. Synced /\ UNCHANGED <<rtStatus, events, evMax, outstation>>
    BY <1>9 DEF ReportRow, Synced, Started, table
  <2>2. m.tag \in Point /\ m.val \in Value /\ m = [tag |-> m.tag, val |-> m.val]
    BY DEF TypeOK, Report
  <2>3. builder'[KeyOf(p)] = IF m.tag = p THEN [tag |-> p, val |-> m.val] ELSE builder[KeyOf(p)]
    BY <2>2, QueueKey
  <2>4. Undelivered(p)' = Undelivered(p)
    BY <2>1 DEF Undelivered
  <2>5. CASE Undelivered(p) # {}
    BY <1>s, <2>1, <2>4, <2>5 DEF Pipelined
  <2>6. CASE Undelivered(p) = {} /\ m.tag = p
    <3>1. now \in report
      BY <1>p, <2>1, <2>6
    <3>2. m = now /\ \A r \in report' : r.tag # p
      BY <2>6, <3>1 DEF ScanInv
    <3>3. builder'[KeyOf(p)] = now
      BY <2>3, <2>6, <3>2
    <3> QED
      BY <2>1, <2>4, <2>6, <3>2, <3>3 DEF Pipelined
  <2>7. CASE Undelivered(p) = {} /\ m.tag # p
    <3>1. now \in report => now \in report'
      BY <2>7
    <3>2. builder'[KeyOf(p)] = builder[KeyOf(p)]
      BY <2>3, <2>7
    <3> QED
      BY <1>p, <2>1, <2>4, <2>7, <3>1, <3>2 DEF Pipelined
  <2> QED
    BY <2>5, <2>6, <2>7
<1>10. CASE StartApi
  <2>1. /\ Synced
        /\ UNCHANGED <<rtStatus, events, evMax, report, builder, outstation>>
    BY <1>10 DEF StartApi, Synced, Started, table, locals, statics
  <2> QED
    BY <1>1, <2>1 DEF Undelivered
<1>11. CASE Flush
  <2>1. Synced /\ UNCHANGED <<rtStatus, events, evMax, report>>
    BY <1>11 DEF Flush, Synced, Started, table, locals, statics
  <2>2. /\ builder'[KeyOf(p)] = None
        /\ outstation'[KeyOf(p)] = IF builder[KeyOf(p)] # None THEN builder[KeyOf(p)]
                                   ELSE outstation[KeyOf(p)]
    BY <1>11, <1>t DEF Flush, Empty, Reported, KeyOf
  <2>3. now # None
    BY <1>t, EFAssumption DEF Report
  <2>4. Undelivered(p)' = Undelivered(p)
    BY <2>1 DEF Undelivered
  <2> QED
    BY <1>p, <1>s, <2>1, <2>2, <2>3, <2>4 DEF Pipelined
<1>12. CASE Bye \/ Down
  BY <1>12 DEF Bye, Down, Synced, Started
<1>13. CASE UNCHANGED vars
  <2>1. Synced /\ UNCHANGED <<rtStatus, events, evMax, report, builder, outstation>>
    BY <1>13 DEF vars, Synced, Started, table, locals, statics, api
  <2> QED
    BY <1>1, <2>1 DEF Undelivered
<1> QED
  BY <1>2, <1>3, <1>4, <1>5, <1>6, <1>7, <1>8, <1>9, <1>10, <1>11, <1>12, <1>13
  DEF Next, Client, Exit, ByeExit, Crash, Abort

\* LatestInPipeline for every number of points, rows and restarts: nothing that
\* the trigger, the poll, the full status and the library's thread interleave
\* loses a change (dnp3clientService, the loop of UseAsOutstation).
THEOREM NothingLost ==
    ASSUME CleanRun
    PROVE  Spec => [](PipelineInv /\ LatestInPipeline)
<1>1. Init => SoundInv /\ LatestInPipeline
  BY DEF Init, SoundInv, LatestInPipeline, Synced, Started
<1>2. TypeOK /\ TableInv /\ ScanInv /\ SoundInv /\ LatestInPipeline /\ [Next]_vars
        => SoundInv' /\ LatestInPipeline'
  BY SoundStep, LatestStep DEF PipelineInv
<1>3. TableInv /\ ScanInv /\ SoundInv => PipelineInv
  BY DEF PipelineInv
<1> QED
  BY <1>1, <1>2, <1>3, TableCorrect, PTL DEF Spec

\* The rows of dnp3events, those that a poll has read and those it has not, keep
\* the order and the values that the argument rests on (dnp3clientService).
THEOREM PipelineHolds ==
    ASSUME CleanRun
    PROVE  Spec => []PipelineInv
BY NothingLost, PTL
================================================================================
