---------------------------- MODULE EventForwarding ----------------------------
(***************************************************************************)
(* The outstation's reporting path (dnp3client.cpp, main.cpp and the SQL   *)
(* script dnp3event.mysql): a trigger copies every change of the database  *)
(* table rt_status into the table dnp3events; the client thread polls that *)
(* table, gives each row to the DNP3 library's update builder under the    *)
(* index of the row's tag, and deletes the rows it read; once per process  *)
(* it also sends the whole of rt_status.  The library's own thread applies *)
(* the builder to the outstation's database every second.                  *)
(*                                                                         *)
(* Rows are records; the tag a report was made for travels with its value  *)
(* (the library does not carry it), so that a misdirected report shows.    *)
(***************************************************************************)
EXTENDS Integers

CONSTANTS
    Point,       \* the addresses of rt_status
    Value,       \* the values a point can have
    Virtual,     \* the points with mchar 'X' or 'V', which the trigger skips
    Class,       \* Class[p]: the DNP3 class the point's type selects
    NoClass,     \* the class of a type that dnp3QueueEvent does not know
    TagIx,       \* table dnp3tagIx: its tags are DOMAIN TagIx
    DbSize,      \* indices 0..DbSize-1 exist in the outstation's database
    IxMax,       \* IX_MAX, the last value of dnp3events.ix
    FailAt,      \* the statements that the database may refuse
    MaxFails,    \* bound: refused statements
    MaxExits,    \* bound: crashes and signals
    BuilderRace, \* TRUE: an update may overlap the library's Build and be lost
    None         \* no report

Statements == {"select", "index", "delete", "flush", "alter", "status", "bye"}
Report == [tag : Point, val : Value]

ASSUME EFAssumption ==
    /\ Virtual \subseteq Point
    /\ DOMAIN Class = Point
    /\ DOMAIN TagIx \subseteq Point
    /\ \A p \in DOMAIN TagIx : TagIx[p] \in Nat
    /\ DbSize \in Nat
    /\ IxMax \in Nat \ {0}
    /\ FailAt \subseteq Statements
    /\ MaxFails \in Nat
    /\ MaxExits \in Nat
    /\ BuilderRace \in BOOLEAN
    /\ None \notin Report

VARIABLES
    rtStatus,   \* table rt_status
    events,     \* table dnp3events, a set of rows
    nextIx,     \* its AUTO_INCREMENT counter
    trigger,    \* the trigger dnp3event exists
    pc,         \* where the client thread is; "down" when no process runs
    batch,      \* rows of the events SELECT that are still to be fetched
    read,       \* history: the rows of it that were queued by this call
    evMax,      \* ev_max
    report,     \* rows of the full-status SELECT that are still to be fetched
    dangling,   \* the wrapper has freed its result and kept the pointer
    lastIx,     \* static ix of dnp3index
    first,      \* static first of dnp3sendStatus
    closing,    \* the signal handler runs
    apiUp,      \* the outstation exists
    builder,    \* the updates queued for the outstation, the last one per key
    outstation, \* the outstation's database
    fails,      \* statements refused so far
    exits       \* process exits so far

table   == <<events, nextIx, trigger>>
locals  == <<batch, read, evMax, report, dangling>>
statics == <<lastIx, first>>
api     == <<apiUp, builder, outstation>>
limits  == <<fails, exits>>
vars    == <<rtStatus, table, pc, locals, statics, closing, api, limits>>

Index == {0} \cup {TagIx[p] : p \in DOMAIN TagIx}
Key   == {Class[p] : p \in Point} \X Index
Row   == [ix : 1..IxMax, tag : Point, val : Value]

KeyOf(p) == <<Class[p], TagIx[p]>>
Empty    == [k \in Key |-> None]

TypeOK ==
    /\ rtStatus \in [Point -> Value]
    /\ events \subseteq Row
    /\ nextIx \in 1..IxMax
    /\ trigger \in BOOLEAN
    /\ pc \in {"down", "dropTrigger", "createTrigger", "poll", "scan", "delete",
               "alter", "pause", "status", "report"}
    /\ batch \subseteq Row
    /\ read \subseteq Row
    /\ evMax \in 0..IxMax
    /\ report \subseteq Report
    /\ dangling \in BOOLEAN
    /\ lastIx \in Index
    /\ first \in BOOLEAN
    /\ closing \in BOOLEAN
    /\ apiUp \in BOOLEAN
    /\ builder \in [Key -> Report \cup {None}]
    /\ outstation \in [Key -> Report \cup {None}]
    /\ fails \in 0..MaxFails
    /\ exits \in 0..MaxExits

Init ==
    /\ rtStatus \in [Point -> Value]
    /\ events = {} /\ nextIx = 1 /\ trigger = FALSE
    /\ pc = "down"
    /\ batch = {} /\ read = {} /\ evMax = 0 /\ report = {} /\ dangling = FALSE
    /\ lastIx = 0 /\ first = TRUE
    /\ closing = FALSE
    /\ apiUp = FALSE /\ builder = Empty /\ outstation = Empty
    /\ fails = 0 /\ exits = 0

-----------------------------------------------------------------------------
(***************************************************************************)
(* The database and the programs that write rt_status.                     *)
(***************************************************************************)

Refuse(s) == s \in FailAt /\ fails < MaxFails /\ fails' = fails + 1

\* The counter names a key that no row of the table has: it does, except when
\* it has stopped at its last value and the row of that value is still there.
IxFree == \A r \in events : r.ix # nextIx

\* AUTO_INCREMENT stops at the last value of the column's type.
Above(n) == IF n < IxMax THEN n + 1 ELSE n

\* An UPDATE of one row of rt_status.  The trigger's INSERT is part of it: a
\* duplicate key in dnp3events makes the whole statement fail.
Change(p, v) ==
    /\ rtStatus' = [rtStatus EXCEPT ![p] = v]
    /\ IF trigger /\ p \notin Virtual
       THEN /\ IxFree
            /\ events' = events \cup {[ix |-> nextIx, tag |-> p, val |-> v]}
            /\ nextIx' = Above(nextIx)
       ELSE UNCHANGED <<events, nextIx>>
    /\ UNCHANGED <<trigger, pc, locals, statics, closing, api, limits>>

-----------------------------------------------------------------------------
(***************************************************************************)
(* dnp3clientInit: the statements of dnp3event.mysql.  A trigger that a    *)
(* crashed process left is still there until the second one.               *)
(***************************************************************************)

ResetTable ==
    /\ pc = "down"
    /\ pc' = "dropTrigger"
    /\ events' = {} /\ nextIx' = 1
    /\ lastIx' = 0 /\ first' = TRUE
    /\ UNCHANGED <<rtStatus, trigger, locals, closing, api, limits>>

DropOldTrigger ==
    /\ pc = "dropTrigger"
    /\ pc' = "createTrigger"
    /\ trigger' = FALSE
    /\ UNCHANGED <<rtStatus, events, nextIx, locals, statics, closing, api, limits>>

CreateTrigger ==
    /\ pc = "createTrigger"
    /\ pc' = "poll"
    /\ trigger' = TRUE
    /\ UNCHANGED <<rtStatus, events, nextIx, locals, statics, closing, api, limits>>

Started == pc \notin {"down", "dropTrigger", "createTrigger"}

-----------------------------------------------------------------------------
(***************************************************************************)
(* dnp3clientService.  The rows of a SELECT are fetched from a copy on the *)
(* client's side; they come in the order of the primary key.  A statement  *)
(* that is refused makes the wrapper free this copy and keep its pointer   *)
(* (resetConnection); execute_select frees it again, and the process dies  *)
(* of it (Abort) or does not (module DbWrapper has the wrapper itself).    *)
(***************************************************************************)

SelectEvents ==
    /\ pc = "poll"
    /\ \/ /\ pc' = "scan" /\ batch' = events
          /\ UNCHANGED fails
       \/ /\ Refuse("select")
          /\ pc' = "pause" /\ UNCHANGED batch
    /\ dangling' = FALSE
    /\ UNCHANGED <<rtStatus, table, read, evMax, report, statics, closing, api, exits>>

\* dnp3index: a tag without a row, or a refused SELECT, leaves the static index
\* of the call before.
Found(p) == IF p \in DOMAIN TagIx THEN TagIx[p] ELSE lastIx

Lookup(p) ==
    \/ /\ lastIx' = Found(p)
       /\ UNCHANGED fails
    \/ /\ Refuse("index")
       /\ UNCHANGED lastIx

\* dnp3QueueEvent with the index that dnp3index returned.
Queue(p, v) ==
    \/ /\ Class[p] # NoClass
       /\ builder' = [builder EXCEPT ![<<Class[p], lastIx'>>] = [tag |-> p, val |-> v]]
    \/ /\ Class[p] = NoClass \/ BuilderRace
       /\ UNCHANGED builder

\* Mutant: the index after the row.
OneMore(r) == r.ix + 1

\* ev_max after a row.
Highest(r) == IF evMax < r.ix THEN r.ix ELSE evMax

ForwardRow ==
    /\ pc = "scan"
    /\ \E r \in batch :
        /\ \A s \in batch : r.ix <= s.ix
        /\ batch' = batch \ {r}
        /\ read' = read \cup {r}
        /\ evMax' = Highest(r)
        /\ Lookup(r.tag)
        /\ Queue(r.tag, r.val)
    /\ UNCHANGED <<rtStatus, table, pc, report, dangling, first, closing, apiUp, outstation, exits>>

ScanDone ==
    /\ pc = "scan" /\ batch = {}
    /\ pc' = IF evMax # 0 THEN "delete" ELSE "pause"
    /\ UNCHANGED <<rtStatus, table, locals, statics, closing, api, limits>>

\* Mutants: a DELETE without a condition, and one that spares the row of ev_max.
NoneLeft   == {}
LastIsLeft == {r \in events : r.ix >= evMax}

\* The rows that the DELETE leaves.
Left == {r \in events : r.ix > evMax}

\* DELETE and FLUSH TABLES, of which either may be refused.  ev_max is not used
\* after this but for the test of IX_MAX.
DeleteEvents ==
    /\ pc = "delete"
    /\ pc' = IF evMax >= IxMax THEN "alter" ELSE "pause"
    /\ \/ /\ events' = Left
          /\ UNCHANGED <<fails, dangling>>
       \/ /\ Refuse("delete") /\ dangling' = TRUE
          /\ UNCHANGED events
       \/ /\ Refuse("flush") /\ dangling' = TRUE
          /\ events' = Left
    /\ read' = {} /\ evMax' = 0
    /\ UNCHANGED <<rtStatus, nextIx, trigger, batch, report, statics, closing, api, exits>>

\* Mutant: the counter is set to 1 whatever rows there are.
AlwaysOne(n) == n = 1

\* AUTO_INCREMENT = 1: the server takes the first value above every row; above
\* the last one there is none.
FirstFree(n) ==
    \/ n = IxMax /\ \E r \in events : r.ix = IxMax
    \/ /\ \A r \in events : r.ix < n
       /\ n = 1 \/ \E r \in events : r.ix = n - 1

ResetCounter ==
    /\ pc = "alter"
    /\ pc' = "pause"
    /\ \/ /\ \E n \in 1..IxMax : FirstFree(n) /\ nextIx' = n
          /\ UNCHANGED <<fails, dangling>>
       \/ /\ Refuse("alter") /\ dangling' = TRUE
          /\ UNCHANGED nextIx
    /\ UNCHANGED <<rtStatus, events, trigger, batch, read, evMax, report, statics, closing, api,
                   exits>>

\* Mutant: the full status is never sent.
NeverFirst ==
    /\ pc = "pause" /\ pc' = "poll"
    /\ first' = FALSE
    /\ UNCHANGED <<rtStatus, table, locals, lastIx, closing, api, limits>>

\* usleep and dnp3sendStatus; the controls handled before it touch none of this.
CheckFirst ==
    /\ pc = "pause"
    /\ pc' = IF first THEN "status" ELSE "poll"
    /\ first' = FALSE
    /\ UNCHANGED <<rtStatus, table, locals, lastIx, closing, api, limits>>

SelectStatus ==
    /\ pc = "status"
    /\ \/ /\ pc' = "report"
          /\ report' = {[tag |-> p, val |-> rtStatus[p]] : p \in Point}
          /\ UNCHANGED fails
       \/ /\ Refuse("status")
          /\ pc' = "poll" /\ UNCHANGED report
    /\ dangling' = FALSE
    /\ UNCHANGED <<rtStatus, table, batch, read, evMax, statics, closing, api, exits>>

ReportRow ==
    /\ pc = "report"
    /\ \E r \in report :
        /\ report' = report \ {r}
        /\ Lookup(r.tag)
        /\ Queue(r.tag, r.val)
    /\ UNCHANGED <<rtStatus, table, pc, batch, read, evMax, dangling, first, closing, apiUp,
                   outstation, exits>>

ReportDone ==
    /\ pc = "report" /\ report = {}
    /\ pc' = "poll"
    /\ UNCHANGED <<rtStatus, table, locals, statics, closing, api, limits>>

-----------------------------------------------------------------------------
(***************************************************************************)
(* The library's thread: apiThread and the loop of UseAsOutstation.        *)
(***************************************************************************)

StartApi ==
    /\ Started /\ ~apiUp
    /\ apiUp' = TRUE
    /\ UNCHANGED <<rtStatus, table, pc, locals, statics, closing, builder, outstation, limits>>

\* An update of an index that the database does not have is ignored.
Flush ==
    /\ apiUp
    /\ outstation' = [k \in Key |-> IF builder[k] # None /\ k[2] < DbSize
                                    THEN builder[k] ELSE outstation[k]]
    /\ builder' = Empty
    /\ UNCHANGED <<rtStatus, table, pc, locals, statics, closing, apiUp, limits>>

-----------------------------------------------------------------------------
(***************************************************************************)
(* The ways out.  bye() may run on the library's thread, while the client  *)
(* thread goes on.                                                         *)
(***************************************************************************)

Bye ==
    /\ pc # "down" /\ ~closing /\ exits < MaxExits
    /\ closing' = TRUE
    /\ \/ trigger' = FALSE /\ UNCHANGED fails
       \/ Refuse("bye") /\ UNCHANGED trigger
    /\ UNCHANGED <<rtStatus, events, nextIx, pc, locals, statics, api, exits>>

\* What is left of a process: nothing but the tables and the trigger.
Down ==
    /\ pc # "down"
    /\ pc' = "down" /\ closing' = FALSE
    /\ batch' = {} /\ read' = {} /\ evMax' = 0 /\ report' = {} /\ dangling' = FALSE
    /\ apiUp' = FALSE /\ builder' = Empty /\ outstation' = Empty
    /\ UNCHANGED <<rtStatus, table, statics, fails>>

Exit == Down /\ exits < MaxExits /\ exits' = exits + 1

\* exit(0) at the end of bye, and a crash, which leaves the trigger behind.
ByeExit == closing /\ Exit
Crash   == ~closing /\ Exit

\* free_result() of a result that resetConnection has freed.
Abort == dangling /\ pc \in {"poll", "status"} /\ Down /\ UNCHANGED exits

Client ==
    \/ ResetTable \/ DropOldTrigger \/ CreateTrigger
    \/ SelectEvents \/ ForwardRow \/ ScanDone \/ DeleteEvents \/ ResetCounter
    \/ CheckFirst \/ SelectStatus \/ ReportRow \/ ReportDone

Next ==
    \/ \E p \in Point, v \in Value : Change(p, v)
    \/ Client
    \/ StartApi \/ Flush
    \/ Bye \/ ByeExit \/ Crash \/ Abort

Spec == Init /\ [][Next]_vars

\* Both threads are endless loops, and exit() follows in the handler.  Nothing
\* makes anyone start the program (ResetTable), write rt_status, or end it.
Fairness ==
    /\ WF_vars(Client /\ pc # "down")
    /\ WF_vars(StartApi)
    /\ WF_vars(Flush)
    /\ WF_vars(ByeExit)

FairSpec == Spec /\ Fairness

-----------------------------------------------------------------------------
(***************************************************************************)
(* Properties.                                                             *)
(***************************************************************************)

\* The points whose changes the program reports.
Reported == {p \in DOMAIN TagIx : p \notin Virtual /\ Class[p] # NoClass /\ TagIx[p] < DbSize}

Undelivered(p) == {r \in events : r.tag = p /\ r.ix > evMax}

\* The current value of p is what the outstation shows, or will show once the
\* stages before it are drained: the newest row not yet read, else the row of
\* the full status, else the queued update, else the outstation's database.
Pipelined(p) ==
    LET now == [tag |-> p, val |-> rtStatus[p]]
    IN  \/ /\ Undelivered(p) # {}
           /\ \A r \in Undelivered(p) :
                 (\A s \in Undelivered(p) : s.ix <= r.ix) => r.val = rtStatus[p]
        \/ /\ Undelivered(p) = {}
           /\ \/ now \in report
              \/ /\ \A r \in report : r.tag # p
                 /\ \/ builder[KeyOf(p)] = now
                    \/ builder[KeyOf(p)] = None /\ outstation[KeyOf(p)] = now

Synced == Started /\ ~first /\ pc # "status" /\ trigger /\ ~closing

\* No change is ever lost between rt_status and the outstation once the full
\* status was taken (dnp3clientService, the trigger and the library together):
\* whatever is interleaved, some stage still holds the current value and no
\* later stage will overwrite it with an older one.
LatestInPipeline == Synced => \A p \in Reported : Pipelined(p)

\* DELETE removes only rows that this call gave to the library: a row that was
\* inserted after the SELECT stays, also when the counter is at its last value.
DeletedWereRead == [][pc = "delete" => (events \ events') \subseteq read]_vars

\* "Get dnp3 point index from point tag" (dnp3index): no value of a point is
\* reported at the index of another one.  Fails for a point that dnp3tagIx does
\* not have yet, and after a refused lookup: the static index is that of the
\* point before.
NoMisdelivery ==
    \A p \in DOMAIN TagIx : \A m \in {builder[KeyOf(p)], outstation[KeyOf(p)]} :
        m # None => m.tag = p

\* A value that stays is, in the end, the value that the outstation shows, if
\* the program is running from some time on.
Converges ==
    \A p \in Reported, v \in Value :
        <>[](rtStatus[p] = v /\ pc # "down" /\ trigger)
            => <>[](outstation[KeyOf(p)] = [tag |-> p, val |-> v])

\* When the counter is used up, updates of rt_status fail; they work again
\* after the client thread has read the table.
UpdatesResume == <>[](pc # "down") => []<>IxFree

-----------------------------------------------------------------------------
(***************************************************************************)
(* The inductive invariant behind DeletedWereRead and LatestInPipeline.    *)
(***************************************************************************)

\* Rows are numbered in the order of their insertion, and the counter is above
\* all of them or has stopped at its last value.
TableInv ==
    /\ \A r \in events : r.ix <= nextIx /\ (r.ix = nextIx => nextIx = IxMax)
    /\ \A r, s \in events : r.ix = s.ix => r = s

\* The rows of the SELECT are still in the table: those read up to evMax, then
\* those to be fetched, then the rows that were inserted since.  The full status
\* has one row per point.
ScanInv ==
    /\ pc \notin {"scan", "delete"} => read = {} /\ evMax = 0
    /\ pc # "scan" => batch = {}
    /\ pc # "report" => report = {}
    /\ \A r, s \in report : r.tag = s.tag => r = s
    /\ batch \subseteq events /\ read \subseteq events
    /\ \A r \in read : r.ix <= evMax
    /\ evMax = 0 \/ \E r \in read : r.ix = evMax
    /\ \A r \in batch : evMax < r.ix
    /\ \A r \in events \ (batch \cup read), s \in batch \cup read : s.ix < r.ix

\* The newest row of every reported point in S holds the point's value.
Sound(S) ==
    \A r \in S :
        /\ r.tag \in Reported
        /\ \A s \in S : s.tag = r.tag => s.ix <= r.ix
        => r.val = rtStatus[r.tag]

\* While the trigger is there the rows inserted since the SELECT are sound; the
\* rows of the first SELECT need not be, a gap between two triggers may have
\* left an old one: they are gone when the full status is taken.
SoundInv ==
    /\ pc \in {"dropTrigger", "createTrigger"} => first
    /\ pc = "status" => ~first
    /\ trigger /\ ~closing =>
        /\ pc \in {"scan", "delete"} => Sound(events \ (batch \cup read))
        /\ pc \in {"alter", "pause"} => Sound(events)
        /\ Started /\ ~first => Sound({r \in events : r.ix > evMax})

\* The inductive invariant of the reporting path (dnp3clientService).
PipelineInv == TableInv /\ ScanInv /\ SoundInv
================================================================================
