# Verification of the DNP3 outstation and InfoLink

The repository has two parts that share a database and the program
*infoserver* (which is not in it):

- the **outstation** `dnp3client` (`src/main.cpp`, `src/dnp3client.cpp`,
  `src/dnp3event.mysql`): it reports the table `rt_status` to a DNP3 master
  through the library opendnp3 and carries the master's controls back into the
  table `rt_control`;
- the class **InfoLink** (`src/infolinker.cpp`, `src/infolinker.hpp`): the base
  of drivers, a set of threads between infoserver, the driver's stations and
  the driver's code. It is not in the Makefile's `PROJ` list but shares the
  classes `Db_wrapper` and `DFS_logger` and the tables.

This directory has TLA+ modules for both, TLC configurations, and TLAPS proofs.
`tlc -config X.cfg M` with the module and cfg of PROJECT.json's `runs` repeats
a run, `tlapm M.tla` a proof.

## 1. Inventory

| part | state | operations | shares / talks to |
|---|---|---|---|
| Reporting path | tables `rt_status`, `dnp3events` (with its AUTO_INCREMENT counter) and the trigger `dnp3event`; statics `ix`, `first`; `ev_max`; the library's builder and database | `dnp3clientInit`, `dnp3clientService`, `dnp3sendStatus`, `dnp3index`, `dnp3QueueEvent`, `bye`, the library's Build/Apply loop | the database with every program that writes `rt_status`; the builder, and one `Db_wrapper` object, with the library's thread |
| Tag index and sizing | `dnp3tagIx`, the tag file and its temporary copy, counters of the types, the buffer `cmd`; `dbSize` | `dnp3buildConfigs` (a process of its own, `-b`), `maxPoints`, `apiThread` | `dnp3tagIx` with the reporting and the control path |
| Control path | two pipes, two static records, `rt_control` | `Dnp3ControlReceived`, `dnp3tag`, `scaleAnalog`, the UPDATE in `dnp3clientService` | the library's threads write the pipes |
| InfoLink: change queues | per kind a vector, a mutex and a flag (all static) | `set...Changes`, `get...Changes`, `...Flag`, `setInitial` | listener threads and the user's threads |
| InfoLink: alarm listener | map `alarms`, local `addr`, `type`, the change queue | `listenToInfoserverAlarm`, `initAlarmSocket`, `getAlarm`, `getAlarmChanges` | infoserver's datagrams; the station monitor resets its socket and takes its changes ("alarms") |
| InfoLink: status listener | map `status`, the text of a report collected so far | `listenToInfoserverStatus`, `initStatusSocket`, `getStatusChanges`, `getStatus` | infoserver's datagrams; the station monitor resets its socket |
| InfoLink: command listener | receive buffer, container of commands | `listenToInfoserver` | infoserver; the user's callback |
| InfoLink: station monitor and TCP link | `server`, `LAST_SOCKET`, `station_comm` | `startStationMonitoring`, `sendToStation`, `makeTcpServer` | stations over TCP; both threads may call `sendToStation` |
| InfoLink: messages to infoserver | none | `set...Point`, `setModule...`, `set/clearDfsStation...`, `setPoints`, `request...` | send one datagram, on any thread of the user and for the debug lines of the monitor |
| Database wrapper | one static connection; a statement and a result per object | constructor, `set_sql`, `execute_statement`, `execute_select`, `get_next_row`, `resetConnection` | used by every part above that has a table; no lock |
| Doubly linked list | three pointers, a count, links in the objects | add, remove, step | the external class UDPServer |
| Logger, former mains, PHP converter, headers of external libraries | | | see "Not modelled" |

What is hard here, and where PROJECT.json's `hazards` places it:

- *interleaving*: rows inserted between SELECT and DELETE; the trigger dropped
  by a signal handler while the client polls; the full status read while
  changes go on; a builder and a statement object without a lock; queues between
  threads; a TCP server that one thread deletes and the other uses;
- *partial failure*: every SQL statement can be refused, and most callers do
  not look;
- *outages*: the MySQL server goes away, and the reset after a refused
  statement frees what it keeps;
- *crash and restart*: a trigger without its program, a half-built index;
- *stale state*: static variables and buffers that keep the value of the call
  before (`ix`, `cmd`, `addr`, the receive buffer, `LAST_SOCKET`);
- *ordering*: datagrams lost or in any order, changes between the parts of a
  report, several texts in one read;
- *numeric edges*: the end of the counter of `dnp3events`, the size of the
  outstation's database, scaling;
- *liveness*: a value must in the end be shown, a pushed change handed over, a
  message taken.

What makes each part correct, in the words of the properties:

- reporting: no change is lost on the way (`LatestInPipeline`), only read rows
  are deleted (`DeletedWereRead`), a value that stays is shown (`Converges`),
  writers of `rt_status` are not blocked for ever (`UpdatesResume`);
- index: an index leads back to its point (`RoundTrip`), a build is complete and
  without gaps (`BuildComplete`), the outstation's database lacks room for no
  more indices than there are engineering points (`FitsDatabase`);
- controls: of the right tag, once, in order, in range, applied (`OwnControl`,
  `InOrderOnce`, `InRange`, `AloneApplied`);
- queues: mutual exclusion and nothing lost (`QueueInv`), an atomic hand-over
  (`HandsOver`), delivery (`AllDelivered`);
- alarms and status: the map has every alarm that is on or not acknowledged
  (`NoAlarmForgotten`), says what infoserver last said of it (`MapTells`), has
  the value of every point that no report overtook (`StatusCurrent`), and shows
  both in the end (`AlarmShown`, `StatusShown`); a callback gets every message
  that the command "alarms" does not take (`EachHandedOver`);
- station link: no message twice or before an older one (`InOrderOnce`), all
  points of an update sent (`UpdateComplete`), messages about the point that the
  call named (`Addressed`), the end of an older command only where the code keeps
  it (`LeftoversExplained`), nothing left lying (`AllTaken`). Nothing is said of
  the station that gets a reply: it goes to the socket that had been read last when
  the code looked, whoever asked;
- database wrapper: a row answers the query that was asked (`OwnRow`), no
  pointer to nothing is used (`HurtByResetOnly`), connections do not leak
  (`LeakBound`), an outage costs one call and is over when the server is back
  (`OneLost`, `Heals`);
- list: it is a list with a cursor (`IsCursorList`), the same in both directions
  (`SameBothWays`).

## 2. Modules

| module | models | checked by |
|---|---|---|
| `EventForwarding` | reporting path | `EF_safety`, `EF_live`; proofs in `EventForwardingProofs` |
| `TagIndex` | `dnp3buildConfigs`, sizing of the database | `TI_build`; `TagIndexProofs` |
| `ControlPath` | controls from the pipes to `rt_control` | `CP_controls`; `ControlPathProofs` |
| `HandOff` | abstract: changes are handed over atomically, in order | |
| `ChangeQueue` | a change queue, one action per statement; implements `HandOff` | `CQ_queue`; `ContainerProofs` |
| `AlarmFeed` | alarm listener | `AF_alarms`; `AlarmFeedProofs` |
| `StatusFeed` | status listener and its socket | `SF_status`, `SF_three_parts`; `StatusFeedProofs` |
| `PointMessages` | the messages about points, modules and stations, as functions of the call; no state | `DK_link`; `DriverLinkProofs` |
| `DriverLink` | station monitor, command listener, TCP server; extends `PointMessages` | `DK_link`; `DriverLinkProofs` |
| `DbWrapper` | `db_wrapper.cpp` and its callers, one action per statement | `DW_client`, `DW_sizing`; `DbWrapperProofs` |
| `CursorList` | abstract: a sequence with a cursor and a size | |
| `DoublyLinkedList` | `std/dlinklist.cpp`; implements `CursorList` | `DL_list`; `ContainerProofs` |

`MC...` modules give the constants their values.

### How actions correspond to code

**EventForwarding.** `ResetTable`, `DropOldTrigger`, `CreateTrigger` are the
statements of `dnp3event.mysql`; `Change` is an UPDATE of `rt_status` with its
trigger. The client thread is one `pc`: `SelectEvents`, `ForwardRow` (one row:
`dnp3index`, `dnp3QueueEvent`, `ev_max`), `ScanDone`, `DeleteEvents`,
`ResetCounter`, `CheckFirst`, `SelectStatus`, `ReportRow`, `ReportDone`. The
library's thread is `StartApi` and `Flush`. `Bye` is the handler's DROP TRIGGER
on some thread while the client goes on; `ByeExit` and `Crash` end the process.
Statements named in `FailAt` may be refused, and then the step does what the
caller does with an unsuccessful `execute_statement`. A refused DELETE, FLUSH or
ALTER also makes the wrapper free its result and keep the pointer (`dangling`);
the next SELECT frees it again, of which the process may die (`Abort`) or not. A
report carries the tag it was made for, which the library does not, so that a
wrong index shows.

**TagIndex.** `SelectRows`, `DropTable`, `CreateTable`, `InsertRow`,
`InsertDone`, `NameLine`, `Rename` are the stages of the build, and each
statement may be refused: `table` says whether the table exists, and `old` how
many rows a refused DROP has left in it. `NameLine` runs what is in `cmd`, which
is the last INSERT until a line of a known type comes. `Killed` stops it anywhere;
`Reconfigure` changes `rt_status`; `StartService`, `CountType`,
`CreateDatabase` are `apiThread`'s sizing, one `maxPoints` per step.

**ControlPath.** A pipe is a sequence of texts and what has been read of them;
reading takes at most `ReadLen` pieces, and what `sscanf` does not parse is
dropped. Texts are not spelled out: a text is `TextLen` pieces that carry the
control's type, index and value.

**ChangeQueue.** One action per statement of `set...Changes` and
`get...Changes`: lock, push, raise the flag, unlock; poll, lock, copy, clear,
lower, unlock. A producer in `Callback` empties the queue itself.

**AlarmFeed, StatusFeed.** The socket keeps datagrams in a sequence, and the
network may lose some. A message is handled in steps between which other threads
run: `Receive` (the read and the queue), then `Callback`, or the map (`Store` in
`AlarmFeed`; `StoreOne`, `Collect`, `StoreAll` in `StatusFeed`). `Register` is the listener's start and `ResetSocket` `initAlarmSocket` or
`initStatusSocket` for the debug commands "reset alarm" and "reset status": what
is unread is gone, and nobody tells infoserver of the new socket. `ShowAlarms` is
the command "alarms", which empties the queue of the user. `SendPart` sends one
part of the report that infoserver made for the registration, and `Change` may
come between two parts; `behind` is the history of the points whose last news was
lost, or was sent before the report was complete. `StatusFeed` cuts a report
between points and puts its parts together as the code does, including the
removal of the prefix `MORE+`.

**DriverLink.** `Look`, `Read` or `ReadNothing`, `NoteSocket` (the store of
`LAST_SOCKET`), `HandleMessage`, `HandleDebug` or `EndProcess`, and `CallUser` are a
turn of `startStationMonitoring`; `ReadCommand` or `ReadError`, `HandleCommand`,
`EndCallback` one of `listenToInfoserver`. `sendToStation` is `SendFromMonitor` on
the thread that alone writes `LAST_SOCKET`, and on the other one `LookUpSocket`
and `SendFromListener`, between which the monitor may read another station or
replace the server; either is cut where it deletes the server and makes a new one
(`RenewFromMonitor`, `RenewFromListener`, `makeTcpServer`). `UseDeleted` is the
use of a deleted server by the other thread. `came` is the history of the
commands, and a text in the buffer is the command at its start and the one that
the bytes after it come from. `HandleDebug` has the lines of the tool `tcp_tool.py`: `Show` prints, `SetCommand` makes a
command, `SetOne` is one call of a message function, `MassUpdate` sends
many through `setPoints`, whose loop is a recursive function (a turn of it is `AddPoint`).

**PointMessages.** `Sent(call)` is what a call of `setAnalogPointRaw`,
`setAnalogQPoint`, `setDigitalPoint`, `setDigitalPulsePoint`,
`setModuleOffline`, `setModuleOnline`, `setDfsStationOffline` or
`clearDfsStationOffline` sends: a message, or nothing when the code refuses the
arguments. `Target` is what a reader of the message takes it to be about and
`Named` what the caller named; `Legal` are the calls whose numbers are in range.
The driver is a constant; the module letters are their codes.

**DbWrapper.** One action per statement that touches the shared state: `SetSql`
(an object's constructor at its first use is part of it), `InitConnection` and
`Connect` (`initConnection`), `Free` and `Null` (`free_result`), `Query`,
`Store`, and `Reset`, `Close`, `Reconnect` (`resetConnection`); `Begin` is a
call and `Fetch` is `get_next_row`. `ServerDown` and `ServerUp` are the
environment. A row is the query it answers next to the query that was asked, and
`misuse` says which pointer to nothing was used, after which nothing more
happens.

**DoublyLinkedList.** One action per public operation. Its refinement mapping
walks the links from `head`. Its specification is `ListSpec`, of `ListInit` and
`ListNext`, since `ContainerProofs` extends it together with `ChangeQueue`.

### Assumptions of the models

- opendnp3, MySQL, infoserver, `TcpServer`, `UDPServer` and `UDPClient` are
  external: they do what `src/` relies on. Rows of a SELECT on `dnp3events`
  come in the order of the primary key. `flush tables` has no effect here.
- `execute_statement` that fails calls `resetConnection`, and what that leaves is
  the subject of `DbWrapper`; `EventForwarding` has its consequence for the
  client thread (`dangling`, `Abort`). The process of `dnp3buildConfigs` may be
  killed anywhere, and the next SELECT of an object with a refused statement
  before it is not among its statements. A row answers its own query, which
  `OwnRow` shows for the client's thread.
- Operations on a `std::map` are one step each.
- `EventForwarding` takes the index as a constant `TagIx`; `TagIndex` checks
  how it is made. A virtual point and one of an unknown type without a row are
  in the constants of `EF_live`.
- `SizeFloor` stands for the initial `dbSize` (10 in the code) and is 0 in the
  run, so that the size matters with three points.
- `StatusFeed` has no user callback. `DriverLink` lets the first free socket be
  taken, records one reply per call of the user, and lets the user's function take all
  messages and commands. A line of kind `debug` may be one that ends the process.
- After a read that fails, `getLastSocketIndex` of a new server may be anything
  (`NoteSocket`).

## 3. Runs

Every bound is a constant of its module with a comment.

| run | question | bounds, and why they are enough |
|---|---|---|
| `EF_safety` | is a change ever lost, or a row deleted unread? | 2 points of one class, 2 values, `IxMax` 3, one refused FLUSH, ALTER or DROP TRIGGER, one exit and the double free that a refusal leads to: three rows fill the table so that the counter stops, and a restart or a half-done `bye` meets every stage |
| `EF_live` | does a value arrive, and can `rt_status` always be written again? | a digital, a virtual and an unindexed point, `IxMax` 3, one refused SELECT, DELETE, FLUSH or ALTER at any poll: rows are forwarded twice, rows stay on both sides of `ev_max`, and the counter stops |
| `TI_build` | does an index lead back at any time, is a build complete, and does the database fit it? | 4 points: two analog inputs, under symmetry, and an engineering one with their counter, and one of an unknown type; two upsets (points added or removed, a build killed) and one refused statement: two builds of different rows one after the other in one table, and a type with two counted points and one that is not |
| `CP_controls` | is what reaches `rt_control` right? | 3 texts, bursts of three into a read that holds one and a half, an unknown index, a point without a range |
| `CQ_queue` | is the queue correct, and an atomic hand-over? | 2 listeners (one with callback), 2 users, 4 changes: both kinds of contention for the mutex, and a queue of two |
| `AF_alarms` | does the map keep what is on or not acknowledged, and say what it is? | 2 alarms, 4 messages (raise, acknowledge, clear, raise), one lost, one of another kind, messages without a comma, one new socket, with and without a callback |
| `SF_status` | which values does the map have when all is handled? | 3 points in 2 parts, 3 changes at any time, one datagram lost, one new socket: a point of each part can change before, between and after the parts, and any one part, the ACK or a change can be lost |
| `SF_three_parts` | and with three parts? (no) | 3 parts of one point |
| `DK_link` | messages and commands of a driver | 2 stations and 2 sockets, 2 lines, 2 commands or failed reads (long and short controls, long unknown ones), one lost connection, one new server: both threads can meet a deleted server, and a read of the other station falls between the listener's look and its send; updates of 4 and 5 points with 2 per message: an exact multiple, and a rest; three calls: a long form with another driver and the letter R, a short form, a full station number |
| `DL_list` | is it a list? | 4 objects under symmetry: first, last, and two in the middle |
| `DW_client` | do three objects of one thread share the connection well? | `db`, `dbClient` and `scaleAnalog`'s object, two of them constructed at their first use; five statements in any order, one refused, one outage; four connections are one more than the objects, so that a leak has room |
| `DW_sizing` | and two threads with the same object? (no) | the client's status poll and index lookup, one count of `apiThread`, no failure |

The two runs expected to fail show where the code departs from its comments:
of a report in three parts the inner addresses are stored with the prefix
`MORE+` (`SF_three_parts`); and while `apiThread` counts the points it uses the
object `db` with which the client thread looks indices up, so that a count can be
taken for an index and an index for a count (`DW_sizing`).

`CHECK_DEADLOCK FALSE` stands in the cfgs whose system comes to rest when the
bounded inputs are used up; the others check deadlock.

**Fairness.** Only loops of the code are fair: the client's
`while (true)` (`main.cpp`), the library's loop once a second, the listeners'
`while (1)`, the monitor's loop, the users' polling in `CQ_queue` (`FairSpec`
of `ChangeQueue`: a thread that wants the mutex in the end gets it). A signal
handler that has started ends. Nothing makes a station, infoserver, a writer of
`rt_status` or the operator do anything; nothing restarts the program.
`Converges` and `UpdatesResume` therefore speak of a program that runs from some
time on, `AlarmShown` of an alarm that stays on with no datagram lost, `Heals` of a
server that stays up from some time on (`ServerUp` is not fair, the threads'
calls are), `StatusShown` of a socket that infoserver knows and a point that is not
behind, `AllTaken` of a process that lives. `DriverLink` has one weak fairness for
each thread, and none for a user's reply; `StatusFeed` has one for infoserver's
sending of the rest of a report (`SendPart`), without which the listener has
nothing to complete: that is an assumption about a program that is not here.

**What the refusals leave out.** `EF_safety` has no refused SELECT or DELETE next
to its crash: after a crash the old trigger fills the new table until it is
replaced, and when the first SELECT or DELETE of the next process is refused an
old row is forwarded after the full status, so that `LatestInPipeline` fails.
`EF_live` has these refusals without a crash.

**Mutants.** For each property PROJECT.json names a small change of a mapped
definition that makes the run fail; the changed forms stand beside the
definitions, marked "Mutant".

## 4. Proofs

For all values of the constants that satisfy the modules' named assumptions:

| theorem | states |
|---|---|
| `EventForwardingProofs!TypeCorrect` | `Spec => []TypeOK` |
| `EventForwardingProofs!TableCorrect` | rows are numbered in order and the counter is above them or stopped |
| `EventForwardingProofs!DeleteIsSafe` | `Spec => DeletedWereRead`, with all failures, crashes and races |
| `EventForwardingProofs!NothingLost` | `Spec => []LatestInPipeline`, under `CleanRun` |
| `EventForwardingProofs!PipelineHolds` | `Spec => []PipelineInv`, under `CleanRun` |
| `TagIndexProofs!IndexLeadsBack` | `Spec => []RoundTrip`, under `AllIndexed` |
| `TagIndexProofs!BuildIsComplete` | `Spec => []BuildComplete`, under `AllIndexed` |
| `TagIndexProofs!DatabaseFits` | `Spec => []FitsDatabase`, under `AllIndexed` |
| `ControlPathProofs!InductiveInv` | `Spec => []CPInv`, the inductive invariant |
| `ControlPathProofs!CarriedOutInOrder` | `Spec => []InOrderOnce` |
| `ControlPathProofs!ControlsOwn` | `Spec => []OwnControl` |
| `ControlPathProofs!AnalogsInRange` | `Spec => []InRange`, under `RangesUpright` |
| `AlarmFeedProofs!FeedTyped` | types, and counters within what was sent |
| `AlarmFeedProofs!MapIsRight` | `Spec => []MapTells` |
| `AlarmFeedProofs!AlarmsKept` | `Spec => []NoAlarmForgotten` |
| `StatusFeedProofs!StatusKept` | `Spec => []StatusCurrent`, under `Covered` and `Short` |
| `DbWrapperProofs!TypeCorrect` | `TypeOK` and `CallInv`, any number of threads, objects and connections |
| `DbWrapperProofs!RowsAreOwn` | `Spec => []OwnRow`, under `OneThread` |
| `DbWrapperProofs!MisuseOnlyByReset` | `Spec => []HurtByResetOnly`, under `OneThread` |
| `DbWrapperProofs!OutageCostsOne` | `Spec => []OneLost`, under `OneThread` |
| `DbWrapperProofs!LeakIsBounded` | `Spec => []LeakBound`, under `OneThread` |
| `DriverLinkProofs!MessagesTellApart` | two legal calls with the same message named the same thing |
| `DriverLinkProofs!MessagesAddressed` | `Spec => []Addressed`, for every driver, call and schedule |
| `DriverLinkProofs!LinesInOrder` | `Spec => []InOrderOnce`, any stations, sockets and lines |
| `DriverLinkProofs!LeftoversKnown` | `Spec => []LeftoversExplained`, any commands and callbacks |
| `DriverLinkProofs!UpdatesWhole` | `Spec => []UpdateComplete`, any number of points, any size of a message |
| `ContainerProofs!TypeCorrect`, `QueueCorrect` | mutual exclusion, flag and completeness, any number of threads |
| `ContainerProofs!Implements` | `ChangeQueue` implements `HandOff` |
| `ContainerProofs!ListTypeCorrect` | `ListSpec => []ListTypeOK`, any number of objects |
| `ContainerProofs!ListCorrect` | `ListSpec => []SameBothWays` |
| `ContainerProofs!ListImplements` | `DoublyLinkedList` implements `CursorList` |

*The argument for the reporting path.* `DeletedWereRead` and
`LatestInPipeline` are not inductive. `PipelineInv` has three parts:
`TableInv` (indices are unique and increase with insertion; the counter is
above every row, or stopped at its last value with that row in the table),
`ScanInv` (the rows fetched up to `ev_max`, the rows to be fetched, and the
rows inserted since lie in this order, and the rows that were read are exactly
those up to `ev_max`), and `SoundInv` (while the trigger is there, the newest
row of a point among those not yet read holds the point's value; before the full
status is taken this need only hold of the rows inserted since the SELECT, since
a gap between two triggers may have left an old row). The DELETE is safe because
of the second; no change is lost because of all three. `EF_safety` checks `PipelineInv` itself.

`CleanRun` is the assumption of `NothingLost` and `PipelineHolds`: only the FLUSH,
the ALTER and the DROP TRIGGER of `bye` may be refused, the builder is not raced,
`dnp3tagIx` has every point, and no two points share class and index. The last
is what the lemma `IndicesUnique` of `TagIndexProofs` proves of the rows of one
build as long as every type is known (`AllIndexed`). With `BuilderRace` a lost update is not repeated
before the next change of the point. `EF_live` checks without proof that refused
SELECTs and DELETEs of events do no harm either when no crash left a trigger.

*The argument for the index.* No two rows of one build share type and index
(`UniqueIndex`), since its counters are above every index it has given out for
the type (`BelowCounters`); the rows of the build before, which a refused DROP
leaves, are the first `old` ones. `RoundTrip` adds that a row of the table has the
type under which the lookup searches it (`OwnType`), so that type and index select
the one row of the last build.

`BuildComplete` and `FitsDatabase` follow from `TableInv`, which has one part for
each thing that a stage hands to the next, all about a build of which no statement
was refused and whose rows have not changed since its SELECT (`Steady`): `Fresh`
(when the table is made the file is empty, the counters are at 1, and the INSERTs
find a table), `Fetched` (the rows already in the table and those that the SELECT
still holds are the points of `rt_status`, each once, and the file has the rows
of the table), `Numbered` (the counter of a type is one more than the number of
its rows, and every smaller number is given) and `Sized` (what `apiThread` has
counted so far is at most `dbSize`). The last index
of a type is then the number of its points, which are those that `maxPoints`
counts and the engineering ones (`TwoKinds`); the database has one place more
than what was counted. The set of points is finite, as a table is.

*The argument for the controls.* A text in a pipe is pieces, and a read may end
inside a text, so that neither `OwnControl` nor `InOrderOnce` is inductive.
`CPInv` says where a text begins: everything before it in its pipe, what its
static record holds, and every control of its type already carried out, has a
smaller number (`InOrder`), and each is the control of this number that the
master sent (`SentIn`). The texts that a read drops only make the sequence
shorter. `InRange` is arithmetic about `scaleAnalog` (`ScaleInRange`), for ranges
whose lower ends lie below their upper ends (`RangesUpright`): with equal raw
ends the code divides by zero.

*The argument for the alarms.* `NoAlarmForgotten` is
about a socket that is empty; `AlarmInv` says what the messages still in it make
up for: of an alarm that is on, no CLEAR is on its way behind the last NEW, and the
NEW is on its way or the map has the alarm and not as cleared; of one that is
not acknowledged the same with ACK, where being in the map is enough. `MapTells`
needs more: `MapInv` says that some history of the alarm leads from the state that
its entry in the map tells, message by message over those on their way, to the
state that infoserver has now (`Told`).

*The argument for the status.* `FeedInv` has two parts. What is on its
way or collected of the report are its parts as they were made (`Clean`). And of
each point the map will have the right value when all this is handled (`Owed`): it
has it and only other points' changes follow, or the last change of it on its
way says it, or the report says it, whose part is on its way, collected or still
to be sent. The right value is the point's own, or for a point that is behind,
if nothing was lost, the reported one. The theorem needs a report
that names every point (`Covered`) in at most two parts (`Short`): with three the
prefix `MORE+` stays in the inner ones, and `SF_three_parts` is the
counterexample.

*The argument for the database wrapper.* `DbInv` adds three parts to the type.
`CallInv`: a thread inside `execute_...` has a call, and only a SELECT reaches
`free_result`. `LinkInv`: the static pointer leads to a connection except in the
gap of `resetConnection`, the object's statement is the caller's, and a result
set that waits on the connection is the one of the thread in
`mysql_store_result`. `ResultInv`: the result of an object from which rows are
fetched is the one of the SELECT that was asked, and a freed result that is kept
comes from a reset. The last two hold for one thread only (`OneThread`): with a
second one that uses the same object both fail, and `DW_sizing` shows the
consequence. `OutageCostsOne` adds that the connection of the statement which met
the outage is new and up for all objects (`OneInv`). `LeakIsBounded` adds that while
there is no current connection, or a reset has closed it, there is one open
connection less than objects (`LeakInv`). After `apiThread` has sized its database the
client thread alone runs the program's statements, until a signal calls `bye`.

*The argument for the messages.* `FullNumber`, `OwnNumber` and `ModuleBack` say
that driver, station and module can be read back from a message; a case for each
family of functions follows, and `CallAddressed` puts them together.
`PerDriver` is 1000 and is opaque but for that where it matters.

*The argument for the station link.* `LineInv` says that a station is at one
socket, that only its lines are there, and that they were sent after what the user
has taken, what is in `station_comm` and what is in the monitor's buffer. For the
commands the invariant says of the listener's buffer what `LeftoversExplained`
says of the container: the command whose end it holds is the last long one that
came since the buffer was last cleared, and all that came since are of a kind that
does not clear it.

*The argument for `setPoints`.* After k points the messages made so far, joined, are
the first k points; none is overfull; and only the very first may be empty
(`Filled`, kept by `PointAdded`). Recursive functions are unfolded to the function
that satisfies their equation (`SendsExists`, `JoinsExists`), and what holds of
their values is shown for the set of all n for which it holds: `Induction`
proves from the well-foundedness of the natural numbers that such a set has every
number. So `UpdatesWhole` is no theorem about a bounded number of points.

*The argument for the queue.* `QueueInv` ties the place of each thread to the
mutex's holder, the flag to the vector, and the vector and the users' copies to
the changes pushed so far.

*The argument for the list.* `ListInv` says that the links of the members are those
of one sequence (`Chained`: each link is the next or the previous member, or NULL
at an end), whose ends `head` and `tail` are, whose length `count` is, and in which
`current` stands. The sequence is what `Walk` finds (`WalkIs`, from the
first position at which the two would differ), so that the refinement mapping is
the sequence itself. An operation changes four links at most: `Splice` and
`Bypass` say which, `ChainInserted` and `ChainRemoved` that the result is a chain
of the sequence with or without the object, and `LinkBeforeStep`,
`LinkAfterStep` and `UnlinkStep` that the code's assignments do this at each end, in
the middle and in a list of one. `count` is left out of the claim as long as no
object was added: the constructor does not set it.

Every safety invariant and action property that a passing run checks is a theorem,
and so are the two refinements (`HandsOver`, `IsCursorList`). Only model-checked:
everything about liveness (TLAPS has no ENABLED), and what a theorem's
assumption leaves out (`CleanRun`, `OneThread`, `Covered`, `Short`).

## 5. Divergences met and kept as notes

Besides the two findings the models show the following. Three of them contradict
a sentence of the repository; they are stated as definitions that TLC finds
violated, or as the exact measure of the divergence, and are no runs of their own:

- `dnp3client.cpp:193` says "Get dnp3 point index from point tag"; `dnp3index`
  returns the static `ix` of the call before (`:196`) when the tag has no row or
  the SELECT is refused, so that the value is reported at another point's index.
  `NoMisdelivery` of `EventForwarding` states the sentence; it fails with two
  points of one class of which `dnp3tagIx` has one.
- `main.cpp:234` says that the size of the database is found from the numbers of
  DI, DO, DP, AI and AO points; engineering points are numbered with the analog
  ones and counted nowhere. `FitsDatabase` says how much is missing: as many
  indices of a type as it has engineering points.
- `infolinker.hpp:254` says that `getStatus` shows the current state; a change
  that comes between the parts of a report is stored at once and overwritten by
  the older value when the report is complete. `ShowsCurrentState` of `StatusFeed`
  states the sentence; it fails with two parts, one change and no loss.
  `StatusCurrent` says what does hold.

The others contradict no sentence of the repository, or only under a refusal of
the database or a race that the runs name:

- A statement that is refused after a SELECT of the same object
  frees the result and keeps the pointer (`db_wrapper.cpp:92`): the next SELECT of
  that object frees it again (`misuse = "double free"`, which `HurtByResetOnly`
  leaves as the only misuse). In the program: a refused DELETE, FLUSH or ALTER of
  `dnp3events` followed by the next poll's SELECT (`Abort`).
- `setAnalogPointRaw` of another driver puts the process's own driver into the
  message's header (`infolinker.cpp:1429`); the station's number is right. A full
  station number given to a point function gets a driver added again. `Legal` and
  `Target` leave both out.
- `infolinker.hpp:313-316` declares `setAnalogQPoint` with the module before the
  point, `infolinker.cpp:1462-1496` defines it the other way round; the model
  follows the definition, which sends module Q whatever it is given.
- Of two controls in one `read()` of the pipe the second is lost
  (`dnp3client.cpp:380`), which is why `AloneApplied` speaks of a control that is
  alone in the pipe.
- With `BuilderRace`, an update that the library's thread clears while the client
  adds to the builder is lost, and `LatestInPipeline` fails.
- A refused SELECT of the full status is never repeated, since `first` is
  cleared before (`dnp3client.cpp:545`): `LatestInPipeline` fails with
  `"status"` in `FailAt`.
- After a crash the trigger remains and fills the new table until it is
  replaced; if then the first SELECT of events is refused, an old row is
  forwarded after the full status.
- The full status also sends the virtual points that the trigger leaves out.
- An unknown type in the tag file executes `cmd` of the line before once more
  (`:164`), the INSERT of the last row among them.
- A refused DROP TABLE leaves the rows of the build before, and the new ones are
  appended: two points may share type and index.
- `setInitial` unlocks the static mutexes: with objects constructed while
  threads run (`SpecObjects` of `ChangeQueue`) `NothingDiscarded` fails.
- The alarm listener uses the address of the message before when a message has
  none; an ACK for an alarm that was never seen makes an entry; a change is
  published before the map is changed (`TakenIsApplied`); the command "alarms"
  may take it before the callback is called, which then finds nothing.
- "reset status" and "reset alarm" make a socket that infoserver is not told of;
  "alarms" and "changed status" take the changes from the user.
- Of several lines in one TCP read all but the first are dropped; a blank line
  makes `at(0)` throw, "get alarm" without an address `substr(10)`, and a mass
  update in an object of the second or fourth constructor uses `info_client`,
  which is NULL: each ends the process.
- `sendToStation` deletes a server that the other thread may be using, and sends to
  whoever is at the socket it looked up before. Which station a reply is meant for
  is nowhere said (`infolinker.cpp:2534` has it as to be done), so no property does.
- An unknown command, a callback and a read that returns -1 leave the buffer as it
  is: the next command may carry the end of an older one, or the old one is handled
  again. `LeftoversExplained` says when.
- `dlinklist.cpp:26-27` and similar comments say that adding needs a current
  object; the code makes the first entry.
- The loop of `main` sleeps two seconds where the comment says once per second;
  the comment at `infolinker.cpp:1652` says 50 points per message, the code
  sends 21 (`PerMessage`).

## 6. Not modelled, and why

- **Messages to infoserver**: values, times, the driver's type and the wording of
  the log; `requestAnalog` sends the address it is given.
- **Debug commands** of the station monitor that only print are one step.
- **The maps** of alarms and status are written and read without a mutex; a data
  race inside `std::map` has no outcome worth a model, and each operation is one
  step.
- **Program start**: `parseArgs`, `getIP` and the activity test `-t`.
- **Configuration** (`loadAddresses`, `loadUASP`, `split`, ...): runs before any
  thread.
- **Logger**, `parseArgs`, the activity test `-t`, `dnp3type`, `dnpTime`,
  `vtscada.php`, `trig.mysql`, `trig_test`, `dnp3em.cpp`, `dnp3server.cpp`,
  `callback.cpp`, headers of libraries that are not in the repository: no state
  that another part depends on, or not part of the program.

## 7. Plan

Done: the modules of section 2 and the proofs of section 4. Left:

1. A weaker `CleanRun`, with refused SELECTs and DELETEs of events as `EF_live`
   checks them.
