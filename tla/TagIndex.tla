-------------------------------- MODULE TagIndex --------------------------------
(***************************************************************************)
(* The DNP3 index of a point.  `dnp3em -b` (dnp3buildConfigs) numbers the  *)
(* rows of rt_status into the table dnp3tagIx and the file dnp3tags.csv;   *)
(* the outstation's thread (apiThread) sizes the library's database from   *)
(* the same rows; both run while points are added to and removed from      *)
(* rt_status.  The time a point is looked up is EventForwarding's.  The    *)
(* points' names, which the build writes into the file, are left out; the  *)
(* statements that fetch them are not, one of them may be an INSERT.       *)
(***************************************************************************)
EXTENDS Naturals, Sequences, FiniteSets

CONSTANTS
    Tag,       \* addresses that rt_status may have
    TypeOf,    \* TypeOf[t]: the type of the point, a string as in rt_status
    SizeFloor, \* the smallest database size of apiThread, 10 in the code
    MaxUpsets, \* bound: changes of rt_status and builds that are killed
    MaxFails   \* bound: statements that the database refuses

KnownTypes == {"DI", "DO", "DP", "AI", "AO"}

\* "Engineering points are same as analog".
Norm(type) == CASE type = "EI" -> "AI" [] type = "EO" -> "AO" [] OTHER -> type

Indexed(t) == Norm(TypeOf[t]) \in KnownTypes

ASSUME TIAssumption ==
    /\ IsFiniteSet(Tag) /\ DOMAIN TypeOf = Tag
    /\ \A t \in Tag : TypeOf[t] \in STRING
    /\ SizeFloor \in Nat
    /\ MaxUpsets \in Nat
    /\ MaxFails \in Nat

VARIABLES
    rows,    \* the tags in rt_status
    table,   \* the table dnp3tagIx exists
    tagIx,   \* its rows, a sequence of entries as they were inserted
    old,     \* history: how many of them a refused DROP has left there
    file,    \* TAG_FILE, a sequence of entries
    line,    \* the lines of it that have their name
    pc,      \* where dnp3buildConfigs is
    todo,    \* rows of its SELECT that are still to be fetched
    next,    \* next[type]: ixDI, ixDO, ixDP, ixAI, ixAO
    cmd,     \* the entry that the INSERT in its buffer cmd has, if there is one
    built,   \* history: no statement of the build was refused, and rt_status
             \* has not changed since its SELECT
    dbSize,  \* dbSize of apiThread
    sized,   \* how many types it has counted; 6 when the database exists
    counted, \* history: rt_status has not changed since apiThread began
    upsets,  \* changes and kills so far
    fails    \* statements refused so far

index == <<table, tagIx, old>>
build == <<index, file, line, pc, todo, next, cmd>>
size  == <<dbSize, sized>>
vars  == <<rows, build, built, size, counted, upsets, fails>>

Entry    == [type : {Norm(TypeOf[t]) : t \in Tag}, ix : Nat, tag : Tag]
NoInsert == [type |-> "SELECT"]

TypeOK ==
    /\ rows \subseteq Tag
    /\ table \in BOOLEAN
    /\ tagIx \in Seq(Entry)
    /\ old \in 0..Len(tagIx)
    /\ file \in Seq(Entry)
    /\ line \in Nat
    /\ pc \in {"idle", "drop", "create", "insert", "names"}
    /\ todo \subseteq Tag
    /\ next \in [KnownTypes -> Nat]
    /\ cmd \in Entry \cup {NoInsert}
    /\ built \in BOOLEAN
    /\ dbSize \in Nat
    /\ sized \in 0..6
    /\ counted \in BOOLEAN
    /\ upsets \in 0..MaxUpsets
    /\ fails \in 0..MaxFails

Init ==
    /\ rows \in SUBSET Tag
    /\ table = FALSE /\ tagIx = <<>> /\ old = 0
    /\ file = <<>> /\ line = 0
    /\ pc = "idle" /\ todo = {} /\ next = [c \in KnownTypes |-> 1] /\ cmd = NoInsert
    /\ built = FALSE
    /\ dbSize = SizeFloor /\ sized = 0 /\ counted = TRUE
    /\ upsets = 0 /\ fails = 0

Upset   == upsets < MaxUpsets /\ upsets' = upsets + 1
Refused == fails < MaxFails /\ fails' = fails + 1

\* The system's configuration: a row of rt_status comes or goes.
Reconfigure ==
    /\ \E t \in Tag : rows' = IF t \in rows THEN rows \ {t} ELSE rows \cup {t}
    /\ built' = FALSE /\ counted' = FALSE
    /\ Upset
    /\ UNCHANGED <<build, size, fails>>

-----------------------------------------------------------------------------
(***************************************************************************)
(* dnp3buildConfigs, a process of its own.                                 *)
(***************************************************************************)

\* TAG_FILE is opened for writing and rt_status is read; a refused SELECT
\* yields no rows.
SelectRows ==
    /\ pc = "idle"
    /\ pc' = "drop"
    /\ file' = <<>> /\ line' = 0 /\ next' = [c \in KnownTypes |-> 1] /\ cmd' = NoInsert
    /\ \/ todo' = rows /\ built' = TRUE /\ UNCHANGED fails
       \/ Refused /\ todo' = {} /\ built' = FALSE
    /\ UNCHANGED <<rows, index, size, counted, upsets>>

\* Mutant: the old table is kept.
KeepTable ==
    /\ pc = "drop"
    /\ pc' = "create"
    /\ UNCHANGED <<rows, index, file, line, todo, next, cmd, built, size, counted, upsets, fails>>

\* DROP TABLE IF EXISTS.
DropTable ==
    /\ pc = "drop"
    /\ pc' = "create"
    /\ \/ /\ table' = FALSE /\ tagIx' = <<>> /\ old' = 0
          /\ UNCHANGED <<built, fails>>
       \/ /\ Refused /\ built' = FALSE
          /\ old' = Len(tagIx)
          /\ UNCHANGED <<table, tagIx>>
    /\ UNCHANGED <<rows, file, line, todo, next, cmd, size, counted, upsets>>

\* CREATE TABLE, an error while the table exists.
CreateTable ==
    /\ pc = "create"
    /\ pc' = "insert"
    /\ \/ table' = TRUE /\ UNCHANGED <<built, fails>>
       \/ ~table /\ Refused /\ built' = FALSE /\ UNCHANGED table
    /\ UNCHANGED <<rows, tagIx, old, file, line, todo, next, cmd, size, counted, upsets>>

\* An INSERT into dnp3tagIx; without the table it is an error.
Insert(entry) ==
    /\ table
    /\ tagIx' = Append(tagIx, entry)

\* Mutant: the counter of the type does not move.
SameCounter(t) == next

\* The counters after a point got its index.
Counted(t) == IF Indexed(t) THEN [next EXCEPT ![Norm(TypeOf[t])] = @ + 1] ELSE next

\* One row: the entry goes to the file whether or not the INSERT is refused.
InsertRow ==
    /\ pc = "insert"
    /\ \E t \in todo :
        LET type  == Norm(TypeOf[t])
            entry == [type |-> type, ix |-> IF Indexed(t) THEN next[type] ELSE 0, tag |-> t]
        IN  /\ todo' = todo \ {t}
            /\ next' = Counted(t)
            /\ file' = Append(file, entry)
            /\ cmd' = entry
            /\ \/ Insert(entry) /\ UNCHANGED <<built, fails>>
               \/ table /\ Refused /\ UNCHANGED tagIx /\ built' = FALSE
               \/ ~table /\ UNCHANGED <<tagIx, built, fails>>
    /\ UNCHANGED <<rows, table, old, line, pc, size, counted, upsets>>

InsertDone ==
    /\ pc = "insert" /\ todo = {}
    /\ pc' = "names"
    /\ UNCHANGED <<rows, index, file, line, todo, next, cmd, built, size, counted, upsets, fails>>

\* One line of the file: cmd becomes a SELECT only for a known type, but it is
\* executed for every line.
NameLine ==
    /\ pc = "names" /\ line < Len(file)
    /\ line' = line + 1
    /\ cmd' = IF file[line'].type \in KnownTypes THEN NoInsert ELSE cmd
    /\ \/ /\ cmd' # NoInsert /\ Insert(cmd')
          /\ UNCHANGED fails
       \/ /\ cmd' # NoInsert /\ table /\ Refused
          /\ UNCHANGED tagIx
       \/ /\ cmd' = NoInsert \/ ~table
          /\ UNCHANGED <<tagIx, fails>>
    /\ UNCHANGED <<rows, table, old, file, pc, todo, next, built, size, counted, upsets>>

\* rename(TMP_FILE, TAG_FILE), and the program exits.
Rename ==
    /\ pc = "names" /\ line = Len(file)
    /\ pc' = "idle"
    /\ UNCHANGED <<rows, index, file, line, todo, next, cmd, built, size, counted, upsets, fails>>

\* The build is killed; the table and the file stay as they are.
Killed ==
    /\ pc # "idle"
    /\ pc' = "idle" /\ todo' = {} /\ built' = FALSE
    /\ line' = 0 /\ next' = [c \in KnownTypes |-> 1] /\ cmd' = NoInsert
    /\ Upset
    /\ UNCHANGED <<rows, index, file, size, counted, fails>>

-----------------------------------------------------------------------------
(***************************************************************************)
(* apiThread: five counts, by the exact type, then one more for index 0.   *)
(***************************************************************************)

CountOrder == <<"DI", "DO", "DP", "AI", "AO">>

\* The program is started again: main's locals and a new database.
StartService ==
    /\ dbSize' = SizeFloor /\ sized' = 0 /\ counted' = TRUE
    /\ UNCHANGED <<rows, build, built, upsets, fails>>

\* maxPoints; 0 when the SELECT is refused.
CountType ==
    /\ sized < 5 /\ sized' = sized + 1
    /\ LET n == Cardinality({t \in rows : TypeOf[t] = CountOrder[sized + 1]})
       IN  \/ /\ dbSize' = IF n > dbSize THEN n ELSE dbSize
              /\ UNCHANGED <<counted, fails>>
           \/ Refused /\ UNCHANGED dbSize /\ counted' = FALSE
    /\ UNCHANGED <<rows, build, built, upsets>>

\* Mutant: without the extra index.
NoExtraIndex ==
    /\ sized = 5 /\ sized' = 6
    /\ UNCHANGED <<rows, build, built, dbSize, counted, upsets, fails>>

CreateDatabase ==
    /\ sized = 5 /\ sized' = 6
    /\ dbSize' = dbSize + 1
    /\ UNCHANGED <<rows, build, built, counted, upsets, fails>>

Next ==
    \/ Reconfigure
    \/ SelectRows \/ DropTable \/ CreateTable \/ InsertRow \/ InsertDone \/ NameLine \/ Rename \/ Killed
    \/ StartService \/ CountType \/ CreateDatabase

Spec == Init /\ [][Next]_vars

-----------------------------------------------------------------------------
(***************************************************************************)
(* Properties.                                                             *)
(***************************************************************************)

\* What a lookup may find: the rows come in no particular order.
dnp3index(t) == {tagIx[i].ix : i \in {j \in 1..Len(tagIx) : tagIx[j].tag = t}}

dnp3tag(type, ix) ==
    {tagIx[i].tag : i \in {j \in 1..Len(tagIx) : tagIx[j].type = type /\ tagIx[j].ix = ix}}

\* t has this index by a row that a refused DROP has left.
LeftOver(t, ix) == \E i \in 1..old : tagIx[i].tag = t /\ tagIx[i].ix = ix

\* A control for the type and index under which a point is reported finds that
\* point and no other (dnp3QueueEvent's dnp3index, Dnp3ControlReceived's dnp3tag):
\* in the middle of a build, after a killed one, after refused INSERTs and with a
\* type that the build does not know.  Only after a refused DROP may it find
\* another one: one of the two has the index from the build before.  A build
\* between the report and the control is outside it.  The proofs of
\* EventForwarding assume of their TagIx that a key is one point's.
RoundTrip ==
    \A t \in {u \in Tag : Indexed(u)} : \A ix \in dnp3index(t) :
        LET found == dnp3tag(Norm(TypeOf[t]), ix)
        IN  /\ t \in found
            /\ \A u \in found \ {t} : LeftOver(t, ix) \/ LeftOver(u, ix)

\* The last build is complete and its input has not changed.
Finished == pc = "idle" /\ built

\* A complete build gives every point one line, numbers each type from 1 without
\* a gap, and leaves the lines of the file, which is for the remote server, as
\* the rows of the table; the last INSERT may have run again for each line.
BuildComplete ==
    Finished =>
        /\ {file[i].tag : i \in 1..Len(file)} = rows
        /\ Len(file) = Cardinality(rows)
        /\ \A i \in 1..Len(file), k \in 1..Len(file) :
              k < file[i].ix =>
                  \E j \in 1..Len(file) : file[j].type = file[i].type /\ file[j].ix = k
        /\ Len(file) <= Len(tagIx)
        /\ Len(file) = 0 => Len(tagIx) = 0
        /\ \A i \in 1..Len(tagIx) : tagIx[i] = file[IF i < Len(file) THEN i ELSE Len(file)]

\* The points that the build counts as being of a type and apiThread does not.
Engineering(type) == {t \in rows : Norm(TypeOf[t]) = type /\ TypeOf[t] # type}

\* "Determine dnp3 database size by finding max number of DI,DO,DP,AI and AO
\* points" (apiThread): every index of a build of the same rows exists in the
\* database, except as many at the end of a type as it has engineering points:
\* the database may be that much too small, never more.
FitsDatabase ==
    Finished /\ sized = 6 /\ counted =>
        \A i \in 1..Len(tagIx) :
            tagIx[i].ix < dbSize + Cardinality(Engineering(tagIx[i].type))

-----------------------------------------------------------------------------
(***************************************************************************)
(* The inductive invariant behind RoundTrip.                               *)
(***************************************************************************)

\* No two rows of one build share a type and an index.
UniqueIndex ==
    \A i, j \in old + 1..Len(tagIx) :
        /\ tagIx[i].type \in KnownTypes
        /\ tagIx[i].type = tagIx[j].type
        /\ tagIx[i].ix = tagIx[j].ix
        => tagIx[i].tag = tagIx[j].tag

\* A build begins with a table that has no rows of its own; the indices given
\* so far are below the counters.
BelowCounters ==
    /\ pc = "create" => old = Len(tagIx)
    /\ pc \in {"insert", "names"} =>
           \A i \in old + 1..Len(tagIx) :
               tagIx[i].type \in KnownTypes => tagIx[i].ix < next[tagIx[i].type]
================================================================================
