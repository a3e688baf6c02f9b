------------------------------- MODULE DbWrapper -------------------------------
(***************************************************************************)
(* Db_wrapper (db_wrapper.cpp): objects that share one static connection   *)
(* and have a statement and a result of their own, and the threads that    *)
(* use them.  The client thread selects and fetches with several objects   *)
(* in turn; the library's thread sizes its database, and bye() drops the   *)
(* trigger, with an object of the client thread.  There is no lock.        *)
(*                                                                         *)
(* A row is the query it answers; a result gives rows for as long as it    *)
(* likes.  A pointer that is read as NULL, freed or closed where the MySQL *)
(* library needs an object ends the program: misuse says what happened.    *)
(***************************************************************************)
EXTENDS Integers, FiniteSets

CONSTANTS
    Thread,      \* the threads of the process
    Obj,         \* the Db_wrapper objects
    Static,      \* those constructed before main; the others at their first use
    Select,      \* the SELECT statements
    Change,      \* the other statements
    Calls,       \* who executes what with which object
    Handle,      \* bound: connections that are open at a time, numbered
    MaxFails,    \* bound: refused statements
    MaxOutages,  \* bound: times that the server goes away
    None         \* NULL

Sql == Select \cup Change

ASSUME DWAssumption ==
    /\ Static \subseteq Obj
    /\ IsFiniteSet(Obj) /\ IsFiniteSet(Handle) /\ Handle \subseteq Nat
    /\ Select \cap Change = {}
    /\ Calls \subseteq [by : Thread, obj : Obj, sql : Sql]
    /\ MaxFails \in Nat
    /\ MaxOutages \in Nat
    /\ None \notin Handle /\ None \notin Sql
    /\ None \notin [of : Select, freed : BOOLEAN]
    /\ None \notin [asked : Select, of : Select]

VARIABLES
    built,       \* the objects that exist
    connection,  \* the static connection
    handle,      \* the connections: "none", "init" (mysql_init), "up", "lost"
    pending,     \* the query whose result set is still to be stored, per connection
    sql,         \* sql_statement of each object
    result,      \* result of each object
    pc,          \* where each thread is in set_sql and execute_...
    call,        \* the call that it makes
    asked,       \* asked[t][o]: the SELECT whose rows t is fetching from o
    row,         \* the row it fetched: the query it asked and the one it answers
    misuse,      \* what was done with a pointer to nothing
    server,      \* the MySQL server runs
    fails,       \* statements refused so far
    outages,     \* outages so far
    hurt,        \* history: a refused statement has freed a result and kept it
    lost         \* history: calls lost since the server came back (at most 2)

objects == <<built, sql, result>>
link    == <<connection, handle, pending>>
users   == <<pc, call, asked, row>>
world   == <<server, fails, outages>>
history == <<hurt, lost>>
vars    == <<objects, link, users, world, misuse, history>>

Result == [of : Select, freed : BOOLEAN]

TypeOK ==
    /\ built \subseteq Obj
    /\ connection \in Handle \cup {None}
    /\ handle \in [Handle -> {"none", "init", "up", "lost"}]
    /\ pending \in [Handle -> Select \cup {None}]
    /\ sql \in [Obj -> Sql \cup {None}]
    /\ result \in [Obj -> Result \cup {None}]
    /\ pc \in [Thread -> {"idle", "setSql", "init", "connect", "free", "null", "query",
                          "store", "reset", "close", "reinit", "reconnect"}]
    /\ call \in [Thread -> Calls \cup {None}]
    /\ asked \in [Thread -> [Obj -> Select \cup {None}]]
    /\ row \in [Thread -> [asked : Select, of : Select] \cup {None}]
    /\ misuse \in {"none", "null", "closed", "double free", "freed"}
    /\ server \in BOOLEAN
    /\ fails \in 0..MaxFails
    /\ outages \in 0..MaxOutages
    /\ hurt \in BOOLEAN
    /\ lost \in 0..2

Init ==
    /\ built = Static
    /\ connection = None
    /\ handle = [h \in Handle |-> "none"]
    /\ pending = [h \in Handle |-> None]
    /\ sql = [o \in Obj |-> None]
    /\ result = [o \in Obj |-> None]
    /\ pc = [t \in Thread |-> "idle"]
    /\ call = [t \in Thread |-> None]
    /\ asked = [t \in Thread |-> [o \in Obj |-> None]]
    /\ row = [t \in Thread |-> None]
    /\ misuse = "none"
    /\ server \in BOOLEAN /\ fails = 0 /\ outages = 0
    /\ hurt = FALSE /\ lost = 0

-----------------------------------------------------------------------------
(***************************************************************************)
(* The steps of a thread, in the order of the statements.                  *)
(***************************************************************************)

At(t, p)    == misuse = "none" /\ pc[t] = p
GoTo(t, p)  == pc' = [pc EXCEPT ![t] = p] /\ UNCHANGED call
Return(t)   == pc' = [pc EXCEPT ![t] = "idle"] /\ call' = [call EXCEPT ![t] = None]
Misuse(m)   == misuse' = m /\ UNCHANGED <<objects, link, users, world, history>>

\* What the result of o points to.
Live(o)  == result[o] # None /\ ~result[o].freed
Freed(o) == result[o] # None /\ result[o].freed

\* A pointer to a connection that the MySQL library is given must point to one.
BadLink ==
    \/ connection = None /\ Misuse("null")
    \/ connection # None /\ handle[connection] = "none" /\ Misuse("closed")
GoodLink == connection # None /\ handle[connection] # "none"

\* Where execute_select and execute_statement begin.
Start(c) == IF c.sql \in Select THEN "free" ELSE "query"

\* A call of set_sql and execute_...; the constructor of a static local object
\* runs first, and forgets the connection.
Begin(t, c) ==
    /\ At(t, "idle") /\ c.by = t
    /\ pc' = [pc EXCEPT ![t] = "setSql"]
    /\ call' = [call EXCEPT ![t] = c]
    /\ asked' = [asked EXCEPT ![t][c.obj] = None]
    /\ row' = [row EXCEPT ![t] = None]
    /\ built' = built \cup {c.obj}
    /\ IF c.obj \in built
       THEN UNCHANGED <<connection, result>>
       ELSE connection' = None /\ result' = [result EXCEPT ![c.obj] = None]
    /\ UNCHANGED <<handle, pending, sql, world, misuse, history>>

SetSql(t) ==
    /\ At(t, "setSql")
    /\ IF connection = None
       THEN /\ result' = [result EXCEPT ![call[t].obj] = None]
            /\ GoTo(t, "init")
            /\ UNCHANGED sql
       ELSE /\ sql' = [sql EXCEPT ![call[t].obj] = call[t].sql]
            /\ GoTo(t, Start(call[t]))
            /\ UNCHANGED result
    /\ UNCHANGED <<built, link, asked, row, world, misuse, history>>

\* initConnection, called by set_sql and by resetConnection: mysql_init (which
\* number the new connection has is of no account) ...
InitConnection(t) ==
    /\ At(t, "init") \/ At(t, "reinit")
    /\ \E h \in Handle :
        /\ handle[h] = "none" /\ \A g \in Handle : handle[g] = "none" => h <= g
        /\ handle' = [handle EXCEPT ![h] = "init"]
        /\ pending' = [pending EXCEPT ![h] = None]
        /\ connection' = h
    /\ GoTo(t, IF pc[t] = "init" THEN "connect" ELSE "reconnect")
    /\ UNCHANGED <<objects, asked, row, world, misuse, history>>

\* ... and mysql_real_connect.
Connected == server /\ handle[connection] = "init"
Connection ==
    handle' = IF Connected THEN [handle EXCEPT ![connection] = "up"] ELSE handle

\* In set_sql: without a connection the statement is not replaced.
Connect(t) ==
    /\ At(t, "connect")
    /\ \/ BadLink
       \/ /\ GoodLink
          /\ Connection
          /\ sql' = IF Connected THEN [sql EXCEPT ![call[t].obj] = call[t].sql] ELSE sql
          /\ GoTo(t, Start(call[t]))
          /\ UNCHANGED <<built, result, connection, pending, asked, row, world,
                         misuse, history>>

\* Mutant: execute_select leaves the old result in place.
FreeNothing(t) ==
    /\ At(t, "free")
    /\ GoTo(t, "query")
    /\ UNCHANGED <<objects, link, asked, row, world, misuse, history>>

\* free_result, called by execute_select: mysql_free_result ...
Free(t) ==
    /\ At(t, "free")
    /\ LET o == call[t].obj IN
        \/ /\ result[o] = None
           /\ GoTo(t, "query")
           /\ UNCHANGED <<objects, link, asked, row, world, misuse, history>>
        \/ /\ Freed(o)
           /\ Misuse("double free")
        \/ /\ Live(o)
           /\ result' = [result EXCEPT ![o] = [of |-> @.of, freed |-> TRUE]]
           /\ GoTo(t, "null")
           /\ UNCHANGED <<built, sql, link, asked, row, world, misuse, history>>

\* ... and result = NULL.
Null(t) ==
    /\ At(t, "null")
    /\ result' = [result EXCEPT ![call[t].obj] = None]
    /\ GoTo(t, "query")
    /\ UNCHANGED <<built, sql, link, asked, row, world, misuse, history>>

\* What a statement leaves to be stored.
Rows(s) == IF s \in Select THEN s ELSE None

Ready == handle[connection] = "up" /\ pending[connection] = None

\* mysql_real_query of the object's statement.  It fails without a connection
\* to the server, and while a result set is to be stored (out of sync).
Query(t) ==
    /\ At(t, "query")
    /\ LET s == sql[call[t].obj] IN
        \/ BadLink
        \/ /\ GoodLink /\ Ready
           /\ pending' = [pending EXCEPT ![connection] = Rows(s)]
           /\ IF call[t].sql \in Select THEN GoTo(t, "store") ELSE Return(t)
           /\ UNCHANGED <<objects, connection, handle, asked, row, world, misuse,
                          history>>
        \/ /\ GoodLink /\ Ready
           /\ fails < MaxFails /\ fails' = fails + 1
           /\ GoTo(t, "reset")
           /\ UNCHANGED <<objects, link, asked, row, server, outages, misuse, history>>
        \/ /\ GoodLink /\ ~Ready
           /\ lost' = IF server /\ lost < 2 THEN lost + 1 ELSE lost
           /\ GoTo(t, "reset")
           /\ UNCHANGED <<objects, link, asked, row, world, misuse, hurt>>

\* What mysql_store_result returns.
Stored == IF handle[connection] = "up" /\ pending[connection] # None
          THEN [of |-> pending[connection], freed |-> FALSE] ELSE None

\* Mutant: the result is static, as the connection is.
StoreForAll(t) ==
    /\ At(t, "store")
    /\ \/ BadLink
       \/ /\ GoodLink
          /\ result' = [o \in Obj |-> Stored]
          /\ pending' = [pending EXCEPT ![connection] = None]
          /\ asked' = [asked EXCEPT ![t][call[t].obj] = call[t].sql]
          /\ Return(t)
          /\ UNCHANGED <<built, sql, connection, handle, row, world, misuse, history>>

\* mysql_store_result, and the caller begins to fetch.
Store(t) ==
    /\ At(t, "store")
    /\ \/ BadLink
       \/ /\ GoodLink
          /\ result' = [result EXCEPT ![call[t].obj] = Stored]
          /\ pending' = [pending EXCEPT ![connection] = None]
          /\ asked' = [asked EXCEPT ![t][call[t].obj] = call[t].sql]
          /\ Return(t)
          /\ UNCHANGED <<built, sql, connection, handle, row, world, misuse, history>>

\* Mutant: a failed call makes no new connection.
GiveUp(t) ==
    /\ At(t, "reset")
    /\ Return(t)
    /\ UNCHANGED <<objects, link, asked, row, world, misuse, history>>

\* resetConnection: mysql_free_result, without result = NULL ...
Reset(t) ==
    /\ At(t, "reset")
    /\ LET o == call[t].obj IN
        \/ /\ result[o] = None
           /\ GoTo(t, "close")
           /\ UNCHANGED <<objects, link, asked, row, world, misuse, history>>
        \/ /\ Freed(o)
           /\ Misuse("double free")
        \/ /\ Live(o)
           /\ result' = [result EXCEPT ![o] = [of |-> @.of, freed |-> TRUE]]
           /\ hurt' = TRUE
           /\ GoTo(t, "close")
           /\ UNCHANGED <<built, sql, link, asked, row, world, misuse, lost>>

\* Mutant: the old connection is left open.
LeaveOpen(t) ==
    /\ At(t, "close")
    /\ GoTo(t, "reinit")
    /\ UNCHANGED <<objects, link, asked, row, world, misuse, history>>

\* ... mysql_close, if the connection is not NULL ...
Close(t) ==
    /\ At(t, "close")
    /\ \/ /\ connection # None /\ handle[connection] = "none"
          /\ Misuse("closed")
       \/ /\ connection # None /\ handle[connection] # "none"
          /\ handle' = [handle EXCEPT ![connection] = "none"]
          /\ GoTo(t, "reinit")
          /\ UNCHANGED <<objects, connection, pending, asked, row, world, misuse,
                         history>>
       \/ /\ connection = None
          /\ GoTo(t, "reinit")
          /\ UNCHANGED <<objects, link, asked, row, world, misuse, history>>

\* ... and initConnection; the call has failed, and is not repeated.
Reconnect(t) ==
    /\ At(t, "reconnect")
    /\ \/ BadLink
       \/ /\ GoodLink
          /\ Connection
          /\ asked' = [asked EXCEPT ![t][call[t].obj] =
                           IF call[t].sql \in Select THEN call[t].sql ELSE None]
          /\ Return(t)
          /\ UNCHANGED <<objects, connection, pending, row, world, misuse, history>>

\* get_next_row: NULL without a result, and after the last row; the caller,
\* who does not look at what execute_select returned, stops at NULL.
Fetch(t, o) ==
    /\ At(t, "idle") /\ asked[t][o] # None
    /\ \/ /\ row' = [row EXCEPT ![t] = None]
          /\ asked' = [asked EXCEPT ![t][o] = None]
          /\ ~Freed(o)
          /\ UNCHANGED <<objects, link, pc, call, world, misuse, history>>
       \/ /\ Live(o)
          /\ row' = [row EXCEPT ![t] = [asked |-> asked[t][o], of |-> result[o].of]]
          /\ UNCHANGED <<objects, link, pc, call, asked, world, misuse, history>>
       \/ /\ Freed(o)
          /\ Misuse("freed")

-----------------------------------------------------------------------------
(***************************************************************************)
(* The MySQL server.                                                       *)
(***************************************************************************)

ServerDown ==
    /\ misuse = "none" /\ server /\ outages < MaxOutages
    /\ server' = FALSE /\ outages' = outages + 1
    /\ handle' = [h \in Handle |-> IF handle[h] = "up" THEN "lost" ELSE handle[h]]
    /\ UNCHANGED <<objects, connection, pending, users, fails, misuse, history>>

ServerUp ==
    /\ misuse = "none" /\ ~server
    /\ server' = TRUE
    /\ lost' = 0
    /\ UNCHANGED <<objects, link, users, fails, outages, misuse, hurt>>

Execute(t) ==
    \/ SetSql(t) \/ InitConnection(t) \/ Connect(t)
    \/ Free(t) \/ Null(t) \/ Query(t) \/ Store(t)
    \/ Reset(t) \/ Close(t) \/ Reconnect(t)

Next ==
    \/ \E t \in Thread : \/ \E c \in Calls : Begin(t, c)
                         \/ Execute(t)
                         \/ \E o \in Obj : Fetch(t, o)
    \/ ServerDown \/ ServerUp

Spec == Init /\ [][Next]_vars

\* The threads are loops that go on calling; an outage ends only if the
\* property says so.
Fairness == \A t \in Thread :
    /\ WF_vars(\E c \in Calls : Begin(t, c))
    /\ WF_vars(Execute(t))

FairSpec == Spec /\ Fairness

-----------------------------------------------------------------------------
(***************************************************************************)
(* Properties.                                                             *)
(***************************************************************************)

\* A row that a caller (dnp3index, dnp3tag, maxPoints, dnp3clientService) uses
\* answers the query that it asked, whatever the other objects do with the
\* connection between its SELECT and its rows.
OwnRow == \A t \in Thread : row[t] # None => row[t].of = row[t].asked

\* Nothing but the result that resetConnection frees and keeps, when a DELETE,
\* UPDATE or ALTER is refused or meets an outage, is ever freed twice, used
\* after it was freed, or used where nothing is.
HurtByResetOnly == misuse # "none" => hurt /\ misuse = "double free"

\* The constructors forget open connections, one for each object; resets and
\* outages, however many, leave none behind.
LeakBound == Cardinality({h \in Handle : handle[h] # "none"}) <= Cardinality(built)

\* After an outage one statement is lost, the one that finds the connection
\* gone; its reset makes the connection for all objects.
OneLost == lost <= 1

\* When the server stays, there is a connection in the end.
Heals ==
    <>[](server /\ misuse = "none")
        => <>[](connection # None /\ handle[connection] = "up")

-----------------------------------------------------------------------------
(***************************************************************************)
(* The inductive invariant behind OwnRow and HurtByResetOnly, for one      *)
(* thread.                                                                 *)
(***************************************************************************)

\* A thread between set_sql and the end of execute_... has a call; a SELECT
\* goes through free_result and mysql_store_result.
CallInv ==
    \A t \in Thread :
        /\ pc[t] # "idle" => call[t] \in Calls
        /\ pc[t] \in {"free", "null", "store"} => call[t].sql \in Select

\* The static pointer leads to a connection, but for the gap in resetConnection.
\* The statement of an object is the caller's, unless no server will see it; only
\* the thread in mysql_store_result has a result set to store, its own.
LinkInv ==
    \A t \in Thread :
        /\ pc[t] \in {"connect", "reconnect", "free", "null", "query", "store", "reset", "close"}
               => connection # None
        /\ pc[t] # "reinit" /\ connection # None => handle[connection] # "none"
        /\ pc[t] = "connect" => handle[connection] = "init"
        /\ pc[t] \in {"free", "null", "query"} /\ handle[connection] = "up"
               => sql[call[t].obj] = call[t].sql
        /\ \A h \in Handle : pending[h] # None
               => pc[t] = "store" /\ h = connection /\ pending[h] = call[t].sql

\* A result that a caller fetches from is the one of its SELECT; one that was
\* freed and kept is left over from a reset, and nobody fetches from it.
ResultInv ==
    \A t \in Thread :
        /\ pc[t] # "idle" => asked[t][call[t].obj] = None
        /\ pc[t] \in {"query", "store", "reset", "close", "reinit", "reconnect"}
               /\ call[t].sql \in Select => result[call[t].obj] = None
        /\ \A o \in Obj :
               /\ Live(o) /\ asked[t][o] # None => result[o].of = asked[t][o]
               /\ Freed(o) => asked[t][o] = None
               /\ Freed(o) => hurt \/ (pc[t] = "null" /\ call[t].obj = o)
================================================================================
