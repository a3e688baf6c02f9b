---------------------------- MODULE DbWrapperProofs ----------------------------
(***************************************************************************)
(* Proofs about DbWrapper: types, for any number of threads; with one      *)
(* thread, whose rows are its own, which pointers it may misuse, and what  *)
(* outages and constructors cost in calls and in connections.              *)
(***************************************************************************)
EXTENDS DbWrapper, FiniteSetTheorems, TLAPS

\* Who makes a call, with which object and statement.
LEMMA CallShape ==
    \A c \in Calls : c.by \in Thread /\ c.obj \in Obj /\ c.sql \in Sql
  BY DWAssumption

\* A result that is freed stays one: the pointer is kept.
LEMMA FreedResult ==
    ASSUME TypeOK, NEW o \in Obj, result[o] # None
    PROVE  [of |-> result[o].of, freed |-> TRUE] \in Result
<1>1. result[o] \in Result
  BY DEF TypeOK
<1> QED
  BY <1>1 DEF Result

\* One thread's rows of one object, asked for or fetched to the end.
LEMMA AskedShape ==
    ASSUME TypeOK, NEW t \in Thread, NEW o \in Obj, NEW q \in Select \cup {None}
    PROVE  [asked EXCEPT ![t][o] = q] \in [Thread -> [Obj -> Select \cup {None}]]
<1>1. asked \in [Thread -> [Obj -> Select \cup {None}]]
  BY DEF TypeOK
<1>2. [asked[t] EXCEPT ![o] = q] \in [Obj -> Select \cup {None}]
  BY <1>1
<1> QED
  BY <1>1, <1>2

\* Every variable of Db_wrapper and its callers has its type, however many
\* threads there are, and a thread inside execute_... has a call.
THEOREM TypeCorrect == Spec => [](TypeOK /\ CallInv)
<1>1. Init => TypeOK /\ CallInv
  <2> SUFFICES ASSUME Init
               PROVE  TypeOK /\ CallInv
    OBVIOUS
  <2>1. 0 \in 0..MaxFails /\ 0 \in 0..MaxOutages /\ 0 \in 0..2 /\ Static \subseteq Obj
    BY DWAssumption
  <2>2. TypeOK
    BY <2>1 DEF Init, TypeOK
  <2>3. CallInv
    BY DEF Init, CallInv
  <2> QED
    BY <2>2, <2>3
<1>2. TypeOK /\ CallInv /\ [Next]_vars => TypeOK' /\ CallInv'
  <2> SUFFICES ASSUME TypeOK, CallInv, [Next]_vars
               PROVE  TypeOK' /\ CallInv'
    OBVIOUS
  <2>0. MaxFails \in Nat /\ MaxOutages \in Nat
    BY DWAssumption
  <2> USE CallShape, <2>0 DEF objects, link, users, world, history, At, GoTo, Return
  <2>1. ASSUME NEW t \in Thread, NEW c \in Calls, Begin(t, c)
        PROVE  TypeOK' /\ CallInv'
    <3>1. TypeOK'
      <4>1. c.obj \in Obj /\ None \in Select \cup {None}
        OBVIOUS
      <4>2. asked' \in [Thread -> [Obj -> Select \cup {None}]]
        <5>1. asked' = [asked EXCEPT ![t][c.obj] = None]
          BY <2>1 DEF Begin
        <5> QED
          BY <4>1, <5>1, AskedShape
      <4>3. /\ pc' = [pc EXCEPT ![t] = "setSql"] /\ call' = [call EXCEPT ![t] = c]
            /\ row' = [row EXCEPT ![t] = None] /\ built' = built \cup {c.obj}
            /\ connection' \in {connection, None}
            /\ result' = result \/ result' = [result EXCEPT ![c.obj] = None]
            /\ UNCHANGED <<handle, pending, sql, misuse, server, fails, outages, hurt, lost>>
        BY <2>1 DEF Begin
      <4> QED
        BY <4>1, <4>2, <4>3 DEF TypeOK
    <3>2. CallInv'
      BY <2>1 DEF Begin, TypeOK, CallInv
    <3> QED
      BY <3>1, <3>2
  <2>2. ASSUME NEW t \in Thread, SetSql(t)
        PROVE  TypeOK' /\ CallInv'
    <3>1. TypeOK'
      BY <2>2 DEF SetSql, Start, TypeOK, CallInv, Sql, Result
    <3>2. CallInv'
      BY <2>2 DEF SetSql, Start, TypeOK, CallInv
    <3> QED
      BY <3>1, <3>2
  <2>3. ASSUME NEW t \in Thread, InitConnection(t)
        PROVE  TypeOK' /\ CallInv'
    <3>1. TypeOK'
      BY <2>3 DEF InitConnection, TypeOK, CallInv, Sql, Result
    <3>2. CallInv'
      BY <2>3 DEF InitConnection, TypeOK, CallInv
    <3> QED
      BY <3>1, <3>2
  <2>4. ASSUME NEW t \in Thread, Connect(t)
        PROVE  TypeOK' /\ CallInv'
    <3>1. TypeOK'
      <4>1. CASE BadLink
        BY <4>1 DEF BadLink, Misuse, TypeOK
      <4>2. CASE ~BadLink
        <5>1. /\ connection # None /\ pc' = [pc EXCEPT ![t] = Start(call[t])]
              /\ handle' = handle \/ handle' = [handle EXCEPT ![connection] = "up"]
              /\ sql' = sql \/ sql' = [sql EXCEPT ![call[t].obj] = call[t].sql]
              /\ UNCHANGED <<built, result, connection, pending, asked, row, call, misuse,
                             server, fails, outages, hurt, lost>>
          BY <2>4, <4>2 DEF Connect, GoodLink, Connection
        <5>2. call[t] \in Calls
          BY <2>4 DEF Connect, CallInv
        <5>3. call[t].obj \in Obj /\ call[t].sql \in Sql \cup {None}
              /\ Start(call[t]) \in {"free", "query"}
          BY <5>2 DEF Start
        <5> QED
          BY <5>1, <5>3 DEF TypeOK
      <4> QED
        BY <4>1, <4>2
    <3>2. CallInv'
      BY <2>4 DEF Connect, BadLink, GoodLink, Misuse, Connection, Connected, Start,
         TypeOK, CallInv
    <3> QED
      BY <3>1, <3>2
  <2>5. ASSUME NEW t \in Thread, Free(t)
        PROVE  TypeOK' /\ CallInv'
    <3>1. TypeOK'
      <4>1. call[t].obj \in Obj
        BY <2>5 DEF Free, CallInv
      <4>2. CASE UNCHANGED result
        BY <2>5, <4>2 DEF Free, Misuse, TypeOK
      <4>3. CASE result' = [result EXCEPT ![call[t].obj] = [of |-> @.of, freed |-> TRUE]]
                 /\ result[call[t].obj] # None
        <5>1. result' \in [Obj -> Result \cup {None}]
          BY <4>1, <4>3, FreedResult DEF TypeOK
        <5> QED
          BY <2>5, <4>3, <5>1 DEF Free, Misuse, TypeOK
      <4> QED
        BY <2>5, <4>2, <4>3 DEF Free, Misuse, Live
    <3>2. CallInv'
      BY <2>5 DEF Free, Misuse, Live, Freed, TypeOK, CallInv
    <3> QED
      BY <3>1, <3>2
  <2>6. ASSUME NEW t \in Thread, Null(t)
        PROVE  TypeOK' /\ CallInv'
    <3>1. TypeOK'
      BY <2>6 DEF Null, TypeOK, CallInv, Sql, Result
    <3>2. CallInv'
      BY <2>6 DEF Null, TypeOK, CallInv
    <3> QED
      BY <3>1, <3>2
  <2>7. ASSUME NEW t \in Thread, Query(t)
        PROVE  TypeOK' /\ CallInv'
    <3>1. TypeOK'
      <4>1. \A q \in Sql \cup {None} : Rows(q) \in Select \cup {None}
        BY DEF Rows
      <4>2. call[t].obj \in Obj /\ sql[call[t].obj] \in Sql \cup {None}
        BY <2>7 DEF Query, CallInv, TypeOK
      <4>3. pending' \in [Handle -> Select \cup {None}]
        BY <2>7, <4>1, <4>2 DEF Query, BadLink, Misuse, TypeOK
      <4>4. lost' \in 0..2 /\ fails' \in 0..MaxFails
        BY <2>7 DEF Query, BadLink, Misuse, TypeOK
      <4>5. pc' \in [Thread -> {"idle", "setSql", "init", "connect", "free", "null", "query",
                                     "store", "reset", "close", "reinit", "reconnect"}]
        BY <2>7 DEF Query, BadLink, Misuse, TypeOK
      <4>6. call' \in [Thread -> Calls \cup {None}]
        BY <2>7 DEF Query, BadLink, Misuse, TypeOK
      <4>7. misuse' \in {"none", "null", "closed", "double free", "freed"}
        BY <2>7 DEF Query, BadLink, Misuse, TypeOK
      <4>8. UNCHANGED <<built, connection, handle, sql, result, asked, row, server,
                        outages, hurt>>
        BY <2>7 DEF Query, BadLink, Misuse
      <4> QED
        BY <4>3, <4>4, <4>5, <4>6, <4>7, <4>8 DEF TypeOK
    <3>2. CallInv'
      BY <2>7 DEF Query, BadLink, GoodLink, Misuse, Rows, Ready, TypeOK, CallInv
    <3> QED
      BY <3>1, <3>2
  <2>8. ASSUME NEW t \in Thread, Store(t)
        PROVE  TypeOK' /\ CallInv'
    <3>1. TypeOK'
      <4>1. GoodLink => connection \in Handle
        BY DEF GoodLink, TypeOK
      <4>2. GoodLink => Stored \in Result \cup {None}
        BY <4>1 DEF Stored, TypeOK, Result
      <4>3. call[t].obj \in Obj /\ call[t].sql \in Select
        BY <2>8 DEF Store, CallInv
      <4>4. result' \in [Obj -> Result \cup {None}]
        BY <2>8, <4>2, <4>3 DEF Store, BadLink, Misuse, TypeOK
      <4>5. asked' \in [Thread -> [Obj -> Select \cup {None}]]
        <5>1. CASE UNCHANGED asked
          BY <5>1 DEF TypeOK
        <5>2. CASE asked' = [asked EXCEPT ![t][call[t].obj] = call[t].sql]
          BY <4>3, <5>2, AskedShape
        <5> QED
          BY <2>8, <5>1, <5>2 DEF Store, BadLink, Misuse
      <4> QED
        BY <2>8, <4>1, <4>4, <4>5 DEF Store, BadLink, Misuse, TypeOK
    <3>2. CallInv'
      BY <2>8 DEF Store, BadLink, GoodLink, Misuse, Stored, TypeOK, CallInv
    <3> QED
      BY <3>1, <3>2
  <2>9. ASSUME NEW t \in Thread, Reset(t)
        PROVE  TypeOK' /\ CallInv'
    <3>1. TypeOK'
      <4>1. call[t].obj \in Obj
        BY <2>9 DEF Reset, CallInv
      <4>2. CASE UNCHANGED result
        BY <2>9, <4>2 DEF Reset, Misuse, TypeOK
      <4>3. CASE result' = [result EXCEPT ![call[t].obj] = [of |-> @.of, freed |-> TRUE]]
                 /\ result[call[t].obj] # None
        <5>1. result' \in [Obj -> Result \cup {None}]
          BY <4>1, <4>3, FreedResult DEF TypeOK
        <5> QED
          BY <2>9, <4>3, <5>1 DEF Reset, Misuse, TypeOK
      <4> QED
        BY <2>9, <4>2, <4>3 DEF Reset, Misuse, Live
    <3>2. CallInv'
      BY <2>9 DEF Reset, Misuse, Live, Freed, TypeOK, CallInv
    <3> QED
      BY <3>1, <3>2
  <2>10. ASSUME NEW t \in Thread, Close(t)
        PROVE  TypeOK' /\ CallInv'
    <3>1. TypeOK'
      BY <2>10 DEF Close, Misuse, TypeOK, CallInv, Sql, Result
    <3>2. CallInv'
      BY <2>10 DEF Close, Misuse, TypeOK, CallInv
    <3> QED
      BY <3>1, <3>2
  <2>11. ASSUME NEW t \in Thread, Reconnect(t)
        PROVE  TypeOK' /\ CallInv'
    <3>1. TypeOK'
      <4>1. GoodLink => connection \in Handle
        BY DEF GoodLink, TypeOK
      <4>2. call[t].obj \in Obj
        BY <2>11 DEF Reconnect, CallInv
      <4>3. handle' \in [Handle -> {"none", "init", "up", "lost"}]
        BY <2>11, <4>1 DEF Reconnect, BadLink, Misuse, Connection, TypeOK
      <4>4. asked' \in [Thread -> [Obj -> Select \cup {None}]]
        <5>1. CASE UNCHANGED asked
          BY <5>1 DEF TypeOK
        <5>2. CASE asked' = [asked EXCEPT ![t][call[t].obj] =
                                 IF call[t].sql \in Select THEN call[t].sql ELSE None]
          BY <4>2, <5>2, AskedShape
        <5> QED
          BY <2>11, <5>1, <5>2 DEF Reconnect, BadLink, Misuse
      <4>5. pc' \in [Thread -> {"idle", "setSql", "init", "connect", "free", "null", "query",
                                     "store", "reset", "close", "reinit", "reconnect"}]
        BY <2>11 DEF Reconnect, BadLink, Misuse, TypeOK
      <4>6. call' \in [Thread -> Calls \cup {None}]
        BY <2>11 DEF Reconnect, BadLink, Misuse, TypeOK
      <4>7. misuse' \in {"none", "null", "closed", "double free", "freed"}
        BY <2>11 DEF Reconnect, BadLink, Misuse, TypeOK
      <4>8. UNCHANGED <<objects, connection, pending, row, world, history>>
        BY <2>11 DEF Reconnect, BadLink, Misuse
      <4> QED
        BY <4>3, <4>4, <4>5, <4>6, <4>7, <4>8 DEF TypeOK
    <3>2. CallInv'
      BY <2>11 DEF Reconnect, BadLink, GoodLink, Misuse, Connection, Connected, TypeOK,
         CallInv
    <3> QED
      BY <3>1, <3>2
  <2>12. ASSUME NEW t \in Thread, NEW o \in Obj, Fetch(t, o)
        PROVE  TypeOK' /\ CallInv'
    <3>1. TypeOK'
      <4>1. Live(o) => result[o].of \in Select
        BY DEF Live, TypeOK, Result
      <4>2. asked' \in [Thread -> [Obj -> Select \cup {None}]]
        <5>1. asked' = asked \/ asked' = [asked EXCEPT ![t][o] = None]
          BY <2>12 DEF Fetch, Misuse
        <5>2. asked \in [Thread -> [Obj -> Select \cup {None}]]
          BY DEF TypeOK
        <5> QED
          BY <5>1, <5>2, AskedShape
      <4>3. row' \in [Thread -> [asked : Select, of : Select] \cup {None}]
        <5>1. asked[t][o] \in Select
          BY <2>12 DEF Fetch, TypeOK
        <5>2. Live(o) => [asked |-> asked[t][o], of |-> result[o].of]
                             \in [asked : Select, of : Select]
          BY <4>1, <5>1
        <5> QED
          BY <2>12, <5>2 DEF Fetch, Misuse, TypeOK
      <4>4. misuse' \in {"none", "null", "closed", "double free", "freed"}
        BY <2>12 DEF Fetch, Misuse, TypeOK
      <4>5. UNCHANGED <<objects, link, pc, call, world, history>>
        BY <2>12 DEF Fetch, Misuse
      <4> QED
        BY <4>2, <4>3, <4>4, <4>5 DEF TypeOK
    <3>2. CallInv'
      BY <2>12 DEF Fetch, Misuse, Live, Freed, TypeOK, CallInv
    <3> QED
      BY <3>1, <3>2
  <2>13. CASE ServerDown
    <3>1. handle' \in [Handle -> {"none", "init", "up", "lost"}]
      BY <2>13 DEF ServerDown, TypeOK
    <3>2. server' \in BOOLEAN /\ outages' \in 0..MaxOutages
      <4>1. server' = FALSE /\ outages < MaxOutages /\ outages' = outages + 1
        BY <2>13 DEF ServerDown
      <4>2. outages \in 0..MaxOutages
        BY DEF TypeOK
      <4>3. outages' \in 0..MaxOutages
        BY <4>1, <4>2
      <4> QED
        BY <4>1, <4>3
    <3>3. UNCHANGED <<objects, connection, pending, users, fails, misuse, history>>
      BY <2>13 DEF ServerDown
    <3>4. TypeOK'
      BY <3>1, <3>2, <3>3 DEF TypeOK
    <3>5. CallInv'
      BY <3>3 DEF CallInv
    <3> QED
      BY <3>4, <3>5
  <2>14. CASE ServerUp
    BY <2>14 DEF ServerUp, TypeOK, CallInv
  <2>15. CASE UNCHANGED vars
    BY <2>15 DEF vars, TypeOK, CallInv
  <2> QED
    BY <2>1, <2>2, <2>3, <2>4, <2>5, <2>6, <2>7, <2>8, <2>9, <2>10, <2>11, <2>12,
       <2>13, <2>14, <2>15 DEF Next, Execute
<1> QED
  BY <1>1, <1>2, PTL DEF Spec

-----------------------------------------------------------------------------
(***************************************************************************)
(* One thread: the client before apiThread starts, and after it.           *)
(***************************************************************************)

OneThread == \A s, t \in Thread : s = t

DbInv == TypeOK /\ CallInv /\ LinkInv /\ ResultInv

\* The static connection, and what is still to be stored on it, from call to call.
LEMMA LinkStep ==
    ASSUME OneThread, DbInv, [Next]_vars
    PROVE  LinkInv'
<1> USE CallShape DEF OneThread, DbInv, objects, link, users, world, history, At, GoTo, Return
<1>1. ASSUME NEW t \in Thread, NEW c \in Calls, Begin(t, c)
      PROVE  LinkInv'
  BY <1>1 DEF Begin, TypeOK, CallInv, LinkInv, ResultInv
<1>2. ASSUME NEW t \in Thread, SetSql(t)
      PROVE  LinkInv'
  BY <1>2 DEF SetSql, TypeOK, CallInv, LinkInv, ResultInv, Start
<1>3. ASSUME NEW t \in Thread, InitConnection(t)
      PROVE  LinkInv'
  <2>1. None \notin Handle
    BY DWAssumption
  <2>2. PICK h \in Handle :
            /\ handle[h] = "none"
            /\ handle' = [handle EXCEPT ![h] = "init"]
            /\ pending' = [pending EXCEPT ![h] = None]
            /\ connection' = h
    BY <1>3 DEF InitConnection
  <2>3. connection' # None /\ handle'[connection'] = "init"
    BY <2>1, <2>2 DEF TypeOK
  <2>4. pc' = [pc EXCEPT ![t] = IF pc[t] = "init" THEN "connect" ELSE "reconnect"]
    BY <1>3 DEF InitConnection
  <2>5. pc[t] # "store" /\ pc'[t] \in {"connect", "reconnect"}
    BY <1>3, <2>4 DEF InitConnection, TypeOK
  <2>6. \A g \in Handle : pending'[g] = None
    BY <2>2, <2>5 DEF LinkInv, TypeOK
  <2> QED
    BY <2>3, <2>5, <2>6 DEF LinkInv
<1>4. ASSUME NEW t \in Thread, Connect(t)
      PROVE  LinkInv'
  BY <1>4 DEF Connect, TypeOK, CallInv, LinkInv, ResultInv, BadLink, GoodLink, Misuse,
     Connection, Connected, Start
<1>5. ASSUME NEW t \in Thread, Free(t)
      PROVE  LinkInv'
  <2>1. UNCHANGED <<connection, handle, pending, sql, call>>
    BY <1>5 DEF Free, Misuse
  <2>2. pc[t] = "free" /\ pc'[t] \in {"free", "query", "null"}
    BY <1>5 DEF Free, Misuse, TypeOK
  <2> QED
    BY <2>1, <2>2 DEF LinkInv
<1>6. ASSUME NEW t \in Thread, Null(t)
      PROVE  LinkInv'
  BY <1>6 DEF Null, TypeOK, CallInv, LinkInv, ResultInv, Live, Freed
<1>7. ASSUME NEW t \in Thread, Query(t)
      PROVE  LinkInv'
  BY <1>7 DEF Query, TypeOK, CallInv, LinkInv, ResultInv, BadLink, GoodLink, Misuse,
     Ready, Rows
<1>8. ASSUME NEW t \in Thread, Store(t)
      PROVE  LinkInv'
  BY <1>8 DEF Store, TypeOK, CallInv, LinkInv, ResultInv, BadLink, GoodLink, Misuse, Stored
<1>9. ASSUME NEW t \in Thread, Reset(t)
      PROVE  LinkInv'
  <2>1. UNCHANGED <<connection, handle, pending, sql, call>>
    BY <1>9 DEF Reset, Misuse
  <2>2. pc[t] = "reset" /\ pc'[t] \in {"reset", "close"}
    BY <1>9 DEF Reset, Misuse, TypeOK
  <2> QED
    BY <2>1, <2>2 DEF LinkInv
<1>10. ASSUME NEW t \in Thread, Close(t)
      PROVE  LinkInv'
  BY <1>10 DEF Close, TypeOK, CallInv, LinkInv, ResultInv, Misuse
<1>11. ASSUME NEW t \in Thread, Reconnect(t)
      PROVE  LinkInv'
  BY <1>11 DEF Reconnect, TypeOK, CallInv, LinkInv, ResultInv, BadLink, GoodLink, Misuse,
     Connection, Connected
<1>12. ASSUME NEW t \in Thread, NEW o \in Obj, Fetch(t, o)
      PROVE  LinkInv'
  BY <1>12 DEF Fetch, TypeOK, CallInv, LinkInv, ResultInv, Live, Freed, Misuse
<1>13. CASE ServerDown
  BY <1>13 DEF ServerDown, TypeOK, LinkInv, ResultInv
<1>14. CASE ServerUp
  BY <1>14 DEF ServerUp, TypeOK, LinkInv, ResultInv
<1>15. CASE UNCHANGED vars
  BY <1>15 DEF vars, LinkInv, ResultInv
<1> QED
  BY <1>1, <1>2, <1>3, <1>4, <1>5, <1>6, <1>7, <1>8, <1>9, <1>10, <1>11, <1>12,
     <1>13, <1>14, <1>15 DEF Next, Execute


\* The results, and who fetches from them.
LEMMA ResultStep ==
    ASSUME OneThread, DbInv, [Next]_vars
    PROVE  ResultInv'
<1> USE CallShape DEF OneThread, DbInv, objects, link, users, world, history, At, GoTo, Return
<1>1. ASSUME NEW t \in Thread, NEW c \in Calls, Begin(t, c)
      PROVE  ResultInv'
  BY <1>1 DEF Begin, TypeOK, CallInv, LinkInv, ResultInv, Live, Freed
<1>2. ASSUME NEW t \in Thread, SetSql(t)
      PROVE  ResultInv'
  BY <1>2 DEF SetSql, TypeOK, CallInv, LinkInv, ResultInv, Start, Live, Freed
<1>3. ASSUME NEW t \in Thread, InitConnection(t)
      PROVE  ResultInv'
  <2>1. UNCHANGED <<result, asked, call, hurt>>
    BY <1>3 DEF InitConnection
  <2>2. CASE pc[t] = "init" /\ pc'[t] = "connect"
    BY <2>1, <2>2 DEF ResultInv, Live, Freed
  <2>3. CASE pc[t] = "reinit" /\ pc'[t] = "reconnect"
    BY <2>1, <2>3 DEF ResultInv, Live, Freed
  <2> QED
    BY <1>3, <2>2, <2>3 DEF InitConnection, TypeOK
<1>4. ASSUME NEW t \in Thread, Connect(t)
      PROVE  ResultInv'
  BY <1>4 DEF Connect, TypeOK, CallInv, LinkInv, ResultInv, BadLink, GoodLink, Misuse,
     Connection, Connected, Start, Live, Freed
<1>5. ASSUME NEW t \in Thread, Free(t)
      PROVE  ResultInv'
  <2>1. UNCHANGED <<asked, call, hurt>> /\ pc[t] = "free" /\ call[t].obj \in Obj
    BY <1>5 DEF Free, Misuse, CallInv
  <2>2. CASE result[call[t].obj] = None /\ pc'[t] = "query" /\ UNCHANGED result
    BY <2>1, <2>2 DEF ResultInv, Live, Freed
  <2>3. CASE UNCHANGED <<result, pc>>
    BY <2>1, <2>3 DEF ResultInv, Live, Freed
  <2>4. CASE /\ result' = [result EXCEPT ![call[t].obj] = [of |-> @.of, freed |-> TRUE]]
             /\ pc' = [pc EXCEPT ![t] = "null"]
    <3>1. result'[call[t].obj].freed /\ pc'[t] = "null"
      BY <2>1, <2>4 DEF TypeOK
    <3>2. \A o \in Obj \ {call[t].obj} : result'[o] = result[o]
      BY <2>1, <2>4 DEF TypeOK
    <3> QED
      BY <2>1, <3>1, <3>2 DEF ResultInv, Live, Freed
  <2> QED
    BY <1>5, <2>2, <2>3, <2>4 DEF Free, Misuse, TypeOK
<1>6. ASSUME NEW t \in Thread, Null(t)
      PROVE  ResultInv'
  BY <1>6 DEF Null, TypeOK, CallInv, LinkInv, ResultInv, Live, Freed
<1>7. ASSUME NEW t \in Thread, Query(t)
      PROVE  ResultInv'
  BY <1>7 DEF Query, TypeOK, CallInv, LinkInv, ResultInv, BadLink, GoodLink, Misuse,
     Ready, Rows, Live, Freed
<1>8. ASSUME NEW t \in Thread, Store(t)
      PROVE  ResultInv'
  <2>1. pc[t] = "store" /\ call[t].obj \in Obj /\ call[t].sql \in Select
    BY <1>8 DEF Store, CallInv
  <2>2. CASE UNCHANGED <<pc, call, result, asked, hurt>>
    BY <2>2 DEF ResultInv, Live, Freed
  <2>3. CASE GoodLink /\ UNCHANGED hurt
             /\ result' = [result EXCEPT ![call[t].obj] = Stored]
             /\ asked' = [asked EXCEPT ![t][call[t].obj] = call[t].sql]
             /\ pc' = [pc EXCEPT ![t] = "idle"]
    <3>1. Stored # None => Stored.of = call[t].sql /\ ~Stored.freed
      BY <2>1, <2>3 DEF Stored, GoodLink, LinkInv, TypeOK
    <3>2. pc'[t] = "idle" /\ result'[call[t].obj] = Stored
      BY <2>1, <2>3 DEF TypeOK
    <3>3. asked'[t][call[t].obj] = call[t].sql
      BY <2>1, <2>3 DEF TypeOK
    <3>4. \A o \in Obj \ {call[t].obj} : result'[o] = result[o] /\ asked'[t][o] = asked[t][o]
      BY <2>1, <2>3 DEF TypeOK
    <3> QED
      BY <2>1, <2>3, <3>1, <3>2, <3>3, <3>4 DEF ResultInv, Live, Freed
  <2> QED
    BY <1>8, <2>2, <2>3 DEF Store, BadLink, Misuse
<1>9. ASSUME NEW t \in Thread, Reset(t)
      PROVE  ResultInv'
  <2>1. UNCHANGED <<asked, call>> /\ pc[t] = "reset" /\ call[t].obj \in Obj
    BY <1>9 DEF Reset, Misuse, CallInv
  <2>2. CASE result[call[t].obj] = None /\ pc'[t] = "close" /\ UNCHANGED <<result, hurt>>
    BY <2>1, <2>2 DEF ResultInv, Live, Freed
  <2>3. CASE UNCHANGED <<result, pc, hurt>>
    BY <2>1, <2>3 DEF ResultInv, Live, Freed
  <2>4. CASE /\ result' = [result EXCEPT ![call[t].obj] = [of |-> @.of, freed |-> TRUE]]
             /\ hurt' /\ Live(call[t].obj) /\ pc' = [pc EXCEPT ![t] = "close"]
    <3>1. result'[call[t].obj].freed /\ pc'[t] = "close"
      BY <2>1, <2>4 DEF TypeOK
    <3>2. \A o \in Obj \ {call[t].obj} : result'[o] = result[o]
      BY <2>1, <2>4 DEF TypeOK
    <3> QED
      BY <2>1, <2>4, <3>1, <3>2 DEF ResultInv, Live, Freed
  <2> QED
    BY <1>9, <2>2, <2>3, <2>4 DEF Reset, Misuse, TypeOK
<1>10. ASSUME NEW t \in Thread, Close(t)
      PROVE  ResultInv'
  BY <1>10 DEF Close, TypeOK, CallInv, LinkInv, ResultInv, Misuse, Live, Freed
<1>11. ASSUME NEW t \in Thread, Reconnect(t)
      PROVE  ResultInv'
  BY <1>11 DEF Reconnect, TypeOK, CallInv, LinkInv, ResultInv, BadLink, GoodLink, Misuse,
     Connection, Connected, Live, Freed
<1>12. ASSUME NEW t \in Thread, NEW o \in Obj, Fetch(t, o)
      PROVE  ResultInv'
  BY <1>12 DEF Fetch, TypeOK, CallInv, LinkInv, ResultInv, Live, Freed, Misuse
<1>13. CASE ServerDown
  BY <1>13 DEF ServerDown, TypeOK, LinkInv, ResultInv, Live, Freed
<1>14. CASE ServerUp
  BY <1>14 DEF ServerUp, TypeOK, LinkInv, ResultInv, Live, Freed
<1>15. CASE UNCHANGED vars
  BY <1>15 DEF vars, LinkInv, ResultInv, Live, Freed
<1> QED
  BY <1>1, <1>2, <1>3, <1>4, <1>5, <1>6, <1>7, <1>8, <1>9, <1>10, <1>11, <1>12,
     <1>13, <1>14, <1>15 DEF Next, Execute

\* The inductive invariant holds.
LEMMA Inductive ==
    ASSUME OneThread
    PROVE  Spec => []DbInv
<1>1. Init => LinkInv /\ ResultInv
  BY DEF Init, LinkInv, ResultInv, Live, Freed
<1>2. DbInv /\ [Next]_vars => LinkInv' /\ ResultInv'
  BY LinkStep, ResultStep
<1> QED
  BY <1>1, <1>2, TypeCorrect, PTL DEF Spec, DbInv

\* A row that the one thread uses answers its query, however its objects take
\* turns on the static connection and whichever statement fails
\* (get_next_row, db_wrapper.cpp:181).
THEOREM RowsAreOwn ==
    ASSUME OneThread
    PROVE  Spec => []OwnRow
<1>1. Init => OwnRow
  BY DEF Init, OwnRow
<1>2. DbInv /\ OwnRow /\ [Next]_vars => OwnRow'
  <2> SUFFICES ASSUME DbInv, OwnRow, [Next]_vars
               PROVE  OwnRow'
    OBVIOUS
  <2> USE DEF objects, link, users, world, history
  <2>1. CASE UNCHANGED row
    BY <2>1 DEF OwnRow
  <2>2. ASSUME NEW t \in Thread, row' = [row EXCEPT ![t] = None]
        PROVE  OwnRow'
    BY <2>2 DEF OwnRow, DbInv, TypeOK
  <2>3. ASSUME NEW t \in Thread, NEW o \in Obj, Live(o), asked[t][o] # None,
               row' = [row EXCEPT ![t] = [asked |-> asked[t][o], of |-> result[o].of]]
        PROVE  OwnRow'
    <3>1. result[o].of = asked[t][o]
      BY <2>3 DEF DbInv, ResultInv
    <3> QED
      BY <2>3, <3>1 DEF OwnRow, DbInv, TypeOK
  <2>4. ASSUME NEW t \in Thread, NEW o \in Obj, Fetch(t, o)
        PROVE  OwnRow'
    BY <2>1, <2>2, <2>3, <2>4 DEF Fetch, Misuse
  <2>5. ASSUME NEW t \in Thread, NEW c \in Calls, Begin(t, c)
        PROVE  OwnRow'
    BY <2>2, <2>5 DEF Begin
  <2>6. ASSUME NEW t \in Thread, Execute(t)
        PROVE  UNCHANGED row
    BY <2>6 DEF Execute, SetSql, InitConnection, Connect, Free, Null, Query, Store,
                Reset, Close, Reconnect, BadLink, Misuse
  <2>7. ServerDown \/ ServerUp \/ UNCHANGED vars => UNCHANGED row
    BY DEF ServerDown, ServerUp, vars
  <2> QED
    BY <2>1, <2>4, <2>5, <2>6, <2>7 DEF Next
<1> QED
  BY <1>1, <1>2, Inductive, PTL DEF Spec

\* The one thread never reads through a NULL or closed connection, nor fetches
\* from a freed result; a result is freed twice only when resetConnection, after
\* a refused statement, has freed it before (db_wrapper.cpp:92).
THEOREM MisuseOnlyByReset ==
    ASSUME OneThread
    PROVE  Spec => []HurtByResetOnly
<1>1. Init => HurtByResetOnly
  BY DEF Init, HurtByResetOnly
<1>2. DbInv /\ HurtByResetOnly /\ [Next]_vars => HurtByResetOnly'
  <2> SUFFICES ASSUME DbInv, HurtByResetOnly, [Next]_vars
               PROVE  HurtByResetOnly'
    OBVIOUS
  <2> USE CallShape DEF objects, link, users, world, history, At
  <2>1. CASE UNCHANGED misuse /\ (hurt => hurt')
    BY <2>1 DEF HurtByResetOnly
  <2>2. ASSUME NEW t \in Thread, Connect(t) \/ Query(t) \/ Store(t) \/ Reconnect(t)
        PROVE  UNCHANGED misuse /\ (hurt => hurt')
    <3>1. pc[t] \in {"connect", "query", "store", "reconnect"}
      BY <2>2 DEF Connect, Query, Store, Reconnect
    <3>2. GoodLink
      BY <3>1 DEF GoodLink, DbInv, LinkInv
    <3> QED
      BY <2>2, <3>2 DEF Connect, Query, Store, Reconnect, GoodLink, BadLink
  <2>3. ASSUME NEW t \in Thread, Free(t) \/ Reset(t)
        PROVE  HurtByResetOnly'
    <3>1. pc[t] \in {"free", "reset"} /\ call[t].obj \in Obj
      BY <2>3 DEF Free, Reset, DbInv, CallInv
    <3>2. Freed(call[t].obj) => hurt
      BY <3>1 DEF DbInv, ResultInv
    <3>3. CASE misuse' = "double free" /\ Freed(call[t].obj) /\ UNCHANGED hurt
      BY <3>2, <3>3 DEF HurtByResetOnly
    <3>4. CASE UNCHANGED misuse /\ (hurt => hurt')
      BY <2>1, <3>4
    <3>5. Free(t) => (misuse' = "double free" /\ Freed(call[t].obj) /\ UNCHANGED hurt)
                       \/ UNCHANGED <<misuse, hurt>>
      BY DEF Free, Misuse
    <3>6. Reset(t) => (misuse' = "double free" /\ Freed(call[t].obj)) \/ UNCHANGED misuse
      BY DEF Reset, Misuse
    <3>7. Reset(t) => UNCHANGED hurt \/ (hurt' = TRUE /\ UNCHANGED misuse)
      BY DEF Reset, Misuse
    <3>8. Reset(t) => HurtByResetOnly'
      <4>1. HurtByResetOnly => (misuse # "none" => hurt /\ misuse = "double free")
        BY DEF HurtByResetOnly
      <4> QED
        BY <3>2, <3>6, <3>7, <4>1, Zenon DEF HurtByResetOnly
    <3> QED
      BY <2>3, <3>3, <3>4, <3>5, <3>8
  <2>4. ASSUME NEW t \in Thread, Close(t)
        PROVE  UNCHANGED misuse /\ (hurt => hurt')
    BY <2>4 DEF Close, Misuse, DbInv, LinkInv
  <2>5. ASSUME NEW t \in Thread, NEW o \in Obj, Fetch(t, o)
        PROVE  UNCHANGED misuse /\ (hurt => hurt')
    BY <2>5 DEF Fetch, DbInv, ResultInv
  <2>6. ASSUME NEW t \in Thread,
               \/ \E c \in Calls : Begin(t, c)
               \/ SetSql(t) \/ InitConnection(t) \/ Null(t)
        PROVE  UNCHANGED misuse /\ (hurt => hurt')
    BY <2>6 DEF Begin, SetSql, InitConnection, Null
  <2>7. ServerDown \/ ServerUp \/ UNCHANGED vars => UNCHANGED misuse /\ (hurt => hurt')
    BY DEF ServerDown, ServerUp, vars
  <2> QED
    BY <2>1, <2>2, <2>3, <2>4, <2>5, <2>6, <2>7 DEF Next, Execute
<1> QED
  BY <1>1, <1>2, Inductive, PTL DEF Spec

-----------------------------------------------------------------------------
(***************************************************************************)
(* What an outage and the constructors cost the one thread.                *)
(***************************************************************************)

\* The connection that is made after the server came back lasts as long as the
\* server: the call that was lost has made it, or is about to.
OneInv ==
    /\ OneLost
    /\ \A t \in Thread :
          /\ pc[t] = "reconnect" => handle[connection] = "init"
          /\ lost = 1 /\ server /\ connection # None
                /\ pc[t] \in {"idle", "setSql", "free", "null", "query", "store"}
             => handle[connection] = "up"

\* Every step keeps it, since the thread is alone.
LEMMA OneStep ==
    ASSUME OneThread, DbInv, OneInv, [Next]_vars
    PROVE  OneInv'
<1> USE OneThread, DbInv, OneInv
    DEF OneThread, DbInv, objects, link, users, world, history, At, GoTo, Return
<1> DEFINE Works == {"idle", "setSql", "free", "null", "query", "store"}
<1>1. ASSUME UNCHANGED <<handle, lost, server, connection>>,
             \A t \in Thread : /\ pc'[t] = "reconnect" => pc[t] = "reconnect"
                               /\ pc'[t] \in Works => pc[t] \in Works
      PROVE  OneInv'
  BY <1>1 DEF OneInv, OneLost
<1>2. ASSUME NEW t \in Thread, NEW c \in Calls, Begin(t, c)
      PROVE  OneInv'
  BY <1>2 DEF Begin, TypeOK, OneInv, OneLost
<1>3. ASSUME NEW t \in Thread, SetSql(t)
      PROVE  OneInv'
  BY <1>3 DEF SetSql, Start, TypeOK, OneInv, OneLost
<1>4. ASSUME NEW t \in Thread, InitConnection(t)
      PROVE  OneInv'
  <2>1. /\ pc'[t] \in {"connect", "reconnect"} /\ handle'[connection'] = "init"
        /\ UNCHANGED <<lost, server>>
    <3>1. DOMAIN handle = Handle /\ DOMAIN pc = Thread
      BY DEF TypeOK
    <3> QED
      BY <1>4, <3>1 DEF InitConnection
  <2> QED
    BY <2>1 DEF OneInv, OneLost
<1>5. ASSUME NEW t \in Thread, Connect(t) \/ Reconnect(t)
      PROVE  OneInv'
  <2>1. handle[connection] = "init" /\ connection \in Handle
    BY <1>5 DEF Connect, Reconnect, LinkInv, OneInv, TypeOK
  <2>2. GoodLink /\ ~BadLink
    BY <2>1, DWAssumption DEF GoodLink, BadLink
  <2>3. handle' = (IF server THEN [handle EXCEPT ![connection] = "up"] ELSE handle)
    BY <1>5, <2>1, <2>2 DEF Connect, Reconnect, Connection, Connected
  <2>4. pc'[t] \in Works /\ UNCHANGED <<connection, lost, server>>
    BY <1>5, <2>2 DEF Connect, Reconnect, Start, TypeOK
  <2> QED
    BY <2>1, <2>3, <2>4 DEF OneInv, OneLost, TypeOK
<1>6. ASSUME NEW t \in Thread, Query(t)
      PROVE  OneInv'
  <2>1. pc[t] = "query" /\ connection # None /\ connection \in Handle
        /\ handle[connection] # "none" /\ pending[connection] = None
    BY <1>6 DEF Query, LinkInv, TypeOK
  <2>2. GoodLink /\ ~BadLink
    BY <2>1 DEF GoodLink, BadLink
  <2>3. CASE /\ UNCHANGED <<connection, handle, server, lost>>
             /\ pc'[t] \in {"idle", "store", "reset"}
    BY <1>1, <2>1, <2>3
  <2>4. CASE /\ ~Ready /\ lost' = (IF server /\ lost < 2 THEN lost + 1 ELSE lost)
             /\ UNCHANGED <<connection, handle, server>> /\ pc'[t] = "reset"
    <3>1. handle[connection] # "up"
      BY <2>1, <2>4 DEF Ready
    <3>2. server => lost # 1
      BY <2>1, <3>1 DEF OneInv
    <3>3. lost' <= 1
      <4>1. lost \in 0..2 /\ lost <= 1
        BY DEF OneInv, OneLost, TypeOK
      <4>2. CASE server
        <5>1. lost = 0
          BY <3>2, <4>1, <4>2
        <5> QED
          BY <2>4, <4>2, <5>1
      <4>3. CASE ~server
        BY <2>4, <4>1, <4>3
      <4> QED
        BY <4>2, <4>3
    <3> QED
      BY <2>4, <3>3 DEF OneInv, OneLost
  <2> QED
    BY <1>6, <2>2, <2>3, <2>4 DEF Query, TypeOK
<1>7. ASSUME NEW t \in Thread, Free(t) \/ Null(t) \/ Reset(t)
      PROVE  OneInv'
  <2>1. UNCHANGED <<handle, lost, server, connection>>
    BY <1>7 DEF Free, Null, Reset, Misuse
  <2>2. \/ pc[t] \in {"free", "null"} /\ pc'[t] \in {"free", "null", "query"}
        \/ pc'[t] \in {"reset", "close"}
    BY <1>7 DEF Free, Null, Reset, Misuse, TypeOK
  <2> QED
    BY <1>1, <2>1, <2>2
<1>8. ASSUME NEW t \in Thread, Store(t)
      PROVE  OneInv'
  <2>1. UNCHANGED <<handle, lost, server, connection>>
    BY <1>8 DEF Store, BadLink, Misuse
  <2>2. pc[t] = "store" /\ pc'[t] \in {"store", "idle"}
    BY <1>8 DEF Store, BadLink, Misuse, TypeOK
  <2> QED
    BY <1>1, <2>1, <2>2
<1>9. ASSUME NEW t \in Thread, Close(t)
      PROVE  OneInv'
  <2>1. pc'[t] \in {"close", "reinit"} /\ UNCHANGED <<lost, server>>
    BY <1>9 DEF Close, Misuse, TypeOK
  <2> QED
    BY <2>1 DEF OneInv, OneLost
<1>10. ASSUME NEW t \in Thread, NEW o \in Obj, Fetch(t, o)
       PROVE  OneInv'
  BY <1>1, <1>10 DEF Fetch, Misuse
<1>11. CASE ServerDown
  <2>1. ~server' /\ UNCHANGED <<pc, connection, lost>>
    BY <1>11 DEF ServerDown
  <2>2. \A t \in Thread : pc[t] = "reconnect" => connection \in Handle
    BY DEF LinkInv, TypeOK
  <2>3. \A h \in Handle : handle[h] = "init" => handle'[h] = "init"
    BY <1>11 DEF ServerDown
  <2> QED
    BY <2>1, <2>2, <2>3 DEF OneInv, OneLost
<1>12. CASE ServerUp
  BY <1>12 DEF ServerUp, TypeOK, OneInv, OneLost
<1>13. CASE UNCHANGED vars
  BY <1>1, <1>13 DEF vars
<1> QED
  BY <1>2, <1>3, <1>4, <1>5, <1>6, <1>7, <1>8, <1>9, <1>10, <1>11, <1>12, <1>13
     DEF Next, Execute

\* An outage costs the one thread one call: the reset of the call that finds the
\* connection gone makes the one that all objects use (resetConnection,
\* db_wrapper.cpp:92).
THEOREM OutageCostsOne ==
    ASSUME OneThread
    PROVE  Spec => []OneLost
<1>1. Init => OneInv
  BY DEF Init, OneInv, OneLost
<1>2. DbInv /\ OneInv /\ [Next]_vars => OneInv'
  BY OneStep
<1>3. OneInv => OneLost
  BY DEF OneInv
<1> QED
  BY <1>1, <1>2, <1>3, Inductive, PTL DEF Spec

Open == {h \in Handle : handle[h] # "none"}

\* Without a current connection there is one less than objects: the new object
\* has none yet, and resetConnection has closed the old one.
LeakInv ==
    /\ LeakBound
    /\ connection = None /\ built # {} => Cardinality(Open) < Cardinality(built)
    /\ \A t \in Thread :
          /\ pc[t] = "reinit" => Cardinality(Open) < Cardinality(built)
          /\ pc[t] = "init" => connection = None
          /\ pc[t] # "idle" => call[t].obj \in built

\* Connections and objects can be counted.
LEMMA Counts ==
    ASSUME TypeOK
    PROVE  /\ IsFiniteSet(Open) /\ Cardinality(Open) \in Nat
           /\ IsFiniteSet(built) /\ Cardinality(built) \in Nat
<1>1. Open \in SUBSET Handle /\ built \in SUBSET Obj
  BY DEF TypeOK, Open
<1> QED
  BY <1>1, DWAssumption, FS_Subset, FS_CardinalityType

\* Every step keeps it, since the thread is alone.
LEMMA LeakStep ==
    ASSUME OneThread, DbInv, LeakInv, [Next]_vars
    PROVE  LeakInv'
<1> USE OneThread, DbInv, CallShape
    DEF OneThread, DbInv, objects, link, users, world, history, At, GoTo, Return
<1>0. PICK open \in Nat, objs \in Nat : open = Cardinality(Open) /\ objs = Cardinality(built)
  BY Counts
<1>1. /\ open <= objs
      /\ connection = None /\ built # {} => open < objs
      /\ \A t \in Thread : pc[t] = "reinit" => open < objs
      /\ \A t \in Thread : pc[t] = "init" => connection = None
      /\ \A t \in Thread : pc[t] # "idle" => call[t].obj \in built
  BY <1>0 DEF LeakInv, LeakBound, Open
<1>2. ASSUME Open' = Open, UNCHANGED <<built, connection>>,
             \A t \in Thread : /\ pc'[t] = "reinit" => pc[t] = "reinit"
                               /\ pc'[t] = "init" => pc[t] = "init" \/ connection = None
                               /\ pc'[t] # "idle" => pc[t] # "idle" /\ UNCHANGED call
      PROVE  LeakInv'
  <2>1. Cardinality(Open') = open /\ Cardinality(built') = objs
    BY <1>0, <1>2
  <2> QED
    BY <1>1, <1>2, <2>1 DEF LeakInv, LeakBound, Open
<1>3. ASSUME NEW t \in Thread, NEW c \in Calls, Begin(t, c)
      PROVE  LeakInv'
  <2>1. /\ UNCHANGED handle /\ built' = built \cup {c.obj} /\ c.obj \in Obj
        /\ IF c.obj \in built THEN UNCHANGED connection ELSE connection' = None
        /\ pc'[t] = "setSql" /\ call'[t] = c
    BY <1>3 DEF Begin, TypeOK
  <2>2. Cardinality(Open') = open
    BY <1>0, <2>1 DEF Open
  <2>3. CASE c.obj \in built
    <3>1. built' = built /\ UNCHANGED connection
      BY <2>1, <2>3
    <3>2. Cardinality(built') = objs
      BY <1>0, <3>1
    <3> QED
      BY <1>1, <2>1, <2>2, <2>3, <3>1, <3>2 DEF LeakInv, LeakBound, Open
  <2>4. CASE c.obj \notin built
    <3>1. Cardinality(built') = objs + 1
      BY <1>0, <2>1, <2>4, Counts, FS_AddElement
    <3>2. open < Cardinality(built') /\ open <= Cardinality(built')
      BY <1>1, <3>1
    <3> QED
      BY <2>1, <2>2, <3>2 DEF LeakInv, LeakBound, Open
  <2> QED
    BY <2>3, <2>4
<1>4. ASSUME NEW t \in Thread, SetSql(t)
      PROVE  LeakInv'
  <2>1. UNCHANGED <<built, connection, handle, call>> /\ pc[t] = "setSql"
    BY <1>4 DEF SetSql
  <2>2. (pc'[t] = "init" /\ connection = None) \/ pc'[t] \in {"free", "query"}
    BY <1>4 DEF SetSql, Start, TypeOK
  <2>3. Open' = Open
    BY <2>1 DEF Open
  <2> QED
    BY <1>2, <2>1, <2>2, <2>3
<1>5. ASSUME NEW t \in Thread, InitConnection(t)
      PROVE  LeakInv'
  <2>1. PICK h \in Handle :
            handle[h] = "none" /\ handle' = [handle EXCEPT ![h] = "init"] /\ connection' = h
    BY <1>5 DEF InitConnection
  <2>2. /\ pc[t] \in {"init", "reinit"} /\ pc'[t] \in {"connect", "reconnect"}
        /\ UNCHANGED <<built, call>>
    BY <1>5 DEF InitConnection, TypeOK
  <2>3. open < objs
    BY <1>1, <2>2
  <2>4. Open' = Open \cup {h} /\ h \notin Open
    <3>1. DOMAIN handle = Handle
      BY DEF TypeOK
    <3>2. \A g \in Handle : handle'[g] = IF g = h THEN "init" ELSE handle[g]
      BY <2>1, <3>1
    <3> QED
      BY <2>1, <3>2 DEF Open
  <2>5. Cardinality(Open') = open + 1
    BY <1>0, <2>4, Counts, FS_AddElement
  <2>6. Cardinality(Open') <= Cardinality(built')
    BY <1>0, <2>2, <2>3, <2>5
  <2>7. connection' # None
    BY <2>1, DWAssumption
  <2> QED
    BY <1>1, <2>2, <2>6, <2>7 DEF LeakInv, LeakBound, Open
<1>6. ASSUME NEW t \in Thread, Connect(t) \/ Reconnect(t)
      PROVE  LeakInv'
  <2>1. connection # None /\ connection \in Handle
    BY <1>6 DEF Connect, Reconnect, LinkInv, TypeOK
  <2>2. UNCHANGED handle \/ (handle[connection] = "init"
                             /\ handle' = [handle EXCEPT ![connection] = "up"])
    BY <1>6 DEF Connect, Reconnect, BadLink, Misuse, Connection, Connected
  <2>3. Open' = Open
    BY <2>1, <2>2 DEF Open, TypeOK
  <2>4. UNCHANGED <<built, connection>>
    BY <1>6 DEF Connect, Reconnect, BadLink, Misuse
  <2>5. /\ pc[t] \in {"connect", "reconnect"}
        /\ pc'[t] = "idle" \/ (pc'[t] \in {"connect", "reconnect", "free", "query"} /\ UNCHANGED call)
    BY <1>6 DEF Connect, Reconnect, BadLink, Misuse, Start, TypeOK
  <2> QED
    BY <1>2, <2>3, <2>4, <2>5
<1>7. ASSUME NEW t \in Thread, Free(t) \/ Null(t) \/ Query(t) \/ Store(t) \/ Reset(t)
      PROVE  LeakInv'
  <2>1. UNCHANGED <<built, connection, handle>>
    BY <1>7 DEF Free, Null, Query, Store, Reset, BadLink, Misuse
  <2>2. Open' = Open
    BY <2>1 DEF Open
  <2>3. Free(t) \/ Null(t) => UNCHANGED call /\ pc[t] # "idle" /\ pc'[t] \notin {"init", "reinit"}
    BY DEF Free, Null, Misuse, TypeOK
  <2>4. Query(t) => /\ pc[t] # "idle" /\ pc'[t] \notin {"init", "reinit"}
                    /\ pc'[t] = "idle" \/ UNCHANGED call
    BY DEF Query, BadLink, Misuse, TypeOK
  <2>5. Store(t) => /\ pc[t] # "idle" /\ pc'[t] \notin {"init", "reinit"}
                    /\ pc'[t] = "idle" \/ UNCHANGED call
    BY DEF Store, BadLink, Misuse, TypeOK
  <2>6. Reset(t) => UNCHANGED call /\ pc[t] # "idle" /\ pc'[t] \notin {"init", "reinit"}
    BY DEF Reset, Misuse, TypeOK
  <2> QED
    BY <1>2, <1>7, <2>1, <2>2, <2>3, <2>4, <2>5, <2>6
<1>8. ASSUME NEW t \in Thread, Close(t)
      PROVE  LeakInv'
  <2>1. connection # None /\ connection \in Handle /\ handle[connection] # "none"
    BY <1>8 DEF Close, LinkInv, TypeOK
  <2>2. /\ handle' = [handle EXCEPT ![connection] = "none"]
        /\ pc[t] = "close" /\ pc'[t] = "reinit" /\ UNCHANGED <<built, connection, call>>
    BY <1>8, <2>1 DEF Close, TypeOK
  <2>3. Open' = Open \ {connection} /\ connection \in Open
    BY <2>1, <2>2 DEF Open, TypeOK
  <2>4. Cardinality(Open') = open - 1
    BY <1>0, <2>3, Counts, FS_RemoveElement
  <2>5. Cardinality(Open') <= Cardinality(built') /\ Cardinality(Open') < Cardinality(built')
    BY <1>0, <1>1, <2>2, <2>4
  <2> QED
    BY <1>1, <2>1, <2>2, <2>5 DEF LeakInv, LeakBound, Open
<1>9. ASSUME NEW t \in Thread, NEW o \in Obj, Fetch(t, o)
      PROVE  LeakInv'
  <2>1. UNCHANGED <<built, connection, handle, pc, call>>
    BY <1>9 DEF Fetch, Misuse
  <2> QED
    BY <1>2, <2>1 DEF Open
<1>10. CASE ServerDown
  <2>1. Open' = Open
    BY <1>10 DEF ServerDown, Open, TypeOK
  <2> QED
    BY <1>2, <1>10, <2>1 DEF ServerDown
<1>11. CASE ServerUp \/ UNCHANGED vars
  <2>1. UNCHANGED <<built, connection, handle, pc, call>>
    BY <1>11 DEF ServerUp, vars
  <2> QED
    BY <1>2, <2>1 DEF Open
<1> QED
  BY <1>3, <1>4, <1>5, <1>6, <1>7, <1>8, <1>9, <1>10, <1>11 DEF Next, Execute

\* The one thread leaves no more connections open than it has objects, after
\* any number of resets and outages (Db_wrapper's constructor and
\* resetConnection).
THEOREM LeakIsBounded ==
    ASSUME OneThread
    PROVE  Spec => []LeakBound
<1>1. Init => LeakInv
  <2> SUFFICES ASSUME Init
               PROVE  LeakInv
    OBVIOUS
  <2>1. Open = {} /\ built = Static /\ \A t \in Thread : pc[t] = "idle"
    BY DEF Init, Open
  <2>2. IsFiniteSet(built)
    BY <2>1, DWAssumption, FS_Subset
  <2>3. Cardinality(Open) = 0 /\ Cardinality(built) \in Nat
    BY <2>1, <2>2, FS_EmptySet, FS_CardinalityType
  <2>4. built # {} => Cardinality(built) # 0
    BY <2>2, FS_EmptySet
  <2> QED
    BY <2>1, <2>3, <2>4 DEF LeakInv, LeakBound, Open
<1>2. DbInv /\ LeakInv /\ [Next]_vars => LeakInv'
  BY LeakStep
<1>3. LeakInv => LeakBound
  BY DEF LeakInv
<1> QED
  BY <1>1, <1>2, <1>3, Inductive, PTL DEF Spec
================================================================================
