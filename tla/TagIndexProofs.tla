---------------------------- MODULE TagIndexProofs ----------------------------
(***************************************************************************)
(* Proofs about TagIndex, for every rt_status whose types are all known.   *)
(***************************************************************************)
EXTENDS TagIndex, SequenceTheorems, FiniteSetTheorems, TLAPS

AllIndexed == \A t \in Tag : Indexed(t)

\* What the numbering needs of the types of the variables.
Typed ==
    /\ tagIx \in Seq(Entry)
    /\ old \in Nat /\ old <= Len(tagIx)
    /\ file \in Seq(Entry) /\ line \in Nat
    /\ rows \subseteq Tag /\ todo \subseteq Tag
    /\ pc \in {"idle", "drop", "create", "insert", "names"}
    /\ next \in [KnownTypes -> Nat]

\* When every type is known the buffer cmd holds a SELECT for every line.
LEMMA OneLine ==
    ASSUME AllIndexed, Typed, NameLine
    PROVE  /\ UNCHANGED <<rows, table, tagIx, old, file, pc, todo, next, built, dbSize, sized,
                          counted>>
           /\ pc = "names" /\ line' \in Nat
<1>1. line' \in 1..Len(file) /\ line' = line + 1
  BY DEF NameLine, Typed
<1>2. file[line'] \in Entry
  BY <1>1, ElementOfSeq DEF Typed
<1>3. file[line'].type \in KnownTypes
  BY <1>2 DEF Entry, AllIndexed, Indexed
<1>4. cmd' = NoInsert
  BY <1>3 DEF NameLine
<1>5. UNCHANGED tagIx
  BY <1>4 DEF NameLine
<1> QED
  BY <1>1, <1>5 DEF NameLine, size

\* The variables keep their types.
LEMMA TypedStep ==
    ASSUME AllIndexed
    PROVE  Typed /\ [Next]_vars => Typed'
<1> SUFFICES ASSUME Typed, [Next]_vars
             PROVE  Typed'
  OBVIOUS
<1> USE DEF Typed
<1>1. CASE InsertRow
  <2> DEFINE type(t)  == Norm(TypeOf[t])
             entry(t) == [type |-> type(t), ix |-> next[type(t)], tag |-> t]
  <2>0. PICK t \in todo :
          /\ todo' = todo \ {t}
          /\ next' = [next EXCEPT ![type(t)] = @ + 1]
          /\ file' = Append(file, entry(t))
          /\ tagIx' = Append(tagIx, entry(t)) \/ tagIx' = tagIx
    BY <1>1 DEF InsertRow, Insert, Counted, Indexed, AllIndexed
  <2>1. type(t) \in KnownTypes /\ t \in Tag
    BY DEF AllIndexed, Indexed
  <2>2. entry(t) \in Entry
    <3>1. next[type(t)] \in Nat
      BY <2>1
    <3>2. type(t) \in {Norm(TypeOf[u]) : u \in Tag}
      BY <2>1
    <3> QED
      BY <2>1, <3>1, <3>2 DEF Entry
  <2>3. next' \in [KnownTypes -> Nat]
    BY <2>0, <2>1
  <2> HIDE DEF entry, type
  <2>4. tagIx' \in Seq(Entry) /\ Len(tagIx') \in Nat /\ Len(tagIx) <= Len(tagIx')
    <3>1. CASE tagIx' = tagIx
      BY <3>1
    <3>2. CASE tagIx' = Append(tagIx, entry(t))
      <4>1. tagIx' \in Seq(Entry) /\ Len(tagIx') = Len(tagIx) + 1 /\ Len(tagIx) \in Nat
        BY <2>2, <3>2, AppendProperties
      <4> QED
        BY <4>1
    <3> QED
      BY <2>0, <3>1, <3>2
  <2>5. file' \in Seq(Entry)
    BY <2>0, <2>2
  <2>6. UNCHANGED <<rows, old, line, pc>> /\ pc = "insert" /\ todo' \subseteq Tag
    BY <1>1, <2>0 DEF InsertRow, Counted
  <2> QED
    BY <2>3, <2>4, <2>5, <2>6
<1>2. CASE NameLine
  BY <1>2, OneLine
<1>3. CASE SelectRows
  <2>1. next' \in [KnownTypes -> Nat] /\ file' \in Seq(Entry)
    BY <1>3, EmptySeq DEF SelectRows
  <2> QED
    BY <1>3, <2>1 DEF SelectRows, Refused, index
<1>4. CASE Rename \/ InsertDone
  BY <1>4 DEF Rename, InsertDone, index
<1>5. CASE DropTable
  <2>0. Len(tagIx) \in Nat
    OBVIOUS
  <2>1. tagIx' \in Seq(Entry) /\ old' \in Nat /\ old' <= Len(tagIx')
    <3>1. CASE tagIx' = << >> /\ old' = 0
      <4>1. tagIx' \in Seq(Entry) /\ Len(tagIx') = 0
        BY <3>1, EmptySeq
      <4> QED
        BY <3>1, <4>1
    <3>2. CASE tagIx' = tagIx /\ old' = Len(tagIx)
      BY <2>0, <3>2
    <3> QED
      BY <1>5, <3>1, <3>2 DEF DropTable
  <2> QED
    BY <1>5, <2>1 DEF DropTable
<1>6. CASE CreateTable
  BY <1>6 DEF CreateTable
<1>7. CASE Killed
  <2>1. next' \in [KnownTypes -> Nat]
    BY <1>7 DEF Killed
  <2> QED
    BY <1>7, <2>1 DEF Killed, index
<1>8. CASE Reconfigure
  BY <1>8 DEF Reconfigure, build, index
<1>9. CASE StartService \/ CountType \/ CreateDatabase
  BY <1>9 DEF StartService, CountType, CreateDatabase, build, index
<1>10. CASE UNCHANGED vars
  BY <1>10 DEF vars, build, index
<1> QED
  BY <1>1, <1>2, <1>3, <1>4, <1>5, <1>6, <1>7, <1>8, <1>9, <1>10 DEF Next

\* The first process finds no table.
LEMMA InitTyped ==
    Init => /\ Typed /\ Len(tagIx) = 0 /\ old = 0
            /\ pc = "idle" /\ ~built /\ dbSize = SizeFloor /\ sized = 0
<1> SUFFICES ASSUME Init
             PROVE  /\ Typed /\ Len(tagIx) = 0 /\ old = 0
                    /\ pc = "idle" /\ ~built /\ dbSize = SizeFloor /\ sized = 0
  OBVIOUS
<1>1. /\ tagIx = << >> /\ old = 0 /\ file = << >> /\ line = 0 /\ pc = "idle" /\ ~built
      /\ rows \subseteq Tag /\ todo = {} /\ next \in [KnownTypes -> Nat]
      /\ dbSize = SizeFloor /\ sized = 0
  BY DEF Init
<1>2. tagIx \in Seq(Entry) /\ file \in Seq(Entry) /\ Len(tagIx) = 0
  BY <1>1, EmptySeq
<1> QED
  BY <1>1, <1>2 DEF Typed

\* Rows are appended with the counter of their type, which then moves on.
LEMMA NumberingStep ==
    ASSUME AllIndexed
    PROVE  Typed /\ BelowCounters /\ UniqueIndex /\ [Next]_vars => BelowCounters' /\ UniqueIndex'
<1> SUFFICES ASSUME Typed, BelowCounters, UniqueIndex, [Next]_vars
             PROVE  BelowCounters' /\ UniqueIndex'
  OBVIOUS
<1>1. CASE InsertRow
  <2> DEFINE type(t)  == Norm(TypeOf[t])
             entry(t) == [type |-> type(t), ix |-> next[type(t)], tag |-> t]
  <2>0. PICK t \in todo :
          /\ next' = [next EXCEPT ![type(t)] = @ + 1]
          /\ tagIx' = Append(tagIx, entry(t)) \/ tagIx' = tagIx
    BY <1>1 DEF InsertRow, Insert, Counted, Indexed, AllIndexed, Typed
  <2>1. /\ type(t) \in KnownTypes /\ next \in [KnownTypes -> Nat]
        /\ pc = "insert" /\ pc' = "insert" /\ old' = old /\ old \in Nat /\ old <= Len(tagIx)
    BY <1>1 DEF InsertRow, Counted, AllIndexed, Indexed, Typed
  <2>2. \A i \in old + 1..Len(tagIx) : tagIx[i].type \in KnownTypes => tagIx[i].ix < next[tagIx[i].type]
    BY <2>1 DEF BelowCounters
  <2>t. \A i \in 1..Len(tagIx) : tagIx[i].ix \in Nat
    <3> SUFFICES ASSUME NEW i \in 1..Len(tagIx)
                 PROVE  tagIx[i].ix \in Nat
      OBVIOUS
    <3>1. tagIx[i] \in Entry
      BY ElementOfSeq DEF Typed
    <3> QED
      BY <3>1 DEF Entry
  <2>3. /\ next'[type(t)] = next[type(t)] + 1 /\ next[type(t)] \in Nat
        /\ \A c \in KnownTypes : next[c] \in Nat /\ next[c] <= next'[c]
    BY <2>0, <2>1
  <2>6. ASSUME NEW i \in old + 1..Len(tagIx), tagIx[i].type \in KnownTypes
        PROVE  tagIx[i].ix < next'[tagIx[i].type]
    <3> DEFINE c == tagIx[i].type
    <3>1. tagIx[i].ix < next[c] /\ tagIx[i].ix \in Nat
      BY <2>1, <2>2, <2>6, <2>t
    <3>2. next[c] \in Nat /\ next'[c] \in Nat /\ next[c] <= next'[c]
      BY <2>0, <2>1, <2>6
    <3> QED
      BY <3>1, <3>2
  <2>4. CASE tagIx' = tagIx
    BY <2>1, <2>4, <2>6 DEF BelowCounters, UniqueIndex
  <2>5. CASE tagIx' = Append(tagIx, entry(t))
    <3>1. /\ Len(tagIx') = Len(tagIx) + 1 /\ Len(tagIx) \in Nat
          /\ tagIx'[Len(tagIx) + 1] = entry(t)
          /\ \A i \in 1..Len(tagIx) : tagIx'[i] = tagIx[i]
      BY <2>5 DEF Typed
    <3>2. entry(t).type = type(t) /\ entry(t).ix = next[type(t)]
      OBVIOUS
    <3> HIDE DEF entry, type
    <3>3. BelowCounters'
      <4> SUFFICES ASSUME NEW i \in old + 1..Len(tagIx'), tagIx'[i].type \in KnownTypes
                   PROVE  tagIx'[i].ix < next'[tagIx'[i].type]
        BY <2>1 DEF BelowCounters
      <4>1. CASE i \in old + 1..Len(tagIx)
        BY <2>1, <2>6, <3>1, <4>1
      <4>2. CASE i = Len(tagIx) + 1
        BY <2>3, <3>1, <3>2, <4>2
      <4> QED
        BY <2>1, <3>1, <4>1, <4>2
    <3>4. ASSUME NEW i \in old + 1..Len(tagIx'), NEW j \in old + 1..Len(tagIx'),
                 tagIx'[i].type \in KnownTypes, tagIx'[i].type = tagIx'[j].type,
                 tagIx'[i].ix = tagIx'[j].ix
          PROVE  tagIx'[i].tag = tagIx'[j].tag
      <4>1. CASE i \in old + 1..Len(tagIx) /\ j \in old + 1..Len(tagIx)
        BY <2>1, <3>1, <3>4, <4>1 DEF UniqueIndex
      <4>2. CASE i = Len(tagIx) + 1 /\ j \in old + 1..Len(tagIx)
        BY <2>1, <2>2, <2>3, <2>t, <3>1, <3>2, <3>4, <4>2
      <4>3. CASE i \in old + 1..Len(tagIx) /\ j = Len(tagIx) + 1
        BY <2>1, <2>2, <2>3, <2>t, <3>1, <3>2, <3>4, <4>3
      <4> QED
        BY <2>1, <3>1, <4>1, <4>2, <4>3
    <3> QED
      BY <2>1, <3>3, <3>4 DEF UniqueIndex
  <2> QED
    BY <2>0, <2>4, <2>5
<1>2. CASE NameLine
  BY <1>2, OneLine DEF BelowCounters, UniqueIndex
<1>3. CASE DropTable
  <2>1. old' = Len(tagIx') /\ old' \in Nat /\ pc' = "create"
    BY <1>3 DEF DropTable, Typed
  <2>2. old' + 1..Len(tagIx') = {}
    BY <2>1
  <2>3. UniqueIndex'
    BY <2>2, Zenon DEF UniqueIndex
  <2> QED
    BY <2>1, <2>3 DEF BelowCounters
<1>4. CASE CreateTable
  <2>1. UNCHANGED <<tagIx, old, next>> /\ pc = "create" /\ pc' = "insert"
    BY <1>4 DEF CreateTable
  <2>2. old = Len(tagIx) /\ old \in Nat
    BY <2>1 DEF BelowCounters, Typed
  <2>3. old' + 1..Len(tagIx') = {}
    BY <2>1, <2>2
  <2>4. UniqueIndex'
    BY <2>3, Zenon DEF UniqueIndex
  <2>5. \A i \in old' + 1..Len(tagIx') :
           tagIx'[i].type \in KnownTypes => tagIx'[i].ix < next'[tagIx'[i].type]
    BY <2>3, Zenon
  <2> QED
    BY <2>1, <2>4, <2>5 DEF BelowCounters
<1>5. CASE SelectRows \/ InsertDone \/ Rename \/ Killed
  BY <1>5 DEF SelectRows, InsertDone, Rename, Killed, index, BelowCounters, UniqueIndex
<1>6. CASE Reconfigure \/ StartService \/ CountType \/ CreateDatabase \/ UNCHANGED vars
  BY <1>6 DEF Reconfigure, StartService, CountType, CreateDatabase, vars, build, index,
     BelowCounters, UniqueIndex
<1> QED
  BY <1>1, <1>2, <1>3, <1>4, <1>5, <1>6 DEF Next

\* One build never gives two points of a type the same index, in any order of
\* the rows and whatever is killed or refused.
LEMMA IndicesUnique ==
    ASSUME AllIndexed
    PROVE  Spec => []UniqueIndex
<1>1. Init => Typed /\ BelowCounters /\ UniqueIndex
  BY InitTyped DEF BelowCounters, UniqueIndex
<1>2. Typed /\ BelowCounters /\ UniqueIndex /\ [Next]_vars
        => Typed' /\ BelowCounters' /\ UniqueIndex'
  BY TypedStep, NumberingStep
<1> QED
  BY <1>1, <1>2, PTL DEF Spec

\* A row has the type of its point.
OwnType == \A i \in 1..Len(tagIx) : tagIx[i].type = Norm(TypeOf[tagIx[i].tag])

\* Every step keeps it.
LEMMA OwnTypeStep ==
    ASSUME AllIndexed
    PROVE  Typed /\ OwnType /\ [Next]_vars => OwnType'
<1> SUFFICES ASSUME Typed, OwnType, [Next]_vars
             PROVE  OwnType'
  OBVIOUS
<1>1. CASE InsertRow
  <2> DEFINE entry(t) == [type |-> Norm(TypeOf[t]), ix |-> next[Norm(TypeOf[t])], tag |-> t]
  <2>1. PICK t \in todo : tagIx' = Append(tagIx, entry(t)) \/ tagIx' = tagIx
    BY <1>1 DEF InsertRow, Insert, AllIndexed, Typed
  <2>2. CASE tagIx' = tagIx
    BY <2>2 DEF OwnType
  <2>3. CASE tagIx' = Append(tagIx, entry(t))
    <3>1. /\ Len(tagIx') = Len(tagIx) + 1 /\ Len(tagIx) \in Nat
          /\ tagIx'[Len(tagIx) + 1] = entry(t)
          /\ \A i \in 1..Len(tagIx) : tagIx'[i] = tagIx[i]
      BY <2>3 DEF Typed
    <3> QED
      BY <3>1 DEF OwnType
  <2> QED
    BY <2>1, <2>2, <2>3
<1>2. CASE NameLine
  BY <1>2, OneLine DEF OwnType
<1>3. CASE DropTable
  <2>1. tagIx' = tagIx \/ Len(tagIx') = 0
    BY <1>3 DEF DropTable
  <2> QED
    BY <2>1 DEF OwnType
<1>4. CASE CreateTable \/ Reconfigure \/ SelectRows \/ InsertDone \/ Rename \/ Killed
  BY <1>4 DEF CreateTable, Reconfigure, SelectRows, InsertDone, Rename, Killed, build, index,
     OwnType
<1>5. CASE StartService \/ CountType \/ CreateDatabase \/ UNCHANGED vars
  BY <1>5 DEF StartService, CountType, CreateDatabase, vars, build, index, OwnType
<1> QED
  BY <1>1, <1>2, <1>3, <1>4, <1>5 DEF Next

\* A point's index leads back to the point, whatever build is under way and
\* whatever is killed or refused, except by a row that a refused DROP has left.
THEOREM IndexLeadsBack ==
    ASSUME AllIndexed
    PROVE  Spec => []RoundTrip
<1>1. Init => Typed /\ OwnType
  BY InitTyped DEF OwnType
<1>2. Typed /\ OwnType /\ [Next]_vars => Typed' /\ OwnType'
  BY TypedStep, OwnTypeStep
<1>3. Typed /\ OwnType /\ UniqueIndex => RoundTrip
  <2> SUFFICES ASSUME Typed, OwnType, UniqueIndex, NEW t \in Tag, Indexed(t),
                      NEW i \in 1..Len(tagIx), tagIx[i].tag = t
               PROVE  LET found == dnp3tag(Norm(TypeOf[t]), tagIx[i].ix)
                      IN  /\ t \in found
                          /\ \A u \in found \ {t} :
                                LeftOver(t, tagIx[i].ix) \/ LeftOver(u, tagIx[i].ix)
    BY DEF RoundTrip, dnp3index
  <2>1. tagIx[i].type = Norm(TypeOf[t]) /\ Norm(TypeOf[t]) \in KnownTypes
    BY DEF OwnType, Indexed
  <2>2. ASSUME NEW j \in 1..Len(tagIx), tagIx[j].type = Norm(TypeOf[t]),
               tagIx[j].ix = tagIx[i].ix, tagIx[j].tag # t
        PROVE  LeftOver(t, tagIx[i].ix) \/ LeftOver(tagIx[j].tag, tagIx[i].ix)
    <3>1. old \in Nat /\ Len(tagIx) \in Nat
      BY DEF Typed
    <3>2. CASE i \in 1..old \/ j \in 1..old
      BY <2>2, <3>2 DEF LeftOver
    <3>3. CASE i \in old + 1..Len(tagIx) /\ j \in old + 1..Len(tagIx)
      BY <2>1, <2>2, <3>3 DEF UniqueIndex
    <3> QED
      BY <3>1, <3>2, <3>3
  <2>3. t \in dnp3tag(Norm(TypeOf[t]), tagIx[i].ix)
    BY <2>1 DEF dnp3tag
  <2> QED
    BY <2>2, <2>3 DEF dnp3tag
<1> QED
  BY <1>1, <1>2, <1>3, IndicesUnique, PTL DEF Spec

-----------------------------------------------------------------------------
(***************************************************************************)
(* What a complete build leaves: the table, the file, and the database     *)
(* that is sized from the same rows.                                       *)
(***************************************************************************)

\* No row has come or gone since the SELECT and no statement was refused: the
\* table holds what the build, or the last one, has inserted.
Steady == built /\ pc # "drop"

OfType(c, S) == {t \in S : Norm(TypeOf[t]) = c}

\* An undisturbed build has made the table when it inserts.
HasTable == built => table

\* The file is empty and the counters are at 1 when the table is made, and the
\* INSERTs find one.
Fresh ==
    /\ pc \in {"drop", "create"} => file = << >> /\ next = [c \in KnownTypes |-> 1]
    /\ pc = "drop" /\ built => todo = rows
    /\ pc = "insert" => HasTable

\* The rows that were fetched are in the table, each once, and in the file.
Fetched ==
    Steady =>
        /\ todo \subseteq rows
        /\ pc \notin {"create", "insert"} => todo = {}
        /\ Len(file) = Len(tagIx)
        /\ \A i \in 1..Len(tagIx) : file[i] = tagIx[i]
        /\ {tagIx[i].tag : i \in 1..Len(tagIx)} = rows \ todo
        /\ Len(tagIx) = Cardinality(rows \ todo)

\* The counters say how many rows of a type were fetched, and every index below
\* a counter is in the table.
Numbered ==
    Steady =>
        /\ \A i \in 1..Len(tagIx) : tagIx[i].ix < next[tagIx[i].type]
        /\ \A c \in KnownTypes : next[c] = 1 + Cardinality(OfType(c, rows \ todo))
        /\ \A c \in KnownTypes : \A k \in Nat \ {0} :
              k < next[c] => \E j \in 1..Len(tagIx) : tagIx[j].type = c /\ tagIx[j].ix = k

\* What apiThread has counted fits.
Sized ==
    /\ dbSize \in Nat /\ sized \in 0..6
    /\ counted =>
          \A k \in 1..5 :
              LET n == Cardinality({t \in rows : TypeOf[t] = CountOrder[k]})
              IN  (k <= sized => n <= dbSize) /\ (sized = 6 => n < dbSize)

\* The entry that InsertRow makes for a point of a known type.
RowOf(t) == [type |-> Norm(TypeOf[t]), ix |-> next[Norm(TypeOf[t])], tag |-> t]

\* What InsertRow does when every type is known.
LEMMA OneRow ==
    ASSUME AllIndexed, Typed, Fresh, InsertRow
    PROVE  \E t \in todo :
              /\ t \in Tag /\ Norm(TypeOf[t]) \in KnownTypes /\ RowOf(t) \in Entry
              /\ todo' = todo \ {t}
              /\ next' = [next EXCEPT ![Norm(TypeOf[t])] = @ + 1]
              /\ file' = Append(file, RowOf(t))
              /\ (tagIx' = Append(tagIx, RowOf(t)) /\ built' = built) \/ ~built'
              /\ UNCHANGED <<rows, pc, dbSize, sized, counted>> /\ pc = "insert"
<1>1. PICK t \in todo :
          /\ todo' = todo \ {t}
          /\ next' = [next EXCEPT ![Norm(TypeOf[t])] = @ + 1]
          /\ file' = Append(file, RowOf(t))
          /\ (tagIx' = Append(tagIx, RowOf(t)) /\ built' = built) \/ ~built'
  <2>1. PICK t \in todo :
          LET entry == [type |-> Norm(TypeOf[t]),
                        ix |-> IF Indexed(t) THEN next[Norm(TypeOf[t])] ELSE 0, tag |-> t]
          IN  /\ todo' = todo \ {t}
              /\ next' = Counted(t)
              /\ file' = Append(file, entry)
              /\ \/ tagIx' = Append(tagIx, entry) /\ built' = built
                 \/ ~built'
                 \/ ~table /\ built' = built
    BY DEF InsertRow, Insert
  <2>2. Indexed(t)
    BY DEF AllIndexed, Typed
  <2>3. table \/ ~built
    <3>1. HasTable
      BY DEF Fresh, InsertRow
    <3> QED
      BY <3>1, Zenon DEF HasTable
  <2>4. (IF Indexed(t) THEN next[Norm(TypeOf[t])] ELSE 0) = next[Norm(TypeOf[t])]
    BY <2>2
  <2>5. Counted(t) = [next EXCEPT ![Norm(TypeOf[t])] = @ + 1]
    BY <2>2 DEF Counted
  <2>6. file' = Append(file, RowOf(t))
    BY <2>1, <2>4 DEF RowOf
  <2>7. (tagIx' = Append(tagIx, RowOf(t)) /\ built' = built) \/ ~built'
    BY <2>1, <2>3, <2>4, Zenon DEF RowOf
  <2> QED
    BY <2>1, <2>5, <2>6, <2>7
<1>2. UNCHANGED <<rows, pc, dbSize, sized, counted>> /\ pc = "insert"
  BY DEF InsertRow, Counted, size
<1>3. t \in Tag /\ Norm(TypeOf[t]) \in KnownTypes
  BY DEF Typed, AllIndexed, Indexed
<1>4. RowOf(t) \in Entry
  <2>1. next[Norm(TypeOf[t])] \in Nat
    BY <1>3 DEF Typed
  <2>2. Norm(TypeOf[t]) \in {Norm(TypeOf[u]) : u \in Tag}
    BY <1>3
  <2> QED
    BY <1>3, <2>1, <2>2 DEF Entry, RowOf
<1> QED
  BY <1>1, <1>2, <1>3, <1>4

\* Every step keeps it.
LEMMA FreshStep ==
    Typed /\ Fresh /\ [Next]_vars => Fresh'
<1> SUFFICES ASSUME Typed, Fresh, [Next]_vars
             PROVE  Fresh'
  OBVIOUS
<1>1. CASE SelectRows
  BY <1>1 DEF SelectRows, index, Fresh, HasTable
<1>2. CASE DropTable
  BY <1>2 DEF DropTable, Fresh, HasTable
<1>3. CASE CreateTable
  <2>1. pc' = "insert"
    BY <1>3 DEF CreateTable
  <2>2. HasTable'
    BY <1>3, Zenon DEF CreateTable, HasTable
  <2> QED
    BY <2>1, <2>2 DEF Fresh
<1>4. CASE InsertRow
  <2>1. pc' = "insert" /\ HasTable
    BY <1>4 DEF InsertRow, Fresh
  <2>2. built' => built
    BY <1>4, Zenon DEF InsertRow
  <2>3. table' = table
    BY <1>4 DEF InsertRow
  <2>4. HasTable'
    BY <2>1, <2>2, <2>3, Zenon DEF HasTable
  <2> QED
    BY <2>1, <2>4 DEF Fresh
<1>5. CASE InsertDone \/ NameLine \/ Rename \/ Killed
  BY <1>5 DEF InsertDone, NameLine, Rename, Killed, index, Fresh, HasTable
<1>6. CASE Reconfigure
  BY <1>6 DEF Reconfigure, build, index, Fresh, HasTable
<1>7. CASE StartService \/ CountType \/ CreateDatabase \/ UNCHANGED vars
  BY <1>7 DEF StartService, CountType, CreateDatabase, vars, build, index, Fresh, HasTable
<1> QED
  BY <1>1, <1>2, <1>3, <1>4, <1>5, <1>6, <1>7 DEF Next

\* Every row that is fetched goes to the table and to the file.
LEMMA FetchedStep ==
    ASSUME AllIndexed
    PROVE  Typed /\ Fresh /\ Fetched /\ [Next]_vars => Fetched'
<1> SUFFICES ASSUME Typed, Fresh, Fetched, [Next]_vars, Steady'
             PROVE  Fetched'
  BY DEF Fetched
<1> DEFINE tags == {tagIx[i].tag : i \in 1..Len(tagIx)}
<1>1. CASE InsertRow
  <2>1. PICK t \in todo :
          /\ RowOf(t) \in Entry
          /\ todo' = todo \ {t}
          /\ file' = Append(file, RowOf(t))
          /\ tagIx' = Append(tagIx, RowOf(t)) /\ built
          /\ UNCHANGED <<rows, pc>> /\ pc = "insert"
    BY <1>1, OneRow DEF Steady
  <2>2. /\ todo \subseteq rows /\ tags = rows \ todo
        /\ Len(file) = Len(tagIx) /\ Len(tagIx) = Cardinality(rows \ todo)
        /\ \A i \in 1..Len(tagIx) : file[i] = tagIx[i]
    BY <2>1 DEF Fetched, Steady
  <2>3. /\ Len(tagIx') = Len(tagIx) + 1 /\ Len(tagIx) \in Nat
        /\ tagIx'[Len(tagIx) + 1] = RowOf(t)
        /\ \A i \in 1..Len(tagIx) : tagIx'[i] = tagIx[i]
    BY <2>1 DEF Typed
  <2>4. /\ Len(file') = Len(file) + 1
        /\ file'[Len(file) + 1] = RowOf(t)
        /\ \A i \in 1..Len(file) : file'[i] = file[i]
    BY <2>1 DEF Typed
  <2>5. RowOf(t).tag = t
    BY DEF RowOf
  <2>6. {tagIx'[i].tag : i \in 1..Len(tagIx')} = tags \cup {t}
    BY <2>3, <2>5
  <2>7. rows \ todo' = (rows \ todo) \cup {t} /\ t \notin rows \ todo /\ t \in rows
    BY <2>1, <2>2
  <2>8. Len(tagIx') = Cardinality(rows \ todo')
    <3>1. IsFiniteSet(rows \ todo)
      BY TIAssumption, FS_Subset DEF Typed
    <3>2. Cardinality((rows \ todo) \cup {t}) = Cardinality(rows \ todo) + 1
      BY <2>7, <3>1, FS_AddElement
    <3> QED
      BY <2>2, <2>3, <2>7, <3>2
  <2>9. ASSUME NEW i \in 1..Len(tagIx')
        PROVE  file'[i] = tagIx'[i]
    <3>1. CASE i \in 1..Len(tagIx)
      BY <2>2, <2>3, <2>4, <3>1
    <3>2. CASE i = Len(tagIx) + 1
      BY <2>2, <2>3, <2>4, <3>2
    <3> QED
      BY <2>3, <3>1, <3>2
  <2>10. Len(file') = Len(tagIx')
    BY <2>2, <2>3, <2>4
  <2> QED
    BY <2>1, <2>2, <2>6, <2>7, <2>8, <2>9, <2>10 DEF Fetched, Steady
<1>2. CASE NameLine
  BY <1>2, OneLine DEF Fetched, Steady
<1>3. CASE DropTable
  <2>1. file = << >> /\ todo = rows /\ pc = "drop"
    BY <1>3 DEF DropTable, Fresh, Steady
  <2>2. UNCHANGED <<rows, file, todo>> /\ tagIx' = << >> /\ pc' = "create"
    BY <1>3 DEF DropTable, Steady
  <2>3. rows' \ todo' = {} /\ Cardinality({}) = 0
    BY <2>1, <2>2, FS_EmptySet
  <2>4. Len(tagIx') = 0 /\ Len(file') = 0
    BY <2>1, <2>2
  <2>5. {tagIx'[i].tag : i \in 1..Len(tagIx')} = {}
    BY <2>4
  <2>6. todo' \subseteq rows' /\ pc' = "create"
    BY <2>1, <2>2
  <2>7. \A i \in 1..Len(tagIx') : file'[i] = tagIx'[i]
    BY <2>4
  <2> QED
    BY <2>3, <2>4, <2>5, <2>6, <2>7 DEF Fetched
<1>4. CASE CreateTable \/ InsertDone \/ Rename
  <2>1. UNCHANGED <<rows, file, tagIx, todo>> /\ (built' => built)
    BY <1>4 DEF CreateTable, InsertDone, Rename, index
  <2>2. pc' \notin {"create", "insert"} => todo' = {}
    BY <1>4, <2>1 DEF CreateTable, InsertDone, Rename, Fetched, Steady
  <2>3. pc # "drop"
    BY <1>4 DEF CreateTable, InsertDone, Rename
  <2> QED
    BY <2>1, <2>2, <2>3 DEF Fetched, Steady
<1>5. CASE Reconfigure \/ SelectRows \/ Killed
  BY <1>5 DEF Reconfigure, SelectRows, Killed, Steady
<1>6. CASE StartService \/ CountType \/ CreateDatabase \/ UNCHANGED vars
  BY <1>6 DEF StartService, CountType, CreateDatabase, vars, build, index, Fetched, Steady
<1> QED
  BY <1>1, <1>2, <1>3, <1>4, <1>5, <1>6 DEF Next

\* A row takes the number of its type and moves the counter on by one.
LEMMA NumberedStep ==
    ASSUME AllIndexed
    PROVE  Typed /\ OwnType /\ Fresh /\ Fetched /\ Numbered /\ [Next]_vars => Numbered'
<1> SUFFICES ASSUME Typed, OwnType, Fresh, Fetched, Numbered, [Next]_vars, Steady'
             PROVE  Numbered'
  BY DEF Numbered
<1>0. ASSUME UNCHANGED <<rows, tagIx, todo, next>>, Steady
      PROVE  Numbered'
  <2>1. \A i \in 1..Len(tagIx') : tagIx'[i].ix < next'[tagIx'[i].type]
    BY <1>0 DEF Numbered
  <2>2. \A c \in KnownTypes : next'[c] = 1 + Cardinality(OfType(c, rows' \ todo'))
    BY <1>0 DEF Numbered
  <2>3. \A c \in KnownTypes : \A k \in Nat \ {0} :
          k < next'[c] => \E j \in 1..Len(tagIx') : tagIx'[j].type = c /\ tagIx'[j].ix = k
    BY <1>0 DEF Numbered
  <2> QED
    BY <2>1, <2>2, <2>3 DEF Numbered
<1>1. CASE InsertRow
  <2>1. PICK t \in todo :
          /\ t \in Tag /\ Norm(TypeOf[t]) \in KnownTypes /\ RowOf(t) \in Entry
          /\ todo' = todo \ {t}
          /\ next' = [next EXCEPT ![Norm(TypeOf[t])] = @ + 1]
          /\ tagIx' = Append(tagIx, RowOf(t)) /\ built
          /\ UNCHANGED <<rows, pc>> /\ pc = "insert"
    BY <1>1, OneRow DEF Steady
  <2>2. PICK own \in KnownTypes : own = Norm(TypeOf[t])
    BY <2>1
  <2>3. PICK new \in Entry : new = RowOf(t)
    BY <2>1
  <2>4. new.type = own /\ new.ix = next[own] /\ new.tag = t
    BY <2>2, <2>3 DEF RowOf
  <2>5. /\ todo \subseteq rows
        /\ \A i \in 1..Len(tagIx) : tagIx[i].ix < next[tagIx[i].type]
        /\ \A c \in KnownTypes : next[c] = 1 + Cardinality(OfType(c, rows \ todo))
        /\ \A c \in KnownTypes : \A k \in Nat \ {0} :
              k < next[c] => \E j \in 1..Len(tagIx) : tagIx[j].type = c /\ tagIx[j].ix = k
    BY <2>1 DEF Fetched, Numbered, Steady
  <2>6. /\ Len(tagIx') = Len(tagIx) + 1 /\ Len(tagIx) \in Nat
        /\ tagIx'[Len(tagIx) + 1] = new
        /\ \A i \in 1..Len(tagIx) : tagIx'[i] = tagIx[i]
    BY <2>1, <2>3 DEF Typed
  <2>7. /\ next'[own] = next[own] + 1
        /\ \A c \in KnownTypes : next[c] \in Nat
        /\ \A c \in KnownTypes \ {own} : next'[c] = next[c]
    BY <2>1, <2>2 DEF Typed
  <2>8. ASSUME NEW i \in 1..Len(tagIx')
        PROVE  tagIx'[i].ix < next'[tagIx'[i].type]
    <3>1. CASE i \in 1..Len(tagIx)
      <4>1. tagIx[i].ix \in Nat /\ tagIx[i].type \in KnownTypes
        <5>1. tagIx[i] \in Entry
          BY <3>1, ElementOfSeq DEF Typed
        <5> QED
          BY <5>1 DEF Entry, AllIndexed, Indexed
      <4>2. PICK ix \in Nat, c \in KnownTypes : ix = tagIx[i].ix /\ c = tagIx[i].type
        BY <4>1
      <4>3. ix < next[c] /\ next[c] \in Nat /\ (next'[c] = next[c] \/ next'[c] = next[c] + 1)
        BY <2>5, <2>7, <3>1, <4>2
      <4>4. ix < next'[c]
        BY <4>3
      <4> QED
        BY <2>6, <3>1, <4>2, <4>4
    <3>2. CASE i = Len(tagIx) + 1
      BY <2>4, <2>6, <2>7, <3>2
    <3> QED
      BY <2>6, <3>1, <3>2
  <2>9. ASSUME NEW c \in KnownTypes
        PROVE  next'[c] = 1 + Cardinality(OfType(c, rows' \ todo'))
    <3>1. IsFiniteSet(OfType(c, rows \ todo))
      <4>1. OfType(c, rows \ todo) \in SUBSET Tag
        BY DEF OfType, Typed
      <4> QED
        BY <4>1, TIAssumption, FS_Subset
    <3>2. Cardinality(OfType(c, rows \ todo)) \in Nat
      BY <3>1, FS_CardinalityType
    <3>3. CASE c = own
      <4>1. OfType(c, rows' \ todo') = OfType(c, rows \ todo) \cup {t}
        BY <2>1, <2>2, <2>5, <3>3 DEF OfType
      <4>2. t \notin OfType(c, rows \ todo)
        BY DEF OfType
      <4>3. Cardinality(OfType(c, rows \ todo) \cup {t}) = Cardinality(OfType(c, rows \ todo)) + 1
        BY <3>1, <4>2, FS_AddElement
      <4>4. PICK m \in Nat : m = Cardinality(OfType(c, rows \ todo))
        BY <3>2
      <4>5. Cardinality(OfType(c, rows' \ todo')) = m + 1
        BY <4>1, <4>3, <4>4
      <4>6. next[c] = 1 + m
        BY <2>5, <4>4
      <4>7. next'[c] = next[c] + 1
        BY <2>7, <3>3
      <4> QED
        BY <4>5, <4>6, <4>7
    <3>4. CASE c # own
      <4>1. OfType(c, rows' \ todo') = OfType(c, rows \ todo)
        BY <2>1, <2>2, <2>5, <3>4 DEF OfType
      <4> QED
        BY <2>5, <2>7, <3>4, <4>1
    <3> QED
      BY <3>3, <3>4
  <2>10. ASSUME NEW c \in KnownTypes, NEW k \in Nat \ {0}, k < next'[c]
         PROVE  \E j \in 1..Len(tagIx') : tagIx'[j].type = c /\ tagIx'[j].ix = k
    <3>1. CASE k < next[c]
      <4>1. PICK j \in 1..Len(tagIx) : tagIx[j].type = c /\ tagIx[j].ix = k
        BY <2>5, <3>1
      <4>2. j \in 1..Len(tagIx') /\ tagIx'[j] = tagIx[j]
        BY <2>6
      <4> QED
        BY <4>1, <4>2
    <3>2. CASE ~(k < next[c])
      <4>1. c = own /\ k = next[own]
        BY <2>7, <2>10, <3>2
      <4>2. Len(tagIx) + 1 \in 1..Len(tagIx')
        BY <2>6
      <4> QED
        BY <2>4, <2>6, <4>1, <4>2
    <3> QED
      BY <3>1, <3>2
  <2> QED
    BY <2>8, <2>9, <2>10 DEF Numbered
<1>2. CASE DropTable
  <2>1. /\ todo = rows /\ next = [c \in KnownTypes |-> 1] /\ tagIx' = << >>
        /\ UNCHANGED <<rows, todo, next>>
    BY <1>2 DEF DropTable, Fresh, Steady
  <2>2. ASSUME NEW c \in KnownTypes
        PROVE  OfType(c, rows' \ todo') = {} /\ next'[c] = 1
    BY <2>1 DEF OfType
  <2>3. Cardinality({}) = 0 /\ Len(tagIx') = 0
    BY <2>1, FS_EmptySet
  <2>4. ASSUME NEW c \in KnownTypes
        PROVE  next'[c] = 1 + Cardinality(OfType(c, rows' \ todo'))
    <3>1. Cardinality(OfType(c, rows' \ todo')) = 0
      BY <2>2, <2>3, Zenon
    <3>2. next'[c] = 1
      BY <2>2
    <3> QED
      BY <3>1, <3>2
  <2>5. \A c \in KnownTypes : \A k \in Nat \ {0} : ~(k < next'[c])
    BY <2>2
  <2> QED
    BY <2>3, <2>4, <2>5 DEF Numbered
<1>3. CASE NameLine
  BY <1>0, <1>3, OneLine DEF Steady
<1>4. CASE Rename \/ InsertDone \/ CreateTable
  <2>1. UNCHANGED <<rows, tagIx, todo, next>> /\ (built' => built) /\ pc # "drop"
    BY <1>4 DEF Rename, InsertDone, CreateTable, index
  <2> QED
    BY <1>0, <2>1 DEF Steady
<1>5. CASE Reconfigure \/ SelectRows \/ Killed
  BY <1>5 DEF Reconfigure, SelectRows, Killed, Steady
<1>6. CASE StartService \/ CountType \/ CreateDatabase \/ UNCHANGED vars
  <2>1. UNCHANGED <<rows, tagIx, todo, next, built, pc>>
    BY <1>6 DEF StartService, CountType, CreateDatabase, vars, build, index
  <2> QED
    BY <1>0, <2>1 DEF Steady
<1> QED
  BY <1>1, <1>2, <1>3, <1>4, <1>5, <1>6 DEF Next

\* The counts of apiThread: one type more, or the last index.
LEMMA SizedStep ==
    Typed /\ Sized /\ [Next]_vars => Sized'
<1> SUFFICES ASSUME Typed, Sized, [Next]_vars
             PROVE  Sized'
  OBVIOUS
<1> DEFINE n(k) == Cardinality({t \in rows : TypeOf[t] = CountOrder[k]})
<1>1. \A k \in 1..5 : n(k) \in Nat
  <2> SUFFICES ASSUME NEW k \in 1..5
               PROVE  n(k) \in Nat
    OBVIOUS
  <2>1. {t \in rows : TypeOf[t] = CountOrder[k]} \in SUBSET Tag
    BY DEF Typed
  <2>2. IsFiniteSet({t \in rows : TypeOf[t] = CountOrder[k]})
    BY <2>1, TIAssumption, FS_Subset
  <2> QED
    BY <2>2, FS_CardinalityType
<1>2. /\ dbSize \in Nat /\ sized \in 0..6
      /\ counted => \A k \in 1..5 : (k <= sized => n(k) <= dbSize) /\ (sized = 6 => n(k) < dbSize)
  BY DEF Sized
<1>3. SUFFICES /\ dbSize' \in Nat /\ sized' \in 0..6
               /\ counted' => rows' = rows /\
                     \A k \in 1..5 : (k <= sized' => n(k) <= dbSize')
                                     /\ (sized' = 6 => n(k) < dbSize')
  BY DEF Sized
<1>4. CASE StartService
  BY <1>4, TIAssumption DEF StartService
<1>5. CASE CountType
  <2>1. /\ sized < 5 /\ sized' = sized + 1 /\ UNCHANGED rows
        /\ \/ dbSize' = (IF n(sized + 1) > dbSize THEN n(sized + 1) ELSE dbSize)
              /\ UNCHANGED counted
           \/ UNCHANGED dbSize /\ ~counted'
    BY <1>5 DEF CountType
  <2>2. sized + 1 \in 1..5
    BY <1>2, <2>1
  <2>3. PICK m \in Nat : m = n(sized + 1)
    BY <1>1, <2>2
  <2>4. dbSize' \in Nat /\ dbSize <= dbSize' /\ (counted' => counted /\ m <= dbSize')
    BY <1>2, <2>1, <2>3
  <2>5. ASSUME counted', NEW k \in 1..5
        PROVE  (k <= sized' => n(k) <= dbSize') /\ (sized' = 6 => n(k) < dbSize')
    <3>1. k <= sized' => k <= sized \/ k = sized + 1
      BY <1>2, <2>1
    <3>2. k <= sized => n(k) <= dbSize
      BY <1>2, <2>4, <2>5
    <3>3. k <= sized => n(k) <= dbSize'
      <4>1. PICK q \in Nat : q = n(k)
        BY <1>1
      <4> HIDE DEF n
      <4>2. k <= sized => q <= dbSize
        BY <3>2, <4>1
      <4> QED
        BY <1>2, <2>4, <4>1, <4>2
    <3>4. k = sized + 1 => n(k) <= dbSize'
      BY <2>3, <2>4, <2>5
    <3> QED
      BY <1>2, <2>1, <3>1, <3>3, <3>4
  <2> QED
    BY <1>2, <2>1, <2>4, <2>5
<1>6. CASE CreateDatabase
  <2>1. sized = 5 /\ sized' = 6 /\ dbSize' = dbSize + 1 /\ UNCHANGED <<rows, counted>>
    BY <1>6 DEF CreateDatabase
  <2> HIDE DEF n
  <2>2. ASSUME counted', NEW k \in 1..5
        PROVE  n(k) <= dbSize /\ n(k) \in Nat
    BY <1>1, <1>2, <2>1, <2>2
  <2>3. ASSUME counted', NEW k \in 1..5
        PROVE  n(k) <= dbSize' /\ n(k) < dbSize'
    BY <1>2, <2>1, <2>2, <2>3
  <2> QED
    BY <1>2, <2>1, <2>3
<1>7. CASE Reconfigure
  BY <1>2, <1>7 DEF Reconfigure, size
<1>8. CASE SelectRows \/ DropTable \/ CreateTable \/ InsertRow \/ InsertDone \/ NameLine \/ Rename \/ Killed
           \/ UNCHANGED vars
  <2>1. UNCHANGED <<rows, dbSize, sized, counted>>
    BY <1>8 DEF SelectRows, DropTable, CreateTable, InsertRow, InsertDone, NameLine, Rename,
       Killed, vars, size
  <2> QED
    BY <1>2, <2>1
<1> QED
  BY <1>4, <1>5, <1>6, <1>7, <1>8 DEF Next

TableInv == Typed /\ OwnType /\ Fresh /\ Fetched /\ Numbered /\ Sized

\* The inductive invariant holds, for every rt_status.
LEMMA TableInductive ==
    ASSUME AllIndexed
    PROVE  Spec => []TableInv
<1>1. Init => TableInv
  <2>1. Init => Typed /\ OwnType
    BY InitTyped DEF OwnType
  <2>2. Init => Fresh /\ Fetched /\ Numbered
    BY InitTyped DEF Fresh, Fetched, Numbered, Steady
  <2>3. Init => Sized
    BY InitTyped, TIAssumption DEF Sized
  <2> QED
    BY <2>1, <2>2, <2>3 DEF TableInv
<1>2. TableInv /\ [Next]_vars => TableInv'
  BY TypedStep, OwnTypeStep, FreshStep, FetchedStep, NumberedStep, SizedStep
     DEF TableInv
<1> QED
  BY <1>1, <1>2, PTL DEF Spec

\* A build that was neither killed nor refused gives every point its row and its
\* line, numbered per type from 1 without a gap (dnp3buildConfigs).
THEOREM BuildIsComplete ==
    ASSUME AllIndexed
    PROVE  Spec => []BuildComplete
<1>1. TableInv => BuildComplete
  <2> SUFFICES ASSUME TableInv, Finished
               PROVE  BuildComplete
    BY DEF BuildComplete
  <2>1. Steady /\ pc = "idle"
    BY DEF Finished, Steady
  <2>2. /\ todo = {} /\ Len(file) = Len(tagIx) /\ Len(file) \in Nat
        /\ \A i \in 1..Len(tagIx) : file[i] = tagIx[i]
        /\ {tagIx[i].tag : i \in 1..Len(tagIx)} = rows \ todo
        /\ Len(tagIx) = Cardinality(rows \ todo)
    BY <2>1 DEF TableInv, Typed, Fetched
  <2>3. rows \ todo = rows
    BY <2>2
  <2>4. ASSUME NEW i \in 1..Len(file), NEW k \in 1..Len(file), k < file[i].ix
        PROVE  \E j \in 1..Len(file) : file[j].type = file[i].type /\ file[j].ix = k
    <3>1. tagIx[i] \in Entry /\ file[i] = tagIx[i]
      BY <2>2, ElementOfSeq DEF TableInv, Typed
    <3>2. PICK c \in KnownTypes : c = tagIx[i].type
      BY <3>1 DEF Entry, AllIndexed, Indexed
    <3>3. tagIx[i].ix \in Nat /\ next[c] \in Nat /\ tagIx[i].ix < next[c]
      BY <2>1, <2>2, <3>1, <3>2 DEF Entry, TableInv, Typed, Numbered
    <3>4. k \in Nat \ {0} /\ k < next[c]
      BY <2>4, <3>1, <3>3
    <3>5. PICK j \in 1..Len(tagIx) : tagIx[j].type = c /\ tagIx[j].ix = k
      BY <2>1, <3>4 DEF TableInv, Numbered
    <3> QED
      BY <2>2, <3>1, <3>2, <3>5
  <2>5. {file[i].tag : i \in 1..Len(file)} = rows
    BY <2>2, <2>3
  <2>6. \A i \in 1..Len(tagIx) : tagIx[i] = file[IF i < Len(file) THEN i ELSE Len(file)]
    BY <2>2
  <2> QED
    BY <2>2, <2>3, <2>4, <2>5, <2>6 DEF BuildComplete
<1> QED
  BY <1>1, TableInductive, PTL

\* The points of a type are those that apiThread counts and the engineering ones.
LEMMA TwoKinds ==
    ASSUME Typed, NEW c
    PROVE  LET exact == {t \in rows : TypeOf[t] = c}
           IN  /\ Cardinality(exact) \in Nat /\ Cardinality(Engineering(c)) \in Nat
               /\ Cardinality(OfType(c, rows)) \in Nat
               /\ Cardinality(OfType(c, rows))
                      <= Cardinality(exact) + Cardinality(Engineering(c))
<1> DEFINE exact == {t \in rows : TypeOf[t] = c}
           all   == OfType(c, rows)
<1>1. IsFiniteSet(rows)
  BY TIAssumption, FS_Subset DEF Typed
<1>2. IsFiniteSet(exact) /\ IsFiniteSet(Engineering(c)) /\ IsFiniteSet(all)
  <2>1. exact \subseteq rows /\ Engineering(c) \subseteq rows /\ all \subseteq rows
    BY DEF Engineering, OfType
  <2> HIDE DEF exact, all
  <2> QED
    BY <1>1, <2>1, FS_Subset
<1>3. all \subseteq exact \cup Engineering(c)
  BY DEF Engineering, OfType
<1> HIDE DEF exact, all
<1>4. PICK n, e, a, u, m :
         /\ n = Cardinality(exact) /\ e = Cardinality(Engineering(c)) /\ a = Cardinality(all)
         /\ u = Cardinality(exact \cup Engineering(c))
         /\ m = Cardinality(exact \cap Engineering(c))
  OBVIOUS
<1>5. n \in Nat /\ e \in Nat /\ a \in Nat
  BY <1>2, <1>4, FS_CardinalityType
<1>6. /\ IsFiniteSet(exact \cup Engineering(c)) /\ IsFiniteSet(exact \cap Engineering(c))
      /\ u = n + e - m
  BY <1>2, <1>4, FS_Union, FS_Intersection
<1>7. m \in Nat /\ a <= u
  BY <1>3, <1>4, <1>6, FS_Subset, FS_CardinalityType
<1>8. a <= n + e
  BY <1>5, <1>6, <1>7
<1> QED
  BY <1>4, <1>5, <1>8 DEF exact, all

\* The database that apiThread sizes has the indices of a build of the same rows:
\* the last one of a type is the number of its points, of which apiThread counts
\* all but the engineering ones.
THEOREM DatabaseFits ==
    ASSUME AllIndexed
    PROVE  Spec => []FitsDatabase
<1>1. TableInv => FitsDatabase
  <2> SUFFICES ASSUME TableInv, Finished, sized = 6, counted, NEW i \in 1..Len(tagIx)
               PROVE  tagIx[i].ix < dbSize + Cardinality(Engineering(tagIx[i].type))
    BY DEF FitsDatabase
  <2>1. Steady /\ pc = "idle"
    BY DEF Finished, Steady
  <2>2. tagIx[i] \in Entry
    BY ElementOfSeq DEF TableInv, Typed
  <2>3. PICK c \in KnownTypes : c = tagIx[i].type
    BY <2>2 DEF Entry, AllIndexed, Indexed
  <2>4. \E k \in 1..5 : CountOrder[k] = c
    BY <2>3 DEF CountOrder, KnownTypes
  <2>5. PICK k \in 1..5 : CountOrder[k] = c
    BY <2>4
  <2>6. rows \ todo = rows
    BY <2>1 DEF TableInv, Fetched
  <2>7. PICK n, e, a : /\ n = Cardinality({t \in rows : TypeOf[t] = c})
                      /\ e = Cardinality(Engineering(c)) /\ a = Cardinality(OfType(c, rows))
    OBVIOUS
  <2>8. n \in Nat /\ e \in Nat /\ a \in Nat /\ a <= n + e
    BY <2>7, TwoKinds DEF TableInv
  <2>9. n < dbSize /\ dbSize \in Nat
    BY <2>5, <2>7 DEF TableInv, Sized
  <2>10. tagIx[i].ix < 1 + a /\ tagIx[i].ix \in Nat
    <3>1. tagIx[i].ix < next[c] /\ tagIx[i].ix \in Nat
      BY <2>1, <2>2, <2>3 DEF Entry, TableInv, Numbered
    <3>2. next[c] = 1 + Cardinality(OfType(c, rows \ todo))
      BY <2>1 DEF TableInv, Numbered
    <3>3. next[c] = 1 + a
      BY <2>6, <2>7, <3>2
    <3> QED
      BY <3>1, <3>3
  <2>11. tagIx[i].ix < dbSize + e
    BY <2>8, <2>9, <2>10
  <2> QED
    BY <2>3, <2>7, <2>11
<1> QED
  BY <1>1, TableInductive, PTL
================================================================================
