---------------------------- MODULE StatusFeedProofs ---------------------------
(***************************************************************************)
(* Proofs about StatusFeed: any points, values and changes, any loss, any  *)
(* reset, and a report of one or two parts; with three the listener loses  *)
(* a point.                                                                *)
(***************************************************************************)
EXTENDS StatusFeed, SequenceTheorems, TLAPS

-----------------------------------------------------------------------------
(***************************************************************************)
(* The inductive invariant behind StatusCurrent.  p is what the listener   *)
(* has not handled yet, u the number of parts not sent, rec the parts      *)
(* collected, s the map, old the points as they were reported.             *)
(***************************************************************************)

Pending == IF pc = "store" THEN <<msg>> \o channel ELSE channel

\* infoserver reports every watched point, in at most two parts.
InPart(a, i) == \E j \in 1..Len(Parts[i]) : Parts[i][j] = a

Covered == \A a \in Address : \E i \in 1..Len(Parts) : InPart(a, i)

Short == Len(Parts) <= 2

\* Where the parts of the report are.
Clean(p, rec, u, old) ==
    /\ \A j \in 1..Len(p) :
           /\ p[j].kind = "MORE" => Len(Parts) = 2 /\ p[j] = Part(1, old)
           /\ p[j].kind = "LAST" => u = 0 /\ p[j] = Part(Len(Parts), old)
    /\ \A j \in 1..Len(rec) : Len(Parts) = 2 /\ rec[j] = Part(1, old)

\* Only changes follow, of other points.
OnlyOthers(p, from, a) ==
    \A j \in from..Len(p) : p[j].kind = "STATUS" /\ p[j].points[1].addr # a

\* The part with the point is the last one, or has not been sent, or is among the
\* first n messages, or has been collected.
Coming(p, n, rec, u, a, old) ==
    \E i \in 1..Len(Parts) :
        /\ InPart(a, i)
        /\ \/ i = Len(Parts)
           \/ i > Len(Parts) - u
           \/ \E j \in 1..n : p[j] = Part(i, old)
           \/ \E j \in 1..Len(rec) : rec[j] = Part(i, old)

InMap(p, s, a, v) == OnlyOthers(p, 1, a) /\ s[a] = v

InNews(p, a, v) ==
    \E i \in 1..Len(p) :
        /\ p[i].kind = "STATUS" /\ p[i].points[1] = [addr |-> a, val |-> v]
        /\ OnlyOthers(p, i + 1, a)

InReport(p, rec, a, old) ==
    \E k \in 1..Len(p) :
        /\ p[k].kind = "LAST" /\ \A j \in 1..(k - 1) : p[j].kind # "LAST"
        /\ OnlyOthers(p, k + 1, a)
        /\ Coming(p, k - 1, rec, 0, a, old)

\* When all this is handled, the map says v of the point.
Owed(p, rec, u, s, old, a, v) ==
    \/ u = 0 /\ InMap(p, s, a, v)
    \/ u = 0 /\ InNews(p, a, v)
    \/ u = 0 /\ v = old[a] /\ InReport(p, rec, a, old)
    \/ u > 0 /\ v = old[a] /\ Coming(p, Len(p), rec, u, a, old)

Wanted(a) == IF a \in behind THEN reported[a] ELSE value[a]

FeedInv ==
    /\ Clean(Pending, recv, unsent, reported)
    /\ watched => \A a \in Address :
           a \notin behind \/ lost = 0 => Owed(Pending, recv, unsent, status, reported, a, Wanted(a))

-----------------------------------------------------------------------------
\* What the proofs need of the constants.
LEMMA Constants ==
    /\ Parts \in Seq(Seq(Address)) /\ Len(Parts) \in Nat /\ Len(Parts) > 0
    /\ \A i \in 1..Len(Parts) : Parts[i] \in Seq(Address) /\ Len(Parts[i]) \in Nat
    /\ MaxChanges \in Nat /\ MaxLost \in Nat /\ MaxResets \in Nat
<1>1. Parts \in Seq(Seq(Address)) /\ Len(Parts) > 0 /\ MaxChanges \in Nat /\ MaxLost \in Nat /\ MaxResets \in Nat
  BY SFAssumption
<1>2. Len(Parts) \in Nat /\ \A i \in 1..Len(Parts) : Parts[i] \in Seq(Address)
  BY <1>1, ElementOfSeq, LenProperties
<1>3. \A i \in 1..Len(Parts) : Len(Parts[i]) \in Nat
  BY <1>2, LenProperties
<1> QED
  BY <1>1, <1>2, <1>3

\* A part of the report is a message, and what it holds.
LEMMA PartIs ==
    ASSUME NEW i \in 1..Len(Parts), NEW old
    PROVE  /\ Part(i, old).kind = (IF i < Len(Parts) THEN "MORE" ELSE "LAST")
           /\ DOMAIN Part(i, old).points = 1..Len(Parts[i])
           /\ \A j \in 1..Len(Parts[i]) :
                  Part(i, old).points[j] = [addr |-> Parts[i][j], val |-> old[Parts[i][j]]]
  BY DEF Part

LEMMA PartTyped ==
    ASSUME NEW i \in 1..Len(Parts), NEW old \in [Address -> Value]
    PROVE  Part(i, old) \in Message
<1> DEFINE part == Parts[i]
           points == [j \in 1..Len(part) |-> [addr |-> part[j], val |-> old[part[j]]]]
<1>1. part \in Seq(Address) /\ Len(part) \in Nat
  BY Constants
<1>2. \A j \in 1..Len(part) : part[j] \in Address
  BY <1>1, ElementOfSeq
<1>3. points \in [1..Len(part) -> Point]
  BY <1>2 DEF Point
<1> HIDE DEF points
<1>4. points \in Seq(Point)
  BY <1>1, <1>3
<1>5. Part(i, old) = [kind |-> IF i < Len(Parts) THEN "MORE" ELSE "LAST", points |-> points]
  BY DEF Part, points
<1> QED
  BY <1>4, <1>5 DEF Message, Kinds

-----------------------------------------------------------------------------
(***************************************************************************)
(* Messages on their way.                                                  *)
(***************************************************************************)

Shift(q, p) ==
    /\ Len(p) \in Nat /\ Len(p) > 0 /\ Len(q) = Len(p) - 1
    /\ \A i \in 1..Len(q) : q[i] = p[i + 1]

\* The place of a message in what is left.
LEMMA Shifted ==
    ASSUME NEW p, NEW q, Shift(q, p)
    PROVE  \A i \in 2..Len(p) : i - 1 \in 1..Len(q) /\ q[i - 1] = p[i]
<1> SUFFICES ASSUME NEW i \in 2..Len(p)
             PROVE  i - 1 \in 1..Len(q) /\ q[i - 1] = p[i]
  OBVIOUS
<1>1. i - 1 \in 1..Len(q) /\ (i - 1) + 1 = i
  BY DEF Shift
<1> QED
  BY <1>1 DEF Shift

\* Only others follow in what is left, too.
LEMMA OthersLeft ==
    ASSUME NEW p, NEW q, Shift(q, p), NEW a, NEW from \in Nat, from > 0, OnlyOthers(p, from + 1, a)
    PROVE  OnlyOthers(q, from, a)
<1>1. ASSUME NEW j \in from..Len(q)
      PROVE  q[j].kind = "STATUS" /\ q[j].points[1].addr # a
  <2>1. j \in 1..Len(q) /\ j + 1 \in (from + 1)..Len(p)
    BY DEF Shift
  <2>2. q[j] = p[j + 1]
    BY <2>1 DEF Shift
  <2> QED
    BY <2>1, <2>2 DEF OnlyOthers
<1> QED
  BY <1>1 DEF OnlyOthers

\* The first message is taken: the part with the point may have been the first.
LEMMA ComingLeft ==
    ASSUME NEW p, NEW q, Shift(q, p), NEW n \in Nat, n > 0, n <= Len(p), NEW rec, NEW rec2, NEW u \in Nat, NEW a, NEW old,
           Coming(p, n, rec, u, a, old),
           \A i \in 1..Len(Parts) : i # Len(Parts) /\ p[1] = Part(i, old) =>
               \E j \in 1..Len(rec2) : rec2[j] = Part(i, old),
           \A j \in 1..Len(rec) : \E k \in 1..Len(rec2) : rec2[k] = rec[j]
    PROVE  Coming(q, n - 1, rec2, u, a, old)
<1>1. PICK i \in 1..Len(Parts) :
        /\ InPart(a, i)
        /\ \/ i = Len(Parts)
           \/ i > Len(Parts) - u
           \/ \E j \in 1..n : p[j] = Part(i, old)
           \/ \E j \in 1..Len(rec) : rec[j] = Part(i, old)
  BY DEF Coming
<1>2. ASSUME NEW j \in 1..n, p[j] = Part(i, old), i # Len(Parts)
      PROVE  \/ \E k \in 1..(n - 1) : q[k] = Part(i, old)
             \/ \E k \in 1..Len(rec2) : rec2[k] = Part(i, old)
  <2>1. CASE j = 1
    BY <1>2, <2>1
  <2>2. CASE j # 1
    <3>1. j \in 2..Len(p) /\ j - 1 \in 1..(n - 1)
      BY <2>2 DEF Shift
    <3>2. q[j - 1] = p[j]
      BY <3>1, Shifted
    <3> QED
      BY <1>2, <3>1, <3>2
  <2> QED
    BY <2>1, <2>2
<1>3. ASSUME NEW j \in 1..Len(rec), rec[j] = Part(i, old)
      PROVE  \E k \in 1..Len(rec2) : rec2[k] = Part(i, old)
  BY <1>3
<1>4. \/ i = Len(Parts)
      \/ i > Len(Parts) - u
      \/ \E k \in 1..(n - 1) : q[k] = Part(i, old)
      \/ \E k \in 1..Len(rec2) : rec2[k] = Part(i, old)
  BY <1>1, <1>2, <1>3
<1> QED
  BY <1>1, <1>4 DEF Coming

\* What the listener does with the first message: to the map, of one point, and to
\* the parts collected.
Handles(m, p, rec, rec2, s, s2, a, old) ==
    /\ m.kind \in Kinds
    /\ m.kind = "ACK" => s2[a] = s[a] /\ rec2 = rec
    /\ m.kind = "STATUS" => /\ s2[a] = (IF m.points[1].addr = a THEN m.points[1].val ELSE s[a])
                            /\ rec2 = rec
    /\ m.kind = "MORE" => /\ s2[a] = s[a]
                          /\ \E j \in 1..Len(rec2) : rec2[j] = m
                          /\ \A j \in 1..Len(rec) : \E k \in 1..Len(rec2) : rec2[k] = rec[j]
    /\ m.kind = "LAST" => (Coming(p, 0, rec, 0, a, old) => s2[a] = old[a])

\* It is taken: what is owed is still owed, or is in the map now.
LEMMA OwedLeft ==
    ASSUME NEW p, NEW q, Shift(q, p), NEW rec, NEW rec2, NEW s, NEW s2, NEW u \in Nat, NEW old, NEW a, NEW v,
           Clean(p, rec, u, old), Handles(p[1], p, rec, rec2, s, s2, a, old),
           Owed(p, rec, u, s, old, a, v)
    PROVE  Owed(q, rec2, u, s2, old, a, v)
<1>1. Len(p) \in Nat /\ Len(p) > 0 /\ Len(q) = Len(p) - 1 /\ 1 \in 1..Len(p)
  BY DEF Shift
<1>2. /\ \A i \in 1..Len(Parts) : p[1].kind # "LAST" /\ i # Len(Parts) /\ p[1] = Part(i, old) =>
              \E j \in 1..Len(rec2) : rec2[j] = Part(i, old)
      /\ p[1].kind # "LAST" => \A j \in 1..Len(rec) : \E k \in 1..Len(rec2) : rec2[k] = rec[j]
  <2>1. ASSUME NEW i \in 1..Len(Parts), i # Len(Parts), p[1] = Part(i, old)
        PROVE  p[1].kind = "MORE"
    <3>1. i < Len(Parts)
      BY <2>1, Constants
    <3> QED
      BY <2>1, <3>1, PartIs
  <2> QED
    BY <2>1 DEF Handles, Kinds
<1>3. CASE u = 0 /\ InMap(p, s, a, v)
  <2>1. p[1].kind = "STATUS" /\ p[1].points[1].addr # a /\ OnlyOthers(p, 1 + 1, a)
    BY <1>1, <1>3 DEF InMap, OnlyOthers
  <2>2. OnlyOthers(q, 1, a)
    BY <2>1, OthersLeft
  <2>3. s2[a] = v
    BY <1>3, <2>1 DEF Handles, InMap
  <2> QED
    BY <1>3, <2>2, <2>3 DEF Owed, InMap
<1>4. CASE u = 0 /\ InNews(p, a, v)
  <2>1. PICK i \in 1..Len(p) :
          /\ p[i].kind = "STATUS" /\ p[i].points[1] = [addr |-> a, val |-> v]
          /\ OnlyOthers(p, i + 1, a)
    BY <1>4 DEF InNews
  <2>2. OnlyOthers(q, i, a)
    BY <2>1, OthersLeft
  <2>3. CASE i = 1
    <3>1. s2[a] = v
      BY <2>1, <2>3 DEF Handles
    <3> QED
      BY <1>4, <2>2, <2>3, <3>1 DEF Owed, InMap
  <2>4. CASE i # 1
    <3>1. i \in 2..Len(p)
      BY <2>4
    <3>2. i - 1 \in 1..Len(q) /\ q[i - 1] = p[i] /\ (i - 1) + 1 = i
      BY <3>1, Shifted
    <3>3. InNews(q, a, v)
      BY <2>1, <2>2, <3>2 DEF InNews
    <3> QED
      BY <1>4, <3>3 DEF Owed
  <2> QED
    BY <2>3, <2>4
<1>5. CASE u = 0 /\ v = old[a] /\ InReport(p, rec, a, old)
  <2>1. PICK k \in 1..Len(p) :
          /\ p[k].kind = "LAST" /\ \A j \in 1..(k - 1) : p[j].kind # "LAST"
          /\ OnlyOthers(p, k + 1, a)
          /\ Coming(p, k - 1, rec, 0, a, old)
    BY <1>5 DEF InReport
  <2>2. OnlyOthers(q, k, a)
    BY <2>1, OthersLeft
  <2>3. CASE k = 1
    <3>1. s2[a] = v
      BY <1>5, <2>1, <2>3 DEF Handles
    <3> QED
      BY <1>5, <2>2, <2>3, <3>1 DEF Owed, InMap
  <2>4. CASE k # 1
    <3>1. k \in 2..Len(p) /\ 1 \in 1..(k - 1) /\ k - 1 \in Nat /\ k - 1 > 0 /\ k - 1 <= Len(p)
      BY <1>1, <2>4
    <3>2. k - 1 \in 1..Len(q) /\ q[k - 1] = p[k] /\ (k - 1) + 1 = k
      BY <3>1, Shifted
    <3>3. Coming(q, (k - 1) - 1, rec2, 0, a, old)
      <4>1. p[1].kind # "LAST"
        BY <2>1, <3>1
      <4>2. /\ \A i \in 1..Len(Parts) : i # Len(Parts) /\ p[1] = Part(i, old) =>
                    \E j \in 1..Len(rec2) : rec2[j] = Part(i, old)
            /\ \A j \in 1..Len(rec) : \E l \in 1..Len(rec2) : rec2[l] = rec[j]
        BY <1>2, <4>1
      <4>3. PICK n \in Nat : n = k - 1
        BY <3>1
      <4>4. Coming(p, n, rec, 0, a, old) /\ n > 0 /\ n <= Len(p) /\ 0 \in Nat
        BY <2>1, <3>1, <4>3
      <4>5. Coming(q, n - 1, rec2, 0, a, old)
        BY <4>2, <4>4, ComingLeft
      <4> QED
        BY <4>3, <4>5
    <3>4. ASSUME NEW j \in 1..((k - 1) - 1)
          PROVE  q[j].kind # "LAST"
      <4>1. j \in 1..Len(q) /\ j + 1 \in 1..(k - 1)
        BY <1>1, <3>1
      <4>2. q[j] = p[j + 1]
        BY <4>1 DEF Shift
      <4> QED
        BY <2>1, <4>1, <4>2
    <3>5. InReport(q, rec2, a, old)
      BY <2>1, <2>2, <3>2, <3>3, <3>4 DEF InReport
    <3> QED
      BY <1>5, <3>5 DEF Owed
  <2> QED
    BY <2>3, <2>4
<1>6. CASE u > 0 /\ v = old[a] /\ Coming(p, Len(p), rec, u, a, old)
  <2>1. p[1].kind # "LAST"
    BY <1>1, <1>6 DEF Clean
  <2>2. Coming(q, Len(p) - 1, rec2, u, a, old)
    BY <1>1, <1>2, <1>6, <2>1, ComingLeft
  <2> QED
    BY <1>1, <1>6, <2>2 DEF Owed
<1> QED
  BY <1>3, <1>4, <1>5, <1>6 DEF Owed

\* What is where is still so when the first message is taken.
LEMMA CleanLeft ==
    ASSUME NEW p, NEW q, Shift(q, p), NEW rec, NEW rec2, NEW u, NEW old, Clean(p, rec, u, old),
           \A j \in 1..Len(rec2) :
               (\E k \in 1..Len(rec) : rec2[j] = rec[k]) \/ (rec2[j] = p[1] /\ p[1].kind = "MORE")
    PROVE  Clean(q, rec2, u, old)
<1>1. \A j \in 1..Len(q) : j + 1 \in 1..Len(p) /\ q[j] = p[j + 1]
  BY DEF Shift
<1>2. 1 \in 1..Len(p)
  BY DEF Shift
<1> QED
  BY <1>1, <1>2 DEF Clean

\* A message is put behind the others.
Longer(q, p, m) ==
    /\ Len(p) \in Nat /\ Len(q) = Len(p) + 1 /\ q[Len(p) + 1] = m
    /\ \A i \in 1..Len(p) : q[i] = p[i]

LEMMA OthersMore ==
    ASSUME NEW p, NEW q, NEW m, Longer(q, p, m), NEW a, NEW from \in Nat, from > 0,
           OnlyOthers(p, from, a), m.kind = "STATUS", m.points[1].addr # a
    PROVE  OnlyOthers(q, from, a)
<1>1. ASSUME NEW j \in from..Len(q)
      PROVE  q[j].kind = "STATUS" /\ q[j].points[1].addr # a
  <2>1. j = Len(p) + 1 \/ (j \in from..Len(p) /\ j \in 1..Len(p))
    BY DEF Longer
  <2> QED
    BY <2>1 DEF Longer, OnlyOthers
<1> QED
  BY <1>1 DEF OnlyOthers

LEMMA ComingMore ==
    ASSUME NEW p, NEW q, NEW m, Longer(q, p, m), NEW n \in Nat, n <= Len(p), NEW n2 \in Nat, n <= n2,
           NEW rec, NEW u, NEW a, NEW old, Coming(p, n, rec, u, a, old)
    PROVE  Coming(q, n2, rec, u, a, old)
<1>1. \A j \in 1..n : j \in 1..n2 /\ j \in 1..Len(p)
  BY DEF Longer
<1>2. \A j \in 1..n : q[j] = p[j]
  BY <1>1 DEF Longer
<1> QED
  BY <1>1, <1>2 DEF Coming

\* A change of another point, or one that comes before the report is complete.
LEMMA OwedMore ==
    ASSUME NEW p, NEW q, NEW m, Longer(q, p, m), NEW rec, NEW s, NEW u \in Nat, NEW old, NEW a, NEW v,
           Owed(p, rec, u, s, old, a, v), m.kind = "STATUS", u > 0 \/ m.points[1].addr # a
    PROVE  Owed(q, rec, u, s, old, a, v)
<1>1. Len(p) \in Nat /\ Len(q) = Len(p) + 1
  BY DEF Longer
<1>2. CASE u = 0 /\ InMap(p, s, a, v)
  <2>1. OnlyOthers(q, 1, a)
    BY <1>2, OthersMore DEF InMap
  <2> QED
    BY <1>2, <2>1 DEF Owed, InMap
<1>3. CASE u = 0 /\ InNews(p, a, v)
  <2>1. PICK i \in 1..Len(p) :
          /\ p[i].kind = "STATUS" /\ p[i].points[1] = [addr |-> a, val |-> v]
          /\ OnlyOthers(p, i + 1, a)
    BY <1>3 DEF InNews
  <2>2. i \in 1..Len(q) /\ q[i] = p[i] /\ i + 1 \in Nat /\ i + 1 > 0
    BY <1>1 DEF Longer
  <2>3. OnlyOthers(q, i + 1, a)
    BY <1>3, <2>1, <2>2, OthersMore
  <2>4. InNews(q, a, v)
    BY <2>1, <2>2, <2>3 DEF InNews
  <2> QED
    BY <1>3, <2>4 DEF Owed
<1>4. CASE u = 0 /\ v = old[a] /\ InReport(p, rec, a, old)
  <2>1. PICK k \in 1..Len(p) :
          /\ p[k].kind = "LAST" /\ \A j \in 1..(k - 1) : p[j].kind # "LAST"
          /\ OnlyOthers(p, k + 1, a)
          /\ Coming(p, k - 1, rec, 0, a, old)
    BY <1>4 DEF InReport
  <2>2. k \in 1..Len(q) /\ q[k] = p[k] /\ k + 1 \in Nat /\ k + 1 > 0 /\ k - 1 \in Nat /\ k - 1 <= Len(p)
    BY <1>1 DEF Longer
  <2>3. OnlyOthers(q, k + 1, a)
    BY <1>4, <2>1, <2>2, OthersMore
  <2>4. \A j \in 1..(k - 1) : q[j] = p[j]
    <3>1. \A j \in 1..(k - 1) : j \in 1..Len(p)
      BY <1>1
    <3> QED
      BY <3>1 DEF Longer
  <2>5. Coming(q, k - 1, rec, 0, a, old)
    BY <2>1, <2>2, ComingMore
  <2>6. InReport(q, rec, a, old)
    BY <2>1, <2>2, <2>3, <2>4, <2>5 DEF InReport
  <2> QED
    BY <1>4, <2>6 DEF Owed
<1>5. CASE u > 0 /\ v = old[a] /\ Coming(p, Len(p), rec, u, a, old)
  <2>1. Coming(q, Len(q), rec, u, a, old)
    BY <1>1, <1>5, ComingMore
  <2> QED
    BY <1>5, <2>1 DEF Owed
<1> QED
  BY <1>2, <1>3, <1>4, <1>5 DEF Owed

\* A change of the point, when the report is complete.
LEMMA OwedNews ==
    ASSUME NEW p, NEW q, NEW m, Longer(q, p, m), NEW rec, NEW s, NEW old, NEW a, NEW v,
           m.kind = "STATUS", m.points[1] = [addr |-> a, val |-> v]
    PROVE  Owed(q, rec, 0, s, old, a, v)
<1>1. Len(q) \in 1..Len(q) /\ q[Len(q)] = m /\ \A j \in (Len(q) + 1)..Len(q) : FALSE
  BY DEF Longer
<1>2. InNews(q, a, v)
  BY <1>1 DEF InNews, OnlyOthers
<1> QED
  BY <1>2 DEF Owed

\* The next part of the report.
LEMMA OwedPart ==
    ASSUME NEW p, NEW q, NEW u \in 1..Len(Parts), NEW old, Longer(q, p, Part(Len(Parts) - u + 1, old)),
           NEW rec, NEW s, NEW a, NEW v,
           Clean(p, rec, u, old), Owed(p, rec, u, s, old, a, v)
    PROVE  Owed(q, rec, u - 1, s, old, a, v)
<1>1. Len(p) \in Nat /\ Len(q) = Len(p) + 1 /\ Len(Parts) \in Nat /\ u \in Nat /\ u > 0 /\ 1 \in 1..Len(q)
  BY Constants DEF Longer
<1>2. PICK n \in 1..Len(Parts) : n = Len(Parts) - u + 1
  BY <1>1
<1>3. v = old[a] /\ Coming(p, Len(p), rec, u, a, old)
  BY <1>1 DEF Owed
<1>4. PICK i \in 1..Len(Parts) :
        /\ InPart(a, i)
        /\ \/ i = Len(Parts)
           \/ i > Len(Parts) - u
           \/ \E j \in 1..Len(p) : p[j] = Part(i, old)
           \/ \E j \in 1..Len(rec) : rec[j] = Part(i, old)
  BY <1>3 DEF Coming
<1>5. \A j \in 1..Len(p) : q[j] = p[j] /\ j \in 1..Len(q) /\ j \in 1..(Len(q) - 1)
  BY <1>1 DEF Longer
<1>6. q[Len(q)] = Part(n, old) /\ Len(q) \in 1..Len(q)
  BY <1>1, <1>2 DEF Longer
<1>7. CASE u = 1
  <2>1. n = Len(Parts) /\ u - 1 = 0
    BY <1>1, <1>2, <1>7
  <2>2. q[Len(q)].kind = "LAST"
    BY <1>1, <1>6, <2>1, PartIs
  <2>3. \A j \in 1..(Len(q) - 1) : q[j].kind # "LAST"
    <3>1. \A j \in 1..(Len(q) - 1) : j \in 1..Len(p)
      BY <1>1
    <3>2. \A j \in 1..Len(p) : p[j].kind # "LAST"
      BY <1>7 DEF Clean
    <3> QED
      BY <1>5, <3>1, <3>2
  <2>4. Coming(q, Len(q) - 1, rec, 0, a, old)
    <3>1. i > Len(Parts) - u => i = Len(Parts)
      BY <1>1, <1>7
    <3> QED
      BY <1>4, <1>5, <3>1 DEF Coming
  <2>5. \A j \in (Len(q) + 1)..Len(q) : FALSE
    BY <1>1
  <2>6. InReport(q, rec, a, old)
    BY <1>6, <2>2, <2>3, <2>4, <2>5 DEF InReport, OnlyOthers
  <2> QED
    BY <1>3, <2>1, <2>6 DEF Owed
<1>8. CASE u # 1
  <2>1. u - 1 > 0
    BY <1>1, <1>8
  <2>2. i > Len(Parts) - u => i = n \/ i > Len(Parts) - (u - 1)
    BY <1>1, <1>2
  <2>3. Coming(q, Len(q), rec, u - 1, a, old)
    BY <1>4, <1>5, <1>6, <2>2 DEF Coming
  <2> QED
    BY <1>3, <2>1, <2>3 DEF Owed
<1> QED
  BY <1>7, <1>8

\* A part that is lost: of the points it does not hold, if it is not the last one.
LEMMA OwedLoss ==
    ASSUME NEW p, Len(p) \in Nat, NEW u \in 2..Len(Parts), NEW old, NEW rec, NEW s, NEW a, NEW v,
           ~InPart(a, Len(Parts) - u + 1), Owed(p, rec, u, s, old, a, v)
    PROVE  Owed(p, rec, u - 1, s, old, a, v)
<1>1. Len(Parts) \in Nat /\ u \in Nat /\ u > 0 /\ u - 1 > 0
  BY Constants
<1>2. v = old[a] /\ Coming(p, Len(p), rec, u, a, old)
  BY <1>1 DEF Owed
<1>3. PICK i \in 1..Len(Parts) :
        /\ InPart(a, i)
        /\ \/ i = Len(Parts)
           \/ i > Len(Parts) - u
           \/ \E j \in 1..Len(p) : p[j] = Part(i, old)
           \/ \E j \in 1..Len(rec) : rec[j] = Part(i, old)
  BY <1>2 DEF Coming
<1>4. i # Len(Parts) - u + 1
  BY <1>3
<1>5. i > Len(Parts) - u => i > Len(Parts) - (u - 1)
  BY <1>1, <1>4
<1>6. Coming(p, Len(p), rec, u - 1, a, old)
  BY <1>3, <1>5 DEF Coming
<1> QED
  BY <1>1, <1>2, <1>6 DEF Owed

-----------------------------------------------------------------------------
(***************************************************************************)
(* The report is complete.                                                 *)
(***************************************************************************)

\* What is read from the parts collected.
LEMMA ReadableIs ==
    ASSUME NEW parts
    PROVE  /\ \A p \in Readable(parts) : \E i \in DOMAIN parts : \E j \in DOMAIN parts[i].points :
                  p = parts[i].points[j]
           /\ \A i \in DOMAIN parts : \A j \in DOMAIN parts[i].points :
                  ~Prefixed(parts, i) => parts[i].points[j] \in Readable(parts)
<1> DEFINE K == {k \in UNION {{i} \X DOMAIN parts[i].points : i \in DOMAIN parts} :
                    ~(Prefixed(parts, k[1]) /\ k[2] = 1)}
<1>1. Readable(parts) = {parts[k[1]].points[k[2]] : k \in K}
  BY DEF Readable
<1>2. ASSUME NEW k \in K
      PROVE  k[1] \in DOMAIN parts /\ k[2] \in DOMAIN parts[k[1]].points
  <2>1. PICK i \in DOMAIN parts : k \in {i} \X DOMAIN parts[i].points
    OBVIOUS
  <2> QED
    BY <2>1
<1>3. ASSUME NEW i \in DOMAIN parts, NEW j \in DOMAIN parts[i].points, ~Prefixed(parts, i)
      PROVE  <<i, j>> \in K
  <2>1. <<i, j>> \in {i} \X DOMAIN parts[i].points
    OBVIOUS
  <2>2. <<i, j>>[1] = i
    OBVIOUS
  <2> QED
    BY <1>3, <2>1, <2>2
<1> HIDE DEF K
<1>4. ASSUME NEW p \in Readable(parts)
      PROVE  \E i \in DOMAIN parts : \E j \in DOMAIN parts[i].points : p = parts[i].points[j]
  BY <1>1, <1>2
<1>5. ASSUME NEW i \in DOMAIN parts, NEW j \in DOMAIN parts[i].points, ~Prefixed(parts, i)
      PROVE  parts[i].points[j] \in Readable(parts)
  <2>1. <<i, j>> \in K /\ <<i, j>>[1] = i /\ <<i, j>>[2] = j
    BY <1>3, <1>5
  <2> QED
    BY <1>1, <2>1
<1> QED
  BY <1>4, <1>5

\* The last part: the map has what was reported of each point whose part came.
LEMMA AllRead ==
    ASSUME NEW p, NEW rec \in Seq(Message), NEW u, NEW m \in Message, NEW old \in [Address -> Value],
           Clean(p, rec, u, old), m = Part(Len(Parts), old),
           NEW a \in Address, Coming(p, 0, rec, 0, a, old)
    PROVE  Stored(Readable(Append(rec, m)))[a] = old[a]
<1> DEFINE parts == Append(rec, m)
<1>1. /\ Len(rec) \in Nat /\ parts \in Seq(Message) /\ Len(parts) = Len(rec) + 1 /\ parts[Len(rec) + 1] = m
      /\ \A j \in 1..Len(rec) : parts[j] = rec[j]
  BY AppendProperties, LenProperties
<1>2. /\ Len(Parts) \in Nat /\ Len(Parts) > 0 /\ Len(Parts) \in 1..Len(Parts)
      /\ DOMAIN parts = 1..(Len(rec) + 1)
  BY <1>1, Constants, LenProperties
<1> HIDE DEF parts
<1>3. ASSUME NEW i \in DOMAIN parts
      PROVE  \E k \in 1..Len(Parts) : parts[i] = Part(k, old)
  <2>1. CASE i = Len(rec) + 1
    BY <1>1, <1>2, <2>1
  <2>2. CASE i # Len(rec) + 1
    <3>1. i \in 1..Len(rec) /\ parts[i] = rec[i]
      BY <1>1, <1>2, <2>2
    <3>2. rec[i] = Part(1, old) /\ 1 \in 1..Len(Parts)
      BY <1>2, <3>1 DEF Clean
    <3> QED
      BY <3>1, <3>2
  <2> QED
    BY <2>1, <2>2
<1>4. ASSUME NEW r \in Readable(parts)
      PROVE  r.val = old[r.addr]
  <2>1. PICK i \in DOMAIN parts : \E j \in DOMAIN parts[i].points : r = parts[i].points[j]
    BY ReadableIs
  <2>2. PICK k \in 1..Len(Parts) : parts[i] = Part(k, old)
    BY <1>3
  <2>3. PICK j \in DOMAIN Part(k, old).points : r = Part(k, old).points[j]
    BY <2>1, <2>2
  <2>4. j \in 1..Len(Parts[k]) /\ r = [addr |-> Parts[k][j], val |-> old[Parts[k][j]]]
    BY <2>3, PartIs
  <2> QED
    BY <2>4
<1>5. \E i \in DOMAIN parts, k \in 1..Len(Parts) : ~Prefixed(parts, i) /\ parts[i] = Part(k, old) /\ InPart(a, k)
  <2>1. PICK k \in 1..Len(Parts) :
          /\ InPart(a, k)
          /\ \/ k = Len(Parts)
             \/ k > Len(Parts) - 0
             \/ \E j \in 1..0 : p[j] = Part(k, old)
             \/ \E j \in 1..Len(rec) : rec[j] = Part(k, old)
    BY DEF Coming
  <2>2. CASE k = Len(Parts)
    <3>1. m.kind = "LAST"
      BY <1>2, PartIs
    <3>2. ~Prefixed(parts, Len(rec) + 1) /\ Len(rec) + 1 \in DOMAIN parts
      BY <1>1, <1>2, <3>1 DEF Prefixed
    <3> QED
      BY <1>1, <2>1, <2>2, <3>2
  <2>3. CASE k # Len(Parts)
    <3>1. \E j \in 1..Len(rec) : rec[j] = Part(k, old)
      BY <1>2, <2>1, <2>3
    <3>2. Part(1, old) = Part(k, old) /\ 1 \in 1..Len(rec)
      BY <1>1, <3>1 DEF Clean
    <3>3. rec[1] = Part(1, old)
      BY <3>2 DEF Clean
    <3>4. parts[1] = Part(k, old) /\ 1 \in DOMAIN parts /\ ~Prefixed(parts, 1)
      BY <1>1, <1>2, <3>2, <3>3 DEF Prefixed
    <3> QED
      BY <2>1, <3>4
  <2> QED
    BY <2>2, <2>3
<1>6. \E r \in Readable(parts) : r.addr = a
  <2>1. PICK i \in DOMAIN parts, k \in 1..Len(Parts) :
          ~Prefixed(parts, i) /\ parts[i] = Part(k, old) /\ InPart(a, k)
    BY <1>5
  <2>2. PICK j \in 1..Len(Parts[k]) : Parts[k][j] = a
    BY <2>1 DEF InPart
  <2>3. j \in DOMAIN parts[i].points /\ parts[i].points[j] = [addr |-> Parts[k][j], val |-> old[Parts[k][j]]]
    BY <2>1, PartIs
  <2>4. parts[i].points[j] \in Readable(parts)
    BY <2>1, <2>3, ReadableIs
  <2> QED
    BY <2>2, <2>3, <2>4
<1> DEFINE r == CHOOSE x \in Readable(parts) : x.addr = a
<1>7. r \in Readable(parts) /\ r.addr = a
  BY <1>6
<1>8. Stored(Readable(parts))[a] = r.val
  BY <1>6 DEF Stored
<1> HIDE DEF r
<1>9. Stored(Readable(parts))[a] = old[a]
  BY <1>4, <1>7, <1>8
<1> QED
  BY <1>9 DEF parts

-----------------------------------------------------------------------------
(***************************************************************************)
(* What the argument needs of the types, and of the order of the stages.   *)
(***************************************************************************)

StageInv ==
    /\ pc = "store" => msg \in Message
    /\ ~started => ~watched /\ channel = <<>> /\ pc = "read" /\ recv = <<>> /\ unsent = 0

Typed ==
    /\ value \in [Address -> Value] /\ reported \in [Address -> Value]
    /\ unsent \in 0..Len(Parts) /\ lost \in Nat
    /\ channel \in Seq(Message)
    /\ pc \in {"read", "store"}
    /\ recv \in Seq(Message)
    /\ status = [a \in Address |-> status[a]]
    /\ StageInv

\* The messages that infoserver sends besides the report.
LEMMA Sent ==
    /\ [kind |-> "ACK", points |-> <<>>] \in Message
    /\ \A a \in Address, v \in Value : [kind |-> "STATUS", points |-> <<[addr |-> a, val |-> v]>>] \in Message
<1>1. <<>> \in Seq(Point)
  BY EmptySeq
<1>2. ASSUME NEW a \in Address, NEW v \in Value
      PROVE  <<[addr |-> a, val |-> v]>> \in Seq(Point)
  <2>1. [addr |-> a, val |-> v] \in Point
    BY DEF Point
  <2> QED
    BY <2>1
<1> QED
  BY <1>1, <1>2 DEF Message, Kinds

\* The first message is taken from the socket.
LEMMA Taken ==
    ASSUME Typed, channel # <<>>
    PROVE  /\ Head(channel) \in Message /\ Tail(channel) \in Seq(Message)
           /\ Head(channel) = channel[1] /\ Len(channel) > 0
           /\ Shift(Tail(channel), channel)
  BY HeadTailProperties, LenProperties, EmptySeq DEF Typed, Shift

\* Every step keeps the types.
LEMMA TypedStep == Typed /\ [Next]_vars => Typed'
<1> SUFFICES ASSUME Typed, [Next]_vars
             PROVE  Typed'
  OBVIOUS
<1>0. <<>> \in Seq(Message) /\ Len(Parts) \in Nat
  BY EmptySeq, Constants
<1>1. ASSUME NEW m \in Message, channel' = Append(channel, m) \/ channel' = channel
      PROVE  channel' \in Seq(Message)
  <2>1. channel \in Seq(Message)
    BY DEF Typed
  <2> QED
    BY <1>1, <2>1, AppendProperties
<1>2. ASSUME NEW a \in Address, NEW v \in Value, Change(a, v)
      PROVE  Typed'
  <2>1. /\ channel' = Append(channel, [kind |-> "STATUS", points |-> <<[addr |-> a, val |-> v]>>])
           \/ channel' = channel
        /\ ~watched => channel' = channel
        /\ lost' = lost \/ lost' = lost + 1
        /\ value' = [value EXCEPT ![a] = v]
        /\ UNCHANGED <<reported, unsent, started, watched, pc, msg, recv, status>>
    BY <1>2 DEF Change, Delivered, Lost, Astray, socket, listener
  <2>2. channel' \in Seq(Message)
    BY <1>1, <2>1, Sent
  <2> QED
    BY <2>1, <2>2 DEF Typed, StageInv
<1>3. CASE ResetSocket
  BY <1>0, <1>3 DEF ResetSocket, Typed, StageInv, server, listener
<1>4. CASE Register
  <2>1. /\ channel' = Append(channel, [kind |-> "ACK", points |-> <<>>]) \/ channel' = channel
        /\ lost' = lost \/ lost' = lost + 1
        /\ started' = TRUE /\ reported' = value /\ unsent' = Len(Parts)
        /\ UNCHANGED <<value, pc, msg, recv, status>>
    BY <1>4 DEF Register, Delivered, Lost, listener
  <2>2. channel' \in Seq(Message)
    BY <1>1, <2>1, Sent
  <2> QED
    BY <1>0, <2>1, <2>2 DEF Typed, StageInv
<1>5. CASE SendPart
  <2>1. /\ unsent > 0 /\ unsent' = unsent - 1
        /\ channel' = Append(channel, Part(Len(Parts) - unsent + 1, reported)) \/ channel' = channel
        /\ ~watched => channel' = channel
        /\ lost' = lost \/ lost' = lost + 1
        /\ UNCHANGED <<value, reported, started, watched, pc, msg, recv, status>>
    BY <1>5 DEF SendPart, Delivered, Lost, Astray, socket, listener
  <2>2. Len(Parts) - unsent + 1 \in 1..Len(Parts) /\ unsent' \in 0..Len(Parts)
    BY <1>0, <2>1 DEF Typed
  <2>3. Part(Len(Parts) - unsent + 1, reported) \in Message
    BY <2>2, PartTyped DEF Typed
  <2>4. channel' \in Seq(Message)
    BY <1>1, <2>1, <2>3
  <2>5. started
    BY <2>1 DEF Typed, StageInv
  <2> QED
    BY <2>1, <2>2, <2>4, <2>5 DEF Typed, StageInv
<1>6. CASE Receive
  <2>1. /\ msg' = Head(channel) /\ channel' = Tail(channel)
        /\ msg' \in Message /\ channel' \in Seq(Message)
    BY <1>6, Taken DEF Receive
  <2>2. pc' \in {"read", "store"} /\ started
    BY <1>6 DEF Receive, Typed, StageInv
  <2> QED
    BY <1>6, <2>1, <2>2 DEF Receive, Typed, StageInv, server, socket
<1>7. CASE StoreOne \/ Collect \/ StoreAll
  <2>1. /\ pc = "store" /\ pc' = "read" /\ UNCHANGED <<value, reported, unsent, lost, started, watched, channel>>
        /\ status' = status \/ \E points : status' = Stored(points)
    BY <1>7 DEF StoreOne, Collect, StoreAll, server, socket
  <2>2. status' = [a \in Address |-> status'[a]]
    BY <2>1 DEF Stored, Typed
  <2>3. Append(recv, msg) \in Seq(Message)
    BY <2>1, AppendProperties DEF Typed, StageInv
  <2>4. recv' \in Seq(Message)
    BY <1>0, <1>7, <2>3 DEF StoreOne, Collect, StoreAll, Typed
  <2> QED
    BY <2>1, <2>2, <2>4 DEF Typed, StageInv
<1>8. CASE TakeChanges
  BY <1>8 DEF TakeChanges, Typed, StageInv, server, socket, listener
<1>9. CASE UNCHANGED vars
  BY <1>9 DEF vars, Typed, StageInv, server, socket, listener
<1> QED
  BY <1>2, <1>3, <1>4, <1>5, <1>6, <1>7, <1>8, <1>9 DEF Next, Listener

-----------------------------------------------------------------------------
(***************************************************************************)
(* Every step keeps the invariant.                                         *)
(***************************************************************************)

\* Putting the message that is handled before the others.
LEMMA Before ==
    ASSUME NEW m \in Message, NEW s \in Seq(Message)
    PROVE  /\ <<m>> \o s \in Seq(Message)
           /\ Shift(s, <<m>> \o s) /\ (<<m>> \o s)[1] = m
<1>1. <<m>> \in Seq(Message) /\ Len(<<m>>) = 1 /\ <<m>>[1] = m
  OBVIOUS
<1>2. Len(s) \in Nat
  BY LenProperties
<1>3. /\ <<m>> \o s \in Seq(Message)
      /\ Len(<<m>> \o s) = 1 + Len(s)
      /\ \A i \in 1..1 + Len(s) : (<<m>> \o s)[i] = IF i <= 1 THEN <<m>>[i] ELSE s[i - 1]
  BY <1>1, ConcatProperties
<1> DEFINE t == <<m>> \o s
<1> HIDE DEF t
<1>4. t \in Seq(Message) /\ Len(t) = 1 + Len(s) /\ \A i \in 1..1 + Len(s) : t[i] = IF i <= 1 THEN m ELSE s[i - 1]
  BY <1>1, <1>3 DEF t
<1>5. t[1] = m
  BY <1>2, <1>4
<1>6. ASSUME NEW i \in 1..Len(s)
      PROVE  s[i] = t[i + 1]
  <2>1. i + 1 \in 1..1 + Len(s) /\ ~(i + 1 <= 1) /\ (i + 1) - 1 = i
    BY <1>2
  <2> QED
    BY <1>4, <2>1
<1>7. Shift(s, t)
  BY <1>2, <1>4, <1>6 DEF Shift
<1> QED
  BY <1>4, <1>5, <1>7 DEF t

\* Without the first message and with it again.
LEMMA Again ==
    ASSUME NEW s \in Seq(Message), s # <<>>
    PROVE  <<Head(s)>> \o Tail(s) = s
<1>1. /\ Head(s) \in Message /\ Tail(s) \in Seq(Message) /\ Len(s) \in Nat /\ Len(s) > 0
      /\ Head(s) = s[1] /\ Shift(Tail(s), s)
  BY HeadTailProperties, LenProperties, EmptySeq DEF Shift
<1>2. PICK t : t = <<Head(s)>> \o Tail(s)
  OBVIOUS
<1>3. t \in Seq(Message) /\ Shift(Tail(s), t) /\ t[1] = s[1]
  BY <1>1, <1>2, Before
<1>4. Len(t) = Len(s)
  BY <1>1, <1>3 DEF Shift
<1>5. ASSUME NEW i \in 1..Len(s)
      PROVE  t[i] = s[i]
  <2>1. i = 1 \/ i \in 2..Len(s)
    BY <1>1
  <2> QED
    BY <1>1, <1>3, <1>4, <2>1, Shifted
<1> QED
  BY <1>2, <1>3, <1>4, <1>5, SeqEqual

\* The first of the pending messages has been handled.
LEMMA LeftStep ==
    ASSUME Typed, FeedInv, NEW p, NEW q, p = Pending, q = Pending', Shift(q, p),
           UNCHANGED <<value, reported, unsent, behind, lost, watched>>,
           \A a \in Address : Handles(p[1], p, recv, recv', status, status', a, reported),
           \A j \in 1..Len(recv') :
               (\E k \in 1..Len(recv) : recv'[j] = recv[k]) \/ (recv'[j] = p[1] /\ p[1].kind = "MORE")
    PROVE  FeedInv'
<1>1. PICK old, u, rec, rec2, s, s2 :
        old = reported /\ u = unsent /\ rec = recv /\ rec2 = recv' /\ s = status /\ s2 = status'
  OBVIOUS
<1>2. Clean(p, rec, u, old) /\ u \in Nat
  BY <1>1, Constants DEF FeedInv, Typed
<1>3. Clean(q, rec2, u, old)
  BY <1>1, <1>2, CleanLeft
<1>4. ASSUME watched', NEW a \in Address, a \notin behind' \/ lost' = 0
      PROVE  Owed(q, rec2, u, s2, old, a, Wanted(a)')
  <2>1. PICK v : v = Wanted(a) /\ v = Wanted(a)'
    BY DEF Wanted
  <2>2. Owed(p, rec, u, s, old, a, v)
    BY <1>1, <1>4, <2>1 DEF FeedInv
  <2>3. Handles(p[1], p, rec, rec2, s, s2, a, old)
    BY <1>1
  <2>4. Owed(q, rec2, u, s2, old, a, v)
    BY <1>2, <2>2, <2>3, OwedLeft
  <2> QED
    BY <2>1, <2>4
<1> QED
  BY <1>1, <1>3, <1>4 DEF FeedInv

\* The listener has dealt with a message: one that is left of the pending ones.
LEMMA Handled ==
    ASSUME Typed, pc = "store", pc' = "read", channel' = channel
    PROVE  Shift(Pending', Pending) /\ Pending[1] = msg
<1>1. msg \in Message /\ channel \in Seq(Message)
  BY DEF Typed, StageInv
<1>2. Pending = <<msg>> \o channel /\ Pending' = channel
  BY DEF Pending
<1> QED
  BY <1>1, <1>2, Before

\* A change is stored.
LEMMA StoreOneStep == ASSUME Typed, FeedInv, StoreOne PROVE FeedInv'
<1>1. /\ pc = "store" /\ pc' = "read" /\ msg.kind = "STATUS" /\ status' = Stored({msg.points[1]})
      /\ UNCHANGED <<value, reported, unsent, behind, lost, watched, channel, recv>>
  BY DEF StoreOne, server, socket
<1>2. PICK p, q : p = Pending /\ q = Pending' /\ Shift(q, p) /\ p[1] = msg
  BY <1>1, Handled
<1>3. ASSUME NEW a \in Address
      PROVE  status'[a] = IF msg.points[1].addr = a THEN msg.points[1].val ELSE status[a]
  <2>1. CASE msg.points[1].addr = a
    <3>1. (CHOOSE x \in {msg.points[1]} : x.addr = a) = msg.points[1]
      BY <2>1
    <3> QED
      BY <1>1, <2>1, <3>1 DEF Stored
  <2>2. CASE msg.points[1].addr # a
    BY <1>1, <2>2 DEF Stored
  <2> QED
    BY <2>1, <2>2
<1>4. \A a \in Address : Handles(p[1], p, recv, recv', status, status', a, reported)
  BY <1>1, <1>2, <1>3 DEF Handles, Kinds
<1>5. \A j \in 1..Len(recv') : \E k \in 1..Len(recv) : recv'[j] = recv[k]
  BY <1>1
<1> QED
  BY <1>1, <1>2, <1>4, <1>5, LeftStep

\* A part of the report that is not the last one is collected.
LEMMA CollectStep == ASSUME Typed, FeedInv, Collect PROVE FeedInv'
<1>1. /\ pc = "store" /\ pc' = "read" /\ msg.kind = "MORE" /\ recv' = Append(recv, msg)
      /\ UNCHANGED <<value, reported, unsent, behind, lost, watched, channel, status>>
  BY DEF Collect, server, socket
<1>2. PICK p, q : p = Pending /\ q = Pending' /\ Shift(q, p) /\ p[1] = msg
  BY <1>1, Handled
<1>3. /\ Len(recv) \in Nat /\ Len(recv') = Len(recv) + 1 /\ recv'[Len(recv) + 1] = msg
      /\ \A i \in 1..Len(recv) : recv'[i] = recv[i]
  BY <1>1, AppendProperties, LenProperties DEF Typed, StageInv
<1>4. Len(recv) + 1 \in 1..Len(recv') /\ \A i \in 1..Len(recv) : i \in 1..Len(recv')
  BY <1>3
<1>5. \A a \in Address : Handles(p[1], p, recv, recv', status, status', a, reported)
  BY <1>1, <1>2, <1>3, <1>4 DEF Handles, Kinds
<1>6. \A j \in 1..Len(recv') : j = Len(recv) + 1 \/ j \in 1..Len(recv)
  BY <1>3
<1>7. \A j \in 1..Len(recv') :
          (\E k \in 1..Len(recv) : recv'[j] = recv[k]) \/ (recv'[j] = p[1] /\ p[1].kind = "MORE")
  BY <1>1, <1>2, <1>3, <1>6
<1> QED
  BY <1>1, <1>2, <1>5, <1>7, LeftStep

\* The last part: the map shows the points as they were reported.
LEMMA StoreAllStep == ASSUME Typed, FeedInv, StoreAll PROVE FeedInv'
<1>1. /\ pc = "store" /\ pc' = "read" /\ msg.kind = "LAST" /\ recv' = <<>>
      /\ status' = Stored(Readable(Append(recv, msg)))
      /\ UNCHANGED <<value, reported, unsent, behind, lost, watched, channel>>
  BY DEF StoreAll, server, socket
<1>2. PICK p, q : p = Pending /\ q = Pending' /\ Shift(q, p) /\ p[1] = msg
  BY <1>1, Handled
<1>3. Clean(p, recv, unsent, reported) /\ 1 \in 1..Len(p)
  BY <1>2 DEF FeedInv, Shift
<1>4. msg = Part(Len(Parts), reported)
  BY <1>1, <1>2, <1>3 DEF Clean
<1>5. ASSUME NEW a \in Address, Coming(p, 0, recv, 0, a, reported)
      PROVE  status'[a] = reported[a]
  <2>1. msg \in Message /\ recv \in Seq(Message) /\ reported \in [Address -> Value]
    BY <1>1 DEF Typed, StageInv
  <2> QED
    BY <1>1, <1>3, <1>4, <1>5, <2>1, AllRead
<1>6. \A a \in Address : Handles(p[1], p, recv, recv', status, status', a, reported)
  BY <1>1, <1>2, <1>5 DEF Handles, Kinds
<1>7. \A j \in 1..Len(recv') : FALSE
  BY <1>1, EmptySeq
<1> QED
  BY <1>1, <1>2, <1>6, <1>7, LeftStep

\* Nothing that matters changes.
LEMMA SameStep ==
    ASSUME FeedInv, Pending' = Pending, UNCHANGED <<value, reported, unsent, behind, lost, watched, recv, status>>
    PROVE  FeedInv'
<1>1. \A a \in Address : Wanted(a)' = Wanted(a)
  BY DEF Wanted
<1> QED
  BY <1>1 DEF FeedInv

\* A message is taken from the socket; an ACK is passed over.
LEMMA ReceiveStep == ASSUME Typed, FeedInv, Receive PROVE FeedInv'
<1>1. /\ pc = "read" /\ channel # <<>> /\ msg' = Head(channel) /\ channel' = Tail(channel)
      /\ pc' = (IF msg'.kind = "ACK" THEN "read" ELSE "store")
      /\ UNCHANGED <<value, reported, unsent, behind, lost, watched, recv, status>>
  BY DEF Receive, server, socket
<1>2. CASE msg'.kind = "ACK"
  <2>1. PICK p, q : p = Pending /\ q = Pending' /\ Shift(q, p) /\ p[1].kind = "ACK"
    BY <1>1, <1>2, Taken DEF Pending
  <2>2. \A a \in Address : Handles(p[1], p, recv, recv', status, status', a, reported)
    BY <1>1, <2>1 DEF Handles, Kinds
  <2>3. \A j \in 1..Len(recv') : \E k \in 1..Len(recv) : recv'[j] = recv[k]
    BY <1>1
  <2> QED
    BY <1>1, <2>1, <2>2, <2>3, LeftStep
<1>3. CASE msg'.kind # "ACK"
  <2>1. <<Head(channel)>> \o Tail(channel) = channel
    BY <1>1, Again DEF Typed
  <2>2. Pending' = Pending
    BY <1>1, <1>3, <2>1 DEF Pending
  <2> QED
    BY <1>1, <2>2, SameStep
<1> QED
  BY <1>2, <1>3

\* A message that gets to the socket is behind the pending ones.
LEMMA Behind ==
    ASSUME Typed, NEW m \in Message, channel' = Append(channel, m), UNCHANGED <<pc, msg>>
    PROVE  Longer(Pending', Pending, m)
<1>1. channel \in Seq(Message) /\ (pc = "store" => <<msg>> \in Seq(Message) /\ msg \in Message)
  BY DEF Typed, StageInv
<1>2. Pending \in Seq(Message) /\ Pending' = Append(Pending, m)
  <2>1. CASE pc = "store"
    <3>1. <<msg>> \o Append(channel, m) = Append(<<msg>> \o channel, m)
      <4>1. /\ channel \o <<m>> = Append(channel, m) /\ <<m>> \in Seq(Message)
            /\ (<<msg>> \o channel) \o <<m>> = Append(<<msg>> \o channel, m)
        BY <1>1, <2>1, Before, AppendIsConcat
      <4> QED
        BY <1>1, <2>1, <4>1, ConcatAssociative
    <3> QED
      BY <1>1, <2>1, <3>1, Before DEF Pending
  <2>2. CASE pc # "store"
    BY <1>1, <2>2 DEF Pending
  <2> QED
    BY <2>1, <2>2
<1> QED
  BY <1>2, AppendProperties, LenProperties DEF Longer

\* What is where is still so with one message more.
LEMMA CleanMore ==
    ASSUME NEW p, NEW q, NEW m, Longer(q, p, m), NEW rec, NEW u, NEW u2, NEW old, Clean(p, rec, u, old),
           u2 = u \/ u # 0,
           m.kind = "MORE" => Len(Parts) = 2 /\ m = Part(1, old),
           m.kind = "LAST" => u2 = 0 /\ m = Part(Len(Parts), old)
    PROVE  Clean(q, rec, u2, old)
<1>1. \A j \in 1..Len(q) : j = Len(p) + 1 \/ j \in 1..Len(p)
  BY DEF Longer
<1> QED
  BY <1>1 DEF Longer, Clean

\* A point changes.
LEMMA ChangeStep ==
    ASSUME Typed, FeedInv, NEW b \in Address, NEW v \in Value, Change(b, v)
    PROVE  FeedInv'
<1>1. PICK m \in Message : m = [kind |-> "STATUS", points |-> <<[addr |-> b, val |-> v]>>]
  BY Sent
<1>2. m.kind = "STATUS" /\ m.points[1] = [addr |-> b, val |-> v]
  BY <1>1
<1>3. /\ value' = [value EXCEPT ![b] = v] /\ value \in [Address -> Value]
      /\ UNCHANGED <<reported, unsent, watched, pc, msg, recv, status>>
      /\ unsent \in Nat /\ lost \in Nat
  BY Constants DEF Change, Typed, socket, listener
<1>4. \/ watched /\ channel' = Append(channel, m) /\ lost' = lost
         /\ behind' = (IF unsent > 0 THEN behind \cup {b} ELSE behind \ {b})
      \/ watched /\ channel' = channel /\ lost' = lost + 1 /\ behind' = behind \cup {b}
      \/ ~watched /\ channel' = channel
  BY <1>1 DEF Change, Delivered, Lost, Astray
<1>5. \A a \in Address : a # b => value'[a] = value[a]
  BY <1>3
<1>6. PICK p, q, u, old : p = Pending /\ q = Pending' /\ u = unsent /\ old = reported
  OBVIOUS
<1>7. CASE channel' = channel
  <2>1. q = p
    BY <1>3, <1>6, <1>7 DEF Pending
  <2>2. Clean(q, recv', unsent', reported')
    BY <1>3, <1>6, <2>1 DEF FeedInv
  <2>3. ASSUME watched', NEW a \in Address, a \notin behind' \/ lost' = 0
        PROVE  Owed(q, recv', unsent', status', reported', a, Wanted(a)')
    <3>1. CASE channel' = Append(channel, m)
      <4>1. Len(channel') = Len(channel) + 1 /\ Len(channel) \in Nat
        BY <3>1, AppendProperties, LenProperties DEF Typed
      <4> QED
        BY <1>7, <4>1
    <3>2. CASE watched /\ lost' = lost + 1 /\ behind' = behind \cup {b}
      <4>1. a \notin behind' /\ a # b /\ a \notin behind
        BY <1>3, <2>3, <3>2
      <4>2. Wanted(a)' = Wanted(a)
        BY <1>5, <4>1 DEF Wanted
      <4> QED
        BY <1>3, <1>6, <2>1, <3>2, <4>1, <4>2 DEF FeedInv
    <3> QED
      BY <1>3, <1>4, <2>3, <3>1, <3>2
  <2> QED
    BY <1>6, <2>2, <2>3 DEF FeedInv
<1>8. CASE /\ watched /\ channel' = Append(channel, m) /\ lost' = lost
           /\ behind' = (IF unsent > 0 THEN behind \cup {b} ELSE behind \ {b})
  <2>1. Longer(q, p, m)
    BY <1>3, <1>6, <1>8, Behind
  <2>2. Clean(q, recv, u, old)
    BY <1>2, <1>6, <2>1, CleanMore DEF FeedInv
  <2>3. ASSUME NEW a \in Address, a \notin behind' \/ lost = 0
        PROVE  Owed(q, recv, u, status, old, a, Wanted(a)')
    <3>1. CASE a = b /\ unsent = 0
      <4>1. Wanted(a)' = v
        BY <1>3, <1>8, <3>1 DEF Wanted
      <4>2. Owed(q, recv, 0, status, old, a, v)
        BY <1>2, <2>1, <3>1, OwedNews
      <4> QED
        BY <1>6, <3>1, <4>1, <4>2
    <3>2. CASE a = b /\ unsent > 0
      <4>1. Wanted(a)' = reported[a] /\ lost = 0
        BY <1>3, <1>8, <2>3, <3>2 DEF Wanted
      <4>2. Owed(p, recv, u, status, old, a, Wanted(a))
        BY <1>6, <1>8, <4>1 DEF FeedInv
      <4>3. Wanted(a) = old[a]
        BY <1>3, <1>6, <3>2, <4>2 DEF Owed
      <4>4. PICK w : w = old[a]
        OBVIOUS
      <4>5. Owed(p, recv, u, status, old, a, w) /\ u > 0 /\ u \in Nat
        BY <1>3, <1>6, <3>2, <4>2, <4>3, <4>4
      <4>6. Owed(q, recv, u, status, old, a, w)
        BY <1>2, <2>1, <4>5, OwedMore
      <4> QED
        BY <1>6, <4>1, <4>4, <4>6
    <3>3. CASE a # b
      <4>1. (a \in behind' <=> a \in behind) /\ Wanted(a)' = Wanted(a)
        BY <1>3, <1>5, <1>8, <3>3 DEF Wanted
      <4>2. PICK w : w = Wanted(a)
        OBVIOUS
      <4>3. Owed(p, recv, u, status, old, a, w) /\ u \in Nat /\ m.points[1].addr # a
        BY <1>2, <1>3, <1>6, <1>8, <2>3, <3>3, <4>1, <4>2 DEF FeedInv
      <4>4. Owed(q, recv, u, status, old, a, w)
        BY <1>2, <2>1, <4>3, OwedMore
      <4> QED
        BY <4>1, <4>2, <4>4
    <3> QED
      BY <1>3, <3>1, <3>2, <3>3
  <2> QED
    BY <1>3, <1>6, <1>8, <2>2, <2>3 DEF FeedInv
<1> QED
  BY <1>4, <1>7, <1>8

\* A part of the report is sent.
LEMMA SendPartStep ==
    ASSUME Short, Typed, FeedInv, SendPart
    PROVE  FeedInv'
<1>1. PICK p, q, u, old : p = Pending /\ q = Pending' /\ u = unsent /\ old = reported
  OBVIOUS
<1>2. PICK n : n = Len(Parts) - u + 1
  OBVIOUS
<1>3. /\ u > 0 /\ unsent' = u - 1
      /\ UNCHANGED <<value, reported, watched, pc, msg, recv, status>>
      /\ \/ watched /\ channel' = Append(channel, Part(n, old)) /\ UNCHANGED <<lost, behind>>
         \/ watched /\ lost' = lost + 1 /\ UNCHANGED channel /\ behind' = behind \cup Reports(n)
         \/ ~watched /\ UNCHANGED <<channel, lost, behind>>
  BY <1>1, <1>2 DEF SendPart, Delivered, Lost, Astray, socket, listener
<1>4. /\ u \in 1..Len(Parts) /\ n \in 1..Len(Parts) /\ u \in Nat /\ Len(Parts) \in Nat /\ Len(Parts) <= 2
      /\ u - 1 \in Nat /\ lost \in Nat /\ (n = Len(Parts) <=> u = 1) /\ (n # Len(Parts) => n = 1 /\ Len(Parts) = 2)
  <2>1. u \in 0..Len(Parts) /\ Len(Parts) \in Nat /\ Len(Parts) <= 2 /\ lost \in Nat
    BY <1>1, Constants DEF Typed, Short
  <2>2. u > 0
    BY <1>3
  <2>3. PICK k \in Nat : k = Len(Parts)
    BY <2>1
  <2>4. u \in 1..k /\ k <= 2 /\ n = k - u + 1
    BY <1>2, <2>1, <2>2, <2>3
  <2>5. n \in 1..k /\ u \in Nat /\ u - 1 \in Nat
    BY <2>3, <2>4
  <2>6. (n = k => u = 1) /\ (u = 1 => n = k) /\ (n # k => n = 1 /\ k = 2)
    BY <2>3, <2>4
  <2> QED
    BY <2>1, <2>3, <2>4, <2>5, <2>6
<1>5. Clean(p, recv, u, old)
  BY <1>1 DEF FeedInv
<1>6. CASE watched /\ channel' = Append(channel, Part(n, old)) /\ UNCHANGED <<lost, behind>>
  <2>1. Part(n, old) \in Message
    BY <1>1, <1>4, PartTyped DEF Typed
  <2>2. Longer(q, p, Part(n, old))
    BY <1>1, <1>3, <1>6, <2>1, Behind
  <2>3. Clean(q, recv, u - 1, old)
    <3>1. /\ Part(n, old).kind = "MORE" => Len(Parts) = 2 /\ Part(n, old) = Part(1, old)
          /\ Part(n, old).kind = "LAST" => u - 1 = 0 /\ Part(n, old) = Part(Len(Parts), old)
      BY <1>4, PartIs
    <3> QED
      BY <1>4, <1>5, <2>2, <3>1, CleanMore
  <2>4. ASSUME NEW a \in Address, a \notin behind \/ lost = 0
        PROVE  Owed(q, recv, u - 1, status, old, a, Wanted(a)')
    <3>1. PICK v : v = Wanted(a) /\ v = Wanted(a)'
      BY <1>3, <1>6 DEF Wanted
    <3>2. Owed(p, recv, u, status, old, a, v)
      BY <1>1, <1>6, <2>4, <3>1 DEF FeedInv
    <3>3. Longer(q, p, Part(Len(Parts) - u + 1, old))
      BY <1>2, <2>2
    <3>4. Owed(q, recv, u - 1, status, old, a, v)
      BY <1>4, <1>5, <3>2, <3>3, OwedPart
    <3> QED
      BY <3>1, <3>4
  <2> QED
    BY <1>1, <1>3, <1>6, <2>3, <2>4 DEF FeedInv
<1>7. CASE UNCHANGED channel /\ ((watched /\ lost' = lost + 1 /\ behind' = behind \cup Reports(n)) \/ ~watched)
  <2>1. q = p /\ Len(p) \in Nat
    <3>1. q = p
      BY <1>1, <1>3, <1>7 DEF Pending
    <3>2. Len(channel) \in Nat /\ (pc = "store" => Len(<<msg>> \o channel) \in Nat)
      BY Before, LenProperties DEF Typed, StageInv
    <3> QED
      BY <1>1, <3>1, <3>2 DEF Pending
  <2>2. Clean(q, recv, u - 1, old)
    BY <1>4, <1>5, <2>1 DEF Clean
  <2>3. ASSUME watched, NEW a \in Address, a \notin behind' \/ lost' = 0
        PROVE  Owed(q, recv, u - 1, status, old, a, Wanted(a)')
    <3>1. a \notin behind /\ a \notin Reports(n)
      BY <1>4, <1>7, <2>3
    <3>2. n # Len(Parts) /\ ~InPart(a, n)
      BY <3>1 DEF Reports, InPart
    <3>3. PICK v : v = Wanted(a) /\ v = Wanted(a)'
      BY <1>3, <1>7, <2>3, <3>1 DEF Wanted
    <3>4. Owed(p, recv, u, status, old, a, v)
      BY <1>1, <2>3, <3>1, <3>3 DEF FeedInv
    <3>5. u \in 2..Len(Parts) /\ ~InPart(a, Len(Parts) - u + 1)
      BY <1>2, <1>4, <3>2
    <3>6. Owed(p, recv, u - 1, status, old, a, v)
      BY <2>1, <3>4, <3>5, OwedLoss
    <3> QED
      BY <2>1, <3>3, <3>6
  <2> QED
    BY <1>1, <1>3, <2>2, <2>3 DEF FeedInv
<1> QED
  BY <1>3, <1>6, <1>7

\* The listener registers, and infoserver makes its report.
LEMMA RegisterStep ==
    ASSUME Covered, Typed, FeedInv, Register
    PROVE  FeedInv'
<1>1. /\ pc = "read" /\ recv = <<>> /\ channel = <<>> /\ pc' = "read" /\ recv' = <<>>
      /\ channel' = Append(<<>>, [kind |-> "ACK", points |-> <<>>]) \/ channel' = <<>>
      /\ reported' = value /\ value' = value /\ unsent' = Len(Parts) /\ behind' = {}
  BY DEF Register, Delivered, Lost, Typed, StageInv, listener
<1>2. Len(recv') = 0
  BY <1>1, EmptySeq
<1>3. Len(channel') \in Nat /\ \A j \in 1..Len(channel') : channel'[j].kind = "ACK"
  <2>1. CASE channel' = <<>>
    BY <2>1, EmptySeq
  <2>2. CASE channel' = Append(<<>>, [kind |-> "ACK", points |-> <<>>])
    BY <2>2
  <2> QED
    BY <1>1, <2>1, <2>2
<1>4. Pending' = channel'
  BY <1>1 DEF Pending
<1>5. Clean(Pending', recv', unsent', reported')
  BY <1>2, <1>3, <1>4 DEF Clean
<1>6. ASSUME NEW a \in Address
      PROVE  Owed(Pending', recv', unsent', status', reported', a, Wanted(a)')
  <2>1. Wanted(a)' = reported'[a]
    BY <1>1 DEF Wanted
  <2>2. PICK i \in 1..Len(Parts) : InPart(a, i)
    BY DEF Covered
  <2>3. i > Len(Parts) - unsent' /\ unsent' > 0
    BY <1>1, Constants
  <2>4. Coming(Pending', Len(Pending'), recv', unsent', a, reported')
    BY <2>2, <2>3 DEF Coming
  <2> QED
    BY <2>1, <2>3, <2>4 DEF Owed
<1> QED
  BY <1>5, <1>6 DEF FeedInv

\* The socket is made anew.
LEMMA ResetStep == ASSUME Typed, FeedInv, ResetSocket PROVE FeedInv'
<1>1. ~watched' /\ channel' = <<>> /\ UNCHANGED <<reported, unsent, pc, msg, recv>>
  BY DEF ResetSocket, server, listener
<1>2. Clean(Pending', recv, unsent, reported)
  <2>1. CASE pc = "store"
    <3>1. msg \in Message /\ channel \in Seq(Message) /\ <<>> \in Seq(Message) /\ Len(<<>>) = 0
      BY <2>1, EmptySeq DEF Typed, StageInv
    <3>2. Pending = <<msg>> \o channel /\ Pending' = <<msg>> \o <<>>
      BY <1>1, <2>1 DEF Pending
    <3>3. Len(Pending') = 1 /\ Pending'[1] = msg /\ Pending[1] = msg /\ 1 \in 1..Len(Pending)
      BY <3>1, <3>2, Before DEF Shift
    <3> QED
      BY <3>3 DEF FeedInv, Clean
  <2>2. CASE pc # "store"
    <3>1. Len(Pending') = 0
      BY <1>1, <2>2, EmptySeq DEF Pending
    <3> QED
      BY <3>1 DEF FeedInv, Clean
  <2> QED
    BY <2>1, <2>2
<1> QED
  BY <1>1, <1>2 DEF FeedInv

LEMMA FeedStep ==
    ASSUME Covered, Short
    PROVE  Typed /\ FeedInv /\ [Next]_vars => FeedInv'
<1> SUFFICES ASSUME Typed, FeedInv, [Next]_vars
             PROVE  FeedInv'
  OBVIOUS
<1>1. TakeChanges \/ UNCHANGED vars =>
          UNCHANGED <<value, reported, unsent, behind, lost, watched, channel, pc, msg, recv, status>>
  BY DEF TakeChanges, vars, server, socket, listener
<1>2. CASE UNCHANGED <<value, reported, unsent, behind, lost, watched, channel, pc, msg, recv, status>>
  <2>1. Pending' = Pending
    BY <1>2 DEF Pending
  <2> QED
    BY <1>2, <2>1, SameStep
<1> QED
  BY <1>1, <1>2, ChangeStep, SendPartStep, ResetStep, RegisterStep, ReceiveStep, StoreOneStep, CollectStep,
     StoreAllStep DEF Next, Listener

\* StatusCurrent for any points, changes and losses, when infoserver reports all of
\* the points in at most two parts.  With three it is false: run SF_three_parts.
THEOREM StatusKept ==
    ASSUME Covered, Short
    PROVE  Spec => []StatusCurrent
<1>1. Init => Typed /\ FeedInv
  <2> SUFFICES ASSUME Init
               PROVE  Typed /\ FeedInv
    OBVIOUS
  <2>1. <<>> \in Seq(Message) /\ Len(<<>>) = 0 /\ Len(Parts) \in Nat
    BY EmptySeq, Constants
  <2>2. Typed
    BY <2>1 DEF Init, Typed, StageInv
  <2>3. Len(Pending) = 0 /\ Len(recv) = 0 /\ ~watched
    BY <2>1 DEF Init, Pending
  <2> QED
    BY <2>2, <2>3 DEF FeedInv, Clean
<1>2. Typed /\ FeedInv => StatusCurrent
  <2> SUFFICES ASSUME Typed, FeedInv, watched, Quiet
               PROVE  \A a \in Address : a \notin behind \/ lost = 0 => status[a] = Wanted(a)
    BY DEF StatusCurrent, Wanted
  <2> SUFFICES ASSUME NEW a \in Address, a \notin behind \/ lost = 0
               PROVE  status[a] = Wanted(a)
    OBVIOUS
  <2>1. Pending = <<>> /\ Len(Pending) = 0 /\ unsent = 0
    BY EmptySeq DEF Quiet, Pending
  <2>2. Owed(Pending, recv, unsent, status, reported, a, Wanted(a))
    BY DEF FeedInv
  <2>3. ~InNews(Pending, a, Wanted(a)) /\ ~InReport(Pending, recv, a, reported)
    BY <2>1 DEF InNews, InReport
  <2> QED
    BY <2>1, <2>2, <2>3 DEF Owed, InMap
<1>3. Typed /\ FeedInv /\ [Next]_vars => Typed' /\ FeedInv'
  BY TypedStep, FeedStep
<1> QED
  BY <1>1, <1>2, <1>3, PTL DEF Spec
================================================================================
