---------------------------- MODULE ContainerProofs ----------------------------
(***************************************************************************)
(* Proofs about the two containers: ChangeQueue, for any number of threads *)
(* and of changes, and DoublyLinkedList, for any number of objects.  The   *)
(* one implements HandOff and the other CursorList.                        *)
(***************************************************************************)
EXTENDS ChangeQueue, DoublyLinkedList, SequenceTheorems, FiniteSetTheorems,
        NaturalsInduction, TLAPS

\* Every variable keeps its type (the queues of InfoLink).
THEOREM TypeCorrect == Spec => []TypeOK
<1>1. Init => TypeOK
  <2> SUFFICES ASSUME Init
               PROVE  TypeOK
    OBVIOUS
  <2>1. <<>> \in Seq(Nat \ {0}) /\ 0 \in Nat /\ 0 \in 0..MaxItems /\ 0 \in 0..MaxConstructs
    BY CQAssumption
  <2>2. copy \in [Thread -> Seq(Nat \ {0})]
    BY <2>1 DEF Init
  <2>3. pc \in [Thread -> {"idle", "set", "get"} \cup Inside]
    BY DEF Init
  <2> QED
    BY <2>1, <2>2, <2>3 DEF Init, TypeOK
<1>2. TypeOK /\ [Next]_vars => TypeOK'
  <2> SUFFICES ASSUME TypeOK, [Next]_vars
               PROVE  TypeOK'
    OBVIOUS
  <2> USE DEF TypeOK, Goto, Inside, InSet, InGet
  <2>1. ASSUME NEW t \in Thread, CallSet(t)
        PROVE  TypeOK'
    BY <2>1, CQAssumption DEF CallSet
  <2>2. ASSUME NEW t \in Thread, LockForSet(t)
        PROVE  TypeOK'
    BY <2>2 DEF LockForSet
  <2>3. ASSUME NEW t \in Thread, Push(t)
        PROVE  TypeOK'
    <3>1. Append(queue, pushed + 1) \in Seq(Nat \ {0})
      BY AppendProperties
    <3> QED
      BY <2>3, <3>1 DEF Push
  <2>4. ASSUME NEW t \in Thread, Raise(t)
        PROVE  TypeOK'
    BY <2>4 DEF Raise
  <2>5. ASSUME NEW t \in Thread, UnlockAfterSet(t)
        PROVE  TypeOK'
    BY <2>5 DEF UnlockAfterSet
  <2>6. ASSUME NEW t \in Thread, Poll(t)
        PROVE  TypeOK'
    BY <2>6 DEF Poll
  <2>7. ASSUME NEW t \in Thread, LockForGet(t)
        PROVE  TypeOK'
    BY <2>7 DEF LockForGet
  <2>8. ASSUME NEW t \in Thread, Copy(t)
        PROVE  TypeOK'
    BY <2>8 DEF Copy
  <2>9. ASSUME NEW t \in Thread, Clear(t)
        PROVE  TypeOK'
    <3>1. delivered \o copy[t] \in Seq(Nat \ {0})
      BY ConcatProperties
    <3>2. <<>> \in Seq(Nat \ {0})
      OBVIOUS
    <3> QED
      BY <2>9, <3>1, <3>2 DEF Clear
  <2>10. ASSUME NEW t \in Thread, Lower(t)
         PROVE  TypeOK'
    BY <2>10 DEF Lower
  <2>11. ASSUME NEW t \in Thread, UnlockAfterGet(t)
         PROVE  TypeOK'
    <3>1. <<>> \in Seq(Nat \ {0})
      OBVIOUS
    <3> QED
      BY <2>11, <3>1 DEF UnlockAfterGet
  <2>12. CASE UNCHANGED vars
    BY <2>12 DEF vars
  <2> QED
    BY <2>1, <2>2, <2>3, <2>4, <2>5, <2>6, <2>7, <2>8, <2>9, <2>10, <2>11, <2>12
       DEF Next, Step
<1> QED
  BY <1>1, <1>2, PTL DEF Spec

-----------------------------------------------------------------------------
\* One change more.
LEMMA Longer ==
    ASSUME NEW s \in Seq(Nat \ {0}), NEW n \in Nat \ {0}
    PROVE  Append(s, n) # <<>> /\ Len(Append(s, n)) = Len(s) + 1
BY AppendProperties

\* Who holds the mutex is the only one inside.
LEMMA Alone ==
    ASSUME TypeOK, QueueInv, NEW t \in Thread, pc[t] \in Inside, NEW u \in Thread, u # t
    PROVE  pc[u] \notin Inside
BY DEF QueueInv

\* A step inside the critical section of t changes pc only at t, so that the
\* invariant has to be shown of t alone; the same of a step to lock().
LEMMA QueueStep ==
    ASSUME TypeOK, QueueInv, [Next]_vars
    PROVE  QueueInv'
<1> USE DEF TypeOK, Goto
<1> DEFINE At(t) ==
        /\ pc[t] = "push" => (flag <=> queue # <<>>)
        /\ pc[t] \in {"raise", "setUnlock"} => queue # <<>>
        /\ pc[t] = "setUnlock" => flag
        /\ pc[t] = "clear" => copy[t] = queue
        /\ pc[t] \in {"copy", "clear"} => queue # <<>> /\ flag
        /\ pc[t] = "lower" => queue = <<>>
        /\ pc[t] = "getUnlock" => (flag <=> queue # <<>>)
<1>a. /\ \A t \in Thread : pc[t] \in Inside => holder = t
      /\ FlagTells
      /\ \A t \in Thread : At(t)
      /\ Len(queue) + Len(delivered) = pushed
  BY DEF QueueInv, NothingDiscarded
<1>b. ASSUME /\ \A t \in Thread : pc'[t] \in Inside => holder' = t
             /\ FlagTells'
             /\ \A t \in Thread : At(t)'
             /\ Len(queue') + Len(delivered') = pushed'
      PROVE  QueueInv'
  BY <1>b DEF QueueInv, NothingDiscarded
<1>c. \A t \in Thread : pc[t] \notin Inside => At(t)
  BY DEF Inside, InSet, InGet
<1>d. \A t \in Thread : pc'[t] \notin Inside => At(t)'
  BY DEF Inside, InSet, InGet
<1>1. ASSUME NEW t \in Thread, CallSet(t) \/ Poll(t)
      PROVE  QueueInv'
  <2>1. /\ pc[t] \notin Inside /\ pc'[t] \notin Inside
        /\ \A u \in Thread \ {t} : pc'[u] = pc[u]
        /\ UNCHANGED <<queue, flag, holder, copy, pushed, delivered>>
    BY <1>1 DEF CallSet, Poll, Inside, InSet, InGet
  <2>2. \A u \in Thread : At(u)'
    <3>1. At(t)'
      BY <1>d, <2>1
    <3>2. \A u \in Thread \ {t} : At(u)'
      BY <1>a, <2>1
    <3> QED
      BY <3>1, <3>2
  <2>3. FlagTells'
    BY <1>a, <2>1 DEF FlagTells
  <2> QED
    BY <1>a, <1>b, <2>1, <2>2, <2>3
<1>2. ASSUME NEW t \in Thread, LockForSet(t) \/ LockForGet(t)
      PROVE  QueueInv'
  <2>1. \A u \in Thread : pc[u] \notin Inside
    BY <1>a, <1>2, CQAssumption DEF LockForSet, LockForGet
  <2>2. flag <=> queue # <<>>
    BY <1>a, <2>1 DEF FlagTells
  <2>3. /\ pc'[t] \in {"push", "copy", "getUnlock"}
        /\ pc'[t] = "copy" => queue # <<>>
        /\ \A u \in Thread \ {t} : pc'[u] = pc[u]
        /\ holder' = t
        /\ UNCHANGED <<queue, flag, copy, pushed, delivered>>
    BY <1>2 DEF LockForSet, LockForGet
  <2>4. pc'[t] \in Inside
    BY <2>3 DEF Inside, InSet, InGet
  <2>5. At(t)'
    BY <2>2, <2>3
  <2>6. \A u \in Thread : At(u)'
    BY <1>d, <2>1, <2>3, <2>5
  <2> QED
    BY <1>a, <1>b, <2>1, <2>3, <2>4, <2>6 DEF FlagTells
<1>3. ASSUME NEW t \in Thread,
             Push(t) \/ Raise(t) \/ Copy(t) \/ Clear(t) \/ Lower(t)
      PROVE  QueueInv'
  <2>1. /\ pc[t] \in Inside /\ pc'[t] \in Inside /\ holder' = holder
        /\ \A u \in Thread \ {t} : pc'[u] = pc[u]
    BY <1>3 DEF Push, Raise, Copy, Clear, Lower, Inside, InSet, InGet
  <2>2. \A u \in Thread \ {t} : pc'[u] \notin Inside
    BY <2>1, Alone
  <2>3. At(t)' /\ Len(queue') + Len(delivered') = pushed'
    <3>1. CASE Push(t)
      <4>1. /\ queue' = Append(queue, pushed + 1) /\ pushed' = pushed + 1
            /\ pc'[t] = "raise" /\ delivered' = delivered
        BY <3>1 DEF Push
      <4>2. queue \in Seq(Nat \ {0}) /\ pushed + 1 \in Nat \ {0}
        OBVIOUS
      <4>3. queue' # <<>> /\ Len(queue') = Len(queue) + 1
        BY <4>1, <4>2, Longer
      <4> QED
        BY <1>a, <4>1, <4>3
    <3>2. CASE Raise(t)
      BY <1>a, <3>2 DEF Raise
    <3>3. CASE Copy(t)
      BY <1>a, <3>3 DEF Copy
    <3>4. CASE Clear(t)
      <4>1. /\ queue' = <<>> /\ pc'[t] = "lower" /\ pushed' = pushed
            /\ delivered' = delivered \o queue
        BY <1>a, <3>4 DEF Clear
      <4>2. Len(delivered \o queue) = Len(delivered) + Len(queue) /\ Len(<<>>) = 0
        BY ConcatProperties
      <4> QED
        BY <1>a, <4>1, <4>2
    <3>5. CASE Lower(t)
      BY <1>a, <3>5 DEF Lower
    <3> QED
      BY <1>3, <3>1, <3>2, <3>3, <3>4, <3>5
  <2>4. \A u \in Thread : At(u)'
    BY <1>d, <2>2, <2>3
  <2> QED
    BY <1>a, <1>b, <2>1, <2>2, <2>3, <2>4 DEF FlagTells
<1>4. ASSUME NEW t \in Thread, UnlockAfterSet(t) \/ UnlockAfterGet(t)
      PROVE  QueueInv'
  <2>1. pc[t] \in {"setUnlock", "getUnlock"} /\ pc[t] \in Inside
    BY <1>4 DEF UnlockAfterSet, UnlockAfterGet, Inside, InSet, InGet
  <2>2. /\ pc'[t] \notin Inside
        /\ \A u \in Thread \ {t} : pc'[u] = pc[u]
        /\ UNCHANGED <<queue, flag, pushed, delivered>>
    BY <1>4 DEF UnlockAfterSet, UnlockAfterGet, Inside, InSet, InGet
  <2>3. \A u \in Thread : pc'[u] \notin Inside
    BY <2>1, <2>2, Alone
  <2>4. flag <=> queue # <<>>
    BY <1>a, <2>1
  <2> QED
    BY <1>a, <1>b, <1>d, <2>2, <2>3, <2>4 DEF FlagTells
<1>5. CASE UNCHANGED vars
  BY <1>a, <1>b, <1>5 DEF vars, FlagTells
<1> QED
  BY <1>1, <1>2, <1>3, <1>4, <1>5 DEF Next, Step

\* The mutex protects the queue and the flag (set...() and get...() of InfoLink):
\* two threads are never inside, and outside the flag tells whether changes wait.
THEOREM QueueCorrect == Spec => [](QueueInv /\ OneInside /\ FlagTells)
<1>1. Init => QueueInv
  BY DEF Init, QueueInv, FlagTells, Inside, InSet, InGet, NothingDiscarded
<1>2. TypeOK /\ QueueInv /\ [Next]_vars => QueueInv'
  BY QueueStep
<1>3. QueueInv => OneInside /\ FlagTells
  BY DEF QueueInv, OneInside
<1> QED
  BY <1>1, <1>2, <1>3, TypeCorrect, PTL DEF Spec

\* "these return copies of the internal container AND the internal container is
\* CLEARED" (infolinker.hpp): every step is a step of HandOff or none, so that
\* every change is handed over once and in order.
THEOREM Implements == Spec => HandsOver
<1>1. Init => Abstract!Init
  BY DEF Init, Abstract!Init
<1>2. ASSUME TypeOK, QueueInv, [Next]_vars
      PROVE  [Abstract!Next]_<<queue, delivered>>
  <2> USE DEF TypeOK
  <2>1. ASSUME NEW t \in Thread, Push(t)
        PROVE  Abstract!Put
    BY <1>2, <2>1 DEF Push, Abstract!Put, QueueInv, NothingDiscarded
  <2>2. ASSUME NEW t \in Thread, Clear(t)
        PROVE  Abstract!TakeAll
    BY <1>2, <2>2 DEF Clear, Abstract!TakeAll, QueueInv
  <2>3. ASSUME NEW t \in Thread,
               CallSet(t) \/ LockForSet(t) \/ Raise(t) \/ UnlockAfterSet(t)
               \/ Poll(t) \/ LockForGet(t) \/ Copy(t) \/ Lower(t) \/ UnlockAfterGet(t)
        PROVE  UNCHANGED <<queue, delivered>>
    BY <2>3 DEF CallSet, LockForSet, Raise, UnlockAfterSet, Poll, LockForGet, Copy, Lower,
                UnlockAfterGet
  <2>4. CASE UNCHANGED vars
    BY <2>4 DEF vars
  <2> QED
    BY <1>2, <2>1, <2>2, <2>3, <2>4 DEF Next, Step, Abstract!Next
<1> QED
  BY <1>1, <1>2, TypeCorrect, QueueCorrect, PTL DEF Spec, HandsOver, Abstract!Spec

-----------------------------------------------------------------------------
\* The list.  What its pointers mean is a sequence s of objects.

\* The member at position i, or none.
Nth(s, i) == IF i \in 1..Len(s) THEN s[i] ELSE NULL

Distinct(s) == \A i, j \in 1..Len(s) : s[i] = s[j] => i = j

MembersOf(s) == {s[i] : i \in 1..Len(s)}

\* The objects of s are linked in its order.
Chained(s, nx, pv, h, t) ==
    /\ s \in Seq(Object) /\ Distinct(s)
    /\ h = Nth(s, 1) /\ t = Nth(s, Len(s))
    /\ \A i \in 1..Len(s) : nx[s[i]] = Nth(s, i + 1) /\ pv[s[i]] = Nth(s, i - 1)

\* Every set of numbers has a least one.
LEMMA Least ==
    ASSUME NEW S \in SUBSET Nat, S # {}
    PROVE  \E m \in S : \A k \in S : m <= k
<1>1. \E m \in S : \A k \in S : ~ (<<k, m>> \in OpToRel(<, Nat))
  BY NatLessThanWellFounded, WFMin
<1>2. OpToRel(<, Nat) = {p \in Nat \X Nat : p[1] < p[2]}
  BY DEF OpToRel
<1>3. PICK m \in S : \A k \in S : ~ (<<k, m>> \in {p \in Nat \X Nat : p[1] < p[2]})
  BY <1>1, <1>2
<1>4. ASSUME NEW k \in S PROVE m <= k
  <2>1. ~(k < m)
    BY <1>3
  <2> QED
    BY <2>1
<1> QED
  BY <1>4

\* As many positions as members, and not more than there are objects.
LEMMA LengthOfDistinct ==
    ASSUME NEW s \in Seq(Object), Distinct(s)
    PROVE  /\ Cardinality(Object) \in Nat /\ Len(s) \in Nat /\ Len(s) <= Cardinality(Object)
           /\ Cardinality({s[i] : i \in 1..Len(s)}) = Len(s)
           /\ Cardinality(1..Len(s)) = Len(s)
<1> DEFINE T == {s[i] : i \in 1..Len(s)}
<1>1. Len(s) \in Nat /\ s \in [1..Len(s) -> Object]
  BY LenProperties
<1>2. T \subseteq Object /\ IsFiniteSet(Object)
  BY <1>1, DLAssumption
<1>3. IsFiniteSet(T) /\ Cardinality(T) <= Cardinality(Object) /\ Cardinality(Object) \in Nat
  BY <1>2, FS_Subset, FS_CardinalityType
<1>4. s \in Bijection(1..Len(s), T)
  BY <1>1 DEF Distinct, Bijection, Injection, Surjection, IsInjective
<1>5. ExistsBijection(1..Len(s), T)
  BY <1>4 DEF ExistsBijection
<1>6. IsFiniteSet(1..Len(s)) /\ Cardinality(1..Len(s)) = Len(s)
  BY <1>1, FS_Interval
<1>7. Cardinality(T) = Cardinality(1..Len(s))
  BY <1>5, <1>6, FS_Bijection
<1> QED
  BY <1>1, <1>3, <1>6, <1>7

\* at holds the objects met from p, one after the other.
Visits(at, p, link) ==
    at = [i \in 1..Cardinality(Object) + 1 |->
              IF i = 1 THEN p ELSE IF at[i - 1] = NULL THEN NULL ELSE link[at[i - 1]]]

\* The walk along the links of s visits the members of s in their order.
LEMMA WalkIs ==
    ASSUME NEW s \in Seq(Object), Distinct(s), NEW link,
           \A i \in 1..Len(s) : link[s[i]] = Nth(s, i + 1)
    PROVE  Walk(Nth(s, 1), link) = s
<1> DEFINE N == Cardinality(Object)
           p == Nth(s, 1)
           g == [i \in 1..N + 1 |-> Nth(s, i)]
<1>1. /\ N \in Nat /\ Len(s) \in Nat /\ Len(s) <= N
      /\ \A i \in 1..Len(s) : s[i] \in Object /\ s[i] # NULL
  BY LengthOfDistinct, ElementOfSeq, DLAssumption
<1>2. \A i \in 1..N + 1 : i # 1 => Nth(s, i) = IF Nth(s, i - 1) = NULL THEN NULL ELSE link[Nth(s, i - 1)]
  BY <1>1 DEF Nth
<1>3. Visits(g, p, link)
  BY <1>1, <1>2 DEF Visits
<1>4. ASSUME NEW at, Visits(at, p, link)
      PROVE  at = g
  <2>1. ASSUME NEW i \in 1..N + 1
        PROVE  at[i] = IF i = 1 THEN p ELSE IF at[i - 1] = NULL THEN NULL ELSE link[at[i - 1]]
    BY <1>4 DEF Visits
  <2> DEFINE S == {i \in 1..N + 1 : at[i] # Nth(s, i)}
  <2>2. S = {}
    <3> SUFFICES ASSUME S # {}
                 PROVE  FALSE
      OBVIOUS
    <3>1. PICK m \in S : \A k \in S : m <= k
      <4>1. S \in SUBSET Nat
        BY <1>1
      <4> HIDE DEF S
      <4> QED
        BY <4>1, Least
    <3>2. m \in 1..N + 1 /\ at[m] # Nth(s, m)
      OBVIOUS
    <3>3. m # 1
      BY <2>1, <3>2
    <3>4. m - 1 \in 1..N + 1 /\ m - 1 \notin S
      BY <1>1, <3>1, <3>2, <3>3
    <3>5. at[m - 1] = Nth(s, m - 1)
      BY <3>4
    <3> QED
      BY <1>2, <2>1, <3>2, <3>3, <3>5
  <2>3. at = [i \in 1..N + 1 |-> at[i]]
    BY <1>4 DEF Visits
  <2> QED
    BY <2>2, <2>3
<1>5. (CHOOSE at : Visits(at, p, link)) = g
  BY <1>3, <1>4
<1>6. {i \in 1..N + 1 : g[i] # NULL} = 1..Len(s)
  BY <1>1 DEF Nth
<1>7. Cardinality({i \in 1..N + 1 : g[i] # NULL}) = Len(s)
  BY <1>6, LengthOfDistinct
<1>8. [i \in 1..Len(s) |-> g[i]] = s
  <2>1. s = [i \in 1..Len(s) |-> s[i]]
    BY LenProperties
  <2>2. \A i \in 1..Len(s) : g[i] = s[i]
    BY <1>1 DEF Nth
  <2> QED
    BY <2>1, <2>2
<1>9. Walk(p, link) = LET at == CHOOSE a : Visits(a, p, link)
                      IN  [i \in 1..Cardinality({i \in 1..N + 1 : at[i] # NULL}) |-> at[i]]
  BY DEF Walk, Visits
<1> HIDE DEF g
<1> QED
  BY <1>5, <1>7, <1>8, <1>9

\* The members before position k.
LEMMA Front ==
    ASSUME NEW s \in Seq(Object), NEW k \in 1..Len(s) + 1
    PROVE  /\ SubSeq(s, 1, k - 1) \in Seq(Object) /\ Len(SubSeq(s, 1, k - 1)) = k - 1
           /\ \A j \in 1..k - 1 : SubSeq(s, 1, k - 1)[j] = s[j]
<1>1. Len(s) \in Nat /\ k - 1 \in Int /\ \A i \in 1..k - 1 : s[i] \in Object
  BY LenProperties, ElementOfSeq
<1>2. /\ SubSeq(s, 1, k - 1) \in Seq(Object)
      /\ Len(SubSeq(s, 1, k - 1)) = IF 1 <= k - 1 THEN (k - 1) - 1 + 1 ELSE 0
      /\ \A j \in 1..(k - 1) - 1 + 1 : SubSeq(s, 1, k - 1)[j] = s[1 + j - 1]
  BY <1>1, SubSeqProperties
<1>3. (k - 1) - 1 + 1 = k - 1 /\ (~(1 <= k - 1) => k - 1 = 0)
  BY <1>1
<1>4. \A j \in 1..k - 1 : 1 + j - 1 = j
  BY <1>1
<1> QED
  BY <1>2, <1>3, <1>4

\* The members from position k on.
LEMMA Back ==
    ASSUME NEW s \in Seq(Object), NEW k \in 1..Len(s) + 1
    PROVE  /\ SubSeq(s, k, Len(s)) \in Seq(Object) /\ Len(SubSeq(s, k, Len(s))) = Len(s) - k + 1
           /\ \A j \in 1..Len(s) - k + 1 : SubSeq(s, k, Len(s))[j] = s[k + j - 1]
<1>1. Len(s) \in Nat /\ k \in Int /\ \A i \in k..Len(s) : s[i] \in Object
  BY LenProperties, ElementOfSeq
<1>2. /\ SubSeq(s, k, Len(s)) \in Seq(Object)
      /\ Len(SubSeq(s, k, Len(s))) = IF k <= Len(s) THEN Len(s) - k + 1 ELSE 0
      /\ \A j \in 1..Len(s) - k + 1 : SubSeq(s, k, Len(s))[j] = s[k + j - 1]
  BY <1>1, SubSeqProperties
<1>3. ~(k <= Len(s)) => Len(s) - k + 1 = 0
  BY <1>1
<1> QED
  BY <1>2, <1>3

\* u is s with o at position k.
With(u, s, k, o) ==
    /\ u \in Seq(Object) /\ Len(u) = Len(s) + 1 /\ u[k] = o
    /\ \A j \in 1..k - 1 : u[j] = s[j]
    /\ \A j \in k + 1..Len(s) + 1 : u[j] = s[j - 1]

\* u is s without its member at position k.
Without(u, s, k) ==
    /\ u \in Seq(Object) /\ Len(u) = Len(s) - 1
    /\ \A j \in 1..k - 1 : u[j] = s[j]
    /\ \A j \in k..Len(s) - 1 : u[j] = s[j + 1]

\* An object is put at position k.
LEMMA InsertedIs ==
    ASSUME NEW s \in Seq(Object), NEW k \in 1..Len(s) + 1, NEW o \in Object
    PROVE  With(AsList!InsertAt(s, k, o), s, k, o)
<1>1. Len(s) \in Nat
  BY LenProperties
<1>2. PICK a \in Seq(Object) : a = SubSeq(s, 1, k - 1)
  BY Front, Zenon
<1>3. PICK c \in Seq(Object) : c = SubSeq(s, k, Len(s))
  BY Back, Zenon
<1>4. Len(a) = k - 1 /\ \A j \in 1..k - 1 : a[j] = s[j]
  BY <1>2, Front
<1>5. Len(c) = Len(s) - k + 1 /\ \A j \in 1..Len(s) - k + 1 : c[j] = s[k + j - 1]
  BY <1>3, Back
<1>6. <<o>> \in Seq(Object)
  OBVIOUS
<1>7. PICK b \in Seq(Object) : b = <<o>>
  BY <1>6, Zenon
<1>8. Len(b) = 1 /\ b[1] = o
  BY <1>7
<1>9. PICK ab \in Seq(Object) : ab = a \o b
  BY ConcatProperties, Zenon
<1>10. Len(ab) = k /\ \A j \in 1..k : ab[j] = IF j <= k - 1 THEN a[j] ELSE b[j - (k - 1)]
  <2>1. /\ Len(ab) = Len(a) + Len(b)
        /\ \A j \in 1..Len(a) + Len(b) : ab[j] = IF j <= Len(a) THEN a[j] ELSE b[j - Len(a)]
    BY <1>9, ConcatProperties
  <2>2. Len(a) + Len(b) = k
    BY <1>1, <1>4, <1>8
  <2> QED
    BY <1>4, <2>1, <2>2
<1>11. PICK u \in Seq(Object) : u = ab \o c
  BY ConcatProperties, Zenon
<1>12. Len(u) = Len(s) + 1 /\ \A j \in 1..Len(s) + 1 : u[j] = IF j <= k THEN ab[j] ELSE c[j - k]
  <2>1. /\ Len(u) = Len(ab) + Len(c)
        /\ \A j \in 1..Len(ab) + Len(c) : u[j] = IF j <= Len(ab) THEN ab[j] ELSE c[j - Len(ab)]
    BY <1>11, ConcatProperties
  <2>2. Len(ab) + Len(c) = Len(s) + 1
    BY <1>1, <1>5, <1>10
  <2> QED
    BY <1>10, <2>1, <2>2
<1>13. AsList!InsertAt(s, k, o) = u
  BY <1>2, <1>3, <1>7, <1>9, <1>11 DEF AsList!InsertAt
<1>14. u[k] = o
  <2>1. k \in 1..Len(s) + 1 /\ k <= k /\ k \in 1..k /\ ~(k <= k - 1) /\ k - (k - 1) = 1
    BY <1>1
  <2>2. u[k] = ab[k]
    BY <1>12, <2>1
  <2>3. ab[k] = b[k - (k - 1)]
    BY <1>10, <2>1
  <2> QED
    BY <1>8, <2>1, <2>2, <2>3
<1>15. ASSUME NEW j \in 1..k - 1
       PROVE  u[j] = s[j]
  <2>1. j \in 1..Len(s) + 1 /\ j <= k /\ j \in 1..k /\ j <= k - 1
    BY <1>1
  <2> QED
    BY <1>4, <1>10, <1>12, <2>1
<1>16. ASSUME NEW j \in k + 1..Len(s) + 1
       PROVE  u[j] = s[j - 1]
  <2>1. j \in 1..Len(s) + 1 /\ ~(j <= k) /\ j - k \in 1..Len(s) - k + 1
    BY <1>1
  <2>2. u[j] = c[j - k] /\ c[j - k] = s[k + (j - k) - 1]
    BY <1>5, <1>12, <2>1
  <2>3. k + (j - k) - 1 = j - 1
    BY <1>1
  <2> QED
    BY <2>2, <2>3
<1> QED
  BY <1>12, <1>13, <1>14, <1>15, <1>16 DEF With

\* The object at position k is taken out.
LEMMA RemovedIs ==
    ASSUME NEW s \in Seq(Object), NEW k \in 1..Len(s)
    PROVE  Without(AsList!RemoveAt(s, k), s, k)
<1>1. Len(s) \in Nat /\ k \in 1..Len(s) + 1 /\ k + 1 \in 1..Len(s) + 1
  BY LenProperties
<1>2. PICK a \in Seq(Object) : a = SubSeq(s, 1, k - 1)
  BY <1>1, Front, Zenon
<1>3. PICK c \in Seq(Object) : c = SubSeq(s, k + 1, Len(s))
  BY <1>1, Back, Zenon
<1>4. Len(a) = k - 1 /\ \A j \in 1..k - 1 : a[j] = s[j]
  BY <1>1, <1>2, Front
<1>5. Len(c) = Len(s) - k /\ \A j \in 1..Len(s) - k : c[j] = s[k + j]
  <2>1. Len(c) = Len(s) - (k + 1) + 1 /\ \A j \in 1..Len(s) - (k + 1) + 1 : c[j] = s[(k + 1) + j - 1]
    BY <1>1, <1>3, Back
  <2>2. Len(s) - (k + 1) + 1 = Len(s) - k /\ \A j \in 1..Len(s) - k : (k + 1) + j - 1 = k + j
    BY <1>1
  <2> QED
    BY <2>1, <2>2
<1>6. PICK u \in Seq(Object) : u = a \o c
  BY ConcatProperties, Zenon
<1>7. Len(u) = Len(s) - 1 /\ \A j \in 1..Len(s) - 1 : u[j] = IF j <= k - 1 THEN a[j] ELSE c[j - (k - 1)]
  <2>1. /\ Len(u) = Len(a) + Len(c)
        /\ \A j \in 1..Len(a) + Len(c) : u[j] = IF j <= Len(a) THEN a[j] ELSE c[j - Len(a)]
    BY <1>6, ConcatProperties
  <2>2. Len(a) + Len(c) = Len(s) - 1
    BY <1>1, <1>4, <1>5
  <2> QED
    BY <1>4, <2>1, <2>2
<1>8. AsList!RemoveAt(s, k) = u
  BY <1>2, <1>3, <1>6 DEF AsList!RemoveAt
<1>9. ASSUME NEW j \in 1..k - 1
      PROVE  u[j] = s[j]
  <2>1. j \in 1..Len(s) - 1 /\ j <= k - 1
    BY <1>1
  <2> QED
    BY <1>4, <1>7, <2>1
<1>10. ASSUME NEW j \in k..Len(s) - 1
       PROVE  u[j] = s[j + 1]
  <2>1. j \in 1..Len(s) - 1 /\ ~(j <= k - 1) /\ j - (k - 1) \in 1..Len(s) - k
    BY <1>1
  <2>2. u[j] = c[j - (k - 1)] /\ c[j - (k - 1)] = s[k + (j - (k - 1))]
    BY <1>5, <1>7, <2>1
  <2>3. k + (j - (k - 1)) = j + 1
    BY <1>1
  <2> QED
    BY <2>2, <2>3
<1> QED
  BY <1>7, <1>8, <1>9, <1>10 DEF Without

\* Two positions can be compared.
LEMMA DistinctWhenOrdered ==
    ASSUME NEW u, Len(u) \in Nat, \A i, j \in 1..Len(u) : i < j => u[i] # u[j]
    PROVE  Distinct(u)
<1> SUFFICES ASSUME NEW i \in 1..Len(u), NEW j \in 1..Len(u), u[i] = u[j], i # j
             PROVE  FALSE
  BY DEF Distinct
<1> i < j \/ j < i
  OBVIOUS
<1> QED
  OBVIOUS

\* The links nx2, pv2 and the ends h2, t2 are the ones before with o at position k.
Splice(s, k, o, nx, pv, h, t, nx2, pv2, h2, t2) ==
    /\ nx2[o] = Nth(s, k) /\ pv2[o] = Nth(s, k - 1)
    /\ \A i \in 1..Len(s) : /\ nx2[s[i]] = IF i = k - 1 THEN o ELSE nx[s[i]]
                            /\ pv2[s[i]] = IF i = k THEN o ELSE pv[s[i]]
    /\ h2 = IF k = 1 THEN o ELSE h
    /\ t2 = IF k = Len(s) + 1 THEN o ELSE t

\* An object that is linked between two others, or put before the first or
\* behind the last, stands there in the list.
LEMMA ChainInserted ==
    ASSUME NEW s, NEW nx, NEW pv, NEW h, NEW t, Chained(s, nx, pv, h, t),
           NEW k \in 1..Len(s) + 1, NEW o \in Object, o \notin MembersOf(s),
           NEW nx2, NEW pv2, NEW h2, NEW t2,
           Splice(s, k, o, nx, pv, h, t, nx2, pv2, h2, t2)
    PROVE  /\ Chained(AsList!InsertAt(s, k, o), nx2, pv2, h2, t2)
           /\ MembersOf(AsList!InsertAt(s, k, o)) = MembersOf(s) \cup {o}
<1> USE DEF Splice
<1>1. s \in Seq(Object) /\ Distinct(s) /\ Len(s) \in Nat
  BY LenProperties DEF Chained
<1>2. PICK n \in Nat : n = Len(s)
  BY <1>1
<1>3. PICK u \in Seq(Object) : u = AsList!InsertAt(s, k, o)
  BY <1>1, InsertedIs DEF With
<1>4. /\ Len(u) = n + 1 /\ u[k] = o
      /\ \A j \in 1..k - 1 : u[j] = s[j]
      /\ \A j \in k + 1..n + 1 : u[j] = s[j - 1]
  <2>1. With(u, s, k, o)
    BY <1>1, <1>3, InsertedIs
  <2> QED
    BY <1>2, <2>1 DEF With
<1>5. /\ k \in 1..n + 1
      /\ \A j \in 1..n + 1 : j \in 1..k - 1 \/ j = k \/ j \in k + 1..n + 1
      /\ \A j \in 1..k - 1 : j \in 1..n /\ j # k
      /\ \A j \in k + 1..n + 1 : j - 1 \in 1..n /\ j - 1 >= k
  BY <1>2
<1>6. \A i \in 1..n : s[i] # o
  BY <1>2 DEF MembersOf
<1>7. \A i, j \in 1..n : s[i] = s[j] => i = j
  BY <1>1, <1>2 DEF Distinct
<1>8. Distinct(u)
  <2>a. Len(u) \in Nat /\ 1..Len(u) = 1..n + 1
    BY <1>4, <1>5
  <2> SUFFICES ASSUME NEW i \in 1..n + 1, NEW j \in 1..n + 1, i < j
               PROVE  u[i] # u[j]
    BY <2>a, DistinctWhenOrdered
  <2>1. CASE i \in 1..k - 1
    BY <1>4, <1>5, <1>6, <1>7, <2>1
  <2>2. CASE i = k
    BY <1>4, <1>5, <1>6, <2>2
  <2>3. CASE i \in k + 1..n + 1
    <3>1. j \in k + 1..n + 1 /\ i - 1 # j - 1
      BY <2>3
    <3> QED
      BY <1>4, <1>5, <1>7, <2>3, <3>1
  <2> QED
    BY <1>5, <2>1, <2>2, <2>3
<1>9. /\ \A i \in 1..n : nx[s[i]] = Nth(s, i + 1) /\ pv[s[i]] = Nth(s, i - 1)
      /\ h = Nth(s, 1) /\ t = Nth(s, n)
  BY <1>2 DEF Chained
<1>10. /\ \A j \in 1..k - 1 : Nth(u, j) = Nth(s, j)
       /\ Nth(u, k) = o /\ Nth(u, 0) = NULL /\ Nth(s, 0) = NULL
       /\ \A j \in k + 1..n + 2 : Nth(u, j) = Nth(s, j - 1)
  <2>1. \A j \in 1..k - 1 : Nth(u, j) = Nth(s, j)
    BY <1>2, <1>4, <1>5 DEF Nth
  <2>2. Nth(u, k) = o /\ Nth(u, 0) = NULL /\ Nth(s, 0) = NULL
    BY <1>2, <1>4, <1>5 DEF Nth
  <2>3. ASSUME NEW j \in k + 1..n + 2
        PROVE  Nth(u, j) = Nth(s, j - 1)
    <3>1. CASE j = n + 2
      BY <1>2, <1>4, <3>1 DEF Nth
    <3>2. CASE j \in k + 1..n + 1
      BY <1>2, <1>4, <1>5, <3>2 DEF Nth
    <3> QED
      BY <3>1, <3>2
  <2> QED
    BY <2>1, <2>2, <2>3
<1>11. ASSUME NEW j \in 1..n + 1
       PROVE  nx2[u[j]] = Nth(u, j + 1) /\ pv2[u[j]] = Nth(u, j - 1)
  <2>1. CASE j \in 1..k - 1
    <3>1. u[j] = s[j] /\ j \in 1..n /\ j # k
      BY <1>4, <1>5, <2>1
    <3>2. pv2[s[j]] = Nth(s, j - 1) /\ nx2[s[j]] = IF j = k - 1 THEN o ELSE Nth(s, j + 1)
      BY <1>2, <1>9, <3>1
    <3>3. j + 1 = k \/ j + 1 \in 1..k - 1
      BY <2>1
    <3>4. j - 1 = 0 \/ j - 1 \in 1..k - 1
      BY <2>1
    <3>5. Nth(u, j - 1) = Nth(s, j - 1)
      BY <1>10, <3>4
    <3>6. Nth(u, j + 1) = IF j = k - 1 THEN o ELSE Nth(s, j + 1)
      BY <1>10, <2>1, <3>3
    <3> QED
      BY <3>1, <3>2, <3>5, <3>6
  <2>2. CASE j = k
    <3>1. k + 1 \in k + 1..n + 2 /\ (k + 1) - 1 = k
      BY <1>5
    <3>2. k - 1 = 0 \/ k - 1 \in 1..k - 1
      BY <1>5
    <3> QED
      BY <1>4, <1>10, <2>2, <3>1, <3>2
  <2>3. CASE j \in k + 1..n + 1
    <3>1. u[j] = s[j - 1] /\ j - 1 \in 1..n /\ j - 1 # k - 1
      BY <1>4, <1>5, <2>3
    <3>2. nx2[s[j - 1]] = Nth(s, (j - 1) + 1) /\ pv2[s[j - 1]] = IF j - 1 = k THEN o ELSE Nth(s, (j - 1) - 1)
      BY <1>2, <1>9, <3>1
    <3>3. j + 1 \in k + 1..n + 2 /\ (j - 1) + 1 = (j + 1) - 1
      BY <2>3
    <3>4. Nth(u, j + 1) = Nth(s, (j + 1) - 1)
      BY <1>10, <3>3
    <3>5. Nth(u, j - 1) = IF j - 1 = k THEN o ELSE Nth(s, (j - 1) - 1)
      <4>1. j - 1 = k \/ j - 1 \in k + 1..n + 2
        BY <2>3
      <4>2. ~(k \in k + 1..n + 2)
        BY <1>5
      <4> QED
        BY <1>10, <4>1, <4>2
    <3> QED
      BY <3>1, <3>2, <3>3, <3>4, <3>5
  <2> QED
    BY <1>5, <2>1, <2>2, <2>3
<1>12. h2 = Nth(u, 1)
  <2>1. k = 1 \/ 1 \in 1..k - 1
    BY <1>5
  <2>2. k = 1 => 1 \notin 1..k - 1
    OBVIOUS
  <2> QED
    BY <1>9, <1>10, <2>1, <2>2
<1>13. t2 = Nth(u, n + 1)
  <2>1. k = n + 1 \/ (k # n + 1 /\ n + 1 \in k + 1..n + 2 /\ (n + 1) - 1 = n)
    BY <1>5
  <2> QED
    BY <1>2, <1>9, <1>10, <2>1
<1>14. MembersOf(u) = MembersOf(s) \cup {o}
  <2>1. ASSUME NEW j \in 1..n + 1 PROVE u[j] \in MembersOf(s) \cup {o}
    <3>1. u[j] = o \/ \E i \in 1..n : u[j] = s[i]
      BY <1>4, <1>5
    <3> QED
      BY <1>2, <3>1 DEF MembersOf
  <2>2. ASSUME NEW i \in 1..n PROVE \E j \in 1..n + 1 : u[j] = s[i]
    <3>1. CASE i < k
      <4>1. i \in 1..k - 1 /\ i \in 1..n + 1
        BY <1>5, <3>1
      <4> QED
        BY <1>4, <4>1
    <3>2. CASE ~(i < k)
      <4>1. i + 1 \in k + 1..n + 1 /\ i + 1 \in 1..n + 1 /\ (i + 1) - 1 = i
        BY <1>5, <3>2
      <4>2. u[i + 1] = s[(i + 1) - 1]
        BY <1>4, <4>1
      <4> QED
        BY <4>1, <4>2
    <3> QED
      BY <3>1, <3>2
  <2>3. \E j \in 1..n + 1 : u[j] = o
    BY <1>4, <1>5
  <2> QED
    BY <1>2, <1>4, <2>1, <2>2, <2>3 DEF MembersOf
<1>15. Chained(u, nx2, pv2, h2, t2)
  BY <1>4, <1>8, <1>11, <1>12, <1>13 DEF Chained
<1> QED
  BY <1>3, <1>14, <1>15

\* The links nx2, pv2 and the ends h2, t2 are the ones before without the member
\* at position k.
Bypass(s, k, nx, pv, h, t, nx2, pv2, h2, t2) ==
    /\ \A i \in 1..Len(s) : i # k =>
           /\ nx2[s[i]] = IF i = k - 1 THEN Nth(s, k + 1) ELSE nx[s[i]]
           /\ pv2[s[i]] = IF i = k + 1 THEN Nth(s, k - 1) ELSE pv[s[i]]
    /\ h2 = IF k = 1 THEN Nth(s, 2) ELSE h
    /\ t2 = IF k = Len(s) THEN Nth(s, Len(s) - 1) ELSE t

\* An object whose neighbours are linked to each other has left the list.
LEMMA ChainRemoved ==
    ASSUME NEW s, NEW nx, NEW pv, NEW h, NEW t, Chained(s, nx, pv, h, t),
           NEW k \in 1..Len(s), NEW nx2, NEW pv2, NEW h2, NEW t2,
           Bypass(s, k, nx, pv, h, t, nx2, pv2, h2, t2)
    PROVE  /\ Chained(AsList!RemoveAt(s, k), nx2, pv2, h2, t2)
           /\ MembersOf(AsList!RemoveAt(s, k)) = MembersOf(s) \ {s[k]}
<1> USE DEF Bypass
<1>1. s \in Seq(Object) /\ Distinct(s) /\ Len(s) \in Nat
  BY LenProperties DEF Chained
<1>2. PICK n \in Nat : n = Len(s)
  BY <1>1
<1>3. PICK u \in Seq(Object) : u = AsList!RemoveAt(s, k)
  BY <1>1, RemovedIs DEF Without
<1>4. /\ Len(u) = n - 1
      /\ \A j \in 1..k - 1 : u[j] = s[j]
      /\ \A j \in k..n - 1 : u[j] = s[j + 1]
  <2>1. Without(u, s, k)
    BY <1>1, <1>3, RemovedIs
  <2> QED
    BY <1>2, <2>1 DEF Without
<1>5. /\ k \in 1..n
      /\ \A j \in 1..n - 1 : j \in 1..k - 1 \/ j \in k..n - 1
      /\ \A j \in 1..k - 1 : j \in 1..n /\ j # k /\ j # k + 1
      /\ \A j \in k..n - 1 : j + 1 \in 1..n /\ j + 1 # k /\ j + 1 # k - 1
  BY <1>2
<1>6. \A i, j \in 1..n : s[i] = s[j] => i = j
  BY <1>1, <1>2 DEF Distinct
<1>7. Distinct(u)
  <2>a. Len(u) \in Nat /\ 1..Len(u) = 1..n - 1
    BY <1>4, <1>5
  <2> SUFFICES ASSUME NEW i \in 1..n - 1, NEW j \in 1..n - 1, i < j
               PROVE  u[i] # u[j]
    BY <2>a, DistinctWhenOrdered
  <2>1. CASE j \in 1..k - 1
    <3>1. i \in 1..k - 1
      BY <2>1
    <3> QED
      BY <1>4, <1>5, <1>6, <2>1, <3>1
  <2>2. CASE j \in k..n - 1 /\ i \in 1..k - 1
    BY <1>4, <1>5, <1>6, <2>2
  <2>3. CASE j \in k..n - 1 /\ i \in k..n - 1
    <3>1. i + 1 # j + 1
      OBVIOUS
    <3> QED
      BY <1>4, <1>5, <1>6, <2>3, <3>1
  <2> QED
    BY <1>5, <2>1, <2>2, <2>3
<1>8. /\ \A i \in 1..n : nx[s[i]] = Nth(s, i + 1) /\ pv[s[i]] = Nth(s, i - 1)
      /\ h = Nth(s, 1) /\ t = Nth(s, n)
  BY <1>2 DEF Chained
<1>9. /\ \A j \in 0..k - 1 : Nth(u, j) = Nth(s, j)
      /\ \A j \in k..n : Nth(u, j) = Nth(s, j + 1)
  <2>1. ASSUME NEW j \in 0..k - 1
        PROVE  Nth(u, j) = Nth(s, j)
    <3>1. j = 0 \/ (j \in 1..k - 1 /\ j \in 1..n - 1 /\ j \in 1..n)
      BY <1>5
    <3> QED
      BY <1>2, <1>4, <3>1 DEF Nth
  <2>2. ASSUME NEW j \in k..n
        PROVE  Nth(u, j) = Nth(s, j + 1)
    <3>1. (j = n /\ j \notin 1..n - 1 /\ j + 1 \notin 1..n)
          \/ (j \in k..n - 1 /\ j \in 1..n - 1 /\ j + 1 \in 1..n)
      BY <1>5
    <3> QED
      BY <1>2, <1>4, <3>1 DEF Nth
  <2> QED
    BY <2>1, <2>2
<1>10. ASSUME NEW j \in 1..n - 1
       PROVE  nx2[u[j]] = Nth(u, j + 1) /\ pv2[u[j]] = Nth(u, j - 1)
  <2>1. CASE j \in 1..k - 1
    <3>1. u[j] = s[j] /\ j \in 1..n /\ j # k /\ j # k + 1
      BY <1>4, <1>5, <2>1
    <3>2. pv2[s[j]] = Nth(s, j - 1) /\ nx2[s[j]] = IF j = k - 1 THEN Nth(s, k + 1) ELSE Nth(s, j + 1)
      BY <1>2, <1>8, <3>1
    <3>3. j - 1 \in 0..k - 1 /\ (j = k - 1 => j + 1 = k /\ k \in k..n) /\ (j # k - 1 => j + 1 \in 0..k - 1)
      BY <1>5, <2>1
    <3> QED
      BY <1>9, <3>1, <3>2, <3>3
  <2>2. CASE j \in k..n - 1
    <3>1. u[j] = s[j + 1] /\ j + 1 \in 1..n /\ j + 1 # k /\ j + 1 # k - 1
      BY <1>4, <1>5, <2>2
    <3>2. /\ nx2[s[j + 1]] = Nth(s, (j + 1) + 1)
          /\ pv2[s[j + 1]] = IF j + 1 = k + 1 THEN Nth(s, k - 1) ELSE Nth(s, (j + 1) - 1)
      BY <1>2, <1>8, <3>1
    <3>3. j + 1 \in k..n
      BY <2>2
    <3>4. Nth(u, j + 1) = Nth(s, (j + 1) + 1)
      BY <1>9, <3>3
    <3>5. CASE j = k
      <4>1. k - 1 \in 0..k - 1 /\ j + 1 = k + 1 /\ j - 1 = k - 1
        BY <1>5, <3>5
      <4> QED
        BY <1>9, <3>1, <3>2, <3>4, <4>1
    <3>6. CASE j # k
      <4>1. j - 1 \in k..n /\ j + 1 # k + 1 /\ (j - 1) + 1 = (j + 1) - 1
        BY <1>5, <2>2, <3>6
      <4>2. Nth(u, j - 1) = Nth(s, (j - 1) + 1)
        BY <1>9, <4>1
      <4> QED
        BY <3>1, <3>2, <3>4, <4>1, <4>2
    <3> QED
      BY <3>5, <3>6
  <2> QED
    BY <1>5, <2>1, <2>2
<1>11. h2 = Nth(u, 1)
  <2>1. (k = 1 /\ 1 \in k..n /\ 1 + 1 = 2) \/ (k # 1 /\ 1 \in 0..k - 1)
    BY <1>5
  <2> QED
    BY <1>8, <1>9, <2>1
<1>12. t2 = Nth(u, n - 1)
  <2>1. (k = n /\ n - 1 \in 0..k - 1) \/ (k # n /\ n - 1 \in k..n /\ (n - 1) + 1 = n)
    BY <1>5
  <2> QED
    BY <1>2, <1>8, <1>9, <2>1
<1>13. MembersOf(u) = MembersOf(s) \ {s[k]}
  <2>1. ASSUME NEW j \in 1..n - 1 PROVE \E i \in 1..n : i # k /\ u[j] = s[i]
    BY <1>4, <1>5
  <2>2. ASSUME NEW i \in 1..n, i # k PROVE \E j \in 1..n - 1 : u[j] = s[i]
    <3>1. CASE i < k
      <4>1. i \in 1..k - 1 /\ i \in 1..n - 1
        BY <1>5, <3>1
      <4> QED
        BY <1>4, <4>1
    <3>2. CASE ~(i < k)
      <4>1. i - 1 \in k..n - 1 /\ i - 1 \in 1..n - 1 /\ (i - 1) + 1 = i
        BY <1>5, <2>2, <3>2
      <4>2. u[i - 1] = s[(i - 1) + 1]
        BY <1>4, <4>1
      <4> QED
        BY <4>1, <4>2
    <3> QED
      BY <3>1, <3>2
  <2>3. \A i \in 1..n : s[i] = s[k] <=> i = k
    BY <1>5, <1>6
  <2>4. MembersOf(s) = {s[i] : i \in 1..n} /\ MembersOf(u) = {u[j] : j \in 1..n - 1}
    BY <1>2, <1>4 DEF MembersOf
  <2>5. MembersOf(u) \subseteq MembersOf(s) \ {s[k]}
    BY <2>1, <2>3, <2>4
  <2>6. ASSUME NEW x \in MembersOf(s) \ {s[k]}
        PROVE  x \in MembersOf(u)
    <3>1. PICK i \in 1..n : x = s[i] /\ i # k
      BY <2>4
    <3>2. PICK j \in 1..n - 1 : u[j] = s[i]
      BY <2>2, <3>1
    <3> QED
      BY <2>4, <3>1, <3>2
  <2> QED
    BY <2>5, <2>6
<1>14. Chained(u, nx2, pv2, h2, t2)
  BY <1>4, <1>7, <1>10, <1>11, <1>12 DEF Chained
<1> QED
  BY <1>3, <1>13, <1>14

\* The same list from behind.
Reversed(s) == [i \in 1..Len(s) |-> s[Len(s) + 1 - i]]

\* Both walks along a chain meet its members, in the one order and in the other.
LEMMA WalksOfChain ==
    ASSUME NEW s, NEW nx, NEW pv, NEW h, NEW t, Chained(s, nx, pv, h, t)
    PROVE  Walk(h, nx) = s /\ Walk(t, pv) = Reversed(s)
<1>1. s \in Seq(Object) /\ Distinct(s) /\ Len(s) \in Nat /\ \A i \in 1..Len(s) : s[i] \in Object
  BY LenProperties, ElementOfSeq DEF Chained
<1>2. Walk(h, nx) = s
  BY <1>1, WalkIs DEF Chained
<1>3. PICK n \in Nat : n = Len(s)
  BY <1>1
<1>4. /\ \A i \in 1..n : n + 1 - i \in 1..n /\ n + 1 - (i + 1) = (n + 1 - i) - 1
      /\ \A i, j \in 1..n : n + 1 - i = n + 1 - j => i = j
  OBVIOUS
<1>5. PICK r : r = [i \in 1..n |-> s[n + 1 - i]]
  OBVIOUS
<1>6. r \in Seq(Object) /\ Len(r) = n /\ \A i \in 1..n : r[i] = s[n + 1 - i]
  <2>1. \A i \in 1..n : s[n + 1 - i] \in Object
    BY <1>1, <1>3, <1>4
  <2>2. r \in [1..n -> Object]
    BY <1>5, <2>1
  <2>3. r \in Seq(Object)
    BY <2>2, SeqDef
  <2>4. DOMAIN r = 1..n /\ DOMAIN r = 1..Len(r) /\ Len(r) \in Nat
    BY <1>5, <2>3, LenProperties
  <2>5. Len(r) = n
    BY <2>4
  <2> QED
    BY <1>5, <2>3, <2>5
<1>7. Distinct(r)
  <2> SUFFICES ASSUME NEW i \in 1..n, NEW j \in 1..n, r[i] = r[j]
               PROVE  i = j
    BY <1>6 DEF Distinct
  <2>1. n + 1 - i \in 1..n /\ n + 1 - j \in 1..n /\ s[n + 1 - i] = s[n + 1 - j]
    BY <1>4, <1>6
  <2>2. \A k, m \in 1..n : s[k] = s[m] => k = m
    BY <1>1, <1>3 DEF Distinct
  <2>3. n + 1 - i = n + 1 - j
    BY <2>1, <2>2
  <2> QED
    BY <1>4, <2>3
<1>8. \A i \in 0..n + 1 : Nth(r, i) = Nth(s, n + 1 - i)
  BY <1>3, <1>6 DEF Nth
<1>9. ASSUME NEW i \in 1..Len(r)
      PROVE  pv[r[i]] = Nth(r, i + 1)
  <2>1. i \in 1..n /\ n + 1 - i \in 1..n /\ i + 1 \in 0..n + 1 /\ n + 1 - (i + 1) = (n + 1 - i) - 1
    BY <1>6
  <2>2. pv[s[n + 1 - i]] = Nth(s, (n + 1 - i) - 1)
    BY <1>3, <2>1 DEF Chained
  <2>3. Nth(r, i + 1) = Nth(s, n + 1 - (i + 1))
    BY <1>8, <2>1
  <2> QED
    BY <1>6, <2>1, <2>2, <2>3
<1>10. t = Nth(r, 1)
  <2>1. n + 1 - 1 = n /\ 1 \in 0..n + 1
    OBVIOUS
  <2>2. Nth(r, 1) = Nth(s, n)
    BY <1>8, <2>1
  <2> QED
    BY <1>3, <2>2 DEF Chained
<1>11. Walk(t, pv) = r
  BY <1>6, <1>7, <1>9, <1>10, WalkIs
<1> QED
  BY <1>2, <1>3, <1>5, <1>11 DEF Reversed

-----------------------------------------------------------------------------
\* The inductive invariant: the links of the members are those of one list,
\* whose ends head and tail are; the current object is in it, if one is; and
\* the count is that of its objects, except in a list that is empty.
ListInv ==
    /\ next \in [Object -> Pointer] /\ prev \in [Object -> Pointer]
    /\ Chained(Forward, next, prev, head, tail)
    /\ members = MembersOf(Forward)
    /\ IF Forward = <<>> THEN current = NULL /\ count \in Garbage \cup {0}
                         ELSE current \in members /\ count = Len(Forward)

\* Where an object of the list stands.
LEMMA PositionIs ==
    ASSUME NEW s \in Seq(Object), Distinct(s), NEW k \in 1..Len(s)
    PROVE  s[k] # NULL /\ (CHOOSE i \in DOMAIN s : s[i] = s[k]) = k
<1>1. s[k] \in Object /\ DOMAIN s = 1..Len(s)
  BY ElementOfSeq, LenProperties
<1> QED
  BY <1>1, DLAssumption DEF Distinct

\* A step after which a list u is linked establishes the invariant and tells
\* what the list is then.
LEMMA ListThen ==
    ASSUME NEW u, Chained(u, next', prev', head', tail'),
           next' \in [Object -> Pointer], prev' \in [Object -> Pointer],
           members' = MembersOf(u),
           u = <<>> => current' = NULL /\ count' \in Garbage \cup {0},
           u # <<>> => current' \in members' /\ count' = Len(u)
    PROVE  ListInv' /\ Forward' = u
<1>1. Walk(head', next') = u
  BY WalksOfChain
<1>2. Forward' = u
  BY <1>1 DEF Forward
<1> QED
  BY <1>2 DEF ListInv

\* The current object of the next state.
LEMMA PositionThen ==
    ASSUME NEW u \in Seq(Object), Distinct(u), Forward' = u
    PROVE  /\ current' = NULL => Position' = 0
           /\ \A k \in 1..Len(u) : current' = u[k] => Position' = k
BY PositionIs DEF Position

\* The same of this state.
LEMMA PositionNow ==
    ASSUME NEW u \in Seq(Object), Distinct(u), Forward = u
    PROVE  /\ current = NULL => Position = 0
           /\ \A k \in 1..Len(u) : current = u[k] => Position = k
BY PositionIs DEF Position

-----------------------------------------------------------------------------
\* The links after o was put at position k of s.
LinkedAt(s, k, o) ==
    /\ next' \in [Object -> Pointer] /\ prev' \in [Object -> Pointer]
    /\ Splice(s, k, o, next, prev, head, tail, next', prev', head', tail')
    /\ current' = o /\ count' = Len(s) + 1

\* An object that is linked there is there in the list.
LEMMA InsertStep ==
    ASSUME NEW s \in Seq(Object), ListInv, s = Forward, NEW k \in 1..Len(s) + 1, NEW o \in Object,
           Added(o), LinkedAt(s, k, o)
    PROVE  ListInv' /\ AsList!Insert(k, o)
<1>1. Chained(s, next, prev, head, tail) /\ members = MembersOf(s) /\ Len(s) \in Nat
  BY LenProperties DEF ListInv
<1>2. o \notin MembersOf(s) /\ members' = MembersOf(s) \cup {o}
  BY <1>1 DEF Added
<1>3. PICK u : u = AsList!InsertAt(s, k, o)
  OBVIOUS
<1>4. Chained(u, next', prev', head', tail') /\ MembersOf(u) = MembersOf(s) \cup {o}
  BY <1>1, <1>2, <1>3, ChainInserted DEF LinkedAt
<1>5. u \in Seq(Object) /\ Len(u) = Len(s) + 1 /\ u[k] = o /\ Distinct(u)
  <2>1. With(u, s, k, o)
    BY <1>3, InsertedIs
  <2> QED
    BY <1>4, <2>1 DEF With, Chained
<1>6. u # <<>>
  BY <1>1, <1>5, EmptySeq
<1>7. ListInv' /\ Forward' = u
  BY <1>2, <1>4, <1>5, <1>6, ListThen DEF LinkedAt
<1>8. k \in 1..Len(u) /\ Position' = k
  <2>1. k \in 1..Len(u)
    BY <1>1, <1>5
  <2> QED
    BY <1>5, <1>7, <2>1, PositionThen DEF LinkedAt
<1>9. o \notin AsList!ToSet(Forward)
  <2>1. DOMAIN s = 1..Len(s)
    BY LenProperties
  <2> QED
    BY <1>2, <2>1 DEF AsList!ToSet, MembersOf
<1> QED
  BY <1>3, <1>5, <1>7, <1>8, <1>9 DEF AsList!Insert, LinkedAt

\* The first object.
LEMMA InitListStep ==
    ASSUME ListInv, NEW o \in Object, Added(o), Forward = <<>>, initList(o)
    PROVE  ListInv' /\ AsList!Insert(1, o)
<1>1. PICK s \in Seq(Object) : s = Forward
  BY EmptySeq
<1>2. Len(s) = 0 /\ 1 \in 1..Len(s) + 1 /\ 1 - 1 = 0 /\ 1 = Len(s) + 1 /\ 1..Len(s) = {}
  BY <1>1, EmptySeq
<1>3. Nth(s, 1) = NULL /\ Nth(s, 1 - 1) = NULL
  BY <1>2 DEF Nth
<1>4. /\ next' = [next EXCEPT ![o] = NULL] /\ prev' = [prev EXCEPT ![o] = NULL]
      /\ head' = o /\ tail' = o /\ current' = o /\ count' = 1
  BY DEF initList
<1>5. /\ next' \in [Object -> Pointer] /\ prev' \in [Object -> Pointer]
      /\ next'[o] = NULL /\ prev'[o] = NULL
  BY <1>4 DEF ListInv, Pointer
<1>6. LinkedAt(s, 1, o)
  BY <1>2, <1>3, <1>4, <1>5 DEF LinkedAt, Splice
<1> QED
  BY <1>1, <1>2, <1>6, InsertStep

\* addBefore: the object comes to stand where the current one stood.
LEMMA LinkBeforeStep ==
    ASSUME NEW s \in Seq(Object), ListInv, s = Forward, NEW k \in 1..Len(s), NEW o \in Object,
           Added(o), LinkBefore(s[k], o)
    PROVE  ListInv' /\ AsList!Insert(k, o)
<1>1. /\ Chained(s, next, prev, head, tail) /\ members = MembersOf(s) /\ Len(s) \in Nat
      /\ next \in [Object -> Pointer] /\ prev \in [Object -> Pointer]
      /\ count = Len(s)
  BY LenProperties, EmptySeq DEF ListInv
<1>2. /\ \A i \in 1..Len(s) : s[i] \in Object /\ s[i] # NULL /\ s[i] # o
      /\ \A i, j \in 1..Len(s) : s[i] = s[j] => i = j
      /\ next[s[k]] = Nth(s, k + 1) /\ prev[s[k]] = Nth(s, k - 1)
  BY <1>1, ElementOfSeq, DLAssumption DEF Added, MembersOf, Chained, Distinct
<1>3. PICK c \in Object : c = s[k] /\ c # NULL /\ c # o
  BY <1>2
<1>4. PICK b \in Pointer : b = Nth(s, k - 1) /\ b = prev[c]
  BY <1>1, <1>2, <1>3
<1>5. /\ next' = Set([next EXCEPT ![o] = c], b, o)
      /\ prev' = [prev EXCEPT ![o] = b, ![c] = o]
      /\ head' = IF b = NULL THEN o ELSE head
      /\ tail' = tail /\ current' = o /\ count' = count + 1
  BY <1>3, <1>4 DEF LinkBefore
<1>6. b # o /\ (b = NULL <=> k = 1) /\ (b # NULL => k - 1 \in 1..Len(s) /\ b = s[k - 1])
  <2>1. k = 1 \/ (k # 1 /\ k - 1 \in 1..Len(s))
    BY <1>1
  <2>2. k = 1 => b = NULL
    BY <1>1, <1>4 DEF Nth
  <2>3. k # 1 => b = s[k - 1]
    BY <1>4, <2>1 DEF Nth
  <2> QED
    BY <1>2, <2>1, <2>2, <2>3, DLAssumption
<1>7. /\ prev' \in [Object -> Pointer] /\ prev'[o] = b
      /\ \A x \in Object : x # o => prev'[x] = IF x = c THEN o ELSE prev[x]
  BY <1>1, <1>3, <1>5 DEF Pointer
<1>8. /\ next' \in [Object -> Pointer] /\ next'[o] = c
      /\ \A x \in Object : x # o => next'[x] = IF x = b THEN o ELSE next[x]
  <2>1. CASE b = NULL
    BY <1>1, <1>5, <2>1, DLAssumption DEF Set, Pointer
  <2>2. CASE b # NULL
    <3>1. b \in Object
      BY <2>2 DEF Pointer
    <3> QED
      BY <1>1, <1>5, <1>6, <2>2, <3>1 DEF Set, Pointer
  <2> QED
    BY <2>1, <2>2
<1>9. ASSUME NEW i \in 1..Len(s)
      PROVE  /\ next'[s[i]] = IF i = k - 1 THEN o ELSE next[s[i]]
             /\ prev'[s[i]] = IF i = k THEN o ELSE prev[s[i]]
  <2>1. s[i] = c <=> i = k
    BY <1>2, <1>3
  <2>2. s[i] = b <=> i = k - 1
    <3>1. CASE b = NULL
      BY <1>2, <1>6, <3>1
    <3>2. CASE b # NULL
      BY <1>2, <1>6, <3>2
    <3> QED
      BY <3>1, <3>2
  <2> QED
    BY <1>2, <1>7, <1>8, <2>1, <2>2
<1>10. k \in 1..Len(s) + 1 /\ k # Len(s) + 1 /\ Nth(s, k) = c
  BY <1>1, <1>3 DEF Nth
<1>11. /\ head' = IF k = 1 THEN o ELSE head
       /\ tail' = IF k = Len(s) + 1 THEN o ELSE tail
       /\ count' = Len(s) + 1
  BY <1>1, <1>5, <1>6, <1>10
<1>12. LinkedAt(s, k, o)
  BY <1>4, <1>5, <1>7, <1>8, <1>9, <1>10, <1>11 DEF LinkedAt, Splice
<1> QED
  BY <1>10, <1>12, InsertStep

\* addAfter: the object comes to stand behind the current one.
LEMMA LinkAfterStep ==
    ASSUME NEW s \in Seq(Object), ListInv, s = Forward, NEW k \in 1..Len(s), NEW o \in Object,
           Added(o), LinkAfter(s[k], o)
    PROVE  ListInv' /\ AsList!Insert(k + 1, o)
<1>1. /\ Chained(s, next, prev, head, tail) /\ members = MembersOf(s) /\ Len(s) \in Nat
      /\ next \in [Object -> Pointer] /\ prev \in [Object -> Pointer]
      /\ count = Len(s)
  BY LenProperties, EmptySeq DEF ListInv
<1>2. /\ \A i \in 1..Len(s) : s[i] \in Object /\ s[i] # NULL /\ s[i] # o
      /\ \A i, j \in 1..Len(s) : s[i] = s[j] => i = j
      /\ next[s[k]] = Nth(s, k + 1) /\ prev[s[k]] = Nth(s, k - 1)
  BY <1>1, ElementOfSeq, DLAssumption DEF Added, MembersOf, Chained, Distinct
<1>3. PICK c \in Object : c = s[k] /\ c # NULL /\ c # o
  BY <1>2
<1>4. PICK a \in Pointer : a = Nth(s, k + 1) /\ a = next[c]
  BY <1>1, <1>2, <1>3
<1>5. /\ next' = [next EXCEPT ![o] = a, ![c] = o]
      /\ prev' = Set([prev EXCEPT ![o] = c], a, o)
      /\ tail' = IF a = NULL THEN o ELSE tail
      /\ head' = head /\ current' = o /\ count' = count + 1
  BY <1>3, <1>4 DEF LinkAfter
<1>6. a # o /\ (a = NULL <=> k = Len(s)) /\ (a # NULL => k + 1 \in 1..Len(s) /\ a = s[k + 1])
  <2>1. k = Len(s) \/ (k # Len(s) /\ k + 1 \in 1..Len(s))
    BY <1>1
  <2>2. k = Len(s) => a = NULL
    BY <1>1, <1>4 DEF Nth
  <2>3. k # Len(s) => a = s[k + 1]
    BY <1>4, <2>1 DEF Nth
  <2> QED
    BY <1>2, <2>1, <2>2, <2>3, DLAssumption
<1>7. /\ next' \in [Object -> Pointer] /\ next'[o] = a
      /\ \A x \in Object : x # o => next'[x] = IF x = c THEN o ELSE next[x]
  BY <1>1, <1>3, <1>5 DEF Pointer
<1>8. /\ prev' \in [Object -> Pointer] /\ prev'[o] = c
      /\ \A x \in Object : x # o => prev'[x] = IF x = a THEN o ELSE prev[x]
  <2>1. CASE a = NULL
    BY <1>1, <1>5, <2>1, DLAssumption DEF Set, Pointer
  <2>2. CASE a # NULL
    <3>1. a \in Object
      BY <2>2 DEF Pointer
    <3> QED
      BY <1>1, <1>5, <1>6, <2>2, <3>1 DEF Set, Pointer
  <2> QED
    BY <2>1, <2>2
<1>9. PICK m \in 1..Len(s) + 1 : m = k + 1 /\ m - 1 = k
  BY <1>1
<1>10. ASSUME NEW i \in 1..Len(s)
       PROVE  /\ next'[s[i]] = IF i = m - 1 THEN o ELSE next[s[i]]
              /\ prev'[s[i]] = IF i = m THEN o ELSE prev[s[i]]
  <2>1. s[i] = c <=> i = m - 1
    BY <1>2, <1>3, <1>9
  <2>2. s[i] = a <=> i = m
    <3>1. CASE a = NULL
      BY <1>2, <1>6, <1>9, <3>1
    <3>2. CASE a # NULL
      BY <1>2, <1>6, <1>9, <3>2
    <3> QED
      BY <3>1, <3>2
  <2> QED
    BY <1>2, <1>7, <1>8, <2>1, <2>2
<1>11. Nth(s, m) = a /\ Nth(s, m - 1) = c /\ m # 1 /\ (m = Len(s) + 1 <=> k = Len(s))
  BY <1>1, <1>3, <1>4, <1>9 DEF Nth
<1>12. /\ head' = IF m = 1 THEN o ELSE head
       /\ tail' = IF m = Len(s) + 1 THEN o ELSE tail
       /\ count' = Len(s) + 1
  BY <1>1, <1>5, <1>6, <1>11
<1>13. LinkedAt(s, m, o)
  BY <1>5, <1>7, <1>8, <1>10, <1>11, <1>12 DEF LinkedAt, Splice
<1>14. ListInv' /\ AsList!Insert(m, o)
  BY <1>13, InsertStep
<1> QED
  BY <1>9, <1>14

-----------------------------------------------------------------------------
\* The links after the member at position k of s was taken out.
UnlinkedAt(s, k) ==
    /\ next' \in [Object -> Pointer] /\ prev' \in [Object -> Pointer]
    /\ Bypass(s, k, next, prev, head, tail, next', prev', head', tail')
    /\ current' = IF k = Len(s) THEN Nth(s, k - 1) ELSE Nth(s, k + 1)
    /\ count' = Len(s) - 1
    /\ members' = members \ {s[k]}

\* A member that is unlinked there is taken out there.
LEMMA DeleteStep ==
    ASSUME NEW s \in Seq(Object), ListInv, s = Forward, NEW k \in 1..Len(s), UnlinkedAt(s, k)
    PROVE  ListInv' /\ AsList!Delete(k)
<1>1. Chained(s, next, prev, head, tail) /\ members = MembersOf(s) /\ Len(s) \in Nat
  BY LenProperties DEF ListInv
<1>2. PICK u : u = AsList!RemoveAt(s, k)
  OBVIOUS
<1>3. Chained(u, next', prev', head', tail') /\ MembersOf(u) = MembersOf(s) \ {s[k]}
  <2>1. Bypass(s, k, next, prev, head, tail, next', prev', head', tail')
    BY DEF UnlinkedAt
  <2> QED
    BY <1>1, <1>2, <2>1, ChainRemoved
<1>4. /\ u \in Seq(Object) /\ Len(u) = Len(s) - 1 /\ Distinct(u)
      /\ \A j \in 1..k - 1 : u[j] = s[j]
      /\ \A j \in k..Len(s) - 1 : u[j] = s[j + 1]
  <2>1. Without(u, s, k)
    BY <1>2, RemovedIs
  <2> QED
    BY <1>3, <2>1 DEF Without, Chained
<1>5. members' = MembersOf(u) /\ count' = Len(u)
  BY <1>1, <1>3, <1>4 DEF UnlinkedAt
<1>6. PICK at \in 0..Len(u) : at = IF k <= Len(u) THEN k ELSE Len(u)
  BY <1>1, <1>4
<1>7. (at = 0 => Len(u) = 0 /\ current' = NULL) /\ (at # 0 => at \in 1..Len(u) /\ current' = u[at])
  <2>1. CASE k = Len(s) /\ k = 1
    BY <1>1, <1>4, <1>6, <2>1 DEF UnlinkedAt, Nth
  <2>2. CASE k = Len(s) /\ k # 1
    <3>1. k - 1 \in 1..Len(s) /\ k - 1 \in 1..k - 1 /\ at = k - 1 /\ at # 0 /\ at \in 1..Len(u)
      BY <1>1, <1>4, <1>6, <2>2
    <3>2. current' = s[k - 1] /\ u[k - 1] = s[k - 1]
      BY <1>4, <2>2, <3>1 DEF UnlinkedAt, Nth
    <3> QED
      BY <3>1, <3>2
  <2>3. CASE k # Len(s)
    <3>1. k + 1 \in 1..Len(s) /\ k \in k..Len(s) - 1 /\ at = k /\ at # 0 /\ at \in 1..Len(u)
      BY <1>1, <1>4, <1>6, <2>3
    <3>2. current' = s[k + 1] /\ u[k] = s[k + 1]
      BY <1>4, <2>3, <3>1 DEF UnlinkedAt, Nth
    <3> QED
      BY <3>1, <3>2
  <2> QED
    BY <2>1, <2>2, <2>3
<1>8. u = <<>> <=> at = 0
  <2>1. u = <<>> <=> Len(u) = 0
    BY <1>4, EmptySeq
  <2> QED
    BY <1>7, <2>1
<1>9. (u = <<>> => current' = NULL /\ count' \in Garbage \cup {0}) /\ (u # <<>> => current' \in members')
  <2>1. u = <<>> => Len(u) = 0
    BY EmptySeq
  <2> QED
    BY <1>5, <1>7, <1>8, <2>1 DEF MembersOf
<1>10. next' \in [Object -> Pointer] /\ prev' \in [Object -> Pointer]
  BY DEF UnlinkedAt
<1>11. ListInv' /\ Forward' = u
  BY <1>3, <1>5, <1>9, <1>10, ListThen
<1>12. Position' = at
  BY <1>4, <1>7, <1>11, PositionThen
<1>13. s # <<>>
  BY EmptySeq
<1>14. ListInv' /\ AsList!Delete(k)
  BY <1>2, <1>5, <1>6, <1>11, <1>12, <1>13 DEF AsList!Delete
<1> QED
  BY <1>14

\* remove and pop take out what they name.
LEMMA UnlinkStep ==
    ASSUME NEW s \in Seq(Object), ListInv, s = Forward, NEW k \in 1..Len(s), Unlink(s[k])
    PROVE  ListInv' /\ AsList!Delete(k)
<1>1. /\ Chained(s, next, prev, head, tail) /\ Len(s) \in Nat /\ s # <<>>
      /\ next \in [Object -> Pointer] /\ prev \in [Object -> Pointer]
      /\ count = Len(s)
  BY LenProperties, EmptySeq DEF ListInv
<1>2. /\ \A i \in 1..Len(s) : s[i] \in Object /\ s[i] # NULL
      /\ \A i, j \in 1..Len(s) : s[i] = s[j] => i = j
      /\ next[s[k]] = Nth(s, k + 1) /\ prev[s[k]] = Nth(s, k - 1)
  BY <1>1, ElementOfSeq, DLAssumption DEF Chained, Distinct
<1>3. PICK c \in Object : c = s[k] /\ c # NULL
  BY <1>2
<1>4. PICK a \in Pointer : a = Nth(s, k + 1) /\ a = next[c]
  BY <1>1, <1>2, <1>3
<1>5. PICK b \in Pointer : b = Nth(s, k - 1) /\ b = prev[c]
  BY <1>1, <1>2, <1>3
<1>6. (a = NULL <=> k = Len(s)) /\ (a # NULL => k + 1 \in 1..Len(s) /\ a = s[k + 1])
  <2>1. (k = Len(s) /\ k + 1 \notin 1..Len(s)) \/ (k # Len(s) /\ k + 1 \in 1..Len(s))
    BY <1>1
  <2> QED
    BY <1>2, <1>4, <2>1 DEF Nth
<1>7. (b = NULL <=> k = 1) /\ (b # NULL => k - 1 \in 1..Len(s) /\ b = s[k - 1])
  <2>1. (k = 1 /\ k - 1 \notin 1..Len(s)) \/ (k # 1 /\ k - 1 \in 1..Len(s))
    BY <1>1
  <2> QED
    BY <1>2, <1>5, <2>1 DEF Nth
<1>8. (c = head <=> k = 1) /\ (c = tail <=> k = Len(s))
  <2>1. 1 \in 1..Len(s) /\ Len(s) \in 1..Len(s)
    BY <1>1
  <2>2. head = s[1] /\ tail = s[Len(s)]
    BY <1>1, <2>1 DEF Chained, Nth
  <2> QED
    BY <1>2, <1>3, <2>1, <2>2
<1>9. ASSUME NEW i \in 1..Len(s)
      PROVE  (s[i] = a <=> i = k + 1) /\ (s[i] = b <=> i = k - 1)
  <2>1. s[i] = a <=> i = k + 1
    <3>1. CASE a = NULL
      BY <1>1, <1>2, <1>6, <3>1
    <3>2. CASE a # NULL
      BY <1>2, <1>6, <3>2
    <3> QED
      BY <3>1, <3>2
  <2>2. s[i] = b <=> i = k - 1
    <3>1. CASE b = NULL
      BY <1>1, <1>2, <1>7, <3>1
    <3>2. CASE b # NULL
      BY <1>2, <1>7, <3>2
    <3> QED
      BY <3>1, <3>2
  <2> QED
    BY <2>1, <2>2
<1>10. count' = Len(s) - 1 /\ members' = members \ {s[k]}
  BY <1>1, <1>3 DEF Unlink
<1>11. CASE k = 1
  <2>1. /\ next' = next /\ prev' = Set(prev, a, NULL)
        /\ current' = a /\ head' = a /\ tail' = IF a = NULL THEN NULL ELSE tail
    BY <1>3, <1>4, <1>8, <1>11 DEF Unlink, UnlinkHead
  <2>2. /\ prev' \in [Object -> Pointer]
        /\ \A x \in Object : prev'[x] = IF x = a THEN NULL ELSE prev[x]
    <3>1. CASE a = NULL
      BY <1>1, <2>1, <3>1, DLAssumption DEF Set
    <3>2. CASE a # NULL
      BY <1>1, <2>1, <3>2 DEF Set, Pointer
    <3> QED
      BY <3>1, <3>2
  <2>3. b = NULL /\ Nth(s, 2) = a /\ (k = Len(s) => Nth(s, Len(s) - 1) = NULL /\ a = NULL)
    BY <1>4, <1>5, <1>6, <1>7, <1>11
  <2>4. ASSUME NEW i \in 1..Len(s)
        PROVE  prev'[s[i]] = (IF i = k + 1 THEN Nth(s, k - 1) ELSE prev[s[i]]) /\ i # k - 1
    BY <1>2, <1>5, <1>9, <1>11, <2>2, <2>3
  <2>5. UnlinkedAt(s, k)
    BY <1>1, <1>4, <1>5, <1>6, <1>10, <1>11, <2>1, <2>2, <2>3, <2>4 DEF UnlinkedAt, Bypass
  <2> QED
    BY <2>5, DeleteStep
<1>12. CASE k # 1 /\ k = Len(s)
  <2>1. /\ prev' = prev /\ next' = Set(next, b, NULL)
        /\ current' = b /\ tail' = b /\ head' = IF b = NULL THEN NULL ELSE head
    BY <1>3, <1>5, <1>8, <1>12 DEF Unlink, UnlinkTail
  <2>2. b # NULL /\ b \in Object /\ a = NULL
    BY <1>6, <1>7, <1>12 DEF Pointer
  <2>3. /\ next' \in [Object -> Pointer]
        /\ \A x \in Object : next'[x] = IF x = b THEN NULL ELSE next[x]
    BY <1>1, <2>1, <2>2 DEF Set, Pointer
  <2>4. ASSUME NEW i \in 1..Len(s)
        PROVE  next'[s[i]] = (IF i = k - 1 THEN Nth(s, k + 1) ELSE next[s[i]]) /\ i # k + 1
    BY <1>1, <1>2, <1>4, <1>9, <1>12, <2>2, <2>3
  <2>5. UnlinkedAt(s, k)
    BY <1>1, <1>5, <1>10, <1>12, <2>1, <2>2, <2>3, <2>4 DEF UnlinkedAt, Bypass
  <2> QED
    BY <2>5, DeleteStep
<1>13. CASE k # 1 /\ k # Len(s)
  <2>1. /\ next' = [next EXCEPT ![b] = a] /\ prev' = [prev EXCEPT ![a] = b]
        /\ current' = a /\ head' = head /\ tail' = tail
    BY <1>3, <1>4, <1>5, <1>8, <1>13 DEF Unlink, UnlinkMiddle, ends
  <2>2. a \in Object /\ b \in Object
    BY <1>6, <1>7, <1>13 DEF Pointer
  <2>3. /\ next' \in [Object -> Pointer] /\ prev' \in [Object -> Pointer]
        /\ \A x \in Object : /\ next'[x] = IF x = b THEN a ELSE next[x]
                             /\ prev'[x] = IF x = a THEN b ELSE prev[x]
    BY <1>1, <2>1, <2>2
  <2>4. ASSUME NEW i \in 1..Len(s)
        PROVE  /\ next'[s[i]] = IF i = k - 1 THEN Nth(s, k + 1) ELSE next[s[i]]
               /\ prev'[s[i]] = IF i = k + 1 THEN Nth(s, k - 1) ELSE prev[s[i]]
    BY <1>2, <1>4, <1>5, <1>9, <2>3
  <2>5. UnlinkedAt(s, k)
    BY <1>4, <1>10, <1>13, <2>1, <2>3, <2>4 DEF UnlinkedAt, Bypass
  <2> QED
    BY <2>5, DeleteStep
<1> QED
  BY <1>11, <1>12, <1>13

\* The cursor is moved.
LEMMA MoveStep ==
    ASSUME NEW s \in Seq(Object), ListInv, s = Forward, NEW k \in 1..Len(s), MoveTo(s[k])
    PROVE  /\ ListInv' /\ Forward' = Forward /\ Position' = k /\ count' = count
           /\ s # <<>>
<1>1. /\ Chained(s, next, prev, head, tail) /\ members = MembersOf(s) /\ s # <<>>
      /\ next \in [Object -> Pointer] /\ prev \in [Object -> Pointer]
      /\ count = Len(s)
  BY EmptySeq DEF ListInv
<1>2. UNCHANGED <<next, prev, head, tail, count, members>> /\ current' = s[k]
  BY DEF MoveTo, links, ends
<1>3. current' \in members'
  BY <1>1, <1>2 DEF MembersOf
<1>4. ListInv' /\ Forward' = s
  BY <1>1, <1>2, <1>3, ListThen
<1>5. Position' = k
  BY <1>1, <1>2, <1>4, PositionThen DEF Chained
<1> QED
  BY <1>1, <1>2, <1>4, <1>5

\* Nothing but the count of an empty list changes.
LEMMA StayStep ==
    ASSUME ListInv, UNCHANGED <<links, ends, current, members>>,
           count' = count \/ (Forward = <<>> /\ count' = 0)
    PROVE  ListInv' /\ Forward' = Forward /\ Position' = Position
<1>1. UNCHANGED <<next, prev, head, tail, current, members>>
  BY DEF links, ends
<1>2. Forward' = Forward
  BY <1>1 DEF Forward
<1>3. Position' = Position
  BY <1>1, <1>2 DEF Position
<1> QED
  BY <1>1, <1>2, <1>3 DEF ListInv

\* The list and its current object: there is none, or it stands somewhere.
LEMMA CurrentIs ==
    ASSUME ListInv
    PROVE  \E s \in Seq(Object) :
               /\ s = Forward
               /\ s = <<>> => current = NULL /\ head = NULL /\ tail = NULL
               /\ s # <<>> => /\ current # NULL /\ Position \in 1..Len(s) /\ current = s[Position]
                              /\ 1 \in 1..Len(s) /\ head = s[1]
                              /\ Len(s) \in 1..Len(s) /\ tail = s[Len(s)]
<1>1. PICK s \in Seq(Object) : s = Forward /\ Chained(s, next, prev, head, tail)
  BY DEF ListInv, Chained
<1>2. CASE s = <<>>
  <2>1. Len(s) = 0
    BY <1>2, EmptySeq
  <2>2. head = NULL /\ tail = NULL
    BY <1>1, <2>1 DEF Chained, Nth
  <2>3. current = NULL
    BY <1>1, <1>2 DEF ListInv
  <2> QED
    BY <1>1, <1>2, <2>2, <2>3
<1>3. CASE s # <<>>
  <2>1. 1 \in 1..Len(s) /\ Len(s) \in 1..Len(s)
    BY <1>3, EmptySeq
  <2>2. head = s[1] /\ tail = s[Len(s)]
    BY <1>1, <2>1 DEF Chained, Nth
  <2>3. PICK k \in 1..Len(s) : current = s[k]
    BY <1>1, <1>3 DEF ListInv, MembersOf
  <2>4. current # NULL
    BY <2>3, ElementOfSeq, DLAssumption
  <2>5. Position = k
    BY <1>1, <2>3, PositionNow DEF Chained
  <2> QED
    BY <1>1, <1>3, <2>1, <2>2, <2>3, <2>4, <2>5
<1> QED
  BY <1>2, <1>3

\* Every step keeps the invariant and is a step of CursorList, or changes
\* nothing of it.
LEMMA ListStep ==
    ASSUME ListInv, [ListNext]_listVars
    PROVE  ListInv' /\ [AsList!Next]_<<Forward, Position, count>>
<1>1. PICK s \in Seq(Object) :
        /\ s = Forward
        /\ s = <<>> => current = NULL /\ head = NULL /\ tail = NULL
        /\ s # <<>> => /\ current # NULL /\ Position \in 1..Len(s) /\ current = s[Position]
                       /\ 1 \in 1..Len(s) /\ head = s[1]
                       /\ Len(s) \in 1..Len(s) /\ tail = s[Len(s)]
  BY CurrentIs
<1>2. s = <<>> => Position = 0 /\ Len(s) = 0
  BY <1>1, EmptySeq DEF Position
<1>3. \A k \in 1..Len(s) : s[k] # NULL
  BY ElementOfSeq, DLAssumption
<1>4. ASSUME NEW o \in Object, addBefore(o) \/ addAfter(o) \/ addFirst(o) \/ addLast(o)
      PROVE  ListInv' /\ AsList!Next
  <2>1. Added(o)
    BY <1>4 DEF addBefore, addAfter, addFirst, addLast
  <2>2. \E i \in {1, Position, Position + 1, Len(Forward) + 1} \ {0} : ListInv' /\ AsList!Insert(i, o)
    <3>1. CASE s = <<>>
      <4>1. initList(o)
        BY <1>1, <1>4, <3>1 DEF addBefore, addAfter, addFirst, addLast, LinkBefore, LinkAfter
      <4>2. ListInv' /\ AsList!Insert(1, o)
        BY <1>1, <2>1, <3>1, <4>1, InitListStep
      <4> QED
        BY <4>2
    <3>2. CASE s # <<>> /\ addBefore(o)
      <4>1. ListInv' /\ AsList!Insert(Position, o)
        BY <1>1, <2>1, <3>2, LinkBeforeStep DEF addBefore
      <4>2. Position # 0
        BY <1>1, <3>2
      <4> QED
        BY <4>1, <4>2
    <3>3. CASE s # <<>> /\ addAfter(o)
      <4>1. ListInv' /\ AsList!Insert(Position + 1, o)
        BY <1>1, <2>1, <3>3, LinkAfterStep DEF addAfter
      <4>2. Position + 1 # 0
        BY <1>1, <3>3
      <4> QED
        BY <4>1, <4>2
    <3>4. CASE s # <<>> /\ addFirst(o)
      <4>1. ListInv' /\ AsList!Insert(1, o)
        BY <1>1, <2>1, <3>4, LinkBeforeStep DEF addFirst
      <4> QED
        BY <4>1
    <3>5. CASE s # <<>> /\ addLast(o)
      <4>1. ListInv' /\ AsList!Insert(Len(s) + 1, o)
        BY <1>1, <2>1, <3>5, LinkAfterStep DEF addLast
      <4>2. Len(s) + 1 # 0
        BY <1>1, <3>5
      <4> QED
        BY <1>1, <4>1, <4>2
    <3> QED
      BY <1>4, <3>1, <3>2, <3>3, <3>4, <3>5
  <2> QED
    BY <2>2 DEF AsList!Next, AsList!Add
<1>5. CASE remove \/ pop
  <2>1. s # <<>>
    BY <1>1, <1>5 DEF remove, pop, Unlink
  <2>2. CASE remove
    <3>1. ListInv' /\ AsList!Delete(Position)
      BY <1>1, <2>1, <2>2, UnlinkStep DEF remove
    <3> QED
      BY <3>1 DEF AsList!Next
  <2>3. CASE pop
    <3>1. ListInv' /\ AsList!Delete(Len(s))
      BY <1>1, <2>1, <2>3, UnlinkStep DEF pop
    <3> QED
      BY <1>1, <3>1 DEF AsList!Next
  <2> QED
    BY <1>5, <2>2, <2>3
<1>6. CASE removeFromEmpty
  <2>1. Forward = <<>> /\ UNCHANGED <<links, ends, current, members>> /\ count' = 0
    BY <1>1, <1>6 DEF removeFromEmpty
  <2>2. ListInv' /\ Forward' = Forward /\ Position' = Position
    BY <2>1, StayStep
  <2> QED
    BY <2>1, <2>2 DEF AsList!Next, AsList!DeleteFromEmpty
<1>7. CASE UNCHANGED listVars
  <2>1. UNCHANGED <<links, ends, current, members>> /\ count' = count
    BY <1>7 DEF listVars
  <2> QED
    BY <2>1, StayStep
<1>8. CASE s = <<>> /\ (gotoStart \/ gotoEnd)
  <2>1. UNCHANGED <<links, ends, current, members>> /\ count' = count
    BY <1>1, <1>8 DEF gotoStart, gotoEnd, MoveTo
  <2> QED
    BY <2>1, StayStep
<1>9. CASE \/ stepForward \/ stepBackward
           \/ s # <<>> /\ (gotoStart \/ gotoEnd)
  <2>1. s # <<>>
    BY <1>1, <1>9 DEF stepForward, stepBackward
  <2>2. Chained(s, next, prev, head, tail) /\ Len(s) \in Nat
    BY <1>1, LenProperties DEF ListInv
  <2>3. next[current] = Nth(s, Position + 1) /\ prev[current] = Nth(s, Position - 1)
    BY <1>1, <2>1, <2>2 DEF Chained
  <2>4. \E k \in {1, Position - 1, Position + 1, Len(s)} \cap (1..Len(s)) : MoveTo(s[k])
    <3>1. CASE stepForward
      <4>1. Nth(s, Position + 1) # NULL /\ MoveTo(Nth(s, Position + 1))
        BY <2>3, <3>1 DEF stepForward
      <4>2. Position + 1 \in 1..Len(s) /\ Nth(s, Position + 1) = s[Position + 1]
        BY <4>1 DEF Nth
      <4> QED
        BY <4>1, <4>2
    <3>2. CASE stepBackward
      <4>1. Nth(s, Position - 1) # NULL /\ MoveTo(Nth(s, Position - 1))
        BY <2>3, <3>2 DEF stepBackward
      <4>2. Position - 1 \in 1..Len(s) /\ Nth(s, Position - 1) = s[Position - 1]
        BY <4>1 DEF Nth
      <4> QED
        BY <4>1, <4>2
    <3>3. CASE gotoStart
      BY <1>1, <2>1, <3>3 DEF gotoStart
    <3>4. CASE gotoEnd
      BY <1>1, <2>1, <3>4 DEF gotoEnd
    <3> QED
      BY <1>9, <3>1, <3>2, <3>3, <3>4
  <2>5. PICK k \in {1, Position - 1, Position + 1, Len(s)} \cap (1..Len(s)) : MoveTo(s[k])
    BY <2>4
  <2>6. ListInv' /\ Forward' = Forward /\ Position' = k /\ count' = count
    BY <1>1, <2>5, MoveStep
  <2> QED
    BY <1>1, <2>1, <2>5, <2>6 DEF AsList!Next, AsList!Move
<1> QED
  BY <1>4, <1>5, <1>6, <1>7, <1>8, <1>9 DEF ListNext

\* A new list is empty.
LEMMA ListStart ==
    ASSUME ListInit
    PROVE  ListInv /\ AsList!Init
<1>0. << >> \in Seq(Object) /\ Len(<< >>) = 0 /\ 1..0 = {}
  BY EmptySeq
<1>1. PICK s \in Seq(Object) : s = <<>> /\ Len(s) = 0 /\ 1..Len(s) = {}
  BY <1>0
<1>2. Chained(s, next, prev, head, tail) /\ MembersOf(s) = {}
  BY <1>1 DEF Chained, Distinct, Nth, MembersOf, ListInit
<1>3. Forward = s
  BY <1>2, WalksOfChain DEF Forward
<1>4. ListInv
  BY <1>1, <1>2, <1>3 DEF ListInv, ListInit, Pointer
<1>5. Position = 0
  BY DEF Position, ListInit
<1> QED
  BY <1>1, <1>3, <1>4, <1>5 DEF AsList!Init, ListInit

\* Every pointer of a list has its type, and its count is that of some of the
\* objects or what the memory held before (DoublyLinkedList, Linkable).
THEOREM ListTypeCorrect == ListSpec => []ListTypeOK
<1>1. ListInv => ListTypeOK
  <2> SUFFICES ASSUME ListInv
               PROVE  ListTypeOK
    OBVIOUS
  <2>1. PICK s \in Seq(Object) : s = Forward /\ Chained(s, next, prev, head, tail) /\ members = MembersOf(s)
    BY DEF ListInv, Chained
  <2>2. \A i \in 1..Len(s) : s[i] \in Object
    BY ElementOfSeq
  <2>3. members \subseteq Object
    BY <2>1, <2>2 DEF MembersOf
  <2>4. head \in Pointer /\ tail \in Pointer
    BY <2>1, <2>2 DEF Chained, Nth, Pointer
  <2>5. Len(s) \in 0..Cardinality(Object) /\ 0 \in 0..Cardinality(Object)
    <3>1. /\ Cardinality(Object) \in Nat /\ Len(s) \in Nat
          /\ Len(s) <= Cardinality(Object)
      BY <2>1, LengthOfDistinct DEF Chained
    <3> QED
      BY <3>1
  <2>6. current \in Pointer /\ count \in Garbage \cup 0..Cardinality(Object)
    BY <2>1, <2>3, <2>5 DEF ListInv, Pointer
  <2> QED
    BY <2>3, <2>4, <2>6 DEF ListInv, ListTypeOK
<1> QED
  BY <1>1, ListStart, ListStep, PTL DEF ListSpec

\* Whatever was added, removed and visited before, the list reads the same in
\* both directions and has what the caller put in (DoublyLinkedList).
THEOREM ListCorrect == ListSpec => []SameBothWays
<1>1. ListInv => SameBothWays
  <2> SUFFICES ASSUME ListInv
               PROVE  SameBothWays
    OBVIOUS
  <2>1. PICK s \in Seq(Object) : s = Forward /\ Chained(s, next, prev, head, tail) /\ members = MembersOf(s)
    BY DEF ListInv, Chained
  <2>2. DOMAIN s = 1..Len(s) /\ Len(s) \in Nat
    BY LenProperties
  <2>3. Cardinality(members) = Len(s)
    BY <2>1, LengthOfDistinct DEF Chained, MembersOf
  <2>4. PICK r : r = Reversed(s) /\ r = Backward
    BY <2>1, WalksOfChain DEF Backward
  <2>5. Len(r) = Len(s) /\ \A i \in 1..Len(s) : r[i] = s[Len(s) + 1 - i]
    BY <2>2, <2>4 DEF Reversed
  <2> QED
    BY <2>1, <2>2, <2>3, <2>4, <2>5 DEF SameBothWays, MembersOf
<1> QED
  BY <1>1, ListStart, ListStep, PTL DEF ListSpec

\* Every operation does to the list of objects what its name says: each step of
\* the pointers is a step of the list with a cursor (DoublyLinkedList).
THEOREM ListImplements == ListSpec => IsCursorList
<1>1. ListInit => AsList!Init
  BY ListStart
<1>2. ListInv /\ [ListNext]_listVars => [AsList!Next]_<<Forward, Position, count>>
  BY ListStep
<1>3. ListInit => ListInv
  BY ListStart
<1>4. ListInv /\ [ListNext]_listVars => ListInv'
  BY ListStep
<1> QED
  BY <1>1, <1>2, <1>3, <1>4, PTL DEF ListSpec, IsCursorList, AsList!Spec
================================================================================
