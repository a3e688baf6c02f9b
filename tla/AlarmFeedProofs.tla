---------------------------- MODULE AlarmFeedProofs ----------------------------
(***************************************************************************)
(* Proofs about AlarmFeed: any number of alarm points and messages, any    *)
(* loss, any reset of the socket.                                          *)
(***************************************************************************)
EXTENDS AlarmFeed, SequenceTheorems, TLAPS

-----------------------------------------------------------------------------
(***************************************************************************)
(* The inductive invariant behind NoAlarmForgotten.                        *)
(***************************************************************************)

About(m, kind, a) == m.kind = kind /\ m.addr = a

Coming(p, a) == \E j \in 1..Len(p) : About(p[j], "NEW", a)

\* Every message in p that ends the state of the alarm is followed by a NEW one.
Outlived(p, end, a) ==
    \A i \in 1..Len(p) :
        About(p[i], end, a) => \E j \in (i + 1)..Len(p) : About(p[j], "NEW", a)

\* The same with the message that the listener is about to apply.
Due(a) == Coming(channel, a) \/ (pc = "store" /\ About(msg, "NEW", a))

NotEnding(end, a) ==
    /\ Outlived(channel, end, a)
    /\ pc = "store" /\ About(msg, end, a) => Coming(channel, a)

\* No message on its way ends what the server holds, and the NEW message is on its
\* way or has been applied; for an alarm that is on, no CLEAR since then, after
\* which an ACK would take it away.
AlarmInv ==
    lost = 0 /\ ~callback =>
        /\ \A a \in active :
               /\ NotEnding("CLEAR", a)
               /\ Due(a) \/ (alarms[a] # None /\ ~Cleared(alarms[a]))
        /\ \A a \in unacked :
               /\ NotEnding("ACK", a)
               /\ Due(a) \/ alarms[a] # None

\* Each message sent is in the socket at most once.
Conserved == lost + Len(channel) <= sent

-----------------------------------------------------------------------------
\* What the proofs need of the constants.
LEMMA Constants ==
    /\ Address # {} /\ None \notin Address /\ None \notin Message
    /\ MaxSent \in Nat /\ MaxOthers \in Nat /\ MaxLost \in Nat /\ MaxResets \in Nat
  BY AFAssumption

-----------------------------------------------------------------------------
(***************************************************************************)
(* Types.                                                                  *)
(***************************************************************************)

Typed == TypeOK /\ Conserved /\ (pc \in {"call", "store"} => msg \in Message)

ServerSends ==
    \/ \E a \in Address : RaiseAlarm(a) \/ ClearAlarm(a) \/ Acknowledge(a)
    \/ SendOther

\* What the server sends, and what changes with it.
LEMMA WhatIsSent ==
    ASSUME ServerSends
    PROVE  \E kind \in Kind, a \in Address :
             /\ Send(kind, a)
             /\ \/ kind = "NEW" /\ a \notin active /\ active' = active \cup {a} /\ unacked' = unacked \cup {a}
                \/ kind = "CLEAR" /\ a \in active /\ active' = active \ {a} /\ unacked' = unacked
                \/ kind = "ACK" /\ a \in unacked /\ active' = active /\ unacked' = unacked \ {a}
                \/ kind \in {"OTHER", "BARE"} /\ active' = active /\ unacked' = unacked
             /\ others' = (IF kind = "OTHER" THEN others + 1 ELSE others)
<1>1. ASSUME NEW a \in Address, RaiseAlarm(a) \/ ClearAlarm(a) \/ Acknowledge(a)
      PROVE  \E kind \in {"NEW", "CLEAR", "ACK"} :
               /\ Send(kind, a)
               /\ \/ kind = "NEW" /\ a \notin active /\ active' = active \cup {a} /\ unacked' = unacked \cup {a}
                  \/ kind = "CLEAR" /\ a \in active /\ active' = active \ {a} /\ unacked' = unacked
                  \/ kind = "ACK" /\ a \in unacked /\ active' = active /\ unacked' = unacked \ {a}
               /\ others' = others
  BY <1>1 DEF RaiseAlarm, ClearAlarm, Acknowledge
<1>2. ASSUME SendOther
      PROVE  \E kind \in {"OTHER", "BARE"} :
               /\ Send(kind, Unread) /\ active' = active /\ unacked' = unacked
               /\ others' = (IF kind = "OTHER" THEN others + 1 ELSE others)
  BY <1>2 DEF SendOther, server
<1>3. Unread \in Address
  BY Constants DEF Unread
<1> QED
  BY <1>1, <1>2, <1>3 DEF ServerSends, Kind

\* What a datagram that is sent does to the counters and the socket.
LEMMA SendTyped ==
    ASSUME Typed, NEW kind \in Kind, NEW a \in Address, Send(kind, a)
    PROVE  /\ channel' \in Seq(Message) /\ sent' \in 0..MaxSent /\ lost' \in 0..MaxSent
           /\ lost' + Len(channel') <= sent'
<1> DEFINE m == [no |-> sent + 1, kind |-> kind, addr |-> a]
<1>1. /\ channel \in Seq(Message) /\ Len(channel) \in Nat
      /\ sent \in 0..MaxSent /\ lost \in 0..MaxSent /\ lost + Len(channel) <= sent
      /\ MaxSent \in Nat
  BY Constants, LenProperties DEF Typed, TypeOK, Conserved
<1>2. sent < MaxSent /\ sent' = sent + 1
  BY DEF Send
<1>3. m \in Message
  BY <1>1, <1>2 DEF Message
<1>4. /\ Append(channel, m) \in Seq(Message)
      /\ Len(Append(channel, m)) = Len(channel) + 1
  BY <1>1, <1>3, AppendProperties
<1>5. \/ channel' = Append(channel, m) /\ lost' = lost
      \/ channel' = channel /\ lost' = lost + 1
  BY DEF Send
<1>6. CASE channel' = Append(channel, m) /\ lost' = lost
  <2>1. Len(channel') = Len(channel) + 1 /\ channel' \in Seq(Message)
    BY <1>4, <1>6
  <2> QED
    BY <1>1, <1>2, <1>6, <2>1
<1>7. CASE channel' = channel /\ lost' = lost + 1
  BY <1>1, <1>2, <1>7
<1> QED
  BY <1>5, <1>6, <1>7

\* What the listener takes from the socket.
LEMMA Taken ==
    ASSUME Typed, channel # <<>>
    PROVE  /\ Head(channel) \in Message /\ Tail(channel) \in Seq(Message)
           /\ Head(channel) = channel[1]
           /\ Len(Tail(channel)) = Len(channel) - 1 /\ Len(channel) \in Nat
           /\ \A i \in 1..(Len(channel) - 1) : Tail(channel)[i] = channel[i + 1]
  BY HeadTailProperties, LenProperties DEF Typed, TypeOK

\* A datagram is taken from the socket.
LEMMA ReceiveTyped ==
    ASSUME Typed, Receive
    PROVE  Typed'
<1>1. /\ channel # <<>> /\ msg' = Head(channel) /\ channel' = Tail(channel)
      /\ UNCHANGED <<active, unacked, sent, others, lost, started, watched, resets, callback, addr, alarms, todo, shown>>
      /\ queue' = Append(queue, msg')
      /\ pc' \in {"call", "store"}
  BY DEF Receive, Changed, server, socket, user
<1>2. msg' \in Message /\ channel' \in Seq(Message) /\ Len(channel') = Len(channel) - 1 /\ Len(channel) \in Nat
  BY <1>1, Taken
<1>5. Append(queue, msg') \in Seq(Message)
  BY <1>2, AppendProperties DEF Typed, TypeOK
<1>6. lost \in Nat /\ sent \in Nat
  BY DEF Typed, TypeOK
<1> QED
  BY <1>1, <1>2, <1>5, <1>6 DEF Typed, TypeOK, Conserved

\* The user's callback takes the queue.
LEMMA CallbackTyped ==
    ASSUME Typed, Callback
    PROVE  Typed'
<1>1. todo \o queue \in Seq(Message) /\ <<>> \in Seq(Message)
  BY ConcatProperties, EmptySeq DEF Typed, TypeOK
<1> QED
  BY <1>1 DEF Callback, Typed, TypeOK, Conserved, server, socket

\* It is applied to the map, perhaps at the address of the one before.
LEMMA StoreTyped ==
    ASSUME Typed, Store
    PROVE  Typed' /\ addr' \in Address \cup {None}
<1>1. /\ UNCHANGED <<active, unacked, channel, sent, others, lost, started, watched, resets, callback, msg,
                      queue, todo, shown>>
      /\ addr' = IF msg.kind \in {"OTHER", "BARE"} THEN addr ELSE msg.addr
      /\ alarms' = alarms \/ alarms' = [alarms EXCEPT ![addr'] = Applied(alarms[addr'], msg)]
      /\ pc' = "read"
  BY DEF Store, server, socket, user
<1>2. msg.addr \in Address /\ addr' \in Address \cup {None}
  BY <1>1 DEF Message, Typed, TypeOK, Store
<1>3. Applied(alarms[addr'], msg) \in Message \cup {None}
  BY DEF Applied, Typed, TypeOK, Store
<1>4. alarms' \in [Address \cup {None} -> Message \cup {None}]
  BY <1>1, <1>2, <1>3 DEF Typed, TypeOK
<1> QED
  BY <1>1, <1>2, <1>4 DEF Typed, TypeOK, Conserved

\* Every step keeps the types.
LEMMA TypedStep == Typed /\ [Next]_vars => Typed'
<1> SUFFICES ASSUME Typed, [Next]_vars
             PROVE  Typed'
  OBVIOUS
<1>1. /\ channel \in Seq(Message) /\ Len(channel) \in Nat
      /\ lost \in Nat /\ sent \in Nat /\ MaxSent \in Nat
  BY Constants, LenProperties DEF Typed, TypeOK
<1>2. ASSUME NEW kind \in Kind, NEW a \in Address, Send(kind, a),
             active' \subseteq Address, unacked' \subseteq Address, others' \in 0..MaxOthers
      PROVE  Typed'
  <2>1. UNCHANGED <<socket, listener, queue, user>>
    BY <1>2 DEF Send
  <2> QED
    BY <1>2, <2>1, SendTyped DEF Typed, TypeOK, Conserved, socket, listener, user
<1>3. ASSUME ServerSends
      PROVE  Typed'
  <2>1. active' \subseteq Address /\ unacked' \subseteq Address /\ others' \in 0..MaxOthers
    BY <1>3, Constants
       DEF ServerSends, RaiseAlarm, ClearAlarm, Acknowledge, SendOther, Typed, TypeOK, server
  <2>2. PICK kind \in Kind, a \in Address : Send(kind, a)
    BY <1>3, WhatIsSent
  <2> QED
    BY <1>2, <2>1, <2>2
<1>4. CASE Register
  BY <1>4 DEF Register, Typed, TypeOK, Conserved, server, listener, user
<1>5. CASE ResetSocket
  <2>1. /\ channel' = <<>> /\ lost' = lost + Len(channel) /\ watched' = FALSE
        /\ resets < MaxResets /\ resets' = resets + 1
        /\ UNCHANGED <<active, unacked, sent, others, started, callback, pc, msg, addr, alarms, queue, todo, shown>>
    BY <1>5 DEF ResetSocket, server, listener, user
  <2>2. channel' \in Seq(Message) /\ Len(channel') = 0
    BY <2>1, EmptySeq
  <2>3. lost' \in 0..MaxSent /\ lost' <= sent /\ resets' \in 0..MaxResets
    BY <1>1, <2>1, Constants DEF Typed, TypeOK, Conserved
  <2>4. Conserved'
    BY <1>1, <2>1, <2>2, <2>3 DEF Conserved
  <2>5. TypeOK'
    BY <2>1, <2>2, <2>3 DEF Typed, TypeOK
  <2> QED
    BY <2>1, <2>4, <2>5 DEF Typed
<1>6. CASE TakeChanges \/ ShowAlarms
  <2>1. <<>> \in Seq(Message)
    BY EmptySeq
  <2>2. \A i \in 1..Len(queue) : queue[i] \in Message
    BY ElementOfSeq DEF Typed, TypeOK
  <2>3. \A i \in 1..Len(queue) : queue[i].no \in 1..MaxSent
    BY <2>2 DEF Message
  <2> QED
    BY <1>6, <2>1, <2>3 DEF TakeChanges, ShowAlarms, Typed, TypeOK, Conserved, server, socket, listener
<1>7. CASE LookUp
  <2>1. Tail(todo) \in Seq(Message)
    BY <1>7, HeadTailProperties DEF LookUp, Typed, TypeOK
  <2> QED
    BY <1>7, <2>1 DEF LookUp, Typed, TypeOK, Conserved, server, socket, listener
<1>8. CASE UNCHANGED vars
  BY <1>8 DEF vars, Typed, TypeOK, Conserved, server, socket, listener, user
<1> QED
  BY <1>3, <1>4, <1>5, <1>6, <1>7, <1>8, ReceiveTyped, CallbackTyped, StoreTyped
     DEF Next, Listener, ServerSends

\* TypeOK of AlarmFeed; the counters stay within what was sent.
THEOREM FeedTyped == Spec => []Typed
<1>1. Init => Typed
  <2> SUFFICES ASSUME Init
               PROVE  Typed
    OBVIOUS
  <2>1. <<>> \in Seq(Message) /\ Len(<<>>) = 0
    BY EmptySeq
  <2>2. alarms \in [Address \cup {None} -> Message \cup {None}] /\ shown \subseteq 1..MaxSent
    BY DEF Init
  <2>3. TypeOK
    <3>1. channel \in Seq(Message) /\ queue \in Seq(Message) /\ todo \in Seq(Message)
      BY <2>1 DEF Init
    <3>2. started \in BOOLEAN /\ watched \in BOOLEAN /\ callback \in BOOLEAN
      BY DEF Init
    <3>3. /\ active \subseteq Address /\ unacked \subseteq Address
          /\ pc \in {"read", "call", "store"} /\ msg \in Message \cup {None} /\ addr \in Address \cup {None}
      BY DEF Init
    <3>4. sent \in 0..MaxSent /\ lost \in 0..MaxSent /\ others \in 0..MaxOthers /\ resets \in 0..MaxResets
      BY Constants DEF Init
    <3> QED
      BY <2>2, <3>1, <3>2, <3>3, <3>4 DEF TypeOK
  <2>4. channel = <<>> /\ lost = 0 /\ sent = 0 /\ pc = "read"
    BY DEF Init
  <2>5. Conserved
    BY <2>1, <2>4 DEF Conserved
  <2> QED
    BY <2>3, <2>4, <2>5 DEF Typed
<1> QED
  BY <1>1, TypedStep, PTL DEF Spec

-----------------------------------------------------------------------------
(***************************************************************************)
(* Messages on their way, in any sequence of them.                         *)
(***************************************************************************)

\* The first one is taken.
LEMMA FirstTaken ==
    ASSUME NEW p \in Seq(Message), p # <<>>, NEW a, NEW end
    PROVE  /\ Coming(p, a) => About(Head(p), "NEW", a) \/ Coming(Tail(p), a)
           /\ Outlived(p, end, a) => /\ Outlived(Tail(p), end, a)
                                     /\ About(Head(p), end, a) => Coming(Tail(p), a)
<1> DEFINE t == Tail(p)
<1>1. /\ Len(p) \in Nat /\ Len(p) > 0 /\ Head(p) = p[1] /\ Len(t) = Len(p) - 1
      /\ \A i \in 1..Len(p) - 1 : t[i] = p[i + 1]
  BY HeadTailProperties, LenProperties, EmptySeq
<1> HIDE DEF t
<1>2. \A i \in 2..Len(p) : i - 1 \in 1..Len(t) /\ t[i - 1] = p[i]
  <2> SUFFICES ASSUME NEW i \in 2..Len(p)
               PROVE  i - 1 \in 1..Len(t) /\ t[i - 1] = p[i]
    OBVIOUS
  <2>1. i - 1 \in 1..Len(p) - 1 /\ (i - 1) + 1 = i
    BY <1>1
  <2> QED
    BY <1>1, <2>1
<1>3. ASSUME Coming(p, a)
      PROVE  About(Head(p), "NEW", a) \/ Coming(t, a)
  <2>1. PICK j \in 1..Len(p) : About(p[j], "NEW", a)
    BY <1>3 DEF Coming
  <2>2. j = 1 \/ j \in 2..Len(p)
    BY <1>1
  <2> QED
    BY <1>1, <1>2, <2>1, <2>2 DEF Coming
<1>4. ASSUME Outlived(p, end, a), About(Head(p), end, a)
      PROVE  Coming(t, a)
  <2>1. 1 \in 1..Len(p) /\ About(p[1], end, a)
    BY <1>1, <1>4
  <2>2. PICK j \in (1 + 1)..Len(p) : About(p[j], "NEW", a)
    BY <1>4, <2>1 DEF Outlived
  <2>3. j - 1 \in 1..Len(t) /\ t[j - 1] = p[j]
    BY <1>2
  <2> QED
    BY <2>2, <2>3 DEF Coming
<1>5. ASSUME Outlived(p, end, a), NEW i \in 1..Len(t), About(t[i], end, a)
      PROVE  \E j \in (i + 1)..Len(t) : About(t[j], "NEW", a)
  <2>1. PICK k \in 2..Len(p) : k = i + 1
    BY <1>1
  <2>2. k \in 1..Len(p) /\ About(p[k], end, a)
    BY <1>1, <1>5, <2>1
  <2>3. PICK j \in (k + 1)..Len(p) : About(p[j], "NEW", a)
    BY <1>5, <2>2 DEF Outlived
  <2>4. j \in 2..Len(p) /\ j - 1 \in (i + 1)..Len(t)
    BY <1>1, <2>1
  <2>5. t[j - 1] = p[j]
    BY <1>2, <2>4
  <2> QED
    BY <2>3, <2>4, <2>5
<1>6. Outlived(p, end, a) => Outlived(t, end, a)
  BY <1>5 DEF Outlived
<1> QED
  BY <1>3, <1>4, <1>6 DEF t

\* Another one is sent.
LEMMA OneSent ==
    ASSUME NEW p \in Seq(Message), NEW m \in Message, NEW a, NEW end, end # "NEW"
    PROVE  /\ Coming(p, a) \/ About(m, "NEW", a) => Coming(Append(p, m), a)
           /\ Outlived(p, end, a) /\ ~About(m, end, a) => Outlived(Append(p, m), end, a)
           /\ About(m, "NEW", a) => Outlived(Append(p, m), end, a)
<1> DEFINE q == Append(p, m)
<1>1. /\ Len(p) \in Nat /\ Len(q) = Len(p) + 1 /\ q[Len(p) + 1] = m
      /\ \A i \in 1..Len(p) : q[i] = p[i] /\ i \in 1..Len(q)
  BY AppendProperties, LenProperties
<1> HIDE DEF q
<1>2. Coming(p, a) => Coming(q, a)
  BY <1>1 DEF Coming
<1>3. About(m, "NEW", a) => Coming(q, a)
  <2>1. Len(p) + 1 \in 1..Len(q)
    BY <1>1
  <2> QED
    BY <1>1, <2>1 DEF Coming
<1>4. ASSUME Outlived(p, end, a) \/ About(m, "NEW", a), ~About(m, end, a),
             NEW i \in 1..Len(q), About(q[i], end, a)
      PROVE  \E j \in (i + 1)..Len(q) : About(q[j], "NEW", a)
  <2>1. i \in 1..Len(p) /\ q[i] = p[i]
    BY <1>1, <1>4
  <2>2. CASE About(m, "NEW", a)
    <3>1. Len(p) + 1 \in (i + 1)..Len(q)
      BY <1>1, <2>1
    <3> QED
      BY <1>1, <2>2, <3>1
  <2>3. CASE Outlived(p, end, a)
    <3>1. PICK j \in (i + 1)..Len(p) : About(p[j], "NEW", a)
      BY <1>4, <2>1, <2>3 DEF Outlived
    <3>2. j \in 1..Len(p) /\ j \in (i + 1)..Len(q)
      BY <1>1, <2>1
    <3>3. q[j] = p[j]
      BY <1>1, <3>2
    <3> QED
      BY <3>1, <3>2, <3>3
  <2> QED
    BY <1>4, <2>2, <2>3
<1>5. About(m, "NEW", a) => ~About(m, end, a)
  BY DEF About
<1> QED
  BY <1>2, <1>3, <1>4, <1>5 DEF Outlived, q

-----------------------------------------------------------------------------
(***************************************************************************)
(* No alarm is forgotten.                                                  *)
(***************************************************************************)

\* What a step that puts m into the socket does to one alarm.
LEMMA AlarmSent ==
    ASSUME Typed, NEW m \in Message, channel' = Append(channel, m), UNCHANGED <<pc, msg>>,
           NEW b, NEW end, end # "NEW"
    PROVE  /\ NotEnding(end, b) /\ ~About(m, end, b) => NotEnding(end, b)'
           /\ Due(b) => Due(b)'
           /\ About(m, "NEW", b) => NotEnding(end, b)' /\ Due(b)'
<1>1. /\ Coming(channel, b) \/ About(m, "NEW", b) => Coming(channel', b)
      /\ Outlived(channel, end, b) /\ ~About(m, end, b) => Outlived(channel', end, b)
      /\ About(m, "NEW", b) => Outlived(channel', end, b)
  BY OneSent DEF Typed, TypeOK
<1> QED
  BY <1>1 DEF NotEnding, Due

\* What the server sends makes up for what it changes.
LEMMA SendStep ==
    ASSUME Typed, AlarmInv, ServerSends
    PROVE  AlarmInv'
<1> SUFFICES ASSUME lost' = 0, ~callback'
             PROVE  /\ \A b \in active' :
                           /\ NotEnding("CLEAR", b)'
                           /\ Due(b)' \/ (alarms'[b] # None /\ ~Cleared(alarms'[b]))
                    /\ \A b \in unacked' :
                           /\ NotEnding("ACK", b)'
                           /\ Due(b)' \/ alarms'[b] # None
  BY DEF AlarmInv
<1>1. PICK kind \in Kind, a \in Address :
        /\ Send(kind, a)
        /\ \/ kind = "NEW" /\ active' = active \cup {a} /\ unacked' = unacked \cup {a}
           \/ kind = "CLEAR" /\ active' = active \ {a} /\ unacked' = unacked
           \/ kind = "ACK" /\ active' = active /\ unacked' = unacked \ {a}
           \/ kind \in {"OTHER", "BARE"} /\ active' = active /\ unacked' = unacked
  BY WhatIsSent
<1>2. /\ channel' = Append(channel, [no |-> sent + 1, kind |-> kind, addr |-> a])
      /\ lost = 0 /\ ~callback /\ UNCHANGED <<pc, msg, alarms>>
      /\ sent < MaxSent /\ sent \in Nat /\ MaxSent \in Nat
  BY <1>1, Constants DEF Send, Typed, TypeOK, listener
<1>3. PICK m \in Message : m.kind = kind /\ m.addr = a /\ channel' = Append(channel, m)
  <2>1. sent + 1 \in 1..MaxSent
    BY <1>2
  <2>2. [no |-> sent + 1, kind |-> kind, addr |-> a] \in Message
    BY <2>1 DEF Message
  <2> QED
    BY <1>2, <2>2
<1>4. ASSUME NEW b \in active'
      PROVE  NotEnding("CLEAR", b)' /\ (Due(b)' \/ (alarms'[b] # None /\ ~Cleared(alarms'[b])))
  <2>1. About(m, "NEW", b) \/ (b \in active /\ ~About(m, "CLEAR", b))
    BY <1>1, <1>3 DEF About
  <2>2. b \in active => NotEnding("CLEAR", b) /\ (Due(b) \/ (alarms[b] # None /\ ~Cleared(alarms[b])))
    BY <1>2 DEF AlarmInv
  <2> QED
    BY <1>2, <1>3, <2>1, <2>2, AlarmSent
<1>5. ASSUME NEW b \in unacked'
      PROVE  NotEnding("ACK", b)' /\ (Due(b)' \/ alarms'[b] # None)
  <2>1. About(m, "NEW", b) \/ (b \in unacked /\ ~About(m, "ACK", b))
    BY <1>1, <1>3 DEF About
  <2>2. b \in unacked => NotEnding("ACK", b) /\ (Due(b) \/ alarms[b] # None)
    BY <1>2 DEF AlarmInv
  <2> QED
    BY <1>2, <1>3, <2>1, <2>2, AlarmSent
<1> QED
  BY <1>4, <1>5

\* The message moves from the socket to the listener's buffer.
LEMMA ReceiveStep ==
    ASSUME Typed, AlarmInv, Receive
    PROVE  AlarmInv'
<1> SUFFICES ASSUME lost' = 0, ~callback'
             PROVE  AlarmInv'
  BY DEF AlarmInv
<1>1. /\ pc = "read" /\ channel # <<>> /\ msg' = Head(channel) /\ channel' = Tail(channel)
      /\ pc' = "store"
      /\ UNCHANGED <<active, unacked, lost, callback, alarms>>
  BY DEF Receive, server
<1>2. ASSUME NEW b, NEW end, NotEnding(end, b)
      PROVE  NotEnding(end, b)'
  <2>1. Outlived(channel, end, b)
    BY <1>2 DEF NotEnding
  <2>2. Outlived(Tail(channel), end, b) /\ (About(Head(channel), end, b) => Coming(Tail(channel), b))
    BY <1>1, <2>1, FirstTaken DEF Typed, TypeOK
  <2> QED
    BY <1>1, <2>2 DEF NotEnding
<1>3. ASSUME NEW b, Due(b)
      PROVE  Due(b)'
  <2>1. Coming(channel, b)
    BY <1>1, <1>3 DEF Due
  <2>2. About(Head(channel), "NEW", b) \/ Coming(Tail(channel), b)
    BY <1>1, <2>1, FirstTaken DEF Typed, TypeOK
  <2> QED
    BY <1>1, <2>2 DEF Due
<1> QED
  BY <1>1, <1>2, <1>3 DEF AlarmInv

\* The message is applied to the map.
LEMMA StoreStep ==
    ASSUME Typed, AlarmInv, Store
    PROVE  AlarmInv'
<1> SUFFICES ASSUME lost' = 0, ~callback'
             PROVE  /\ \A b \in active' :
                           /\ NotEnding("CLEAR", b)'
                           /\ Due(b)' \/ (alarms'[b] # None /\ ~Cleared(alarms'[b]))
                    /\ \A b \in unacked' :
                           /\ NotEnding("ACK", b)'
                           /\ Due(b)' \/ alarms'[b] # None
  BY DEF AlarmInv
<1>1. /\ pc = "store" /\ pc' = "read" /\ lost = 0 /\ ~callback
      /\ UNCHANGED <<active, unacked, channel, msg>>
      /\ addr' = IF msg.kind \in {"OTHER", "BARE"} THEN addr ELSE msg.addr
      /\ alarms' = IF msg.kind = "BARE" THEN alarms
                   ELSE [alarms EXCEPT ![addr'] = Applied(alarms[addr'], msg)]
  BY DEF Store, server
<1>2. /\ active \subseteq Address /\ unacked \subseteq Address
      /\ Address \subseteq DOMAIN alarms
      /\ msg \in Message /\ msg # None
  BY <1>1, Constants DEF Typed, TypeOK
<1>3. ASSUME NEW b \in Address
      PROVE  \/ alarms'[b] = alarms[b] /\ (msg.kind \notin {"OTHER", "BARE"} => msg.addr # b)
             \/ alarms'[b] = Applied(alarms[b], msg) /\ (msg.kind = "OTHER" \/ msg.addr = b)
  BY <1>1, <1>2
<1>4. ASSUME NEW b, NEW end, NotEnding(end, b)
      PROVE  NotEnding(end, b)' /\ (Due(b)' <=> Coming(channel, b)) /\ (About(msg, end, b) => Due(b)')
  BY <1>1, <1>4 DEF NotEnding, Due
<1>5. ASSUME NEW b \in active
      PROVE  NotEnding("CLEAR", b)' /\ (Due(b)' \/ (alarms'[b] # None /\ ~Cleared(alarms'[b])))
  <2>1. NotEnding("CLEAR", b) /\ (Due(b) \/ (alarms[b] # None /\ ~Cleared(alarms[b])))
    BY <1>1, <1>5 DEF AlarmInv
  <2>2. CASE Due(b)'
    BY <1>4, <2>1, <2>2
  <2>3. CASE ~Due(b)'
    <3>1. ~About(msg, "CLEAR", b)
      BY <1>4, <2>1, <2>3
    <3>2. About(msg, "NEW", b) \/ (alarms[b] # None /\ ~Cleared(alarms[b]))
      BY <1>4, <2>1, <2>3 DEF Due
    <3>3. alarms'[b] # None /\ ~Cleared(alarms'[b])
      BY <1>2, <1>3, <3>1, <3>2 DEF Applied, Cleared, About
    <3> QED
      BY <1>4, <2>1, <3>3
  <2> QED
    BY <2>2, <2>3
<1>6. ASSUME NEW b \in unacked
      PROVE  NotEnding("ACK", b)' /\ (Due(b)' \/ alarms'[b] # None)
  <2>1. NotEnding("ACK", b) /\ (Due(b) \/ alarms[b] # None)
    BY <1>1, <1>6 DEF AlarmInv
  <2>2. CASE Due(b)'
    BY <1>4, <2>1, <2>2
  <2>3. CASE ~Due(b)'
    <3>1. ~About(msg, "ACK", b)
      BY <1>4, <2>1, <2>3
    <3>2. About(msg, "NEW", b) \/ alarms[b] # None
      BY <1>4, <2>1, <2>3 DEF Due
    <3>3. alarms'[b] # None
      BY <1>2, <1>3, <3>1, <3>2 DEF Applied, Cleared, About
    <3> QED
      BY <1>4, <2>1, <3>3
  <2> QED
    BY <2>2, <2>3
<1> QED
  BY <1>1, <1>5, <1>6

\* A socket that is replaced takes with it what was in it: with nothing in it
\* nothing is lost.
LEMMA ResetStep ==
    ASSUME Typed, AlarmInv, ResetSocket
    PROVE  AlarmInv'
<1> SUFFICES ASSUME lost' = 0, ~callback'
             PROVE  AlarmInv'
  BY DEF AlarmInv
<1>1. /\ channel' = <<>> /\ lost' = lost + Len(channel)
      /\ UNCHANGED <<active, unacked, callback, pc, msg, alarms>>
  BY DEF ResetSocket, server, listener
<1>2. channel \in Seq(Message) /\ Len(channel) \in Nat /\ lost \in Nat
  BY LenProperties DEF Typed, TypeOK
<1>3. lost = 0 /\ channel = <<>>
  BY <1>1, <1>2, EmptySeq
<1> QED
  BY <1>1, <1>3 DEF AlarmInv, NotEnding, Due

\* Every step keeps the invariant.
LEMMA AlarmStep == Typed /\ AlarmInv /\ [Next]_vars => AlarmInv'
<1> SUFFICES ASSUME Typed, AlarmInv, [Next]_vars
             PROVE  AlarmInv'
  OBVIOUS
<1>1. CASE UNCHANGED <<active, unacked, channel, lost, callback, pc, msg, alarms>>
  BY <1>1 DEF AlarmInv, NotEnding, Due
<1>2. Register \/ TakeChanges \/ ShowAlarms \/ LookUp \/ UNCHANGED vars =>
          UNCHANGED <<active, unacked, channel, lost, callback, pc, msg, alarms>>
  BY DEF Register, TakeChanges, ShowAlarms, LookUp, vars, server, socket, listener
<1>3. CASE Callback
  BY <1>3 DEF Callback, server, AlarmInv, NotEnding, Due
<1> QED
  BY <1>1, <1>2, <1>3, SendStep, ResetStep, ReceiveStep, StoreStep DEF Next, Listener, ServerSends

\* NoAlarmForgotten for any number of points and messages.
THEOREM AlarmsKept == Spec => []NoAlarmForgotten
<1>1. Init => AlarmInv
  BY DEF Init, AlarmInv
<1>2. Typed /\ AlarmInv => NoAlarmForgotten
  <2> SUFFICES ASSUME Typed, AlarmInv, Quiet, lost = 0, ~callback,
                      NEW a \in active \cup unacked
               PROVE  alarms[a] # None
    BY DEF NoAlarmForgotten
  <2>1. Due(a) \/ alarms[a] # None
    BY DEF AlarmInv
  <2>2. ~Due(a)
    BY EmptySeq DEF Quiet, Due, Coming
  <2> QED
    BY <2>1, <2>2
<1> QED
  BY <1>1, <1>2, AlarmStep, FeedTyped, PTL DEF Spec

-----------------------------------------------------------------------------
(***************************************************************************)
(* What the map says of an alarm.  The messages that the listener has not  *)
(* applied yet lead, one after the other, from what the map says to what   *)
(* infoserver holds: there is a history of the alarm that says so.         *)
(***************************************************************************)

States == {"raised", "acknowledged", "cleared", "over"}

\* What infoserver holds of the alarm.
Now(a) ==
    IF a \in active THEN (IF a \in unacked THEN "raised" ELSE "acknowledged")
    ELSE (IF a \in unacked THEN "cleared" ELSE "over")

\* The entry of the map says that the alarm is in this state.
Says(entry, state) ==
    /\ state = "raised" => entry # None /\ entry.kind = "NEW"
    /\ state = "acknowledged" => entry # None /\ entry.kind = "ACK"
    /\ state = "cleared" => Cleared(entry)
    /\ state = "over" => entry = None \/ Cleared(entry)

\* The message tells of the change from one state to the other.
Leads(from, m, to, a) ==
    IF m.addr # a \/ m.kind = "BARE" THEN to = from
    ELSE \/ m.kind = "NEW" /\ to = "raised"
         \/ m.kind = "CLEAR" /\ from = "raised" /\ to = "cleared"
         \/ m.kind = "CLEAR" /\ from = "acknowledged" /\ to = "over"
         \/ m.kind = "ACK" /\ from = "raised" /\ to = "acknowledged"
         \/ m.kind = "ACK" /\ from = "cleared" /\ to = "over"

\* The messages not applied yet.
Pending == IF pc = "store" THEN <<msg>> \o channel ELSE channel

\* History h of alarm a goes from the entry over the messages of p to the state.
Tale(h, a, entry, p, state) ==
    /\ Says(entry, h[0])
    /\ \A i \in 1..Len(p) : Leads(h[i - 1], p[i], h[i], a)
    /\ h[Len(p)] = state

Told(a, entry, p, state) == \E h \in [Nat -> States] : Tale(h, a, entry, p, state)

Plain(p) == \A i \in 1..Len(p) : p[i].kind # "OTHER"

MapInv ==
    lost = 0 /\ others = 0 /\ ~callback =>
        /\ Plain(Pending)
        /\ \A a \in Address : Told(a, alarms[a], Pending, Now(a))

\* One more message at the end.
LEMMA ToldOfOneMore ==
    ASSUME NEW p \in Seq(Message), NEW m \in Message, NEW a, NEW entry,
           NEW from \in States, NEW to \in States,
           Told(a, entry, p, from), Leads(from, m, to, a)
    PROVE  Told(a, entry, Append(p, m), to)
<1>1. PICK h \in [Nat -> States] : Tale(h, a, entry, p, from)
  BY DEF Told
<1>2. /\ Len(p) \in Nat /\ Len(Append(p, m)) = Len(p) + 1 /\ Append(p, m)[Len(p) + 1] = m
      /\ \A i \in 1..Len(p) : Append(p, m)[i] = p[i]
  BY AppendProperties, LenProperties
<1> DEFINE g == [h EXCEPT ![Len(p) + 1] = to]
           q == Append(p, m)
<1>3. /\ g \in [Nat -> States] /\ g[Len(p) + 1] = to
      /\ \A i \in 0..Len(p) : g[i] = h[i]
  BY <1>2
<1> HIDE DEF g, q
<1>4. Says(entry, g[0])
  BY <1>1, <1>2, <1>3 DEF Tale
<1>5. ASSUME NEW i \in 1..(Len(p) + 1)
      PROVE  Leads(g[i - 1], q[i], g[i], a)
  <2>1. CASE i = Len(p) + 1
    <3>1. g[i - 1] = from /\ g[i] = to /\ q[i] = m
      BY <1>1, <1>2, <1>3, <2>1 DEF Tale, q
    <3> QED
      BY <3>1
  <2>2. CASE i # Len(p) + 1
    <3>1. i \in 1..Len(p) /\ i - 1 \in 0..Len(p) /\ i \in 0..Len(p)
      BY <1>2, <2>2
    <3>2. g[i - 1] = h[i - 1] /\ g[i] = h[i] /\ q[i] = p[i]
      BY <1>2, <1>3, <3>1 DEF q
    <3>3. Leads(h[i - 1], p[i], h[i], a)
      BY <1>1, <3>1 DEF Tale
    <3> QED
      BY <3>2, <3>3
  <2> QED
    BY <2>1, <2>2
<1>6. Len(q) = Len(p) + 1
  BY <1>2 DEF q
<1>7. Tale(g, a, entry, q, to)
  BY <1>3, <1>4, <1>5, <1>6 DEF Tale
<1> QED
  BY <1>3, <1>7 DEF Told, q

\* The first message is applied to the entry.
LEMMA ToldOnceApplied ==
    ASSUME NEW p \in Seq(Message), NEW m \in Message, NEW a, NEW entry, NEW state,
           Told(a, entry, <<m>> \o p, state), NEW new,
           \A s \in States, t \in States : Says(entry, s) /\ Leads(s, m, t, a) => Says(new, t)
    PROVE  Told(a, new, p, state)
<1> DEFINE q == <<m>> \o p
<1>1. PICK h \in [Nat -> States] : Tale(h, a, entry, q, state)
  BY DEF Told
<1>2. <<m>> \in Seq(Message)
  OBVIOUS
<1>3. /\ Len(p) \in Nat /\ Len(q) = Len(p) + 1 /\ q[1] = m
      /\ \A i \in 1..Len(p) : q[i + 1] = p[i]
  BY <1>2, ConcatProperties, LenProperties
<1> DEFINE g == [n \in Nat |-> h[n + 1]]
<1>4. g \in [Nat -> States] /\ \A n \in Nat : g[n] = h[n + 1]
  OBVIOUS
<1> HIDE DEF g, q
<1>5. Says(new, g[0])
  <2>1. 1 \in 1..Len(q) /\ 1 - 1 = 0
    BY <1>3
  <2>2. Leads(h[0], q[1], h[1], a) /\ Says(entry, h[0])
    BY <1>1, <2>1 DEF Tale
  <2>3. h[0] \in States /\ h[1] \in States
    OBVIOUS
  <2>4. g[0] = h[1]
    BY <1>4
  <2> QED
    BY <1>3, <2>2, <2>3, <2>4
<1>6. ASSUME NEW i \in 1..Len(p)
      PROVE  Leads(g[i - 1], p[i], g[i], a)
  <2>1. i + 1 \in 1..Len(q) /\ (i + 1) - 1 = i /\ i - 1 \in Nat /\ i \in Nat /\ (i - 1) + 1 = i
    BY <1>3
  <2>2. Leads(h[i], q[i + 1], h[i + 1], a)
    BY <1>1, <2>1 DEF Tale
  <2>3. g[i - 1] = h[i] /\ g[i] = h[i + 1] /\ q[i + 1] = p[i]
    BY <1>3, <1>4, <2>1
  <2> QED
    BY <2>2, <2>3
<1>7. g[Len(p)] = state
  BY <1>1, <1>3, <1>4 DEF Tale
<1>8. Tale(g, a, new, p, state)
  BY <1>5, <1>6, <1>7 DEF Tale
<1> QED
  BY <1>4, <1>8 DEF Told

\* What the message does to the entry is what it tells of the alarm.
LEMMA AppliedSays ==
    ASSUME NEW m \in Message, m.kind # "OTHER", NEW entry \in Message \cup {None}, NEW a, m.addr = a, m.kind # "BARE",
           NEW s \in States, NEW t \in States, Says(entry, s), Leads(s, m, t, a)
    PROVE  Says(Applied(entry, m), t)
<1>1. m # None
  BY Constants
<1>2. m.kind = "NEW" => t = "raised"
  BY DEF Leads
<1>3. m.kind = "CLEAR" => t \in {"cleared", "over"}
  BY DEF Leads
<1>4. m.kind = "ACK" => (s = "raised" /\ t = "acknowledged") \/ (s = "cleared" /\ t = "over")
  BY DEF Leads
<1>5. m.kind \in {"NEW", "CLEAR", "ACK"}
  BY DEF Message, Kind
<1>6. CASE m.kind = "NEW"
  BY <1>1, <1>2, <1>6 DEF Applied, Says
<1>7. CASE m.kind = "CLEAR"
  BY <1>1, <1>3, <1>7 DEF Applied, Says, Cleared
<1>8. CASE m.kind = "ACK"
  BY <1>1, <1>4, <1>8 DEF Applied, Says, Cleared
<1> QED
  BY <1>5, <1>6, <1>7, <1>8

\* The messages not applied yet, and the ones of them that are plain.
LEMMA PendingTyped ==
    ASSUME Typed
    PROVE  Pending \in Seq(Message) /\ Len(Pending) \in Nat
<1>1. channel \in Seq(Message)
  BY DEF Typed, TypeOK
<1>2. pc = "store" => <<msg>> \in Seq(Message)
  BY DEF Typed
<1>3. Pending \in Seq(Message)
  BY <1>1, <1>2, ConcatProperties DEF Pending
<1> QED
  BY <1>3, LenProperties

\* The server sends.
LEMMA MapSend ==
    ASSUME Typed, MapInv, ServerSends
    PROVE  MapInv'
<1> SUFFICES ASSUME lost' = 0, others' = 0, ~callback'
             PROVE  Plain(Pending') /\ \A b \in Address : Told(b, alarms'[b], Pending', Now(b)')
  BY DEF MapInv
<1>1. PICK kind \in Kind, a \in Address :
        /\ Send(kind, a)
        /\ \/ kind = "NEW" /\ a \notin active /\ active' = active \cup {a} /\ unacked' = unacked \cup {a}
           \/ kind = "CLEAR" /\ a \in active /\ active' = active \ {a} /\ unacked' = unacked
           \/ kind = "ACK" /\ a \in unacked /\ active' = active /\ unacked' = unacked \ {a}
           \/ kind \in {"OTHER", "BARE"} /\ active' = active /\ unacked' = unacked
        /\ others' = (IF kind = "OTHER" THEN others + 1 ELSE others)
  BY WhatIsSent
<1>2. /\ channel' = Append(channel, [no |-> sent + 1, kind |-> kind, addr |-> a])
      /\ lost = 0 /\ ~callback /\ UNCHANGED <<pc, msg, alarms>>
      /\ sent < MaxSent /\ sent \in Nat /\ MaxSent \in Nat
  BY <1>1, Constants DEF Send, Typed, TypeOK, listener
<1>3. kind # "OTHER" /\ others = 0
  BY <1>1 DEF Typed, TypeOK
<1>4. PICK m \in Message : m.kind = kind /\ m.addr = a /\ channel' = Append(channel, m)
  <2>1. sent + 1 \in 1..MaxSent
    BY <1>2
  <2>2. [no |-> sent + 1, kind |-> kind, addr |-> a] \in Message
    BY <2>1 DEF Message
  <2> QED
    BY <1>2, <2>2
<1>5. Pending' = Append(Pending, m)
  <2>1. CASE pc = "store"
    <3>1. <<msg>> \in Seq(Message) /\ channel \in Seq(Message)
      BY <2>1 DEF Typed, TypeOK
    <3>2. <<msg>> \o Append(channel, m) = Append(<<msg>> \o channel, m)
      BY <3>1
    <3> QED
      BY <1>2, <1>4, <2>1, <3>2 DEF Pending
  <2>2. CASE pc # "store"
    BY <1>2, <1>4, <2>2 DEF Pending
  <2> QED
    BY <2>1, <2>2
<1>6. Plain(Pending) /\ \A b \in Address : Told(b, alarms[b], Pending, Now(b))
  BY <1>2, <1>3 DEF MapInv
<1>7. Plain(Pending')
  <2>1. /\ Len(Pending) \in Nat
        /\ Len(Append(Pending, m)) = Len(Pending) + 1 /\ Append(Pending, m)[Len(Pending) + 1] = m
        /\ \A i \in 1..Len(Pending) : Append(Pending, m)[i] = Pending[i]
    BY PendingTyped, AppendProperties
  <2> QED
    BY <1>3, <1>4, <1>5, <1>6, <2>1 DEF Plain
<1>8. ASSUME NEW b \in Address
      PROVE  Told(b, alarms'[b], Pending', Now(b)')
  <2>1. Now(b) \in States /\ Now(b)' \in States
    BY DEF Now, States
  <2>2. Leads(Now(b), m, Now(b)', b)
    <3>1. CASE b # a
      BY <1>1, <1>4, <3>1 DEF Leads, Now
    <3>2. CASE b = a
      BY <1>1, <1>3, <1>4, <3>2 DEF Leads, Now, Kind
    <3> QED
      BY <3>1, <3>2
  <2>3. Told(b, alarms[b], Append(Pending, m), Now(b)')
    BY <1>6, <2>1, <2>2, PendingTyped, ToldOfOneMore
  <2> QED
    BY <1>2, <1>5, <2>3
<1> QED
  BY <1>7, <1>8

\* The listener applies its message.
LEMMA MapStore ==
    ASSUME Typed, MapInv, Store
    PROVE  MapInv'
<1> SUFFICES ASSUME lost' = 0, others' = 0, ~callback'
             PROVE  Plain(Pending') /\ \A b \in Address : Told(b, alarms'[b], Pending', Now(b)')
  BY DEF MapInv
<1>1. /\ pc = "store" /\ pc' = "read" /\ lost = 0 /\ others = 0 /\ ~callback
      /\ UNCHANGED <<active, unacked, channel, msg>>
      /\ addr' = IF msg.kind \in {"OTHER", "BARE"} THEN addr ELSE msg.addr
      /\ alarms' = IF msg.kind = "BARE" THEN alarms
                   ELSE [alarms EXCEPT ![addr'] = Applied(alarms[addr'], msg)]
  BY DEF Store, server
<1>2. /\ msg \in Message /\ channel \in Seq(Message) /\ <<msg>> \in Seq(Message)
      /\ Address \subseteq DOMAIN alarms /\ \A b \in Address : alarms[b] \in Message \cup {None}
  BY <1>1 DEF Typed, TypeOK
<1>3. Pending = <<msg>> \o channel /\ Pending' = channel
  BY <1>1 DEF Pending
<1>4. /\ Len(channel) \in Nat /\ Len(Pending) = Len(channel) + 1 /\ Pending[1] = msg
      /\ \A i \in 1..Len(channel) : Pending[i + 1] = channel[i]
  BY <1>2, <1>3, ConcatProperties, LenProperties
<1>5. Plain(Pending) /\ \A b \in Address : Told(b, alarms[b], <<msg>> \o channel, Now(b))
  BY <1>1, <1>3 DEF MapInv
<1>6. msg.kind # "OTHER"
  BY <1>4, <1>5 DEF Plain
<1>7. Plain(channel)
  <2>1. \A i \in 1..Len(channel) : i + 1 \in 1..Len(Pending)
    BY <1>4
  <2> QED
    BY <1>4, <1>5, <2>1 DEF Plain
<1>8. ASSUME NEW b \in Address
      PROVE  Told(b, alarms'[b], channel, Now(b))
  <2>1. ASSUME NEW s \in States, NEW t \in States, Says(alarms[b], s), Leads(s, msg, t, b)
        PROVE  Says(alarms'[b], t)
    <3>1. CASE msg.kind = "BARE" \/ msg.addr # b
      <4>1. s = t
        BY <2>1, <3>1 DEF Leads
      <4>2. alarms'[b] = alarms[b]
        BY <1>1, <1>2, <1>6, <3>1
      <4> QED
        BY <2>1, <4>1, <4>2
    <3>2. CASE msg.kind # "BARE" /\ msg.addr = b
      <4>1. alarms'[b] = Applied(alarms[b], msg)
        BY <1>1, <1>2, <1>6, <3>2
      <4>2. alarms[b] \in Message \cup {None}
        BY <1>2
      <4> QED
        BY <1>2, <1>6, <2>1, <3>2, <4>1, <4>2, AppliedSays
    <3> QED
      BY <3>1, <3>2
  <2>2. Told(b, alarms[b], <<msg>> \o channel, Now(b))
    BY <1>5
  <2> QED
    BY <1>2, <2>1, <2>2, ToldOnceApplied
<1>9. \A b \in Address : Now(b)' = Now(b)
  BY <1>1 DEF Now
<1> QED
  BY <1>3, <1>7, <1>8, <1>9

\* Every step keeps the invariant: the others move a message from the socket to
\* the buffer, or do not touch what it speaks of.
LEMMA MapStep == Typed /\ MapInv /\ [Next]_vars => MapInv'
<1> SUFFICES ASSUME Typed, MapInv, [Next]_vars
             PROVE  MapInv'
  OBVIOUS
<1>1. ASSUME UNCHANGED <<active, unacked, alarms>>, lost' = 0 => lost = 0, others' = 0 => others = 0,
             ~callback' => ~callback,
             lost' = 0 /\ ~callback' => Pending' = Pending
      PROVE  MapInv'
  <2>1. \A a \in Address : Now(a)' = Now(a)
    BY <1>1 DEF Now
  <2> QED
    BY <1>1, <2>1 DEF MapInv
<1>2. CASE UNCHANGED <<active, unacked, channel, others, lost, callback, pc, msg, alarms>>
  <2>1. Pending' = Pending
    BY <1>2 DEF Pending
  <2> QED
    BY <1>1, <1>2, <2>1
<1>3. CASE Callback
  <2>1. Pending' = Pending /\ UNCHANGED <<active, unacked, others, lost, callback, alarms>>
    BY <1>3 DEF Callback, Pending, server
  <2> QED
    BY <1>1, <2>1
<1>4. CASE Receive
  <2>1. /\ pc = "read" /\ channel # <<>> /\ msg' = Head(channel) /\ channel' = Tail(channel)
        /\ pc' = (IF callback THEN "call" ELSE "store")
        /\ UNCHANGED <<active, unacked, others, lost, callback, alarms>>
    BY <1>4 DEF Receive, server
  <2>2. <<Head(channel)>> \o Tail(channel) = channel
    BY <2>1 DEF Typed, TypeOK
  <2>3. ~callback' => Pending' = Pending
    BY <2>1, <2>2 DEF Pending
  <2> QED
    BY <1>1, <2>1, <2>3
<1>5. CASE ResetSocket
  <2>1. /\ channel' = <<>> /\ lost' = lost + Len(channel)
        /\ UNCHANGED <<active, unacked, others, callback, pc, msg, alarms>>
    BY <1>5 DEF ResetSocket, server, listener
  <2>2. channel \in Seq(Message) /\ Len(channel) \in Nat /\ lost \in Nat
    BY LenProperties DEF Typed, TypeOK
  <2>3. lost' = 0 => lost = 0 /\ channel = <<>>
    BY <2>1, <2>2, EmptySeq
  <2>4. lost' = 0 => Pending' = Pending
    BY <2>1, <2>3 DEF Pending
  <2> QED
    BY <1>1, <2>1, <2>3, <2>4
<1>6. Register \/ TakeChanges \/ ShowAlarms \/ LookUp \/ UNCHANGED vars =>
          UNCHANGED <<active, unacked, channel, others, lost, callback, pc, msg, alarms>>
  BY DEF Register, TakeChanges, ShowAlarms, LookUp, vars, server, socket, listener
<1> QED
  BY <1>2, <1>3, <1>4, <1>5, <1>6, MapSend, MapStore DEF Next, Listener, ServerSends

\* MapTells: for any number of points and any messages, whatever their order, the
\* map says what infoserver holds of each alarm once all is read.
THEOREM MapIsRight == Spec => []MapTells
<1>1. Init => MapInv
  <2> SUFFICES ASSUME Init, NEW a \in Address
               PROVE  Plain(Pending) /\ Told(a, alarms[a], Pending, Now(a))
    BY Constants DEF MapInv
  <2>1. Pending = <<>> /\ alarms[a] = None /\ Now(a) = "over" /\ Len(Pending) = 0
    BY DEF Init, Pending, Now
  <2> DEFINE h == [n \in Nat |-> "over"]
  <2>2. h \in [Nat -> States] /\ h[0] = "over"
    BY DEF States
  <2>3. Says(None, "over")
    BY DEF Says
  <2> HIDE DEF h
  <2>4. Tale(h, a, alarms[a], Pending, Now(a))
    BY <2>1, <2>2, <2>3 DEF Tale
  <2> QED
    BY <2>1, <2>2, <2>4 DEF Plain, Told
<1>2. Typed /\ MapInv => MapTells
  <2> SUFFICES ASSUME Typed, MapInv, Quiet, lost = 0, others = 0, ~callback, NEW a \in Address
               PROVE  Tells(a, alarms[a])
    BY DEF MapTells
  <2>1. Pending = <<>> /\ Len(Pending) = 0
    BY EmptySeq DEF Quiet, Pending
  <2>2. PICK h \in [Nat -> States] : Tale(h, a, alarms[a], Pending, Now(a))
    BY DEF MapInv, Told
  <2>3. Says(alarms[a], Now(a))
    BY <2>1, <2>2 DEF Tale
  <2> QED
    BY <2>3 DEF Says, Now, Tells
<1> QED
  BY <1>1, <1>2, MapStep, FeedTyped, PTL DEF Spec
================================================================================
