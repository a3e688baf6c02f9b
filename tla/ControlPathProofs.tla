--------------------------- MODULE ControlPathProofs ---------------------------
(***************************************************************************)
(* Proofs about ControlPath: whatever tags, ranges, texts and pipe sizes   *)
(* there are, and whatever statement is refused.                           *)
(***************************************************************************)
EXTENDS ControlPath, SequenceTheorems, TLAPS

-----------------------------------------------------------------------------
(***************************************************************************)
(* The inductive invariant behind OwnControl and InOrderOnce.              *)
(***************************************************************************)

\* What the argument needs of the types.
Shape ==
    /\ pipe \in [Types -> Seq([text : Control, part : 1..TextLen])]
    /\ sent \in Seq(Control)
    /\ DOMAIN rtControl = Tag /\ \A t \in Tag : rtControl[t].no \in 0..Len(sent)
    /\ applied \in Seq(1..Len(sent))

SentIn(past, c) == c.no \in 1..Len(past) /\ c = past[c.no]

\* The controls of the type that were carried out were sent before n.
Behind(done, past, type, n) ==
    \A i \in 1..Len(done) : past[done[i]].type = type => done[i] < n

\* Every text in a pipe was sent.  Where one begins, whatever is before it in the
\* pipe, in rt_control and in the static record (now) was sent earlier.
InOrder(pieces, type, past, done, now) ==
    \A i \in 1..Len(pieces) :
        LET text == pieces[i].text
        IN  /\ SentIn(past, text) /\ text.type = type
            /\ pieces[i].part = 1 =>
                   /\ \A j \in 1..(i - 1) : pieces[j].text.no < text.no
                   /\ Behind(done, past, type, text.no)
                   /\ now < text.no

Now(type) == IF pc = "apply" /\ control.type = type THEN control.no ELSE 0

PipeInv == \A type \in Types : InOrder(pipe[type], type, sent, applied, Now(type))

\* So is the control that is about to be applied.
ControlInv ==
    pc = "apply" => SentIn(sent, control) /\ Behind(applied, sent, control.type, control.no)

-----------------------------------------------------------------------------
Piece == [text : Control, part : 1..TextLen]

CPInv == Shape /\ PipeInv /\ ControlInv

\* What the proofs need of the constants.
LEMMA Constants ==
    /\ TextLen \in Nat /\ TextLen > 0 /\ ReadLen \in Nat /\ ReadLen >= TextLen
    /\ MaxSent \in Nat
    /\ \A k \in DOMAIN TagAt : TagAt[k] \in Tag
  BY CPAssumption

\* A row of anapnt.
LEMMA Rows ==
    ASSUME NEW t \in DOMAIN Row
    PROVE  t \in Tag /\ Row[t] \in [lowEng : Int, lowRaw : Int, hiEng : Int, hiRaw : Int]
  BY CPAssumption

\* The pieces of a text.
LEMMA TextPieces ==
    ASSUME NEW c \in Control
    PROVE  /\ Text(c) \in Seq(Piece) /\ Len(Text(c)) = TextLen
           /\ \A i \in 1..TextLen : Text(c)[i].text = c /\ Text(c)[i].part = i
<1>1. TextLen \in Nat
  BY Constants
<1>2. Text(c) \in [1..TextLen -> Piece]
  BY DEF Text, Piece
<1>3. Text(c) \in Seq(Piece) /\ Len(Text(c)) = TextLen
  BY <1>1, <1>2
<1> QED
  BY <1>1, <1>3 DEF Text

\* What the library's write of a text leaves in a pipe.
LEMMA Written ==
    ASSUME NEW s \in Seq(Piece), NEW c \in Control
    PROVE  /\ s \o Text(c) \in Seq(Piece) /\ Len(s \o Text(c)) = Len(s) + TextLen
           /\ \A i \in 1..Len(s) : (s \o Text(c))[i] = s[i]
           /\ \A i \in Len(s) + 1..Len(s) + TextLen :
                  /\ (s \o Text(c))[i].text = c
                  /\ (s \o Text(c))[i].part = i - Len(s)
<1>1. /\ Text(c) \in Seq(Piece) /\ Len(Text(c)) = TextLen
      /\ \A i \in 1..TextLen : Text(c)[i].text = c /\ Text(c)[i].part = i
  BY TextPieces
<1>2. TextLen \in Nat /\ Len(s) \in Nat
  BY Constants, LenProperties
<1>3. /\ s \o Text(c) \in Seq(Piece)
      /\ Len(s \o Text(c)) = Len(s) + TextLen
      /\ \A i \in 1..Len(s) + TextLen :
             (s \o Text(c))[i] = IF i <= Len(s) THEN s[i] ELSE Text(c)[i - Len(s)]
  BY <1>1, ConcatProperties
<1>4. \A i \in Len(s) + 1..Len(s) + TextLen : (s \o Text(c))[i] = Text(c)[i - Len(s)] /\ i - Len(s) \in 1..TextLen
  BY <1>2, <1>3
<1> QED
  BY <1>1, <1>2, <1>3, <1>4

\* What a read of n pieces leaves there.
LEMMA Left ==
    ASSUME NEW s \in Seq(Piece), NEW n \in 0..Len(s)
    PROVE  /\ Rest(s, n) \in Seq(Piece) /\ Len(Rest(s, n)) = Len(s) - n
           /\ \A i \in 1..Len(s) - n : Rest(s, n)[i] = s[i + n]
<1>1. Len(s) \in Nat /\ \A i \in n + 1..Len(s) : s[i] \in Piece
  BY ElementOfSeq, LenProperties
<1>2. /\ Rest(s, n) \in Seq(Piece)
      /\ Len(Rest(s, n)) = IF n + 1 <= Len(s) THEN Len(s) - (n + 1) + 1 ELSE 0
      /\ \A i \in 1..Len(s) - (n + 1) + 1 : Rest(s, n)[i] = s[(n + 1) + i - 1]
  BY <1>1, SubSeqProperties DEF Rest
<1> QED
  BY <1>1, <1>2

-----------------------------------------------------------------------------
(***************************************************************************)
(* The order of a pipe, for any pipe and any history.                      *)
(***************************************************************************)

\* What the order says of one piece.
LEMMA OrderAt ==
    ASSUME NEW p, NEW type, NEW past, NEW done, NEW now, InOrder(p, type, past, done, now),
           NEW i \in 1..Len(p)
    PROVE  /\ SentIn(past, p[i].text) /\ p[i].text.type = type
           /\ p[i].part = 1 =>
                /\ \A j \in 1..(i - 1) : p[j].text.no < p[i].text.no
                /\ Behind(done, past, type, p[i].text.no)
                /\ now < p[i].text.no
  BY Zenon DEF InOrder

\* One more control is sent, with the next number: what was said of the others
\* stays true.
LEMMA OrderOfSent ==
    ASSUME NEW past \in Seq(Control), NEW done \in Seq(1..Len(past)), NEW c \in Control
    PROVE  /\ \A d : SentIn(past, d) => SentIn(Append(past, c), d)
           /\ \A type, n : Behind(done, past, type, n) => Behind(done, Append(past, c), type, n)
<1>1. /\ Len(Append(past, c)) = Len(past) + 1 /\ Len(past) \in Nat
      /\ \A i \in 1..Len(past) : Append(past, c)[i] = past[i]
  BY AppendProperties, LenProperties
<1>2. \A i \in 1..Len(done) : done[i] \in 1..Len(past)
  BY ElementOfSeq
<1> QED
  BY <1>1, <1>2 DEF SentIn, Behind

\* A control that is sent, but not written to this pipe, changes nothing there.
LEMMA OrderKept ==
    ASSUME NEW past \in Seq(Control), NEW done \in Seq(1..Len(past)), NEW c \in Control,
           NEW p \in Seq(Piece), NEW type, NEW now, InOrder(p, type, past, done, now)
    PROVE  InOrder(p, type, Append(past, c), done, now)
  BY OrderOfSent DEF InOrder

\* It is written behind the others of its type.
LEMMA OrderWritten ==
    ASSUME NEW past \in Seq(Control), NEW done \in Seq(1..Len(past)), NEW c \in Control,
           NEW p \in Seq(Piece), NEW now \in 0..Len(past), InOrder(p, c.type, past, done, now),
           c.no = Len(past) + 1
    PROVE  InOrder(p \o Text(c), c.type, Append(past, c), done, now)
<1> DEFINE q == p \o Text(c)
           new == Append(past, c)
<1>1. /\ Len(q) = Len(p) + TextLen /\ Len(p) \in Nat /\ TextLen \in Nat
      /\ \A i \in 1..Len(p) : q[i] = p[i]
      /\ \A i \in Len(p) + 1..Len(p) + TextLen : q[i].text = c /\ q[i].part = i - Len(p)
  BY Written, Constants, LenProperties
<1>2. Len(new) = Len(past) + 1 /\ new[Len(past) + 1] = c /\ Len(past) \in Nat
  BY AppendProperties, LenProperties
<1>3. InOrder(p, c.type, new, done, now)
  BY OrderKept
<1>4. \A i \in 1..Len(p) : p[i].text.no \in 1..Len(past)
  BY DEF InOrder, SentIn
<1>5. \A i \in 1..Len(done) : done[i] \in 1..Len(past)
  BY ElementOfSeq
<1> HIDE DEF q, new
<1>6. ASSUME NEW i \in 1..Len(p)
      PROVE  /\ SentIn(new, q[i].text) /\ q[i].text.type = c.type
             /\ q[i].part = 1 =>
                  /\ \A j \in 1..(i - 1) : q[j].text.no < q[i].text.no
                  /\ Behind(done, new, c.type, q[i].text.no)
                  /\ now < q[i].text.no
  <2>1. /\ SentIn(new, p[i].text) /\ p[i].text.type = c.type
        /\ p[i].part = 1 =>
             /\ \A j \in 1..(i - 1) : p[j].text.no < p[i].text.no
             /\ Behind(done, new, c.type, p[i].text.no)
             /\ now < p[i].text.no
    BY <1>3, OrderAt
  <2>2. \A j \in 1..(i - 1) : j \in 1..Len(p)
    BY <1>1
  <2>3. q[i] = p[i] /\ \A j \in 1..(i - 1) : q[j] = p[j]
    BY <1>1, <2>2
  <2> QED
    BY <2>1, <2>3
<1>7. ASSUME NEW i \in Len(p) + 1..Len(p) + TextLen
      PROVE  /\ SentIn(new, q[i].text) /\ q[i].text.type = c.type
             /\ q[i].part = 1 =>
                  /\ \A j \in 1..(i - 1) : q[j].text.no < q[i].text.no
                  /\ Behind(done, new, c.type, q[i].text.no)
                  /\ now < q[i].text.no
  <2>1. q[i].text = c /\ q[i].part = i - Len(p)
    BY <1>1
  <2>2. SentIn(new, c)
    BY <1>2 DEF SentIn
  <2>3. Behind(done, new, c.type, c.no)
    BY <1>2, <1>5 DEF Behind
  <2>4. ASSUME q[i].part = 1, NEW j \in 1..(i - 1)
        PROVE  q[j].text.no < c.no
    <3>1. j \in 1..Len(p)
      BY <1>1, <2>1, <2>4
    <3>2. q[j] = p[j] /\ p[j].text.no \in 1..Len(past)
      BY <1>1, <1>4, <3>1
    <3> QED
      BY <1>2, <3>2
  <2> QED
    BY <1>2, <2>1, <2>2, <2>3, <2>4
<1>8. \A i \in 1..Len(q) : i \in 1..Len(p) \/ i \in Len(p) + 1..Len(p) + TextLen
  BY <1>1
<1>9. InOrder(q, c.type, new, done, now)
  BY <1>6, <1>7, <1>8 DEF InOrder
<1> QED
  BY <1>9 DEF q, new

\* What a read of n pieces leaves is in order, behind the text it began with.
LEMMA OrderRead ==
    ASSUME NEW past \in Seq(Control), NEW done, NEW p \in Seq(Piece), NEW n \in 0..Len(p),
           NEW type, NEW now \in Nat, InOrder(p, type, past, done, now)
    PROVE  /\ InOrder(Rest(p, n), type, past, done, 0)
           /\ n > 0 => /\ SentIn(past, p[1].text) /\ p[1].text.type = type
                       /\ InOrder(Rest(p, n), type, past, done, p[1].text.no)
                       /\ p[1].part = 1 => Behind(done, past, type, p[1].text.no)
<1> DEFINE q == Rest(p, n)
<1>1. /\ Len(q) = Len(p) - n /\ Len(p) \in Nat
      /\ \A i \in 1..Len(p) - n : q[i] = p[i + n]
  BY Left, LenProperties
<1>2. \A i \in 1..Len(p) : p[i].text.no \in Nat \ {0}
  BY LenProperties DEF InOrder, SentIn
<1> HIDE DEF q
<1>3. ASSUME NEW first, first = 0 \/ (n > 0 /\ first = p[1].text.no)
      PROVE  InOrder(q, type, past, done, first)
  <2> SUFFICES ASSUME NEW i \in 1..Len(q)
               PROVE  /\ SentIn(past, q[i].text) /\ q[i].text.type = type
                      /\ q[i].part = 1 =>
                           /\ \A j \in 1..(i - 1) : q[j].text.no < q[i].text.no
                           /\ Behind(done, past, type, q[i].text.no)
                           /\ first < q[i].text.no
    BY DEF InOrder
  <2>1. PICK k \in 1..Len(p) : k = i + n
    BY <1>1
  <2>2. q[i] = p[k]
    BY <1>1, <2>1
  <2>3. /\ SentIn(past, p[k].text) /\ p[k].text.type = type
        /\ p[k].part = 1 =>
             /\ \A j \in 1..(k - 1) : p[j].text.no < p[k].text.no
             /\ Behind(done, past, type, p[k].text.no)
    BY <2>1, OrderAt
  <2>4. ASSUME NEW j \in 1..(i - 1)
        PROVE  \E l \in 1..(k - 1) : q[j] = p[l]
    <3>1. j \in 1..Len(p) - n /\ j + n \in 1..(k - 1)
      BY <1>1, <2>1
    <3> QED
      BY <1>1, <3>1
  <2>5. p[k].part = 1 => first < p[k].text.no
    <3>1. CASE first = 0
      BY <1>2, <3>1
    <3>2. CASE n > 0 /\ first = p[1].text.no
      <4>1. 1 \in 1..(k - 1)
        BY <1>1, <2>1, <3>2
      <4> QED
        BY <2>3, <3>2, <4>1
    <3> QED
      BY <1>3, <3>1, <3>2
  <2>6. p[k].part = 1 => \A j \in 1..(i - 1) : q[j].text.no < p[k].text.no
    BY <2>3, <2>4
  <2> QED
    BY <2>2, <2>3, <2>5, <2>6
<1>4. n > 0 => /\ SentIn(past, p[1].text) /\ p[1].text.type = type
               /\ p[1].part = 1 => Behind(done, past, type, p[1].text.no)
  BY <1>1 DEF InOrder
<1> QED
  BY <1>3, <1>4 DEF q

\* Without a control in the static record less is asked of the pipe.
LEMMA OrderForgotten ==
    ASSUME NEW past \in Seq(Control), NEW done, NEW p, NEW type, NEW now,
           InOrder(p, type, past, done, now)
    PROVE  InOrder(p, type, past, done, 0)
<1>1. \A i \in 1..Len(p) : 0 < p[i].text.no
  <2> SUFFICES ASSUME NEW i \in 1..Len(p)
               PROVE  0 < p[i].text.no
    OBVIOUS
  <2>1. SentIn(past, p[i].text)
    BY OrderAt
  <2> QED
    BY <2>1, LenProperties DEF SentIn
<1> QED
  BY <1>1, Zenon DEF InOrder

\* The control that was read is carried out.
LEMMA OrderApplied ==
    ASSUME NEW past \in Seq(Control), NEW done \in Seq(1..Len(past)), NEW p \in Seq(Piece),
           NEW type, NEW c, SentIn(past, c),
           InOrder(p, type, past, done, IF c.type = type THEN c.no ELSE 0)
    PROVE  InOrder(p, type, past, Append(done, c.no), 0)
<1> DEFINE new == Append(done, c.no)
<1>1. c.no \in 1..Len(past) /\ c = past[c.no] /\ Len(past) \in Nat
  BY LenProperties DEF SentIn
<1>2. /\ Len(new) = Len(done) + 1 /\ Len(done) \in Nat
      /\ \A i \in 1..Len(done) : new[i] = done[i]
      /\ new[Len(done) + 1] = c.no
  BY <1>1, AppendProperties, LenProperties
<1> HIDE DEF new
<1>3. ASSUME NEW i \in 1..Len(p), p[i].part = 1
      PROVE  Behind(new, past, type, p[i].text.no) /\ 0 < p[i].text.no
  <2>1. /\ Behind(done, past, type, p[i].text.no) /\ p[i].text.no \in 1..Len(past)
        /\ c.type = type => c.no < p[i].text.no
    BY <1>3 DEF InOrder, SentIn
  <2> QED
    <3> SUFFICES ASSUME NEW k \in 1..Len(new), past[new[k]].type = type
                 PROVE  new[k] < p[i].text.no
      BY <1>1, <2>1 DEF Behind
    <3>1. CASE k \in 1..Len(done)
      BY <1>2, <2>1, <3>1 DEF Behind
    <3>2. CASE k = Len(done) + 1
      <4>1. new[k] = c.no /\ past[c.no] = c
        BY <1>1, <1>2, <3>2
      <4>2. c.type = type
        BY <4>1
      <4> QED
        BY <2>1, <4>1, <4>2
    <3>3. k \in 1..Len(done) \/ k = Len(done) + 1
      BY <1>2
    <3> QED
      BY <3>1, <3>2, <3>3
<1> QED
  BY <1>3 DEF InOrder, new

-----------------------------------------------------------------------------
\* The master operates an output: a text is written, with a number of its own.
LEMMA OperateStep ==
    ASSUME CPInv, NEW type \in Types, NEW ix \in Indices, NEW raw \in Raw, Operate(type, ix, raw)
    PROVE  /\ CPInv'
           /\ \A i \in 1..Len(sent) : i \in 1..Len(sent') /\ sent'[i] = sent[i]
<1>0. /\ Len(sent) < MaxSent /\ Len(sent) \in Nat /\ MaxSent \in Nat
      /\ UNCHANGED <<pc, control, rtControl, applied, fails>>
  BY Constants, LenProperties DEF CPInv, Shape, Operate
<1>1. PICK c \in Control :
        /\ c.no = Len(sent) + 1 /\ c.type = type
        /\ sent' = Append(sent, c)
        /\ pipe' = [pipe EXCEPT ![type] = @ \o Text(c)]
  <2> DEFINE new == [no |-> Len(sent) + 1, type |-> type, ix |-> ix, raw |-> raw,
                     alone |-> pipe[type] = <<>>]
  <2>1. new \in Control /\ new.no = Len(sent) + 1 /\ new.type = type
    BY <1>0 DEF Control
  <2>2. sent' = Append(sent, new) /\ pipe' = [pipe EXCEPT ![type] = @ \o Text(new)]
    BY DEF Operate
  <2> QED
    BY <2>1, <2>2
<1>2. /\ sent \in Seq(Control) /\ applied \in Seq(1..Len(sent))
      /\ \A t \in Types : pipe[t] \in Seq(Piece)
  BY DEF CPInv, Shape, Piece
<1>3. /\ sent' \in Seq(Control) /\ Len(sent') = Len(sent) + 1
      /\ \A i \in 1..Len(sent) : sent'[i] = sent[i]
  BY <1>1, <1>2, AppendProperties, LenProperties
<1>4. /\ pipe'[type] = pipe[type] \o Text(c) /\ pipe'[type] \in Seq(Piece)
      /\ \A t \in Types \ {type} : pipe'[t] = pipe[t]
  BY <1>1, <1>2, Written DEF CPInv, Shape
<1>5. Shape'
  <2>1. pipe' \in [Types -> Seq(Piece)]
    BY <1>1, <1>2, <1>4 DEF CPInv, Shape
  <2>2. applied' \in Seq(1..Len(sent'))
    <3>1. 1..Len(sent) \subseteq 1..Len(sent')
      BY <1>0, <1>3
    <3> QED
      BY <1>0, <1>2, <3>1, SeqMonotonic
  <2>3. DOMAIN rtControl' = Tag /\ \A t \in Tag : rtControl'[t].no \in 0..Len(sent')
    <3>1. \A n \in 0..Len(sent) : n \in 0..Len(sent')
      BY <1>0, <1>3
    <3> QED
      BY <1>0, <3>1 DEF CPInv, Shape
  <2> QED
    BY <1>3, <2>1, <2>2, <2>3 DEF Shape, Piece
<1>6. ControlInv'
  BY <1>0, <1>1, <1>2, OrderOfSent DEF CPInv, ControlInv
<1>7. ASSUME NEW t \in Types
      PROVE  InOrder(pipe'[t], t, sent', applied', Now(t)')
  <2>1. InOrder(pipe[t], t, sent, applied, Now(t)) /\ Now(t) \in 0..Len(sent) /\ Now(t)' = Now(t)
    BY <1>0 DEF CPInv, PipeInv, ControlInv, SentIn, Now
  <2>2. CASE t = type
    <3>1. InOrder(pipe[t] \o Text(c), t, Append(sent, c), applied, Now(t))
      BY <1>1, <1>2, <2>1, <2>2, OrderWritten
    <3> QED
      BY <1>0, <1>1, <1>4, <2>1, <2>2, <3>1
  <2>3. CASE t # type
    <3>1. InOrder(pipe[t], t, Append(sent, c), applied, Now(t))
      BY <1>1, <1>2, <2>1, OrderKept
    <3> QED
      BY <1>0, <1>1, <1>4, <2>1, <2>3, <3>1
  <2> QED
    BY <2>2, <2>3
<1> QED
  BY <1>0, <1>3, <1>5, <1>6, <1>7 DEF CPInv, PipeInv

\* A read: what it takes is gone from the pipe, and a text that it parses is the
\* control to be applied.
LEMMA ReceiveStep ==
    ASSUME CPInv, NEW type \in Types, NEW here, NEW next, here # "apply", next # "apply",
           Receive(type, here, next)
    PROVE  CPInv' /\ UNCHANGED <<sent, rtControl, applied>>
<1>0. /\ sent \in Seq(Control) /\ applied \in Seq(1..Len(sent))
      /\ \A t \in Types : pipe[t] \in Seq(Piece)
      /\ Len(pipe[type]) \in Nat
  BY LenProperties DEF CPInv, Shape, Piece
<1>1. PICK n \in 0..Len(pipe[type]) :
        /\ pipe' = [pipe EXCEPT ![type] = Rest(@, n)]
        /\ LET buffer == SubSeq(pipe[type], 1, n)
           IN  \/ Parses(buffer) /\ control' = buffer[1].text /\ pc' = "apply"
               \/ ~Parses(buffer) /\ pc' = next /\ UNCHANGED control
  <2> DEFINE n == IF Len(pipe[type]) < ReadLen THEN Len(pipe[type]) ELSE ReadLen
  <2>1. n \in 0..Len(pipe[type])
    BY <1>0, Constants
  <2>2. /\ pipe' = [pipe EXCEPT ![type] = Rest(@, n)]
        /\ LET buffer == SubSeq(pipe[type], 1, n)
           IN  \/ Parses(buffer) /\ control' = buffer[1].text /\ pc' = "apply"
               \/ ~Parses(buffer) /\ pc' = next /\ UNCHANGED control
    BY DEF Receive
  <2> QED
    BY <2>1, <2>2
<1>2. pc = here /\ UNCHANGED <<sent, rtControl, applied, fails>>
  BY DEF Receive
<1>3. \/ pc' = next /\ UNCHANGED control
      \/ /\ pc' = "apply" /\ control' = pipe[type][1].text
         /\ n > 0 /\ pipe[type][1].part = 1
  <2> DEFINE buffer == SubSeq(pipe[type], 1, n)
  <2> SUFFICES ASSUME Parses(buffer)
               PROVE  n > 0 /\ buffer[1] = pipe[type][1] /\ buffer[1].part = 1
    BY <1>1
  <2>1. \A i \in 1..n : pipe[type][i] \in Piece
    BY <1>0, ElementOfSeq
  <2>2. /\ Len(buffer) = IF 1 <= n THEN n - 1 + 1 ELSE 0
        /\ \A i \in 1..n - 1 + 1 : buffer[i] = pipe[type][1 + i - 1]
    BY <1>0, <2>1, SubSeqProperties
  <2>3. Len(buffer) >= TextLen /\ TextLen > 0 /\ TextLen \in Nat /\ buffer[1].part = 1
    BY Constants DEF Parses
  <2> HIDE DEF buffer
  <2> QED
    BY <1>0, <2>2, <2>3
<1>4. /\ \A t \in Types \ {type} : pipe'[t] = pipe[t]
      /\ pipe'[type] = Rest(pipe[type], n) /\ pipe'[type] \in Seq(Piece)
  BY <1>0, <1>1, Left DEF CPInv, Shape
<1>5. Shape'
  <2>1. pipe' \in [Types -> Seq(Piece)]
    BY <1>0, <1>1, <1>4 DEF CPInv, Shape
  <2> QED
    BY <1>2, <2>1 DEF CPInv, Shape, Piece
<1>6. \A t \in Types : InOrder(pipe[t], t, sent, applied, 0)
  BY <1>2 DEF CPInv, PipeInv, Now
<1>7. /\ InOrder(pipe'[type], type, sent, applied, 0)
      /\ n > 0 => LET text == pipe[type][1].text
                  IN  /\ SentIn(sent, text) /\ text.type = type
                      /\ InOrder(pipe'[type], type, sent, applied, text.no)
                      /\ pipe[type][1].part = 1 => Behind(applied, sent, type, text.no)
  BY <1>0, <1>4, <1>6, OrderRead
<1>8. ControlInv'
  BY <1>2, <1>3, <1>7 DEF ControlInv
<1>9. ASSUME NEW t \in Types
      PROVE  InOrder(pipe'[t], t, sent', applied', Now(t)')
  <2>1. CASE t = type
    BY <1>2, <1>3, <1>7, <2>1 DEF Now
  <2>2. CASE t # type
    <3>1. Now(t)' = 0
      BY <1>2, <1>3, <1>7, <2>2 DEF Now
    <3> QED
      BY <1>2, <1>4, <1>6, <2>2, <3>1
  <2> QED
    BY <2>1, <2>2
<1> QED
  BY <1>2, <1>5, <1>8, <1>9 DEF CPInv, PipeInv

\* The control reaches rt_control; the record stays, but no longer counts.
LEMMA ApplyStep ==
    ASSUME CPInv, Apply
    PROVE  CPInv'
<1>1. /\ pc = "apply" /\ Known /\ pc' = "digital"
      /\ UNCHANGED <<pipe, sent, control>>
      /\ \/ /\ applied' = Append(applied, control.no)
            /\ \E val : rtControl' = [rtControl EXCEPT ![Address] = [no |-> control.no, val |-> val]]
         \/ UNCHANGED <<rtControl, applied>>
  BY DEF Apply
<1>2. /\ SentIn(sent, control) /\ control.no \in 1..Len(sent) /\ Len(sent) \in Nat
      /\ sent \in Seq(Control) /\ applied \in Seq(1..Len(sent))
      /\ \A t \in Types : pipe[t] \in Seq(Piece)
  BY <1>1, LenProperties DEF CPInv, ControlInv, Shape, SentIn, Piece
<1>3. Address \in Tag
  BY <1>1, Constants DEF Known, Address
<1>4. Shape'
  <2>1. applied' \in Seq(1..Len(sent))
    <3>1. Append(applied, control.no) \in Seq(1..Len(sent))
      BY <1>2, AppendProperties
    <3> QED
      BY <1>1, <1>2, <3>1
  <2>2. DOMAIN rtControl' = Tag /\ \A t \in Tag : rtControl'[t].no \in 0..Len(sent)
    BY <1>1, <1>2, <1>3 DEF CPInv, Shape
  <2> QED
    BY <1>1, <2>1, <2>2 DEF CPInv, Shape
<1>5. ASSUME NEW t \in Types
      PROVE  InOrder(pipe'[t], t, sent', applied', Now(t)')
  <2>1. InOrder(pipe[t], t, sent, applied, IF control.type = t THEN control.no ELSE 0)
    BY <1>1 DEF CPInv, PipeInv, Now
  <2>2. InOrder(pipe[t], t, sent, Append(applied, control.no), 0)
    BY <1>2, <2>1, OrderApplied
  <2>3. InOrder(pipe[t], t, sent, applied, 0)
    BY <1>2, <2>1, OrderForgotten
  <2> QED
    BY <1>1, <2>2, <2>3 DEF Now
<1> QED
  BY <1>1, <1>4, <1>5 DEF CPInv, PipeInv, ControlInv

\* The statement is refused or has no row, with or without a crash.
LEMMA DropStep ==
    ASSUME CPInv, Ignore \/ Crash
    PROVE  CPInv'
<1>1. pc' # "apply" /\ UNCHANGED <<pipe, sent, control, rtControl, applied>>
  BY DEF Ignore, Crash
<1>2. \A t \in Types : InOrder(pipe[t], t, sent, applied, 0)
  <2> SUFFICES ASSUME NEW t \in Types
               PROVE  InOrder(pipe[t], t, sent, applied, 0)
    OBVIOUS
  <2>1. InOrder(pipe[t], t, sent, applied, Now(t))
    BY DEF CPInv, PipeInv
  <2> QED
    BY <2>1, OrderForgotten DEF CPInv, Shape
<1> QED
  BY <1>1, <1>2 DEF CPInv, Shape, PipeInv, ControlInv, Now

\* Every step keeps the invariant.
LEMMA InvStep == CPInv /\ [Next]_vars => CPInv'
<1> SUFFICES ASSUME CPInv, [Next]_vars
             PROVE  CPInv'
  OBVIOUS
<1>1. ASSUME NEW type \in Types, NEW ix \in Indices, NEW raw \in Raw, Operate(type, ix, raw)
      PROVE  CPInv'
  BY <1>1, OperateStep
<1>2. CASE ReceiveDigital \/ ReceiveAnalog
  BY <1>2, ReceiveStep DEF ReceiveDigital, ReceiveAnalog, Types
<1>3. CASE Apply
  BY <1>3, ApplyStep
<1>4. CASE Ignore \/ Crash
  BY <1>4, DropStep
<1>5. CASE UNCHANGED vars
  BY <1>5 DEF vars, CPInv, Shape, PipeInv, ControlInv, Now
<1> QED
  BY <1>1, <1>2, <1>3, <1>4, <1>5 DEF Next, Client

\* The pipes are empty at the start.
LEMMA InvInit == Init => CPInv
<1> SUFFICES ASSUME Init
             PROVE  CPInv
  OBVIOUS
<1>1. /\ \A t \in Types : pipe[t] = <<>>
      /\ pipe \in [Types -> Seq(Piece)] /\ sent \in Seq(Control) /\ applied \in Seq(1..Len(sent))
  BY EmptySeq DEF Init
<1>2. DOMAIN rtControl = Tag /\ \A t \in Tag : rtControl[t].no \in 0..Len(sent)
  BY DEF Init, Untouched
<1>3. Shape
  BY <1>1, <1>2 DEF Shape, Piece
<1>4. PipeInv /\ ControlInv
  BY <1>1, EmptySeq DEF Init, PipeInv, ControlInv, InOrder
<1> QED
  BY <1>3, <1>4 DEF CPInv

\* The pipes, the static records and rt_control agree with what the master sent
\* (Dnp3ControlReceived, and the reads of the pipes in dnp3clientService).
THEOREM InductiveInv == Spec => []CPInv
<1>1. Init => CPInv
  BY InvInit
<1>2. CPInv /\ [Next]_vars => CPInv'
  BY InvStep
<1> QED
  BY <1>1, <1>2, PTL DEF Spec

-----------------------------------------------------------------------------
\* A control is carried out once, and in the order of its type: the one that is
\* about to be appended is ahead of no other.
Once(done, past) ==
    \A i, j \in 1..Len(done) :
        i < j /\ past[done[i]].type = past[done[j]].type => done[i] < done[j]

\* A control that was sent after those of its type is carried out.
LEMMA OnceMore ==
    ASSUME NEW past \in Seq(Control), NEW done \in Seq(1..Len(past)), NEW c,
           SentIn(past, c), Behind(done, past, c.type, c.no), Once(done, past)
    PROVE  Once(Append(done, c.no), past)
<1> DEFINE new == Append(done, c.no)
<1>1. c.no \in 1..Len(past) /\ past[c.no] = c
  BY DEF SentIn
<1>2. /\ Len(new) = Len(done) + 1 /\ Len(done) \in Nat
      /\ \A i \in 1..Len(done) : new[i] = done[i]
      /\ new[Len(done) + 1] = c.no
  BY <1>1, AppendProperties, LenProperties
<1> HIDE DEF new
<1>3. ASSUME NEW i \in 1..Len(new), NEW j \in 1..Len(new),
             i < j, past[new[i]].type = past[new[j]].type
      PROVE  new[i] < new[j]
  <2>1. i \in 1..Len(done) /\ new[i] = done[i]
    BY <1>2, <1>3
  <2>2. CASE j \in 1..Len(done)
    <3>1. new[j] = done[j]
      BY <1>2, <2>2
    <3> QED
      BY <1>3, <2>1, <2>2, <3>1 DEF Once
  <2>3. CASE j = Len(done) + 1
    <3>1. new[j] = c.no /\ past[done[i]].type = c.type
      BY <1>1, <1>2, <1>3, <2>1, <2>3
    <3> QED
      BY <2>1, <3>1 DEF Behind
  <2> QED
    BY <1>2, <2>2, <2>3
<1> QED
  BY <1>3 DEF Once, new

\* InOrderOnce for every number of controls, every length of text and of read.
THEOREM CarriedOutInOrder == Spec => []InOrderOnce
<1>1. Init => InOrderOnce
  BY EmptySeq DEF Init, InOrderOnce
<1>2. CPInv /\ InOrderOnce /\ [Next]_vars => InOrderOnce'
  <2> SUFFICES ASSUME CPInv, InOrderOnce, [Next]_vars
               PROVE  InOrderOnce'
    OBVIOUS
  <2>1. /\ sent \in Seq(Control) /\ applied \in Seq(1..Len(sent))
        /\ \A i \in 1..Len(applied) : applied[i] \in 1..Len(sent)
        /\ Once(applied, sent)
    BY ElementOfSeq DEF CPInv, Shape, InOrderOnce, Once
  <2>2. ASSUME NEW type \in Types, NEW ix \in Indices, NEW raw \in Raw, Operate(type, ix, raw)
        PROVE  InOrderOnce'
    <3>1. \A i \in 1..Len(sent) : sent'[i] = sent[i]
      BY <2>2, OperateStep
    <3>2. applied' = applied
      BY <2>2 DEF Operate
    <3>3. \A i \in 1..Len(applied) : sent'[applied[i]] = sent[applied[i]]
      BY <2>1, <3>1
    <3> QED
      BY <3>2, <3>3 DEF InOrderOnce
  <2>3. CASE Apply
    <3>1. SentIn(sent, control) /\ Behind(applied, sent, control.type, control.no)
      BY <2>3 DEF Apply, CPInv, ControlInv
    <3>2. Once(Append(applied, control.no), sent)
      BY <2>1, <3>1, OnceMore
    <3>3. sent' = sent /\ (applied' = Append(applied, control.no) \/ applied' = applied)
      BY <2>3 DEF Apply
    <3> QED
      BY <2>1, <3>2, <3>3 DEF InOrderOnce, Once
  <2>4. CASE UNCHANGED <<sent, applied>>
    BY <2>4 DEF InOrderOnce
  <2>5. ReceiveDigital \/ ReceiveAnalog \/ Ignore \/ Crash \/ UNCHANGED vars => UNCHANGED <<sent, applied>>
    BY DEF ReceiveDigital, ReceiveAnalog, Receive, Ignore, Crash, vars
  <2> QED
    BY <2>2, <2>3, <2>4, <2>5 DEF Next, Client
<1> QED
  BY <1>1, <1>2, InductiveInv, PTL DEF Spec

-----------------------------------------------------------------------------
\* OwnControl for every assignment of tags to indices.
THEOREM ControlsOwn == Spec => []OwnControl
<1>1. Init => OwnControl
  BY DEF Init, OwnControl, Untouched
<1>2. CPInv /\ OwnControl /\ [Next]_vars => OwnControl'
  <2> SUFFICES ASSUME CPInv, OwnControl, [Next]_vars
               PROVE  OwnControl'
    OBVIOUS
  <2>1. DOMAIN rtControl = Tag /\ \A t \in Tag : rtControl[t].no \in 0..Len(sent)
    BY DEF CPInv, Shape
  <2>2. ASSUME NEW type \in Types, NEW ix \in Indices, NEW raw \in Raw, Operate(type, ix, raw)
        PROVE  OwnControl'
    <3>1. \A i \in 1..Len(sent) : sent'[i] = sent[i]
      BY <2>2, OperateStep
    <3>2. rtControl' = rtControl
      BY <2>2 DEF Operate
    <3>3. \A t \in Tag : rtControl[t].no # 0 => sent'[rtControl[t].no] = sent[rtControl[t].no]
      BY <2>1, <3>1, LenProperties DEF CPInv, Shape
    <3> QED
      BY <3>2, <3>3 DEF OwnControl
  <2>3. CASE Apply
    <3>1. SentIn(sent, control) /\ Known /\ sent' = sent
      BY <2>3 DEF Apply, CPInv, ControlInv
    <3>2. PICK val :
            /\ val = IF control.type = "AO" THEN Scale(Address, control.raw) ELSE control.raw
            /\ \/ rtControl' = [rtControl EXCEPT ![Address] = [no |-> control.no, val |-> val]]
               \/ rtControl' = rtControl
      BY <2>3 DEF Apply
    <3>3. ASSUME NEW t \in Tag, t = Address, rtControl' # rtControl
          PROVE  /\ rtControl'[t] = [no |-> control.no, val |-> val]
                 /\ control = sent[control.no] /\ TagAt[<<control.type, control.ix>>] = t
      BY <2>1, <3>1, <3>2, <3>3 DEF SentIn, Address
    <3>4. ASSUME NEW t \in Tag, t # Address
          PROVE  rtControl'[t] = rtControl[t]
      BY <2>1, <3>2, <3>4
    <3> QED
      BY <3>1, <3>2, <3>3, <3>4 DEF OwnControl
  <2>4. CASE UNCHANGED <<sent, rtControl>>
    BY <2>4 DEF OwnControl
  <2>5. ReceiveDigital \/ ReceiveAnalog \/ Ignore \/ Crash \/ UNCHANGED vars => UNCHANGED <<sent, rtControl>>
    BY DEF ReceiveDigital, ReceiveAnalog, Receive, Ignore, Crash, vars
  <2> QED
    BY <2>2, <2>3, <2>4, <2>5 DEF Next, Client
<1> QED
  BY <1>1, <1>2, InductiveInv, PTL DEF Spec

-----------------------------------------------------------------------------
\* A part of a range, by the integer division of scaleAnalog, lies in the range.
LEMMA PartOfRange ==
    ASSUME NEW a \in Nat, NEW d \in Nat, NEW x \in 0..d, d > 0
    PROVE  (a * x) \div d \in 0..a /\ (x = 0 => (a * x) \div d = 0)
<1>1. a * x \in Nat /\ a * x <= a * d
  OBVIOUS
<1>2. \A m \in Nat : (m \div d) \in Nat /\ d * (m \div d) <= m
  OBVIOUS
<1>3. ((a * x) \div d) \in Nat /\ d * ((a * x) \div d) <= d * a
  BY <1>1, <1>2
<1>4. \A q \in Nat : d * q <= d * a => q <= a
  OBVIOUS
<1> QED
  BY <1>1, <1>3, <1>4

\* The ranges that anapnt is meant to hold: not upside down, and not a point.
RangesUpright == \A t \in DOMAIN Row : Row[t].lowRaw < Row[t].hiRaw /\ Row[t].lowEng <= Row[t].hiEng

\* What scaleAnalog returns for a value in the raw range.
LEMMA ScaleInRange ==
    ASSUME RangesUpright, NEW t \in DOMAIN Row, NEW raw \in Row[t].lowRaw..Row[t].hiRaw
    PROVE  /\ Scale(t, raw) \in Positive(Row[t].lowEng)..Positive(Row[t].hiEng)
           /\ raw = Row[t].hiRaw => Scale(t, raw) = Positive(Row[t].hiEng)
<1> DEFINE r == Row[t]
           a == r.hiEng - r.lowEng
           d == r.hiRaw - r.lowRaw
           x == r.hiRaw - raw
           part == (a * x) \div d
<1>1. r.lowEng \in Int /\ r.hiEng \in Int /\ r.lowRaw \in Int /\ r.hiRaw \in Int
  BY Rows
<1>2. a \in Nat /\ d \in Nat /\ d > 0 /\ x \in 0..d /\ (raw = r.hiRaw => x = 0)
  BY <1>1 DEF RangesUpright
<1>3. part \in 0..a /\ (x = 0 => part = 0)
  BY <1>2, PartOfRange
<1>4. Scale(t, raw) = Positive(r.hiEng - part)
  BY DEF Scale
<1> HIDE DEF part
<1> QED
  BY <1>1, <1>2, <1>3, <1>4 DEF Positive

\* InRange for every table of upright ranges: a value within the raw range of its
\* tag is set within the engineering range, the end to the end.
THEOREM AnalogsInRange ==
    ASSUME RangesUpright
    PROVE  Spec => []InRange
<1>1. OwnControl => InRange
  <2> SUFFICES ASSUME OwnControl, NEW t \in DOMAIN Row,
                      rtControl[t].no # 0, sent[rtControl[t].no].type = "AO",
                      sent[rtControl[t].no].raw \in Row[t].lowRaw..Row[t].hiRaw
               PROVE  LET c == sent[rtControl[t].no]
                      IN  /\ rtControl[t].val \in Positive(Row[t].lowEng)..Positive(Row[t].hiEng)
                          /\ c.raw = Row[t].hiRaw => rtControl[t].val = Positive(Row[t].hiEng)
    BY DEF InRange
  <2>1. t \in Tag
    BY Rows
  <2>2. rtControl[t].val = Scale(t, sent[rtControl[t].no].raw)
    BY <2>1 DEF OwnControl
  <2> QED
    BY <2>2, ScaleInRange
<1> QED
  BY <1>1, ControlsOwn, PTL
================================================================================
