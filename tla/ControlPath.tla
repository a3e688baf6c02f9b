------------------------------ MODULE ControlPath ------------------------------
(***************************************************************************)
(* Controls from the DNP3 master to the database.  The library writes each *)
(* operated control as one JSON text into a named pipe, one pipe for       *)
(* digital and one for analog outputs; once per poll the client thread     *)
(* reads each pipe at most once (Dnp3ControlReceived), finds the point's   *)
(* tag (dnp3tag), scales an analog value (scaleAnalog) and updates the row *)
(* of table rt_control.                                                    *)
(*                                                                         *)
(* Bytes are counted in pieces: a text of 63 to 66 bytes is two pieces,    *)
(* the buffer of 100 bytes holds three.                                    *)
(***************************************************************************)
EXTENDS Integers, Sequences

CONSTANTS
    Tag,      \* addresses of rt_control
    TagAt,    \* TagAt[<<type, ix>>]: the tag that dnp3tagIx has at the index
    Row,      \* Row[tag]: the row of anapnt, for the tags that have one
    Indices,  \* point indices that the master operates
    Raw,      \* raw values that it sends
    TextLen,  \* pieces per text
    ReadLen,  \* pieces per read()
    Burst,    \* bound: texts in a pipe at any time
    MaxSent,  \* bound: controls sent
    MaxFails  \* bound: refused statements

Types == {"DO", "AO"}

ASSUME CPAssumption ==
    /\ DOMAIN TagAt \subseteq Types \X Indices
    /\ \A k \in DOMAIN TagAt : TagAt[k] \in Tag
    /\ DOMAIN Row \subseteq Tag
    /\ \A t \in DOMAIN Row : Row[t] \in [lowEng : Int, lowRaw : Int, hiEng : Int, hiRaw : Int]
    /\ Raw \subseteq Int
    /\ TextLen \in Nat \ {0}
    /\ ReadLen \in Nat /\ ReadLen >= TextLen
    /\ Burst \in Nat /\ MaxSent \in Nat /\ MaxFails \in Nat

VARIABLES
    pipe,      \* pipe[type]: pieces [text, part] that are written and not read
    sent,      \* history: the controls sent
    pc,        \* where the client thread is; "dead" after a crash
    control,   \* the static control of Dnp3ControlReceived
    rtControl, \* rtControl[tag]: setvalue, with the number of the control
    applied,   \* history: numbers of the controls that reached rt_control
    fails      \* refused statements

vars == <<pipe, sent, pc, control, rtControl, applied, fails>>

\* alone is history: the pipe was empty when the control was sent.
Control == [no : 1..MaxSent, type : Types, ix : Indices, raw : Raw, alone : BOOLEAN]
NoControl == [no |-> 0]
Untouched == [no |-> 0, val |-> 0]

TypeOK ==
    /\ \A t \in Types : pipe[t] \in Seq([text : Control, part : 1..TextLen])
    /\ sent \in Seq(Control)
    /\ pc \in {"digital", "analog", "apply", "dead"}
    /\ control \in Control \cup {NoControl}
    /\ \A t \in Tag : rtControl[t].no \in 0..MaxSent /\ rtControl[t].val \in Int
    /\ applied \in Seq(1..MaxSent)
    /\ fails \in 0..MaxFails

Init ==
    /\ pipe = [t \in Types |-> <<>>]
    /\ sent = <<>>
    /\ pc = "digital" /\ control = NoControl
    /\ rtControl = [t \in Tag |-> Untouched]
    /\ applied = <<>>
    /\ fails = 0

-----------------------------------------------------------------------------
Text(c) == [i \in 1..TextLen |-> [text |-> c, part |-> i]]

\* The library: a text is written at once.
Operate(type, ix, raw) ==
    LET c == [no |-> Len(sent) + 1, type |-> type, ix |-> ix, raw |-> raw,
              alone |-> pipe[type] = <<>>]
    IN  /\ Len(sent) < MaxSent
        /\ Len(pipe[type]) <= (Burst - 1) * TextLen
        /\ sent' = Append(sent, c)
        /\ pipe' = [pipe EXCEPT ![type] = @ \o Text(c)]
        /\ UNCHANGED <<pc, control, rtControl, applied, fails>>

\* sscanf takes the text that the buffer begins with, when all of it is there:
\* the index and the value stand at its end.
Parses(buffer) == Len(buffer) >= TextLen /\ buffer[1].part = 1

\* Mutant: what is read stays in the pipe.
Unread(pieces, n) == pieces

Rest(pieces, n) == SubSeq(pieces, n + 1, Len(pieces))

\* The pipe of one type: read() takes what is there, up to the buffer's size,
\* and what is not parsed is gone.  Without a control the next stage follows.
Receive(type, here, next) ==
    /\ pc = here
    /\ LET n      == IF Len(pipe[type]) < ReadLen THEN Len(pipe[type]) ELSE ReadLen
           buffer == SubSeq(pipe[type], 1, n)
       IN  /\ pipe' = [pipe EXCEPT ![type] = Rest(@, n)]
           /\ \/ Parses(buffer) /\ control' = buffer[1].text /\ pc' = "apply"
              \/ ~Parses(buffer) /\ pc' = next /\ UNCHANGED control
    /\ UNCHANGED <<sent, rtControl, applied, fails>>

\* Mutant: the analog pipe is never read.
OtherPipe == Receive("DO", "analog", "digital")

\* The analog pipe is read only when the digital one gave nothing.
ReceiveDigital == Receive("DO", "digital", "analog")
ReceiveAnalog  == Receive("AO", "analog", "digital")

\* Mutant: the ends of the engineering range are swapped.
ScaleDown(tag, raw) ==
    LET r == Row[tag]
    IN  r.lowEng + ((r.hiEng - r.lowEng) * (r.hiRaw - raw)) \div (r.hiRaw - r.lowRaw)

Positive(n) == IF n < 0 THEN 0 ELSE n

\* scaleAnalog: linear between the ends of the range, and not below zero.
Scale(tag, raw) ==
    LET r == Row[tag]
    IN  Positive(r.hiEng - ((r.hiEng - r.lowEng) * (r.hiRaw - raw)) \div (r.hiRaw - r.lowRaw))

Known   == <<control.type, control.ix>> \in DOMAIN TagAt

\* Mutant: dnp3tag looks among the analog outputs for every control.
AddressOfAnalog == TagAt[<<"AO", control.ix>>]

\* dnp3tag
Address == TagAt[<<control.type, control.ix>>]

Refused == fails < MaxFails /\ fails' = fails + 1

\* The UPDATE of rt_control, which the database may refuse.
Apply ==
    /\ pc = "apply" /\ Known
    /\ control.type = "DO" \/ Address \in DOMAIN Row
    /\ LET val == IF control.type = "AO" THEN Scale(Address, control.raw) ELSE control.raw
       IN  \/ /\ rtControl' = [rtControl EXCEPT ![Address] = [no |-> control.no, val |-> val]]
              /\ applied' = Append(applied, control.no)
              /\ UNCHANGED fails
           \/ Refused /\ UNCHANGED <<rtControl, applied>>
    /\ pc' = "digital"
    /\ UNCHANGED <<pipe, sent, control>>

\* dnp3tag finds no row for the index, or its SELECT is refused.
Ignore ==
    /\ pc = "apply"
    /\ \/ ~Known /\ UNCHANGED fails
       \/ Refused
    /\ pc' = "digital"
    /\ UNCHANGED <<pipe, sent, control, rtControl, applied>>

\* scaleAnalog reads the columns of the row of anapnt, and there is none.
Crash ==
    /\ pc = "apply" /\ Known /\ control.type = "AO"
    /\ \/ Address \notin DOMAIN Row /\ UNCHANGED fails
       \/ Refused
    /\ pc' = "dead"
    /\ UNCHANGED <<pipe, sent, control, rtControl, applied>>

Client == ReceiveDigital \/ ReceiveAnalog \/ Apply \/ Ignore \/ Crash

Next ==
    \/ \E type \in Types, ix \in Indices, raw \in Raw : Operate(type, ix, raw)
    \/ Client

Spec == Init /\ [][Next]_vars

\* The client thread is a loop without an exit; nobody has to operate a control.
FairSpec == Spec /\ WF_vars(Client)

-----------------------------------------------------------------------------
\* The value in rt_control is that of one control sent for this very tag, scaled
\* for an analog output: digital and analog controls of the same index, handled
\* by one static record, do not get mixed up (Dnp3ControlReceived, dnp3tag).
OwnControl ==
    \A t \in Tag : rtControl[t].no # 0 =>
        LET c == sent[rtControl[t].no]
        IN  /\ TagAt[<<c.type, c.ix>>] = t
            /\ rtControl[t].val = IF c.type = "AO" THEN Scale(t, c.raw) ELSE c.raw

\* No control is carried out twice, and those of one type in the order in which
\* the master sent them, whatever is lost between them.
InOrderOnce ==
    \A i, j \in 1..Len(applied) :
        i < j /\ sent[applied[i]].type = sent[applied[j]].type => applied[i] < applied[j]

\* An analog output that the master sets within its raw range is set within its
\* engineering range, as far as that is not negative, and to its end by the end
\* of the raw range (scaleAnalog).
InRange ==
    \A t \in DOMAIN Row :
        LET c == sent[rtControl[t].no]
            r == Row[t]
        IN  rtControl[t].no # 0 /\ c.type = "AO" /\ c.raw \in r.lowRaw..r.hiRaw =>
                /\ rtControl[t].val \in Positive(r.lowEng)..Positive(r.hiEng)
                /\ c.raw = r.hiRaw => rtControl[t].val = Positive(r.hiEng)

AppliedNo(n) == \E i \in 1..Len(applied) : applied[i] = n

ForKnownTag(n) == n <= Len(sent) /\ <<sent[n].type, sent[n].ix>> \in DOMAIN TagAt

\* "Handle controls when received" (dnp3clientService): a control for a known tag
\* that was written into an empty pipe reaches rt_control, whatever follows it
\* there; it is lost only by a refused statement or with the process.  Not so a
\* control that follows another one: one read() takes both.
AloneApplied ==
    \A n \in 1..MaxSent :
        (ForKnownTag(n) /\ sent[n].alone) ~> (AppliedNo(n) \/ fails # 0 \/ pc = "dead")
================================================================================
