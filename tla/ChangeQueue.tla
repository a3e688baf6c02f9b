------------------------------ MODULE ChangeQueue ------------------------------
(***************************************************************************)
(* The four queues of class InfoLink (changed alarms, changed status,      *)
(* commands, station messages) have one pattern: set...() pushes under a   *)
(* mutex and raises a flag; the user polls the flag without the mutex and  *)
(* calls get...(), which copies and clears the queue and lowers the flag   *)
(* under the mutex; or a callback on the listener's own thread calls       *)
(* get...().  This module is one such queue, one step per statement.       *)
(***************************************************************************)
EXTENDS Naturals, Sequences

CONSTANTS
    Thread,        \* the threads of the process
    Producer,      \* those that call set...(): listener threads
    Callback,      \* producers whose callback calls get...()
    Consumer,      \* threads that poll the flag and call get...()
    MaxItems,      \* bound: changes
    MaxConstructs, \* bound: InfoLink objects made after the first one
    NoThread       \* the mutex is free

ASSUME CQAssumption ==
    /\ Producer \subseteq Thread /\ Consumer \subseteq Thread
    /\ Callback \subseteq Producer
    /\ NoThread \notin Thread
    /\ MaxItems \in Nat /\ MaxConstructs \in Nat

VARIABLES
    queue,     \* changed_alarms, changed_status, commands or station_comm
    flag,      \* alarm_change, status_change, have_command or have_station_comm
    holder,    \* who has the mutex
    pc,        \* where each thread is
    copy,      \* each thread's local copy of the queue
    called,    \* calls of set...() so far
    pushed,    \* history: changes pushed so far
    delivered, \* history: the changes that were handed over, in their order
    constructs \* objects made so far

vars == <<queue, flag, holder, pc, copy, called, pushed, delivered, constructs>>

\* The statements between lock() and unlock().
InSet  == {"push", "raise", "setUnlock"}
InGet  == {"copy", "clear", "lower", "getUnlock"}
Inside == InSet \cup InGet

TypeOK ==
    /\ queue \in Seq(Nat \ {0})
    /\ flag \in BOOLEAN
    /\ holder \in Thread \cup {NoThread}
    /\ pc \in [Thread -> {"idle", "set", "get"} \cup Inside]
    /\ copy \in [Thread -> Seq(Nat \ {0})]
    /\ called \in 0..MaxItems
    /\ pushed \in Nat
    /\ delivered \in Seq(Nat \ {0})
    /\ constructs \in 0..MaxConstructs

Init ==
    /\ queue = <<>> /\ flag = FALSE /\ holder = NoThread
    /\ pc = [t \in Thread |-> "idle"] /\ copy = [t \in Thread |-> <<>>]
    /\ called = 0 /\ pushed = 0 /\ delivered = <<>> /\ constructs = 0

Goto(t, label) == pc' = [pc EXCEPT ![t] = label]

-----------------------------------------------------------------------------
\* A listener has read a message.
CallSet(t) ==
    /\ pc[t] = "idle" /\ t \in Producer
    /\ called < MaxItems /\ called' = called + 1
    /\ Goto(t, "set")
    /\ UNCHANGED <<queue, flag, holder, copy, pushed, delivered, constructs>>

\* Mutant: set...() without the mutex.
SetUnlocked(t) ==
    /\ pc[t] = "set"
    /\ holder' = t
    /\ Goto(t, "push")
    /\ UNCHANGED <<queue, flag, copy, called, pushed, delivered, constructs>>

LockForSet(t) ==
    /\ pc[t] = "set" /\ holder = NoThread
    /\ holder' = t
    /\ Goto(t, "push")
    /\ UNCHANGED <<queue, flag, copy, called, pushed, delivered, constructs>>

\* Mutant: the change before is pushed.
PushLast(t) ==
    /\ pc[t] = "push"
    /\ queue' = Append(queue, pushed) /\ pushed' = pushed + 1
    /\ Goto(t, "raise")
    /\ UNCHANGED <<flag, holder, copy, called, delivered, constructs>>

Push(t) ==
    /\ pc[t] = "push"
    /\ queue' = Append(queue, pushed + 1) /\ pushed' = pushed + 1
    /\ Goto(t, "raise")
    /\ UNCHANGED <<flag, holder, copy, called, delivered, constructs>>

\* Mutant: the flag is not raised.
RaiseNothing(t) ==
    /\ pc[t] = "raise"
    /\ Goto(t, "setUnlock")
    /\ UNCHANGED <<queue, flag, holder, copy, called, pushed, delivered, constructs>>

\* got...Change()
Raise(t) ==
    /\ pc[t] = "raise"
    /\ flag' = TRUE
    /\ Goto(t, "setUnlock")
    /\ UNCHANGED <<queue, holder, copy, called, pushed, delivered, constructs>>

\* The callback follows at once, on the same thread.
UnlockAfterSet(t) ==
    /\ pc[t] = "setUnlock"
    /\ holder' = NoThread
    /\ Goto(t, IF t \in Callback THEN "get" ELSE "idle")
    /\ UNCHANGED <<queue, flag, copy, called, pushed, delivered, constructs>>

-----------------------------------------------------------------------------
\* ...Change(): the user polls without the mutex and calls get...().
Poll(t) ==
    /\ pc[t] = "idle" /\ t \in Consumer /\ flag
    /\ Goto(t, "get")
    /\ UNCHANGED <<queue, flag, holder, copy, called, pushed, delivered, constructs>>

LockForGet(t) ==
    /\ pc[t] = "get" /\ holder = NoThread
    /\ holder' = t
    /\ Goto(t, IF queue # <<>> THEN "copy" ELSE "getUnlock")
    /\ UNCHANGED <<queue, flag, copy, called, pushed, delivered, constructs>>

Copy(t) ==
    /\ pc[t] = "copy"
    /\ copy' = [copy EXCEPT ![t] = queue]
    /\ Goto(t, "clear")
    /\ UNCHANGED <<queue, flag, holder, called, pushed, delivered, constructs>>

Clear(t) ==
    /\ pc[t] = "clear"
    /\ queue' = <<>>
    /\ delivered' = delivered \o copy[t]
    /\ Goto(t, "lower")
    /\ UNCHANGED <<flag, holder, copy, called, pushed, constructs>>

\* reset...Change()
Lower(t) ==
    /\ pc[t] = "lower"
    /\ flag' = FALSE
    /\ Goto(t, "getUnlock")
    /\ UNCHANGED <<queue, holder, copy, called, pushed, delivered, constructs>>

UnlockAfterGet(t) ==
    /\ pc[t] = "getUnlock"
    /\ holder' = NoThread
    /\ copy' = [copy EXCEPT ![t] = <<>>]
    /\ Goto(t, "idle")
    /\ UNCHANGED <<queue, flag, called, pushed, delivered, constructs>>

Step(t) ==
    \/ LockForSet(t) \/ Push(t) \/ Raise(t) \/ UnlockAfterSet(t)
    \/ Poll(t) \/ LockForGet(t) \/ Copy(t) \/ Clear(t) \/ Lower(t) \/ UnlockAfterGet(t)

Next == \E t \in Thread : CallSet(t) \/ Step(t)

Spec == Init /\ [][Next]_vars

\* Every holder leaves its critical section and users poll for ever.  Nothing
\* more is assumed of the mutex: a thread may wait for it as long as others use it.
Fairness == \A t \in Thread : WF_vars(Step(t))

FairSpec == Spec /\ Fairness

-----------------------------------------------------------------------------
\* setInitial of one more object, called by a thread that does not hold the
\* mutex: it unlocks it all the same, and lowers the flag.
Construct ==
    /\ constructs < MaxConstructs /\ constructs' = constructs + 1
    /\ holder' = NoThread /\ flag' = FALSE
    /\ UNCHANGED <<queue, pc, copy, called, pushed, delivered>>

SpecObjects == Init /\ [][Next \/ Construct]_vars

-----------------------------------------------------------------------------
\* Two threads are never between lock() and unlock() of the same queue.
OneInside == \A t, u \in Thread : pc[t] \in Inside /\ pc[u] \in Inside => t = u

\* Outside of the critical sections the flag says whether changes wait: no
\* interleaving of set...() and get...() leaves a change behind a lowered flag.
FlagTells ==
    (\A t \in Thread : pc[t] \notin Inside) => (flag <=> queue # <<>>)

\* "these return copies of the internal container AND the internal container is
\* CLEARED" (infolinker.hpp): every change is handed over once, in order.
Abstract == INSTANCE HandOff WITH waiting <- queue
HandsOver == Abstract!Spec

\* The same of one step: nothing that was pushed is cleared without a copy.
NothingDiscarded == pushed = Len(queue) + Len(delivered)

\* Every change that was pushed reaches the user, while new ones come or not.
AllDelivered ==
    \A n \in 1..MaxItems : (pushed >= n) ~> (Len(delivered) >= n)

-----------------------------------------------------------------------------
\* The inductive invariant: whoever is inside holds the mutex, the flag lags
\* behind the queue only inside, and a copy is the queue until it is cleared.
QueueInv ==
    /\ \A t \in Thread : pc[t] \in Inside => holder = t
    /\ FlagTells
    /\ \A t \in Thread :
        /\ pc[t] = "push" => (flag <=> queue # <<>>)
        /\ pc[t] \in {"raise", "setUnlock"} => queue # <<>>
        /\ pc[t] = "setUnlock" => flag
        /\ pc[t] = "clear" => copy[t] = queue
        /\ pc[t] \in {"copy", "clear"} => queue # <<>> /\ flag
        /\ pc[t] = "lower" => queue = <<>>
        /\ pc[t] = "getUnlock" => (flag <=> queue # <<>>)
    /\ NothingDiscarded
================================================================================
