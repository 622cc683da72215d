------------------------------- MODULE UCond -------------------------------
(***************************************************************************)
(* The condition variable of the user library (synch/cvar.c), with its     *)
(* world mutex.  cond_wait gives the mutex up while it has the spinlock of *)
(* the condition variable, so nobody can dequeue it before it sleeps.      *)
(***************************************************************************)
EXTENDS UMutex

VARIABLE cvq

condVars == <<mutexVars, cvq>>

CondInit == MutexInit /\ cvq = <<>>

-----------------------------------------------------------------------------
(* cond_wait(cv, mp), called with mp locked *)

CallWait(t) ==
    /\ At(t, "crit")
    /\ Call(t, "cv", "c_spin", "c_park")
    /\ UNCHANGED condVars

(* queue_enqueue, and the ticket that mutex_unlock draws *)
WaitEnqueue(t) ==
    /\ At(t, "c_spin") /\ Turn(t, "cv")
    /\ cvq' = Append(cvq, t)
    /\ Call(t, "mp", "u_spin", "c_park")
    /\ UNCHANGED mutexVars

(* Mutant: reject is cleared after the spinlock was given up. *)
WaitParkLate(t) ==
    /\ At(t, "c_park")
    /\ \/ Turn(t, "cv") /\ SpinUnlock("cv") /\ UNCHANGED <<reject, pc>>
       \/ /\ t \notin ToSet(spin["cv"])
          /\ reject' = [reject EXCEPT ![t] = FALSE]
          /\ Goto(t, "c_wait")
          /\ UNCHANGED spin
    /\ UNCHANGED <<asleep, target, home, condVars>>

WaitPark(t) ==
    /\ At(t, "c_park")
    /\ reject' = [reject EXCEPT ![t] = FALSE]
    /\ SpinUnlock("cv")
    /\ Goto(t, "c_wait")
    /\ UNCHANGED <<asleep, target, home, condVars>>

(* The waiter's entry stays on its stack while it locks the mutex. *)
WaitLoop(t) ==
    /\ At(t, "c_wait")
    /\ \/ Deschedule(t)
       \/ reject[t] /\ Call(t, "mp", "k_spin", "crit")
    /\ UNCHANGED condVars

-----------------------------------------------------------------------------
(* cond_signal and cond_broadcast, called with or without the mutex *)

CallWake(t, label) ==
    /\ At(t, "out") \/ At(t, "crit")
    /\ Call(t, "cv", label, pc[t])
    /\ UNCHANGED condVars

SignalSection(t) ==
    /\ At(t, "s_spin") /\ Turn(t, "cv")
    /\ \/ /\ cvq # <<>>
          /\ target' = [target EXCEPT ![t] = Head(cvq)]
          /\ cvq' = Tail(cvq)
          /\ Goto(t, "post")
       \/ /\ cvq = <<>>
          /\ Goto(t, home[t])
          /\ UNCHANGED <<target, cvq>>
    /\ SpinUnlock("cv")
    /\ UNCHANGED <<asleep, reject, home, mutexVars>>

BroadcastEnter(t) ==
    /\ At(t, "b_spin") /\ Turn(t, "cv")
    /\ Goto(t, "b_loop")
    /\ UNCHANGED <<spin, asleep, reject, target, home, condVars>>

(* queue_dequeue, qe->reject = 1 *)
BroadcastPost(t) ==
    /\ At(t, "b_loop") /\ cvq # <<>>
    /\ reject' = [reject EXCEPT ![Head(cvq)] = TRUE]
    /\ target' = [target EXCEPT ![t] = Head(cvq)]
    /\ cvq' = Tail(cvq)
    /\ Goto(t, "b_wake")
    /\ UNCHANGED <<spin, asleep, home, mutexVars>>

BroadcastWake(t) ==
    /\ At(t, "b_wake")
    /\ MakeRunnableLate(t)
    /\ target' = [target EXCEPT ![t] = None]
    /\ Goto(t, "b_loop")
    /\ UNCHANGED <<spin, reject, home, condVars>>

BroadcastEnd(t) ==
    /\ At(t, "b_loop") /\ cvq = <<>>
    /\ SpinUnlock("cv")
    /\ Goto(t, home[t])
    /\ UNCHANGED <<asleep, reject, target, home, condVars>>

CondStep(t) ==
    \/ MutexStep(t) /\ UNCHANGED cvq
    \/ WaitEnqueue(t) \/ WaitPark(t) \/ WaitLoop(t) \/ SignalSection(t)
    \/ BroadcastEnter(t) \/ BroadcastPost(t) \/ BroadcastWake(t) \/ BroadcastEnd(t)

CondCall(t) ==
    \/ MutexCall(t) /\ UNCHANGED cvq
    \/ CallWait(t)
    \/ \E label \in {"s_spin", "b_spin"} : CallWake(t, label)

-----------------------------------------------------------------------------
(* Refinement: as for the kernel's condition variable, a broadcast takes   *)
(* effect when it gets the spinlock, and a waiter joins when it gives up   *)
(* the mutex: until then it is the last in the queue and does not count.   *)

OnCvq(t) == t \in ToSet(cvq)

Joined(t) ==
    \/ pc[t] \in {"c_park", "c_wait"}
    \/ pc[t] \in {"post", "wake"} /\ Turn(t, "cv")

Emptying == \E t \in Threads : pc[t] \in {"b_loop", "b_wake"}

Joining(t) == pc[t] = "u_spin" /\ home[t] = "c_park"

AbsWaiting ==
    IF Emptying THEN <<>>
    ELSE IF \E t \in Threads : Joining(t) THEN Front(cvq)
    ELSE cvq

AbsTaken ==
    {t \in Threads : /\ Joined(t) \/ pc[t] \in {"k_spin", "k_wait"}
                     /\ t \notin ToSet(AbsWaiting)
                     /\ mowner # t}

AbsCalling ==
    [t \in Threads |-> CASE pc[t] = "s_spin" -> "signal"
                         [] pc[t] = "b_spin" -> "broadcast"
                         [] OTHER -> "none"]

CV == INSTANCE CondVar WITH holder <- mowner, waiting <- AbsWaiting,
                            taken <- AbsTaken, calling <- AbsCalling
=============================================================================
