------------------------------- MODULE KCvar -------------------------------
(***************************************************************************)
(* The kernel condition variable (kern/lib/cvar.c) with its world mutex,   *)
(* on the scheduler (Sched).  The timer preempts between any two steps; a  *)
(* step of t is enabled only while t is on the CPU.                        *)
(*                                                                         *)
(* Two parts stand at the grain of what module KMutex shows of them: the   *)
(* spinlock cv->lock is the line of its tickets, served from the head and  *)
(* yielding to the head; mutex_lock and mutex_unlock of the world mutex    *)
(* are one step each, with their calls of the scheduler.  cvar_wait        *)
(* without a mutex and cvar_signal_raw are in module Keyboard.             *)
(***************************************************************************)
EXTENDS Sched

VARIABLES
    spin,               \* threads holding a ticket of cv->lock, in order
    cvq,                \* cv->queue
    mowner, mqueue,     \* the world mutex: its owner and its queue
    pc,                 \* where the thread stands in cvar.c
    home,               \* the label to return to: the caller's "out"/"crit"
    thr                 \* signal's local `thr'

mutexVars == <<mowner, mqueue>>
vars == <<schedVars, spin, cvq, mutexVars, pc, home, thr>>

Asking == {"w_ask", "s_ask", "b_ask"}

(* the first label under the spinlock *)
Inside == [w_ask |-> "w_enqueue", s_ask |-> "s_dequeue", b_ask |-> "b_loop"]

Holding == {"w_enqueue", "w_unlock", "w_park", "s_dequeue", "s_unlock",
            "s_empty", "b_loop", "b_unlock"}

PCs == {"out", "m_wait", "crit", "w_ticket", "s_ticket", "b_ticket",
        "w_asleep", "w_relock", "s_wake", "b_schedule"} \cup Asking \cup Holding

Init ==
    /\ runq \in {Append(s, Idle) : s \in SetToSeqs(Threads)}
    /\ tstate = [p \in Procs |-> "RUNNABLE"]
    /\ curr = Idle
    /\ spin = <<>> /\ cvq = <<>>
    /\ mowner = None /\ mqueue = <<>>
    /\ pc = [t \in Threads |-> "out"]
    /\ home = [t \in Threads |-> "out"]
    /\ thr = [t \in Threads |-> None]

At(t, label) == curr = t /\ pc[t] = label

Goto(t, label) == pc' = [pc EXCEPT ![t] = label]

-----------------------------------------------------------------------------
(* The world mutex *)

(* label: where mutex_lock sleeps *)
MutexLock(t, label) ==
    \/ /\ mowner = None
       /\ mowner' = t
       /\ Goto(t, "crit")
       /\ UNCHANGED <<schedVars, mqueue>>
    \/ /\ mowner # None
       /\ mqueue' = Append(mqueue, t)
       /\ SchedBlock(t)
       /\ Goto(t, label)
       /\ UNCHANGED mowner

MutexUnlock ==
    \/ /\ mqueue = <<>>
       /\ mowner' = None
       /\ UNCHANGED <<schedVars, mqueue>>
    \/ /\ mqueue # <<>>
       /\ mowner' = Head(mqueue)
       /\ mqueue' = Tail(mqueue)
       /\ SchedUnblock(Head(mqueue))

Lock(t) ==
    /\ At(t, "out")
    /\ MutexLock(t, "m_wait")
    /\ UNCHANGED <<spin, cvq, home, thr>>

(* A waiter that was handed the mutex returns from mutex_lock. *)
Granted(t) ==
    /\ curr = t /\ pc[t] \in {"m_wait", "w_relock"}
    /\ Goto(t, "crit")
    /\ UNCHANGED <<schedVars, spin, cvq, mutexVars, home, thr>>

Unlock(t) ==
    /\ At(t, "crit")
    /\ MutexUnlock
    /\ Goto(t, "out")
    /\ UNCHANGED <<spin, cvq, home, thr>>

-----------------------------------------------------------------------------
(* cv->lock *)

TicketOf == [w_ticket |-> "w_ask", s_ticket |-> "s_ask", b_ticket |-> "b_ask"]

SpinTicket(t) ==
    /\ curr = t /\ pc[t] \in DOMAIN TicketOf
    /\ spin' = Append(spin, t)
    /\ Goto(t, TicketOf[pc[t]])
    /\ UNCHANGED <<schedVars, cvq, mutexVars, home, thr>>

SpinLock(t) ==
    /\ curr = t /\ pc[t] \in Asking
    /\ \/ /\ Head(spin) = t
          /\ Goto(t, Inside[pc[t]])
          /\ UNCHANGED schedVars
       \/ /\ Head(spin) # t
          /\ SchedFind(Head(spin))
          /\ UNCHANGED pc
    /\ UNCHANGED <<spin, cvq, mutexVars, home, thr>>

SpinUnlock == spin' = Tail(spin)

-----------------------------------------------------------------------------
(* cvar_wait(cv, mp), called with mp locked *)

CallWait(t) ==
    /\ At(t, "crit")
    /\ Goto(t, "w_ticket")
    /\ UNCHANGED <<schedVars, spin, cvq, mutexVars, home, thr>>

WaitEnqueue(t) ==
    /\ At(t, "w_enqueue")
    /\ cvq' = Append(cvq, t)
    /\ Goto(t, "w_unlock")
    /\ UNCHANGED <<schedVars, spin, mutexVars, home, thr>>

WaitUnlock(t) ==
    /\ At(t, "w_unlock")
    /\ MutexUnlock
    /\ Goto(t, "w_park")
    /\ UNCHANGED <<spin, cvq, home, thr>>

(* Mutant: the spinlock is released before the section that blocks. *)
WaitParkSplit(t) ==
    /\ At(t, "w_park")
    /\ \/ t = Head(spin) /\ SpinUnlock /\ UNCHANGED <<schedVars, pc>>
       \/ /\ t \notin ToSet(spin)
          /\ SchedBlock(t) /\ Goto(t, "w_asleep") /\ UNCHANGED spin
    /\ UNCHANGED <<cvq, mutexVars, home, thr>>

WaitPark(t) ==
    /\ At(t, "w_park")
    /\ SpinUnlock
    /\ SchedBlock(t)
    /\ Goto(t, "w_asleep")
    /\ UNCHANGED <<cvq, mutexVars, home, thr>>

WaitReturn(t) ==
    /\ At(t, "w_asleep")
    /\ MutexLock(t, "w_relock")
    /\ UNCHANGED <<spin, cvq, home, thr>>

-----------------------------------------------------------------------------
(* cvar_signal and cvar_broadcast, called with or without the mutex *)

CallWake(t, label) ==
    /\ curr = t /\ pc[t] \in {"out", "crit"}
    /\ home' = [home EXCEPT ![t] = pc[t]]
    /\ Goto(t, label)
    /\ UNCHANGED <<schedVars, spin, cvq, mutexVars, thr>>

(* Mutant: the waiter is looked at but stays in the queue. *)
SignalDequeuePeek(t) ==
    /\ At(t, "s_dequeue")
    /\ \/ /\ cvq # <<>>
          /\ thr' = [thr EXCEPT ![t] = Head(cvq)]
          /\ Goto(t, "s_unlock")
       \/ /\ cvq = <<>>
          /\ Goto(t, "s_empty")
          /\ UNCHANGED thr
    /\ UNCHANGED <<schedVars, spin, cvq, mutexVars, home>>

(* Mutant: the youngest waiter is taken. *)
SignalDequeueLast(t) ==
    /\ At(t, "s_dequeue")
    /\ \/ /\ cvq # <<>>
          /\ thr' = [thr EXCEPT ![t] = Last(cvq)]
          /\ cvq' = Front(cvq)
          /\ Goto(t, "s_unlock")
       \/ /\ cvq = <<>>
          /\ Goto(t, "s_empty")
          /\ UNCHANGED <<cvq, thr>>
    /\ UNCHANGED <<schedVars, spin, mutexVars, home>>

SignalDequeue(t) ==
    /\ At(t, "s_dequeue")
    /\ \/ /\ cvq # <<>>
          /\ thr' = [thr EXCEPT ![t] = Head(cvq)]
          /\ cvq' = Tail(cvq)
          /\ Goto(t, "s_unlock")
       \/ /\ cvq = <<>>
          /\ Goto(t, "s_empty")
          /\ UNCHANGED <<cvq, thr>>
    /\ UNCHANGED <<schedVars, spin, mutexVars, home>>

SignalUnlock(t) ==
    /\ At(t, "s_unlock")
    /\ SpinUnlock
    /\ Goto(t, "s_wake")
    /\ UNCHANGED <<schedVars, cvq, mutexVars, home, thr>>

(* sched_unblock(thr), after the spinlock was given up *)
SignalWake(t) ==
    /\ At(t, "s_wake")
    /\ SchedUnblock(thr[t])
    /\ thr' = [thr EXCEPT ![t] = None]
    /\ Goto(t, home[t])
    /\ UNCHANGED <<spin, cvq, mutexVars, home>>

SignalEmpty(t) ==
    /\ At(t, "s_empty")
    /\ SpinUnlock
    /\ Goto(t, home[t])
    /\ UNCHANGED <<schedVars, cvq, mutexVars, home, thr>>

(* One round of the loop.  Only the holder of the spinlock touches the     *)
(* queue, so the test, queue_dequeue and sched_add_to_rq are one step.     *)
BroadcastLoop(t) ==
    /\ At(t, "b_loop")
    /\ \/ /\ cvq # <<>>
          /\ cvq' = Tail(cvq)
          /\ SchedAddToRq(Head(cvq))
          /\ UNCHANGED pc
       \/ /\ cvq = <<>>
          /\ Goto(t, "b_unlock")
          /\ UNCHANGED <<schedVars, cvq>>
    /\ UNCHANGED <<spin, mutexVars, home, thr>>

BroadcastUnlock(t) ==
    /\ At(t, "b_unlock")
    /\ SpinUnlock
    /\ Goto(t, "b_schedule")
    /\ UNCHANGED <<schedVars, cvq, mutexVars, home, thr>>

BroadcastSchedule(t) ==
    /\ At(t, "b_schedule")
    /\ Schedule
    /\ Goto(t, home[t])
    /\ UNCHANGED <<spin, cvq, mutexVars, home, thr>>

-----------------------------------------------------------------------------
(* The timer interrupt *)
Tick ==
    /\ Schedule
    /\ UNCHANGED <<spin, cvq, mutexVars, pc, home, thr>>

WaitStep(t) ==
    WaitEnqueue(t) \/ WaitUnlock(t) \/ WaitPark(t) \/ WaitReturn(t)

SignalStep(t) ==
    SignalDequeue(t) \/ SignalUnlock(t) \/ SignalWake(t) \/ SignalEmpty(t)

BroadcastStep(t) ==
    BroadcastLoop(t) \/ BroadcastUnlock(t) \/ BroadcastSchedule(t)

Step(t) ==
    \/ Granted(t) \/ SpinTicket(t) \/ SpinLock(t)
    \/ WaitStep(t) \/ SignalStep(t) \/ BroadcastStep(t)

CallerStep(t) ==
    \/ Lock(t) \/ Unlock(t) \/ CallWait(t)
    \/ \E label \in {"s_ticket", "b_ticket"} : CallWake(t, label)

Next == Tick \/ \E t \in Threads : Step(t) \/ CallerStep(t)

Spec == Init /\ [][Next]_vars

(* As in KMutex: the timer keeps interrupting, a thread that keeps getting *)
(* the CPU keeps executing, and critical sections end.                     *)
FairSpec ==
    /\ Spec
    /\ WF_vars(Tick)
    /\ \A t \in Threads : SF_vars(Step(t)) /\ SF_vars(Unlock(t))

-----------------------------------------------------------------------------
(***************************************************************************)
(* Properties.                                                             *)
(***************************************************************************)

TypeOK ==
    /\ SchedTypeOK
    /\ spin \in Seq(Threads) /\ cvq \in Seq(Threads) /\ mqueue \in Seq(Threads)
    /\ mowner \in Threads \cup {None}
    /\ pc \in [Threads -> PCs]
    /\ home \in [Threads -> {"out", "crit"}]
    /\ thr \in [Threads -> Threads \cup {None}]

OnCvq(t) == t \in ToSet(cvq)

(* Every thread asleep in cvar_wait is in the queue, or one signaller has  *)
(* dequeued it and is about to wake it; a thread that is not asleep there  *)
(* is in the queue only while it holds cv->lock on its way to sleep        *)
(* (cvar.c:142-147), which is why no signal can find it awake.             *)
SleepersReachable ==
    /\ NoDuplicates(cvq)
    /\ \A t \in Threads : OnCvq(t) =>
          \/ pc[t] = "w_asleep" /\ tstate[t] = "BLOCKED"
          \/ pc[t] \in {"w_unlock", "w_park"} /\ t \in ToSet(spin)
    /\ \A t \in Threads : pc[t] = "w_asleep" /\ tstate[t] = "BLOCKED" =>
          OnCvq(t) # \E u \in Threads : thr[u] = t
    /\ \A u, v \in Threads : thr[u] = thr[v] /\ thr[u] # None => u = v

(* rq_add's assert on the thread that signal and broadcast wake, and       *)
(* rq_del's on the one that blocks (sched.c:49,64).                        *)
AssertsHold ==
    \A t \in Threads : curr = t =>
        /\ pc[t] = "s_wake" => tstate[thr[t]] = "BLOCKED"
        /\ pc[t] = "b_loop" /\ cvq # <<>> => tstate[Head(cvq)] = "BLOCKED"
        /\ pc[t] = "w_park" => tstate[t] = "RUNNABLE"

(* The run queue holds exactly the runnable threads, each once, whatever   *)
(* cvar_wait and its wakers do to it; no assert on the way fails; and the  *)
(* variables have their types.                                             *)
Consistent == TypeOK /\ RunqExact /\ AssertsHold

-----------------------------------------------------------------------------
(* Refinement.  A broadcast takes effect when it gets the spinlock: nobody *)
(* joins the queue while it empties it.  A waiter joins when it gives up   *)
(* the mutex, not when it is enqueued: until then it is the last in the    *)
(* queue and does not count.                                               *)

Broadcasting == \E t \in Threads : pc[t] = "b_loop"

Joined(t) == pc[t] \in {"w_park", "w_asleep"}

AbsWaiting ==
    IF Broadcasting THEN <<>>
    ELSE IF \E t \in Threads : pc[t] = "w_unlock" THEN Front(cvq)
    ELSE cvq

AbsTaken ==
    {t \in Threads : /\ Joined(t) \/ pc[t] = "w_relock"
                     /\ t \notin ToSet(AbsWaiting)
                     /\ mowner # t}

AbsCalling ==
    [t \in Threads |->
        CASE pc[t] \in {"s_ticket", "s_ask", "s_dequeue"} -> "signal"
          [] pc[t] \in {"b_ticket", "b_ask"} -> "broadcast"
          [] OTHER -> "none"]

CV == INSTANCE CondVar WITH holder <- mowner, waiting <- AbsWaiting,
                            taken <- AbsTaken, calling <- AbsCalling

(* cvar.c implements the abstract condition variable: releasing the mutex  *)
(* and joining the waiters is one step to every observer, no call of       *)
(* signal or broadcast misses a waiter, none wakes more than it should,    *)
(* and nobody comes back uncalled (cvar.c:119-121).                        *)
ImplementsCondVar == CV!Spec

(* Liveness, for two threads (see the README): a waiter that was taken     *)
(* gets the mutex back and returns.                                        *)
TakenReturns ==
    \A t \in Threads :
        (pc[t] = "w_asleep" /\ ~OnCvq(t)) ~> (pc[t] = "crit")

(* A call of signal or broadcast returns, however many threads spin on     *)
(* cv->lock and whoever holds it.                                          *)
WakersReturn ==
    \A t \in Threads : (pc[t] \in {"s_ticket", "b_ticket"})
                          ~> (pc[t] \in {"out", "crit"})
=============================================================================
