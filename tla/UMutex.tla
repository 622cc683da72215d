------------------------------ MODULE UMutex -------------------------------
(***************************************************************************)
(* The mutex of the user library (synch/mutex.c).  state and owner change  *)
(* together, so the mutex is locked when it has an owner.                  *)
(***************************************************************************)
EXTENDS USync

VARIABLES mowner, mqueue

mutexVars == <<mowner, mqueue>>

MutexInit == mowner = None /\ mqueue = <<>>

CallLock(t) ==
    /\ At(t, "out")
    /\ Call(t, "mp", "l_spin", "crit")
    /\ UNCHANGED mutexVars

(* where a call of mutex_lock waits: the k_ labels are cond_wait's *)
WaitLabel == [l_spin |-> "l_wait", k_spin |-> "k_wait"]

LockTake(t) ==
    /\ mowner = None
    /\ mowner' = t
    /\ Goto(t, "crit")
    /\ reject' = [reject EXCEPT ![t] = FALSE]
    /\ Leave(t)
    /\ UNCHANGED mqueue

LockEnqueue(t) ==
    /\ mowner # None
    /\ mqueue' = Append(mqueue, t)
    /\ reject' = [reject EXCEPT ![t] = FALSE]
    /\ Goto(t, WaitLabel[pc[t]])
    /\ UNCHANGED <<mowner, target>>

LockSection(t) ==
    /\ t \notin asleep /\ pc[t] \in DOMAIN WaitLabel /\ Turn(t, "mp")
    /\ LockTake(t) \/ LockEnqueue(t)
    /\ SpinUnlock("mp")
    /\ UNCHANGED <<asleep, home>>

LockWait(t) ==
    /\ \E label \in {"l_wait", "k_wait"} : Waits(t, label, "crit")
    /\ UNCHANGED mutexVars

CallUnlock(t) ==
    /\ At(t, "crit")
    /\ Call(t, "mp", "u_spin", "out")
    /\ UNCHANGED mutexVars

UnlockFree(t) ==
    /\ mqueue = <<>>
    /\ mowner' = None
    /\ Goto(t, home[t])
    /\ UNCHANGED <<mqueue, target>>

(* Mutant: the owner is set when the waiter is awake. *)
UnlockHandOffOpen(t) ==
    /\ mqueue # <<>>
    /\ target' = [target EXCEPT ![t] = Head(mqueue)]
    /\ mowner' = None
    /\ mqueue' = Tail(mqueue)
    /\ Goto(t, "post")

(* Mutant: the youngest waiter is taken. *)
UnlockHandOffLast(t) ==
    /\ mqueue # <<>>
    /\ target' = [target EXCEPT ![t] = Last(mqueue)]
    /\ mowner' = Last(mqueue)
    /\ mqueue' = Front(mqueue)
    /\ Goto(t, "post")

UnlockHandOff(t) ==
    /\ mqueue # <<>>
    /\ target' = [target EXCEPT ![t] = Head(mqueue)]
    /\ mowner' = Head(mqueue)
    /\ mqueue' = Tail(mqueue)
    /\ Goto(t, "post")

UnlockSection(t) ==
    /\ At(t, "u_spin") /\ Turn(t, "mp")
    /\ UnlockFree(t) \/ UnlockHandOff(t)
    /\ SpinUnlock("mp")
    /\ UNCHANGED <<asleep, reject, home>>

MutexStep(t) == LockSection(t) \/ LockWait(t) \/ UnlockSection(t)

MutexCall(t) == CallLock(t) \/ CallUnlock(t)

-----------------------------------------------------------------------------
OnMqueue(t) == t \in ToSet(mqueue)

(* The line of requests, in the order in which tickets were drawn: the one *)
(* ticket that is no request is the owner's, who unlocks.                  *)
MutexLine == mqueue \o RemoveFirst(spin["mp"], mowner)

Fifo == INSTANCE FifoLock WITH owner <- mowner, line <- MutexLine
=============================================================================
