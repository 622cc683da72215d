---------------------------- MODULE KCvarProofs ----------------------------
(***************************************************************************)
(* No sleeper of the kernel condition variable is lost, and it implements  *)
(* CondVar, for any number of threads.                                     *)
(*                                                                         *)
(* The inductive invariant says who may be in which queue.  A waiter is in *)
(* cv->queue from before it gives up the mutex, but until it sleeps it has *)
(* the spinlock, and who takes a waiter from the queue has it too: so what *)
(* is taken sleeps.                                                        *)
(***************************************************************************)
EXTENDS KCvar, SchedProofs

-----------------------------------------------------------------------------
(* The inductive invariant *)

Types ==
    /\ SchedInv
    /\ IsLine(spin) /\ IsLine(cvq) /\ IsLine(mqueue)
    /\ mowner \in Threads \cup {None}
    /\ pc \in [Threads -> PCs]
    /\ home \in [Threads -> {"out", "crit"}]
    /\ thr \in [Threads -> Threads \cup {None}]

(* Who is not runnable waits for the mutex or sleeps in cvar_wait. *)
Blocked ==
    \A t \in Threads :
        \/ tstate[t] = "RUNNABLE"
        \/ tstate[t] = "BLOCKED" /\ pc[t] \in {"m_wait", "w_relock", "w_asleep"}

MutexLine ==
    \A t \in Threads : t \in ToSet(mqueue) <=>
        pc[t] \in {"m_wait", "w_relock"} /\ tstate[t] = "BLOCKED"

SpinLine ==
    /\ \A t \in Threads : t \in ToSet(spin) <=> pc[t] \in Asking \cup Holding
    /\ \A t \in Threads : pc[t] \in Holding => Head(spin) = t

Sleeps(t) == pc[t] = "w_asleep" /\ tstate[t] = "BLOCKED"

WaitLine ==
    /\ \A t \in Threads : t \in ToSet(cvq) =>
           Sleeps(t) \/ pc[t] \in {"w_unlock", "w_park"}
    /\ \A t \in Threads : pc[t] \in {"w_unlock", "w_park"} => t \in ToSet(cvq)
    /\ \A t \in Threads : Sleeps(t) /\ t \notin ToSet(cvq) =>
           \E u \in Threads : thr[u] = t

Dequeued ==
    /\ \A u \in Threads : thr[u] # None <=> pc[u] \in {"s_unlock", "s_wake"}
    /\ \A u \in Threads : thr[u] # None => Sleeps(thr[u]) /\ thr[u] \notin ToSet(cvq)
    /\ \A u, v \in Threads : thr[u] = thr[v] /\ thr[u] # None => u = v

IInv == Types /\ Blocked /\ MutexLine /\ SpinLine /\ WaitLine /\ Dequeued

-----------------------------------------------------------------------------
LEMMA InvSafe == IInv => Consistent /\ SleepersReachable
<1> SUFFICES ASSUME IInv PROVE Consistent /\ SleepersReachable
  OBVIOUS
<1>1. TypeOK /\ RunqExact
  BY DEF IInv, Types, SchedInv, IsLine, TypeOK
<1>2. AssertsHold
  <2> SUFFICES ASSUME NEW t \in Threads, curr = t
               PROVE  /\ pc[t] = "s_wake" => tstate[thr[t]] = "BLOCKED"
                      /\ pc[t] = "b_loop" /\ cvq # <<>> => tstate[Head(cvq)] = "BLOCKED"
                      /\ pc[t] = "w_park" => tstate[t] = "RUNNABLE"
    BY DEF AssertsHold
  <2>1. pc[t] = "s_wake" => tstate[thr[t]] = "BLOCKED"
    BY DEF IInv, Dequeued, Sleeps
  <2>2. ASSUME pc[t] = "b_loop", cvq # <<>>
        PROVE  tstate[Head(cvq)] = "BLOCKED"
    <3>1. Head(cvq) \in Threads /\ Head(cvq) \in ToSet(cvq)
      BY <2>2, LineTail DEF IInv, Types
    <3>2. Head(spin) = t
      BY <2>2 DEF IInv, SpinLine, Holding
    <3> QED
      BY <2>2, <3>1, <3>2 DEF IInv, SpinLine, WaitLine, Sleeps, Holding
  <2>3. tstate[t] = "RUNNABLE"
    BY DEF IInv, Types, SchedInv, RunqExact, Runnable
  <2> QED
    BY <2>1, <2>2, <2>3
<1>3. NoDuplicates(cvq)
  BY DEF IInv, Types, IsLine
<1>4. \A t \in Threads : OnCvq(t) =>
          \/ pc[t] = "w_asleep" /\ tstate[t] = "BLOCKED"
          \/ pc[t] \in {"w_unlock", "w_park"} /\ t \in ToSet(spin)
  BY DEF IInv, WaitLine, SpinLine, Sleeps, OnCvq, Holding
<1>5. \A t \in Threads : pc[t] = "w_asleep" /\ tstate[t] = "BLOCKED" =>
          (OnCvq(t) <=> ~ \E u \in Threads : thr[u] = t)
  BY SchedAssumption DEF IInv, WaitLine, Dequeued, Sleeps, OnCvq
<1>6. \A u, v \in Threads : thr[u] = thr[v] /\ thr[u] # None => u = v
  BY DEF IInv, Dequeued
<1> QED
  BY <1>1, <1>2, <1>3, <1>4, <1>5, <1>6 DEF Consistent, SleepersReachable

LEMMA InitInv == Init => IInv
<1> SUFFICES ASSUME Init PROVE IInv
  OBVIOUS
<1>1. PICK s \in SetToSeqs(Threads) : runq = Append(s, Idle)
  BY DEF Init
<1>2. IsQueue(runq) /\ ToSet(runq) = Procs
  BY <1>1, QueueOfAll
<1>3. SchedInv
  BY <1>2 DEF Init, SchedInv, SchedTypeOK, RunqExact, IsQueue, Runnable, Procs, ThreadStates
<1>4. IsLine(<<>>) /\ ToSet(<<>>) = {}
  BY DEF IsLine, NoDuplicates, ToSet
<1>5. /\ pc \in [Threads -> PCs]
      /\ \A t \in Threads : pc[t] = "out" /\ tstate[t] = "RUNNABLE" /\ thr[t] = None
  BY DEF Init, PCs, Procs
<1>6. Types
  BY <1>3, <1>4, <1>5 DEF Init, Types
<1> QED
  BY <1>4, <1>5, <1>6 DEF Init, IInv, Blocked, MutexLine, SpinLine, WaitLine, Dequeued,
     Sleeps, Asking, Holding

-----------------------------------------------------------------------------
LEMMA RunnerRunnable ==
    ASSUME IInv, NEW t \in Threads, curr = t
    PROVE  tstate[t] = "RUNNABLE" /\ t \notin ToSet(mqueue) /\ SchedInv
  BY DEF IInv, Types, MutexLine, SchedInv, RunqExact, Runnable

(* Labels outside the spinlock where a thread may run or be preempted, but *)
(* waits for nothing.                                                      *)
Outside == {"out", "crit", "w_ticket", "s_ticket", "b_ticket", "b_schedule"}

(* A thread goes on, and touches no queue but the scheduler's. *)
LEMMA MoveKeeps ==
    ASSUME IInv, NEW t \in Threads, tstate[t] = "RUNNABLE",
           NEW label \in Outside,
           pc[t] \in Outside \cup {"m_wait", "w_relock"},
           Goto(t, label), SchedInv', tstate' = tstate,
           home' \in [Threads -> {"out", "crit"}],
           UNCHANGED <<spin, cvq, mutexVars, thr>>
    PROVE  IInv'
<1>1. pc' \in [Threads -> PCs]
  BY DEF IInv, Types, Goto, PCs, Outside
<1>2. pc'[t] = label /\ \A u \in Threads : u # t => pc'[u] = pc[u]
  BY DEF IInv, Types, Goto
<1>3. Types'
  BY <1>1 DEF IInv, Types, IsLine, mutexVars, NoDuplicates
<1>4. Blocked'
  BY <1>2 DEF IInv, Blocked, Outside
<1>5. MutexLine'
  BY <1>2 DEF IInv, MutexLine, Outside, mutexVars
<1>6. SpinLine'
  BY <1>2 DEF IInv, SpinLine, Outside, Asking, Holding
<1>7. WaitLine'
  BY <1>2 DEF IInv, WaitLine, Outside, Sleeps
<1>8. Dequeued'
  BY <1>2 DEF IInv, Types, Dequeued, Outside, Sleeps
<1> QED
  BY <1>3, <1>4, <1>5, <1>6, <1>7, <1>8 DEF IInv

(* The CPU goes to somebody else. *)
LEMMA SwitchKeeps ==
    ASSUME IInv, SchedInv', tstate' = tstate,
           UNCHANGED <<spin, cvq, mutexVars, pc, home, thr>>
    PROVE  IInv'
  BY DEF IInv, Types, IsLine, NoDuplicates, Blocked, MutexLine, SpinLine, WaitLine,
     Dequeued, Sleeps, mutexVars

LEMMA GrantedKeeps ==
    ASSUME IInv, NEW t \in Threads, Granted(t)
    PROVE  IInv'
<1>1. tstate[t] = "RUNNABLE" /\ SchedInv
  BY RunnerRunnable DEF Granted
<1>2. SchedInv'
  BY <1>1 DEF Granted, schedVars, SchedInv, SchedTypeOK, RunqExact, NoDuplicates, Runnable
<1>3. home' \in [Threads -> {"out", "crit"}]
  BY DEF Granted, IInv, Types
<1> QED
  BY <1>1, <1>2, <1>3, MoveKeeps DEF Granted, schedVars, Outside

LEMMA CallKeeps ==
    ASSUME IInv, NEW t \in Threads,
           CallWait(t) \/ \E label \in {"s_ticket", "b_ticket"} : CallWake(t, label)
    PROVE  IInv'
<1>1. PICK label \in {"w_ticket", "s_ticket", "b_ticket"} : Goto(t, label)
  BY DEF CallWait, CallWake
<1>2. /\ curr = t /\ pc[t] \in {"out", "crit"}
      /\ UNCHANGED <<schedVars, spin, cvq, mutexVars, thr>>
  BY DEF CallWait, CallWake, At
<1>3. home' \in [Threads -> {"out", "crit"}]
  BY <1>2 DEF CallWait, CallWake, IInv, Types
<1>4. tstate[t] = "RUNNABLE" /\ SchedInv
  BY <1>2, RunnerRunnable
<1>5. SchedInv'
  BY <1>2, <1>4 DEF schedVars, SchedInv, SchedTypeOK, RunqExact, NoDuplicates, Runnable
<1> QED
  BY <1>1, <1>2, <1>3, <1>4, <1>5, MoveKeeps DEF schedVars, Outside

LEMMA TickKeeps ==
    ASSUME IInv, Schedule, UNCHANGED <<spin, cvq, mutexVars, pc, home, thr>>
    PROVE  IInv'
<1>1. SchedInv
  BY DEF IInv, Types
<1> QED
  BY <1>1, ScheduleKeepsInv, SwitchKeeps DEF Schedule

LEMMA BroadcastScheduleKeeps ==
    ASSUME IInv, NEW t \in Threads, BroadcastSchedule(t)
    PROVE  IInv'
<1>1. tstate[t] = "RUNNABLE" /\ SchedInv
  BY RunnerRunnable DEF BroadcastSchedule, At
<1>2. SchedInv' /\ tstate' = tstate
  BY <1>1, ScheduleKeepsInv DEF BroadcastSchedule, Schedule
<1>3. home[t] \in {"out", "crit"} /\ home' \in [Threads -> {"out", "crit"}]
  BY DEF BroadcastSchedule, IInv, Types
<1> QED
  BY <1>1, <1>2, <1>3, MoveKeeps DEF BroadcastSchedule, At, Outside

-----------------------------------------------------------------------------
(* cv->lock *)

LEMMA SpinTicketKeeps ==
    ASSUME IInv, NEW t \in Threads, SpinTicket(t)
    PROVE  IInv'
<1> DEFINE label == TicketOf[pc[t]]
<1>1. /\ pc[t] \in {"w_ticket", "s_ticket", "b_ticket"} /\ label \in Asking
      /\ pc' = [pc EXCEPT ![t] = label] /\ spin' = Append(spin, t)
      /\ UNCHANGED <<schedVars, cvq, mutexVars, home, thr>>
  BY DEF SpinTicket, TicketOf, Asking, Goto
<1> HIDE DEF label
<1>2. IsLine(spin) /\ t \notin ToSet(spin)
  BY <1>1 DEF IInv, Types, SpinLine, Asking, Holding
<1>3. /\ IsLine(spin') /\ ToSet(spin') = ToSet(spin) \cup {t}
      /\ spin # <<>> => Head(spin') = Head(spin)
  BY <1>1, <1>2, LineAppend
<1>4. \A u \in ToSet(spin) : spin # <<>>
  BY <1>2, LineIn
<1>5. pc'[t] = label /\ \A u \in Threads : u # t => pc'[u] = pc[u]
  BY <1>1 DEF IInv, Types
<1>6. pc' \in [Threads -> PCs]
  BY <1>1 DEF IInv, Types, PCs
<1>7. SchedInv'
  BY <1>1 DEF IInv, Types, schedVars, SchedInv, SchedTypeOK, RunqExact, NoDuplicates, Runnable
<1>8. Types'
  BY <1>1, <1>3, <1>6, <1>7 DEF IInv, Types, IsLine, NoDuplicates, mutexVars
<1>9. Blocked' /\ MutexLine'
  BY <1>1, <1>5 DEF IInv, Blocked, MutexLine, schedVars, mutexVars, Asking
<1>10. SpinLine'
  <2>1. \A u \in Threads : u \in ToSet(spin') <=> pc'[u] \in Asking \cup Holding
    BY <1>1, <1>3, <1>5 DEF IInv, SpinLine
  <2>2. ASSUME NEW u \in Threads, pc'[u] \in Holding
        PROVE  Head(spin') = u
    <3>1. u # t /\ pc[u] \in Holding
      BY <1>1, <1>5, <2>2 DEF Asking, Holding
    <3>2. u \in ToSet(spin) /\ Head(spin) = u
      BY <3>1 DEF IInv, SpinLine
    <3> QED
      BY <1>3, <1>4, <3>2
  <2> QED
    BY <2>1, <2>2 DEF SpinLine
<1>11. WaitLine' /\ Dequeued'
  BY <1>1, <1>5 DEF IInv, Types, WaitLine, Dequeued, Sleeps, schedVars, Asking
<1> QED
  BY <1>8, <1>9, <1>10, <1>11 DEF IInv

LEMMA SpinLockKeeps ==
    ASSUME IInv, NEW t \in Threads, SpinLock(t)
    PROVE  IInv'
<1>1. pc[t] \in Asking /\ UNCHANGED <<spin, cvq, mutexVars, home, thr>>
  BY DEF SpinLock
<1>2. CASE SchedFind(Head(spin)) /\ UNCHANGED pc
  <2>1. SchedInv' /\ tstate' = tstate
    BY <1>2, SchedFindKeepsInv DEF IInv, Types
  <2> QED
    BY <1>1, <1>2, <2>1, SwitchKeeps
<1>3. CASE Head(spin) = t /\ Goto(t, Inside[pc[t]]) /\ UNCHANGED schedVars
  <2> DEFINE label == Inside[pc[t]]
  <2>1. label \in {"w_enqueue", "s_dequeue", "b_loop"} /\ pc' = [pc EXCEPT ![t] = label]
    BY <1>1, <1>3 DEF Asking, Inside, Goto
  <2> HIDE DEF label
  <2>2. pc'[t] = label /\ \A u \in Threads : u # t => pc'[u] = pc[u]
    BY <2>1 DEF IInv, Types
  <2>3. pc' \in [Threads -> PCs]
    BY <2>1 DEF IInv, Types, PCs, Holding
  <2>4. SchedInv'
    BY <1>3 DEF IInv, Types, schedVars, SchedInv, SchedTypeOK, RunqExact, NoDuplicates, Runnable
  <2>5. Types'
    BY <1>1, <2>3, <2>4 DEF IInv, Types, IsLine, NoDuplicates, mutexVars
  <2>6. Blocked' /\ MutexLine'
    BY <1>1, <1>3, <2>1, <2>2 DEF IInv, Blocked, MutexLine, schedVars, mutexVars, Asking
  <2>7. SpinLine'
    BY <1>1, <1>3, <2>1, <2>2 DEF IInv, SpinLine, Asking, Holding
  <2>8. WaitLine' /\ Dequeued'
    BY <1>1, <1>3, <2>1, <2>2 DEF IInv, Types, WaitLine, Dequeued, Sleeps, schedVars, Asking
  <2> QED
    BY <2>5, <2>6, <2>7, <2>8 DEF IInv
<1> QED
  BY <1>2, <1>3 DEF SpinLock

(* Who has the spinlock gives it up, and asks for nothing: Outside, or on  *)
(* its way to wake somebody.                                               *)
LEMMA HolderLeaves ==
    ASSUME IInv, NEW t \in Threads, pc[t] \in Holding, SpinUnlock,
           pc'[t] \notin Asking \cup Holding,
           \A u \in Threads : u # t => pc'[u] = pc[u]
    PROVE  IsLine(spin') /\ SpinLine'
<1>1. IsLine(spin) /\ t \in ToSet(spin) /\ Head(spin) = t
  BY DEF IInv, Types, SpinLine
<1>2. IsLine(spin') /\ ToSet(spin') = ToSet(spin) \ {t}
  BY <1>1, LineIn, LineTail DEF SpinUnlock
<1>3. \A u \in Threads : u # t => pc[u] \notin Holding
  BY <1>1 DEF IInv, SpinLine
<1> QED
  BY <1>2, <1>3 DEF IInv, SpinLine

LEMMA SignalUnlockKeeps ==
    ASSUME IInv, NEW t \in Threads,
           SignalUnlock(t) \/ SignalEmpty(t) \/ BroadcastUnlock(t)
    PROVE  IInv'
<1>1. home[t] \in {"out", "crit"}
  BY DEF IInv, Types
<1>2. PICK label \in {"s_wake", "out", "crit", "b_schedule"} :
          /\ pc' = [pc EXCEPT ![t] = label]
          /\ (label = "s_wake") <=> (pc[t] = "s_unlock")
  BY <1>1 DEF SignalUnlock, SignalEmpty, BroadcastUnlock, At, Goto
<1>3. /\ pc[t] \in {"s_unlock", "s_empty", "b_unlock"} /\ SpinUnlock
      /\ UNCHANGED <<schedVars, cvq, mutexVars, home, thr>>
  BY DEF SignalUnlock, SignalEmpty, BroadcastUnlock, At
<1>4. pc'[t] = label /\ \A u \in Threads : u # t => pc'[u] = pc[u]
  BY <1>2 DEF IInv, Types
<1>5. pc' \in [Threads -> PCs]
  BY <1>2 DEF IInv, Types, PCs
<1>6. IsLine(spin') /\ SpinLine'
  <2>1. pc[t] \in Holding /\ pc'[t] \notin Asking \cup Holding
    BY <1>3, <1>4 DEF Asking, Holding
  <2> QED
    BY <1>3, <1>4, <2>1, HolderLeaves
<1>7. SchedInv'
  BY <1>3 DEF IInv, Types, schedVars, SchedInv, SchedTypeOK, RunqExact, NoDuplicates, Runnable
<1>8. Types'
  BY <1>3, <1>5, <1>6, <1>7 DEF IInv, Types, IsLine, NoDuplicates, mutexVars
<1>9. Blocked' /\ MutexLine'
  BY <1>3, <1>4 DEF IInv, Blocked, MutexLine, schedVars, mutexVars
<1>10. WaitLine'
  BY <1>3, <1>4 DEF IInv, WaitLine, Sleeps, schedVars
<1>11. Dequeued'
  BY <1>2, <1>3, <1>4 DEF IInv, Types, Dequeued, Sleeps, schedVars
<1> QED
  BY <1>6, <1>8, <1>9, <1>10, <1>11 DEF IInv

-----------------------------------------------------------------------------
(* The world mutex *)

(* What an unlock does: it hands the mutex to woken, or to nobody. *)
LEMMA UnlockWakes ==
    ASSUME IInv, MutexUnlock
    PROVE  /\ SchedInv' /\ IsLine(mqueue') /\ mowner' \in Threads \cup {None}
           /\ \E woken \in SUBSET ToSet(mqueue) :
                  /\ ToSet(mqueue') = ToSet(mqueue) \ woken
                  /\ \A u \in Threads :
                         tstate'[u] = IF u \in woken THEN "RUNNABLE" ELSE tstate[u]
<1>1. CASE mqueue = <<>> /\ mowner' = None /\ UNCHANGED <<schedVars, mqueue>>
  <2>1. SchedInv' /\ IsLine(mqueue')
    BY <1>1 DEF IInv, Types, IsLine, schedVars, SchedInv, SchedTypeOK, RunqExact,
       NoDuplicates, Runnable
  <2>2. {} \in SUBSET ToSet(mqueue) /\ tstate' = tstate /\ ToSet(mqueue') = ToSet(mqueue)
    BY <1>1 DEF schedVars
  <2> QED
    BY <1>1, <2>1, <2>2
<1>2. CASE /\ mqueue # <<>> /\ mowner' = Head(mqueue) /\ mqueue' = Tail(mqueue)
           /\ SchedUnblock(Head(mqueue))
  <2> DEFINE h == Head(mqueue)
  <2>1. /\ h \in Threads /\ h \in ToSet(mqueue)
        /\ IsLine(mqueue') /\ ToSet(mqueue') = ToSet(mqueue) \ {h}
    BY <1>2, LineTail DEF IInv, Types
  <2>2. tstate[h] # "RUNNABLE" /\ SchedInv
    BY <2>1 DEF IInv, Types, MutexLine
  <2>3. SchedInv'
    BY <1>2, <2>1, <2>2, SchedUnblockKeepsInv
  <2>4. \A u \in Threads :
            tstate'[u] = IF u \in {h} THEN "RUNNABLE" ELSE tstate[u]
    BY <1>2, <2>2 DEF SchedUnblock, SchedInv, SchedTypeOK, Procs
  <2>5. {h} \in SUBSET ToSet(mqueue)
    BY <2>1
  <2> HIDE DEF h
  <2> QED
    BY <1>2, <2>1, <2>3, <2>4, <2>5 DEF h
<1> QED
  BY <1>1, <1>2 DEF MutexUnlock

LEMMA UnlockKeeps ==
    ASSUME IInv, NEW t \in Threads, Unlock(t) \/ WaitUnlock(t)
    PROVE  IInv'
<1>1. PICK label \in {"out", "w_park"} :
          /\ pc' = [pc EXCEPT ![t] = label]
          /\ pc[t] = IF label = "out" THEN "crit" ELSE "w_unlock"
  BY DEF Unlock, WaitUnlock, At, Goto
<1>2. /\ curr = t /\ MutexUnlock
      /\ UNCHANGED <<spin, cvq, home, thr>>
  BY DEF Unlock, WaitUnlock, At
<1>3. SchedInv' /\ IsLine(mqueue') /\ mowner' \in Threads \cup {None}
  BY <1>2, UnlockWakes
<1>4. PICK woken \in SUBSET ToSet(mqueue) :
          /\ ToSet(mqueue') = ToSet(mqueue) \ woken
          /\ \A u \in Threads : tstate'[u] = IF u \in woken THEN "RUNNABLE" ELSE tstate[u]
  BY <1>2, UnlockWakes
<1>5. \A u \in woken : u # t /\ u \in Threads /\ pc[u] \in {"m_wait", "w_relock"}
  BY <1>2, RunnerRunnable, LineIn DEF IInv, Types, MutexLine
<1>6. pc'[t] = label /\ \A u \in Threads : u # t => pc'[u] = pc[u]
  BY <1>1 DEF IInv, Types
<1>7. pc' \in [Threads -> PCs]
  BY <1>1 DEF IInv, Types, PCs, Holding
<1>8. Types'
  BY <1>2, <1>3, <1>7 DEF IInv, Types, IsLine, NoDuplicates
<1>9. tstate[t] = "RUNNABLE"
  BY <1>2, RunnerRunnable
<1>10. Blocked'
  BY <1>1, <1>4, <1>6 DEF IInv, Blocked
<1>11. MutexLine'
  BY <1>1, <1>4, <1>6, <1>9 DEF IInv, MutexLine
<1>12. SpinLine'
  BY <1>1, <1>2, <1>6 DEF IInv, SpinLine, Asking, Holding
<1>13. \A u \in Threads : Sleeps(u)' <=> Sleeps(u)
  BY <1>1, <1>4, <1>5, <1>6 DEF Sleeps
<1>14. WaitLine'
  BY <1>1, <1>2, <1>6, <1>13 DEF IInv, WaitLine
<1>15. Dequeued'
  BY <1>1, <1>2, <1>6, <1>13 DEF IInv, Types, Dequeued
<1> QED
  BY <1>8, <1>10, <1>11, <1>12, <1>14, <1>15 DEF IInv

LEMMA LockKeeps ==
    ASSUME IInv, NEW t \in Threads, Lock(t) \/ WaitReturn(t)
    PROVE  IInv'
<1>1. PICK label \in {"m_wait", "w_relock"} : MutexLock(t, label)
  BY DEF Lock, WaitReturn
<1>2. /\ curr = t /\ pc[t] \in {"out", "w_asleep"}
      /\ UNCHANGED <<spin, cvq, home, thr>>
  BY DEF Lock, WaitReturn, At
<1>3. tstate[t] = "RUNNABLE" /\ t \notin ToSet(mqueue) /\ SchedInv
  BY <1>2, RunnerRunnable
<1>4. PICK next \in {"crit", label} : pc' = [pc EXCEPT ![t] = next]
  BY <1>1 DEF MutexLock, Goto
<1>5. /\ SchedInv' /\ IsLine(mqueue') /\ mowner' \in Threads \cup {None}
      /\ \A u \in Threads : u # t => tstate'[u] = tstate[u]
      /\ \/ next = "crit" /\ tstate'[t] = "RUNNABLE" /\ ToSet(mqueue') = ToSet(mqueue)
         \/ /\ next = label /\ tstate'[t] = "BLOCKED"
            /\ ToSet(mqueue') = ToSet(mqueue) \cup {t}
  <2>1. CASE /\ mowner' = t /\ Goto(t, "crit") /\ UNCHANGED <<schedVars, mqueue>>
    <3>1. SchedInv' /\ IsLine(mqueue')
      BY <1>3, <2>1 DEF IInv, Types, IsLine, schedVars, SchedInv, SchedTypeOK, RunqExact,
         NoDuplicates, Runnable
    <3>2. next = "crit"
      BY <1>4, <2>1 DEF Goto, IInv, Types
    <3> QED
      BY <1>3, <2>1, <3>1, <3>2 DEF schedVars
  <2>2. CASE /\ mqueue' = Append(mqueue, t) /\ SchedBlock(t) /\ Goto(t, label)
             /\ UNCHANGED mowner
    <3>1. SchedInv'
      BY <1>3, <2>2, SchedBlockKeepsInv
    <3>2. IsLine(mqueue') /\ ToSet(mqueue') = ToSet(mqueue) \cup {t}
      BY <1>3, <2>2, LineAppend DEF IInv, Types
    <3>3. tstate'[t] = "BLOCKED" /\ \A u \in Threads : u # t => tstate'[u] = tstate[u]
      BY <1>3, <2>2 DEF SchedBlock, SchedInv, SchedTypeOK, Procs
    <3>4. next = label
      BY <1>4, <2>2 DEF Goto, IInv, Types
    <3> QED
      BY <2>2, <3>1, <3>2, <3>3, <3>4 DEF IInv, Types
  <2> QED
    BY <1>1, <2>1, <2>2 DEF MutexLock
<1>6. pc'[t] = next /\ \A u \in Threads : u # t => pc'[u] = pc[u]
  BY <1>4 DEF IInv, Types
<1>7. pc' \in [Threads -> PCs]
  BY <1>4 DEF IInv, Types, PCs
<1>8. Types'
  BY <1>2, <1>5, <1>7 DEF IInv, Types, IsLine, NoDuplicates
<1>9. Blocked'
  BY <1>5, <1>6 DEF IInv, Blocked
<1>10. MutexLine'
  BY <1>3, <1>5, <1>6 DEF IInv, MutexLine
<1>11. SpinLine'
  BY <1>2, <1>4, <1>6 DEF IInv, SpinLine, Asking, Holding
<1>12. \A u \in Threads : Sleeps(u)' <=> Sleeps(u)
  BY <1>3, <1>4, <1>5, <1>6 DEF Sleeps
<1>13. WaitLine'
  BY <1>2, <1>4, <1>6, <1>12 DEF IInv, WaitLine
<1>14. Dequeued'
  BY <1>2, <1>4, <1>6, <1>12 DEF IInv, Types, Dequeued
<1> QED
  BY <1>8, <1>9, <1>10, <1>11, <1>13, <1>14 DEF IInv

-----------------------------------------------------------------------------
(* cvar_wait *)

LEMMA WaitEnqueueKeeps ==
    ASSUME IInv, NEW t \in Threads, WaitEnqueue(t)
    PROVE  IInv'
<1>1. /\ pc[t] = "w_enqueue" /\ pc' = [pc EXCEPT ![t] = "w_unlock"]
      /\ cvq' = Append(cvq, t)
      /\ UNCHANGED <<schedVars, spin, mutexVars, home, thr>>
  BY DEF WaitEnqueue, At, Goto
<1>2. t \notin ToSet(cvq)
  BY <1>1 DEF IInv, WaitLine, Sleeps
<1>3. IsLine(cvq') /\ ToSet(cvq') = ToSet(cvq) \cup {t}
  BY <1>1, <1>2, LineAppend DEF IInv, Types
<1>4. pc'[t] = "w_unlock" /\ \A u \in Threads : u # t => pc'[u] = pc[u]
  BY <1>1 DEF IInv, Types
<1>5. pc' \in [Threads -> PCs]
  BY <1>1 DEF IInv, Types, PCs, Holding
<1>6. SchedInv'
  BY <1>1 DEF IInv, Types, schedVars, SchedInv, SchedTypeOK, RunqExact, NoDuplicates, Runnable
<1>7. Types'
  BY <1>1, <1>3, <1>5, <1>6 DEF IInv, Types, IsLine, NoDuplicates, mutexVars
<1>8. Blocked' /\ MutexLine'
  BY <1>1, <1>4 DEF IInv, Blocked, MutexLine, schedVars, mutexVars
<1>9. SpinLine'
  BY <1>1, <1>4 DEF IInv, SpinLine, Asking, Holding
<1>10. WaitLine'
  BY <1>1, <1>3, <1>4 DEF IInv, WaitLine, Sleeps, schedVars
<1>11. Dequeued'
  BY <1>1, <1>3, <1>4 DEF IInv, Types, Dequeued, Sleeps, schedVars
<1> QED
  BY <1>7, <1>8, <1>9, <1>10, <1>11 DEF IInv

LEMMA WaitParkKeeps ==
    ASSUME IInv, NEW t \in Threads, WaitPark(t)
    PROVE  IInv'
<1>1. /\ curr = t /\ pc[t] = "w_park" /\ pc' = [pc EXCEPT ![t] = "w_asleep"]
      /\ SpinUnlock /\ SchedBlock(t)
      /\ UNCHANGED <<cvq, mutexVars, home, thr>>
  BY DEF WaitPark, At, Goto
<1>2. tstate[t] = "RUNNABLE" /\ SchedInv
  BY <1>1, RunnerRunnable
<1>3. SchedInv'
  BY <1>1, <1>2, SchedBlockKeepsInv
<1>4. tstate'[t] = "BLOCKED" /\ \A u \in Threads : u # t => tstate'[u] = tstate[u]
  BY <1>1, <1>2 DEF SchedBlock, SchedInv, SchedTypeOK, Procs
<1>5. pc'[t] = "w_asleep" /\ \A u \in Threads : u # t => pc'[u] = pc[u]
  BY <1>1 DEF IInv, Types
<1>6. pc' \in [Threads -> PCs]
  BY <1>1 DEF IInv, Types, PCs
<1>7. IsLine(spin') /\ SpinLine'
  <2>1. pc[t] \in Holding /\ pc'[t] \notin Asking \cup Holding
    BY <1>1, <1>5 DEF Asking, Holding
  <2> QED
    BY <1>1, <1>5, <2>1, HolderLeaves
<1>8. Types'
  BY <1>1, <1>3, <1>6, <1>7 DEF IInv, Types, IsLine, NoDuplicates, mutexVars
<1>9. Blocked'
  BY <1>4, <1>5 DEF IInv, Blocked
<1>10. MutexLine'
  BY <1>1, <1>4, <1>5 DEF IInv, MutexLine, mutexVars
<1>11. WaitLine'
  BY <1>1, <1>4, <1>5 DEF IInv, WaitLine, Sleeps
<1>12. Dequeued'
  BY <1>1, <1>4, <1>5 DEF IInv, Types, Dequeued, Sleeps
<1> QED
  BY <1>7, <1>8, <1>9, <1>10, <1>11, <1>12 DEF IInv

-----------------------------------------------------------------------------
(* cvar_signal and cvar_broadcast *)

(* Whom the holder of the spinlock finds in the queue, sleeps. *)
LEMMA HeadSleeps ==
    ASSUME IInv, NEW t \in Threads, pc[t] \in {"s_dequeue", "b_loop"}, cvq # <<>>
    PROVE  /\ Head(cvq) \in Threads /\ Head(cvq) \in ToSet(cvq) /\ Sleeps(Head(cvq))
           /\ IsLine(Tail(cvq)) /\ ToSet(Tail(cvq)) = ToSet(cvq) \ {Head(cvq)}
<1>1. /\ Head(cvq) \in Threads /\ Head(cvq) \in ToSet(cvq)
      /\ IsLine(Tail(cvq)) /\ ToSet(Tail(cvq)) = ToSet(cvq) \ {Head(cvq)}
  BY LineTail DEF IInv, Types
<1>2. Head(spin) = t
  BY DEF IInv, SpinLine, Holding
<1> QED
  BY <1>1, <1>2 DEF IInv, SpinLine, WaitLine, Holding

LEMMA SignalDequeueKeeps ==
    ASSUME IInv, NEW t \in Threads, SignalDequeue(t)
    PROVE  IInv'
<1>1. /\ pc[t] = "s_dequeue"
      /\ UNCHANGED <<schedVars, spin, mutexVars, home>>
  BY DEF SignalDequeue, At
<1>2. PICK label \in {"s_unlock", "s_empty"} : pc' = [pc EXCEPT ![t] = label]
  BY DEF SignalDequeue, Goto
<1>3. pc'[t] = label /\ \A u \in Threads : u # t => pc'[u] = pc[u]
  BY <1>2 DEF IInv, Types
<1>4. pc' \in [Threads -> PCs]
  BY <1>2 DEF IInv, Types, PCs, Holding
<1>5. SchedInv'
  BY <1>1 DEF IInv, Types, schedVars, SchedInv, SchedTypeOK, RunqExact, NoDuplicates, Runnable
<1>6. Blocked' /\ MutexLine'
  BY <1>1, <1>2, <1>3 DEF IInv, Blocked, MutexLine, schedVars, mutexVars
<1>7. SpinLine'
  BY <1>1, <1>2, <1>3 DEF IInv, SpinLine, Asking, Holding
<1>8. \A u \in Threads : Sleeps(u)' <=> Sleeps(u)
  BY <1>1, <1>2, <1>3 DEF Sleeps, schedVars
<1>9. thr[t] = None /\ t # None
  BY <1>1, SchedAssumption DEF IInv, Types, Dequeued
<1>10. CASE cvq = <<>> /\ Goto(t, "s_empty") /\ UNCHANGED <<cvq, thr>>
  <2>1. label = "s_empty"
    BY <1>3, <1>10 DEF Goto, IInv, Types
  <2>2. Types'
    BY <1>1, <1>4, <1>5, <1>10 DEF IInv, Types, IsLine, NoDuplicates, mutexVars
  <2>3. WaitLine'
    BY <1>1, <1>3, <1>8, <1>10, <2>1 DEF IInv, WaitLine
  <2>4. Dequeued'
    BY <1>1, <1>3, <1>8, <1>9, <1>10, <2>1 DEF IInv, Types, Dequeued
  <2> QED
    BY <1>6, <1>7, <2>2, <2>3, <2>4 DEF IInv
<1>11. CASE /\ cvq # <<>> /\ thr' = [thr EXCEPT ![t] = Head(cvq)]
            /\ cvq' = Tail(cvq) /\ Goto(t, "s_unlock")
  <2> DEFINE h == Head(cvq)
  <2>1. /\ h \in Threads /\ h \in ToSet(cvq) /\ Sleeps(h)
        /\ IsLine(cvq') /\ ToSet(cvq') = ToSet(cvq) \ {h}
    BY <1>1, <1>11, HeadSleeps
  <2>2. label = "s_unlock" /\ h # None
    BY <1>3, <1>11, <2>1, SchedAssumption DEF Goto, IInv, Types
  <2> HIDE DEF h
  <2>3. thr' = [thr EXCEPT ![t] = h]
    BY <1>11 DEF h
  <2>4. thr'[t] = h /\ \A u \in Threads : u # t => thr'[u] = thr[u]
    BY <2>3 DEF IInv, Types
  <2>5. thr' \in [Threads -> Threads \cup {None}]
    BY <2>1, <2>3 DEF IInv, Types
  <2>6. Types'
    BY <1>1, <1>4, <1>5, <2>1, <2>5 DEF IInv, Types, IsLine, NoDuplicates, mutexVars
  <2>7. WaitLine'
    <3>1. \A u \in Threads : u \in ToSet(cvq') =>
              Sleeps(u)' \/ pc'[u] \in {"w_unlock", "w_park"}
      BY <1>1, <1>3, <1>8, <2>1 DEF IInv, WaitLine
    <3>2. \A u \in Threads : pc'[u] \in {"w_unlock", "w_park"} => u \in ToSet(cvq')
      BY <1>3, <2>1, <2>2 DEF IInv, WaitLine, Sleeps
    <3>3. ASSUME NEW u \in Threads, Sleeps(u)', u \notin ToSet(cvq')
          PROVE  \E v \in Threads : thr'[v] = u
      <4>1. CASE u = h
        BY <2>4, <4>1
      <4>2. CASE u # h
        <5>1. PICK v \in Threads : thr[v] = u
          BY <1>8, <2>1, <3>3, <4>2 DEF IInv, WaitLine
        <5>2. v # t
          BY <1>9, <5>1, SchedAssumption
        <5> QED
          BY <2>4, <5>1, <5>2
      <4> QED
        BY <4>1, <4>2
    <3> QED
      BY <3>1, <3>2, <3>3 DEF WaitLine
  <2>8. Dequeued'
    <3>1. \A u \in Threads : thr[u] # h
      BY <2>1, <2>2 DEF IInv, Dequeued
    <3> QED
      BY <1>1, <1>3, <1>8, <2>1, <2>2, <2>4, <3>1 DEF IInv, Types, Dequeued
  <2> QED
    BY <1>6, <1>7, <2>6, <2>7, <2>8 DEF IInv
<1> QED
  BY <1>10, <1>11 DEF SignalDequeue

LEMMA SignalWakeKeeps ==
    ASSUME IInv, NEW t \in Threads, SignalWake(t)
    PROVE  IInv'
<1> DEFINE h == thr[t]  label == home[t]
<1>1. /\ pc[t] = "s_wake" /\ SchedUnblock(h)
      /\ thr' = [thr EXCEPT ![t] = None]
      /\ pc' = [pc EXCEPT ![t] = label]
      /\ UNCHANGED <<spin, cvq, mutexVars, home>>
  BY DEF SignalWake, At, Goto
<1>2. /\ h \in Threads /\ Sleeps(h) /\ h \notin ToSet(cvq)
      /\ label \in {"out", "crit"}
  BY <1>1 DEF IInv, Types, Dequeued
<1>3. \A u \in Threads : u # t => thr[u] # h
  BY <1>2, SchedAssumption DEF IInv, Dequeued
<1> HIDE DEF h, label
<1>4. SchedInv' /\ SchedInv
  BY <1>1, <1>2, SchedUnblockKeepsInv DEF IInv, Types, Sleeps
<1>5. tstate'[h] = "RUNNABLE" /\ \A u \in Threads : u # h => tstate'[u] = tstate[u]
  BY <1>1, <1>2, <1>4 DEF SchedUnblock, SchedInv, SchedTypeOK, Procs
<1>6. pc'[t] = label /\ \A u \in Threads : u # t => pc'[u] = pc[u]
  BY <1>1 DEF IInv, Types
<1>7. thr'[t] = None /\ \A u \in Threads : u # t => thr'[u] = thr[u]
  BY <1>1 DEF IInv, Types
<1>8. pc' \in [Threads -> PCs]
  BY <1>1, <1>2 DEF IInv, Types, PCs
<1>9. Types'
  BY <1>1, <1>4, <1>8 DEF IInv, Types, IsLine, NoDuplicates, mutexVars
<1>10. Blocked'
  BY <1>1, <1>2, <1>5, <1>6 DEF IInv, Blocked
<1>11. MutexLine'
  BY <1>1, <1>2, <1>5, <1>6 DEF IInv, MutexLine, mutexVars, Sleeps
<1>12. SpinLine'
  BY <1>1, <1>2, <1>6 DEF IInv, SpinLine, Asking, Holding
<1>13. \A u \in Threads : Sleeps(u)' <=> Sleeps(u) /\ u # h
  BY <1>1, <1>2, <1>5, <1>6 DEF Sleeps
<1>14. WaitLine'
  <2>1. ASSUME NEW u \in Threads, Sleeps(u), u # h, u \notin ToSet(cvq)
        PROVE  \E v \in Threads : thr'[v] = u
    <3>1. PICK v \in Threads : thr[v] = u
      BY <2>1 DEF IInv, WaitLine
    <3> QED
      BY <1>7, <2>1, <3>1 DEF h
  <2> QED
    BY <1>1, <1>2, <1>6, <1>13, <2>1 DEF IInv, WaitLine
<1>15. Dequeued'
  BY <1>1, <1>2, <1>3, <1>6, <1>7, <1>13 DEF IInv, Types, Dequeued
<1> QED
  BY <1>9, <1>10, <1>11, <1>12, <1>14, <1>15 DEF IInv

LEMMA BroadcastLoopKeeps ==
    ASSUME IInv, NEW t \in Threads, BroadcastLoop(t)
    PROVE  IInv'
<1>1. pc[t] = "b_loop" /\ UNCHANGED <<spin, mutexVars, home, thr>>
  BY DEF BroadcastLoop, At
<1>2. CASE cvq = <<>> /\ Goto(t, "b_unlock") /\ UNCHANGED <<schedVars, cvq>>
  <2>1. pc' \in [Threads -> PCs] /\ pc'[t] = "b_unlock"
        /\ \A u \in Threads : u # t => pc'[u] = pc[u]
    BY <1>2 DEF Goto, IInv, Types, PCs, Holding
  <2>2. SchedInv'
    BY <1>2 DEF IInv, Types, schedVars, SchedInv, SchedTypeOK, RunqExact, NoDuplicates, Runnable
  <2>3. Types'
    BY <1>1, <1>2, <2>1, <2>2 DEF IInv, Types, IsLine, NoDuplicates, mutexVars
  <2>4. Blocked' /\ MutexLine'
    BY <1>1, <1>2, <2>1 DEF IInv, Blocked, MutexLine, schedVars, mutexVars
  <2>5. SpinLine'
    BY <1>1, <2>1 DEF IInv, SpinLine, Asking, Holding
  <2>6. WaitLine' /\ Dequeued'
    BY <1>1, <1>2, <2>1 DEF IInv, Types, WaitLine, Dequeued, Sleeps, schedVars
  <2> QED
    BY <2>3, <2>4, <2>5, <2>6 DEF IInv
<1>3. CASE cvq # <<>> /\ cvq' = Tail(cvq) /\ SchedAddToRq(Head(cvq)) /\ UNCHANGED pc
  <2> DEFINE h == Head(cvq)
  <2>1. /\ h \in Threads /\ h \in ToSet(cvq) /\ Sleeps(h)
        /\ IsLine(cvq') /\ ToSet(cvq') = ToSet(cvq) \ {h}
    BY <1>1, <1>3, HeadSleeps
  <2>2. SchedAddToRq(h) /\ UNCHANGED pc
    BY <1>3
  <2> HIDE DEF h
  <2>3. SchedInv' /\ SchedInv
    BY <2>1, <2>2, SchedAddKeepsInv DEF IInv, Types, Sleeps
  <2>4. tstate'[h] = "RUNNABLE" /\ \A u \in Threads : u # h => tstate'[u] = tstate[u]
    BY <2>1, <2>2, <2>3 DEF SchedAddToRq, SchedInv, SchedTypeOK, Procs
  <2>5. Types'
    BY <1>1, <2>1, <2>2, <2>3 DEF IInv, Types, IsLine, NoDuplicates, mutexVars
  <2>6. Blocked' /\ SpinLine'
    BY <1>1, <2>2, <2>4 DEF IInv, Blocked, SpinLine
  <2>7. MutexLine'
    BY <1>1, <2>1, <2>2, <2>4 DEF IInv, MutexLine, mutexVars, Sleeps
  <2>8. \A u \in Threads : Sleeps(u)' <=> Sleeps(u) /\ u # h
    BY <2>1, <2>2, <2>4 DEF Sleeps
  <2>9. WaitLine'
    BY <1>1, <2>1, <2>2, <2>8 DEF IInv, WaitLine, Sleeps
  <2>10. Dequeued'
    BY <1>1, <2>1, <2>2, <2>4 DEF IInv, Types, Dequeued, Sleeps
  <2> QED
    BY <2>5, <2>6, <2>7, <2>9, <2>10 DEF IInv
<1> QED
  BY <1>2, <1>3 DEF BroadcastLoop

-----------------------------------------------------------------------------
LEMMA NextKeeps ==
    ASSUME IInv, [Next]_vars
    PROVE  IInv'
<1>1. CASE Tick
  BY <1>1, TickKeeps DEF Tick
<1>2. ASSUME NEW t \in Threads, Step(t)
      PROVE  IInv'
  <2>1. CASE WaitStep(t)
    BY <2>1, WaitEnqueueKeeps, UnlockKeeps, WaitParkKeeps, LockKeeps DEF WaitStep
  <2>2. CASE SignalStep(t)
    BY <2>2, SignalDequeueKeeps, SignalUnlockKeeps, SignalWakeKeeps DEF SignalStep
  <2>3. CASE BroadcastStep(t)
    BY <2>3, BroadcastLoopKeeps, SignalUnlockKeeps, BroadcastScheduleKeeps DEF BroadcastStep
  <2> QED
    BY <1>2, <2>1, <2>2, <2>3, GrantedKeeps, SpinTicketKeeps, SpinLockKeeps DEF Step
<1>3. ASSUME NEW t \in Threads, CallerStep(t)
      PROVE  IInv'
  BY <1>3, LockKeeps, UnlockKeeps, CallKeeps DEF CallerStep
<1>4. CASE UNCHANGED vars
  <2>1. SchedInv'
    BY <1>4 DEF vars, IInv, Types, schedVars, SchedInv, SchedTypeOK, RunqExact,
       NoDuplicates, Runnable
  <2> QED
    BY <1>4, <2>1, SwitchKeeps DEF vars, schedVars
<1> QED
  BY <1>1, <1>2, <1>3, <1>4 DEF Next

(* The invariant holds always. *)
THEOREM Invariance == Spec => []IInv
<1>1. Init => IInv
  BY InitInv
<1>2. IInv /\ [Next]_vars => IInv'
  BY NextKeeps
<1> QED
  BY <1>1, <1>2, PTL DEF Spec

(* However waits, signals, broadcasts and timer interrupts interleave, the *)
(* run queue is exact and no assert of rq_add or rq_del fails              *)
(* (sched.c:49,64).                                                        *)
THEOREM QueueAndAsserts == Spec => []Consistent
<1>1. IInv => Consistent
  BY InvSafe
<1> QED
  BY <1>1, Invariance, PTL

(* A thread that sleeps in cvar_wait is in the queue, or has been taken by *)
(* one signal that will wake it (cvar.c:142-147, 201).                     *)
THEOREM SleepersNotLost == Spec => []SleepersReachable
<1>1. IInv => SleepersReachable
  BY InvSafe
<1> QED
  BY <1>1, Invariance, PTL

-----------------------------------------------------------------------------
(* The condition variable implements CondVar                               *)

(* Who has the world mutex, by the label it has reached. *)
HasMutex(t) ==
    \/ pc[t] \in {"crit", "w_ticket", "w_ask", "w_enqueue", "w_unlock"}
    \/ pc[t] \in {"m_wait", "w_relock"} /\ t \notin ToSet(mqueue)
    \/ /\ pc[t] \in {"s_ticket", "s_ask", "s_dequeue", "s_unlock", "s_wake", "s_empty",
                     "b_ticket", "b_ask", "b_loop", "b_unlock", "b_schedule"}
       /\ home[t] = "crit"

Owned == \A t \in Threads : mowner = t <=> HasMutex(t)

(* The thread that joins the waiters with the next step is the last in the *)
(* queue.                                                                  *)
JoiningLast ==
    \A t \in Threads : pc[t] = "w_unlock" => cvq # <<>> /\ Last(cvq) = t

(* What a step of t that is no mutex_lock and no mutex_unlock leaves alone. *)
Alone(t) ==
    /\ \A u \in Threads \ {t} : pc'[u] = pc[u] /\ home'[u] = home[u]
    /\ UNCHANGED mutexVars

LEMMA MovesAlone ==
    ASSUME IInv, NEW t \in Threads, NEW label, Goto(t, label), home' = home
    PROVE  pc'[t] = label /\ home'[t] = home[t]
           /\ \A u \in Threads \ {t} : pc'[u] = pc[u] /\ home'[u] = home[u]
BY DEF IInv, Types, Goto

(* Where each step goes to that takes no part in the mutex. *)
Moves(t) ==
    \/ Granted(t) \/ SpinTicket(t) \/ SpinLock(t)
    \/ WaitEnqueue(t) \/ WaitPark(t)
    \/ SignalStep(t) \/ BroadcastStep(t)
    \/ CallWait(t)
    \/ \E label \in {"s_ticket", "b_ticket"} : CallWake(t, label)

LEMMA MovesFacts ==
    ASSUME IInv, NEW t \in Threads, Moves(t)
    PROVE  /\ Alone(t)
           /\ \/ pc'[t] = pc[t] /\ home'[t] = home[t] /\ (cvq' = cvq \/ pc[t] = "b_loop")
              \/ /\ pc[t] \in {"out", "crit"} /\ home'[t] = pc[t] /\ cvq' = cvq
                 /\ pc'[t] \in {"s_ticket", "b_ticket"}
              \/ /\ home'[t] = home[t] /\ cvq' = cvq
                 /\ \/ pc[t] = "crit" /\ pc'[t] = "w_ticket"
                    \/ /\ pc[t] \in {"m_wait", "w_relock"} /\ pc'[t] = "crit"
                       /\ t \notin ToSet(mqueue)
                    \/ pc[t] = "w_ticket" /\ pc'[t] = "w_ask"
                    \/ pc[t] = "w_ask" /\ pc'[t] = "w_enqueue"
                    \/ pc[t] = "w_park" /\ pc'[t] = "w_asleep"
                    \/ pc[t] = "s_ticket" /\ pc'[t] = "s_ask"
                    \/ pc[t] = "s_ask" /\ pc'[t] = "s_dequeue"
                    \/ pc[t] = "s_unlock" /\ pc'[t] = "s_wake"
                    \/ /\ pc[t] \in {"s_wake", "s_empty", "b_schedule"}
                       /\ pc'[t] = home[t]
                    \/ pc[t] = "b_ticket" /\ pc'[t] = "b_ask"
                    \/ pc[t] = "b_ask" /\ pc'[t] = "b_loop" /\ Head(spin) = t
                    \/ pc[t] = "b_loop" /\ pc'[t] = "b_unlock" /\ cvq = <<>>
                    \/ pc[t] = "b_unlock" /\ pc'[t] = "b_schedule"
              \/ /\ pc[t] = "w_enqueue" /\ pc'[t] = "w_unlock" /\ home'[t] = home[t]
                 /\ cvq' = Append(cvq, t)
              \/ /\ pc[t] = "s_dequeue" /\ home'[t] = home[t]
                 /\ \/ pc'[t] = "s_unlock" /\ cvq # <<>> /\ cvq' = Tail(cvq)
                    \/ pc'[t] = "s_empty" /\ cvq = <<>> /\ cvq' = cvq
<1>1. CASE Granted(t)
  <2>1. curr = t /\ pc[t] \in {"m_wait", "w_relock"} /\ Goto(t, "crit") /\ home' = home
        /\ cvq' = cvq /\ UNCHANGED mutexVars
    BY <1>1 DEF Granted, mutexVars
  <2> QED BY <2>1, MovesAlone, RunnerRunnable DEF Alone
<1>2. CASE SpinTicket(t)
  <2>1. /\ pc[t] \in DOMAIN TicketOf /\ Goto(t, TicketOf[pc[t]])
        /\ home' = home /\ cvq' = cvq /\ UNCHANGED mutexVars
    BY <1>2 DEF SpinTicket, mutexVars
  <2> QED BY <2>1, MovesAlone DEF Alone, TicketOf
<1>3. CASE SpinLock(t)
  <2>1. /\ pc[t] \in Asking /\ home' = home /\ cvq' = cvq /\ UNCHANGED mutexVars
        /\ \/ Head(spin) = t /\ Goto(t, Inside[pc[t]])
           \/ pc' = pc
    BY <1>3 DEF SpinLock, mutexVars
  <2> QED BY <2>1, MovesAlone DEF Alone, Asking, Inside
<1>4. CASE WaitEnqueue(t)
  BY <1>4, MovesAlone DEF WaitEnqueue, At, Alone, mutexVars
<1>5. CASE WaitPark(t)
  BY <1>5, MovesAlone DEF WaitPark, At, Alone, mutexVars
<1>6. CASE SignalDequeue(t)
  BY <1>6, MovesAlone DEF SignalDequeue, At, Alone, mutexVars
<1>7. CASE SignalUnlock(t) \/ SignalWake(t) \/ SignalEmpty(t)
  BY <1>7, MovesAlone DEF SignalUnlock, SignalWake, SignalEmpty, At, Alone, mutexVars
<1>8. CASE BroadcastLoop(t)
  BY <1>8, MovesAlone DEF BroadcastLoop, At, Alone, mutexVars
<1>9. CASE BroadcastUnlock(t) \/ BroadcastSchedule(t)
  BY <1>9, MovesAlone DEF BroadcastUnlock, BroadcastSchedule, At, Alone, mutexVars
<1>10. CASE CallWait(t)
  BY <1>10, MovesAlone DEF CallWait, At, Alone, mutexVars
<1>11. CASE \E label \in {"s_ticket", "b_ticket"} : CallWake(t, label)
  <2>1. PICK label \in {"s_ticket", "b_ticket"} : CallWake(t, label)
    BY <1>11
  <2> QED BY <2>1 DEF CallWake, Goto, Alone, mutexVars, IInv, Types
<1> QED
  BY <1>1, <1>2, <1>3, <1>4, <1>5, <1>6, <1>7, <1>8, <1>9, <1>10, <1>11
  DEF Moves, SignalStep, BroadcastStep

(* What MutexLock and MutexUnlock do, as far as the owner is concerned. *)
LEMMA LockFacts ==
    ASSUME IInv, Owned, NEW t \in Threads, Lock(t) \/ WaitReturn(t)
    PROVE  /\ \A u \in Threads \ {t} : pc'[u] = pc[u]
           /\ home' = home /\ cvq' = cvq
           /\ pc[t] \in {"out", "w_asleep"} /\ mowner # t /\ t \notin ToSet(cvq)
           /\ \/ /\ mowner = None /\ mowner' = t /\ pc'[t] = "crit"
                 /\ ToSet(mqueue') = ToSet(mqueue)
              \/ /\ mowner' = mowner /\ ToSet(mqueue') = ToSet(mqueue) \cup {t}
                 /\ pc'[t] = IF pc[t] = "out" THEN "m_wait" ELSE "w_relock"
<1>1. PICK label \in {"m_wait", "w_relock"} :
          MutexLock(t, label) /\ label = IF pc[t] = "out" THEN "m_wait" ELSE "w_relock"
  BY DEF Lock, WaitReturn, At
<1>2. /\ curr = t /\ pc[t] \in {"out", "w_asleep"} /\ home' = home /\ cvq' = cvq
  BY DEF Lock, WaitReturn, At
<1>3. tstate[t] = "RUNNABLE" /\ t \notin ToSet(mqueue)
  BY <1>2, RunnerRunnable
<1>4. mowner # t
  BY <1>2 DEF Owned, HasMutex
<1>5. t \notin ToSet(cvq)
  BY <1>2, <1>3 DEF IInv, WaitLine, Sleeps
<1>6. IsLine(Append(mqueue, t)) /\ ToSet(Append(mqueue, t)) = ToSet(mqueue) \cup {t}
  BY <1>3, LineAppend DEF IInv, Types
<1>7. CASE mowner = None /\ mowner' = t /\ Goto(t, "crit") /\ mqueue' = mqueue
  BY <1>2, <1>4, <1>5, <1>7, MovesAlone
<1>8. CASE mqueue' = Append(mqueue, t) /\ Goto(t, label) /\ mowner' = mowner
  BY <1>1, <1>2, <1>4, <1>5, <1>6, <1>8, MovesAlone
<1> QED BY <1>1, <1>7, <1>8 DEF MutexLock

LEMMA UnlockFacts ==
    ASSUME IInv, Owned, NEW t \in Threads, Unlock(t) \/ WaitUnlock(t)
    PROVE  /\ \A u \in Threads \ {t} : pc'[u] = pc[u]
           /\ home' = home /\ cvq' = cvq /\ mowner = t /\ t \notin ToSet(mqueue)
           /\ \/ pc[t] = "crit" /\ pc'[t] = "out"
              \/ pc[t] = "w_unlock" /\ pc'[t] = "w_park"
           /\ \/ mowner' = None /\ mqueue = <<>> /\ mqueue' = mqueue
              \/ /\ mowner' \in ToSet(mqueue) /\ mowner' \in Threads \ {t}
                 /\ ToSet(mqueue') = ToSet(mqueue) \ {mowner'}
                 /\ pc[mowner'] \in {"m_wait", "w_relock"}
                 /\ mowner' \notin ToSet(cvq)
<1>1. /\ curr = t /\ MutexUnlock /\ home' = home /\ cvq' = cvq
      /\ \/ pc[t] = "crit" /\ Goto(t, "out")
         \/ pc[t] = "w_unlock" /\ Goto(t, "w_park")
  BY DEF Unlock, WaitUnlock, At
<1>2. /\ \A u \in Threads \ {t} : pc'[u] = pc[u]
      /\ \/ pc[t] = "crit" /\ pc'[t] = "out"
         \/ pc[t] = "w_unlock" /\ pc'[t] = "w_park"
  BY <1>1, MovesAlone
<1>3. mowner = t /\ t \notin ToSet(mqueue)
  BY <1>1, RunnerRunnable DEF Owned, HasMutex
<1>4. ASSUME mqueue # <<>>, mowner' = Head(mqueue), mqueue' = Tail(mqueue)
      PROVE  /\ mowner' \in ToSet(mqueue) /\ mowner' \in Threads \ {t}
             /\ ToSet(mqueue') = ToSet(mqueue) \ {mowner'}
             /\ pc[mowner'] \in {"m_wait", "w_relock"}
             /\ mowner' \notin ToSet(cvq)
  <2>1. /\ mowner' \in ToSet(mqueue) /\ mowner' \in Threads
        /\ ToSet(mqueue') = ToSet(mqueue) \ {mowner'}
    BY <1>4, LineTail DEF IInv, Types
  <2>2. pc[mowner'] \in {"m_wait", "w_relock"}
    BY <2>1 DEF IInv, MutexLine
  <2> QED BY <1>3, <2>1, <2>2 DEF IInv, WaitLine, Sleeps
<1> QED BY <1>1, <1>2, <1>3, <1>4 DEF MutexUnlock

LEMMA OwnedKept ==
    ASSUME IInv, Owned, [Next]_vars
    PROVE  Owned'
<1>1. ASSUME NEW t \in Threads, Moves(t) PROVE Owned'
  <2>1. home[t] \in {"out", "crit"}
    BY DEF IInv, Types
  <2>2. HasMutex(t)' <=> HasMutex(t)
    BY <1>1, <2>1, MovesFacts DEF HasMutex, Alone, mutexVars
  <2>3. \A u \in Threads \ {t} : HasMutex(u)' <=> HasMutex(u)
    BY <1>1, MovesFacts DEF HasMutex, Alone, mutexVars
  <2> QED BY <1>1, <2>2, <2>3, MovesFacts DEF Owned, Alone, mutexVars
<1>2. ASSUME NEW t \in Threads, Lock(t) \/ WaitReturn(t) PROVE Owned'
  <2>1. \A u \in Threads \ {t} : HasMutex(u)' <=> HasMutex(u)
    BY <1>2, LockFacts DEF HasMutex
  <2>2. HasMutex(t)' <=> mowner' = t
    BY <1>2, LockFacts DEF HasMutex
  <2> QED BY <1>2, <2>1, <2>2, LockFacts, SchedAssumption DEF Owned
<1>3. ASSUME NEW t \in Threads, Unlock(t) \/ WaitUnlock(t) PROVE Owned'
  <2>1. ~HasMutex(t)' /\ mowner' # t
    BY <1>3, UnlockFacts, SchedAssumption DEF HasMutex
  <2>2. \A u \in Threads \ {t} : HasMutex(u)' <=> u = mowner'
    BY <1>3, UnlockFacts, SchedAssumption DEF Owned, HasMutex
  <2> QED BY <2>1, <2>2 DEF Owned
<1>4. CASE UNCHANGED <<mutexVars, pc, home>>
  BY <1>4 DEF Owned, HasMutex, mutexVars
<1> QED
  BY <1>1, <1>2, <1>3, <1>4
  DEF Next, Tick, Step, CallerStep, WaitStep, Moves, vars

-----------------------------------------------------------------------------
(* Sequences, seen from the end *)

LEMMA LineEnd ==
    ASSUME NEW q, IsLine(q)
    PROVE  /\ \A t \in Threads : /\ Last(Append(q, t)) = t /\ Front(Append(q, t)) = q
                                 /\ Append(q, t) # <<>>
           /\ q # <<>> => /\ q = Append(Front(q), Last(q))
                          /\ ToSet(q) = ToSet(Front(q)) \cup {Last(q)}
                          /\ Last(q) \notin ToSet(Front(q))
<1> DEFINE n == Len(q)
<1>1. /\ q \in Seq(Threads) /\ n \in Nat /\ DOMAIN q = 1 .. n
      /\ \A i \in 1 .. n : q[i] \in Threads
      /\ \A i, j \in 1 .. n : q[i] = q[j] => i = j
  BY DEF IsLine, NoDuplicates
<1>2. ASSUME NEW r \in Seq(Threads), NEW m \in Nat, Len(r) = m + 1
      PROVE  /\ Last(r) = r[m + 1] /\ r # <<>>
             /\ Front(r) \in Seq(Threads) /\ Len(Front(r)) = m
             /\ \A i \in 1 .. m : Front(r)[i] = r[i]
  <2> DEFINE p == SubSeq(r, 1, m)
  <2>1. \A i \in 1 .. m : r[i] \in Threads
    BY <1>2
  <2> HIDE DEF p
  <2>2. /\ p \in Seq(Threads)
        /\ Len(p) = (IF 1 <= m THEN m - 1 + 1 ELSE 0)
        /\ \A i \in 1 .. m - 1 + 1 : p[i] = r[1 + i - 1]
    BY <2>1, SubSeqProperties DEF p
  <2>3. Len(p) = m /\ \A i \in 1 .. m : i \in 1 .. m - 1 + 1 /\ 1 + i - 1 = i
    BY <2>2
  <2>4. (m + 1) - 1 = m /\ m + 1 # 0
    OBVIOUS
  <2>5. Front(r) = p
    BY <1>2, <2>4 DEF Front, p
  <2>6. Last(r) = r[m + 1] /\ r # <<>>
    BY <1>2, <2>4 DEF Last
  <2> QED BY <2>2, <2>3, <2>5, <2>6
<1>3. ASSUME NEW r \in Seq(Threads), NEW s \in Seq(Threads), Len(r) = Len(s),
             \A i \in 1 .. Len(r) : r[i] = s[i]
      PROVE  r = s
  <2>1. DOMAIN r = 1 .. Len(r) /\ DOMAIN s = 1 .. Len(r)
    BY <1>3
  <2> QED BY <1>3, <2>1
<1>4. ASSUME NEW t \in Threads
      PROVE  Last(Append(q, t)) = t /\ Front(Append(q, t)) = q /\ Append(q, t) # <<>>
  <2> DEFINE r == Append(q, t)
  <2>1. /\ r \in Seq(Threads) /\ Len(r) = n + 1 /\ r[n + 1] = t
        /\ \A i \in 1 .. n : r[i] = q[i]
    BY <1>1, AppendProperties
  <2> HIDE DEF r
  <2>2. /\ Last(r) = t /\ r # <<>> /\ Front(r) \in Seq(Threads) /\ Len(Front(r)) = n
        /\ \A i \in 1 .. n : Front(r)[i] = q[i]
    <3> HIDE DEF n
    <3> QED BY <1>1, <1>2, <2>1
  <2>3. Front(r) = q
    BY <1>1, <1>3, <2>2
  <2> QED BY <2>2, <2>3 DEF r
<1>5. CASE q # <<>>
  <2> DEFINE m == n - 1
             p == Front(q)
             e == Last(q)
             a == Append(p, e)
  <2>1. m \in Nat /\ n = m + 1 /\ n \in 1 .. n
    <3>1. n # 0
      BY <1>1, <1>5
    <3> HIDE DEF n
    <3> QED BY <1>1, <3>1
  <2> HIDE DEF m
  <2>2. /\ e = q[n] /\ p \in Seq(Threads) /\ Len(p) = m
        /\ \A i \in 1 .. m : p[i] = q[i]
    <3>1. Len(q) = m + 1 /\ e = Last(q) /\ p = Front(q)
      BY <2>1
    <3>2. /\ Last(q) = q[m + 1] /\ Front(q) \in Seq(Threads) /\ Len(Front(q)) = m
          /\ \A i \in 1 .. m : Front(q)[i] = q[i]
      <4> HIDE DEF n, p, e
      <4> QED BY <1>1, <1>2, <2>1, <3>1
    <3> HIDE DEF p, e
    <3> QED BY <2>1, <3>1, <3>2
  <2>3. DOMAIN p = 1 .. m /\ e \in Threads
    BY <1>1, <2>1, <2>2
  <2> HIDE DEF p, e, n
  <2>4. /\ a \in Seq(Threads) /\ Len(a) = m + 1 /\ a[m + 1] = e
        /\ \A i \in 1 .. m : a[i] = p[i]
    BY <2>2, <2>3, AppendProperties
  <2> HIDE DEF a
  <2>5. \A i \in 1 .. n : i = m + 1 \/ i \in 1 .. m
    BY <2>1
  <2>6. \A i \in 1 .. m : i \in 1 .. n /\ i # n
    BY <2>1
  <2>7. q = a
    <3>1. Len(a) = n /\ \A i \in 1 .. n : a[i] = q[i]
      BY <2>1, <2>2, <2>4, <2>5
    <3> QED BY <1>1, <1>3, <2>4, <3>1 DEF n
  <2>8. ToSet(q) = ToSet(p) \cup {e}
    BY <1>1, <2>1, <2>2, <2>3, <2>5, <2>6 DEF ToSet
  <2>9. e \notin ToSet(p)
    BY <1>1, <2>1, <2>2, <2>3, <2>6 DEF ToSet
  <2> QED BY <1>4, <2>7, <2>8, <2>9 DEF p, e, a
<1> QED BY <1>4, <1>5

-----------------------------------------------------------------------------
(* t waits in cvar_wait, or was taken and has no mutex yet. *)
Within(t) == pc[t] \in {"w_park", "w_asleep", "w_relock"}

SameStand(t) ==
    /\ Within(t)' <=> Within(t)
    /\ pc'[t] = "w_unlock" <=> pc[t] = "w_unlock"
    /\ pc'[t] = "b_loop" <=> pc[t] = "b_loop"
    /\ pc'[t] \in {"s_ticket", "s_ask", "s_dequeue"}
           <=> pc[t] \in {"s_ticket", "s_ask", "s_dequeue"}
    /\ pc'[t] \in {"b_ticket", "b_ask"} <=> pc[t] \in {"b_ticket", "b_ask"}

(* One step of CondVar, or none. *)
CVStep == CV!Next \/ UNCHANGED <<mowner, AbsWaiting, AbsTaken, AbsCalling>>

LEMMA StandFacts ==
    ASSUME IInv, JoiningLast
    PROVE  /\ ToSet(AbsWaiting) \subseteq ToSet(cvq)
           /\ \A t \in Threads : pc[t] \in {"w_unlock", "b_loop"} => Head(spin) = t
<1>1. \A t \in Threads : pc[t] = "w_unlock" => cvq # <<>>
  BY DEF JoiningLast
<1>2. ToSet(<<>>) = {}
  BY DEF ToSet
<1>3. cvq # <<>> => ToSet(Front(cvq)) \subseteq ToSet(cvq)
  BY LineEnd DEF IInv, Types
<1>4. ToSet(AbsWaiting) \subseteq ToSet(cvq)
  BY <1>1, <1>2, <1>3 DEF AbsWaiting
<1> QED BY <1>4 DEF IInv, SpinLine, Holding

LEMMA TakenFacts ==
    /\ AbsTaken = {t \in Threads : Within(t) /\ t \notin ToSet(AbsWaiting) /\ mowner # t}
    /\ AbsTaken' = {t \in Threads :
                       Within(t)' /\ t \notin ToSet(AbsWaiting') /\ mowner' # t}
BY DEF AbsTaken, Joined, Within

(* Who has the spinlock and is neither of the two, sees the whole queue    *)
(* wait.                                                                   *)
LEMMA SeesAll ==
    ASSUME IInv, Owned, NEW t \in Threads, Head(spin) = t,
           pc[t] \notin {"w_unlock", "w_park", "b_loop"}
    PROVE  /\ ~Broadcasting /\ (\A u \in Threads : pc[u] # "w_unlock")
           /\ AbsWaiting = cvq
           /\ \A w \in ToSet(cvq) : w \in Threads /\ Within(w) /\ mowner # w
<1>1. \A u \in Threads : pc[u] \notin {"w_unlock", "w_park", "b_loop"}
  BY DEF IInv, SpinLine, Holding
<1>2. \A w \in ToSet(cvq) : w \in Threads /\ Sleeps(w)
  BY <1>1, LineIn DEF IInv, Types, WaitLine
<1> QED BY <1>1, <1>2 DEF Broadcasting, AbsWaiting, Within, Sleeps, Owned, HasMutex

LEMMA StandsStay ==
    ASSUME NEW t \in Threads, SameStand(t), \A u \in Threads \ {t} : pc'[u] = pc[u]
    PROVE  /\ \A u \in Threads : SameStand(u)
           /\ cvq' = cvq => AbsWaiting' = AbsWaiting
           /\ AbsCalling' = AbsCalling
<1>1. \A u \in Threads : SameStand(u)
  BY DEF SameStand, Within
<1>2. (Broadcasting' <=> Broadcasting)
      /\ ((\E u \in Threads : pc'[u] = "w_unlock") <=> \E u \in Threads : pc[u] = "w_unlock")
  BY <1>1 DEF SameStand, Broadcasting
<1>3. cvq' = cvq => AbsWaiting' = AbsWaiting
  BY <1>2 DEF AbsWaiting
<1>4. AbsCalling' = AbsCalling
  BY <1>1 DEF SameStand, AbsCalling
<1> QED BY <1>1, <1>3, <1>4

LEMMA NotSeen ==
    ASSUME NEW t \in Threads, SameStand(t), Alone(t), cvq' = cvq
    PROVE  CVStep
<1>1. /\ \A u \in Threads : SameStand(u)
      /\ AbsWaiting' = AbsWaiting /\ AbsCalling' = AbsCalling
  BY StandsStay DEF Alone
<1>2. mowner' = mowner
  BY DEF Alone, mutexVars
<1>3. AbsTaken' = AbsTaken
  BY <1>1, <1>2, TakenFacts DEF SameStand
<1> QED BY <1>1, <1>2, <1>3 DEF CVStep

(* The mutex changes hands. *)
LEMMA LockIsCV ==
    ASSUME IInv, Owned, JoiningLast, NEW t \in Threads, Lock(t) \/ WaitReturn(t)
    PROVE  CVStep
<1>1. /\ \A u \in Threads \ {t} : pc'[u] = pc[u]
      /\ cvq' = cvq /\ pc[t] \in {"out", "w_asleep"} /\ mowner # t /\ t \notin ToSet(cvq)
  BY LockFacts
<1>2. t \notin ToSet(AbsWaiting)
  BY <1>1, StandFacts
<1>3. CASE mowner = None /\ mowner' = t /\ pc'[t] = "crit"
  <2>1. \A u \in Threads \ {t} : SameStand(u)
    BY <1>1 DEF SameStand, Within
  <2>2. AbsWaiting' = AbsWaiting
    BY <1>1, <1>3 DEF AbsWaiting, Broadcasting
  <2>3. AbsCalling' = AbsCalling
    BY <1>1, <1>3 DEF AbsCalling
  <2>4. AbsTaken' = AbsTaken \ {mowner'}
    BY <1>3, <2>1, <2>2, TakenFacts, SchedAssumption DEF SameStand
  <2>5. t \in AbsTaken <=> pc[t] = "w_asleep"
    BY <1>1, <1>2, TakenFacts DEF Within
  <2>6. \/ mowner' \in Threads \ ((ToSet(AbsWaiting) \cup AbsTaken) \cup {mowner})
        \/ mowner' \in AbsTaken
    BY <1>1, <1>2, <1>3, <2>5
  <2>7. CV!Pass
    BY <2>2, <2>3, <2>4, <2>6 DEF CV!Pass, CV!Passes, CV!Asleep, CV!Waiting, ToSet
  <2> QED BY <2>7 DEF CVStep, CV!Next
<1>4. CASE mowner' = mowner /\ pc'[t] = IF pc[t] = "out" THEN "m_wait" ELSE "w_relock"
  <2>1. SameStand(t)
    BY <1>1, <1>4 DEF SameStand, Within
  <2>2. /\ \A u \in Threads : SameStand(u)
        /\ AbsWaiting' = AbsWaiting /\ AbsCalling' = AbsCalling
    BY <1>1, <2>1, StandsStay
  <2>3. AbsTaken' = AbsTaken
    BY <1>4, <2>2, TakenFacts DEF SameStand
  <2> QED BY <1>4, <2>2, <2>3 DEF CVStep
<1> QED BY <1>3, <1>4, LockFacts

LEMMA UnlockIsCV ==
    ASSUME IInv, Owned, JoiningLast, NEW t \in Threads, Unlock(t) \/ WaitUnlock(t)
    PROVE  CVStep
<1>1. /\ \A u \in Threads \ {t} : pc'[u] = pc[u]
      /\ cvq' = cvq /\ mowner = t
      /\ \/ pc[t] = "crit" /\ pc'[t] = "out"
         \/ pc[t] = "w_unlock" /\ pc'[t] = "w_park"
      /\ \/ mowner' = None
         \/ /\ mowner' \in Threads \ {t} /\ pc[mowner'] \in {"m_wait", "w_relock"}
            /\ mowner' \notin ToSet(cvq)
  BY UnlockFacts
<1>2. /\ \A u \in Threads \ {t} : SameStand(u)
      /\ AbsCalling' = AbsCalling
  BY <1>1 DEF SameStand, Within, AbsCalling
<1>3. ToSet(AbsWaiting) \subseteq ToSet(cvq)
  BY StandFacts
<1>4. \/ mowner' = None
      \/ mowner' \in Threads \ ((ToSet(AbsWaiting) \cup AbsTaken) \cup {mowner})
      \/ mowner' \in AbsTaken
  BY <1>1, <1>3, TakenFacts DEF Within
<1>5. CASE pc[t] = "crit"
  <2>1. AbsWaiting' = AbsWaiting
    BY <1>1, <1>5 DEF AbsWaiting, Broadcasting
  <2>2. AbsTaken' = AbsTaken \ {mowner'}
    BY <1>1, <1>2, <1>5, <2>1, TakenFacts, SchedAssumption DEF SameStand, Within
  <2>3. CV!Pass
    BY <1>2, <1>4, <2>1, <2>2 DEF CV!Pass, CV!Passes, CV!Asleep, CV!Waiting, ToSet
  <2> QED BY <2>3 DEF CVStep, CV!Next
<1>6. CASE pc[t] = "w_unlock"
  <2>1. Head(spin) = t /\ \A u \in Threads \ {t} : pc[u] \notin {"w_unlock", "b_loop"}
    BY <1>6, StandFacts
  <2>2. AbsWaiting = Front(cvq)
    BY <1>6, <2>1 DEF AbsWaiting, Broadcasting
  <2>3. AbsWaiting' = cvq
    BY <1>1, <1>6, <2>1 DEF AbsWaiting, Broadcasting
  <2>4. cvq = Append(Front(cvq), t) /\ ToSet(cvq) = ToSet(Front(cvq)) \cup {t}
    BY <1>6, LineEnd DEF JoiningLast, IInv, Types
  <2>5. AbsTaken' = AbsTaken \ {mowner'}
    BY <1>1, <1>2, <1>6, <2>2, <2>3, <2>4, TakenFacts, SchedAssumption
    DEF SameStand, Within
  <2>6. CV!Wait(t)
    BY <1>1, <1>2, <1>4, <2>2, <2>3, <2>4, <2>5
    DEF CV!Wait, CV!Passes, CV!Asleep, CV!Waiting, ToSet
  <2> QED BY <2>6 DEF CVStep, CV!Next
<1> QED BY <1>1, <1>5, <1>6

(* The steps that leave the mutex alone *)
LEMMA MovesIsCV ==
    ASSUME IInv, Owned, JoiningLast, NEW t \in Threads, Moves(t)
    PROVE  CVStep
<1>1. /\ Alone(t) /\ mowner' = mowner
      /\ \A u \in Threads \ {t} : pc'[u] = pc[u]
  BY MovesFacts DEF Alone, mutexVars
<1>2. ASSUME SameStand(t), cvq' = cvq PROVE CVStep
  BY <1>1, <1>2, NotSeen
<1>3. \A u \in Threads \ {t} : SameStand(u)
  BY <1>1 DEF SameStand, Within
<1>4. CASE pc'[t] = pc[t]
  <2>1. SameStand(t)
    BY <1>4 DEF SameStand, Within
  <2>2. CASE cvq' # cvq
    <3>1. pc[t] = "b_loop"
      BY <1>4, <2>2, MovesFacts
    <3>2. AbsWaiting = <<>> /\ AbsWaiting' = <<>>
      BY <1>4, <3>1 DEF AbsWaiting, Broadcasting
    <3>3. AbsCalling' = AbsCalling /\ \A u \in Threads : SameStand(u)
      BY <1>1, <2>1, StandsStay
    <3>4. AbsTaken' = AbsTaken
      BY <1>1, <3>2, <3>3, TakenFacts DEF SameStand
    <3> QED BY <1>1, <3>2, <3>3, <3>4 DEF CVStep
  <2> QED BY <1>2, <2>1, <2>2
<1>5. CASE pc[t] \in {"out", "crit"} /\ pc'[t] \in {"s_ticket", "b_ticket"} /\ cvq' = cvq
  <2> DEFINE c == IF pc'[t] = "s_ticket" THEN "signal" ELSE "broadcast"
  <2>1. AbsWaiting' = AbsWaiting
    BY <1>1, <1>5 DEF AbsWaiting, Broadcasting
  <2>2. AbsTaken' = AbsTaken
    BY <1>1, <1>3, <1>5, <2>1, TakenFacts DEF SameStand, Within
  <2>3. AbsCalling[t] = "none" /\ AbsCalling' = [AbsCalling EXCEPT ![t] = c]
    BY <1>1, <1>5 DEF AbsCalling
  <2>4. t \notin ToSet(AbsWaiting) /\ t \notin AbsTaken
    BY <1>5, StandFacts, TakenFacts DEF IInv, WaitLine, Sleeps, Within
  <2>5. CV!Call(t, c)
    BY <1>1, <2>1, <2>2, <2>3, <2>4 DEF CV!Call, CV!Asleep, CV!Waiting, ToSet
  <2>6. c \in CV!Calls \ {"none"}
    BY DEF CV!Calls
  <2> QED BY <2>5, <2>6 DEF CVStep, CV!Next
<1>6. CASE pc[t] = "w_relock" /\ pc'[t] = "crit" /\ t \notin ToSet(mqueue) /\ cvq' = cvq
  <2>1. mowner = t
    BY <1>6 DEF Owned, HasMutex
  <2>2. AbsWaiting' = AbsWaiting
    BY <1>1, <1>6 DEF AbsWaiting, Broadcasting
  <2>3. AbsTaken' = AbsTaken
    BY <1>1, <1>3, <2>1, <2>2, TakenFacts DEF SameStand
  <2>4. AbsCalling' = AbsCalling
    BY <1>1, <1>6 DEF AbsCalling
  <2> QED BY <1>1, <2>2, <2>3, <2>4 DEF CVStep
<1>7. CASE pc[t] = "b_ask" /\ pc'[t] = "b_loop" /\ Head(spin) = t /\ cvq' = cvq
  <2>1. /\ AbsWaiting = cvq
        /\ \A w \in ToSet(cvq) : w \in Threads /\ Within(w) /\ mowner # w
    BY <1>7, SeesAll
  <2>2. AbsWaiting' = <<>> /\ ToSet(AbsWaiting') = {}
    BY <1>7 DEF AbsWaiting, Broadcasting, ToSet
  <2>3. \A u \in Threads : Within(u)' <=> Within(u)
    BY <1>3, <1>7 DEF SameStand, Within
  <2>4. AbsTaken' = AbsTaken \cup ToSet(AbsWaiting)
    BY <1>1, <2>1, <2>2, <2>3, TakenFacts
  <2>5. AbsCalling[t] = "broadcast" /\ AbsCalling' = [AbsCalling EXCEPT ![t] = "none"]
    BY <1>1, <1>7 DEF AbsCalling
  <2>6. CV!Broadcast(t)
    BY <1>1, <2>2, <2>4, <2>5 DEF CV!Broadcast, CV!Done, CV!Waiting, ToSet
  <2> QED BY <2>6 DEF CVStep, CV!Next
<1>8. CASE pc[t] = "b_loop" /\ pc'[t] = "b_unlock" /\ cvq = <<>> /\ cvq' = cvq
  <2>1. \A u \in Threads \ {t} : pc[u] \notin {"w_unlock", "b_loop"}
    BY <1>8, StandFacts
  <2>2. AbsWaiting = <<>> /\ AbsWaiting' = <<>>
    BY <1>1, <1>8, <2>1 DEF AbsWaiting, Broadcasting
  <2>3. AbsTaken' = AbsTaken
    BY <1>1, <1>3, <1>8, <2>2, TakenFacts DEF SameStand, Within
  <2>4. AbsCalling' = AbsCalling
    BY <1>1, <1>8 DEF AbsCalling
  <2> QED BY <1>1, <2>2, <2>3, <2>4 DEF CVStep
<1>9. CASE pc[t] = "w_enqueue" /\ pc'[t] = "w_unlock" /\ cvq' = Append(cvq, t)
  <2>1. Head(spin) = t
    BY <1>9 DEF IInv, SpinLine, Holding
  <2>2. ~Broadcasting /\ AbsWaiting = cvq
    BY <1>9, <2>1, SeesAll
  <2>3. ~Broadcasting' /\ AbsWaiting' = Front(cvq')
    BY <1>1, <1>9, <2>2 DEF AbsWaiting, Broadcasting
  <2>4. AbsWaiting' = AbsWaiting
    BY <1>9, <2>2, <2>3, LineEnd DEF IInv, Types
  <2>5. AbsTaken' = AbsTaken
    BY <1>1, <1>3, <1>9, <2>4, TakenFacts DEF SameStand, Within
  <2>6. AbsCalling' = AbsCalling
    BY <1>1, <1>9 DEF AbsCalling
  <2> QED BY <1>1, <2>4, <2>5, <2>6 DEF CVStep
<1>10. CASE /\ pc[t] = "s_dequeue"
            /\ \/ pc'[t] = "s_unlock" /\ cvq # <<>> /\ cvq' = Tail(cvq)
               \/ pc'[t] = "s_empty" /\ cvq = <<>> /\ cvq' = cvq
  <2>1. Head(spin) = t
    BY <1>10 DEF IInv, SpinLine, Holding
  <2>2. /\ ~Broadcasting /\ (\A u \in Threads : pc[u] # "w_unlock") /\ AbsWaiting = cvq
        /\ \A w \in ToSet(cvq) : w \in Threads /\ Within(w) /\ mowner # w
    BY <1>10, <2>1, SeesAll
  <2>3. AbsWaiting' = cvq'
    BY <1>1, <1>10, <2>2 DEF AbsWaiting, Broadcasting
  <2>4. \A u \in Threads : Within(u)' <=> Within(u)
    BY <1>3, <1>10 DEF SameStand, Within
  <2>5. AbsCalling[t] = "signal" /\ AbsCalling' = [AbsCalling EXCEPT ![t] = "none"]
    BY <1>1, <1>10 DEF AbsCalling
  <2>6. CASE cvq = <<>> /\ cvq' = cvq
    <3>1. AbsTaken' = AbsTaken
      BY <1>1, <2>2, <2>3, <2>4, <2>6, TakenFacts
    <3>2. CV!SignalNobody(t)
      BY <1>1, <2>2, <2>3, <2>5, <2>6, <3>1 DEF CV!SignalNobody, CV!Done
    <3> QED BY <3>2 DEF CVStep, CV!Next
  <2>7. CASE cvq # <<>> /\ cvq' = Tail(cvq)
    <3>1. Head(cvq) \in ToSet(cvq) /\ ToSet(cvq') = ToSet(cvq) \ {Head(cvq)}
      BY <2>7, LineTail DEF IInv, Types
    <3>2. AbsTaken' = AbsTaken \cup {Head(cvq)}
      BY <1>1, <2>2, <2>3, <2>4, <3>1, TakenFacts
    <3>3. CV!SignalOne(t)
      BY <1>1, <2>2, <2>3, <2>5, <2>7, <3>2 DEF CV!SignalOne, CV!Done
    <3> QED BY <3>3 DEF CVStep, CV!Next
  <2> QED BY <1>10, <2>6, <2>7
<1>11. CASE /\ cvq' = cvq /\ home[t] \in {"out", "crit"}
            /\ \/ pc[t] = "crit" /\ pc'[t] = "w_ticket"
               \/ pc[t] = "m_wait" /\ pc'[t] = "crit"
               \/ pc[t] = "w_ticket" /\ pc'[t] = "w_ask"
               \/ pc[t] = "w_ask" /\ pc'[t] = "w_enqueue"
               \/ pc[t] = "w_park" /\ pc'[t] = "w_asleep"
               \/ pc[t] = "s_ticket" /\ pc'[t] = "s_ask"
               \/ pc[t] = "s_ask" /\ pc'[t] = "s_dequeue"
               \/ pc[t] = "s_unlock" /\ pc'[t] = "s_wake"
               \/ pc[t] \in {"s_wake", "s_empty", "b_schedule"} /\ pc'[t] = home[t]
               \/ pc[t] = "b_ticket" /\ pc'[t] = "b_ask"
               \/ pc[t] = "b_unlock" /\ pc'[t] = "b_schedule"
  <2>1. SameStand(t)
    BY <1>11 DEF SameStand, Within
  <2> QED BY <1>2, <1>11, <2>1
<1>12. home[t] \in {"out", "crit"}
  BY DEF IInv, Types
<1> QED
  BY <1>4, <1>5, <1>6, <1>7, <1>8, <1>9, <1>10, <1>11, <1>12, MovesFacts

(* What keeps the joining thread the last of the queue: everybody else who *)
(* would touch it has to wait for the spinlock.                            *)
LEMMA JoiningLastKept ==
    ASSUME IInv, Owned, JoiningLast, [Next]_vars
    PROVE  JoiningLast'
<1>1. ASSUME cvq' = cvq,
             \A u \in Threads : pc'[u] = "w_unlock" => pc[u] = "w_unlock"
      PROVE  JoiningLast'
  BY <1>1 DEF JoiningLast, Last
<1>2. ASSUME NEW t \in Threads, Moves(t) PROVE JoiningLast'
  <2>1. \A u \in Threads \ {t} : pc'[u] = pc[u]
    BY <1>2, MovesFacts DEF Alone
  <2>2. CASE pc[t] = "w_enqueue" /\ pc'[t] = "w_unlock" /\ cvq' = Append(cvq, t)
    <3>1. \A u \in Threads : pc'[u] = "w_unlock" => u = t
      BY <2>1, <2>2 DEF IInv, SpinLine, Holding
    <3>2. cvq' # <<>> /\ Last(cvq') = t
      BY <2>2, LineEnd DEF IInv, Types
    <3> QED BY <3>1, <3>2 DEF JoiningLast
  <2>3. CASE pc[t] \in {"b_loop", "s_dequeue"} /\ pc'[t] # "w_unlock"
    BY <2>1, <2>3 DEF IInv, SpinLine, Holding, JoiningLast
  <2>4. CASE pc'[t] = "w_unlock" => pc[t] = "w_unlock"
    BY <1>1, <1>2, <2>1, <2>3, <2>4, MovesFacts
  <2>5. home[t] # "w_unlock"
    BY DEF IInv, Types
  <2> QED BY <1>2, <2>2, <2>3, <2>4, <2>5, MovesFacts
<1>3. ASSUME NEW t \in Threads, Lock(t) \/ WaitReturn(t) PROVE JoiningLast'
  BY <1>1, <1>3, LockFacts
<1>4. ASSUME NEW t \in Threads, Unlock(t) \/ WaitUnlock(t) PROVE JoiningLast'
  BY <1>1, <1>4, UnlockFacts
<1>5. CASE UNCHANGED <<cvq, pc>>
  BY <1>1, <1>5
<1> QED
  BY <1>2, <1>3, <1>4, <1>5
  DEF Next, Tick, Step, CallerStep, WaitStep, Moves, vars

(* Releasing the mutex and joining the waiters is one step to every        *)
(* observer, no call of signal or broadcast misses a waiter, none wakes    *)
(* more than it should, and nobody comes back uncalled or without the      *)
(* mutex (cvar.c:119-121,142-147).                                         *)
THEOREM CvarIsCondVar == Spec => ImplementsCondVar
<1>1. Init => CV!Init /\ Owned /\ JoiningLast
  <2> SUFFICES ASSUME Init PROVE CV!Init /\ Owned /\ JoiningLast
    OBVIOUS
  <2>1. mowner = None /\ cvq = <<>> /\ \A t \in Threads : pc[t] = "out"
    BY DEF Init
  <2>2. AbsWaiting = <<>>
    BY <2>1 DEF AbsWaiting, Broadcasting
  <2>3. AbsTaken = {}
    BY <2>1 DEF AbsTaken, Joined
  <2>4. AbsCalling = [t \in Threads |-> "none"]
    BY <2>1 DEF AbsCalling
  <2>5. Owned /\ JoiningLast
    BY <2>1, SchedAssumption DEF Owned, HasMutex, JoiningLast
  <2> QED BY <2>1, <2>2, <2>3, <2>4, <2>5 DEF CV!Init
<1>2. IInv /\ Owned /\ JoiningLast /\ [Next]_vars
      => Owned' /\ JoiningLast' /\ [CV!Next]_(CV!vars)
  <2> SUFFICES ASSUME IInv, Owned, JoiningLast, [Next]_vars
               PROVE  Owned' /\ JoiningLast' /\ CVStep
    BY DEF CVStep, CV!vars
  <2>1. ASSUME NEW t \in Threads, Step(t) \/ CallerStep(t) PROVE CVStep
    BY <2>1, MovesIsCV, LockIsCV, UnlockIsCV DEF Step, CallerStep, WaitStep, Moves
  <2>2. ASSUME UNCHANGED <<cvq, mutexVars, pc>> PROVE CVStep
    <3>1. cvq' = cvq /\ pc' = pc /\ mowner' = mowner
      BY <2>2 DEF mutexVars
    <3>2. AbsWaiting' = AbsWaiting
      BY <3>1 DEF AbsWaiting, Broadcasting
    <3>3. AbsTaken' = AbsTaken
      BY <3>1, <3>2 DEF AbsTaken, Joined
    <3>4. AbsCalling' = AbsCalling
      BY <3>1 DEF AbsCalling
    <3> QED BY <3>1, <3>2, <3>3, <3>4 DEF CVStep
  <2>3. CVStep
    BY <2>1, <2>2 DEF Next, Tick, vars
  <2> QED BY <2>3, OwnedKept, JoiningLastKept
<1> QED BY <1>1, <1>2, Invariance, PTL DEF Spec, CV!Spec, ImplementsCondVar
=============================================================================
