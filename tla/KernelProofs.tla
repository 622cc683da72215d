---------------------------- MODULE KernelProofs ----------------------------
(***************************************************************************)
(* The kernel's mutex, and the drivers.                                    *)
(*                                                                         *)
(* The mutex: the inductive invariant of KMutex holds initially and every  *)
(* step of every thread and every timer interrupt preserves it, whatever   *)
(* the number of threads and the width M of the ticket counters.  Mutual   *)
(* exclusion, the exactness of the run queue, that no waiter is lost, that *)
(* no assert fails and that the mutex implements FifoLock follow.          *)
(*                                                                         *)
(* The timer: the sleep list is exact, nobody is woken early and no tick   *)
(* leaves asleep a thread that is due, for any number of threads, any      *)
(* width of the tick counter and any arguments.                            *)
(*                                                                         *)
(* The console: the cursor stays in the screen, for a screen of any size   *)
(* and any number of threads.  Every offset that is written was computed   *)
(* from a row and a column that valid_row and valid_col accepted, or is    *)
(* that of the last row; where row and column came from does not matter.   *)
(* A call that no echo interrupts leaves what the console promises, and so *)
(* does every echo.                                                        *)
(*                                                                         *)
(* The keyboard: one reader at most sleeps in kbd_wait, with kbd_lock.     *)
(* Until the buffer overflows the part of it between the two indices holds *)
(* the unread keys in the order they were typed, and every key is unread,  *)
(* in a reader's hand, given to a reader or dropped in one of the two ways *)
(* the code has, and is so once; for buffers and lines of any size and any *)
(* number of readers.                                                      *)
(***************************************************************************)
EXTENDS KMutex, SleepTimer, Console, Keyboard, SchedProofs, WellFoundedInduction

-----------------------------------------------------------------------------
(* The wait queue *)

LEMMA AppendQueued ==
    ASSUME mqueue \in Seq(Threads), NoDuplicates(mqueue),
           NEW t \in Threads, ~Queued(t), mqueue' = Append(mqueue, t)
    PROVE  /\ NoDuplicates(mqueue')
           /\ \A u \in Threads : Queued(u)' <=> Queued(u) \/ u = t
<1>1. /\ Len(mqueue) \in Nat /\ DOMAIN mqueue = 1 .. Len(mqueue)
      /\ mqueue' \in Seq(Threads) /\ Len(mqueue') = Len(mqueue) + 1
      /\ DOMAIN mqueue' = 1 .. Len(mqueue) + 1
      /\ \A i \in 1 .. Len(mqueue) : mqueue'[i] = mqueue[i]
      /\ mqueue'[Len(mqueue) + 1] = t
  BY AppendProperties
<1>2. NoDuplicates(mqueue')
  BY <1>1 DEF NoDuplicates, Queued
<1>3. ASSUME NEW u \in Threads PROVE Queued(u)' <=> Queued(u) \/ u = t
  BY <1>1 DEF Queued
<1> QED BY <1>2, <1>3

LEMMA TailQueued ==
    ASSUME mqueue \in Seq(Threads), mqueue # <<>>, NoDuplicates(mqueue),
           mqueue' = Tail(mqueue)
    PROVE  /\ Head(mqueue) \in Threads /\ Queued(Head(mqueue))
           /\ mqueue' \in Seq(Threads) /\ NoDuplicates(mqueue')
           /\ \A u \in Threads :
                 Queued(u)' <=> Queued(u) /\ u # Head(mqueue)
<1>1. /\ Len(mqueue) \in Nat \ {0} /\ DOMAIN mqueue = 1 .. Len(mqueue)
      /\ mqueue' \in Seq(Threads) /\ Len(mqueue') = Len(mqueue) - 1
      /\ DOMAIN mqueue' = 1 .. Len(mqueue) - 1
      /\ \A i \in 1 .. Len(mqueue) - 1 : mqueue'[i] = mqueue[i+1]
      /\ Head(mqueue) = mqueue[1] /\ mqueue[1] \in Threads
  BY HeadTailProperties
<1>2. NoDuplicates(mqueue')
  BY <1>1 DEF NoDuplicates
<1>3. ASSUME NEW u \in Threads, Queued(u)'
      PROVE  Queued(u) /\ u # Head(mqueue)
  <2>1. PICK i \in 1 .. Len(mqueue) - 1 : mqueue[i+1] = u
    BY <1>1, <1>3 DEF Queued
  <2> QED BY <1>1, <2>1 DEF Queued, NoDuplicates
<1>4. ASSUME NEW u \in Threads, Queued(u), u # Head(mqueue)
      PROVE  Queued(u)'
  <2>1. PICK i \in 2 .. Len(mqueue) : mqueue[i] = u
    BY <1>1, <1>4 DEF Queued
  <2>2. i - 1 \in DOMAIN mqueue' /\ mqueue'[i-1] = u
    BY <1>1, <2>1
  <2> QED BY <2>2 DEF Queued
<1> QED BY <1>1, <1>2, <1>3, <1>4 DEF Queued

-----------------------------------------------------------------------------
(* The ticket counters, which wrap at M *)

LEMMA AheadRange ==
    ASSUME turn \in Tickets, NEW v \in Tickets
    PROVE  Ahead(v) \in Tickets /\ (Ahead(v) = 0 <=> v = turn)
BY TicketAssumption DEF Tickets, Ahead

LEMMA AheadInjective ==
    ASSUME turn \in Tickets, NEW v \in Tickets, NEW w \in Tickets,
           Ahead(v) = Ahead(w)
    PROVE  v = w
BY TicketAssumption DEF Tickets, Ahead

LEMMA AheadOnto ==
    ASSUME turn \in Tickets, NEW n \in Tickets
    PROVE  \E v \in Tickets : Ahead(v) = n
<1>1. CASE turn + n < M
  BY <1>1, TicketAssumption DEF Tickets, Ahead
<1>2. CASE turn + n >= M
  <2>1. turn + n - M \in Tickets /\ Ahead(turn + n - M) = n
    BY <1>2, TicketAssumption DEF Tickets, Ahead
  <2> QED BY <2>1
<1> QED BY <1>1, <1>2, TicketAssumption DEF Tickets

(* A ticket is left for the next thread: fewer tickets are out than there  *)
(* are threads, so the counters never meet after a wrap.                   *)
LEMMA TicketsLeft ==
    ASSUME TypeOK, TicketsContiguous, NEW t \in Threads, t \notin InSpin
    PROVE  Ahead(ticket) < M - 1
<1> DEFINE d == Ahead(ticket)
           f == [u \in InSpin |-> Ahead(myTurn[u])]
<1>1. turn \in Tickets /\ ticket \in Tickets /\ d \in Tickets
  BY AheadRange DEF TypeOK
<1>2. InSpin \subseteq Threads \ {t} /\ \A u \in InSpin : myTurn[u] \in Tickets
  BY DEF InSpin, TypeOK
<1>3. /\ IsFiniteSet(Threads) /\ IsFiniteSet(Threads \ {t})
      /\ Cardinality(Threads \ {t}) = Cardinality(Threads) - 1
      /\ Cardinality(Threads) \in Nat
  BY SchedAssumption, FS_RemoveElement, FS_CardinalityType
<1>4. /\ IsFiniteSet(InSpin)
      /\ Cardinality(InSpin) <= Cardinality(Threads) - 1
  BY <1>2, <1>3, FS_Subset
<1>5. f \in Surjection(InSpin, 0 .. d - 1)
  <2>1. f \in [InSpin -> 0 .. d - 1]
    <3>1. \A u \in InSpin : Ahead(myTurn[u]) \in 0 .. d - 1
      BY <1>1, <1>2, AheadRange, TicketAssumption
      DEF TicketsContiguous, Tickets
    <3> QED BY <3>1
  <2>2. ASSUME NEW n \in 0 .. d - 1 PROVE \E u \in InSpin : f[u] = n
    <3>1. n \in Tickets /\ n < d
      BY <1>1, TicketAssumption DEF Tickets
    <3>2. PICK v \in Tickets : Ahead(v) = n
      BY <1>1, <3>1, AheadOnto
    <3>3. PICK u \in InSpin : myTurn[u] = v
      BY <3>1, <3>2 DEF TicketsContiguous
    <3> QED BY <3>2, <3>3
  <2> QED BY <2>1, <2>2 DEF Surjection
<1> HIDE DEF f, d
<1>6. Cardinality(0 .. d - 1) <= Cardinality(InSpin)
  BY <1>4, <1>5, FS_Surjection
<1>7. Cardinality(0 .. d - 1) = d
  <2>1. 0 \in Int /\ d - 1 \in Int /\ d \in Nat
    BY <1>1 DEF Tickets
  <2> QED BY <2>1, FS_Interval
<1>8. Cardinality(InSpin) \in Nat
  BY <1>4, FS_CardinalityType
<1> QED BY <1>1, <1>3, <1>4, <1>6, <1>7, <1>8, TicketAssumption DEF Tickets, d

(* Drawing a ticket keeps the outstanding ones contiguous ...              *)
LEMMA TicketDrawn ==
    ASSUME TypeOK, TicketsContiguous, NEW t \in Threads, t \notin InSpin,
           ticket' = Inc(ticket), turn' = turn,
           myTurn' = [myTurn EXCEPT ![t] = ticket],
           pc' = [pc EXCEPT ![t] = "test"]
    PROVE  TicketsContiguous'
<1>1. /\ turn \in Tickets /\ ticket \in Tickets /\ ticket' \in Tickets
      /\ \A u \in Threads : myTurn[u] \in Tickets
  BY TicketAssumption DEF TypeOK, Inc, Tickets
<1>2. \A v \in Tickets : Ahead(v)' = Ahead(v)
  BY DEF Ahead
<1>3. Ahead(ticket)' = Ahead(ticket) + 1 /\ Ahead(ticket) \in Nat
  BY <1>1, TicketsLeft, TicketAssumption DEF Ahead, Inc, Tickets
<1>4. InSpin' = InSpin \cup {t}
  BY DEF InSpin, TypeOK, Ticketed
<1>5. \A u \in InSpin : u # t /\ u \in Threads /\ myTurn'[u] = myTurn[u]
  BY DEF InSpin, TypeOK
<1>6. myTurn'[t] = ticket
  BY DEF TypeOK
<1>7. ASSUME NEW u \in InSpin' PROVE Ahead(myTurn[u])' < Ahead(ticket)'
  <2>1. CASE u = t
    BY <1>1, <1>2, <1>3, <1>6, <2>1 DEF Ahead
  <2>2. CASE u # t
    <3>1. u \in InSpin /\ myTurn'[u] = myTurn[u] /\ myTurn[u] \in Tickets
      BY <1>1, <1>4, <1>5, <2>2
    <3>2. Ahead(myTurn[u])' = Ahead(myTurn[u]) /\ Ahead(myTurn[u]) \in Nat
      BY <1>1, <3>1, AheadRange DEF Ahead, Tickets
    <3> QED BY <1>3, <3>1, <3>2 DEF TicketsContiguous
  <2> QED BY <2>1, <2>2
<1>8. ASSUME NEW u \in InSpin PROVE myTurn[u] # ticket
  <2>1. myTurn[u] \in Tickets /\ Ahead(myTurn[u]) < Ahead(ticket)
    BY <1>1, <1>5 DEF TicketsContiguous
  <2> QED BY <1>3, <2>1
<1>9. \A u, w \in InSpin' : myTurn'[u] = myTurn'[w] => u = w
  BY <1>4, <1>5, <1>6, <1>8 DEF TicketsContiguous
<1>10. ASSUME NEW v \in Tickets, Ahead(v)' < Ahead(ticket)'
       PROVE  \E u \in InSpin' : myTurn'[u] = v
  <2>1. Ahead(v) \in Nat /\ Ahead(v) < Ahead(ticket) + 1
    BY <1>1, <1>2, <1>3, <1>10, AheadRange DEF Tickets
  <2>2. CASE Ahead(v) = Ahead(ticket)
    BY <1>1, <1>4, <1>6, <2>2, AheadInjective
  <2>3. CASE Ahead(v) < Ahead(ticket)
    BY <1>4, <1>5, <2>3 DEF TicketsContiguous
  <2> QED BY <1>3, <2>1, <2>2, <2>3
<1> QED BY <1>7, <1>9, <1>10 DEF TicketsContiguous

(* ... and so does serving the next one.                                   *)
LEMMA TurnAdvanced ==
    ASSUME TypeOK, TicketsContiguous, SpinExclusion,
           NEW t \in Threads, pc[t] \in SpinBody \cup {"advance"},
           NEW l, l \notin Ticketed,
           ticket' = ticket, turn' = Inc(turn), myTurn' = myTurn,
           pc' = [pc EXCEPT ![t] = l]
    PROVE  TicketsContiguous'
<1>1. /\ turn \in Tickets /\ ticket \in Tickets
      /\ \A u \in Threads : myTurn[u] \in Tickets
      /\ myTurn[t] = turn /\ t \in InSpin
  BY DEF TypeOK, SpinExclusion, Served, InSpin, Ticketed
<1>2. InSpin' = InSpin \ {t} /\ InSpin \subseteq Threads
  BY DEF InSpin, TypeOK, Ticketed
<1>3. \A v \in Tickets : Ahead(v)' = IF v = turn THEN M - 1 ELSE Ahead(v) - 1
  BY <1>1, TicketAssumption DEF Ahead, Inc, Tickets
<1>4. ticket # turn
  <2>1. Ahead(turn) < Ahead(ticket)
    BY <1>1 DEF TicketsContiguous
  <2>2. Ahead(turn) = 0 /\ Ahead(ticket) \in Nat
    BY <1>1, AheadRange DEF Tickets
  <2> QED BY <2>1, <2>2
<1>5. Ahead(ticket)' = Ahead(ticket) - 1
  <2>1. Ahead(ticket)' = IF ticket = turn THEN M - 1 ELSE Ahead(ticket) - 1
    BY <1>1, TicketAssumption DEF Ahead, Inc, Tickets
  <2> QED BY <1>4, <2>1
<1>6. \A v \in Tickets : Ahead(v) \in Tickets /\ (Ahead(v) = 0 <=> v = turn)
  BY <1>1, AheadRange
<1>7. ASSUME NEW u \in InSpin' PROVE Ahead(myTurn[u])' < Ahead(ticket)'
  <2>1. u \in InSpin /\ u # t /\ myTurn[u] \in Tickets /\ myTurn[u] # turn
    BY <1>1, <1>2 DEF TicketsContiguous
  <2>2. Ahead(myTurn[u])' = Ahead(myTurn[u]) - 1
    BY <1>1, <2>1, TicketAssumption DEF Ahead, Inc, Tickets
  <2>3. Ahead(myTurn[u]) < Ahead(ticket)
    BY <2>1 DEF TicketsContiguous
  <2> QED BY <1>1, <1>5, <1>6, <2>1, <2>2, <2>3 DEF Tickets
<1>8. \A u, w \in InSpin' : myTurn'[u] = myTurn'[w] => u = w
  BY <1>2 DEF TicketsContiguous
<1>9. ASSUME NEW v \in Tickets, Ahead(v)' < Ahead(ticket)'
      PROVE  \E u \in InSpin' : myTurn'[u] = v
  <2>1. v # turn
    BY <1>1, <1>3, <1>5, <1>6, <1>9, TicketAssumption DEF Tickets
  <2>2. Ahead(v) < Ahead(ticket)
    BY <1>1, <1>3, <1>5, <1>6, <1>9, <2>1 DEF Tickets
  <2>3. PICK u \in InSpin : myTurn[u] = v
    BY <2>2 DEF TicketsContiguous
  <2> QED BY <1>1, <1>2, <2>1, <2>3
<1> QED BY <1>7, <1>8, <1>9 DEF TicketsContiguous

-----------------------------------------------------------------------------
LEMMA CallLockKeeps ==
    ASSUME IInv, NEW t \in Threads, CallLock(t)
    PROVE  IInv'
<1>1. TypeOK'
  BY DEF IInv, CallLock, At, Goto, TypeOK, SchedTypeOK, schedVars, spinVars,
         mutexVars, localVars, PCs, Ticketed, SpinBody, Ops, Unlocks
<1>2. OpMatches'
  BY DEF IInv, CallLock, At, Goto, TypeOK, OpMatches, Unlocks, spinVars,
         mutexVars, localVars
<1>3. RunqExact'
  BY DEF IInv, CallLock, At, Goto, RunqExact, schedVars, Runnable
<1>4. TicketsContiguous'
  BY DEF IInv, CallLock, At, Goto, TypeOK, TicketsContiguous, InSpin, Ahead,
         Ticketed, SpinBody, spinVars, localVars
<1>5. SpinExclusion'
  BY DEF IInv, CallLock, At, Goto, TypeOK, SpinExclusion, Served, SpinBody,
         spinVars, mutexVars, localVars
<1>6. MutexExclusion'
  BY DEF IInv, CallLock, At, Goto, TypeOK, OpMatches, MutexExclusion, Has,
         Queued, Unlocks, mutexVars, localVars
<1>7. NoLostWaiter'
  BY DEF IInv, CallLock, At, Goto, TypeOK, NoLostWaiter, Queued, mutexVars,
         localVars, schedVars
<1>8. BlockedIsAsleep'
  BY DEF IInv, CallLock, At, Goto, TypeOK, BlockedIsAsleep, schedVars
<1>9. DecisionsHold'
  BY DEF IInv, CallLock, At, Goto, TypeOK, DecisionsHold, Queued, mutexVars
<1> QED BY <1>1, <1>2, <1>3, <1>4, <1>5, <1>6, <1>7, <1>8, <1>9 DEF IInv

LEMMA CallUnlockKeeps ==
    ASSUME IInv, NEW t \in Threads, NEW mode \in Unlocks, CallUnlock(t, mode)
    PROVE  IInv'
<1>1. TypeOK'
  BY DEF IInv, CallUnlock, At, Goto, TypeOK, SchedTypeOK, schedVars, spinVars,
         mutexVars, localVars, PCs, Ticketed, SpinBody, Ops, Unlocks
<1>2. OpMatches'
  BY DEF IInv, CallUnlock, At, Goto, TypeOK, OpMatches, Unlocks, spinVars,
         mutexVars, localVars
<1>3. RunqExact'
  BY DEF IInv, CallUnlock, At, Goto, RunqExact, schedVars, Runnable
<1>4. TicketsContiguous'
  BY DEF IInv, CallUnlock, At, Goto, TypeOK, TicketsContiguous, InSpin, Ahead,
         Ticketed, SpinBody, spinVars, localVars
<1>5. SpinExclusion'
  BY DEF IInv, CallUnlock, At, Goto, TypeOK, SpinExclusion, Served, SpinBody,
         spinVars, mutexVars, localVars
<1>6. MutexExclusion'
  BY DEF IInv, CallUnlock, At, Goto, TypeOK, OpMatches, MutexExclusion, Has,
         Queued, Unlocks, mutexVars, localVars
<1>7. NoLostWaiter'
  BY DEF IInv, CallUnlock, At, Goto, TypeOK, NoLostWaiter, Queued, mutexVars,
         localVars, schedVars
<1>8. BlockedIsAsleep'
  BY DEF IInv, CallUnlock, At, Goto, TypeOK, BlockedIsAsleep, schedVars
<1>9. DecisionsHold'
  BY DEF IInv, CallUnlock, At, Goto, TypeOK, DecisionsHold, Queued, mutexVars
<1> QED BY <1>1, <1>2, <1>3, <1>4, <1>5, <1>6, <1>7, <1>8, <1>9 DEF IInv

LEMMA WakeKeeps ==
    ASSUME IInv, NEW t \in Threads, NEW u \in Threads, Wake(t, u)
    PROVE  IInv'
<1>a. SchedInv' /\ tstate' = [tstate EXCEPT ![u] = "RUNNABLE"] /\ pc[u] =
       "parked"
  BY SchedUnblockKeepsInv DEF IInv, TypeOK, SchedInv, Wake, SchedUnblock
<1>b. \A v \in Threads : tstate'[v] = IF v = u THEN "RUNNABLE" ELSE tstate[v]
  BY <1>a DEF IInv, TypeOK, SchedTypeOK, Procs
<1>1. TypeOK'
  BY <1>a DEF SchedInv, IInv, Wake, TypeOK, spinVars, mutexVars, localVars
<1>2. OpMatches'
  BY DEF IInv, Wake, At, Goto, TypeOK, OpMatches, Unlocks, spinVars, mutexVars,
         localVars
<1>3. RunqExact'
  BY <1>a DEF SchedInv
<1>4. TicketsContiguous'
  BY DEF IInv, Wake, At, Goto, TypeOK, TicketsContiguous, InSpin, Ahead,
         Ticketed, SpinBody, spinVars, localVars
<1>5. SpinExclusion'
  BY DEF IInv, Wake, At, Goto, TypeOK, SpinExclusion, Served, SpinBody,
         spinVars, mutexVars, localVars
<1>6. MutexExclusion'
  BY DEF IInv, Wake, At, Goto, TypeOK, OpMatches, MutexExclusion, Has, Queued,
         Unlocks, mutexVars, localVars
<1>7. NoLostWaiter'
  BY <1>a, <1>b DEF IInv, Wake, NoLostWaiter, Queued, mutexVars, localVars
<1>8. BlockedIsAsleep'
  BY <1>a, <1>b DEF IInv, Wake, BlockedIsAsleep
<1>9. DecisionsHold'
  BY DEF IInv, Wake, At, Goto, TypeOK, DecisionsHold, Queued, mutexVars
<1> QED BY <1>1, <1>2, <1>3, <1>4, <1>5, <1>6, <1>7, <1>8, <1>9 DEF IInv

LEMMA ResumeKeeps ==
    ASSUME IInv, NEW t \in Threads, Resume(t)
    PROVE  IInv'
<1>1. TypeOK'
  BY DEF IInv, Resume, At, Goto, TypeOK, SchedTypeOK, schedVars, spinVars,
         mutexVars, localVars, PCs, Ticketed, SpinBody, Ops, Unlocks
<1>2. OpMatches'
  BY DEF IInv, Resume, At, Goto, TypeOK, OpMatches, Unlocks, spinVars,
         mutexVars, localVars
<1>3. RunqExact'
  BY DEF IInv, Resume, At, Goto, RunqExact, schedVars, Runnable
<1>4. TicketsContiguous'
  BY DEF IInv, Resume, At, Goto, TypeOK, TicketsContiguous, InSpin, Ahead,
         Ticketed, SpinBody, spinVars, localVars
<1>5. SpinExclusion'
  BY DEF IInv, Resume, At, Goto, TypeOK, SpinExclusion, Served, SpinBody,
         spinVars, mutexVars, localVars
<1>6. MutexExclusion'
  BY DEF IInv, Resume, At, Goto, TypeOK, OpMatches, MutexExclusion, Has,
         Queued, Unlocks, mutexVars, localVars
<1>7. NoLostWaiter'
  BY DEF IInv, Resume, At, Goto, TypeOK, NoLostWaiter, Queued, mutexVars,
         localVars, schedVars
<1>8. BlockedIsAsleep'
  BY DEF IInv, Resume, At, Goto, TypeOK, BlockedIsAsleep, schedVars, RunqExact,
         Runnable
<1>9. DecisionsHold'
  BY DEF IInv, Resume, At, Goto, TypeOK, DecisionsHold, Queued, mutexVars
<1> QED BY <1>1, <1>2, <1>3, <1>4, <1>5, <1>6, <1>7, <1>8, <1>9 DEF IInv

-----------------------------------------------------------------------------
LEMMA SpinTicketKeeps ==
    ASSUME IInv, NEW t \in Threads, SpinTicket(t)
    PROVE  IInv'
<1>a. /\ pc[t] = "ticket" /\ t \notin InSpin
      /\ ticket' = Inc(ticket) /\ turn' = turn
      /\ myTurn' = [myTurn EXCEPT ![t] = ticket]
      /\ pc' = [pc EXCEPT ![t] = "test"]
  BY DEF SpinTicket, At, Goto, InSpin, Ticketed, SpinBody
<1>1. TypeOK'
  BY TicketAssumption DEF IInv, SpinTicket, At, Goto, TypeOK, SchedTypeOK,
         schedVars, spinVars, mutexVars, localVars, PCs, Ticketed, SpinBody,
         Ops, Unlocks, Inc, Tickets
<1>2. OpMatches'
  BY DEF IInv, SpinTicket, At, Goto, TypeOK, OpMatches, Unlocks, spinVars,
         mutexVars, localVars
<1>3. RunqExact'
  BY DEF IInv, SpinTicket, At, Goto, RunqExact, schedVars, Runnable
<1>4. TicketsContiguous'
  BY <1>a, TicketDrawn DEF IInv
<1>5. SpinExclusion'
  BY DEF IInv, SpinTicket, At, Goto, TypeOK, SpinExclusion, Served, SpinBody,
         spinVars, mutexVars, localVars
<1>6. MutexExclusion'
  BY DEF IInv, SpinTicket, At, Goto, TypeOK, OpMatches, MutexExclusion, Has,
         Queued, Unlocks, mutexVars, localVars
<1>7. NoLostWaiter'
  BY DEF IInv, SpinTicket, At, Goto, TypeOK, NoLostWaiter, Queued, mutexVars,
         localVars, schedVars
<1>8. BlockedIsAsleep'
  BY DEF IInv, SpinTicket, At, Goto, TypeOK, BlockedIsAsleep, schedVars
<1>9. DecisionsHold'
  BY DEF IInv, SpinTicket, At, Goto, TypeOK, DecisionsHold, Queued, mutexVars
<1> QED BY <1>1, <1>2, <1>3, <1>4, <1>5, <1>6, <1>7, <1>8, <1>9 DEF IInv

LEMMA SpinTestKeeps ==
    ASSUME IInv, NEW t \in Threads, SpinTest(t)
    PROVE  IInv'
<1>1. TypeOK'
  BY DEF IInv, SpinTest, At, Goto, TypeOK, SchedTypeOK, schedVars, spinVars,
         mutexVars, localVars, PCs, Ticketed, SpinBody, Ops, Unlocks
<1>2. OpMatches'
  BY DEF IInv, SpinTest, At, Goto, TypeOK, OpMatches, Unlocks, spinVars,
         mutexVars, localVars
<1>3. RunqExact'
  BY DEF IInv, SpinTest, At, Goto, RunqExact, schedVars, Runnable
<1>4. TicketsContiguous'
  BY DEF IInv, SpinTest, At, Goto, TypeOK, TicketsContiguous, InSpin, Ahead,
         Ticketed, SpinBody, spinVars, localVars
<1>5. SpinExclusion'
  BY DEF IInv, SpinTest, At, Goto, TypeOK, SpinExclusion, Served, SpinBody,
         spinVars, mutexVars, localVars, TicketsContiguous, InSpin, Ticketed
<1>6. MutexExclusion'
  BY DEF IInv, SpinTest, At, Goto, TypeOK, OpMatches, MutexExclusion, Has,
         Queued, Unlocks, mutexVars, localVars
<1>7. NoLostWaiter'
  BY DEF IInv, SpinTest, At, Goto, TypeOK, NoLostWaiter, Queued, mutexVars,
         localVars, schedVars
<1>8. BlockedIsAsleep'
  BY DEF IInv, SpinTest, At, Goto, TypeOK, BlockedIsAsleep, schedVars
<1>9. DecisionsHold'
  BY DEF IInv, SpinTest, At, Goto, TypeOK, DecisionsHold, Queued, mutexVars
<1> QED BY <1>1, <1>2, <1>3, <1>4, <1>5, <1>6, <1>7, <1>8, <1>9 DEF IInv

LEMMA SpinYieldKeeps ==
    ASSUME IInv, NEW t \in Threads, SpinYield(t)
    PROVE  IInv'
<1>a. SchedInv' /\ tstate' = tstate
  BY SchedFindKeepsInv DEF IInv, TypeOK, SchedInv, SpinYield
<1>1. TypeOK'
  BY <1>a DEF SchedInv, IInv, SpinYield, At, Goto, TypeOK, spinVars, mutexVars,
         PCs, Ticketed, SpinBody
<1>2. OpMatches'
  BY DEF IInv, SpinYield, At, Goto, TypeOK, OpMatches, Unlocks, spinVars,
         mutexVars, localVars
<1>3. RunqExact'
  BY <1>a DEF SchedInv
<1>4. TicketsContiguous'
  BY DEF IInv, SpinYield, At, Goto, TypeOK, TicketsContiguous, InSpin, Ahead,
         Ticketed, SpinBody, spinVars, localVars
<1>5. SpinExclusion'
  BY DEF IInv, SpinYield, At, Goto, TypeOK, SpinExclusion, Served, SpinBody,
         spinVars, mutexVars, localVars
<1>6. MutexExclusion'
  BY DEF IInv, SpinYield, At, Goto, TypeOK, OpMatches, MutexExclusion, Has,
         Queued, Unlocks, mutexVars, localVars
<1>7. NoLostWaiter'
  BY <1>a DEF IInv, SpinYield, At, Goto, TypeOK, NoLostWaiter, Queued,
         mutexVars, localVars, schedVars
<1>8. BlockedIsAsleep'
  BY <1>a DEF IInv, SpinYield, At, Goto, TypeOK, BlockedIsAsleep, schedVars
<1>9. DecisionsHold'
  BY DEF IInv, SpinYield, At, Goto, TypeOK, DecisionsHold, Queued, mutexVars
<1> QED BY <1>1, <1>2, <1>3, <1>4, <1>5, <1>6, <1>7, <1>8, <1>9 DEF IInv

LEMMA SpinOwnKeeps ==
    ASSUME IInv, NEW t \in Threads, SpinOwn(t)
    PROVE  IInv'
<1>1. TypeOK'
  BY DEF IInv, SpinOwn, At, Goto, TypeOK, SchedTypeOK, schedVars, spinVars,
         mutexVars, localVars, PCs, Ticketed, SpinBody, Ops, Unlocks
<1>2. OpMatches'
  BY DEF IInv, SpinOwn, At, Goto, TypeOK, OpMatches, Unlocks, spinVars,
         mutexVars, localVars
<1>3. RunqExact'
  BY DEF IInv, SpinOwn, At, Goto, RunqExact, schedVars, Runnable
<1>4. TicketsContiguous'
  BY DEF IInv, SpinOwn, At, Goto, TypeOK, TicketsContiguous, InSpin, Ahead,
         Ticketed, SpinBody, spinVars, localVars
<1>5. SpinExclusion'
  BY DEF IInv, SpinOwn, At, Goto, TypeOK, SpinExclusion, Served, SpinBody,
         spinVars, mutexVars, localVars
<1>6. MutexExclusion'
  BY DEF IInv, SpinOwn, At, Goto, TypeOK, OpMatches, MutexExclusion, Has,
         Queued, Unlocks, mutexVars, localVars
<1>7. NoLostWaiter'
  BY DEF IInv, SpinOwn, At, Goto, TypeOK, NoLostWaiter, Queued, mutexVars,
         localVars, schedVars
<1>8. BlockedIsAsleep'
  BY DEF IInv, SpinOwn, At, Goto, TypeOK, BlockedIsAsleep, schedVars
<1>9. DecisionsHold'
  BY DEF IInv, SpinOwn, At, Goto, TypeOK, DecisionsHold, Queued, mutexVars
<1> QED BY <1>1, <1>2, <1>3, <1>4, <1>5, <1>6, <1>7, <1>8, <1>9 DEF IInv

LEMMA SpinReleaseKeeps ==
    ASSUME IInv, NEW t \in Threads, SpinRelease(t)
    PROVE  IInv'
<1>1. TypeOK'
  BY DEF IInv, SpinRelease, At, Goto, TypeOK, SchedTypeOK, schedVars, spinVars,
         mutexVars, localVars, PCs, Ticketed, SpinBody, Ops, Unlocks
<1>2. OpMatches'
  BY DEF IInv, SpinRelease, At, Goto, TypeOK, OpMatches, Unlocks, spinVars,
         mutexVars, localVars
<1>3. RunqExact'
  BY DEF IInv, SpinRelease, At, Goto, RunqExact, schedVars, Runnable
<1>4. TicketsContiguous'
  BY DEF IInv, SpinRelease, At, Goto, TypeOK, TicketsContiguous, InSpin, Ahead,
         Ticketed, SpinBody, spinVars, localVars
<1>5. SpinExclusion'
  BY SchedAssumption DEF IInv, SpinRelease, At, Goto, TypeOK, SpinExclusion,
         Served, SpinBody, spinVars, mutexVars, localVars
<1>6. MutexExclusion'
  BY DEF IInv, SpinRelease, At, Goto, TypeOK, OpMatches, MutexExclusion, Has,
         Queued, Unlocks, mutexVars, localVars
<1>7. NoLostWaiter'
  BY DEF IInv, SpinRelease, At, Goto, TypeOK, NoLostWaiter, Queued, mutexVars,
         localVars, schedVars
<1>8. BlockedIsAsleep'
  BY DEF IInv, SpinRelease, At, Goto, TypeOK, BlockedIsAsleep, schedVars
<1>9. DecisionsHold'
  BY DEF IInv, SpinRelease, At, Goto, TypeOK, DecisionsHold, Queued, mutexVars
<1> QED BY <1>1, <1>2, <1>3, <1>4, <1>5, <1>6, <1>7, <1>8, <1>9 DEF IInv

LEMMA SpinAdvanceKeeps ==
    ASSUME IInv, NEW t \in Threads, SpinAdvance(t)
    PROVE  IInv'
<1>a. /\ pc[t] = "advance" /\ op[t] \in {"lock", "unlock"}
      /\ ticket' = ticket /\ turn' = Inc(turn) /\ myTurn' = myTurn
      /\ pc' = [pc EXCEPT ![t] = IF op[t] = "lock" THEN "crit" ELSE "out"]
  BY DEF IInv, SpinAdvance, At, Goto, OpMatches
<1>1. TypeOK'
  BY TicketAssumption DEF IInv, SpinAdvance, At, Goto, TypeOK, SchedTypeOK,
         schedVars, spinVars, mutexVars, localVars, PCs, Ticketed, SpinBody,
         Ops, Unlocks, Inc, Tickets
<1>2. OpMatches'
  BY DEF IInv, SpinAdvance, At, Goto, TypeOK, OpMatches, Unlocks, spinVars,
         mutexVars, localVars
<1>3. RunqExact'
  BY DEF IInv, SpinAdvance, At, Goto, RunqExact, schedVars, Runnable
<1>4. TicketsContiguous'
  BY <1>a, TurnAdvanced DEF IInv, Ticketed, SpinBody
<1>5. SpinExclusion'
  BY <1>a DEF IInv, SpinAdvance, TypeOK, SpinExclusion, Served, SpinBody
<1>6. MutexExclusion'
  BY DEF IInv, SpinAdvance, At, Goto, TypeOK, OpMatches, MutexExclusion, Has,
         Queued, Unlocks, mutexVars, localVars
<1>7. NoLostWaiter'
  BY DEF IInv, SpinAdvance, At, Goto, TypeOK, NoLostWaiter, Queued, mutexVars,
         localVars, schedVars
<1>8. BlockedIsAsleep'
  BY DEF IInv, SpinAdvance, At, Goto, TypeOK, BlockedIsAsleep, schedVars
<1>9. DecisionsHold'
  BY DEF IInv, SpinAdvance, At, Goto, TypeOK, DecisionsHold, Queued, mutexVars
<1> QED BY <1>1, <1>2, <1>3, <1>4, <1>5, <1>6, <1>7, <1>8, <1>9 DEF IInv

LEMMA SpinUnlockAndBlockKeeps ==
    ASSUME IInv, NEW t \in Threads, SpinUnlockAndBlock(t)
    PROVE  IInv'
<1> DEFINE l == IF op[t] = "lock" THEN "waiting" ELSE "parked"
<1>a. /\ pc[t] = "park" /\ op[t] \in {"lock", "unlock_block"}
      /\ ticket' = ticket /\ turn' = Inc(turn) /\ spOwner' = None
      /\ myTurn' = myTurn /\ op' = op /\ seen' = seen
      /\ mstate' = mstate /\ mowner' = mowner /\ mqueue' = mqueue
      /\ pc' = [pc EXCEPT ![t] = l]
      /\ l \in {"waiting", "parked"}
  BY DEF IInv, SpinUnlockAndBlock, SpinUnlock, At, Goto, OpMatches, mutexVars,
         localVars
<1>b. tstate[t] = "RUNNABLE" /\ SchedBlock(t)
  BY DEF IInv, SpinUnlockAndBlock, At, RunqExact, Runnable
<1>c. SchedInv'
  BY <1>b, SchedBlockKeepsInv DEF IInv, TypeOK, SchedInv
<1>d. tstate' = [tstate EXCEPT ![t] = "BLOCKED"] /\ tstate \in [Procs ->
       ThreadStates]
  BY <1>b DEF SchedBlock, IInv, TypeOK, SchedTypeOK
<1>e. \A u \in Threads : u # t => pc[u] \notin SpinBody /\ ~Served(u)
  BY <1>a DEF IInv, SpinExclusion, Served, SpinBody
<1>f. \A u \in Threads : Queued(u)' <=> Queued(u)
  BY <1>a DEF Queued
<1>g. op[t] = "lock" <=> Queued(t)
  BY <1>a DEF IInv, NoLostWaiter
<1>h. t \in Procs
  BY DEF Procs
<1>1. TypeOK'
  BY <1>a, <1>c, TicketAssumption DEF SchedInv, IInv, TypeOK, Inc, Tickets, PCs
<1>2. OpMatches'
  BY <1>a DEF IInv, TypeOK, OpMatches, Unlocks
<1>3. RunqExact'
  BY <1>c DEF SchedInv
<1>4. TicketsContiguous'
  BY <1>a, TurnAdvanced DEF IInv, Ticketed, SpinBody
<1>5. SpinExclusion'
  BY <1>a, <1>e, SchedAssumption
  DEF IInv, TypeOK, SpinExclusion, Served, SpinBody
<1>6. MutexExclusion'
  BY <1>a, <1>f, <1>g DEF IInv, TypeOK, MutexExclusion, Has, Unlocks
<1>7. NoLostWaiter'
  <2>1. \A u \in Threads : pc'[u] # "handoff" /\ pc[u] # "handoff" /\ pc'[u] #
         "park"
    BY <1>a, <1>e DEF IInv, TypeOK, SpinBody
  <2>2. \A u \in Threads : u # t => pc'[u] = pc[u] /\ tstate'[u] = tstate[u]
    BY <1>a, <1>d DEF IInv, TypeOK, Procs
  <2>3. pc'[t] = l /\ tstate'[t] = "BLOCKED"
    BY <1>a, <1>d, <1>h DEF IInv, TypeOK
  <2>4. \A u \in Threads : pc'[u] = "waiting" /\ ~Queued(u)' => tstate'[u] #
         "BLOCKED"
    BY <1>f, <1>g, <2>1, <2>2, <2>3 DEF IInv, NoLostWaiter
  <2> QED BY <1>a, <1>f, <1>g, <2>1, <2>2, <2>3, <2>4 DEF IInv, NoLostWaiter
<1>8. BlockedIsAsleep'
  BY <1>a, <1>d DEF IInv, TypeOK, BlockedIsAsleep, Procs
<1>9. DecisionsHold'
  BY <1>a, <1>e, <1>f DEF IInv, TypeOK, DecisionsHold, SpinBody
<1> QED BY <1>1, <1>2, <1>3, <1>4, <1>5, <1>6, <1>7, <1>8, <1>9 DEF IInv

-----------------------------------------------------------------------------
LEMMA LockEnterKeeps ==
    ASSUME IInv, NEW t \in Threads, LockEnter(t)
    PROVE  IInv'
<1>1. TypeOK'
  BY DEF IInv, LockEnter, At, Goto, TypeOK, SchedTypeOK, schedVars, spinVars,
         mutexVars, localVars, PCs, Ticketed, SpinBody, Ops, Unlocks
<1>2. OpMatches'
  BY DEF IInv, LockEnter, At, Goto, TypeOK, OpMatches, Unlocks, spinVars,
         mutexVars, localVars
<1>3. RunqExact'
  BY DEF IInv, LockEnter, At, Goto, RunqExact, schedVars, Runnable
<1>4. TicketsContiguous'
  BY DEF IInv, LockEnter, At, Goto, TypeOK, TicketsContiguous, InSpin, Ahead,
         Ticketed, SpinBody, spinVars, localVars
<1>5. SpinExclusion'
  BY DEF IInv, LockEnter, At, Goto, TypeOK, SpinExclusion, Served, SpinBody,
         spinVars, mutexVars, localVars
<1>6. MutexExclusion'
  BY DEF IInv, LockEnter, At, Goto, TypeOK, OpMatches, MutexExclusion, Has,
         Queued, Unlocks, mutexVars, localVars
<1>7. NoLostWaiter'
  BY DEF IInv, LockEnter, At, Goto, TypeOK, NoLostWaiter, Queued, mutexVars,
         localVars, schedVars
<1>8. BlockedIsAsleep'
  BY DEF IInv, LockEnter, At, Goto, TypeOK, BlockedIsAsleep, schedVars
<1>9. DecisionsHold'
  BY DEF IInv, LockEnter, At, Goto, TypeOK, DecisionsHold, Queued, mutexVars
<1> QED BY <1>1, <1>2, <1>3, <1>4, <1>5, <1>6, <1>7, <1>8, <1>9 DEF IInv

LEMMA LockEnqueueKeeps ==
    ASSUME IInv, NEW t \in Threads, LockEnqueue(t)
    PROVE  IInv'
<1>a. /\ mqueue \in Seq(Threads) /\ NoDuplicates(mqueue) /\ ~Queued(t)
      /\ pc[t] = "enqueue" /\ op[t] = "lock" /\ mstate = "LOCKED"
      /\ pc' = [pc EXCEPT ![t] = "park"] /\ mqueue' = Append(mqueue, t)
  BY DEF IInv, LockEnqueue, At, Goto, TypeOK, OpMatches, NoLostWaiter,
         DecisionsHold
<1>b. /\ NoDuplicates(mqueue')
      /\ \A u \in Threads : Queued(u)' <=> Queued(u) \/ u = t
  BY <1>a, AppendQueued
<1>1. TypeOK'
  BY DEF IInv, LockEnqueue, At, Goto, TypeOK, SchedTypeOK, schedVars, spinVars,
         mutexVars, localVars, PCs, Ticketed, SpinBody, Ops, Unlocks
<1>2. OpMatches'
  BY DEF IInv, LockEnqueue, At, Goto, TypeOK, OpMatches, Unlocks, spinVars,
         mutexVars, localVars
<1>3. RunqExact'
  BY DEF IInv, LockEnqueue, At, Goto, RunqExact, schedVars, Runnable
<1>4. TicketsContiguous'
  BY DEF IInv, LockEnqueue, At, Goto, TypeOK, TicketsContiguous, InSpin, Ahead,
         Ticketed, SpinBody, spinVars, localVars
<1>5. SpinExclusion'
  BY DEF IInv, LockEnqueue, At, Goto, TypeOK, SpinExclusion, Served, SpinBody,
         spinVars, mutexVars, localVars
<1>6. MutexExclusion'
  BY <1>a, <1>b
  DEF IInv, LockEnqueue, TypeOK, MutexExclusion, Has, Unlocks, localVars
<1>7. NoLostWaiter'
  BY <1>a, <1>b
  DEF IInv, LockEnqueue, TypeOK, NoLostWaiter, localVars, schedVars
<1>8. BlockedIsAsleep'
  BY DEF IInv, LockEnqueue, At, Goto, TypeOK, BlockedIsAsleep, schedVars
<1>9. DecisionsHold'
  BY <1>a, <1>b DEF IInv, LockEnqueue, TypeOK, DecisionsHold, SpinExclusion,
         Served, SpinBody
<1> QED BY <1>1, <1>2, <1>3, <1>4, <1>5, <1>6, <1>7, <1>8, <1>9 DEF IInv

LEMMA LockTakeKeeps ==
    ASSUME IInv, NEW t \in Threads, LockTake(t)
    PROVE  IInv'
<1>1. TypeOK'
  BY DEF IInv, LockTake, At, Goto, TypeOK, SchedTypeOK, schedVars, spinVars,
         mutexVars, localVars, PCs, Ticketed, SpinBody, Ops, Unlocks
<1>2. OpMatches'
  BY DEF IInv, LockTake, At, Goto, TypeOK, OpMatches, Unlocks, spinVars,
         mutexVars, localVars
<1>3. RunqExact'
  BY DEF IInv, LockTake, At, Goto, RunqExact, schedVars, Runnable
<1>4. TicketsContiguous'
  BY DEF IInv, LockTake, At, Goto, TypeOK, TicketsContiguous, InSpin, Ahead,
         Ticketed, SpinBody, spinVars, localVars
<1>5. SpinExclusion'
  BY DEF IInv, LockTake, At, Goto, TypeOK, SpinExclusion, Served, SpinBody,
         spinVars, mutexVars, localVars
<1>6. MutexExclusion'
  <2>1. pc[t] = "take" /\ op[t] = "lock" /\ mowner = None
    BY SchedAssumption
    DEF IInv, LockTake, At, TypeOK, OpMatches, MutexExclusion, DecisionsHold
  <2>2. \A u \in Threads : ~Has(u)
    BY <2>1, SchedAssumption DEF IInv, MutexExclusion
  <2>3. \A u \in Threads : Has(u)' <=> u = t
    BY <2>1, <2>2
    DEF IInv, LockTake, Goto, TypeOK, Has, Queued, Unlocks, localVars
  <2> QED BY <2>3, SchedAssumption DEF LockTake, MutexExclusion
<1>7. NoLostWaiter'
  BY DEF IInv, LockTake, At, Goto, TypeOK, NoLostWaiter, Queued, mutexVars,
         localVars, schedVars
<1>8. BlockedIsAsleep'
  BY DEF IInv, LockTake, At, Goto, TypeOK, BlockedIsAsleep, schedVars
<1>9. DecisionsHold'
  BY DEF IInv, LockTake, At, Goto, TypeOK, DecisionsHold, Queued,
         SpinExclusion, Served, SpinBody
<1> QED BY <1>1, <1>2, <1>3, <1>4, <1>5, <1>6, <1>7, <1>8, <1>9 DEF IInv

LEMMA LockReturnKeeps ==
    ASSUME IInv, NEW t \in Threads, LockReturn(t)
    PROVE  IInv'
<1>a. /\ pc[t] = "waiting" /\ op[t] = "lock" /\ tstate[t] = "RUNNABLE"
      /\ pc' = [pc EXCEPT ![t] = "crit"] /\ op' = [op EXCEPT ![t] = "none"]
  BY DEF IInv, LockReturn, At, Goto, OpMatches, RunqExact, Runnable
<1>b. ~Queued(t) /\ \A u \in Threads : pc[u] # "handoff"
  BY <1>a DEF IInv, NoLostWaiter
<1>c. \A u \in Threads : Queued(u)' <=> Queued(u)
  BY DEF LockReturn, mutexVars, Queued
<1>1. TypeOK'
  BY DEF IInv, LockReturn, At, Goto, TypeOK, SchedTypeOK, schedVars, spinVars,
         mutexVars, localVars, PCs, Ticketed, SpinBody, Ops, Unlocks
<1>2. OpMatches'
  BY DEF IInv, LockReturn, At, Goto, TypeOK, OpMatches, Unlocks, spinVars,
         mutexVars, localVars
<1>3. RunqExact'
  BY DEF IInv, LockReturn, At, Goto, RunqExact, schedVars, Runnable
<1>4. TicketsContiguous'
  BY DEF IInv, LockReturn, At, Goto, TypeOK, TicketsContiguous, InSpin, Ahead,
         Ticketed, SpinBody, spinVars, localVars
<1>5. SpinExclusion'
  BY DEF IInv, LockReturn, At, Goto, TypeOK, SpinExclusion, Served, SpinBody,
         spinVars, mutexVars, localVars
<1>6. MutexExclusion'
  BY <1>a, <1>b, <1>c
  DEF IInv, LockReturn, TypeOK, MutexExclusion, Has, Unlocks, mutexVars
<1>7. NoLostWaiter'
  BY <1>a, <1>b, <1>c
  DEF IInv, LockReturn, TypeOK, NoLostWaiter, mutexVars, schedVars
<1>8. BlockedIsAsleep'
  BY <1>a DEF IInv, LockReturn, TypeOK, BlockedIsAsleep, schedVars
<1>9. DecisionsHold'
  BY <1>a, <1>b, <1>c DEF IInv, LockReturn, TypeOK, DecisionsHold, mutexVars
<1> QED BY <1>1, <1>2, <1>3, <1>4, <1>5, <1>6, <1>7, <1>8, <1>9 DEF IInv

-----------------------------------------------------------------------------
LEMMA UnlockEnterKeeps ==
    ASSUME IInv, NEW t \in Threads, UnlockEnter(t)
    PROVE  IInv'
<1>1. TypeOK'
  BY DEF IInv, UnlockEnter, At, Goto, TypeOK, SchedTypeOK, schedVars, spinVars,
         mutexVars, localVars, PCs, Ticketed, SpinBody, Ops, Unlocks
<1>2. OpMatches'
  BY DEF IInv, UnlockEnter, At, Goto, TypeOK, OpMatches, Unlocks, spinVars,
         mutexVars, localVars
<1>3. RunqExact'
  BY DEF IInv, UnlockEnter, At, Goto, RunqExact, schedVars, Runnable
<1>4. TicketsContiguous'
  BY DEF IInv, UnlockEnter, At, Goto, TypeOK, TicketsContiguous, InSpin, Ahead,
         Ticketed, SpinBody, spinVars, localVars
<1>5. SpinExclusion'
  BY DEF IInv, UnlockEnter, At, Goto, TypeOK, SpinExclusion, Served, SpinBody,
         spinVars, mutexVars, localVars
<1>6. MutexExclusion'
  BY DEF IInv, UnlockEnter, At, Goto, TypeOK, OpMatches, MutexExclusion, Has,
         Queued, Unlocks, mutexVars, localVars
<1>7. NoLostWaiter'
  BY DEF IInv, UnlockEnter, At, Goto, TypeOK, NoLostWaiter, Queued, mutexVars,
         localVars, schedVars
<1>8. BlockedIsAsleep'
  BY DEF IInv, UnlockEnter, At, Goto, TypeOK, BlockedIsAsleep, schedVars
<1>9. DecisionsHold'
  BY DEF IInv, UnlockEnter, At, Goto, TypeOK, DecisionsHold, Queued, mutexVars
<1> QED BY <1>1, <1>2, <1>3, <1>4, <1>5, <1>6, <1>7, <1>8, <1>9 DEF IInv

LEMMA UnlockDequeueKeeps ==
    ASSUME IInv, NEW t \in Threads, UnlockDequeue(t)
    PROVE  IInv'
<1> DEFINE h == Head(mqueue)
<1>a. /\ mqueue \in Seq(Threads) /\ mqueue # <<>> /\ NoDuplicates(mqueue)
      /\ pc[t] = "dequeue" /\ op[t] \in Unlocks
      /\ pc' = [pc EXCEPT ![t] = "handoff"] /\ mqueue' = Tail(mqueue)
      /\ mowner' = h
  BY DEF IInv, UnlockDequeue, At, Goto, TypeOK, OpMatches, NoLostWaiter,
         DecisionsHold
<1>b. /\ h \in Threads /\ Queued(h)
      /\ mqueue' \in Seq(Threads) /\ NoDuplicates(mqueue')
      /\ \A u \in Threads : Queued(u)' <=> Queued(u) /\ u # h
  BY <1>a, TailQueued
<1> HIDE DEF h
<1>c. /\ mstate = "LOCKED" /\ op[h] = "lock"
      /\ \A u \in Threads : pc[u] \in SpinBody => u = t
  BY <1>a, <1>b DEF IInv, NoLostWaiter, SpinExclusion, Served, SpinBody
<1>d. pc[h] = "waiting" /\ tstate[h] = "BLOCKED" /\ h # t
  BY <1>a, <1>b, <1>c DEF IInv, NoLostWaiter, SpinBody
<1>e. Has(t) /\ mowner = t
  BY <1>a DEF IInv, MutexExclusion, Has
<1>f. \A u \in Threads : u # t => ~Has(u)
  BY <1>e DEF IInv, MutexExclusion
<1>1. TypeOK'
  BY <1>a, <1>b DEF IInv, UnlockDequeue, TypeOK, SchedTypeOK, schedVars,
         spinVars, localVars, PCs, Ticketed, SpinBody
<1>2. OpMatches'
  BY DEF IInv, UnlockDequeue, At, Goto, TypeOK, OpMatches, Unlocks, spinVars,
         mutexVars, localVars
<1>3. RunqExact'
  BY DEF IInv, UnlockDequeue, At, Goto, RunqExact, schedVars, Runnable
<1>4. TicketsContiguous'
  BY DEF IInv, UnlockDequeue, At, Goto, TypeOK, TicketsContiguous, InSpin,
         Ahead, Ticketed, SpinBody, spinVars, localVars
<1>5. SpinExclusion'
  BY DEF IInv, UnlockDequeue, At, Goto, TypeOK, SpinExclusion, Served,
         SpinBody, spinVars, mutexVars, localVars
<1>6. MutexExclusion'
  <2>1. \A u \in Threads : Has(u)' <=> u = h
    BY <1>a, <1>b, <1>c, <1>d, <1>f
    DEF IInv, UnlockDequeue, TypeOK, Has, Unlocks, localVars
  <2> QED BY <1>a, <1>b, <1>c, <2>1, SchedAssumption
  DEF UnlockDequeue, MutexExclusion
<1>7. NoLostWaiter'
  <2>1. \E u \in Threads : pc'[u] = "handoff"
    BY <1>a DEF IInv, TypeOK
  <2>2. \A u \in Threads : pc[u] = "waiting" /\ ~Queued(u) => u = h
    BY <1>a, <1>d, <1>f DEF Has
  <2>3. /\ mstate' = mstate /\ tstate' = tstate /\ op' = op
        /\ \A u \in Threads : pc'[u] = IF u = t THEN "handoff" ELSE pc[u]
    BY <1>a DEF IInv, UnlockDequeue, TypeOK, schedVars, localVars
  <2>4. \A u \in Threads : Queued(u)' =>
          mstate' = "LOCKED" /\ op'[u] = "lock"
          /\ (pc'[u] = "park" \/ (pc'[u] = "waiting" /\ tstate'[u] =
                 "BLOCKED"))
    BY <1>a, <1>b, <2>3 DEF IInv, NoLostWaiter
  <2>5. \A u \in Threads : pc'[u] = "park" /\ op'[u] = "lock" => Queued(u)'
    BY <1>b, <1>d, <2>3 DEF IInv, NoLostWaiter
  <2>6. \A u \in Threads : pc'[u] = "waiting" /\ ~Queued(u)' => u = h
    BY <1>a, <1>b, <2>2, <2>3
  <2> QED BY <1>b, <1>d, <2>1, <2>3, <2>4, <2>5, <2>6 DEF NoLostWaiter
<1>8. BlockedIsAsleep'
  BY DEF IInv, UnlockDequeue, At, Goto, TypeOK, BlockedIsAsleep, schedVars
<1>9. DecisionsHold'
  <2>1. \A u \in Threads : u # t => pc'[u] \notin SpinBody
    BY <1>a, <1>c DEF IInv, TypeOK
  <2> QED BY <1>a, <1>b, <1>d, <2>1 DEF IInv, TypeOK, DecisionsHold, SpinBody
<1> QED BY <1>1, <1>2, <1>3, <1>4, <1>5, <1>6, <1>7, <1>8, <1>9 DEF IInv

LEMMA UnlockHandOffKeeps ==
    ASSUME IInv, NEW t \in Threads, UnlockHandOff(t)
    PROVE  IInv'
<1> DEFINE h == mowner
           l == IF op[t] = "unlock" THEN "out" ELSE "parked"
<1>a. /\ pc[t] = "handoff" /\ op[t] \in Unlocks
      /\ h \in Threads /\ pc[h] = "waiting" /\ ~Queued(h) /\ h # t
      /\ tstate[h] = "BLOCKED" /\ tstate[t] = "RUNNABLE"
  BY DEF IInv, UnlockHandOff, At, OpMatches, DecisionsHold, NoLostWaiter,
         RunqExact, Runnable
<1>b. /\ ticket' = ticket /\ turn' = Inc(turn) /\ spOwner' = None
      /\ myTurn' = myTurn /\ seen' = seen
      /\ mstate' = mstate /\ mowner' = mowner /\ mqueue' = mqueue
      /\ pc' = [pc EXCEPT ![t] = l]
      /\ op' = [op EXCEPT ![t] = IF op[t] = "unlock" THEN "none" ELSE op[t]]
  BY <1>a DEF IInv, TypeOK, UnlockHandOff, SpinUnlock, Goto, mutexVars, Unlocks
<1>c. /\ SchedInv'
      /\ \/ tstate' = [tstate EXCEPT ![h] = "RUNNABLE"]
         \/ /\ l = "parked"
            /\ tstate' = [tstate EXCEPT ![t] = "BLOCKED", ![h] = "RUNNABLE"]
  <2>1. CASE op[t] = "unlock"
    <3>1. SchedUnblock(h)
      BY <2>1 DEF UnlockHandOff
    <3>2. SchedInv'
      BY <1>a, <3>1, SchedUnblockKeepsInv DEF IInv, TypeOK, SchedInv
    <3>3. tstate' = [tstate EXCEPT ![h] = "RUNNABLE"]
      BY <3>1 DEF SchedUnblock
    <3> QED BY <3>2, <3>3
  <2>2. CASE op[t] = "unlock_block"
    <3>1. SchedSwap(t, h)
      BY <2>2 DEF UnlockHandOff
    <3>2. SchedInv'
      BY <1>a, <3>1, SchedSwapKeepsInv DEF IInv, TypeOK, SchedInv
    <3> QED BY <2>2, <3>1, <3>2 DEF SchedSwap
  <2> QED BY <1>a, <2>1, <2>2 DEF Unlocks
<1>d. \A u \in Threads : u # t => pc[u] \notin SpinBody /\ ~Served(u)
  BY <1>a DEF IInv, SpinExclusion, Served, SpinBody
<1>e. \A u \in Threads : Queued(u)' <=> Queued(u)
  BY <1>b DEF Queued
<1>f. /\ \A u \in Threads : u # t => pc'[u] = pc[u] /\ op'[u] = op[u]
      /\ pc'[t] = l
  BY <1>b DEF IInv, TypeOK
<1>g. /\ \A u \in Threads : u \notin {t, h} => tstate'[u] = tstate[u]
      /\ tstate'[h] = "RUNNABLE"
      /\ tstate'[t] = "RUNNABLE" \/ (tstate'[t] = "BLOCKED" /\ l = "parked")
  BY <1>a, <1>c DEF IInv, TypeOK, SchedTypeOK, Procs
<1>h. \A u \in Threads : u # h => ~Has(u)
  BY DEF IInv, MutexExclusion
<1>1. TypeOK'
  BY <1>a, <1>b, <1>c, TicketAssumption
  DEF SchedInv, IInv, TypeOK, Inc, Tickets, PCs, Ops, Unlocks
<1>2. OpMatches'
  BY <1>a, <1>b DEF IInv, TypeOK, OpMatches, Unlocks
<1>3. RunqExact'
  BY <1>c DEF SchedInv
<1>4. TicketsContiguous'
  BY <1>a, <1>b, TurnAdvanced DEF IInv, Ticketed, SpinBody
<1>5. SpinExclusion'
  BY <1>b, <1>d, <1>f, SchedAssumption DEF SpinExclusion, Served, SpinBody
<1>6. MutexExclusion'
  <2>1. \A u \in Threads : u # t => (Has(u)' <=> Has(u))
    BY <1>e, <1>f DEF Has
  <2>2. ~Has(t)'
    BY <1>b, <1>f DEF Has, IInv, TypeOK
  <2> QED BY <1>a, <1>b, <1>h, <2>1, <2>2 DEF IInv, MutexExclusion
<1>7. NoLostWaiter'
  <2>1. \A u \in Threads : pc'[u] # "handoff" /\ pc'[u] # "park"
    BY <1>d, <1>f DEF SpinBody
  <2>2. \A u \in Threads : pc'[u] = "waiting" /\ ~Queued(u)' => u = h
    BY <1>e, <1>f, <1>h DEF Has
  <2>3. ~Queued(t)
    BY <1>a DEF IInv, NoLostWaiter
  <2> QED BY <1>a, <1>b, <1>e, <1>f, <1>g, <2>1, <2>2, <2>3
  DEF IInv, NoLostWaiter
<1>8. BlockedIsAsleep'
  BY <1>f, <1>g DEF IInv, BlockedIsAsleep
<1>9. DecisionsHold'
  BY <1>d, <1>f DEF DecisionsHold, SpinBody
<1> QED BY <1>1, <1>2, <1>3, <1>4, <1>5, <1>6, <1>7, <1>8, <1>9 DEF IInv

LEMMA UnlockFreeKeeps ==
    ASSUME IInv, NEW t \in Threads, UnlockFree(t)
    PROVE  IInv'
<1>a. /\ pc[t] = "free" /\ op[t] \in Unlocks /\ mqueue = <<>>
      /\ pc' = [pc EXCEPT ![t] = IF op[t] = "unlock" THEN "release" ELSE
             "park"]
      /\ op' = op /\ mqueue' = mqueue /\ tstate' = tstate
      /\ mowner' = None /\ mstate' = "UNLOCKED"
  BY DEF IInv, UnlockFree, At, Goto, OpMatches, DecisionsHold, schedVars,
         localVars
<1>b. \A u \in Threads : ~Queued(u) /\ ~Queued(u)'
  BY <1>a DEF Queued
<1>c. \A u \in Threads : u # t => ~Has(u) /\ pc[u] \notin SpinBody
  BY <1>a DEF IInv, MutexExclusion, Has, SpinExclusion, Served, SpinBody
<1>1. TypeOK'
  BY DEF IInv, UnlockFree, At, Goto, TypeOK, SchedTypeOK, schedVars, spinVars,
         mutexVars, localVars, PCs, Ticketed, SpinBody, Ops, Unlocks
<1>2. OpMatches'
  BY DEF IInv, UnlockFree, At, Goto, TypeOK, OpMatches, Unlocks, spinVars,
         mutexVars, localVars
<1>3. RunqExact'
  BY DEF IInv, UnlockFree, At, Goto, RunqExact, schedVars, Runnable
<1>4. TicketsContiguous'
  BY DEF IInv, UnlockFree, At, Goto, TypeOK, TicketsContiguous, InSpin, Ahead,
         Ticketed, SpinBody, spinVars, localVars
<1>5. SpinExclusion'
  BY DEF IInv, UnlockFree, At, Goto, TypeOK, SpinExclusion, Served, SpinBody,
         spinVars, mutexVars, localVars
<1>6. MutexExclusion'
  <2>1. \A u \in Threads : ~Has(u)'
    BY <1>a, <1>b, <1>c DEF IInv, TypeOK, Has, Unlocks
  <2> QED BY <1>a, <2>1, SchedAssumption DEF MutexExclusion
<1>7. NoLostWaiter'
  <2>1. NoDuplicates(mqueue')
    BY <1>a DEF NoDuplicates
  <2>2. \A u \in Threads : pc'[u] # "waiting" /\ ~(pc'[u] = "park" /\ op'[u] =
         "lock")
    BY <1>a, <1>b, <1>c DEF IInv, TypeOK, Has, Unlocks, SpinBody
  <2> QED BY <1>b, <2>1, <2>2 DEF NoLostWaiter
<1>8. BlockedIsAsleep'
  BY DEF IInv, UnlockFree, At, Goto, TypeOK, BlockedIsAsleep, schedVars
<1>9. DecisionsHold'
  BY <1>a, <1>c DEF IInv, TypeOK, DecisionsHold, SpinBody, Unlocks
<1> QED BY <1>1, <1>2, <1>3, <1>4, <1>5, <1>6, <1>7, <1>8, <1>9 DEF IInv

-----------------------------------------------------------------------------
LEMMA TickKeeps ==
    ASSUME IInv, Tick
    PROVE  IInv'
<1>a. SchedInv' /\ tstate' = tstate
  BY ScheduleKeepsInv DEF IInv, TypeOK, SchedInv, Tick, Schedule
<1>1. TypeOK'
  BY <1>a DEF SchedInv, IInv, Tick, TypeOK, spinVars, mutexVars, localVars
<1>2. OpMatches'
  BY DEF IInv, Tick, At, Goto, TypeOK, OpMatches, Unlocks, spinVars, mutexVars,
         localVars
<1>3. RunqExact'
  BY <1>a DEF SchedInv
<1>4. TicketsContiguous'
  BY DEF IInv, Tick, At, Goto, TypeOK, TicketsContiguous, InSpin, Ahead,
         Ticketed, SpinBody, spinVars, localVars
<1>5. SpinExclusion'
  BY DEF IInv, Tick, At, Goto, TypeOK, SpinExclusion, Served, SpinBody,
         spinVars, mutexVars, localVars
<1>6. MutexExclusion'
  BY DEF IInv, Tick, At, Goto, TypeOK, OpMatches, MutexExclusion, Has, Queued,
         Unlocks, mutexVars, localVars
<1>7. NoLostWaiter'
  BY <1>a DEF IInv, Tick, At, Goto, TypeOK, NoLostWaiter, Queued, mutexVars,
         localVars, schedVars
<1>8. BlockedIsAsleep'
  BY <1>a DEF IInv, Tick, At, Goto, TypeOK, BlockedIsAsleep, schedVars
<1>9. DecisionsHold'
  BY DEF IInv, Tick, At, Goto, TypeOK, DecisionsHold, Queued, mutexVars
<1> QED BY <1>1, <1>2, <1>3, <1>4, <1>5, <1>6, <1>7, <1>8, <1>9 DEF IInv

-----------------------------------------------------------------------------
(* The initial state *)

LEMMA InitIInv ==
    ASSUME Init
    PROVE  IInv
<1>1. PICK s \in SetToSeqs(Threads) : runq = Append(s, Idle)
  BY DEF Init
<1>2. Cardinality(Threads) \in Nat
  BY SchedAssumption, FS_CardinalityType
<1>3. IsQueue(runq) /\ ToSet(runq) = Procs
  BY <1>1, QueueOfAll
<1>4. TypeOK
  <2>1. SchedTypeOK
    BY <1>3 DEF Init, SchedTypeOK, IsQueue, Procs, ThreadStates
  <2>2. 0 \in Tickets
    BY <1>2, TicketAssumption DEF Tickets
  <2>3. mqueue \in Seq(Threads)
    BY DEF Init
  <2>4. pc \in [Threads -> PCs] /\ op \in [Threads -> Ops]
    BY DEF Init, PCs, Ops
  <2> QED BY <2>1, <2>2, <2>3, <2>4 DEF Init, TypeOK
<1>5. RunqExact
  BY <1>3 DEF Init, RunqExact, IsQueue, Runnable, Procs
<1>6. OpMatches
  BY DEF Init, OpMatches
<1>7. TicketsContiguous
  <2>1. InSpin = {}
    BY DEF Init, InSpin, Ticketed, SpinBody
  <2>2. \A v \in Tickets : ~(Ahead(v) < Ahead(ticket))
    BY TicketAssumption DEF Init, Ahead, Tickets
  <2> QED BY <2>1, <2>2 DEF TicketsContiguous
<1>8. SpinExclusion
  BY SchedAssumption DEF Init, SpinExclusion, Served, SpinBody
<1>9. \A t \in Threads : ~Queued(t)
  BY DEF Init, Queued
<1>10. MutexExclusion
  BY SchedAssumption DEF Init, MutexExclusion, Has, Unlocks
<1>11. NoLostWaiter
  BY <1>9 DEF Init, NoLostWaiter, NoDuplicates
<1>12. BlockedIsAsleep /\ DecisionsHold
  BY DEF Init, BlockedIsAsleep, DecisionsHold, Procs
<1> QED BY <1>4, <1>5, <1>6, <1>7, <1>8, <1>10, <1>11, <1>12 DEF IInv

LEMMA NextKeeps ==
    ASSUME IInv, [Next]_vars
    PROVE  IInv'
<1>1. CASE Tick
  BY <1>1, TickKeeps
<1>2. ASSUME NEW t \in Threads, SpinStep(t) PROVE IInv'
  BY <1>2, SpinTicketKeeps, SpinTestKeeps, SpinYieldKeeps, SpinOwnKeeps,
     SpinReleaseKeeps, SpinAdvanceKeeps, SpinUnlockAndBlockKeeps
  DEF SpinStep
<1>3. ASSUME NEW t \in Threads, LockStep(t) PROVE IInv'
  BY <1>3, LockEnterKeeps, LockEnqueueKeeps, LockTakeKeeps, LockReturnKeeps
  DEF LockStep
<1>4. ASSUME NEW t \in Threads, UnlockStep(t) PROVE IInv'
  BY <1>4, UnlockEnterKeeps, UnlockDequeueKeeps, UnlockHandOffKeeps,
     UnlockFreeKeeps
  DEF UnlockStep
<1>5. ASSUME NEW t \in Threads, CallerStep(t) PROVE IInv'
  BY <1>5, CallLockKeeps, CallUnlockKeeps, WakeKeeps, ResumeKeeps
  DEF CallerStep
<1>6. CASE UNCHANGED vars
  BY <1>6
  DEF vars, schedVars, spinVars, mutexVars, localVars, IInv, TypeOK,
      SchedTypeOK, OpMatches, RunqExact, Runnable, TicketsContiguous, InSpin,
      Ahead, SpinExclusion, Served, MutexExclusion, Has, Queued,
      NoLostWaiter, BlockedIsAsleep, DecisionsHold
<1> QED BY <1>1, <1>2, <1>3, <1>4, <1>5, <1>6 DEF Next, Step

-----------------------------------------------------------------------------
(* The theorems *)

(* The inductive invariant holds in every reachable state.                 *)
THEOREM Invariance == Spec => []IInv
<1>1. Init => IInv
  BY InitIInv
<1>2. IInv /\ [Next]_vars => IInv'
  BY NextKeeps
<1> QED BY <1>1, <1>2, PTL DEF Spec

(* Every variable keeps to its type; in particular the ticket counters     *)
(* stay in range across their wrap.                                        *)
THEOREM TypeCorrect == Spec => []TypeOK
<1>1. IInv => TypeOK
  BY DEF IInv
<1> QED BY <1>1, Invariance, PTL

(* The run queue of sched.c always holds just the runnable threads, once   *)
(* each, and the running thread is among them.                             *)
THEOREM RunQueueExact == Spec => []RunqExact
<1>1. IInv => RunqExact
  BY DEF IInv
<1> QED BY <1>1, Invariance, PTL

(* One thread at most is inside the spinlock of spin.c, and sp->owner      *)
(* names it: with any number of threads and any width of the counters      *)
(* above that number.                                                      *)
THEOREM SpinMutualExclusion == Spec => [](TicketsContiguous /\ SpinExclusion)
<1>1. IInv => TicketsContiguous /\ SpinExclusion
  BY DEF IInv
<1> QED BY <1>1, Invariance, PTL

(* One thread at most has the mutex of mutex.c, hand-offs included, and    *)
(* mp->owner names it.                                                     *)
THEOREM MutexMutualExclusion == Spec => []MutexExclusion
<1>1. IInv => MutexExclusion
  BY DEF IInv
<1> QED BY <1>1, Invariance, PTL

(* No thread sleeps in mutex_lock without being in the queue or being made *)
(* runnable by the unlock under way.                                       *)
THEOREM WaitersNotLost == Spec => []NoLostWaiter
<1>1. IInv => NoLostWaiter
  BY DEF IInv
<1> QED BY <1>1, Invariance, PTL

(* None of the asserts of spin.c, mutex.c and sched.c that these           *)
(* operations reach can fail.                                              *)
THEOREM NoAssertFails == Spec => []AssertsHold
<1>1. ASSUME IInv PROVE AssertsHold
  <2> SUFFICES ASSUME NEW t \in Threads, curr = t
               PROVE  /\ pc[t] \in {"release", "park", "handoff"} => spOwner = t
                      /\ pc[t] = "enter" /\ op[t] \in Unlocks
                           => mowner = t /\ mstate = "LOCKED"
                      /\ pc[t] \in {"park", "handoff"} => tstate[t] = "RUNNABLE"
                      /\ pc[t] = "handoff"
                           => mowner \in Threads /\ tstate[mowner] = "BLOCKED"
    BY DEF AssertsHold
  <2>1. pc[t] \in {"release", "park", "handoff"} => spOwner = t
    BY <1>1 DEF IInv, SpinExclusion, SpinBody
  <2>2. pc[t] = "enter" /\ op[t] \in Unlocks => mowner = t /\ mstate = "LOCKED"
    BY <1>1, SchedAssumption DEF IInv, MutexExclusion, Has
  <2>3. tstate[t] = "RUNNABLE"
    BY <1>1 DEF IInv, RunqExact, Runnable
  <2>4. pc[t] = "handoff" => mowner \in Threads /\ tstate[mowner] = "BLOCKED"
    BY <1>1 DEF IInv, DecisionsHold, NoLostWaiter
  <2> QED BY <2>1, <2>2, <2>3, <2>4
<1> QED BY <1>1, Invariance, PTL

(* What the run checks on three threads holds for any number of them: the  *)
(* shared data of sched.c, spin.c and mutex.c agrees ...                   *)
THEOREM SharedDataAgrees == Spec => []Consistent
<1>1. TypeOK /\ RunqExact /\ (TicketsContiguous /\ SpinExclusion) /\ AssertsHold
        => Consistent
  BY DEF Consistent
<1> QED BY <1>1, TypeCorrect, RunQueueExact, SpinMutualExclusion, NoAssertFails, PTL

(* ... and the two locks exclude.                                          *)
THEOREM LocksExclude == Spec => []Exclusive
<1>1. (TicketsContiguous /\ SpinExclusion) /\ MutexExclusion => Exclusive
  BY DEF Exclusive
<1> QED BY <1>1, SpinMutualExclusion, MutexMutualExclusion, PTL

-----------------------------------------------------------------------------
(* The mutex implements FifoLock.  Its line is a sequence sorted by ticket *)
(* rank, of which there is just one.                                       *)

Less == {ss \in Nat \X Nat : ss[1] < ss[2]}

LEMMA LeastElement ==
    ASSUME NEW S, S \subseteq Nat, S # {}
    PROVE  \E i \in S : \A j \in S : i <= j
<1>1. IsWellFoundedOn(Less, Nat)
  BY NatLessThanWellFounded DEF OpToRel, Less
<1>2. PICK i \in S : \A j \in S : <<j, i>> \notin Less
  BY <1>1, WFMin, Zenon
<1>3. ASSUME NEW j \in S PROVE i <= j
  <2>1. i \in Nat /\ j \in Nat
    OBVIOUS
  <2>2. ASSUME j < i PROVE FALSE
    <3>1. <<j, i>> \in {ss \in Nat \X Nat : ss[1] < ss[2]}
      BY <2>1, <2>2
    <3> QED BY <1>2, <3>1 DEF Less
  <2> QED BY <2>1, <2>2
<1> QED BY <1>3

(* s lists the elements of S by increasing rank. *)
Sorts(s, S, rank) ==
    /\ s \in Seq(S)
    /\ \A u \in S : \E i \in DOMAIN s : s[i] = u
    /\ \A i, j \in DOMAIN s : i < j => rank[s[i]] < rank[s[j]]

LEMMA SortedAgree ==
    ASSUME NEW S, NEW rank, \A u \in S : rank[u] \in Nat,
           NEW s, Sorts(s, S, rank), NEW r, Sorts(r, S, rank)
    PROVE  \A i \in DOMAIN s : i \in DOMAIN r /\ r[i] = s[i]
<1> DEFINE D == {i \in DOMAIN s : ~(i \in DOMAIN r /\ r[i] = s[i])}
<1>1. /\ Len(s) \in Nat /\ DOMAIN s = 1 .. Len(s)
      /\ Len(r) \in Nat /\ DOMAIN r = 1 .. Len(r)
      /\ \A i \in DOMAIN s : s[i] \in S /\ rank[s[i]] \in Nat
      /\ \A i \in DOMAIN r : r[i] \in S /\ rank[r[i]] \in Nat
  BY DEF Sorts
<1>2. ASSUME D # {} PROVE FALSE
  <2>0. D \subseteq Nat
    BY <1>1
  <2>1. PICK i \in D : \A j \in D : i <= j
    <3> HIDE DEF D
    <3> QED BY <1>2, <2>0, LeastElement
  <2>2. i \in DOMAIN s /\ i \in Nat
    BY <1>1
  <2>3. \A j \in DOMAIN s : j < i => j \in DOMAIN r /\ r[j] = s[j]
    BY <1>1, <2>1, <2>2
  <2>4. PICK k \in DOMAIN r : r[k] = s[i]
    BY <1>1, <2>2 DEF Sorts
  <2>5. ~(k < i)
    <3> SUFFICES ASSUME k < i PROVE FALSE
      OBVIOUS
    <3>1. k \in DOMAIN s
      BY <1>1, <2>2, <2>4
    <3>2. rank[s[k]] < rank[s[i]]
      BY <2>2, <3>1 DEF Sorts
    <3>3. s[k] = s[i]
      BY <2>3, <2>4, <3>1
    <3> QED BY <1>1, <2>2, <3>2, <3>3
  <2>6. i \in DOMAIN r /\ r[i] # s[i] /\ i < k
    <3>1. i \in DOMAIN r
      BY <1>1, <2>2, <2>4, <2>5
    <3>2. r[i] # s[i]
      BY <2>1, <3>1
    <3> QED BY <1>1, <2>2, <2>4, <2>5, <3>1, <3>2
  <2>7. rank[r[i]] < rank[s[i]]
    BY <2>4, <2>6 DEF Sorts
  <2>8. PICK m \in DOMAIN s : s[m] = r[i]
    BY <1>1, <2>6 DEF Sorts
  <2>9. m < i
    <3>1. i < m => rank[s[i]] < rank[s[m]]
      BY <2>2, <2>8 DEF Sorts
    <3> QED BY <1>1, <2>2, <2>6, <2>7, <2>8, <3>1
  <2>10. m \in DOMAIN r /\ r[m] = s[m]
    BY <2>3, <2>8, <2>9
  <2>11. rank[r[m]] < rank[r[i]]
    BY <2>6, <2>9, <2>10 DEF Sorts
  <2> QED BY <1>1, <2>6, <2>8, <2>10, <2>11
<1> QED BY <1>2

LEMMA SortedOnce ==
    ASSUME NEW S, NEW rank, \A u \in S : rank[u] \in Nat,
           NEW s, Sorts(s, S, rank), NEW r, Sorts(r, S, rank)
    PROVE  s = r
<1>1. /\ \A i \in DOMAIN s : i \in DOMAIN r /\ r[i] = s[i]
      /\ \A i \in DOMAIN r : i \in DOMAIN s
  BY SortedAgree
<1>2. s \in Seq(S) /\ r \in Seq(S)
  BY DEF Sorts
<1>3. Len(s) \in Nat /\ Len(r) \in Nat
  BY <1>2
<1>4. DOMAIN s = 1 .. Len(s) /\ DOMAIN r = 1 .. Len(r)
  BY <1>2
<1>5. Len(s) = Len(r)
  <2>1. ASSUME NEW m \in Nat, NEW n \in Nat,
               \A i \in 1 .. m : i \in 1 .. n, \A i \in 1 .. n : i \in 1 .. m
        PROVE  m = n
    <3>1. m > 0 => m \in 1 .. n
      BY <2>1
    <3>2. n > 0 => n \in 1 .. m
      BY <2>1
    <3> QED BY <3>1, <3>2
  <2>2. /\ \A i \in 1 .. Len(s) : i \in 1 .. Len(r)
        /\ \A i \in 1 .. Len(r) : i \in 1 .. Len(s)
    BY <1>1, <1>4, Zenon
  <2> QED BY <1>3, <2>1, <2>2
<1> QED BY <1>1, <1>2, <1>4, <1>5, SeqEqual

(* A sequence that lists a finite set by rank is the one SortedBy finds.   *)
LEMMA SortedByIs ==
    ASSUME NEW S, IsFiniteSet(S), NEW rank, \A u \in S : rank[u] \in Nat,
           NEW s, Sorts(s, S, rank)
    PROVE  SortedBy(S, rank) = s
<1> DEFINE n == Cardinality(S)
           InOrder(x) == \A i, j \in DOMAIN x : i < j => rank[x[i]] < rank[x[j]]
<1>1. /\ Len(s) \in Nat /\ DOMAIN s = 1 .. Len(s)
      /\ s \in [1 .. Len(s) -> S]
      /\ \A i \in DOMAIN s : rank[s[i]] \in Nat
  BY DEF Sorts
<1>2. ASSUME NEW i \in DOMAIN s, NEW j \in DOMAIN s, i # j
      PROVE  s[i] # s[j]
  <2>1. i < j \/ j < i
    BY <1>1, <1>2
  <2>2. /\ i < j => rank[s[i]] < rank[s[j]]
        /\ j < i => rank[s[j]] < rank[s[i]]
    BY DEF Sorts
  <2> QED BY <1>1, <2>1, <2>2
<1>3. n = Len(s)
  <2>1. s \in Surjection(1 .. Len(s), S)
    BY <1>1 DEF Sorts, Surjection
  <2>2. s \in Injection(1 .. Len(s), S)
    BY <1>1, <1>2 DEF Injection, IsInjective
  <2>3. IsFiniteSet(1 .. Len(s)) /\ Cardinality(1 .. Len(s)) = Len(s)
    <3>1. 1 \in Int /\ Len(s) \in Int /\ Len(s) - 1 + 1 = Len(s)
          /\ (1 > Len(s) => Len(s) = 0)
      BY <1>1
    <3> QED BY <3>1, FS_Interval
  <2> QED BY <2>1, <2>2, <2>3, FS_Surjection
<1>4. s \in SetToSeqs(S) /\ InOrder(s)
  <2>1. InOrder(s)
    BY DEF Sorts
  <2>2. \A i, j \in 1 .. n : i # j => s[i] # s[j]
    BY <1>1, <1>2, <1>3
  <2> QED BY <1>1, <1>3, <2>1, <2>2 DEF SetToSeqs
<1>5. ASSUME NEW r \in SetToSeqs(S), InOrder(r) PROVE r = s
  <2>1. r \in [1 .. n -> S] /\ \A i, j \in 1 .. n : i # j => r[i] # r[j]
    BY DEF SetToSeqs
  <2>2. n \in Nat
    BY <1>1, <1>3
  <2>3. r \in Seq(S) /\ DOMAIN r = 1 .. n
    BY <2>1, <2>2
  <2>4. r \in Injection(1 .. n, S)
    BY <2>1 DEF Injection, IsInjective
  <2>5. IsFiniteSet(1 .. n) /\ Cardinality(1 .. n) = n
    <3>1. 1 \in Int /\ n \in Int /\ n - 1 + 1 = n /\ (1 > n => n = 0)
      BY <2>2
    <3> QED BY <3>1, FS_Interval
  <2>6. r \in Surjection(1 .. n, S)
    BY <2>4, <2>5, FS_Injection
  <2>7. Sorts(r, S, rank)
    BY <1>5, <2>3, <2>6 DEF Sorts, Surjection
  <2> QED BY <2>7, SortedOnce
<1>6. \E x \in SetToSeqs(S) : InOrder(x)
  BY <1>4
<1>7. SortedBy(S, rank) = CHOOSE x \in SetToSeqs(S) : InOrder(x)
  BY DEF SortedBy
<1> HIDE DEF InOrder
<1>8. /\ (CHOOSE x \in SetToSeqs(S) : InOrder(x)) \in SetToSeqs(S)
      /\ InOrder(CHOOSE x \in SetToSeqs(S) : InOrder(x))
  BY <1>6
<1> QED BY <1>5, <1>7, <1>8

(* The line of the requests in the spinlock really is sorted. *)
LineSorted == Sorts(SpinLine, Asking, Rank)

(* One step of FifoLock, or none. *)
FifoStep == Fifo!Next \/ UNCHANGED <<mowner, Line>>

LEMMA RankFacts ==
    ASSUME IInv, IInv'
    PROVE  /\ IsFiniteSet(Asking) /\ IsFiniteSet(Asking')
           /\ Asking \subseteq Threads /\ Asking' \subseteq Threads
           /\ Asking \subseteq InSpin
           /\ \A u \in Threads : Rank[u] = Ahead(myTurn[u]) /\ Rank[u] \in Nat
           /\ \A u \in Threads : Rank'[u] = Ahead(myTurn[u])' /\ Rank'[u] \in Nat
<1>1. Asking \subseteq Threads /\ Asking' \subseteq Threads
  BY DEF Asking
<1>2. IsFiniteSet(Asking) /\ IsFiniteSet(Asking')
  BY <1>1, SchedAssumption, FS_Subset
<1>3. Asking \subseteq InSpin
  BY DEF Asking, AskedInSpin, InSpin, Ticketed, SpinBody
<1>4. /\ turn \in Tickets /\ turn' \in Tickets
      /\ \A u \in Threads : myTurn[u] \in Tickets /\ myTurn'[u] \in Tickets
  BY DEF IInv, TypeOK
<1>5. \A u \in Threads : Rank[u] = Ahead(myTurn[u]) /\ Rank[u] \in Nat
  BY <1>4, TicketAssumption DEF Rank, Ahead, Tickets
<1>6. \A u \in Threads : Rank'[u] = Ahead(myTurn[u])' /\ Rank'[u] \in Nat
  BY <1>4, TicketAssumption DEF Rank, Ahead, Tickets
<1> QED BY <1>1, <1>2, <1>3, <1>5, <1>6

(* Whatever lists the new requests by rank is the new line. *)
LEMMA NewLine ==
    ASSUME IInv, IInv', NEW s, Sorts(s, Asking', Rank')
    PROVE  SpinLine' = s /\ LineSorted'
<1>1. IsFiniteSet(Asking') /\ \A u \in Asking' : Rank'[u] \in Nat
  BY RankFacts
<1>2. SortedBy(Asking', Rank') = s
  BY <1>1, SortedByIs
<1>3. SpinLine' = s
  BY <1>2 DEF SpinLine
<1> QED BY <1>3 DEF LineSorted

LEMMA LineKept ==
    ASSUME IInv, IInv', LineSorted, Asking' = Asking,
           \A u, v \in Asking : Rank[u] < Rank[v] => Rank'[u] < Rank'[v]
    PROVE  SpinLine' = SpinLine /\ LineSorted'
<1>1. \A i \in DOMAIN SpinLine : SpinLine[i] \in Asking
  BY DEF LineSorted, Sorts
<1>2. Sorts(SpinLine, Asking', Rank')
  BY <1>1 DEF LineSorted, Sorts
<1> QED BY <1>2, NewLine

(* A step that leaves the owner, the queue and the requests as they are is *)
(* no step of FifoLock.                                                    *)
LEMMA NotInLine ==
    ASSUME IInv, IInv', LineSorted, UNCHANGED <<mowner, mqueue>>,
           Asking' = Asking,
           \A u, v \in Asking : Rank[u] < Rank[v] => Rank'[u] < Rank'[v]
    PROVE  FifoStep /\ LineSorted'
BY LineKept DEF FifoStep, Line

(* The ranks of the requests are those of their tickets, which only the    *)
(* spinlock's own steps change.                                            *)
LEMMA SameTickets ==
    ASSUME IInv, IInv', LineSorted, UNCHANGED <<mowner, mqueue>>,
           UNCHANGED <<turn, myTurn>>,
           \A u \in Threads : AskedInSpin(u)' <=> AskedInSpin(u)
    PROVE  FifoStep /\ LineSorted'
<1>1. Asking' = Asking
  BY DEF Asking
<1>2. Rank' = Rank
  BY DEF Rank, Ahead
<1> QED BY <1>1, <1>2, NotInLine

(* When the turn moves on, every request that is left moves up by one. *)
LEMMA MovesUp ==
    ASSUME IInv, IInv', LineSorted, UNCHANGED <<mowner, mqueue, myTurn>>,
           NEW t \in Threads, Served(t), ~AskedInSpin(t), turn' = Inc(turn),
           \A u \in Threads : AskedInSpin(u)' <=> AskedInSpin(u)
    PROVE  FifoStep /\ LineSorted'
<1>1. Asking' = Asking
  BY DEF Asking
<1>2. /\ turn \in Tickets /\ myTurn[t] = turn /\ t \in InSpin
      /\ \A u \in Threads : myTurn[u] \in Tickets
  BY DEF IInv, TypeOK, SpinExclusion, Served, InSpin, Ticketed
<1>3. ASSUME NEW u \in Asking PROVE Rank'[u] = Rank[u] - 1
  <2>1. u \in InSpin /\ u # t /\ u \in Threads
    BY <1>3, RankFacts DEF Asking
  <2>2. myTurn[u] # turn
    BY <1>2, <2>1 DEF IInv, TicketsContiguous
  <2>3. Ahead(myTurn[u])' = Ahead(myTurn[u]) - 1
    BY <1>2, <2>1, <2>2, TicketAssumption DEF Ahead, Inc, Tickets
  <2> QED BY <2>1, <2>3, RankFacts
<1>4. \A u \in Asking : Rank[u] \in Nat
  BY RankFacts
<1>5. \A u, v \in Asking : Rank[u] < Rank[v] => Rank'[u] < Rank'[v]
  BY <1>3, <1>4
<1> QED BY <1>1, <1>5, NotInLine

(* Who draws a ticket to lock stands last in the line. *)
LEMMA RequestIsFifo ==
    ASSUME IInv, IInv', LineSorted, NEW t \in Threads, SpinTicket(t),
           op[t] = "lock"
    PROVE  FifoStep /\ LineSorted'
<1> DEFINE s == SpinLine
<1>1. /\ pc[t] = "ticket" /\ pc' = [pc EXCEPT ![t] = "test"] /\ op' = op
      /\ myTurn' = [myTurn EXCEPT ![t] = ticket] /\ turn' = turn
      /\ mowner' = mowner /\ mqueue' = mqueue
  BY DEF SpinTicket, At, Goto, mutexVars
<1>2. t \notin Asking /\ Asking' = Asking \cup {t}
  BY <1>1 DEF Asking, AskedInSpin, IInv, TypeOK
<1>3. \A u \in Asking : u # t /\ Rank'[u] = Rank[u] /\ Rank[u] < Rank'[t]
  <2> SUFFICES ASSUME NEW u \in Asking
               PROVE  u # t /\ Rank'[u] = Rank[u] /\ Rank[u] < Rank'[t]
    OBVIOUS
  <2>1. u # t /\ u \in Threads /\ u \in InSpin
    BY <1>2, RankFacts
  <2>2. myTurn'[u] = myTurn[u] /\ myTurn'[t] = ticket
    BY <1>1, <2>1 DEF IInv, TypeOK
  <2>3. Ahead(myTurn[u])' = Ahead(myTurn[u]) /\ Ahead(myTurn[t])' = Ahead(ticket)
    BY <1>1, <2>2 DEF Ahead
  <2>4. Ahead(myTurn[u]) < Ahead(ticket)
    BY <2>1 DEF IInv, TicketsContiguous
  <2> QED BY <2>1, <2>3, <2>4, RankFacts
<1>4. /\ s \in Seq(Asking) /\ Len(s) \in Nat /\ DOMAIN s = 1 .. Len(s)
      /\ \A i \in DOMAIN s : s[i] \in Asking
      /\ \A u \in Asking : \E i \in DOMAIN s : s[i] = u
      /\ \A i, j \in DOMAIN s : i < j => Rank[s[i]] < Rank[s[j]]
  BY DEF LineSorted, Sorts
<1> HIDE DEF s
<1> DEFINE a == Append(s, t)
<1>5. /\ a \in Seq(Asking') /\ DOMAIN a = 1 .. Len(s) + 1
      /\ \A i \in 1 .. Len(s) : a[i] = s[i]
      /\ a[Len(s) + 1] = t
  <2>1. s \in Seq(Asking') /\ t \in Asking'
    <3>1. Len(s) \in Nat /\ s \in [1 .. Len(s) -> Asking']
      BY <1>2, <1>4
    <3> QED BY <1>2, <3>1
  <2> QED BY <2>1, AppendProperties
<1> HIDE DEF a
<1>6. Sorts(a, Asking', Rank')
  <2>1. ASSUME NEW u \in Asking' PROVE \E i \in DOMAIN a : a[i] = u
    <3>1. CASE u = t
      BY <1>4, <1>5, <3>1
    <3>2. CASE u # t
      <4>1. PICK i \in DOMAIN s : s[i] = u
        BY <1>2, <1>4, <3>2
      <4> QED BY <1>4, <1>5, <4>1
    <3> QED BY <3>1, <3>2
  <2>2. ASSUME NEW i \in DOMAIN a, NEW j \in DOMAIN a, i < j
        PROVE  Rank'[a[i]] < Rank'[a[j]]
    <3>1. i \in DOMAIN s /\ a[i] = s[i] /\ s[i] \in Asking
      BY <1>4, <1>5, <2>2
    <3>2. CASE j = Len(s) + 1
      BY <1>3, <1>5, <3>1, <3>2
    <3>3. CASE j # Len(s) + 1
      <4>1. j \in DOMAIN s /\ a[j] = s[j] /\ s[j] \in Asking
        BY <1>4, <1>5, <3>3
      <4>2. Rank[s[i]] < Rank[s[j]]
        BY <1>4, <2>2, <3>1, <4>1
      <4> QED BY <1>3, <3>1, <4>1, <4>2
    <3> QED BY <3>2, <3>3
  <2> QED BY <1>5, <2>1, <2>2 DEF Sorts
<1>7. SpinLine' = a /\ LineSorted'
  BY <1>6, NewLine
<1>8. mqueue \in Seq(Threads) /\ s \in Seq(Threads)
  <2>1. s \in [1 .. Len(s) -> Threads]
    BY <1>4, RankFacts
  <2> QED BY <1>4, <2>1 DEF IInv, TypeOK
<1>9. mowner # t /\ ~Queued(t)
  BY <1>1 DEF IInv, MutexExclusion, Has, NoLostWaiter, OpMatches, Unlocks
<1>10. Line' = Append(Line, t)
  <2>1. Line = mqueue \o s /\ Line' = mqueue \o Append(s, t)
    BY <1>1, <1>7 DEF Line, s, a
  <2> QED BY <1>8, <2>1
<1>11. ASSUME NEW i \in DOMAIN Line PROVE Line[i] # t
  <2> DEFINE m == Len(mqueue)
             n == Len(s)
  <2>1. /\ m \in Nat /\ n \in Nat /\ DOMAIN Line = 1 .. m + n
        /\ Line[i] = IF i <= m THEN mqueue[i] ELSE s[i - m]
    BY <1>8 DEF Line, s
  <2>2. /\ \A j \in 1 .. m : mqueue[j] # t
        /\ \A j \in 1 .. n : s[j] # t
    <3>1. DOMAIN mqueue = 1 .. m
      BY <1>8
    <3> QED BY <1>2, <1>4, <1>9, <3>1 DEF Queued
  <2> HIDE DEF m, n
  <2>3. i \in 1 .. m \/ (~(i <= m) /\ i - m \in 1 .. n)
    BY <2>1
  <2> QED BY <2>1, <2>2, <2>3
<1>12. Fifo!Request(t)
  BY <1>1, <1>9, <1>10, <1>11 DEF Fifo!Request, Fifo!InLine
<1> QED BY <1>7, <1>12 DEF FifoStep, Fifo!Next

(* Who is served leaves the spinlock's line at its head.                   *)
LEMMA ServedFirst ==
    ASSUME IInv, IInv', LineSorted, NEW t \in Threads, Served(t), AskedInSpin(t),
           UNCHANGED <<turn, myTurn>>, Asking' = Asking \ {t}
    PROVE  /\ SpinLine \in Seq(Threads) /\ SpinLine # <<>> /\ Head(SpinLine) = t
           /\ SpinLine' = Tail(SpinLine) /\ LineSorted'
<1> DEFINE s == SpinLine
           r == Tail(s)
<1>1. /\ s \in Seq(Asking) /\ Len(s) \in Nat /\ DOMAIN s = 1 .. Len(s)
      /\ \A i \in DOMAIN s : s[i] \in Asking
      /\ \A u \in Asking : \E i \in DOMAIN s : s[i] = u
      /\ \A i, j \in DOMAIN s : i < j => Rank[s[i]] < Rank[s[j]]
  BY DEF LineSorted, Sorts
<1>2. /\ t \in Asking /\ Asking \subseteq Threads
      /\ \A u \in Asking : Rank[u] \in Nat
  BY RankFacts DEF Asking
<1>3. Rank[t] = 0
  <2>1. myTurn[t] = turn /\ turn \in Tickets
    BY DEF IInv, SpinExclusion, TypeOK
  <2>2. Ahead(myTurn[t]) = 0
    BY <2>1, AheadRange
  <2> QED BY <2>2, RankFacts
<1>4. Rank' = Rank
  BY DEF Rank, Ahead
<1> HIDE DEF s
<1>5. PICK k \in DOMAIN s : s[k] = t
  BY <1>1, <1>2
<1>6. k = 1
  <2> SUFFICES ASSUME k # 1 PROVE FALSE
    OBVIOUS
  <2>1. 1 \in DOMAIN s /\ 1 < k
    BY <1>1
  <2>2. Rank[s[1]] < Rank[s[k]]
    BY <1>1, <2>1
  <2> QED BY <1>1, <1>2, <1>3, <1>5, <2>1, <2>2
<1>7. s # <<>> /\ Len(s) \in Nat \ {0} /\ Head(s) = t /\ s[1] = t
  BY <1>1, <1>5, <1>6
<1>8. /\ r \in Seq(Asking) /\ DOMAIN r = 1 .. Len(s) - 1
      /\ \A i \in 1 .. Len(s) - 1 : r[i] = s[i + 1]
  BY <1>1, <1>7, HeadTailProperties
<1> HIDE DEF r
<1>9. Sorts(r, Asking', Rank')
  <2>1. ASSUME NEW i \in DOMAIN r
        PROVE  i + 1 \in DOMAIN s /\ r[i] = s[i + 1] /\ r[i] \in Asking \ {t}
    <3>1. /\ i + 1 \in DOMAIN s /\ 1 \in DOMAIN s /\ 1 < i + 1
          /\ r[i] = s[i + 1]
      BY <1>1, <1>7, <1>8
    <3>2. Rank[s[1]] < Rank[s[i + 1]]
      BY <1>1, <3>1
    <3> QED BY <1>1, <1>2, <1>7, <3>1, <3>2
  <2>2. r \in Seq(Asking')
    <3>1. Len(s) - 1 \in Nat /\ DOMAIN r = 1 .. Len(s) - 1 /\ r \in [DOMAIN r -> Asking]
      BY <1>7, <1>8
    <3>2. r \in [1 .. Len(s) - 1 -> Asking']
      BY <2>1, <3>1
    <3> QED BY <3>1, <3>2
  <2>3. ASSUME NEW u \in Asking' PROVE \E i \in DOMAIN r : r[i] = u
    <3>1. PICK i \in DOMAIN s : s[i] = u
      BY <1>1
    <3>2. i # 1
      BY <1>7, <3>1
    <3>3. i - 1 \in DOMAIN r /\ (i - 1) + 1 = i
      BY <1>1, <1>8, <3>2
    <3>4. r[i - 1] = u
      BY <1>8, <3>1, <3>3
    <3> QED BY <3>3, <3>4
  <2>4. ASSUME NEW i \in DOMAIN r, NEW j \in DOMAIN r, i < j
        PROVE  Rank'[r[i]] < Rank'[r[j]]
    <3>1. i + 1 < j + 1
      BY <1>8, <2>4
    <3>2. Rank[s[i + 1]] < Rank[s[j + 1]]
      BY <1>1, <2>1, <3>1
    <3> QED BY <1>4, <2>1, <3>2
  <2> QED BY <2>2, <2>3, <2>4 DEF Sorts
<1>10. SpinLine' = r /\ LineSorted'
  BY <1>9, NewLine
<1>11. s \in Seq(Threads)
  <2>1. s \in [1 .. Len(s) -> Threads]
    BY <1>1, <1>2
  <2> QED BY <1>1, <2>1
<1> QED BY <1>7, <1>10, <1>11 DEF r, s

(* The mutex is free: who is served takes it ... *)
LEMMA TakeIsFifo ==
    ASSUME IInv, IInv', LineSorted, NEW t \in Threads, LockTake(t)
    PROVE  FifoStep /\ LineSorted'
<1>1. /\ pc[t] = "take" /\ op[t] = "lock" /\ pc' = [pc EXCEPT ![t] = "release"]
      /\ mowner' = t /\ mqueue' = mqueue /\ op' = op
      /\ UNCHANGED <<turn, myTurn>>
  BY DEF LockTake, At, Goto, spinVars, localVars, IInv, OpMatches
<1>2. Asking' = Asking \ {t}
  BY <1>1 DEF Asking, AskedInSpin, IInv, TypeOK
<1>3. Served(t) /\ AskedInSpin(t)
  BY <1>1 DEF Served, SpinBody, AskedInSpin
<1>4. /\ SpinLine \in Seq(Threads) /\ SpinLine # <<>> /\ Head(SpinLine) = t
      /\ SpinLine' = Tail(SpinLine) /\ LineSorted'
  BY <1>1, <1>2, <1>3, ServedFirst
<1>5. mowner = None
  BY <1>1 DEF IInv, DecisionsHold, MutexExclusion
<1>6. mqueue = <<>>
  <2> SUFFICES ASSUME mqueue # <<>> PROVE FALSE
    OBVIOUS
  <2>1. 1 \in DOMAIN mqueue /\ mqueue[1] \in Threads
    BY DEF IInv, TypeOK
  <2>2. mstate = "LOCKED"
    BY <2>1 DEF IInv, NoLostWaiter, Queued
  <2> QED BY <1>1, <2>2 DEF IInv, DecisionsHold
<1>7. Line = SpinLine /\ Line' = Tail(SpinLine)
  BY <1>1, <1>4, <1>6 DEF Line
<1>8. Fifo!Acquire
  BY <1>1, <1>4, <1>5, <1>7 DEF Fifo!Acquire
<1> QED BY <1>4, <1>8 DEF FifoStep, Fifo!Next

(* ... or it is not, and the wait queue gets who is served, at its end.    *)
LEMMA EnqueueIsFifo ==
    ASSUME IInv, IInv', LineSorted, NEW t \in Threads, LockEnqueue(t)
    PROVE  FifoStep /\ LineSorted'
<1>1. /\ pc[t] = "enqueue" /\ op[t] = "lock" /\ pc' = [pc EXCEPT ![t] = "park"]
      /\ mowner' = mowner /\ mqueue' = Append(mqueue, t) /\ op' = op
      /\ UNCHANGED <<turn, myTurn>>
  BY DEF LockEnqueue, At, Goto, spinVars, localVars, IInv, OpMatches
<1>2. Asking' = Asking \ {t}
  BY <1>1 DEF Asking, AskedInSpin, IInv, TypeOK
<1>3. Served(t) /\ AskedInSpin(t)
  BY <1>1 DEF Served, SpinBody, AskedInSpin
<1>4. /\ SpinLine \in Seq(Threads) /\ SpinLine # <<>> /\ Head(SpinLine) = t
      /\ SpinLine' = Tail(SpinLine) /\ LineSorted'
  BY <1>1, <1>2, <1>3, ServedFirst
<1>5. ASSUME NEW q \in Seq(Threads), NEW s \in Seq(Threads), s # <<>>
      PROVE  q \o s = Append(q, Head(s)) \o Tail(s)
  <2>1. Head(s) \in Threads /\ Tail(s) \in Seq(Threads) /\ s = <<Head(s)>> \o Tail(s)
    BY <1>5
  <2>2. <<Head(s)>> \in Seq(Threads)
    BY <2>1
  <2>3. Append(q, Head(s)) = q \o <<Head(s)>>
    BY <2>1, AppendIsConcat
  <2>4. (q \o <<Head(s)>>) \o Tail(s) = q \o (<<Head(s)>> \o Tail(s))
    BY <2>1, <2>2, ConcatAssociative
  <2> QED BY <2>1, <2>3, <2>4
<1>6. mqueue \in Seq(Threads)
  BY DEF IInv, TypeOK
<1>7. Line' = Line
  BY <1>1, <1>4, <1>5, <1>6 DEF Line
<1> QED BY <1>1, <1>4, <1>7 DEF FifoStep

(* A release keeps the line; a hand-off takes its head.                    *)
LEMMA UnlockIsFifo ==
    ASSUME IInv, IInv', LineSorted, NEW t \in Threads,
           UnlockFree(t) \/ UnlockDequeue(t)
    PROVE  FifoStep /\ LineSorted'
<1>1. /\ pc[t] \in {"free", "dequeue"} /\ op[t] \in Unlocks /\ op' = op
      /\ pc' = [pc EXCEPT ![t] = pc'[t]]
      /\ UNCHANGED <<turn, myTurn>>
  BY DEF UnlockFree, UnlockDequeue, At, Goto, spinVars, localVars, IInv,
         OpMatches, TypeOK
<1>2. Asking' = Asking
  BY <1>1 DEF Asking, AskedInSpin, IInv, TypeOK, Unlocks
<1>3. Rank' = Rank
  BY <1>1 DEF Rank, Ahead
<1>4. SpinLine' = SpinLine /\ LineSorted'
  BY <1>2, <1>3, LineKept
<1>5. mowner = t
  BY <1>1 DEF IInv, MutexExclusion, Has
<1>6. mowner # None
  BY <1>5, SchedAssumption DEF Procs
<1>7. CASE UnlockFree(t)
  <2>1. mowner' = None /\ Line' = Line
    BY <1>4, <1>7 DEF UnlockFree, Line
  <2> QED BY <1>4, <1>6, <2>1 DEF Fifo!Release, Fifo!Next, FifoStep
<1>8. CASE UnlockDequeue(t)
  <2>1. mqueue # <<>> /\ mowner' = Head(mqueue) /\ mqueue' = Tail(mqueue)
    BY <1>8 DEF UnlockDequeue, At, IInv, DecisionsHold
  <2>2. mqueue \in Seq(Threads) /\ SpinLine \in Seq(Threads)
    <3>1. SpinLine \in Seq(Asking) /\ Asking \subseteq Threads
      BY DEF LineSorted, Sorts, Asking
    <3> QED BY <3>1 DEF IInv, TypeOK
  <2>3. /\ Line # <<>> /\ Head(Line) = Head(mqueue)
        /\ Tail(Line) = Tail(mqueue) \o SpinLine
    BY <2>1, <2>2 DEF Line
  <2>4. Line' = Tail(mqueue) \o SpinLine
    BY <1>4, <2>1 DEF Line
  <2> QED BY <1>4, <1>6, <2>1, <2>3, <2>4 DEF Fifo!HandOff, Fifo!Next, FifoStep
<1> QED BY <1>7, <1>8

LEMMA SpinStepIsFifo ==
    ASSUME IInv, IInv', LineSorted, NEW t \in Threads, SpinStep(t)
    PROVE  FifoStep /\ LineSorted'
<1>1. CASE SpinTicket(t)
  <2>1. CASE op[t] = "lock"
    BY <1>1, <2>1, RequestIsFifo
  <2>2. CASE op[t] # "lock"
    <3>1. /\ pc[t] = "ticket" /\ pc' = [pc EXCEPT ![t] = "test"] /\ op' = op
          /\ myTurn' = [myTurn EXCEPT ![t] = ticket] /\ turn' = turn
          /\ mowner' = mowner /\ mqueue' = mqueue
      BY <1>1 DEF SpinTicket, At, Goto, mutexVars
    <3>2. Asking' = Asking /\ t \notin Asking
      BY <2>2, <3>1 DEF Asking, AskedInSpin, IInv, TypeOK
    <3>3. \A u \in Asking : Rank'[u] = Rank[u]
      BY <3>1, <3>2 DEF Rank, Ahead, Asking, IInv, TypeOK
    <3> QED BY <3>1, <3>2, <3>3, NotInLine
  <2> QED BY <2>1, <2>2
<1>2. CASE SpinTest(t) \/ SpinYield(t) \/ SpinOwn(t) \/ SpinRelease(t)
  <2>1. \A u \in Threads : AskedInSpin(u)' <=> AskedInSpin(u)
    BY <1>2 DEF SpinTest, SpinYield, SpinOwn, SpinRelease, At, Goto, AskedInSpin,
                localVars, IInv, TypeOK
  <2>2. UNCHANGED <<mowner, mqueue>> /\ UNCHANGED <<turn, myTurn>>
    BY <1>2 DEF SpinTest, SpinYield, SpinOwn, SpinRelease, spinVars, mutexVars,
                localVars
  <2> QED BY <2>1, <2>2, SameTickets
<1>3. CASE SpinAdvance(t) \/ SpinUnlockAndBlock(t)
  <2>1. \A u \in Threads : AskedInSpin(u)' <=> AskedInSpin(u)
    BY <1>3 DEF SpinAdvance, SpinUnlockAndBlock, At, Goto, AskedInSpin, localVars,
                IInv, TypeOK
  <2>2. UNCHANGED <<mowner, mqueue, myTurn>> /\ turn' = Inc(turn)
    BY <1>3 DEF SpinAdvance, SpinUnlockAndBlock, SpinUnlock, mutexVars, localVars
  <2>3. Served(t) /\ ~AskedInSpin(t)
    BY <1>3 DEF SpinAdvance, SpinUnlockAndBlock, At, Served, SpinBody, AskedInSpin
  <2> QED BY <2>1, <2>2, <2>3, MovesUp
<1> QED BY <1>1, <1>2, <1>3 DEF SpinStep

LEMMA MutexStepIsFifo ==
    ASSUME IInv, IInv', LineSorted, NEW t \in Threads, LockStep(t) \/ UnlockStep(t)
    PROVE  FifoStep /\ LineSorted'
<1>1. CASE LockTake(t) \/ LockEnqueue(t) \/ UnlockFree(t) \/ UnlockDequeue(t)
  BY <1>1, TakeIsFifo, EnqueueIsFifo, UnlockIsFifo
<1>2. CASE LockEnter(t) \/ LockReturn(t) \/ UnlockEnter(t)
  <2>1. \A u \in Threads : AskedInSpin(u)' <=> AskedInSpin(u)
    BY <1>2 DEF LockEnter, LockReturn, UnlockEnter, At, Goto, AskedInSpin,
                localVars, IInv, TypeOK, Unlocks
  <2>2. UNCHANGED <<mowner, mqueue>> /\ UNCHANGED <<turn, myTurn>>
    BY <1>2 DEF LockEnter, LockReturn, UnlockEnter, spinVars, mutexVars, localVars
  <2> QED BY <2>1, <2>2, SameTickets
<1>3. CASE UnlockHandOff(t)
  <2>1. \A u \in Threads : AskedInSpin(u)' <=> AskedInSpin(u)
    BY <1>3 DEF UnlockHandOff, At, Goto, AskedInSpin, IInv, TypeOK
  <2>2. UNCHANGED <<mowner, mqueue, myTurn>> /\ turn' = Inc(turn)
    BY <1>3 DEF UnlockHandOff, SpinUnlock, mutexVars
  <2>3. Served(t) /\ ~AskedInSpin(t)
    BY <1>3 DEF UnlockHandOff, At, Served, SpinBody, AskedInSpin
  <2> QED BY <2>1, <2>2, <2>3, MovesUp
<1> QED BY <1>1, <1>2, <1>3 DEF LockStep, UnlockStep

LEMMA CallerIsFifo ==
    ASSUME IInv, IInv', LineSorted, NEW t \in Threads, CallerStep(t)
    PROVE  FifoStep /\ LineSorted'
<1>1. \A u \in Threads : AskedInSpin(u)' <=> AskedInSpin(u)
  BY DEF CallerStep, CallLock, CallUnlock, Wake, Resume, At, Goto, AskedInSpin,
         localVars, IInv, TypeOK
<1>2. UNCHANGED <<mowner, mqueue>> /\ UNCHANGED <<turn, myTurn>>
  BY DEF CallerStep, CallLock, CallUnlock, Wake, Resume, spinVars, mutexVars,
         localVars
<1> QED BY <1>1, <1>2, SameTickets

LEMMA InitIsFifo ==
    ASSUME Init
    PROVE  Fifo!Init /\ LineSorted
<1>1. mowner = None /\ mqueue = <<>> /\ Asking = {}
  BY DEF Init, Asking, AskedInSpin
<1>2. Sorts(<<>>, {}, Rank)
  BY DEF Sorts
<1>3. SortedBy({}, Rank) = <<>>
  <2>1. IsFiniteSet({}) /\ \A u \in {} : Rank[u] \in Nat
    BY FS_EmptySet
  <2> QED BY <1>2, <2>1, SortedByIs
<1>4. SpinLine = <<>>
  BY <1>1, <1>3 DEF SpinLine
<1> QED BY <1>1, <1>2, <1>4 DEF Fifo!Init, Line, LineSorted

(* The mutex grants its requests in the order of their tickets, whether    *)
(* they find it free, spin for its spinlock or wait in its queue: nobody   *)
(* barges past a waiter (mutex.c:60-90,156-173).                           *)
THEOREM TicketOrder == Spec => GrantsInTicketOrder
<1>1. Init => Fifo!Init /\ LineSorted
  BY InitIsFifo
<1>2. IInv /\ IInv' /\ LineSorted /\ [Next]_vars => FifoStep /\ LineSorted'
  <2> SUFFICES ASSUME IInv, IInv', LineSorted, [Next]_vars
               PROVE  FifoStep /\ LineSorted'
    OBVIOUS
  <2>1. CASE Tick \/ UNCHANGED vars
    <3>1. UNCHANGED <<mowner, mqueue>> /\ UNCHANGED <<turn, myTurn>>
      BY <2>1 DEF Tick, vars, spinVars, mutexVars, localVars
    <3>2. \A u \in Threads : AskedInSpin(u)' <=> AskedInSpin(u)
      BY <2>1 DEF Tick, vars, localVars, AskedInSpin
    <3> QED BY <3>1, <3>2, SameTickets
  <2>2. ASSUME NEW t \in Threads, Step(t) \/ CallerStep(t)
        PROVE  FifoStep /\ LineSorted'
    BY <2>2, SpinStepIsFifo, MutexStepIsFifo, CallerIsFifo DEF Step
  <2> QED BY <2>1, <2>2 DEF Next
<1>3. FifoStep => [Fifo!Next]_(Fifo!vars)
  BY DEF FifoStep, Fifo!vars
<1> QED BY <1>1, <1>2, <1>3, Invariance, PTL
        DEF Spec, Fifo!Spec, GrantsInTicketOrder


-----------------------------------------------------------------------------
(* The timer *)

Clock == 0 .. W - 1

Entries == [thread : Threads, wake : Clock]

(* The list is in the order of the wake times, and names a thread once. *)
SleepList(s) ==
    /\ s \in Seq(Entries)
    /\ \A i, j \in DOMAIN s : s[i].thread = s[j].thread => i = j
    /\ \A i, j \in DOMAIN s : i <= j => s[i].wake <= s[j].wake

-----------------------------------------------------------------------------
(* Sequences *)

LEMMA QueueConcat ==
    ASSUME NEW p, IsQueue(p), NEW q, IsQueue(q), ToSet(p) \cap ToSet(q) = {}
    PROVE  IsQueue(p \o q) /\ ToSet(p \o q) = ToSet(p) \cup ToSet(q)
<1> DEFINE r == p \o q
<1>1. /\ r \in Seq(Procs) /\ Len(p) \in Nat /\ Len(q) \in Nat
      /\ DOMAIN p = 1 .. Len(p) /\ DOMAIN q = 1 .. Len(q)
      /\ DOMAIN r = 1 .. Len(p) + Len(q)
      /\ \A i \in 1 .. Len(p) : r[i] = p[i]
      /\ \A i \in 1 .. Len(q) : r[Len(p) + i] = q[i]
  BY ConcatProperties DEF IsQueue
<1> HIDE DEF r
<1>2. \A i \in 1 .. Len(p) + Len(q) :
          i \in 1 .. Len(p) \/ (i - Len(p) \in 1 .. Len(q) /\ r[i] = q[i - Len(p)])
  BY <1>1
<1>3. \A i \in 1 .. Len(p), j \in 1 .. Len(q) : p[i] # q[j]
  BY <1>1 DEF ToSet
<1>4. NoDuplicates(r)
  <2> SUFFICES ASSUME NEW i \in 1 .. Len(p) + Len(q), NEW j \in 1 .. Len(p) + Len(q),
                      r[i] = r[j]
               PROVE  i = j
    BY <1>1 DEF NoDuplicates
  <2>1. CASE i \in 1 .. Len(p) /\ j \in 1 .. Len(p)
    BY <1>1, <2>1 DEF IsQueue, NoDuplicates
  <2>2. CASE i \notin 1 .. Len(p) /\ j \notin 1 .. Len(p)
    <3> DEFINE a == i - Len(p)
               b == j - Len(p)
    <3>1. a \in DOMAIN q /\ b \in DOMAIN q /\ q[a] = q[b]
      BY <1>1, <1>2, <2>2
    <3> HIDE DEF a, b
    <3>2. a = b
      BY <3>1 DEF IsQueue, NoDuplicates
    <3> QED
      BY <1>1, <3>2 DEF a, b
  <2>3. CASE i \in 1 .. Len(p) /\ j \notin 1 .. Len(p)
    BY <1>1, <1>2, <1>3, <2>3
  <2>4. CASE i \notin 1 .. Len(p) /\ j \in 1 .. Len(p)
    BY <1>1, <1>2, <1>3, <2>4
  <2> QED
    BY <2>1, <2>2, <2>3, <2>4
<1>5. ToSet(r) = ToSet(p) \cup ToSet(q)
  <2>1. \A x \in ToSet(r) : x \in ToSet(p) \cup ToSet(q)
    BY <1>1, <1>2 DEF ToSet
  <2>2. \A x \in ToSet(q) : x \in ToSet(r)
    <3> SUFFICES ASSUME NEW i \in 1 .. Len(q) PROVE q[i] \in ToSet(r)
      BY <1>1 DEF ToSet
    <3>1. Len(p) + i \in 1 .. Len(p) + Len(q) /\ r[Len(p) + i] = q[i]
      BY <1>1
    <3> QED
      BY <1>1, <3>1 DEF ToSet
  <2>3. \A x \in ToSet(p) : x \in ToSet(r)
    BY <1>1 DEF ToSet
  <2> QED
    BY <2>1, <2>2, <2>3
<1> QED
  BY <1>1, <1>4, <1>5 DEF IsQueue, r

LEMMA QueueReverse ==
    ASSUME NEW q, IsQueue(q)
    PROVE  IsQueue(Reverse(q)) /\ ToSet(Reverse(q)) = ToSet(q)
<1> DEFINE r == Reverse(q)  n == Len(q)
<1>1. /\ q \in Seq(Procs) /\ n \in Nat /\ DOMAIN q = 1 .. n
      /\ \A i \in 1 .. n : (n - i) + 1 \in 1 .. n
  BY DEF IsQueue
<1>2. r = [i \in 1 .. n |-> q[(n - i) + 1]]
  BY DEF Reverse
<1>3. r \in Seq(Procs) /\ DOMAIN r = 1 .. n
  BY <1>1, <1>2
<1>4. \A i \in 1 .. n : r[i] = q[(n - i) + 1]
  BY <1>2
<1> HIDE DEF r, n
<1>5. NoDuplicates(r)
  <2> SUFFICES ASSUME NEW i \in 1 .. n, NEW j \in 1 .. n, r[i] = r[j]
               PROVE  i = j
    BY <1>3 DEF NoDuplicates
  <2>1. (n - i) + 1 = (n - j) + 1
    BY <1>1, <1>4 DEF IsQueue, NoDuplicates
  <2> QED
    BY <1>1, <2>1
<1>6. ToSet(r) = ToSet(q)
  <2>1. \A x \in ToSet(r) : x \in ToSet(q)
    BY <1>1, <1>3, <1>4 DEF ToSet
  <2>2. ASSUME NEW i \in 1 .. n PROVE q[i] \in ToSet(r)
    <3>1. (n - i) + 1 \in 1 .. n /\ (n - ((n - i) + 1)) + 1 = i
      BY <1>1
    <3>2. r[(n - i) + 1] = q[i]
      BY <1>4, <3>1
    <3> QED
      BY <1>3, <3>1, <3>2 DEF ToSet
  <2> QED
    BY <1>1, <2>1, <2>2 DEF ToSet
<1> QED
  BY <1>3, <1>5, <1>6 DEF IsQueue, r

-----------------------------------------------------------------------------
(* The sleep list *)

LEMMA Widths == W \in Nat \ {0} /\ SleepArgs \subseteq Nat
  BY WidthAssumption

(* The entries that both loops pass are those that are due. *)
LEMMA DueLemma ==
    ASSUME SleepList(slist), NEW now \in Clock
    PROVE  /\ LeadingDue(now) \in 0 .. Len(slist)
           /\ \A i \in 1 .. Len(slist) : i <= LeadingDue(now) <=> slist[i].wake <= now
<1> DEFINE D == {i \in DOMAIN slist : \A j \in 1 .. i : slist[j].wake <= now}
           n == Len(slist)
<1>1. /\ n \in Nat /\ DOMAIN slist = 1 .. n
      /\ \A i \in 1 .. n : slist[i] \in Entries
  BY DEF SleepList
<1>2. \A i \in 1 .. n : slist[i].wake \in Int /\ now \in Int
  BY <1>1, Widths DEF Entries, Clock
<1>3. \A i \in 1 .. n : i \in D <=> slist[i].wake <= now
  BY <1>1, <1>2 DEF SleepList
<1>4. IsFiniteSet(1 .. n) /\ Cardinality(1 .. n) = n
  BY <1>1, FS_Interval
<1>5. D \subseteq 1 .. n
  BY <1>1
<1>6. IsFiniteSet(D) /\ Cardinality(D) \in 0 .. n
  BY <1>1, <1>4, <1>5, FS_Subset, FS_CardinalityType
<1>7. ASSUME NEW i \in D PROVE i <= Cardinality(D)
  <2>1. 1 .. i \subseteq D
    BY <1>1, <1>5, <1>7
  <2>2. Cardinality(1 .. i) = i
    BY <1>1, <1>5, FS_Interval
  <2> QED
    BY <1>6, <2>1, <2>2, FS_Subset
<1>8. ASSUME NEW i \in 1 .. n, i \notin D PROVE Cardinality(D) <= i - 1
  <2>1. D \subseteq 1 .. i - 1
    BY <1>1, <1>5, <1>8
  <2> DEFINE m == i - 1
  <2>2. m \in Int /\ 1 \in Int /\ m >= 0
    BY <1>1
  <2> HIDE DEF m
  <2>3. IsFiniteSet(1 .. m) /\ Cardinality(1 .. m) = m
    BY <2>2, FS_Interval
  <2> QED
    BY <2>1, <2>3, FS_Subset DEF m
<1>9. LeadingDue(now) = Cardinality(D)
  BY DEF LeadingDue
<1> HIDE DEF D
<1>10. \A i \in 1 .. n : i <= Cardinality(D) <=> i \in D
  BY <1>1, <1>6, <1>7, <1>8
<1> QED
  BY <1>3, <1>6, <1>9, <1>10

(* A sequence cut in two. *)
LEMMA Cut ==
    ASSUME NEW S, NEW s \in Seq(S), NEW k \in 0 .. Len(s),
           NEW a, a = SubSeq(s, 1, k), NEW b, b = SubSeq(s, k + 1, Len(s))
    PROVE  /\ a \in Seq(S) /\ Len(a) = k /\ \A i \in 1 .. k : a[i] = s[i]
           /\ b \in Seq(S) /\ Len(b) = Len(s) - k
           /\ \A i \in 1 .. Len(s) - k : b[i] = s[k + i]
<1> DEFINE n == Len(s)  m == k + 1
<1>1. /\ n \in Nat /\ k \in Nat /\ k <= n /\ m = k + 1 /\ 1 \in Int
      /\ m \in Int /\ n \in Int /\ k \in Int
      /\ \A i \in 1 .. n : s[i] \in S
  OBVIOUS
<1>2. a = SubSeq(s, 1, k) /\ b = SubSeq(s, m, n)
  OBVIOUS
<1> HIDE DEF n, m
<1>3. (\A i \in 1 .. k : s[i] \in S) /\ (\A i \in m .. n : s[i] \in S)
  BY <1>1
<1>4. /\ a \in Seq(S) /\ Len(a) = (IF 1 <= k THEN k - 1 + 1 ELSE 0)
      /\ \A i \in 1 .. k - 1 + 1 : a[i] = s[1 + i - 1]
  <2>1. /\ SubSeq(s, 1, k) \in Seq(S)
        /\ Len(SubSeq(s, 1, k)) = IF 1 <= k THEN k - 1 + 1 ELSE 0
        /\ \A i \in 1 .. k - 1 + 1 : SubSeq(s, 1, k)[i] = s[1 + i - 1]
    BY <1>1, <1>3, SubSeqProperties
  <2> QED
    BY <1>2, <2>1
<1>5. /\ b \in Seq(S) /\ Len(b) = (IF m <= n THEN n - m + 1 ELSE 0)
      /\ \A i \in 1 .. n - m + 1 : b[i] = s[m + i - 1]
  <2>1. /\ SubSeq(s, m, n) \in Seq(S)
        /\ Len(SubSeq(s, m, n)) = IF m <= n THEN n - m + 1 ELSE 0
        /\ \A i \in 1 .. n - m + 1 : SubSeq(s, m, n)[i] = s[m + i - 1]
    BY <1>1, <1>3, SubSeqProperties
  <2> QED
    BY <1>2, <2>1
<1>6. Len(a) = k /\ Len(b) = n - k
  <2>1. Len(a) = k
    BY <1>1, <1>4
  <2>2. Len(b) = n - k
    BY <1>1, <1>5
  <2> QED
    BY <2>1, <2>2
<1>7. ASSUME NEW i \in 1 .. k PROVE a[i] = s[i]
  <2>1. i \in 1 .. k - 1 + 1 /\ 1 + i - 1 = i
    BY <1>1
  <2> QED
    BY <1>4, <2>1
<1>8. ASSUME NEW i \in 1 .. n - k PROVE b[i] = s[k + i]
  <2>1. i \in 1 .. n - m + 1 /\ m + i - 1 = k + i
    BY <1>1
  <2> QED
    BY <1>5, <2>1
<1> QED
  BY <1>4, <1>5, <1>6, <1>7, <1>8 DEF n

(* What go_to_sleep makes of the list: the entry goes behind those that    *)
(* are not later.                                                          *)
LEMMA Inserted ==
    ASSUME SleepList(slist), NEW e \in Entries,
           \A i \in DOMAIN slist : slist[i].thread # e.thread,
           NEW r, r = InsertAt(slist, LeadingDue(e.wake) + 1, e)
    PROVE  SleepList(r) /\ ToSet(r) = ToSet(slist) \cup {e}
<1> DEFINE n == Len(slist)  k == LeadingDue(e.wake)
           a == SubSeq(slist, 1, k)  b == SubSeq(slist, k + 1, n)
<1>1. /\ slist \in Seq(Entries) /\ n \in Nat /\ DOMAIN slist = 1 .. n
      /\ \A i \in 1 .. n : slist[i] \in Entries
      /\ \A i \in 1 .. n : slist[i].wake \in Int
      /\ e.wake \in Clock /\ e.wake \in Int
  <2>1. /\ slist \in Seq(Entries) /\ n \in Nat /\ DOMAIN slist = 1 .. n
        /\ \A i \in 1 .. n : slist[i] \in Entries
    BY DEF SleepList
  <2>2. \A x \in Entries : x.wake \in Clock
    BY DEF Entries
  <2>3. \A x \in Clock : x \in Int
    BY Widths DEF Clock
  <2> HIDE DEF n
  <2> QED
    BY <2>1, <2>2, <2>3
<1>2. k \in 0 .. n /\ \A i \in 1 .. n : i <= k <=> slist[i].wake <= e.wake
  BY <1>1, DueLemma
<1>3. r = (a \o <<e>>) \o b
  <2>1. (k + 1) - 1 = k
    BY <1>1, <1>2
  <2> QED
    BY <2>1 DEF InsertAt
<1>4. /\ a \in Seq(Entries) /\ Len(a) = k /\ \A i \in 1 .. k : a[i] = slist[i]
      /\ b \in Seq(Entries) /\ Len(b) = n - k
      /\ \A i \in 1 .. n - k : b[i] = slist[k + i]
  <2>1. k \in 0 .. Len(slist) /\ a = SubSeq(slist, 1, k) /\ b = SubSeq(slist, k + 1, Len(slist))
    BY <1>2
  <2>2. slist \in Seq(Entries)
    BY <1>1
  <2> HIDE DEF a, b, k, n
  <2>3. /\ a \in Seq(Entries) /\ Len(a) = k /\ \A i \in 1 .. k : a[i] = slist[i]
        /\ b \in Seq(Entries) /\ Len(b) = Len(slist) - k
        /\ \A i \in 1 .. Len(slist) - k : b[i] = slist[k + i]
    BY <2>1, <2>2, Cut
  <2> QED BY <2>3 DEF n
<1> HIDE DEF a, b, k, n
<1> DEFINE c == a \o <<e>>
<1>5. /\ c \in Seq(Entries) /\ Len(c) = k + 1
      /\ \A i \in 1 .. k : c[i] = slist[i]
      /\ c[k + 1] = e
  <2>1. <<e>> \in Seq(Entries) /\ Len(<<e>>) = 1 /\ <<e>>[1] = e
    OBVIOUS
  <2> DEFINE f == <<e>>
  <2> HIDE DEF f
  <2>2. /\ a \o f \in Seq(Entries) /\ Len(a \o f) = k + 1
        /\ \A i \in 1 .. k + 1 : (a \o f)[i] = IF i <= k THEN a[i] ELSE f[i - k]
    BY <1>4, <2>1, ConcatProperties DEF f
  <2>3. (k + 1) - k = 1 /\ k + 1 \in 1 .. k + 1 /\ ~(k + 1 <= k)
    BY <1>1, <1>2
  <2>4. (a \o f)[k + 1] = e
    BY <2>1, <2>2, <2>3 DEF f
  <2>5. ASSUME NEW i \in 1 .. k PROVE (a \o f)[i] = slist[i]
    <3>1. i \in 1 .. k + 1 /\ i <= k
      BY <1>1, <1>2
    <3> QED BY <1>4, <2>2, <3>1
  <2> QED BY <2>2, <2>4, <2>5 DEF f
<1> HIDE DEF c
<1>6. /\ r \in Seq(Entries) /\ Len(r) = n + 1
      /\ \A i \in 1 .. n + 1 : r[i] = IF i <= k + 1 THEN c[i] ELSE b[i - (k + 1)]
  <2> DEFINE d == c \o b
  <2>1. Len(c) + Len(b) = n + 1
    BY <1>1, <1>2, <1>4, <1>5
  <2>2. /\ d \in Seq(Entries) /\ Len(d) = Len(c) + Len(b)
        /\ \A i \in 1 .. Len(c) + Len(b) : d[i] = IF i <= Len(c) THEN c[i] ELSE b[i - Len(c)]
    <3>1. c \in Seq(Entries) /\ b \in Seq(Entries)
      BY <1>4, <1>5
    <3> HIDE DEF Entries
    <3> QED
      BY <3>1, ConcatProperties
  <2>3. r = d
    BY <1>3 DEF c
  <2> HIDE DEF d
  <2> QED
    BY <1>5, <2>1, <2>2, <2>3
<1>7. /\ \A i \in 1 .. k : r[i] = slist[i]
      /\ r[k + 1] = e
      /\ \A i \in k + 1 .. n : r[i + 1] = slist[i]
  <2>1. \A i \in 1 .. k : i \in 1 .. n + 1 /\ i <= k + 1
    BY <1>1, <1>2
  <2>2. k + 1 \in 1 .. n + 1 /\ k + 1 <= k + 1
    BY <1>1, <1>2
  <2>3. ASSUME NEW i \in k + 1 .. n PROVE r[i + 1] = slist[i]
    <3>1. /\ i + 1 \in 1 .. n + 1 /\ ~(i + 1 <= k + 1)
          /\ (i + 1) - (k + 1) = i - k /\ i - k \in 1 .. n - k /\ k + (i - k) = i
      BY <1>1, <1>2
    <3> QED
      BY <1>4, <1>6, <3>1
  <2> QED
    BY <1>5, <1>6, <2>1, <2>2, <2>3
<1>8. ASSUME NEW i \in 1 .. n + 1
      PROVE  \/ i \in 1 .. k /\ i \in 1 .. n /\ r[i] = slist[i]
             \/ i = k + 1 /\ r[i] = e
             \/ i - 1 \in k + 1 .. n /\ i - 1 \in 1 .. n /\ r[i] = slist[i - 1]
  <2>1. CASE i \in 1 .. k
    BY <1>1, <1>2, <1>7, <2>1
  <2>2. CASE i = k + 1
    BY <1>7, <2>2
  <2>3. CASE i > k + 1
    <3>1. i - 1 \in k + 1 .. n /\ i - 1 \in 1 .. n /\ (i - 1) + 1 = i
      BY <1>1, <1>2, <2>3
    <3> QED
      BY <1>7, <3>1
  <2> QED
    BY <1>1, <1>2, <2>1, <2>2, <2>3
<1>9. DOMAIN r = 1 .. n + 1
  BY <1>6
<1>10. ASSUME NEW i \in 1 .. n + 1, NEW j \in 1 .. n + 1, r[i].thread = r[j].thread
       PROVE  i = j
  <2>1. \A x, y \in 1 .. n : slist[x].thread = slist[y].thread => x = y
    BY <1>1 DEF SleepList
  <2>2. \A x \in 1 .. n : slist[x].thread # e.thread
    BY <1>1
  <2> QED
    BY <1>1, <1>2, <1>8, <1>10, <2>1, <2>2
<1>11. ASSUME NEW i \in 1 .. n + 1, NEW j \in 1 .. n + 1, i <= j
       PROVE  r[i].wake <= r[j].wake
  <2>1. \A x, y \in 1 .. n : x <= y => slist[x].wake <= slist[y].wake
    BY <1>1 DEF SleepList
  <2>2. \A x \in 1 .. n : x \in 1 .. k => slist[x].wake <= e.wake
    BY <1>1, <1>2
  <2>3. \A x \in 1 .. n : x \in k + 1 .. n => e.wake <= slist[x].wake
    BY <1>1, <1>2
  <2> QED
    BY <1>1, <1>2, <1>8, <1>11, <2>1, <2>2, <2>3
<1>12. ToSet(r) = ToSet(slist) \cup {e}
  <2>1. \A x \in ToSet(r) : x \in ToSet(slist) \cup {e}
    BY <1>1, <1>8, <1>9 DEF ToSet
  <2>2. e \in ToSet(r)
    BY <1>1, <1>2, <1>7, <1>9 DEF ToSet
  <2>3. ASSUME NEW i \in 1 .. n PROVE slist[i] \in ToSet(r)
    <3>1. i \in 1 .. n + 1 /\ i + 1 \in 1 .. n + 1 /\ (i \in 1 .. k \/ i \in k + 1 .. n)
      BY <1>1, <1>2
    <3> QED
      BY <1>7, <1>9, <3>1 DEF ToSet
  <2> QED
    BY <1>1, <2>1, <2>2, <2>3 DEF ToSet
<1> QED
  BY <1>6, <1>9, <1>10, <1>11, <1>12 DEF SleepList

(* What wake_up makes of it: those that are due leave, the others stay. *)
LEMMA Removed ==
    ASSUME SleepList(slist), NEW now \in Clock,
           NEW r, r = SubSeq(slist, LeadingDue(now) + 1, Len(slist)),
           NEW w, w = [i \in 1 .. LeadingDue(now) |-> slist[i].thread]
    PROVE  /\ SleepList(r)
           /\ ToSet(r) = {x \in ToSet(slist) : ~(x.wake <= now)}
           /\ IsQueue(w)
           /\ ToSet(w) = {x.thread : x \in {y \in ToSet(slist) : y.wake <= now}}
<1> DEFINE n == Len(slist)  k == LeadingDue(now)
<1>1. /\ slist \in Seq(Entries) /\ n \in Nat /\ DOMAIN slist = 1 .. n
      /\ \A i \in 1 .. n : slist[i].thread \in Procs
  <2>1. slist \in Seq(Entries) /\ \A x \in Entries : x.thread \in Procs
    BY DEF SleepList, Entries, Procs
  <2> QED
    BY <2>1
<1>2. k \in 0 .. n /\ \A i \in 1 .. n : i <= k <=> slist[i].wake <= now
  BY DueLemma
<1>3. /\ r \in Seq(Entries) /\ Len(r) = n - k
      /\ \A i \in 1 .. n - k : r[i] = slist[k + i]
  BY <1>1, <1>2, Cut
<1>4. w = [i \in 1 .. k |-> slist[i].thread]
  OBVIOUS
<1> HIDE DEF n, k
<1>5. DOMAIN r = 1 .. n - k /\ \A i \in 1 .. n - k : k + i \in 1 .. n /\ ~(k + i <= k)
  BY <1>1, <1>2, <1>3
<1>6. /\ w \in Seq(Procs) /\ DOMAIN w = 1 .. k /\ \A i \in 1 .. k : i \in 1 .. n /\ i <= k
      /\ \A i \in 1 .. k : w[i] = slist[i].thread
  <2>1. k \in Nat /\ \A i \in 1 .. k : i \in 1 .. n /\ i <= k
    BY <1>1, <1>2
  <2>2. w \in [1 .. k -> Procs]
    BY <1>1, <1>4, <2>1
  <2>3. w \in Seq(Procs)
    <3>1. k \in Nat
      BY <2>1
    <3> QED
      BY <2>2, <3>1, SeqDef
  <2> QED
    BY <1>4, <2>1, <2>2, <2>3
<1>7. SleepList(r)
  <2>1. ASSUME NEW i \in DOMAIN r, NEW j \in DOMAIN r
        PROVE  /\ r[i].thread = r[j].thread => i = j
               /\ i <= j => r[i].wake <= r[j].wake
    <3>1. /\ k + i \in DOMAIN slist /\ k + j \in DOMAIN slist
          /\ r[i] = slist[k + i] /\ r[j] = slist[k + j]
      BY <1>1, <1>3, <1>5
    <3>2. (k + i = k + j <=> i = j) /\ (i <= j => k + i <= k + j)
      BY <1>1, <1>2, <1>5
    <3> QED
      BY <3>1, <3>2 DEF SleepList
  <2> QED
    BY <1>3, <2>1 DEF SleepList
<1>8. ToSet(r) = {x \in ToSet(slist) : ~(x.wake <= now)}
  <2>1. \A x \in ToSet(r) : x \in ToSet(slist) /\ ~(x.wake <= now)
    BY <1>1, <1>2, <1>3, <1>5 DEF ToSet
  <2>2. ASSUME NEW i \in 1 .. n, ~(slist[i].wake <= now) PROVE slist[i] \in ToSet(r)
    <3>1. i - k \in 1 .. n - k /\ k + (i - k) = i
      BY <1>1, <1>2, <2>2
    <3> QED
      BY <1>3, <1>5, <3>1 DEF ToSet
  <2> QED
    BY <1>1, <2>1, <2>2 DEF ToSet
<1>9. NoDuplicates(w)
  BY <1>1, <1>6 DEF NoDuplicates, SleepList
<1>10. ToSet(w) = {x.thread : x \in {y \in ToSet(slist) : y.wake <= now}}
  <2>1. \A x \in ToSet(w) : \E i \in 1 .. k : x = slist[i].thread
    BY <1>6 DEF ToSet
  <2>2. \A i \in 1 .. k : slist[i] \in ToSet(slist) /\ slist[i].wake <= now
    BY <1>1, <1>2, <1>6 DEF ToSet
  <2>3. ASSUME NEW i \in 1 .. n, slist[i].wake <= now PROVE slist[i].thread \in ToSet(w)
    <3>1. i \in 1 .. k
      BY <1>1, <1>2, <2>3
    <3> QED
      BY <1>6, <3>1 DEF ToSet
  <2>4. ASSUME NEW y \in ToSet(slist), y.wake <= now PROVE y.thread \in ToSet(w)
    <3>1. PICK i \in 1 .. n : y = slist[i]
      BY <1>1 DEF ToSet
    <3> QED
      BY <2>3, <2>4, <3>1
  <2> QED
    BY <2>1, <2>2, <2>4
<1> QED
  BY <1>6, <1>7, <1>8, <1>9, <1>10 DEF IsQueue

-----------------------------------------------------------------------------
(* The inductive invariant. *)

Types ==
    /\ ticks \in Clock
    /\ spc \in [Threads -> {"out", "read", "insert", "asleep"}]
    /\ arg \in [Threads -> SleepArgs \cup {0}]
    /\ time \in [Threads -> Clock]
    /\ since \in [Threads -> 0 .. W]

(* The entries are those of the blocked threads, and only sleep blocks.    *)
Sleepers ==
    /\ SleepList(slist)
    /\ \A t \in Threads : Listed(t) <=> (spc[t] = "asleep" /\ tstate[t] = "BLOCKED")
    /\ \A t \in Threads : tstate[t] # "RUNNABLE" => tstate[t] = "BLOCKED" /\ spc[t] = "asleep"
    /\ \A x \in ToSet(slist) : x.wake = WakeTime(x.thread)

(* Until the counter wraps, the ticks since the read are the difference    *)
(* between the count now and the count read.                               *)
Clocks ==
    /\ \A t \in Threads : spc[t] \in {"out", "read"} => since[t] = 0
    /\ \A t \in Threads : spc[t] \in {"insert", "asleep"} /\ time[t] + since[t] < W
                             => ticks = time[t] + since[t]

SleepIInv == SchedInv /\ Types /\ Sleepers /\ Clocks /\ NeverEarly

LEMMA ListedInSet ==
    ASSUME SleepList(slist), NEW t \in Threads
    PROVE  Listed(t) <=> \E x \in ToSet(slist) : x.thread = t
  BY DEF Listed, ToSet

LEMMA WakeTimeInClock ==
    ASSUME Types, NEW t \in Threads
    PROVE  /\ WakeTime(t) \in Clock
           /\ time[t] + arg[t] < W => WakeTime(t) = time[t] + arg[t]
           /\ ticks \in Int /\ time[t] \in Int /\ arg[t] \in Int /\ since[t] \in Int
           /\ 0 <= arg[t] /\ 0 <= since[t] /\ 0 <= time[t]
<1>1. /\ time[t] \in 0 .. W - 1 /\ arg[t] \in Nat /\ since[t] \in 0 .. W
      /\ ticks \in 0 .. W - 1 /\ W \in Nat \ {0}
  <2>1. time[t] \in Clock /\ arg[t] \in SleepArgs \cup {0} /\ since[t] \in 0 .. W /\ ticks \in Clock
    BY DEF Types
  <2>2. arg[t] \in Nat
    BY <2>1, Widths
  <2> QED
    BY <2>1, <2>2, Widths DEF Clock
<1> DEFINE a == time[t] + arg[t]
<1>2. a \in Nat
  BY <1>1
<1> HIDE DEF a
<1>3. a % W \in 0 .. W - 1 /\ (a < W => a % W = a)
  BY <1>1, <1>2
<1> QED
  BY <1>1, <1>3 DEF WakeTime, a, Clock

LEMMA SleepInitIInv == SleepInit => SleepIInv
<1> SUFFICES ASSUME SleepInit PROVE SleepIInv
  OBVIOUS
<1>1. PICK s \in SetToSeqs(Threads) : runq = Append(s, Idle)
  BY DEF SleepInit
<1>2. IsQueue(runq) /\ ToSet(runq) = Procs
  BY <1>1, QueueOfAll
<1>3. SchedInv
  BY <1>2 DEF SleepInit, SchedInv, SchedTypeOK, RunqExact, IsQueue, Procs, Runnable, ThreadStates
<1>4. Types
  BY Widths DEF SleepInit, Types, Clock
<1>5. slist = <<>> /\ DOMAIN slist = {} /\ ToSet(slist) = {}
  BY DEF SleepInit, ToSet
<1>6. Sleepers
  <2>1. SleepList(slist)
    <3>1. slist \in Seq(Entries)
      BY <1>5
    <3> QED
      BY <1>5, <3>1 DEF SleepList
  <2> QED
    BY <1>5, <2>1 DEF SleepInit, Sleepers, Listed, Procs
<1>7. Clocks /\ NeverEarly
  BY DEF SleepInit, Clocks, NeverEarly, Woken
<1> QED
  BY <1>3, <1>4, <1>6, <1>7 DEF SleepIInv

(* A step of a thread that leaves the list and the scheduler alone. *)
LEMMA QuietStep ==
    ASSUME SleepIInv, NEW t \in Threads, curr = t, Types', Clocks',
           UNCHANGED <<schedVars, slist>>,
           spc'[t] # "asleep",
           \A u \in Threads : u # t => /\ spc'[u] = spc[u] /\ arg'[u] = arg[u]
                                       /\ time'[u] = time[u] /\ since'[u] = since[u]
    PROVE  SleepIInv'
<1>1. /\ SleepList(slist) /\ slist' = slist /\ tstate' = tstate /\ runq' = runq
      /\ curr' = curr /\ SchedInv
  BY DEF SleepIInv, Sleepers, schedVars
<1>2. SchedInv'
  BY <1>1 DEF SchedInv, SchedTypeOK, RunqExact, Runnable, NoDuplicates
<1>3. tstate[t] = "RUNNABLE"
  BY <1>1 DEF SchedInv, RunqExact, Runnable
<1>4. ~Listed(t)
  BY <1>3 DEF SleepIInv, Sleepers
<1>5. Sleepers'
  <2>1. \A u \in Threads : Listed(u)' <=> Listed(u)
    BY <1>1 DEF Listed
  <2>2. \A u \in Threads : Listed(u)' <=> (spc'[u] = "asleep" /\ tstate'[u] = "BLOCKED")
    BY <1>1, <1>3, <1>4, <2>1 DEF SleepIInv, Sleepers
  <2>3. \A u \in Threads : tstate'[u] # "RUNNABLE" => tstate'[u] = "BLOCKED" /\ spc'[u] = "asleep"
    BY <1>1, <1>3 DEF SleepIInv, Sleepers
  <2>4. ASSUME NEW x \in ToSet(slist) PROVE x.wake = WakeTime(x.thread)'
    <3>1. x.thread \in Threads /\ x.thread # t
      <4>1. PICK i \in DOMAIN slist : x = slist[i]
        BY DEF ToSet
      <4>2. x \in Entries
        BY <1>1, <4>1 DEF SleepList
      <4> QED
        BY <1>4, <4>1, <4>2 DEF Listed, Entries
    <3> QED
      BY <3>1 DEF WakeTime, SleepIInv, Sleepers
  <2> QED
    BY <1>1, <2>2, <2>3, <2>4 DEF Sleepers, SleepList
<1>6. NeverEarly'
  BY <1>1 DEF SleepIInv, NeverEarly, Woken, NoWrap
<1> QED
  BY <1>2, <1>5, <1>6 DEF SleepIInv

LEMMA CallSleepStep ==
    ASSUME SleepIInv, NEW t \in Threads, NEW n \in SleepArgs, CallSleep(t, n)
    PROVE  SleepIInv'
<1>1. /\ Types /\ curr = t /\ spc[t] = "out" /\ spc'[t] = "read"
      /\ UNCHANGED <<schedVars, slist, ticks, time, since>>
      /\ \A u \in Threads : u # t => spc'[u] = spc[u] /\ arg'[u] = arg[u]
  BY DEF SleepIInv, CallSleep, SleepAt, SleepGoto, Types
<1>2. Types'
  BY DEF SleepIInv, CallSleep, SleepAt, SleepGoto, Types
<1>3. Clocks'
  BY <1>1 DEF SleepIInv, Clocks, Types
<1> QED
  BY <1>1, <1>2, <1>3, QuietStep

LEMMA ReadTicksStep ==
    ASSUME SleepIInv, NEW t \in Threads, ReadTicks(t)
    PROVE  SleepIInv'
<1>1. /\ Types /\ curr = t /\ spc[t] = "read" /\ spc'[t] = "insert" /\ time'[t] = ticks
      /\ UNCHANGED <<schedVars, slist, ticks, arg, since>>
      /\ \A u \in Threads : u # t => spc'[u] = spc[u] /\ time'[u] = time[u]
  BY DEF SleepIInv, ReadTicks, SleepAt, SleepGoto, Types
<1>2. Types'
  BY DEF SleepIInv, ReadTicks, SleepAt, SleepGoto, Types
<1>3. Clocks'
  <2>1. since[t] = 0 /\ ticks \in Int
    BY <1>1, WakeTimeInClock DEF SleepIInv, Clocks
  <2> QED
    BY <1>1, <2>1 DEF SleepIInv, Clocks
<1> QED
  BY <1>1, <1>2, <1>3, QuietStep

LEMMA ReturnStep ==
    ASSUME SleepIInv, NEW t \in Threads, Return(t)
    PROVE  SleepIInv'
<1>1. /\ Types /\ curr = t /\ spc[t] = "asleep" /\ spc'[t] = "out" /\ since'[t] = 0
      /\ UNCHANGED <<schedVars, slist, ticks>>
      /\ \A u \in Threads : u # t => /\ spc'[u] = spc[u] /\ time'[u] = time[u]
                                     /\ arg'[u] = arg[u] /\ since'[u] = since[u]
  BY DEF SleepIInv, Return, SleepAt, SleepGoto, Types
<1>2. Types'
  <2>1. 0 \in Clock /\ 0 \in 0 .. W
    BY Widths DEF Clock
  <2> QED
    BY <2>1 DEF SleepIInv, Return, SleepAt, SleepGoto, Types
<1>3. Clocks'
  BY <1>1 DEF SleepIInv, Clocks
<1> QED
  BY <1>1, <1>2, <1>3, QuietStep

LEMMA GoToSleepStep ==
    ASSUME SleepIInv, NEW t \in Threads, GoToSleep(t)
    PROVE  SleepIInv'
<1>1. /\ Types /\ curr = t /\ spc[t] = "insert" /\ SchedBlock(t)
      /\ spc' = [spc EXCEPT ![t] = "asleep"] /\ spc'[t] = "asleep"
      /\ ticks' = ticks /\ arg' = arg /\ time' = time /\ since' = since
      /\ slist' = InsertAt(slist, LeadingDue(Entry(t).wake) + 1, Entry(t))
      /\ \A u \in Threads : u # t => spc'[u] = spc[u]
  BY DEF SleepIInv, GoToSleep, SleepAt, SleepGoto, Types, Entry, locals
<1>2. tstate[t] = "RUNNABLE"
  BY <1>1 DEF SleepIInv, SchedInv, RunqExact, Runnable
<1>3. SchedInv'
  BY <1>1, <1>2, SchedBlockKeepsInv DEF SleepIInv
<1>4. tstate'[t] = "BLOCKED" /\ \A u \in Threads : u # t => tstate'[u] = tstate[u]
  BY <1>1 DEF SleepIInv, SchedInv, SchedTypeOK, SchedBlock, Procs
<1>5. Types'
  BY <1>1 DEF Types
<1>6. ~Listed(t) /\ SleepList(slist)
  BY <1>2 DEF SleepIInv, Sleepers
<1>7. Entry(t) \in Entries /\ Entry(t).thread = t /\ Entry(t).wake = WakeTime(t)
  BY <1>1, WakeTimeInClock DEF Entry, Entries
<1>8. SleepList(slist') /\ ToSet(slist') = ToSet(slist) \cup {Entry(t)}
  BY <1>1, <1>6, <1>7, Inserted DEF Listed
<1>9. Sleepers'
  <2>1. \A u \in Threads : Listed(u)' <=> \E x \in ToSet(slist') : x.thread = u
    BY DEF Listed, ToSet
  <2>2. \A u \in Threads : Listed(u) <=> \E x \in ToSet(slist) : x.thread = u
    BY DEF Listed, ToSet
  <2>3. \A u \in Threads : Listed(u)' <=> (Listed(u) \/ u = t)
    BY <1>7, <1>8, <2>1, <2>2
  <2>4. \A u \in Threads : Listed(u)' <=> (spc'[u] = "asleep" /\ tstate'[u] = "BLOCKED")
    BY <1>1, <1>4, <2>3 DEF SleepIInv, Sleepers
  <2>5. \A u \in Threads : tstate'[u] # "RUNNABLE" => tstate'[u] = "BLOCKED" /\ spc'[u] = "asleep"
    BY <1>1, <1>4 DEF SleepIInv, Sleepers
  <2>6. \A x \in ToSet(slist') : x.wake = WakeTime(x.thread)'
    BY <1>1, <1>7, <1>8 DEF SleepIInv, Sleepers, WakeTime
  <2> QED
    BY <1>8, <2>4, <2>5, <2>6 DEF Sleepers, SleepList
<1>10. Clocks'
  BY <1>1 DEF SleepIInv, Clocks
<1>11. NeverEarly'
  BY <1>1, <1>4 DEF SleepIInv, NeverEarly, Woken, NoWrap
<1> QED
  BY <1>3, <1>5, <1>9, <1>10, <1>11 DEF SleepIInv

(* The timer: those that are due enter the run queue, the others stay. *)
LEMMA TickStep ==
    ASSUME SleepIInv, TimerTick
    PROVE  /\ SleepIInv'
           /\ \A t \in Threads : Listed(t)' => Listed(t)
           /\ \A t \in Threads : Listed(t)' /\ NoWrap(t)' => since'[t] < arg[t]
<1> DEFINE now == NextTick
           k == LeadingDue(now)
           woken == [i \in 1 .. k |-> slist[i].thread]
           q == Reverse(woken) \o runq
           left == SubSeq(slist, k + 1, Len(slist))
           due == {x \in ToSet(slist) : x.wake <= now}
<1>1. /\ Types /\ SchedInv /\ SleepList(slist)
      /\ ticks' = now /\ spc' = spc /\ arg' = arg /\ time' = time
      /\ slist' = left
      /\ tstate' = [p \in Procs |-> IF p \in ToSet(woken) THEN "RUNNABLE" ELSE tstate[p]]
      /\ ScheduleUnprotected(q)
      /\ since' = [t \in Threads |-> IF spc[t] \in {"insert", "asleep"} /\ since[t] < W
                                     THEN since[t] + 1 ELSE since[t]]
  BY DEF SleepIInv, Sleepers, TimerTick, WakeUp, locals
<1>2. now \in Clock /\ (ticks + 1 < W => now = ticks + 1)
  <2>1. ticks \in 0 .. W - 1 /\ W \in Nat \ {0}
    BY <1>1, Widths DEF Types, Clock
  <2> DEFINE a == ticks + 1
  <2>2. a \in Nat
    BY <2>1
  <2> HIDE DEF a
  <2>3. a % W \in 0 .. W - 1 /\ (a < W => a % W = a)
    BY <2>1, <2>2
  <2> QED
    BY <2>3 DEF NextTick, Clock, a
<1> HIDE DEF now
<1>3. /\ SleepList(left) /\ ToSet(left) = {x \in ToSet(slist) : ~(x.wake <= now)}
      /\ IsQueue(woken) /\ ToSet(woken) = {x.thread : x \in due}
  BY <1>1, <1>2, Removed
<1> HIDE DEF k, woken, left
<1>4. \A x \in ToSet(slist) : /\ x.thread \in Threads /\ Listed(x.thread)
                              /\ x.wake = WakeTime(x.thread)
  <2> TAKE x \in ToSet(slist)
  <2>1. PICK i \in DOMAIN slist : x = slist[i]
    BY DEF ToSet
  <2>2. x \in Entries
    BY <1>1, <2>1 DEF SleepList
  <2> QED
    BY <2>1, <2>2 DEF Listed, Entries, SleepIInv, Sleepers
<1>5. \A t \in Threads : Listed(t) <=> (spc[t] = "asleep" /\ tstate[t] = "BLOCKED")
  BY DEF SleepIInv, Sleepers
<1>6. \A p \in ToSet(woken) : p \in Threads /\ Listed(p) /\ tstate[p] = "BLOCKED" /\ spc[p] = "asleep"
  BY <1>3, <1>4, <1>5
<1>7. SchedInv'
  <2>1. IsQueue(Reverse(woken)) /\ ToSet(Reverse(woken)) = ToSet(woken)
    BY <1>3, QueueReverse
  <2>2. IsQueue(runq) /\ ToSet(runq) = Runnable /\ curr \in ToSet(runq)
    BY <1>1, SchedQueue
  <2>3. ToSet(Reverse(woken)) \cap ToSet(runq) = {}
    BY <1>6, <2>1, <2>2 DEF Runnable
  <2>4. IsQueue(q) /\ ToSet(q) = ToSet(woken) \cup Runnable
    BY <2>1, <2>2, <2>3, QueueConcat
  <2>5. Runnable' = ToSet(woken) \cup Runnable
    <3>1. ToSet(woken) \subseteq Procs
      BY <1>6 DEF Procs
    <3> QED
      BY <1>1, <3>1 DEF Runnable
  <2>6. Idle \in ToSet(q)
    BY <1>1, <2>4 DEF SchedInv, RunqExact
  <2>7. q # <<>>
    BY <2>6 DEF ToSet
  <2>8. tstate' \in [Procs -> ThreadStates]
    BY <1>1 DEF SchedInv, SchedTypeOK, ThreadStates
  <2> HIDE DEF q
  <2> QED
    BY <1>1, <2>4, <2>5, <2>6, <2>7, <2>8, ScheduleKeeps
<1>8. \A t \in Threads : tstate'[t] = IF t \in ToSet(woken) THEN "RUNNABLE" ELSE tstate[t]
  BY <1>1 DEF Procs
<1>9. \A t \in Threads : since'[t] = IF spc[t] \in {"insert", "asleep"} /\ since[t] < W
                                     THEN since[t] + 1 ELSE since[t]
  BY <1>1
<1>10. Types'
  <2>1. ASSUME NEW t \in Threads PROVE since'[t] \in 0 .. W
    <3>1. since[t] \in 0 .. W /\ W \in Nat
      BY <1>1, Widths DEF Types
    <3> QED
      BY <1>9, <3>1
  <2>2. since' \in [Threads -> 0 .. W]
    BY <1>1, <2>1
  <2> QED
    BY <1>1, <1>2, <2>2 DEF Types
<1>11. \A t \in Threads : Listed(t)' <=> Listed(t) /\ t \notin ToSet(woken)
  <2> TAKE t \in Threads
  <2>1. Listed(t) <=> \E x \in ToSet(slist) : x.thread = t
    BY <1>1, ListedInSet
  <2>2. Listed(t)' <=> \E x \in ToSet(left) : x.thread = t
    BY <1>1 DEF Listed, ToSet
  <2>3. \A x, y \in ToSet(slist) : x.thread = y.thread => x = y
    BY <1>1 DEF SleepList, ToSet
  <2> QED
    BY <1>3, <2>1, <2>2, <2>3
<1>12. Sleepers'
  <2>1. \A t \in Threads : Listed(t)' <=> (spc'[t] = "asleep" /\ tstate'[t] = "BLOCKED")
    BY <1>1, <1>5, <1>8, <1>11
  <2>2. \A t \in Threads : tstate'[t] # "RUNNABLE" => tstate'[t] = "BLOCKED" /\ spc'[t] = "asleep"
    BY <1>1, <1>8 DEF SleepIInv, Sleepers
  <2>3. \A x \in ToSet(slist') : x.wake = WakeTime(x.thread)'
    BY <1>1, <1>3, <1>4 DEF WakeTime
  <2> QED
    BY <1>1, <1>3, <2>1, <2>2, <2>3 DEF Sleepers, SleepList
<1>13. ASSUME NEW t \in Threads, spc[t] \in {"insert", "asleep"}, time[t] + since'[t] < W
       PROVE  ticks' = time[t] + since'[t] /\ since'[t] = since[t] + 1
  <2>1. /\ since[t] \in 0 .. W /\ time[t] \in Int /\ 0 <= time[t] /\ W \in Nat
        /\ ticks \in Int
    BY <1>1, Widths, WakeTimeInClock DEF Types
  <2>2. since'[t] = since[t] + 1
    BY <1>9, <1>13, <2>1
  <2>3. ticks = time[t] + since[t]
    BY <1>13, <2>1, <2>2 DEF SleepIInv, Clocks
  <2> QED
    BY <1>1, <1>2, <1>13, <2>1, <2>2, <2>3
<1>14. Clocks'
  <2>1. \A t \in Threads : spc[t] \in {"out", "read"} => since'[t] = 0
    BY <1>9 DEF SleepIInv, Clocks
  <2> QED
    BY <1>1, <1>13, <2>1 DEF Clocks
<1>15. NeverEarly'
  <2> SUFFICES ASSUME NEW t \in Threads, Woken(t)', NoWrap(t)'
               PROVE  since'[t] >= arg[t]
    BY <1>1 DEF NeverEarly
  <2>1. /\ spc[t] = "asleep" /\ time[t] + since'[t] < W /\ time[t] + arg[t] < W
        /\ tstate'[t] = "RUNNABLE"
    BY <1>1 DEF Woken, NoWrap
  <2>2. since'[t] = since[t] + 1 /\ ticks' = time[t] + since'[t]
    BY <1>13, <2>1
  <2>3. /\ WakeTime(t) = time[t] + arg[t]
        /\ time[t] \in Int /\ arg[t] \in Int /\ since[t] \in Int
    BY <1>1, <2>1, WakeTimeInClock
  <2>4. CASE t \in ToSet(woken)
    <3>1. WakeTime(t) <= now
      BY <1>3, <1>4, <2>4
    <3> QED
      BY <1>1, <2>2, <2>3, <3>1
  <2>5. CASE t \notin ToSet(woken)
    <3>1. Woken(t) /\ NoWrap(t)
      <4>1. tstate[t] = "RUNNABLE"
        BY <1>8, <2>1, <2>5
      <4>2. time[t] + since[t] < W
        <5>1. W \in Nat
          BY Widths
        <5> QED
          BY <2>1, <2>2, <2>3, <5>1
      <4> QED
        BY <2>1, <4>1, <4>2 DEF Woken, NoWrap
    <3>2. since[t] >= arg[t]
      BY <3>1 DEF SleepIInv, NeverEarly
    <3> QED
      BY <2>2, <2>3, <3>2
  <2> QED
    BY <2>4, <2>5
<1>16. ASSUME NEW t \in Threads, Listed(t)', NoWrap(t)' PROVE since'[t] < arg[t]
  <2>1. Listed(t) /\ t \notin ToSet(woken)
    BY <1>11, <1>16
  <2>2. PICK x \in ToSet(slist) : x.thread = t
    BY <1>1, <2>1, ListedInSet
  <2>3. ~(x.wake <= now) /\ x.wake = WakeTime(t)
    BY <1>3, <1>4, <2>1, <2>2
  <2>4. spc[t] = "asleep" /\ time[t] + since'[t] < W /\ time[t] + arg[t] < W
    BY <1>1, <1>5, <1>16, <2>1 DEF NoWrap
  <2>5. ticks' = time[t] + since'[t] /\ since'[t] = since[t] + 1
    BY <1>13, <2>4
  <2>6. /\ WakeTime(t) = time[t] + arg[t]
        /\ time[t] \in Int /\ arg[t] \in Int /\ since[t] \in Int
    BY <1>1, <2>4, WakeTimeInClock
  <2> QED
    BY <1>1, <2>3, <2>5, <2>6
<1> QED
  BY <1>7, <1>10, <1>11, <1>12, <1>14, <1>15, <1>16 DEF SleepIInv

LEMMA StepKeepsInv == SleepIInv /\ [SleepNext]_sleepVars => SleepIInv'
<1> SUFFICES ASSUME SleepIInv, [SleepNext]_sleepVars PROVE SleepIInv'
  OBVIOUS
<1>1. CASE TimerTick
  BY <1>1, TickStep
<1>2. ASSUME NEW t \in Threads, SleepStep(t) PROVE SleepIInv'
  BY <1>2, ReadTicksStep, GoToSleepStep, ReturnStep DEF SleepStep
<1>3. ASSUME NEW t \in Threads, NEW n \in SleepArgs, CallSleep(t, n) PROVE SleepIInv'
  BY <1>3, CallSleepStep
<1>4. CASE UNCHANGED sleepVars
  BY <1>4 DEF SleepIInv, sleepVars, schedVars, locals, SchedInv, SchedTypeOK, RunqExact, Runnable,
              NoDuplicates, Types, Sleepers, SleepList, Listed, WakeTime, Clocks,
              NeverEarly, Woken, NoWrap
<1> QED
  BY <1>1, <1>2, <1>3, <1>4 DEF SleepNext

(* The invariant holds in every reachable state. *)
THEOREM SleepInvariance == SleepSpec => []SleepIInv
<1>1. SleepInit => SleepIInv
  BY SleepInitIInv
<1>2. SleepIInv /\ [SleepNext]_sleepVars => SleepIInv'
  BY StepKeepsInv
<1> QED BY <1>1, <1>2, PTL DEF SleepSpec

(* The run queue and the sleep list are exact, whatever sleep and the      *)
(* timer interrupt do to them from both sides: a blocked thread is in the  *)
(* list once, and only then, so that its entry, which lives on its stack,  *)
(* is not used after it ran on (timer.c:43-49).                            *)
THEOREM SleepListExact == SleepSpec => []SleepConsistent
<1>1. SleepIInv => SleepConsistent
  <2> SUFFICES ASSUME SleepIInv PROVE SleepConsistent
    OBVIOUS
  <2>1. SleepTypes
    BY DEF SleepIInv, SchedInv, Types, Sleepers, SleepList, SleepTypes, Entries, Clock
  <2>2. SleepersListed
    BY DEF SleepIInv, Sleepers, SleepList, SleepersListed
  <2> QED
    BY <2>1, <2>2 DEF SleepConsistent, SleepIInv, SchedInv
<1> QED BY <1>1, SleepInvariance, PTL

(* No thread is woken before the ticks it asked for have passed, as long   *)
(* as the counter does not wrap within its call.                           *)
THEOREM NobodyWokenEarly == SleepSpec => []NeverEarly
<1>1. SleepIInv => NeverEarly
  BY DEF SleepIInv
<1> QED BY <1>1, SleepInvariance, PTL

(* A tick wakes everybody who is due, wherever in the list they are.       *)
THEOREM NobodyOverslept == SleepSpec => TickWakesAllDue
<1>1. SleepIInv /\ [SleepNext]_sleepVars =>
         [ticks' # ticks =>
            \A t \in Threads :
               Listed(t) /\ (Listed(t) /\ NoWrap(t))' => since'[t] < arg[t]]_sleepVars
  <2> SUFFICES ASSUME SleepIInv, [SleepNext]_sleepVars, ticks' # ticks,
                      NEW t \in Threads, Listed(t)', NoWrap(t)'
               PROVE  since'[t] < arg[t]
    OBVIOUS
  <2>1. TimerTick
    BY DEF SleepNext, SleepStep, CallSleep, ReadTicks, GoToSleep, Return, sleepVars
  <2> QED
    BY <2>1, TickStep
<1> QED BY <1>1, SleepInvariance, PTL DEF SleepSpec, TickWakesAllDue
-----------------------------------------------------------------------------
(* The console *)

Offsets == 0..(Height * Width - 1)

(* A valid row and a valid column make a valid offset. *)
LEMMA OffsetInScreen ==
    ASSUME NEW r, NEW c, Valid(r, c)
    PROVE  Coords2Offset(r, c) \in Offsets
<1>1. r \in 0..(Height - 1) /\ c \in 0..(Width - 1)
  BY DEF Valid, Cells
<1>2. Height \in Nat \ {0} /\ Width \in Nat \ {0}
  BY ConsoleAssumption
<1>3. r * Width \in Nat /\ r * Width <= (Height - 1) * Width
  BY <1>1, <1>2
<1>4. (Height - 1) * Width = Height * Width - Width
  BY <1>2
<1>5. Height * Width \in Nat
  BY <1>2
<1> DEFINE x == r * Width  y == Height * Width
<1>6. x \in Nat /\ y \in Nat /\ x <= y - Width
  BY <1>3, <1>4, <1>5
<1> HIDE DEF x, y
<1>7. x + c \in 0..(y - 1)
  BY <1>1, <1>2, <1>6
<1> QED
  BY <1>7 DEF x, y, Coords2Offset, Offsets

LEMMA Sizes == Height \in Nat \ {0} /\ Width \in Nat \ {0}
  BY ConsoleAssumption

LEMMA ValidCoords ==
    ASSUME NEW r \in 0..(Height - 1), NEW c \in 0..(Width - 1)
    PROVE  Valid(r, c)
  BY DEF Valid, Cells

LEMMA LastRowValid == Valid(Height - 1, 0)
<1>1. Height - 1 \in 0..(Height - 1) /\ 0 \in 0..(Width - 1)
  BY Sizes
<1> QED
  BY <1>1, ValidCoords

LEMMA FirstOffset == 0 \in Offsets
<1>1. 0 \in 0..(Height - 1) /\ 0 \in 0..(Width - 1)
  BY Sizes
<1>2. Coords2Offset(0, 0) \in Offsets
  BY <1>1, ValidCoords, OffsetInScreen
<1>3. Coords2Offset(0, 0) = 0
  BY Sizes DEF Coords2Offset
<1> QED
  BY <1>2, <1>3

(* The screen holds characters in colors, also after a draw or a scroll. *)
Arrays == [Cells -> (Chars \cup {" "}) \X Colors]

LEMMA DrawKeeps ==
    ASSUME NEW a \in Arrays, NEW r, NEW c, NEW x \in Chars \cup {" "}, color \in Colors
    PROVE  Draw(a, r, c, x) \in Arrays
  BY DEF Draw, Arrays, Pack, Valid

LEMMA ScrollKeeps ==
    ASSUME NEW a \in Arrays, color \in Colors
    PROVE  Scroll(a) \in Arrays
<1>1. ASSUME NEW p \in Cells, p[1] < Height - 1
      PROVE  <<p[1] + 1, p[2]>> \in Cells
  <2>1. p[1] \in 0..(Height - 1) /\ p[2] \in 0..(Width - 1)
    BY DEF Cells
  <2>2. p[1] + 1 \in 0..(Height - 1)
    BY <1>1, <2>1, Sizes
  <2> QED
    BY <2>1, <2>2 DEF Cells
<1>2. \A p \in Cells : p[1] < Height - 1 => a[<<p[1] + 1, p[2]>>] \in (Chars \cup {" "}) \X Colors
  BY <1>1 DEF Arrays
<1> QED
  BY <1>2 DEF Scroll, Arrays, Pack

-----------------------------------------------------------------------------
LEMMA InitConsistent == ConsoleInit => CursorConsistent
<1>1. SUFFICES ASSUME ConsoleInit PROVE CursorConsistent
  OBVIOUS
<1>2. ConsoleTypes
  BY <1>1, ConsoleAssumption DEF ConsoleInit, ConsoleTypes, Pack
<1>3. off \in Offsets /\ crtc \in Offsets
  BY <1>1, FirstOffset DEF ConsoleInit
<1>4. \A t \in Callers : stage[t] \notin {"crtc", "offset"}
  BY <1>1 DEF ConsoleInit
<1> QED
  BY <1>2, <1>3, <1>4 DEF CursorConsistent, Offsets

(* A step of t that may have moved the cursor's labels of nobody else. *)
OthersKept(t) ==
    \A u \in Callers \ {t} : stage'[u] = stage[u] /\ next'[u] = next[u]

(* What set_cursor_raw leaves in next, when it goes on to write. *)
LEMMA SetCursorRawKeeps ==
    ASSUME CursorConsistent, NEW t \in Callers, NEW r, NEW c,
           NEW failed \in {"return", "next", "newline"},
           SetCursorRaw(t, r, c, failed)
    PROVE  /\ DOMAIN stage' = Callers /\ DOMAIN next' = Callers
           /\ OthersKept(t)
           /\ stage'[t] # "out"
           /\ stage'[t] \in {"crtc", "offset"} => next'[t] \in Offsets
<1>1. CASE Valid(r, c)
  <2>1. /\ stage' = [stage EXCEPT ![t] = "crtc"]
        /\ next' = [next EXCEPT ![t] = Coords2Offset(r, c)]
    BY <1>1 DEF SetCursorRaw, ToStage
  <2>2. Coords2Offset(r, c) \in Offsets
    BY <1>1, OffsetInScreen
  <2> QED
    BY <2>1, <2>2 DEF CursorConsistent, ConsoleTypes, OthersKept
<1>2. CASE ~Valid(r, c)
  BY <1>2 DEF SetCursorRaw, ToStage, CursorConsistent, ConsoleTypes, OthersKept
<1> QED
  BY <1>1, <1>2

(* A step under the lock that leaves the screen but for its cells. *)
LEMMA MoveKeeps ==
    ASSUME CursorConsistent, NEW t \in Callers, NEW r, NEW c,
           NEW failed \in {"return", "next", "newline"},
           SetCursorRaw(t, r, c, failed),
           owner' = t, owner \in {Nobody, t}, Nobody \notin Callers,
           array' \in Arrays, UNCHANGED <<off, crtc, color>>
    PROVE  CursorConsistent'
<1>1. /\ DOMAIN stage' = Callers /\ DOMAIN next' = Callers
      /\ OthersKept(t) /\ stage'[t] # "out"
      /\ stage'[t] \in {"crtc", "offset"} => next'[t] \in Offsets
  BY SetCursorRawKeeps
<1>2. \A u \in Callers : (owner' = u) <=> (stage'[u] # "out")
  BY <1>1 DEF CursorConsistent, ConsoleTypes, OthersKept
<1>3. ConsoleTypes'
  BY <1>1, <1>2 DEF CursorConsistent, ConsoleTypes, Arrays
<1>4. \A u \in Callers : stage'[u] \in {"crtc", "offset"} => next'[u] \in Offsets
  BY <1>1 DEF CursorConsistent, OthersKept, Offsets
<1> QED
  BY <1>3, <1>4 DEF CursorConsistent, Offsets

(* A step under the lock that only goes from one label to another. *)
LEMMA GotoKeeps ==
    ASSUME CursorConsistent, NEW t \in Callers, NEW label, ToStage(t, label),
           label \notin {"out", "crtc", "offset"},
           owner' = t, owner \in {Nobody, t}, Nobody \notin Callers,
           array' \in Arrays, UNCHANGED <<off, crtc, color, next>>
    PROVE  CursorConsistent'
<1>1. /\ DOMAIN stage' = Callers /\ stage'[t] = label
      /\ \A u \in Callers \ {t} : stage'[u] = stage[u]
  BY DEF ToStage, CursorConsistent, ConsoleTypes
<1>2. \A u \in Callers : (owner' = u) <=> (stage'[u] # "out")
  BY <1>1 DEF CursorConsistent, ConsoleTypes
<1>3. ConsoleTypes'
  BY <1>1, <1>2 DEF CursorConsistent, ConsoleTypes, Arrays
<1> QED
  BY <1>1, <1>3 DEF CursorConsistent

(* A call returns: the lock is free, its caller out. *)
LEMMA LeaveKeeps ==
    ASSUME CursorConsistent, NEW t \in Callers, owner = t, Leave(t), UNCHANGED screen
    PROVE  CursorConsistent'
<1>1. /\ DOMAIN stage' = Callers /\ DOMAIN next' = Callers
      /\ stage'[t] = "out" /\ OthersKept(t) /\ owner' = Nobody
  BY DEF Leave, ToStage, CursorConsistent, ConsoleTypes, OthersKept
<1>2. Nobody \notin Callers
  BY ConsoleAssumption
<1>3. \A u \in Callers : (owner' = u) <=> (stage'[u] # "out")
  BY <1>1, <1>2 DEF CursorConsistent, ConsoleTypes, OthersKept
<1>4. ConsoleTypes'
  BY <1>1, <1>3 DEF CursorConsistent, ConsoleTypes, screen
<1>5. \A u \in Callers : stage'[u] \in {"crtc", "offset"} => next'[u] \in Offsets
  BY <1>1 DEF CursorConsistent, OthersKept, Offsets
<1> QED
  BY <1>4, <1>5 DEF CursorConsistent, Offsets, screen

(* Who is past a call's entry has the lock. *)
LEMMA InsideOwns ==
    ASSUME CursorConsistent, NEW t \in Callers, stage[t] # "out"
    PROVE  owner = t
  BY DEF CursorConsistent, ConsoleTypes

(* An echo writes the offset of a valid place, or leaves it alone. *)
LEMMA MoveOrScrollKeeps ==
    ASSUME NEW a \in Arrays, NEW r, NEW c, color \in Colors
    PROVE  /\ MoveOrScroll(a, r, c).array \in Arrays
           /\ MoveOrScroll(a, r, c).off \in Offsets
<1>1. Coords2Offset(Height - 1, 0) \in Offsets
  BY LastRowValid, OffsetInScreen
<1>2. Scroll(a) \in Arrays
  BY ScrollKeeps
<1>3. Valid(r, c) => Coords2Offset(r, c) \in Offsets
  BY OffsetInScreen
<1> QED
  BY <1>1, <1>2, <1>3 DEF MoveOrScroll

LEMMA EchoByteKeeps ==
    ASSUME CursorConsistent, NEW x \in Inputs
    PROVE  EchoByte(x).array \in Arrays /\ EchoByte(x).off \in Offsets
<1>1. array \in Arrays /\ off \in Offsets /\ color \in Colors
  BY DEF CursorConsistent, ConsoleTypes, Arrays, Offsets
<1> DEFINE r == off \div Width  c == off - r * Width
<1> HIDE DEF r, c
<1>2. Draw(array, r, c - 1, " ") \in Arrays
  BY <1>1, DrawKeeps
<1>3. CASE x = "nl"
  BY <1>1, <1>3, MoveOrScrollKeeps DEF EchoByte, r, c
<1>4. CASE x = "cr"
  BY <1>1, <1>4, MoveOrScrollKeeps DEF EchoByte, r, c
<1>5. CASE x = "bs"
  <2>1. EchoByte(x) = IF c > 0 THEN MoveOrScroll(Draw(array, r, c - 1, " "), r, c - 1)
                      ELSE [array |-> array, off |-> off]
    BY <1>5 DEF EchoByte, r, c
  <2> DEFINE moved == MoveOrScroll(Draw(array, r, c - 1, " "), r, c - 1)
  <2>2. moved.array \in Arrays /\ moved.off \in Offsets
    BY <1>1, <1>2, MoveOrScrollKeeps
  <2> HIDE DEF moved
  <2>3. EchoByte(x) = moved \/ EchoByte(x) = [array |-> array, off |-> off]
    BY <2>1 DEF moved
  <2> QED
    BY <1>1, <2>2, <2>3
<1>6. CASE x \notin {"nl", "cr", "bs"}
  <2>1. EchoByte(x) = MoveOrScroll(Draw(array, r, c, x), IncRow(r, c), IncCol(c))
    BY <1>6 DEF EchoByte, r, c
  <2>2. Draw(array, r, c, x) \in Arrays
    BY <1>1, <1>6, DrawKeeps DEF Inputs
  <2> QED
    BY <1>1, <2>1, <2>2, MoveOrScrollKeeps
<1> QED
  BY <1>3, <1>4, <1>5, <1>6

-----------------------------------------------------------------------------
(* The steps *)

LEMMA EchoKeeps == CursorConsistent /\ Echo => CursorConsistent'
<1>1. SUFFICES ASSUME CursorConsistent, Echo PROVE CursorConsistent'
  OBVIOUS
<1>2. PICK x \in Inputs :
        /\ array' = EchoByte(x).array /\ off' = EchoByte(x).off
        /\ crtc' = IF x = "bs" /\ off % Width = 0 THEN crtc ELSE EchoByte(x).off
  BY <1>1 DEF Echo
<1>3. array' \in Arrays /\ off' \in Offsets /\ crtc' \in Offsets
  BY <1>1, <1>2, EchoByteKeeps DEF CursorConsistent, Offsets
<1>4. UNCHANGED <<color, owner, stage, next>>
  BY <1>1 DEF Echo, callLocals
<1> QED
  BY <1>1, <1>3, <1>4 DEF CursorConsistent, ConsoleTypes, Arrays, Offsets

LEMMA CallKeeps ==
    ASSUME CursorConsistent, NEW t \in Callers, Call(t)
    PROVE  CursorConsistent'
<1> Nobody \notin Callers
  BY ConsoleAssumption
<1> array \in Arrays
  BY DEF CursorConsistent, ConsoleTypes, Arrays
<1>1. CASE SetTermColor(t)
  BY <1>1 DEF SetTermColor, CursorConsistent, ConsoleTypes, callLocals
<1>2. CASE CallPrint(t)
  <2>1. /\ owner = Nobody /\ owner' = t /\ ToStage(t, "next")
        /\ UNCHANGED <<array, off, crtc, color, next>>
    BY <1>2 DEF CallPrint, Lock, screen, callLocals
  <2> QED
    BY <2>1, GotoKeeps
<1>3. CASE CallGetCursor(t)
  <2>1. /\ owner = Nobody /\ owner' = t /\ ToStage(t, "get_row")
        /\ UNCHANGED <<array, off, crtc, color, next>>
    BY <1>3 DEF CallGetCursor, Lock, screen, callLocals
  <2> QED
    BY <2>1, GotoKeeps
<1>4. CASE CallSetCursor(t)
  <2>1. /\ owner = Nobody /\ owner' = t
        /\ UNCHANGED <<array, off, crtc, color>>
    BY <1>4 DEF CallSetCursor, Lock, screen
  <2>2. PICK r \in -1..Height, c \in -1..Width : SetCursorRaw(t, r, c, "return")
    BY <1>4 DEF CallSetCursor
  <2> QED
    BY <2>1, <2>2, MoveKeeps
<1> QED
  BY <1>1, <1>2, <1>3, <1>4 DEF Call

LEMMA PutByteKeeps ==
    ASSUME CursorConsistent, NEW t \in Callers, PutByte(t)
    PROVE  CursorConsistent'
<1>1. /\ owner = t /\ owner' = t /\ Nobody \notin Callers
      /\ UNCHANGED <<off, crtc, color>>
  BY InsideOwns, ConsoleAssumption
     DEF PutByte, PutNewline, PutReturn, PutBackspace, PutChar, IncCursor, Newline, AtStage
<1>2. array \in Arrays /\ color \in Colors
  BY DEF CursorConsistent, ConsoleTypes, Arrays
<1>3. CASE PutNewline(t)
  BY <1>1, <1>2, <1>3, MoveKeeps DEF PutNewline
<1>4. CASE PutReturn(t)
  BY <1>1, <1>2, <1>4, MoveKeeps DEF PutReturn
<1>5. CASE PutBackspace(t)
  <2>1. CASE /\ array' = Draw(array, row[t], col[t] - 1, " ")
             /\ SetCursorRaw(t, row[t], col[t] - 1, "next")
    <3>1. array' \in Arrays
      BY <1>2, <2>1, DrawKeeps
    <3> QED
      BY <1>1, <2>1, <3>1, MoveKeeps
  <2>2. CASE ToStage(t, "next") /\ UNCHANGED <<array, next>>
    BY <1>1, <1>2, <2>2, GotoKeeps
  <2> QED
    BY <1>5, <2>1, <2>2 DEF PutBackspace
<1>6. CASE PutChar(t)
  <2>1. array' \in Arrays
    BY <1>2, <1>6, DrawKeeps DEF PutChar
  <2> QED
    BY <1>1, <1>6, <2>1, GotoKeeps DEF PutChar
<1>7. CASE IncCursor(t)
  BY <1>1, <1>2, <1>7, MoveKeeps DEF IncCursor
<1>8. CASE Newline(t)
  <2>1. array' \in Arrays
    BY <1>2, <1>8, ScrollKeeps DEF Newline
  <2> QED
    BY <1>1, <1>8, <2>1, MoveKeeps DEF Newline
<1> QED
  BY <1>3, <1>4, <1>5, <1>6, <1>7, <1>8 DEF PutByte

LEMMA StepKeeps ==
    ASSUME CursorConsistent, NEW t \in Callers, CallStep(t)
    PROVE  CursorConsistent'
<1>1. array \in Arrays /\ Nobody \notin Callers
  BY ConsoleAssumption DEF CursorConsistent, ConsoleTypes, Arrays
<1>2. CASE PrintByte(t)
  <2>1. /\ owner' = owner /\ ToStage(t, "row") /\ stage[t] # "out"
        /\ UNCHANGED <<array, off, crtc, color, next>>
    BY <1>2 DEF PrintByte, AtStage, screen
  <2> QED
    BY <1>1, <2>1, InsideOwns, GotoKeeps
<1>3. CASE PrintReturn(t) \/ CursorReturn(t)
  <2>1. stage[t] # "out" /\ Leave(t) /\ UNCHANGED screen
    BY <1>3 DEF PrintReturn, CursorReturn, AtStage
  <2> QED
    BY <2>1, InsideOwns, LeaveKeeps
<1>4. CASE ReadRow(t) \/ ReadCol(t)
  <2>1. /\ owner' = owner /\ stage[t] # "out"
        /\ UNCHANGED <<array, off, crtc, color, next>>
    BY <1>4 DEF ReadRow, ReadCol, AtStage, screen
  <2>2. PICK label \in {"col", "inc_col", "get_col", "put", "inc", "got"} : ToStage(t, label)
    BY <1>4 DEF ReadRow, ReadCol
  <2> QED
    BY <1>1, <2>1, <2>2, InsideOwns, GotoKeeps
<1>5. CASE PutByte(t)
  BY <1>5, PutByteKeeps
<1>6. CASE SetCrtc(t)
  BY <1>6 DEF SetCrtc, AtStage, ToStage, CursorConsistent, ConsoleTypes, callLocals
<1>7. CASE SetOffset(t)
  BY <1>7 DEF SetOffset, After, AtStage, ToStage, CursorConsistent, ConsoleTypes, callLocals
<1> QED
  BY <1>2, <1>3, <1>4, <1>5, <1>6, <1>7 DEF CallStep

(* Whatever is printed and echoed, and in whatever order, the cursor and   *)
(* its image in the hardware stay in the screen, the cells hold characters *)
(* in colors, and who prints has console_lock (console.c:220-321).         *)
THEOREM CursorStaysInScreen == ConsoleSpec => []CursorConsistent
<1>1. ConsoleInit => CursorConsistent
  BY InitConsistent
<1>2. CursorConsistent /\ [ConsoleNext]_consoleVars => CursorConsistent'
  <2>1. SUFFICES ASSUME CursorConsistent, [ConsoleNext]_consoleVars PROVE CursorConsistent'
    OBVIOUS
  <2>2. CASE ConsoleNext
    BY <2>1, <2>2, EchoKeeps, CallKeeps, StepKeeps DEF ConsoleNext
  <2>3. CASE UNCHANGED consoleVars
    BY <2>1, <2>3 DEF consoleVars, screen, callLocals, CursorConsistent, ConsoleTypes
  <2> QED
    BY <2>1, <2>2, <2>3
<1> QED
  BY <1>1, <1>2, PTL DEF ConsoleSpec

-----------------------------------------------------------------------------
(* The calls of the console do what they promise.  The cursor moves only   *)
(* under the lock, or by an echo that makes the call in progress give up   *)
(* its promise; so what a call has read is still true, and at every place  *)
(* of the call the screen is known steps away from what was promised.      *)

CursorRow == off \div Width
CursorCol == off % Width

LEMMA Division ==
    ASSUME NEW d \in Nat \ {0}, NEW n \in Nat
    PROVE  /\ n \div d \in Nat
           /\ n % d \in 0..(d - 1)
           /\ (n \div d) * d = n - (n % d)
<1>1. n \div d \in Nat
  OBVIOUS
<1>2. n % d \in 0..(d - 1)
  OBVIOUS
<1>3. n = d * (n \div d) + (n % d)
  OBVIOUS
<1> QED
  BY <1>1, <1>2, <1>3

LEMMA SmallDivision ==
    ASSUME NEW d \in Nat \ {0}
    PROVE  /\ d % d = 0 /\ d \div d = 1
           /\ \A n \in 0..(d - 1) : n % d = n /\ n \div d = 0
<1>1. ASSUME NEW n \in Nat, NEW q \in Nat, NEW m \in 0..(d - 1), n = q * d + m
      PROVE  n \div d = q /\ n % d = m
  BY <1>1
<1>2. 0 \in 0..(d - 1) /\ d = 1 * d + 0
  OBVIOUS
<1>3. ASSUME NEW n \in 0..(d - 1) PROVE n \in Nat /\ n = 0 * d + n
  OBVIOUS
<1>4. d % d = 0 /\ d \div d = 1
  BY <1>1, <1>2
<1>5. ASSUME NEW n \in 0..(d - 1) PROVE n % d = n /\ n \div d = 0
  BY <1>1, <1>3, <1>5
<1> QED
  BY <1>4, <1>5

LEMMA RowBelow ==
    ASSUME NEW d \in Nat \ {0}, NEW h \in Nat \ {0}, NEW q \in Nat, q * d <= (h * d) - 1
    PROVE  q <= h - 1
<1>1. SUFFICES ASSUME q >= h PROVE FALSE
  OBVIOUS
<1>2. q - h \in Nat
  BY <1>1
<1>3. (q - h) * d \in Nat
  BY <1>2
<1>4. (q - h) * d = (q * d) - (h * d)
  BY <1>2
<1>5. q * d \in Nat /\ h * d \in Nat
  OBVIOUS
<1> QED
  BY <1>3, <1>4, <1>5

(* The row and the column of an offset in the screen. *)
LEMMA CursorInScreen ==
    ASSUME off \in Offsets
    PROVE  /\ CursorRow \in 0..(Height - 1)
           /\ CursorCol \in 0..(Width - 1)
           /\ off - CursorRow * Width = CursorCol
           /\ Coords2Offset(CursorRow, CursorCol) = off
<1>1. off \in Nat /\ off <= Height * Width - 1
  BY Sizes DEF Offsets
<1>2. /\ CursorRow \in Nat /\ CursorCol \in 0..(Width - 1)
      /\ CursorRow * Width = off - CursorCol
  BY <1>1, Sizes, Division DEF CursorRow, CursorCol
<1>3. CursorRow <= Height - 1
  <2>1. CursorRow * Width <= (Height * Width) - 1
    BY <1>1, <1>2, Sizes
  <2> QED
    BY <1>2, <2>1, Sizes, RowBelow
<1>4. CursorRow * Width + CursorCol = off /\ off - CursorRow * Width = CursorCol
  BY <1>1, <1>2, Sizes
<1> QED
  BY <1>2, <1>3, <1>4, Sizes DEF Coords2Offset

-----------------------------------------------------------------------------
(* What a call owes the screen *)

Shows(a, o) == [array |-> a, off |-> o, crtc |-> o]

AsIs == [array |-> array, off |-> off, crtc |-> crtc]

(* The next line, and the next place in the line or after it. *)
Fed(a) ==
    IF CursorRow < Height - 1 THEN Shows(a, Coords2Offset(CursorRow + 1, 0))
    ELSE Shows(Scroll(a), Coords2Offset(Height - 1, 0))

Moved(a) ==
    IF CursorCol < Width - 1 THEN Shows(a, Coords2Offset(CursorRow, CursorCol + 1)) ELSE Fed(a)

(* What s shows, as Type and Feed see it. *)
IsScreen(s, a, r, c) ==
    /\ DOMAIN s = {"array", "row", "col"}
    /\ s.array = a /\ s.row = r /\ s.col = c

LEMMA FeedIs ==
    ASSUME off \in Offsets, NEW s, NEW a, NEW c, IsScreen(s, a, CursorRow, c)
    PROVE  Fed(a) = Shows(Feed(s).array, Coords2Offset(Feed(s).row, Feed(s).col))
<1>1. CursorRow \in 0..(Height - 1) /\ Height \in Nat
  BY CursorInScreen, Sizes
<1>2. CASE CursorRow < Height - 1
  <2>1. Feed(s) = [s EXCEPT !.row = @ + 1, !.col = 0]
    BY <1>2 DEF Feed, IsScreen
  <2>2. Feed(s).array = a /\ Feed(s).row = CursorRow + 1 /\ Feed(s).col = 0
    BY <2>1 DEF IsScreen
  <2> QED
    BY <1>2, <2>2 DEF Fed
<1>3. CASE ~(CursorRow < Height - 1)
  <2>1. Feed(s) = [array |-> Scroll(a), row |-> CursorRow, col |-> 0]
    BY <1>3 DEF Feed, IsScreen
  <2>2. CursorRow = Height - 1
    BY <1>1, <1>3
  <2> QED
    BY <1>3, <2>1, <2>2 DEF Fed
<1> QED
  BY <1>2, <1>3

(* What the console promises of a byte, by the kind of byte. *)
LEMMA ExpectedIs ==
    ASSUME CursorConsistent
    PROVE  /\ Expected("nl") = Fed(array)
           /\ Expected("cr") = Shows(array, Coords2Offset(CursorRow, 0))
           /\ CursorCol = 0 => Expected("bs") = AsIs
           /\ CursorCol > 0 =>
                 Expected("bs") = Shows(Draw(array, CursorRow, CursorCol - 1, " "),
                                        Coords2Offset(CursorRow, CursorCol - 1))
           /\ \A x \in Chars :
                 Expected(x) = Moved(Draw(array, CursorRow, CursorCol, x))
<1> DEFINE r == CursorRow  c == CursorCol
<1>1. /\ r \in 0..(Height - 1) /\ c \in 0..(Width - 1)
      /\ Coords2Offset(r, c) = off /\ off \in Offsets
  BY CursorInScreen DEF CursorConsistent, Offsets
<1>2. IsScreen(Showing, array, r, c)
  BY DEF Showing, IsScreen, CursorRow, CursorCol
<1>3. \A x : Expected(x) =
         [array |-> Type(Showing, x).array,
          off |-> Coords2Offset(Type(Showing, x).row, Type(Showing, x).col),
          crtc |-> IF x = "bs" /\ c = 0 THEN crtc
                   ELSE Coords2Offset(Type(Showing, x).row, Type(Showing, x).col)]
  BY <1>2 DEF Expected, IsScreen
<1> HIDE DEF r, c
<1>4. Expected("nl") = Fed(array)
  <2>1. Type(Showing, "nl") = Feed(Showing)
    BY DEF Type
  <2>2. Fed(array) = Shows(Feed(Showing).array, Coords2Offset(Feed(Showing).row, Feed(Showing).col))
    BY <1>1, <1>2, FeedIs DEF r
  <2> QED
    BY <1>3, <2>1, <2>2 DEF Shows
<1>5. Expected("cr") = Shows(array, Coords2Offset(r, 0))
  <2>1. Type(Showing, "cr") = [Showing EXCEPT !.col = 0]
    BY DEF Type
  <2>2. /\ Type(Showing, "cr").array = array
        /\ Type(Showing, "cr").row = r /\ Type(Showing, "cr").col = 0
    BY <1>2, <2>1 DEF IsScreen
  <2> QED
    BY <1>3, <2>2 DEF Shows
<1>6. ASSUME c = 0 PROVE Expected("bs") = AsIs
  <2>1. Type(Showing, "bs") = Showing
    BY <1>2, <1>6 DEF Type, IsScreen
  <2> QED
    BY <1>1, <1>2, <1>3, <1>6, <2>1 DEF AsIs, IsScreen
<1>7. ASSUME c > 0
      PROVE  Expected("bs") = Shows(Draw(array, r, c - 1, " "), Coords2Offset(r, c - 1))
  <2>1. c # 0 /\ c - 1 \in 0..(Width - 1)
    BY <1>1, <1>7, Sizes
  <2>2. Valid(r, c - 1)
    BY <1>1, <2>1, ValidCoords
  <2>3. Type(Showing, "bs") = [Showing EXCEPT !.col = @ - 1, !.array[<<r, c - 1>>] = Pack(" ")]
    BY <1>2, <2>1 DEF Type, IsScreen
  <2>4. /\ Type(Showing, "bs").array = [array EXCEPT ![<<r, c - 1>>] = Pack(" ")]
        /\ Type(Showing, "bs").row = r /\ Type(Showing, "bs").col = c - 1
    BY <1>2, <2>3 DEF IsScreen
  <2>5. [array EXCEPT ![<<r, c - 1>>] = Pack(" ")] = Draw(array, r, c - 1, " ")
    BY <2>2 DEF Draw
  <2> QED
    BY <1>3, <2>1, <2>4, <2>5 DEF Shows
<1>8. ASSUME NEW x \in Chars
      PROVE  Expected(x) = Moved(Draw(array, r, c, x))
  <2> DEFINE drawn == [Showing EXCEPT !.array[<<r, c>>] = Pack(x)]
             a == Draw(array, r, c, x)
  <2>1. x \notin {"nl", "cr", "bs"}
    BY ConsoleAssumption
  <2>2. Valid(r, c)
    BY <1>1, ValidCoords
  <2>3. a = [array EXCEPT ![<<r, c>>] = Pack(x)]
    BY <2>2 DEF Draw
  <2>4. IsScreen(drawn, a, r, c)
    BY <1>2, <2>3 DEF IsScreen
  <2>5. Type(Showing, x) = IF c < Width - 1 THEN [drawn EXCEPT !.col = @ + 1] ELSE Feed(drawn)
    BY <1>2, <2>1 DEF Type, IsScreen
  <2> HIDE DEF a, drawn
  <2>6. CASE c < Width - 1
    <3>1. /\ Type(Showing, x).array = a
          /\ Type(Showing, x).row = r /\ Type(Showing, x).col = c + 1
      BY <2>4, <2>5, <2>6 DEF IsScreen
    <3> QED
      BY <1>3, <2>1, <2>6, <3>1 DEF Moved, Shows, r, c, a
  <2>7. CASE ~(c < Width - 1)
    <3>1. Fed(a) = Shows(Feed(drawn).array, Coords2Offset(Feed(drawn).row, Feed(drawn).col))
      BY <1>1, <2>4, FeedIs DEF r
    <3>2. Expected(x) = Fed(a)
      BY <1>3, <2>1, <2>5, <2>7, <3>1 DEF Shows
    <3> QED
      BY <3>2, <2>7 DEF Moved, r, c, a
  <2> QED
    BY <2>6, <2>7
<1> QED
  BY <1>4, <1>5, <1>6, <1>7, <1>8 DEF r, c

(* Which places valid_row and valid_col accept, and where inc_cursor goes. *)
LEMMA Places ==
    ASSUME off \in Offsets
    PROVE  /\ \A c \in 0..(Width - 1) : Valid(CursorRow, c)
           /\ Valid(CursorRow + 1, 0) <=> CursorRow < Height - 1
           /\ CursorCol < Width - 1 =>
                 IncCol(CursorCol) = CursorCol + 1 /\ IncRow(CursorRow, CursorCol) = CursorRow
           /\ ~(CursorCol < Width - 1) =>
                 IncCol(CursorCol) = 0 /\ IncRow(CursorRow, CursorCol) = CursorRow + 1
<1> DEFINE r == CursorRow  c == CursorCol
<1>1. r \in 0..(Height - 1) /\ c \in 0..(Width - 1) /\ Width \in Nat \ {0} /\ Height \in Nat
  BY CursorInScreen, Sizes
<1> HIDE DEF r, c
<1>2. \A x \in 0..(Width - 1) : Valid(r, x)
  BY <1>1, ValidCoords
<1>3. Valid(r + 1, 0) <=> r < Height - 1
  <2>1. Valid(r + 1, 0) <=> r + 1 \in 0..(Height - 1) /\ 0 \in 0..(Width - 1)
    BY DEF Valid, Cells
  <2> QED
    BY <1>1, <2>1
<1>4. IncCol(c) = (c + 1) % Width /\ IncRow(r, c) = r + ((c + 1) \div Width)
  BY <1>1 DEF IncCol, IncRow
<1>5. ASSUME c < Width - 1 PROVE IncCol(c) = c + 1 /\ IncRow(r, c) = r
  <2>1. (c + 1) % Width = c + 1 /\ (c + 1) \div Width = 0
    <3>1. c + 1 \in 0..(Width - 1)
      BY <1>1, <1>5
    <3> QED
      BY <1>1, <3>1, SmallDivision
  <2> QED
    BY <1>1, <1>4, <2>1
<1>6. ASSUME ~(c < Width - 1) PROVE IncCol(c) = 0 /\ IncRow(r, c) = r + 1
  <2>1. c + 1 = Width
    BY <1>1, <1>6
  <2>2. Width % Width = 0 /\ Width \div Width = 1
    BY <1>1, SmallDivision
  <2> QED
    BY <1>1, <1>4, <2>1, <2>2
<1> QED
  BY <1>2, <1>3, <1>5, <1>6 DEF r, c

(* What an echo shows. *)
LEMMA MoveOrScrollIs ==
    ASSUME off \in Offsets, NEW a
    PROVE  /\ \A c \in 0..(Width - 1) :
                 MoveOrScroll(a, CursorRow, c) = [array |-> a, off |-> Coords2Offset(CursorRow, c)]
           /\ LET s == MoveOrScroll(a, CursorRow + 1, 0) IN Fed(a) = Shows(s.array, s.off)
<1>1. CASE CursorRow < Height - 1
  BY <1>1, Places DEF MoveOrScroll, Fed
<1>2. CASE ~(CursorRow < Height - 1)
  BY <1>2, Places DEF MoveOrScroll, Fed
<1> QED
  BY <1>1, <1>2

LEMMA EchoIs ==
    ASSUME CursorConsistent, NEW x \in Inputs
    PROVE  Expected(x) = [array |-> EchoByte(x).array, off |-> EchoByte(x).off,
                          crtc |-> IF x = "bs" /\ off % Width = 0 THEN crtc ELSE EchoByte(x).off]
<1> DEFINE r == off \div Width  c == off - r * Width
<1>1. /\ r = CursorRow /\ c = CursorCol /\ CursorCol \in 0..(Width - 1)
      /\ off \in Offsets /\ Coords2Offset(CursorRow, CursorCol) = off
  BY CursorInScreen DEF CursorConsistent, Offsets, CursorRow
<1> HIDE DEF r, c
<1>2. CASE x = "nl"
  <2>1. EchoByte(x) = MoveOrScroll(array, CursorRow + 1, 0)
    BY <1>1, <1>2 DEF EchoByte, r
  <2>2. Expected(x) = Fed(array)
    BY <1>2, ExpectedIs
  <2>3. Fed(array) = Shows(EchoByte(x).array, EchoByte(x).off)
    BY <1>1, <2>1, MoveOrScrollIs
  <2> QED
    BY <1>2, <2>2, <2>3 DEF Shows
<1>3. CASE x = "cr"
  <2>1. EchoByte(x) = MoveOrScroll(array, CursorRow, 0) /\ 0 \in 0..(Width - 1)
    BY <1>1, <1>3, Sizes DEF EchoByte, r
  <2>2. EchoByte(x) = [array |-> array, off |-> Coords2Offset(CursorRow, 0)]
    BY <1>1, <2>1, MoveOrScrollIs
  <2>3. Expected(x) = Shows(array, Coords2Offset(CursorRow, 0))
    BY <1>3, ExpectedIs
  <2> QED
    BY <1>3, <2>2, <2>3 DEF Shows
<1>4. CASE x = "bs"
  <2>1. EchoByte(x) = IF CursorCol > 0
                      THEN MoveOrScroll(Draw(array, CursorRow, CursorCol - 1, " "),
                                        CursorRow, CursorCol - 1)
                      ELSE [array |-> array, off |-> off]
    BY <1>1, <1>4 DEF EchoByte, r, c
  <2>2. CASE CursorCol > 0
    <3> DEFINE a == Draw(array, CursorRow, CursorCol - 1, " ")
    <3> HIDE DEF a
    <3>1. CursorCol - 1 \in 0..(Width - 1) /\ CursorCol # 0
      BY <1>1, <2>2, Sizes
    <3>2. EchoByte(x) = MoveOrScroll(a, CursorRow, CursorCol - 1)
      BY <2>1, <2>2 DEF a
    <3>3. EchoByte(x) = [array |-> a, off |-> Coords2Offset(CursorRow, CursorCol - 1)]
      BY <1>1, <3>1, <3>2, MoveOrScrollIs
    <3>4. Expected(x) = Shows(a, Coords2Offset(CursorRow, CursorCol - 1))
      BY <1>4, <2>2, ExpectedIs DEF a
    <3> QED
      BY <3>1, <3>3, <3>4 DEF Shows, CursorCol
  <2>3. CASE CursorCol = 0
    <3>1. Expected(x) = AsIs /\ EchoByte(x) = [array |-> array, off |-> off]
      BY <1>4, <2>1, <2>3, ExpectedIs
    <3> QED
      BY <1>4, <2>3, <3>1 DEF AsIs, CursorCol
  <2> QED
    BY <1>1, <2>2, <2>3, Sizes
<1>5. CASE x \notin {"nl", "cr", "bs"}
  <2> DEFINE a == Draw(array, CursorRow, CursorCol, x)
  <2>1. EchoByte(x) = MoveOrScroll(a, IncRow(CursorRow, CursorCol), IncCol(CursorCol))
    BY <1>1, <1>5 DEF EchoByte, r, c
  <2>2. Expected(x) = Moved(a)
    BY <1>5, ExpectedIs DEF Inputs
  <2> HIDE DEF a
  <2>3. CASE CursorCol < Width - 1
    <3>1. CursorCol + 1 \in 0..(Width - 1)
      BY <1>1, <2>3, Sizes
    <3>2. EchoByte(x) = [array |-> a, off |-> Coords2Offset(CursorRow, CursorCol + 1)]
      BY <1>1, <2>1, <2>3, <3>1, Places, MoveOrScrollIs
    <3> QED
      BY <1>5, <2>2, <2>3, <3>2 DEF Moved, Shows
  <2>4. CASE ~(CursorCol < Width - 1)
    <3>1. EchoByte(x) = MoveOrScroll(a, CursorRow + 1, 0)
      BY <1>1, <2>1, <2>4, Places
    <3>2. Expected(x) = Shows(EchoByte(x).array, EchoByte(x).off)
      BY <1>1, <2>2, <2>4, <3>1, MoveOrScrollIs DEF Moved
    <3> QED
      BY <1>5, <3>2 DEF Shows
  <2> QED
    BY <2>3, <2>4
<1> QED
  BY <1>2, <1>3, <1>4, <1>5

(* An echo does what the console promises of the byte. *)
LEMMA EchoPromise == CursorConsistent => EchoAsPromised
<1> SUFFICES ASSUME CursorConsistent, Echo
             PROVE  \E x \in Inputs : Expected(x) = [array |-> array', off |-> off', crtc |-> crtc']
  BY DEF EchoAsPromised
<1>1. PICK x \in Inputs :
        /\ array' = EchoByte(x).array /\ off' = EchoByte(x).off
        /\ crtc' = IF x = "bs" /\ off % Width = 0 THEN crtc ELSE EchoByte(x).off
  BY DEF Echo
<1>2. Expected(x) = [array |-> array', off |-> off', crtc |-> crtc']
  BY <1>1, EchoIs
<1> QED
  BY <1>1, <1>2

-----------------------------------------------------------------------------
(* What is due from t, which is in the middle of a call: by the place it   *)
(* has reached, how far the screen is from what the call should leave.     *)
Due(t) ==
    /\ stage[t] \in {"row", "col", "put"} =>
          \E x \in Inputs : ch[t] = x /\ expect = Expected(x)
    /\ stage[t] \in {"col", "put", "inc_col", "inc", "get_col", "got"} => row[t] = CursorRow
    /\ stage[t] \in {"put", "inc", "got"} => col[t] = CursorCol
    /\ stage[t] \in {"inc_row", "inc_col", "inc"} => expect = Moved(array)
    /\ stage[t] = "newline" => expect = Shows(Scroll(array), Coords2Offset(Height - 1, 0))
    /\ stage[t] \in {"crtc", "offset"} => expect = Shows(array, next[t])
    /\ stage[t] = "offset" => crtc = next[t]
    /\ (stage[t] = "next" /\ ch[t] # " ") \/ stage[t] = "return" => expect = AsIs
    /\ stage[t] \in {"get_row", "get_col", "got"} =>
          expect = [off |-> Coords2Offset(CursorRow, CursorCol)]

CallsExact ==
    /\ DOMAIN ch = Callers /\ DOMAIN row = Callers /\ DOMAIN col = Callers
    /\ \A t \in Callers : stage[t] = "out" => ch[t] = " "
    /\ expect # Nobody => \A t \in Callers : Due(t)

PromiseInv == CursorConsistent /\ CallsExact

LEMMA InitExact == ConsoleInit => CallsExact
  BY DEF ConsoleInit, CallsExact

(* The invariant gives what the calls promise. *)
LEMMA ExactPromises == PromiseInv => CallsAsPromised
<1> SUFFICES ASSUME PromiseInv, NEW t \in Callers, expect # Nobody
             PROVE  /\ (stage[t] = "next" /\ ch[t] # " ") \/ stage[t] = "return" =>
                          expect = [array |-> array, off |-> off, crtc |-> crtc]
                    /\ stage[t] = "got" =>
                          /\ Valid(row[t], col[t])
                          /\ expect = [off |-> Coords2Offset(row[t], col[t])]
  BY DEF CallsAsPromised
<1>1. Due(t) /\ off \in Offsets
  BY DEF PromiseInv, CallsExact, CursorConsistent, Offsets
<1>2. Valid(CursorRow, CursorCol)
  BY <1>1, CursorInScreen, ValidCoords
<1> QED
  BY <1>1, <1>2 DEF Due, AsIs

(* Who is out has nothing due. *)
LEMMA OutOwesNothing ==
    ASSUME NEW t \in Callers, stage[t] = "out", ch[t] = " "
    PROVE  Due(t)
  BY DEF Due

(* A step of t, the only one in a call: what is due from t is all. *)
LEMMA OwnerKeeps ==
    ASSUME PromiseInv, NEW t \in Callers, owner \in {Nobody, t},
           DOMAIN ch' = Callers, DOMAIN row' = Callers, DOMAIN col' = Callers,
           \A u \in Callers \ {t} : stage'[u] = stage[u] /\ ch'[u] = ch[u],
           stage'[t] = "out" => ch'[t] = " ",
           expect' # Nobody => Due(t)'
    PROVE  CallsExact'
<1>1. ASSUME NEW u \in Callers \ {t}
      PROVE  stage'[u] = "out" /\ ch'[u] = " "
  <2>1. owner # u
    BY ConsoleAssumption
  <2>2. stage[u] = "out"
    BY <2>1 DEF PromiseInv, CursorConsistent, ConsoleTypes
  <2>3. ch[u] = " "
    BY <2>2 DEF PromiseInv, CallsExact
  <2> QED
    BY <2>2, <2>3
<1>2. ASSUME expect' # Nobody, NEW u \in Callers
      PROVE  Due(u)'
  <2>1. CASE u = t
    BY <1>2, <2>1
  <2>2. CASE u # t
    <3>1. stage'[u] = "out" /\ ch'[u] = " "
      BY <1>1, <2>2
    <3> QED
      BY <3>1 DEF Due
  <2> QED
    BY <2>1, <2>2
<1>3. \A u \in Callers : stage'[u] = "out" => ch'[u] = " "
  BY <1>1
<1> QED
  BY <1>2, <1>3 DEF CallsExact

(* What the screen owes does not change while the screen does not. *)
LEMMA SameScreen ==
    ASSUME UNCHANGED screen
    PROVE  /\ CursorRow' = CursorRow /\ CursorCol' = CursorCol
           /\ AsIs' = AsIs /\ Moved(array)' = Moved(array)
           /\ \A x : Expected(x)' = Expected(x)
<1>1. UNCHANGED <<array, off, crtc, color>>
  BY DEF screen
<1>2. CursorRow' = CursorRow /\ CursorCol' = CursorCol /\ AsIs' = AsIs
  BY <1>1 DEF CursorRow, CursorCol, AsIs
<1>3. Moved(array)' = Moved(array)
  BY <1>1, <1>2 DEF Moved, Fed, Shows, Scroll, Pack
<1>4. \A x : Expected(x)' = Expected(x)
  BY <1>1 DEF Expected, Showing, Type, Feed, Scroll, Pack
<1> QED
  BY <1>2, <1>3, <1>4

-----------------------------------------------------------------------------
(* The steps *)

(* What set_cursor_raw does, whether the place is valid or not. *)
LEMMA RawSteps ==
    ASSUME PromiseInv, NEW t \in Callers, NEW r, NEW c, NEW failed,
           SetCursorRaw(t, r, c, failed)
    PROVE  /\ \A u \in Callers \ {t} : stage'[u] = stage[u]
           /\ Valid(r, c) => stage'[t] = "crtc" /\ next'[t] = Coords2Offset(r, c)
           /\ ~Valid(r, c) => stage'[t] = failed
  BY DEF SetCursorRaw, ToStage, PromiseInv, CursorConsistent, ConsoleTypes

LEMMA GotoSteps ==
    ASSUME PromiseInv, NEW t \in Callers, NEW label, ToStage(t, label)
    PROVE  stage'[t] = label /\ \A u \in Callers \ {t} : stage'[u] = stage[u]
  BY DEF ToStage, PromiseInv, CursorConsistent, ConsoleTypes

(* From here on expect is a promise: what is due before the step. *)
LEMMA ReadExact ==
    ASSUME PromiseInv, NEW t \in Callers, ReadRow(t) \/ ReadCol(t)
    PROVE  CallsExact'
<1>1. /\ owner = t /\ off \in Offsets
      /\ DOMAIN ch = Callers /\ DOMAIN row = Callers /\ DOMAIN col = Callers
  <2>1. stage[t] \in {"row", "inc_row", "get_row", "col", "inc_col", "get_col"}
    BY DEF ReadRow, ReadCol, AtStage
  <2>2. CursorConsistent /\ CallsExact
    BY DEF PromiseInv
  <2>3. owner = t
    BY <2>1, <2>2, InsideOwns
  <2> QED
    BY <2>2, <2>3 DEF CallsExact, CursorConsistent, Offsets
<1>2. expect # Nobody => Due(t)
  BY DEF PromiseInv, CallsExact
<1>3. UNCHANGED screen /\ ch' = ch /\ expect' = expect
  BY DEF ReadRow, ReadCol
<1>4. /\ CursorRow' = CursorRow /\ CursorCol' = CursorCol /\ Moved(array)' = Moved(array)
      /\ \A x : Expected(x)' = Expected(x)
  BY <1>3, SameScreen
<1>5. CASE ReadRow(t)
  <2>1. row'[t] = CursorRow /\ DOMAIN row' = Callers /\ col' = col
    BY <1>1, <1>5 DEF ReadRow, CursorRow
  <2>2. PICK l \in {<<"row", "col">>, <<"inc_row", "inc_col">>, <<"get_row", "get_col">>} :
           stage[t] = l[1] /\ ToStage(t, l[2])
    BY <1>5 DEF ReadRow, AtStage
  <2>3. stage'[t] = l[2] /\ \A u \in Callers \ {t} : stage'[u] = stage[u]
    BY <2>2, GotoSteps
  <2>4. ASSUME expect' # Nobody PROVE Due(t)'
    <3>1. Due(t)
      BY <1>2, <1>3, <2>4
    <3>2. CASE l = <<"row", "col">>
      BY <1>3, <1>4, <2>1, <2>2, <2>3, <3>1, <3>2 DEF Due
    <3>3. CASE l = <<"inc_row", "inc_col">>
      BY <1>3, <1>4, <2>1, <2>2, <2>3, <3>1, <3>3 DEF Due
    <3>4. CASE l = <<"get_row", "get_col">>
      BY <1>3, <1>4, <2>1, <2>2, <2>3, <3>1, <3>4 DEF Due
    <3> QED
      BY <2>2, <3>2, <3>3, <3>4
  <2>5. stage'[t] # "out"
    BY <2>2, <2>3
  <2> QED
    BY <1>1, <1>3, <2>1, <2>3, <2>4, <2>5, OwnerKeeps
<1>6. CASE ReadCol(t)
  <2>1. col'[t] = off - row[t] * Width /\ DOMAIN col' = Callers /\ row' = row
    BY <1>1, <1>6 DEF ReadCol
  <2>2. PICK l \in {<<"col", "put">>, <<"inc_col", "inc">>, <<"get_col", "got">>} :
           stage[t] = l[1] /\ ToStage(t, l[2])
    BY <1>6 DEF ReadCol, AtStage
  <2>3. stage'[t] = l[2] /\ \A u \in Callers \ {t} : stage'[u] = stage[u]
    BY <2>2, GotoSteps
  <2>4. ASSUME expect' # Nobody PROVE Due(t)'
    <3>1. Due(t)
      BY <1>2, <1>3, <2>4
    <3>2. row[t] = CursorRow
      <4>1. stage[t] \in {"col", "inc_col", "get_col"}
        BY <2>2
      <4> QED
        BY <3>1, <4>1 DEF Due
    <3>3. col'[t] = CursorCol
      BY <1>1, <2>1, <3>2, CursorInScreen
    <3>4. CASE l = <<"col", "put">>
      BY <1>3, <1>4, <2>1, <2>2, <2>3, <3>1, <3>3, <3>4 DEF Due
    <3>5. CASE l = <<"inc_col", "inc">>
      BY <1>3, <1>4, <2>1, <2>2, <2>3, <3>1, <3>3, <3>5 DEF Due
    <3>6. CASE l = <<"get_col", "got">>
      BY <1>3, <1>4, <2>1, <2>2, <2>3, <3>1, <3>3, <3>6 DEF Due
    <3> QED
      BY <2>2, <3>4, <3>5, <3>6
  <2>5. stage'[t] # "out"
    BY <2>2, <2>3
  <2> QED
    BY <1>1, <1>3, <2>1, <2>3, <2>4, <2>5, OwnerKeeps
<1> QED
  BY <1>5, <1>6

(* putbyte, with the row and the column it has read: what it draws, and    *)
(* what it has still to do.                                                *)
LEMMA PutDue ==
    ASSUME PromiseInv, NEW t \in Callers, PutByte(t), expect # Nobody
    PROVE  Due(t)'
<1>1. Due(t) /\ CursorConsistent /\ off \in Offsets
  BY DEF PromiseInv, CallsExact, CursorConsistent, Offsets
<1>2. UNCHANGED <<off, crtc, color, ch, row, col, expect>>
  BY DEF PutByte
<1>3. /\ CursorRow' = CursorRow /\ CursorCol' = CursorCol
      /\ CursorRow \in 0..(Height - 1) /\ CursorCol \in 0..(Width - 1)
      /\ Coords2Offset(CursorRow, CursorCol) = off
  BY <1>1, <1>2, CursorInScreen DEF CursorRow, CursorCol
<1>4. 0 \in 0..(Width - 1)
  BY Sizes
<1>5. ASSUME stage[t] = "put"
      PROVE  row[t] = CursorRow /\ col[t] = CursorCol /\ expect = Expected(ch[t])
  BY <1>1, <1>5 DEF Due
<1>6. ASSUME stage'[t] = "crtc", expect = Shows(array', next'[t]) PROVE Due(t)'
  BY <1>2, <1>6 DEF Due
<1>7. ASSUME stage'[t] = "newline", UNCHANGED array,
             expect = Shows(Scroll(array), Coords2Offset(Height - 1, 0))
      PROVE  Due(t)'
  BY <1>2, <1>7 DEF Due, Scroll, Pack
<1>8. ASSUME UNCHANGED array, SetCursorRaw(t, CursorRow + 1, 0, "newline"), expect = Fed(array)
      PROVE  Due(t)'
  <2>1. CASE CursorRow < Height - 1
    <3>1. stage'[t] = "crtc" /\ next'[t] = Coords2Offset(CursorRow + 1, 0)
      BY <1>1, <1>8, <2>1, Places, RawSteps
    <3> QED
      BY <1>6, <1>8, <2>1, <3>1 DEF Fed
  <2>2. CASE ~(CursorRow < Height - 1)
    <3>1. stage'[t] = "newline"
      BY <1>1, <1>8, <2>2, Places, RawSteps
    <3> QED
      BY <1>7, <1>8, <2>2, <3>1 DEF Fed
  <2> QED
    BY <2>1, <2>2
<1>9. CASE PutNewline(t)
  <2>1. /\ stage[t] = "put" /\ ch[t] = "nl" /\ UNCHANGED array
        /\ SetCursorRaw(t, row[t] + 1, 0, "newline")
    BY <1>9 DEF PutNewline, AtStage
  <2>2. row[t] = CursorRow /\ expect = Fed(array)
    BY <1>1, <1>5, <2>1, ExpectedIs
  <2> QED
    BY <1>8, <2>1, <2>2
<1>10. CASE PutReturn(t)
  <2>1. /\ stage[t] = "put" /\ ch[t] = "cr" /\ UNCHANGED array
        /\ SetCursorRaw(t, row[t], 0, "next")
    BY <1>10 DEF PutReturn, AtStage
  <2>2. row[t] = CursorRow /\ expect = Shows(array, Coords2Offset(CursorRow, 0))
    BY <1>1, <1>5, <2>1, ExpectedIs
  <2>3. stage'[t] = "crtc" /\ next'[t] = Coords2Offset(CursorRow, 0)
    BY <1>1, <1>4, <2>1, <2>2, Places, RawSteps
  <2> QED
    BY <1>6, <2>1, <2>2, <2>3
<1>11. CASE PutBackspace(t)
  <2>1. /\ stage[t] = "put" /\ ch[t] = "bs"
        /\ row[t] = CursorRow /\ col[t] = CursorCol
    BY <1>5, <1>11 DEF PutBackspace, AtStage
  <2>2. expect = Expected("bs")
    BY <1>5, <2>1
  <2>3. CASE /\ CursorCol > 0
             /\ array' = Draw(array, CursorRow, CursorCol - 1, " ")
             /\ SetCursorRaw(t, CursorRow, CursorCol - 1, "next")
    <3>1. CursorCol - 1 \in 0..(Width - 1)
      <4>1. CursorCol > 0
        BY <2>3
      <4> QED
        BY <1>3, <4>1, Sizes
    <3>2. stage'[t] = "crtc" /\ next'[t] = Coords2Offset(CursorRow, CursorCol - 1)
      BY <1>1, <2>3, <3>1, Places, RawSteps
    <3>3. expect = Shows(array', next'[t])
      BY <1>1, <2>2, <2>3, <3>2, ExpectedIs
    <3> QED
      BY <1>6, <3>2, <3>3
  <2>4. CASE CursorCol <= 0 /\ ToStage(t, "next") /\ UNCHANGED <<array, next>>
    <3>1. CursorCol = 0
      BY <1>3, <2>4, Sizes
    <3>2. expect = AsIs
      BY <1>1, <2>2, <3>1, ExpectedIs
    <3>3. stage'[t] = "next"
      BY <2>4, GotoSteps
    <3> QED
      BY <1>2, <2>4, <3>2, <3>3 DEF Due, AsIs
  <2> QED
    BY <1>11, <2>1, <2>3, <2>4 DEF PutBackspace
<1>12. CASE PutChar(t)
  <2>1. /\ stage[t] = "put" /\ ch[t] \in Chars /\ ToStage(t, "inc_row")
        /\ array' = Draw(array, row[t], col[t], ch[t])
    BY <1>12 DEF PutChar, AtStage
  <2>2. expect = Moved(array')
    BY <1>1, <1>5, <2>1, ExpectedIs
  <2>3. Moved(array)' = Moved(array')
    BY <1>2, <1>3 DEF Moved, Fed, Scroll, Pack
  <2>4. stage'[t] = "inc_row"
    BY <2>1, GotoSteps
  <2> QED
    BY <1>2, <2>2, <2>3, <2>4 DEF Due
<1>13. CASE IncCursor(t)
  <2>1. /\ stage[t] = "inc" /\ UNCHANGED array
        /\ SetCursorRaw(t, IncRow(row[t], col[t]), IncCol(col[t]), "newline")
    BY <1>13 DEF IncCursor, AtStage
  <2>2. row[t] = CursorRow /\ col[t] = CursorCol /\ expect = Moved(array)
    BY <1>1, <2>1 DEF Due
  <2>3. CASE CursorCol < Width - 1
    <3>1. CursorCol + 1 \in 0..(Width - 1)
      BY <1>3, <2>3, Sizes
    <3>2. SetCursorRaw(t, CursorRow, CursorCol + 1, "newline")
      BY <1>1, <2>1, <2>2, <2>3, Places
    <3>3. stage'[t] = "crtc" /\ next'[t] = Coords2Offset(CursorRow, CursorCol + 1)
      BY <1>1, <3>1, <3>2, Places, RawSteps
    <3> QED
      BY <1>6, <2>1, <2>2, <2>3, <3>3 DEF Moved
  <2>4. CASE ~(CursorCol < Width - 1)
    <3>1. SetCursorRaw(t, CursorRow + 1, 0, "newline")
      BY <1>1, <2>1, <2>2, <2>4, Places
    <3> QED
      BY <1>8, <2>1, <2>2, <2>4, <3>1 DEF Moved
  <2> QED
    BY <2>3, <2>4
<1>14. CASE Newline(t)
  <2>1. /\ stage[t] = "newline" /\ array' = Scroll(array)
        /\ SetCursorRaw(t, Height - 1, 0, "next")
    BY <1>14 DEF Newline, AtStage
  <2>2. expect = Shows(array', Coords2Offset(Height - 1, 0))
    BY <1>1, <2>1 DEF Due
  <2>3. stage'[t] = "crtc" /\ next'[t] = Coords2Offset(Height - 1, 0)
    BY <2>1, LastRowValid, RawSteps
  <2> QED
    BY <1>6, <2>2, <2>3
<1> QED
  BY <1>9, <1>10, <1>11, <1>12, <1>13, <1>14 DEF PutByte

LEMMA CallStepExact ==
    ASSUME PromiseInv, NEW t \in Callers, CallStep(t)
    PROVE  CallsExact'
<1>1. /\ CursorConsistent /\ CallsExact
      /\ DOMAIN ch = Callers /\ DOMAIN row = Callers /\ DOMAIN col = Callers
      /\ DOMAIN stage = Callers
      /\ expect # Nobody => Due(t)
  BY DEF PromiseInv, CallsExact, CursorConsistent, ConsoleTypes
<1>2. CASE PrintByte(t)
  <2>1. PICK x \in Inputs : ch' = [ch EXCEPT ![t] = x] /\ expect' = Expected(x)
    BY <1>2 DEF PrintByte
  <2>2. /\ stage[t] = "next" /\ ToStage(t, "row")
        /\ UNCHANGED screen /\ row' = row /\ col' = col
    BY <1>2 DEF PrintByte, AtStage
  <2>3. stage'[t] = "row" /\ \A u \in Callers \ {t} : stage'[u] = stage[u]
    BY <2>2, GotoSteps
  <2>4. expect' = Expected(x)' /\ ch'[t] = x
    BY <1>1, <2>1, <2>2, SameScreen
  <2>5. Due(t)'
    BY <2>1, <2>3, <2>4 DEF Due
  <2>6. owner = t
    BY <1>1, <2>2, InsideOwns
  <2> QED
    BY <1>1, <2>1, <2>2, <2>3, <2>5, <2>6, OwnerKeeps
<1>3. CASE PrintReturn(t) \/ CursorReturn(t)
  <2>1. stage[t] # "out" /\ Leave(t)
    BY <1>3 DEF PrintReturn, CursorReturn, AtStage
  <2>2. /\ DOMAIN ch' = Callers /\ DOMAIN row' = Callers /\ DOMAIN col' = Callers
        /\ \A u \in Callers \ {t} : stage'[u] = stage[u] /\ ch'[u] = ch[u]
        /\ ch'[t] = " " /\ expect' = Nobody
    BY <1>1, <2>1 DEF Leave, ToStage
  <2>3. owner = t
    BY <1>1, <2>1, InsideOwns
  <2> QED
    BY <2>2, <2>3, OwnerKeeps
<1>4. CASE ReadRow(t) \/ ReadCol(t)
  BY <1>4, ReadExact
<1>5. CASE PutByte(t)
  <2>1. /\ stage[t] \in {"put", "inc", "newline"}
        /\ UNCHANGED <<ch, row, col, expect>>
    BY <1>5 DEF PutByte, PutNewline, PutReturn, PutBackspace, PutChar, IncCursor, Newline, AtStage
  <2>2. /\ \A u \in Callers \ {t} : stage'[u] = stage[u]
        /\ stage'[t] # "out"
    <3>1. PICK label \in {"crtc", "newline", "next", "inc_row"} : ToStage(t, label)
      BY <1>5 DEF PutByte, PutNewline, PutReturn, PutBackspace, PutChar, IncCursor, Newline,
                  SetCursorRaw
    <3> QED
      BY <3>1, GotoSteps
  <2>3. owner = t
    BY <1>1, <2>1, InsideOwns
  <2>4. expect' # Nobody => Due(t)'
    BY <1>5, <2>1, PutDue
  <2> QED
    BY <1>1, <2>1, <2>2, <2>3, <2>4, OwnerKeeps
<1>6. CASE SetCrtc(t)
  <2>1. /\ stage[t] = "crtc" /\ ToStage(t, "offset") /\ crtc' = next[t]
        /\ UNCHANGED <<array, off, color, ch, row, col, next, expect>>
    BY <1>6 DEF SetCrtc, AtStage, callLocals
  <2>2. stage'[t] = "offset" /\ \A u \in Callers \ {t} : stage'[u] = stage[u]
    BY <2>1, GotoSteps
  <2>3. ASSUME expect' # Nobody PROVE Due(t)'
    <3>1. expect = Shows(array, next[t])
      BY <1>1, <2>1, <2>3 DEF Due
    <3> QED
      BY <2>1, <2>2, <3>1 DEF Due
  <2>4. owner = t
    BY <1>1, <2>1, InsideOwns
  <2> QED
    BY <1>1, <2>1, <2>2, <2>3, <2>4, OwnerKeeps
<1>7. CASE SetOffset(t)
  <2>1. /\ stage[t] = "offset" /\ ToStage(t, After(t)) /\ off' = next[t]
        /\ UNCHANGED <<array, crtc, color, ch, row, col, next, expect>>
    BY <1>7 DEF SetOffset, AtStage, callLocals
  <2>2. stage'[t] \in {"next", "return"} /\ \A u \in Callers \ {t} : stage'[u] = stage[u]
    BY <2>1, GotoSteps DEF After
  <2>3. ASSUME expect' # Nobody PROVE Due(t)'
    <3>1. expect = Shows(array, next[t]) /\ crtc = next[t]
      BY <1>1, <2>1, <2>3 DEF Due
    <3>2. expect' = AsIs'
      BY <2>1, <3>1 DEF AsIs, Shows
    <3> QED
      BY <2>2, <3>2 DEF Due
  <2>4. owner = t
    BY <1>1, <2>1, InsideOwns
  <2> QED
    BY <1>1, <2>1, <2>2, <2>3, <2>4, OwnerKeeps
<1> QED
  BY <1>2, <1>3, <1>4, <1>5, <1>6, <1>7 DEF CallStep

LEMMA CallExact ==
    ASSUME PromiseInv, NEW t \in Callers, Call(t)
    PROVE  CallsExact'
<1>1. /\ CursorConsistent /\ CallsExact
      /\ DOMAIN ch = Callers /\ DOMAIN row = Callers /\ DOMAIN col = Callers
      /\ stage[t] = "out" /\ ch[t] = " " /\ owner = Nobody
  BY DEF Call, SetTermColor, CallPrint, CallGetCursor, CallSetCursor, Lock, AtStage,
         PromiseInv, CallsExact
<1>2. CASE SetTermColor(t)
  <2>1. UNCHANGED <<stage, ch, row, col>>
    BY <1>2 DEF SetTermColor, callLocals
  <2>2. Due(t)'
    BY <1>1, <2>1 DEF Due
  <2> QED
    BY <1>1, <2>1, <2>2, OwnerKeeps
<1>3. CASE CallPrint(t)
  <2>1. ToStage(t, "next") /\ UNCHANGED <<ch, row, col>>
    BY <1>3 DEF CallPrint, callLocals
  <2>2. stage'[t] = "next" /\ \A u \in Callers \ {t} : stage'[u] = stage[u]
    BY <2>1, GotoSteps
  <2>3. Due(t)'
    BY <1>1, <2>1, <2>2 DEF Due
  <2> QED
    BY <1>1, <2>1, <2>2, <2>3, OwnerKeeps
<1>4. CASE CallGetCursor(t)
  <2>1. /\ ToStage(t, "get_row") /\ UNCHANGED <<ch, row, col>> /\ UNCHANGED screen
        /\ expect' = [off |-> Coords2Offset(CursorRow, CursorCol)]
    BY <1>4 DEF CallGetCursor, callLocals, Showing, CursorRow, CursorCol
  <2>2. stage'[t] = "get_row" /\ \A u \in Callers \ {t} : stage'[u] = stage[u]
    BY <2>1, GotoSteps
  <2>3. CursorRow' = CursorRow /\ CursorCol' = CursorCol
    BY <2>1, SameScreen
  <2>4. Due(t)'
    BY <2>1, <2>2, <2>3 DEF Due
  <2> QED
    BY <1>1, <2>1, <2>2, <2>4, OwnerKeeps
<1>5. CASE CallSetCursor(t)
  <2>1. PICK r \in -1..Height, c \in -1..Width :
           /\ SetCursorRaw(t, r, c, "return")
           /\ expect' = IF Valid(r, c)
                        THEN [array |-> array, off |-> Coords2Offset(r, c),
                              crtc |-> Coords2Offset(r, c)]
                        ELSE [array |-> array, off |-> off, crtc |-> crtc]
    BY <1>5 DEF CallSetCursor
  <2>2. UNCHANGED <<array, off, crtc, ch, row, col>>
    BY <1>5 DEF CallSetCursor, screen
  <2>3. \A u \in Callers \ {t} : stage'[u] = stage[u]
    BY <2>1, RawSteps
  <2>4. stage'[t] # "out" /\ Due(t)'
    <3>1. CASE Valid(r, c)
      <4>1. /\ stage'[t] = "crtc" /\ next'[t] = Coords2Offset(r, c)
            /\ expect' = Shows(array', next'[t])
        BY <2>1, <2>2, <3>1, RawSteps DEF Shows
      <4> QED
        BY <4>1 DEF Due
    <3>2. CASE ~Valid(r, c)
      <4>1. stage'[t] = "return" /\ expect' = AsIs'
        BY <2>1, <2>2, <3>2, RawSteps DEF AsIs
      <4> QED
        BY <4>1 DEF Due
    <3> QED
      BY <3>1, <3>2
  <2> QED
    BY <1>1, <2>2, <2>3, <2>4, OwnerKeeps
<1> QED
  BY <1>2, <1>3, <1>4, <1>5 DEF Call

(* An echo and a stutter. *)
LEMMA OthersExact ==
    ASSUME CallsExact, Echo \/ UNCHANGED consoleVars
    PROVE  CallsExact'
<1>1. CASE Echo
  BY <1>1 DEF Echo, CallsExact, callLocals
<1>2. CASE UNCHANGED consoleVars
  <2>1. UNCHANGED screen /\ UNCHANGED <<stage, ch, row, col, next, expect>>
        /\ UNCHANGED <<array, crtc, color>>
    BY <1>2 DEF consoleVars, screen, callLocals
  <2>2. /\ CursorRow' = CursorRow /\ CursorCol' = CursorCol
        /\ AsIs' = AsIs /\ Moved(array)' = Moved(array)
        /\ \A x : Expected(x)' = Expected(x)
    BY <2>1, SameScreen
  <2>3. Scroll(array)' = Scroll(array)
    BY <2>1 DEF Scroll, Pack
  <2>4. ASSUME NEW t \in Callers, Due(t) PROVE Due(t)'
    BY <2>1, <2>2, <2>3, <2>4 DEF Due
  <2> QED
    BY <2>1, <2>4 DEF CallsExact
<1> QED
  BY <1>1, <1>2

(* A byte printed, a cursor set or read and an echo do what the console    *)
(* promises, for a screen of any size and any number of callers, unless a  *)
(* key is echoed in the middle of the call (console.c:206-321).            *)
THEOREM ConsoleWorks == ConsoleSpec => WorksAsPromised
<1>1. ConsoleInit => PromiseInv
  BY InitConsistent, InitExact DEF PromiseInv
<1>2. PromiseInv /\ [ConsoleNext]_consoleVars => CallsExact'
  <2>1. SUFFICES ASSUME PromiseInv, [ConsoleNext]_consoleVars PROVE CallsExact'
    OBVIOUS
  <2>2. CASE Echo \/ UNCHANGED consoleVars
    BY <2>1, <2>2, OthersExact DEF PromiseInv
  <2>3. ASSUME NEW t \in Callers, CallStep(t) \/ Call(t) PROVE CallsExact'
    BY <2>1, <2>3, CallStepExact, CallExact
  <2> QED
    BY <2>1, <2>2, <2>3 DEF ConsoleNext
<1>3. PromiseInv /\ CursorConsistent' /\ [ConsoleNext]_consoleVars =>
         PromiseInv' /\ CallsAsPromised' /\ EchoAsPromised
  <2>1. SUFFICES ASSUME PromiseInv, CursorConsistent', [ConsoleNext]_consoleVars
                 PROVE  PromiseInv' /\ CallsAsPromised' /\ EchoAsPromised
    OBVIOUS
  <2>2. PromiseInv'
    BY <1>2, <2>1 DEF PromiseInv
  <2>3. PromiseInv' => CallsAsPromised'
    BY ExactPromises, PTL
  <2>4. EchoAsPromised
    BY <2>1, EchoPromise DEF PromiseInv
  <2> QED
    BY <2>2, <2>3, <2>4
<1> QED
  BY <1>1, <1>3, CursorStaysInScreen, PTL DEF ConsoleSpec, WorksAsPromised

-----------------------------------------------------------------------------
(***************************************************************************)
(* The keyboard.                                                           *)
(***************************************************************************)

InCvarSpin == {"l_enqueue", "c_enqueue", "l_park", "c_park"}

(* Who is in a call holds kbd_lock, who is in cvar_wait's first half its   *)
(* spinlock, and who is queued stands right before its sleep or sleeps.    *)
ReaderInv ==
    /\ \A t \in Readers : rpc[t] # "out" <=> kbdLock = t
    /\ \A t \in Readers : rpc[t] \in InCvarSpin <=> spin = t
    /\ \A t \in Readers : InWaitq(t) => rpc[t] \in {"l_park", "c_park"} \cup Asleep
    /\ Len(waitq) <= 1

(* Where a reader can have a key in hand, and whether the one in a call has. *)
HoldPCs == {"l_update"} \cup CharPCs

Reading == kbdLock \in Holding

Slots == 0 .. Size - 1

(* What is read was written: until all of the buffer was written once, the *)
(* two indices have not wrapped.                                           *)
Written ==
    \/ \A i \in Slots : buf[i] # 0
    \/ bufR + bufCount = bufW /\ \A i \in 0 .. bufW - 1 : buf[i] # 0

(* How many keys were taken, and which.                                    *)
Taken == Len(given) + Len(dropped)

TakenKey(n) ==
    (\E j \in DOMAIN given : given[j] = n) \/ (\E j \in DOMAIN dropped : dropped[j] = n)

(* Every key is accounted for by number, whatever has been overwritten.    *)
BufferInv ==
    /\ getCount <= Taken /\ Len(kind) <= MaxKeys
    /\ Len(kind) = Taken + bufCount + (IF Reading THEN 1 ELSE 0)
    /\ \A i \in Slots : buf[i] <= Len(kind)
    /\ \A t \in Readers : got[t] <= Len(kind)
    /\ \A t \in Readers : rpc[t] = "l_update" => got[t] # 0
    /\ Written

Oldest(i) == buf[(bufR + i - 1) % Size]

(* Until something is overwritten the window between the indices is exact, *)
(* and a key that was not taken is in it or in hand.                       *)
WindowInv ==
    ~overrun =>
        /\ bufCount <= Size /\ bufW = (bufR + bufCount) % Size
        /\ \A i, j \in 1 .. bufCount : i < j => Oldest(i) < Oldest(j)
        /\ \A i \in 1 .. bufCount : Oldest(i) # 0
        /\ \A n \in Keys :
              \/ TakenKey(n)
              \/ \E i \in 1 .. bufCount : Oldest(i) = n
              \/ \E t \in Holding : got[t] = n

KbdIInv == KbdTypes /\ ReaderInv /\ BufferInv /\ WindowInv

LEMMA KbdSizes ==
    /\ Size \in Nat \ {0} /\ LineSize \in Nat \ {0} /\ MaxKeys \in Nat
    /\ Other \notin Readers /\ Nil \notin Readers
BY KeyboardAssumption

LEMMA Wrapped ==
    ASSUME NEW a \in Slots, NEW b \in 0 .. Size
    PROVE  /\ (a + b) % Size = IF a + b < Size THEN a + b ELSE a + b - Size
           /\ (a + b) % Size \in Slots
BY KbdSizes DEF Slots

LEMMA ModIncIs ==
    ASSUME NEW a \in Slots
    PROVE  ModInc(a) = (IF a = Size - 1 THEN 0 ELSE a + 1) /\ ModInc(a) \in Slots
BY KbdSizes DEF ModInc, Slots

(* The place of the i-th unread character, without the modulus. *)
LEMMA PlaceIs ==
    ASSUME NEW a \in Slots, NEW i \in 1 .. Size
    PROVE  /\ (a + i - 1) % Size =
                 IF a + i - 1 < Size THEN a + i - 1 ELSE a + i - 1 - Size
           /\ (a + i - 1) % Size \in Slots
<1>1. i - 1 \in 0 .. Size /\ a + i - 1 = a + (i - 1)
  BY KbdSizes DEF Slots
<1>2. /\ (a + (i - 1)) % Size =
            IF a + (i - 1) < Size THEN a + (i - 1) ELSE a + (i - 1) - Size
      /\ (a + (i - 1)) % Size \in Slots
  BY <1>1, Wrapped
<1> QED BY <1>1, <1>2

LEMMA HistoryFacts ==
    ASSUME KbdTypes
    PROVE  /\ Len(kind) \in Nat /\ Len(given) \in Nat /\ Len(dropped) \in Nat
           /\ Taken \in Nat
           /\ \A n : TakenKey(n) => n \in 1 .. Len(kind)
<1>1. kind \in Seq(Kinds) /\ given \in Seq(Keys) /\ dropped \in Seq(Keys)
  BY DEF KbdTypes
<1>2. /\ \A j \in DOMAIN given : given[j] \in Keys
      /\ \A j \in DOMAIN dropped : dropped[j] \in Keys
  BY <1>1
<1>3. Len(kind) \in Nat /\ Len(given) \in Nat /\ Len(dropped) \in Nat
  BY <1>1
<1> QED BY <1>2, <1>3 DEF Keys, Taken, TakenKey

(* Who holds a key is the one in a call. *)
LEMMA HoldingFacts ==
    ASSUME KbdTypes, ReaderInv
    PROVE  /\ \A t \in Holding : t \in Readers /\ t = kbdLock /\ rpc[t] \in HoldPCs /\ got[t] # 0
           /\ Reading <=> Holding # {}
           /\ \A t \in Readers : kbdLock = t => (t \in Holding <=> Reading)
<1>1. \A t \in Holding : t \in Readers /\ rpc[t] \in HoldPCs /\ got[t] # 0
  BY DEF Holding, HoldPCs
<1>2. "out" \notin HoldPCs
  BY DEF HoldPCs, CharPCs
<1>3. \A t \in Holding : t = kbdLock
  BY <1>1, <1>2 DEF ReaderInv
<1> QED BY <1>1, <1>3 DEF Reading

-----------------------------------------------------------------------------
(* The wait queue *)

LEMMA WaitqFacts ==
    ASSUME waitq \in Seq(Readers)
    PROVE  /\ Len(waitq) \in Nat
           /\ \A u \in Readers : InWaitq(u) <=> \E i \in 1 .. Len(waitq) : waitq[i] = u
           /\ (\A u \in Readers : ~InWaitq(u)) => waitq = <<>>
<1>1. /\ Len(waitq) \in Nat /\ DOMAIN waitq = 1 .. Len(waitq)
      /\ \A i \in 1 .. Len(waitq) : waitq[i] \in Readers
  OBVIOUS
<1>2. \A u \in Readers : InWaitq(u) <=> \E i \in 1 .. Len(waitq) : waitq[i] = u
  BY <1>1 DEF InWaitq, ToSet
<1>3. ASSUME waitq # <<>> PROVE \E u \in Readers : InWaitq(u)
  <2>1. 1 \in 1 .. Len(waitq) /\ waitq[1] \in Readers
    BY <1>1, <1>3
  <2> QED BY <1>2, <2>1
<1> QED BY <1>1, <1>2, <1>3

(* signal empties it. *)
LEMMA SignalEmpties ==
    ASSUME waitq \in Seq(Readers), Len(waitq) <= 1, Signal
    PROVE  waitq' = <<>> /\ waitq' \in Seq(Readers) /\ \A u \in Readers : ~InWaitq(u)'
<1>1. waitq' = <<>>
  BY DEF Signal
<1>2. ToSet(<<>>) = {}
  BY DEF ToSet
<1> QED BY <1>1, <1>2 DEF InWaitq

-----------------------------------------------------------------------------
(* Initially *)

LEMMA InitKbd == KbdInit => KbdIInv
<1> SUFFICES ASSUME KbdInit PROVE KbdIInv
  OBVIOUS
<1> USE KbdSizes DEF KbdInit
<1>1. KbdTypes
  BY DEF KbdTypes, Keys
<1>2. ReaderInv
  BY DEF ReaderInv, InCvarSpin, InWaitq, ToSet, Asleep
<1>3. Len(kind) = 0 /\ Taken = 0 /\ bufCount = 0 /\ ~Reading
  BY DEF Reading, Holding, Taken, CharPCs
<1>4. BufferInv
  BY <1>3 DEF BufferInv, Written, Slots
<1>5. WindowInv
  <2>1. 0 \in Slots /\ (0 + 0) % Size = 0
    <3>1. 0 \in Slots /\ 0 \in 0 .. Size /\ 0 + 0 < Size
      BY DEF Slots
    <3> QED BY <3>1, Wrapped
  <2> QED BY <1>3, <2>1 DEF WindowInv, Keys
<1> QED BY <1>1, <1>2, <1>4, <1>5 DEF KbdIInv

-----------------------------------------------------------------------------
(* Steps that leave the buffer alone, and each key where it is             *)

LEMMA NothingTaken ==
    ASSUME KbdIInv, KbdTypes', ReaderInv',
           UNCHANGED <<bufVars, kind, takenVars>>,
           getCount' = getCount \/ getCount' = 0,
           \A t \in Readers : rpc'[t] = "l_update" => rpc[t] = "l_update",
           \A t \in Readers : t \in Holding' <=> t \in Holding,
           \A t \in Readers : got'[t] = got[t] \/ (got'[t] = 0 /\ rpc[t] = "out")
    PROVE  KbdIInv'
<1> USE DEF bufVars, takenVars
<1>1. /\ Len(kind) \in Nat /\ Taken \in Nat /\ Len(kind)' = Len(kind) /\ Taken' = Taken
      /\ \A n : TakenKey(n)' <=> TakenKey(n)
  BY HistoryFacts DEF KbdIInv, Taken, TakenKey
<1>2. Holding' = Holding
  BY DEF Holding
<1>3. Reading' <=> Reading
  <2>1. \A t \in Holding' : t \in Readers /\ rpc'[t] # "out"
    BY DEF Holding, CharPCs
  <2>2. \A t \in Holding' : kbdLock' = t
    BY <2>1 DEF ReaderInv
  <2>3. \A t \in Holding : kbdLock = t
    BY HoldingFacts DEF KbdIInv
  <2> QED BY <1>2, <2>2, <2>3 DEF Reading
<1>4. Written'
  BY DEF KbdIInv, BufferInv, Written
<1>5. \A t \in Readers : rpc'[t] = "l_update" => got'[t] = got[t]
  OBVIOUS
<1>6. BufferInv'
  <2>1. \A t \in Readers : got'[t] <= Len(kind)
    BY <1>1 DEF KbdIInv, BufferInv
  <2>2. getCount' <= Taken
    BY <1>1 DEF KbdIInv, BufferInv
  <2> QED BY <1>1, <1>3, <1>4, <1>5, <2>1, <2>2 DEF KbdIInv, BufferInv
<1>7. \A t \in Holding : got'[t] = got[t]
  <2>1. \A t \in Holding : t \in Readers /\ rpc[t] # "out"
    BY DEF Holding, CharPCs
  <2> QED BY <2>1
<1>8. WindowInv'
  BY <1>1, <1>2, <1>7 DEF KbdIInv, WindowInv, Oldest, Keys
<1> QED BY <1>6, <1>8 DEF KbdIInv

-----------------------------------------------------------------------------
(* The readers *)

ReaderPCs == {"out"} \cup LinePCs \cup CharPCs

(* Whoever holds kbd_lock, or just takes it, is alone. *)
LEMMA Alone ==
    ASSUME KbdTypes, ReaderInv, NEW t \in Readers, kbdLock = t \/ kbdLock = Nil
    PROVE  /\ spin = t \/ spin = Nil
           /\ \A u \in Readers : u # t => rpc[u] = "out" /\ ~InWaitq(u)
<1>1. \A u \in Readers : u # t => rpc[u] = "out"
  BY KbdSizes DEF ReaderInv
<1>2. spin \in Readers \cup {Nil}
  BY DEF KbdTypes
<1>3. spin \in Readers => rpc[spin] \in InCvarSpin
  BY DEF ReaderInv
<1>4. \A u \in Readers : InWaitq(u) => rpc[u] # "out"
  BY DEF ReaderInv, Asleep
<1> QED BY <1>1, <1>2, <1>3, <1>4 DEF InCvarSpin

LEMMA ReaderMoved ==
    ASSUME KbdTypes, NEW t \in Readers, NEW label \in ReaderPCs,
           rpc' = [rpc EXCEPT ![t] = label]
    PROVE  /\ rpc' \in [Readers -> ReaderPCs] /\ rpc'[t] = label
           /\ \A u \in Readers : u # t => rpc'[u] = rpc[u]
BY DEF KbdTypes, ReaderPCs

(* A step of a reader that takes no key and puts none out of its hand *)
LEMMA ReaderStepKeeps ==
    ASSUME KbdIInv, NEW t \in Readers, NEW label \in ReaderPCs,
           rpc' = [rpc EXCEPT ![t] = label],
           label # "l_update", rpc[t] # "l_update",
           got'[t] = 0 \/ (rpc[t] \in HoldPCs <=> label \in HoldPCs),
           kbdLock = t \/ kbdLock = Nil,
           kbdLock' = IF label = "out" THEN Nil ELSE t,
           spin' = IF label \in InCvarSpin THEN t ELSE Nil,
           waitq' \in Seq(Readers), Len(waitq') <= 1,
           \A u \in Readers : InWaitq(u)' =>
               u = t /\ label \in {"l_park", "c_park"} \cup Asleep,
           kbdState' \in {"NONE", "CHAR", "LINE"}, getBuf' \in Readers \cup {Nil},
           getCount' = getCount \/ getCount' = 0,
           got' = got \/ (rpc[t] = "out" /\ got' = [got EXCEPT ![t] = 0]),
           UNCHANGED <<bufVars, keyVars>>
    PROVE  KbdIInv'
<1>1. KbdTypes /\ ReaderInv /\ Nil \notin Readers /\ MaxKeys \in Nat
  BY KbdSizes DEF KbdIInv
<1>2. /\ rpc' \in [Readers -> ReaderPCs] /\ rpc'[t] = label
      /\ \A u \in Readers : u # t => rpc'[u] = rpc[u]
  BY <1>1, ReaderMoved
<1>3. \A u \in Readers : u # t => rpc[u] = "out"
  BY <1>1, Alone
<1>4. /\ hpc' = hpc /\ hthr' = hthr /\ kind' = kind
      /\ given' = given /\ dropped' = dropped /\ stray' = stray /\ UNCHANGED bufVars
      /\ buf' = buf /\ bufR' = bufR /\ bufW' = bufW /\ bufCount' = bufCount
      /\ overrun' = overrun
  BY DEF keyVars, takenVars, bufVars
<1>5. ReaderInv'
  <2>1. \A u \in Readers : rpc'[u] # "out" <=> kbdLock' = u
    BY <1>1, <1>2, <1>3
  <2>2. "out" \notin InCvarSpin
    BY DEF InCvarSpin
  <2>3. \A u \in Readers : rpc'[u] \in InCvarSpin <=> spin' = u
    BY <1>1, <1>2, <1>3, <2>2
  <2>4. \A u \in Readers : InWaitq(u)' => rpc'[u] \in {"l_park", "c_park"} \cup Asleep
    BY <1>2
  <2> QED BY <2>1, <2>3, <2>4 DEF ReaderInv
<1>6. \A u \in Readers : got'[u] = got[u] \/ (got'[u] = 0 /\ rpc[u] = "out")
  BY <1>1 DEF KbdTypes
<1>7. KbdTypes'
  <2>1. got' \in [Readers -> 0 .. MaxKeys]
    <3>1. got \in [Readers -> 0 .. MaxKeys] /\ 0 \in 0 .. MaxKeys
      BY <1>1 DEF KbdTypes
    <3> QED BY <3>1
  <2>2. getCount' \in 0 .. MaxKeys
    BY <1>1 DEF KbdTypes
  <2>3. kbdLock' \in Readers \cup {Nil} /\ spin' \in Readers \cup {Nil}
    OBVIOUS
  <2> QED BY <1>1, <1>2, <1>4, <2>1, <2>2, <2>3 DEF KbdTypes, ReaderPCs, Keys
<1>8. \A u \in Readers : rpc'[u] = "l_update" => rpc[u] = "l_update"
  BY <1>2
<1>9. UNCHANGED <<bufVars, kind, takenVars>>
  BY <1>4 DEF takenVars
<1>10. ASSUME NEW u \in Readers PROVE u \in Holding' <=> u \in Holding
  <2>1. CASE u # t
    <3>1. rpc'[u] = rpc[u] /\ rpc[u] \notin HoldPCs
      BY <1>2, <1>3, <2>1 DEF HoldPCs, CharPCs
    <3> QED BY <3>1 DEF Holding, HoldPCs
  <2>2. CASE u = t /\ got' = got
    BY <1>2, <2>2 DEF Holding, HoldPCs
  <2>3. CASE u = t /\ rpc[t] = "out" /\ got' = [got EXCEPT ![t] = 0]
    <3>1. got'[t] = 0 /\ rpc[t] \notin HoldPCs
      BY <1>1, <2>3 DEF KbdTypes, HoldPCs, CharPCs
    <3> QED BY <2>3, <3>1 DEF Holding, HoldPCs
  <2> QED BY <2>1, <2>2, <2>3
<1> QED BY <1>5, <1>6, <1>7, <1>8, <1>9, <1>10, NothingTaken

(* The same of a reader that neither waits nor returns *)
LEMMA ReaderRuns ==
    ASSUME KbdIInv, NEW t \in Readers, NEW label \in ReaderPCs \ InCvarSpin,
           rpc' = [rpc EXCEPT ![t] = label],
           rpc[t] \notin InCvarSpin \cup {"l_update"}, label # "l_update", ~InWaitq(t),
           got'[t] = 0 \/ (rpc[t] \in HoldPCs <=> label \in HoldPCs),
           kbdLock = t \/ kbdLock = Nil,
           kbdLock' = IF label = "out" THEN Nil ELSE t, UNCHANGED cvVars,
           kbdState' \in {"NONE", "CHAR", "LINE"}, getBuf' \in Readers \cup {Nil},
           getCount' = getCount \/ getCount' = 0,
           got' = got \/ (rpc[t] = "out" /\ got' = [got EXCEPT ![t] = 0]),
           UNCHANGED <<bufVars, keyVars>>
    PROVE  KbdIInv'
<1>1. KbdTypes /\ ReaderInv
  BY DEF KbdIInv
<1>2. spin = Nil
  BY <1>1, Alone DEF ReaderInv
<1>3. spin' = (IF label \in InCvarSpin THEN t ELSE Nil) /\ waitq' = waitq
  BY <1>2 DEF cvVars
<1>4. waitq' \in Seq(Readers) /\ Len(waitq') <= 1
  BY <1>1, <1>3 DEF KbdTypes, ReaderInv
<1>5. \A u \in Readers : ~InWaitq(u)'
  BY <1>1, <1>3, Alone DEF InWaitq
<1> QED BY <1>3, <1>4, <1>5, ReaderStepKeeps

LEMMA CallReadKeeps ==
    ASSUME KbdIInv, NEW t \in Readers, NEW label \in {"l_state", "c_state"},
           CallRead(t, label)
    PROVE  KbdIInv'
<1>1. /\ rpc[t] = "out" /\ rpc' = [rpc EXCEPT ![t] = label]
      /\ got' = [got EXCEPT ![t] = 0] /\ kbdLock = Nil /\ kbdLock' = t
      /\ kbdState' = kbdState /\ getBuf' = getBuf /\ getCount' = getCount
      /\ UNCHANGED cvVars /\ UNCHANGED <<bufVars, keyVars>>
  BY DEF CallRead, ReaderAt, ReaderGoto, lineVars
<1>2. label \in ReaderPCs \ InCvarSpin /\ label # "out" /\ label # "l_update"
  BY DEF ReaderPCs, LinePCs, CharPCs, InCvarSpin
<1>3. rpc[t] \notin InCvarSpin \cup {"l_update"}
  BY <1>1 DEF InCvarSpin
<1>4. ~InWaitq(t)
  BY <1>1 DEF KbdIInv, ReaderInv, Asleep
<1>5. kbdState' \in {"NONE", "CHAR", "LINE"} /\ getBuf' \in Readers \cup {Nil}
  BY <1>1 DEF KbdIInv, KbdTypes
<1>6. got'[t] = 0
  BY <1>1 DEF KbdIInv, KbdTypes
<1> QED BY <1>1, <1>2, <1>3, <1>4, <1>5, <1>6, ReaderRuns

(* Who is at none of these places is not queued. *)
LEMMA AwakeHolds ==
    ASSUME KbdIInv, NEW t \in Readers, rpc[t] \notin InCvarSpin \cup Asleep, rpc[t] # "out"
    PROVE  ~InWaitq(t) /\ kbdLock = t
BY DEF KbdIInv, ReaderInv, InCvarSpin

LEMMA SetKeeps ==
    ASSUME KbdIInv, NEW t \in Readers, SetState(t) \/ SetBuf(t) \/ SetCount(t)
    PROVE  KbdIInv'
<1>1. PICK label \in {"l_buf", "c_read", "l_count", "l_drain"} :
          /\ rpc' = [rpc EXCEPT ![t] = label]
          /\ rpc[t] = "c_state" <=> label = "c_read"
  BY DEF SetState, SetBuf, SetCount, ReaderGoto, ReaderAt
<1>2. rpc[t] \in {"l_state", "c_state", "l_buf", "l_count"}
  BY DEF SetState, SetBuf, SetCount, ReaderAt
<1>3. /\ kbdLock' = kbdLock /\ got' = got /\ UNCHANGED cvVars
      /\ UNCHANGED <<bufVars, keyVars>>
  BY DEF SetState, SetBuf, SetCount
<1>4. /\ kbdState' \in {"NONE", "CHAR", "LINE"} /\ getBuf' \in Readers \cup {Nil}
      /\ getCount' = getCount \/ getCount' = 0
  BY DEF SetState, SetBuf, SetCount, lineVars, KbdIInv, KbdTypes
<1>5. label \in ReaderPCs \ InCvarSpin /\ label # "out" /\ label # "l_update"
  BY DEF ReaderPCs, LinePCs, CharPCs, InCvarSpin
<1>6. rpc[t] \notin InCvarSpin \cup Asleep /\ rpc[t] # "out" /\ rpc[t] # "l_update"
  BY <1>2 DEF InCvarSpin, Asleep
<1>7. ~InWaitq(t) /\ kbdLock = t
  BY <1>6, AwakeHolds
<1>8. rpc[t] \in HoldPCs <=> label \in HoldPCs
  BY <1>1, <1>2 DEF HoldPCs, CharPCs
<1> QED BY <1>1, <1>3, <1>4, <1>5, <1>6, <1>7, <1>8, ReaderRuns

(* The buffer is empty. *)
LEMMA NothingReadKeeps ==
    ASSUME KbdIInv, NEW t \in Readers, UNCHANGED bufVars,
           NEW label \in {"l_wait", "c_done"},
           (LineDrain(t) /\ label = "l_wait") \/ (CharRead(t) /\ label = "c_done"),
           UNCHANGED <<got, takenVars>>, rpc' = [rpc EXCEPT ![t] = label]
    PROVE  KbdIInv'
<1>1. /\ rpc[t] \in {"l_drain", "c_read"}
      /\ rpc[t] = "c_read" <=> label = "c_done"
  BY DEF LineDrain, CharRead, ReaderAt
<1>2. /\ kbdLock' = kbdLock /\ UNCHANGED cvVars /\ UNCHANGED <<bufVars, keyVars>>
      /\ kbdState' = kbdState /\ getBuf' = getBuf /\ getCount' = getCount
  BY DEF LineDrain, CharRead, keyVars, lineVars
<1>3. kbdState' \in {"NONE", "CHAR", "LINE"} /\ getBuf' \in Readers \cup {Nil}
  BY <1>2 DEF KbdIInv, KbdTypes
<1>4. label \in ReaderPCs \ InCvarSpin /\ label # "out" /\ label # "l_update"
  BY DEF ReaderPCs, LinePCs, CharPCs, InCvarSpin
<1>5. rpc[t] \notin InCvarSpin \cup Asleep /\ rpc[t] # "out" /\ rpc[t] # "l_update"
  BY <1>1 DEF InCvarSpin, Asleep
<1>6. ~InWaitq(t) /\ kbdLock = t
  BY <1>5, AwakeHolds
<1>7. rpc[t] \in HoldPCs <=> label \in HoldPCs
  BY <1>1 DEF HoldPCs, CharPCs
<1> QED BY <1>2, <1>3, <1>4, <1>5, <1>6, <1>7, ReaderRuns

LEMMA WaitGoes ==
    /\ WaitNext["l_wait"] = "l_enqueue" /\ WaitNext["c_wait"] = "c_enqueue"
    /\ WaitNext["l_enqueue"] = "l_park" /\ WaitNext["c_enqueue"] = "c_park"
    /\ WaitNext["l_park"] = "l_asleep" /\ WaitNext["c_park"] = "c_asleep"
BY DEF WaitNext

LEMMA WaitKeeps ==
    ASSUME KbdIInv, NEW t \in Readers, WaitStep(t)
    PROVE  KbdIInv'
<1>1. KbdTypes /\ ReaderInv /\ Nil \notin Readers
  BY KbdSizes DEF KbdIInv
<1>2. /\ kbdLock' = kbdLock /\ got' = got /\ UNCHANGED <<bufVars, keyVars>>
      /\ kbdState' = kbdState /\ getBuf' = getBuf /\ getCount' = getCount
  BY DEF WaitStep, WaitLock, WaitEnqueue, WaitPark, WaitReturn, lineVars, cvVars
<1>3. kbdState' \in {"NONE", "CHAR", "LINE"} /\ getBuf' \in Readers \cup {Nil}
  BY <1>1, <1>2 DEF KbdTypes
<1>4. rpc[t] \in {"l_wait", "c_wait"} \cup InCvarSpin \cup Asleep
  BY DEF WaitStep, WaitLock, WaitEnqueue, WaitPark, WaitReturn, InCvarSpin
<1>5. rpc[t] # "out" /\ rpc[t] # "l_update"
  BY <1>4 DEF InCvarSpin, Asleep
<1>6. kbdLock = t
  BY <1>1, <1>5 DEF ReaderInv
<1>7. waitq \in Seq(Readers) /\ Len(waitq) <= 1
  BY <1>1 DEF KbdTypes, ReaderInv
<1>8. \A u \in Readers : InWaitq(u) => u = t /\ rpc[t] \in {"l_park", "c_park"} \cup Asleep
  BY <1>1, <1>6, Alone DEF ReaderInv
<1>9. CASE WaitLock(t)
  <2>1. PICK label \in {"l_enqueue", "c_enqueue"} :
            /\ rpc' = [rpc EXCEPT ![t] = label]
            /\ rpc[t] \in HoldPCs <=> label \in HoldPCs
    <3>1. CASE rpc[t] = "l_wait"
      BY <1>9, <3>1, WaitGoes DEF WaitLock, ReaderGoto, HoldPCs, CharPCs
    <3>2. CASE rpc[t] = "c_wait"
      BY <1>9, <3>2, WaitGoes DEF WaitLock, ReaderGoto, HoldPCs, CharPCs
    <3> QED BY <1>9, <3>1, <3>2 DEF WaitLock
  <2>2. spin' = t /\ waitq' = waitq /\ rpc[t] \in {"l_wait", "c_wait"}
    BY <1>9 DEF WaitLock
  <2>3. label \in ReaderPCs /\ label \in InCvarSpin /\ label # "out" /\ label # "l_update"
    BY DEF ReaderPCs, LinePCs, CharPCs, InCvarSpin
  <2>4. rpc[t] \notin {"l_park", "c_park"} \cup Asleep
    BY <2>2 DEF Asleep
  <2>5. \A u \in Readers : ~InWaitq(u)'
    BY <1>8, <2>2, <2>4 DEF InWaitq
  <2> QED
    BY <1>2, <1>3, <1>5, <1>6, <1>7, <2>1, <2>2, <2>3, <2>5, ReaderStepKeeps
<1>10. CASE WaitEnqueue(t)
  <2>1. PICK label \in {"l_park", "c_park"} :
            /\ rpc' = [rpc EXCEPT ![t] = label]
            /\ rpc[t] \in HoldPCs <=> label \in HoldPCs
    <3>1. CASE rpc[t] = "l_enqueue"
      BY <1>10, <3>1, WaitGoes DEF WaitEnqueue, ReaderGoto, HoldPCs, CharPCs
    <3>2. CASE rpc[t] = "c_enqueue"
      BY <1>10, <3>2, WaitGoes DEF WaitEnqueue, ReaderGoto, HoldPCs, CharPCs
    <3> QED BY <1>10, <3>1, <3>2 DEF WaitEnqueue
  <2>2. /\ spin' = spin /\ waitq' = Append(waitq, t)
        /\ rpc[t] \in {"l_enqueue", "c_enqueue"}
    BY <1>10 DEF WaitEnqueue
  <2>3. label \in ReaderPCs /\ label \in InCvarSpin /\ label # "out" /\ label # "l_update"
    BY DEF ReaderPCs, LinePCs, CharPCs, InCvarSpin
  <2>4. rpc[t] \in InCvarSpin /\ rpc[t] \notin {"l_park", "c_park"} \cup Asleep
    BY <2>2 DEF InCvarSpin, Asleep
  <2>5. spin = t
    BY <1>1, <2>4 DEF ReaderInv
  <2>6. \A u \in Readers : ~InWaitq(u)
    BY <1>8, <2>4
  <2>7. waitq = <<>>
    BY <1>7, <2>6, WaitqFacts
  <2>8. waitq' = <<t>>
    BY <2>2, <2>7
  <2>9. waitq' \in Seq(Readers) /\ Len(waitq') <= 1
    BY <2>8
  <2>10. \A u \in Readers : InWaitq(u)' => u = t
    BY <2>8 DEF InWaitq, ToSet
  <2> QED
    BY <1>2, <1>3, <1>5, <1>6, <2>1, <2>2, <2>3, <2>5, <2>9, <2>10, ReaderStepKeeps
<1>11. CASE WaitPark(t)
  <2>1. PICK label \in {"l_asleep", "c_asleep"} :
            /\ rpc' = [rpc EXCEPT ![t] = label]
            /\ rpc[t] \in HoldPCs <=> label \in HoldPCs
    <3>1. CASE rpc[t] = "l_park"
      BY <1>11, <3>1, WaitGoes DEF WaitPark, ReaderGoto, HoldPCs, CharPCs
    <3>2. CASE rpc[t] = "c_park"
      BY <1>11, <3>2, WaitGoes DEF WaitPark, ReaderGoto, HoldPCs, CharPCs
    <3> QED BY <1>11, <3>1, <3>2 DEF WaitPark
  <2>2. spin' = Nil /\ waitq' = waitq
    BY <1>11 DEF WaitPark
  <2>3. /\ label \in ReaderPCs /\ label \notin InCvarSpin /\ label \in Asleep
        /\ label # "out" /\ label # "l_update"
    BY DEF ReaderPCs, LinePCs, CharPCs, InCvarSpin, Asleep
  <2>4. \A u \in Readers : InWaitq(u)' => u = t
    BY <1>8, <2>2 DEF InWaitq
  <2> QED
    BY <1>2, <1>3, <1>5, <1>6, <1>7, <2>1, <2>2, <2>3, <2>4, ReaderStepKeeps
<1>12. CASE WaitReturn(t)
  <2>1. PICK label \in {"l_done", "c_read"} :
            /\ rpc' = [rpc EXCEPT ![t] = label]
            /\ rpc[t] \in HoldPCs <=> label \in HoldPCs
    BY <1>12 DEF WaitReturn, ReaderGoto, HoldPCs, CharPCs, Asleep
  <2>2. rpc[t] \in Asleep /\ ~InWaitq(t) /\ UNCHANGED cvVars
    BY <1>12 DEF WaitReturn
  <2>3. label \in ReaderPCs \ InCvarSpin /\ label # "out" /\ label # "l_update"
    BY DEF ReaderPCs, LinePCs, CharPCs, InCvarSpin
  <2>4. rpc[t] \notin InCvarSpin \cup {"l_update"}
    BY <2>2 DEF Asleep, InCvarSpin
  <2> QED BY <1>2, <1>3, <1>6, <2>1, <2>2, <2>3, <2>4, ReaderRuns
<1> QED BY <1>9, <1>10, <1>11, <1>12 DEF WaitStep

LEMMA ReturnKeeps ==
    ASSUME KbdIInv, NEW t \in Readers, ReadReturn(t), rpc[t] # "c_done" \/ got[t] = 0
    PROVE  KbdIInv'
<1>1. /\ rpc' = [rpc EXCEPT ![t] = "out"] /\ kbdLock' = Nil /\ got' = got
      /\ UNCHANGED cvVars /\ UNCHANGED <<bufVars, keyVars>>
      /\ kbdState' = kbdState /\ getBuf' = getBuf /\ getCount' = getCount
      /\ rpc[t] \in {"l_early", "l_done", "c_done"}
  BY DEF ReadReturn, ReaderGoto, lineVars, keyVars, takenVars
<1>2. kbdState' \in {"NONE", "CHAR", "LINE"} /\ getBuf' \in Readers \cup {Nil}
  BY <1>1 DEF KbdIInv, KbdTypes
<1>3. rpc[t] \notin InCvarSpin \cup Asleep /\ rpc[t] # "out" /\ rpc[t] # "l_update"
  BY <1>1 DEF InCvarSpin, Asleep
<1>4. ~InWaitq(t) /\ kbdLock = t
  BY <1>3, AwakeHolds
<1>5. "out" \in ReaderPCs \ InCvarSpin
  BY DEF ReaderPCs, InCvarSpin
<1>6. got'[t] = 0 \/ (rpc[t] \in HoldPCs <=> "out" \in HoldPCs)
  BY <1>1 DEF HoldPCs, CharPCs
<1> QED BY <1>1, <1>2, <1>3, <1>4, <1>5, <1>6, ReaderRuns

(* The handler's other steps *)
LEMMA HandlerKeeps ==
    ASSUME KbdIInv, HandlerClearState \/ HandlerSignal
    PROVE  KbdIInv'
<1>1. KbdTypes /\ ReaderInv /\ MaxKeys \in Nat
  BY KbdSizes DEF KbdIInv
<1>2. /\ kbdLock' = kbdLock /\ spin' = spin /\ rpc' = rpc /\ got' = got
      /\ getBuf' = getBuf /\ getCount' = getCount
      /\ kind' = kind /\ given' = given /\ dropped' = dropped /\ stray' = stray
      /\ UNCHANGED bufVars
  BY DEF HandlerClearState, HandlerSignal, lineVars, cvVars, takenVars
<1>3. /\ kbdState' \in {"NONE", "CHAR", "LINE"}
      /\ hpc' \in {"idle", "char", "signal"} /\ hthr' \in Readers \cup {Other, Nil}
  BY <1>1 DEF HandlerClearState, HandlerSignal, HandlerAt, HandlerDone, KbdTypes
<1>4. /\ waitq' \in Seq(Readers) /\ Len(waitq') <= 1
      /\ \A u \in Readers : InWaitq(u)' => InWaitq(u)
  <2>1. CASE waitq' = waitq
    BY <1>1, <2>1 DEF KbdTypes, ReaderInv, InWaitq
  <2>2. CASE Signal
    BY <1>1, <2>2, SignalEmpties DEF KbdTypes, ReaderInv
  <2> QED BY <2>1, <2>2 DEF HandlerClearState, HandlerSignal, cvVars
<1>5. KbdTypes'
  BY <1>1, <1>2, <1>3, <1>4 DEF KbdTypes, bufVars, Keys
<1>6. ReaderInv'
  BY <1>1, <1>2, <1>4 DEF ReaderInv
<1>7. UNCHANGED <<bufVars, kind, takenVars>>
  BY <1>2 DEF takenVars
<1>8. /\ \A t \in Readers : rpc'[t] = "l_update" => rpc[t] = "l_update"
      /\ \A t \in Readers : t \in Holding' <=> t \in Holding
      /\ \A t \in Readers : got'[t] = got[t] \/ (got'[t] = 0 /\ rpc[t] = "out")
      /\ getCount' = getCount
  BY <1>2 DEF Holding
<1> QED BY <1>5, <1>6, <1>7, <1>8, NothingTaken

-----------------------------------------------------------------------------
(* The circular buffer *)

LEMMA BufferFacts ==
    ASSUME KbdTypes
    PROVE  /\ Size \in Nat \ {0} /\ bufR \in Slots /\ bufW \in Slots
           /\ bufCount \in Nat /\ overrun \in BOOLEAN
           /\ \A i \in Slots : buf[i] \in Nat /\ buf[i] \in 0 .. MaxKeys
BY KbdSizes DEF KbdTypes, Slots

(* A read takes the oldest character, which was typed, and the others move *)
(* up by one.                                                              *)
LEMMA BufferReadGives ==
    ASSUME KbdTypes, BufferInv, NEW t \in Readers, BufferRead(t)
    PROVE  /\ got'[t] = buf[bufR] /\ buf[bufR] \in 1 .. Len(kind)
           /\ bufR' \in Slots /\ bufCount > 0 /\ bufCount' = bufCount - 1
           /\ Written'
           /\ ~overrun /\ bufCount <= Size /\ bufW = (bufR + bufCount) % Size =>
                 /\ Oldest(1) = buf[bufR]
                 /\ \A i \in 1 .. bufCount - 1 : Oldest(i)' = Oldest(i + 1)
                 /\ bufW' = (bufR' + bufCount') % Size
<1>1. /\ bufCount > 0 /\ bufCount' = bufCount - 1 /\ buf' = buf /\ bufW' = bufW
      /\ bufR' = (IF bufR = Size - 1 THEN 0 ELSE bufR + 1) /\ bufR' \in Slots
      /\ got' = [got EXCEPT ![t] = buf[bufR]]
  BY BufferFacts, ModIncIs DEF BufferRead
<1>2. got'[t] = buf[bufR]
  BY <1>1 DEF KbdTypes
<1>3. buf[bufR] # 0
  <2>1. CASE \A i \in Slots : buf[i] # 0
    BY <2>1, BufferFacts
  <2>2. CASE bufR + bufCount = bufW /\ \A i \in 0 .. bufW - 1 : buf[i] # 0
    <3>1. bufR \in 0 .. bufW - 1
      BY <1>1, <2>2, BufferFacts DEF Slots
    <3> QED BY <2>2, <3>1
  <2> QED BY <2>1, <2>2 DEF BufferInv, Written
<1>4. buf[bufR] \in 1 .. Len(kind)
  BY <1>3, BufferFacts, HistoryFacts DEF BufferInv
<1>5. Written'
  <2>1. CASE \A i \in Slots : buf[i] # 0
    BY <1>1, <2>1 DEF Written
  <2>2. CASE bufR + bufCount = bufW /\ \A i \in 0 .. bufW - 1 : buf[i] # 0
    <3>1. bufR' + bufCount' = bufW'
      BY <1>1, <2>2, BufferFacts DEF Slots
    <3> QED BY <1>1, <2>2, <3>1 DEF Written
  <2> QED BY <2>1, <2>2 DEF BufferInv, Written
<1>6. ASSUME ~overrun, bufCount <= Size, bufW = (bufR + bufCount) % Size
      PROVE  /\ Oldest(1) = buf[bufR]
             /\ \A i \in 1 .. bufCount - 1 : Oldest(i)' = Oldest(i + 1)
             /\ bufW' = (bufR' + bufCount') % Size
  <2>1. Oldest(1) = buf[bufR]
    <3>1. (bufR + 1 - 1) % Size = bufR
      <4>1. 1 \in 1 .. Size /\ bufR + 1 - 1 = bufR /\ bufR < Size
        BY BufferFacts DEF Slots
      <4> QED BY <4>1, PlaceIs, BufferFacts
    <3> QED BY <3>1 DEF Oldest
  <2>2. ASSUME NEW i \in 1 .. bufCount - 1 PROVE Oldest(i)' = Oldest(i + 1)
    <3>1. i \in 1 .. Size /\ i + 1 \in 1 .. Size
      BY <1>6, BufferFacts
    <3>2. (bufR' + i - 1) % Size =
             IF bufR' + i - 1 < Size THEN bufR' + i - 1 ELSE bufR' + i - 1 - Size
      BY <1>1, <3>1, PlaceIs
    <3>3. (bufR + (i + 1) - 1) % Size =
             IF bufR + (i + 1) - 1 < Size THEN bufR + (i + 1) - 1
                                          ELSE bufR + (i + 1) - 1 - Size
      BY <3>1, PlaceIs, BufferFacts
    <3>4. (bufR' + i - 1) % Size = (bufR + (i + 1) - 1) % Size
      BY <1>1, <3>1, <3>2, <3>3, BufferFacts DEF Slots
    <3> QED BY <1>1, <3>4 DEF Oldest
  <2>3. bufW' = (bufR' + bufCount') % Size
    <3>1. bufCount \in 0 .. Size /\ bufCount' \in 0 .. Size
      BY <1>1, <1>6, BufferFacts
    <3>2. (bufR' + bufCount') % Size =
            IF bufR' + bufCount' < Size THEN bufR' + bufCount'
                                        ELSE bufR' + bufCount' - Size
      BY <1>1, <3>1, Wrapped
    <3>3. (bufR + bufCount) % Size =
            IF bufR + bufCount < Size THEN bufR + bufCount
                                      ELSE bufR + bufCount - Size
      BY <3>1, Wrapped, BufferFacts
    <3> QED BY <1>1, <1>6, <3>1, <3>2, <3>3, BufferFacts DEF Slots
  <2> QED BY <2>1, <2>2, <2>3
<1> QED BY <1>1, <1>2, <1>4, <1>5, <1>6

(* A write puts the character last.  When nothing was overwritten before   *)
(* or by it, the others stay where they are.                               *)
LEMMA BufferWritten ==
    ASSUME KbdTypes, BufferInv, NEW c \in 1 .. MaxKeys, BufferWrite(c)
    PROVE  /\ buf' \in [Slots -> 0 .. MaxKeys]
           /\ \A i \in Slots : buf'[i] = c \/ buf'[i] = buf[i]
           /\ bufR' \in Slots /\ bufW' \in Slots
           /\ bufCount' = bufCount + 1 /\ overrun' \in BOOLEAN
           /\ Written'
           /\ ~overrun' => ~overrun /\ bufCount < Size
           /\ ~overrun' /\ bufW = (bufR + bufCount) % Size =>
                 /\ \A i \in 1 .. bufCount + 1 :
                       Oldest(i)' = IF i = bufCount + 1 THEN c ELSE Oldest(i)
                 /\ bufW' = (bufR' + bufCount') % Size
<1>1. /\ buf' = [buf EXCEPT ![bufW] = c] /\ bufCount' = bufCount + 1
      /\ bufW' = (IF bufW = Size - 1 THEN 0 ELSE bufW + 1) /\ bufW' \in Slots
      /\ overrun' = (overrun \/ bufCount >= Size)
      /\ bufCount < Size => bufR' = bufR
      /\ bufR' \in Slots
  BY BufferFacts, ModIncIs DEF BufferWrite
<1>2. /\ buf' \in [Slots -> 0 .. MaxKeys]
      /\ buf'[bufW] = c
      /\ \A i \in Slots : i # bufW => buf'[i] = buf[i]
  BY <1>1, BufferFacts DEF KbdTypes, Slots
<1>3. ~overrun' => ~overrun /\ bufCount < Size
  <2>1. ~(bufCount >= Size) => bufCount < Size
    BY BufferFacts
  <2> QED BY <1>1, <2>1, Zenon
<1>4. Written'
  <2>1. CASE \A i \in Slots : buf[i] # 0
    BY <1>2, <2>1 DEF Written
  <2>2. CASE bufR + bufCount = bufW /\ \A i \in 0 .. bufW - 1 : buf[i] # 0
    <3>1. bufCount < Size /\ bufR' = bufR
      BY <1>1, <2>2, BufferFacts DEF Slots
    <3>2. \A i \in 0 .. bufW : i \in Slots /\ buf'[i] # 0
      BY <1>2, <2>2, BufferFacts DEF Slots
    <3>3. CASE bufW = Size - 1
      BY <3>2, <3>3 DEF Written, Slots
    <3>4. CASE bufW # Size - 1
      <4>1. bufW' = bufW + 1 /\ bufR' + bufCount' = bufW' /\ bufW' - 1 = bufW
        BY <1>1, <2>2, <3>1, <3>4, BufferFacts DEF Slots
      <4> QED BY <3>2, <4>1 DEF Written
    <3> QED BY <3>3, <3>4
  <2> QED BY <2>1, <2>2 DEF BufferInv, Written
<1>5. ASSUME ~overrun', bufW = (bufR + bufCount) % Size
      PROVE  /\ \A i \in 1 .. bufCount + 1 :
                   Oldest(i)' = IF i = bufCount + 1 THEN c ELSE Oldest(i)
             /\ bufW' = (bufR' + bufCount') % Size
  <2>1. bufCount < Size /\ bufR' = bufR /\ bufCount \in 0 .. Size
    BY <1>1, <1>3, <1>5, BufferFacts
  <2>2. bufW = IF bufR + bufCount < Size THEN bufR + bufCount
                                         ELSE bufR + bufCount - Size
    BY <1>5, <2>1, Wrapped, BufferFacts
  <2>3. ASSUME NEW i \in 1 .. bufCount PROVE Oldest(i)' = Oldest(i)
    <3> DEFINE p == (bufR + i - 1) % Size
    <3>1. i \in 1 .. Size
      BY <2>1, BufferFacts
    <3>2. /\ p = IF bufR + i - 1 < Size THEN bufR + i - 1 ELSE bufR + i - 1 - Size
          /\ p \in Slots
      BY <3>1, PlaceIs, BufferFacts
    <3> HIDE DEF p
    <3>3. p # bufW
      BY <2>1, <2>2, <3>2, BufferFacts DEF Slots
    <3>4. buf'[p] = buf[p]
      BY <1>2, <3>2, <3>3
    <3> QED BY <2>1, <3>4 DEF Oldest, p
  <2>4. ASSUME NEW i \in 1 .. bufCount + 1, i = bufCount + 1 PROVE Oldest(i)' = c
    <3>1. bufCount + 1 \in 1 .. Size /\ bufR + (bufCount + 1) - 1 = bufR + bufCount
      BY <2>1, BufferFacts DEF Slots
    <3>2. (bufR' + (bufCount + 1) - 1) % Size = bufW
      BY <1>5, <2>1, <3>1
    <3>3. buf'[(bufR' + (bufCount + 1) - 1) % Size] = c
      BY <1>2, <3>2
    <3> QED BY <2>4, <3>3 DEF Oldest
  <2>5. bufW' = (bufR' + bufCount') % Size
    <3>1. bufCount' \in 0 .. Size /\ bufCount' = bufCount + 1
      BY <1>1, <2>1, BufferFacts
    <3>2. (bufR + (bufCount + 1)) % Size =
            IF bufR + (bufCount + 1) < Size THEN bufR + (bufCount + 1)
                                            ELSE bufR + (bufCount + 1) - Size
      BY <2>1, <3>1, Wrapped, BufferFacts
    <3>3. bufW' = (bufR + (bufCount + 1)) % Size
      BY <1>1, <2>1, <2>2, <3>2, BufferFacts DEF Slots
    <3> QED BY <2>1, <3>1, <3>3
  <2>6. \A i \in 1 .. bufCount + 1 : i = bufCount + 1 \/ i \in 1 .. bufCount
    BY <2>1
  <2> QED BY <2>3, <2>4, <2>5, <2>6
<1> QED BY <1>1, <1>2, <1>3, <1>4, <1>5

-----------------------------------------------------------------------------
(* Keys taken and keys pressed *)

LEMMA SeqWidened ==
    ASSUME KbdTypes, Len(kind') \in Nat, Len(kind) <= Len(kind'),
           NEW s, s \in Seq(Keys)
    PROVE  s \in Seq(Keys')
<1>1. Len(kind) \in Nat /\ Keys \subseteq Keys'
  BY HistoryFacts DEF Keys
<1>2. Len(s) \in Nat /\ s \in [1 .. Len(s) -> Keys]
  OBVIOUS
<1>3. s \in [1 .. Len(s) -> Keys']
  BY <1>1, <1>2
<1> QED BY <1>2, <1>3

LEMMA TakenSame ==
    ASSUME KbdTypes, Len(kind') \in Nat, Len(kind) <= Len(kind'),
           UNCHANGED <<given, dropped>>
    PROVE  /\ given' \in Seq(Keys') /\ dropped' \in Seq(Keys')
           /\ Taken' = Taken /\ \A n : TakenKey(n)' <=> TakenKey(n)
<1>1. given \in Seq(Keys) /\ dropped \in Seq(Keys)
  BY DEF KbdTypes
<1>2. given \in Seq(Keys') /\ dropped \in Seq(Keys')
  BY <1>1, SeqWidened
<1> QED BY <1>2 DEF Taken, TakenKey

(* One more key is given, or dropped. *)
LEMMA TakenMore ==
    ASSUME KbdTypes, Len(kind') \in Nat, Len(kind) <= Len(kind'),
           NEW c \in 1 .. Len(kind'),
           \/ given' = Append(given, c) /\ dropped' = dropped
           \/ dropped' = Append(dropped, c) /\ given' = given
    PROVE  /\ given' \in Seq(Keys') /\ dropped' \in Seq(Keys')
           /\ Taken' = Taken + 1
           /\ \A n : TakenKey(n) \/ n = c => TakenKey(n)'
<1>1. given \in Seq(Keys) /\ dropped \in Seq(Keys) /\ c \in Keys'
  BY DEF KbdTypes, Keys
<1>2. given \in Seq(Keys') /\ dropped \in Seq(Keys')
  BY <1>1, SeqWidened
<1>3. /\ Len(given) \in Nat /\ DOMAIN given = 1 .. Len(given)
      /\ Len(dropped) \in Nat /\ DOMAIN dropped = 1 .. Len(dropped)
  BY <1>1
<1>4. CASE given' = Append(given, c) /\ dropped' = dropped
  <2>1. /\ given' \in Seq(Keys') /\ Len(given') = Len(given) + 1
        /\ DOMAIN given' = 1 .. Len(given) + 1
        /\ \A j \in 1 .. Len(given) : given'[j] = given[j]
        /\ given'[Len(given) + 1] = c
    BY <1>1, <1>2, <1>4, AppendProperties
  <2>2. Taken' = Taken + 1
    BY <1>3, <1>4, <2>1 DEF Taken
  <2>3. /\ Len(given) + 1 \in DOMAIN given'
        /\ \A j \in DOMAIN given : j \in DOMAIN given' /\ given'[j] = given[j]
    BY <1>3, <2>1
  <2>4. \A n : TakenKey(n) \/ n = c => TakenKey(n)'
    BY <1>4, <2>1, <2>3 DEF TakenKey
  <2> QED BY <1>2, <1>4, <2>1, <2>2, <2>4
<1>5. CASE dropped' = Append(dropped, c) /\ given' = given
  <2>1. /\ dropped' \in Seq(Keys') /\ Len(dropped') = Len(dropped) + 1
        /\ DOMAIN dropped' = 1 .. Len(dropped) + 1
        /\ \A j \in 1 .. Len(dropped) : dropped'[j] = dropped[j]
        /\ dropped'[Len(dropped) + 1] = c
    BY <1>1, <1>2, <1>5, AppendProperties
  <2>2. Taken' = Taken + 1
    BY <1>3, <1>5, <2>1 DEF Taken
  <2>3. /\ Len(dropped) + 1 \in DOMAIN dropped'
        /\ \A j \in DOMAIN dropped : j \in DOMAIN dropped' /\ dropped'[j] = dropped[j]
    BY <1>3, <2>1
  <2>4. \A n : TakenKey(n) \/ n = c => TakenKey(n)'
    BY <1>5, <2>1, <2>3 DEF TakenKey
  <2> QED BY <1>2, <1>5, <2>1, <2>2, <2>4
<1> QED BY <1>4, <1>5

(* A reader reads a key: it passes from the buffer to the hand, and a key  *)
(* that was in the hand is dropped.                                        *)
LEMMA ReadKeeps ==
    ASSUME KbdIInv, NEW t \in Readers, NEW label, BufferRead(t),
           \/ LineDrain(t) /\ label = "l_update"
           \/ CharRead(t) /\ label = "c_wait",
           rpc' = [rpc EXCEPT ![t] = label], given' = given,
           \/ t \in Holding /\ dropped' = Append(dropped, got[t])
           \/ t \notin Holding /\ dropped' = dropped
    PROVE  KbdIInv'
<1>1. /\ rpc[t] \in {"l_drain", "c_read"} /\ kind' = kind
      /\ label \in {"l_update", "c_wait"}
      /\ kbdLock' = kbdLock /\ kbdState' = kbdState /\ hpc' = hpc /\ hthr' = hthr
      /\ stray' = stray /\ spin' = spin /\ waitq' = waitq
      /\ getBuf' = getBuf /\ getCount' = getCount
      /\ got' = [got EXCEPT ![t] = buf[bufR]]
      /\ buf' = buf /\ bufW' = bufW /\ overrun' = overrun
  BY DEF LineDrain, CharRead, ReaderAt, lineVars, cvVars, takenVars, BufferRead
<1>2. KbdTypes /\ ReaderInv /\ BufferInv /\ WindowInv
  BY DEF KbdIInv
<1>3. /\ got'[t] = buf[bufR] /\ buf[bufR] \in 1 .. Len(kind)
      /\ bufR' \in Slots /\ bufCount > 0 /\ bufCount' = bufCount - 1
      /\ Written'
      /\ ~overrun /\ bufCount <= Size /\ bufW = (bufR + bufCount) % Size =>
            /\ Oldest(1) = buf[bufR]
            /\ \A i \in 1 .. bufCount - 1 : Oldest(i)' = Oldest(i + 1)
            /\ bufW' = (bufR' + bufCount') % Size
  BY <1>2, BufferReadGives
<1>4. /\ rpc'[t] = label /\ kbdLock = t
      /\ \A u \in Readers : u # t => rpc'[u] = rpc[u] /\ got'[u] = got[u]
      /\ \A u \in Readers : u # t => rpc[u] = "out"
  <2>1. rpc[t] # "out" /\ kbdLock = t
    BY <1>1, <1>2 DEF ReaderInv
  <2>2. \A u \in Readers : u # t => rpc[u] = "out"
    BY <1>2, <2>1, Alone
  <2> QED BY <1>1, <1>2, <2>1, <2>2 DEF KbdTypes
<1>5. PICK c \in 1 .. Len(kind) : c = buf[bufR]
  BY <1>3
<1>6. /\ Len(kind) \in Nat /\ Taken \in Nat /\ Len(kind) <= MaxKeys /\ MaxKeys \in Nat
      /\ bufCount \in 0 .. MaxKeys /\ c \in 0 .. MaxKeys /\ c # 0
  <2>1. /\ Len(kind) \in Nat /\ Taken \in Nat /\ Len(kind) <= MaxKeys /\ MaxKeys \in Nat
        /\ bufCount \in 0 .. MaxKeys
    BY <1>2, HistoryFacts, KbdSizes DEF BufferInv, KbdTypes
  <2> QED BY <1>5, <2>1
<1>7. t \in Holding' /\ Reading' /\ (t \in Holding <=> Reading)
  <2>1. t \in Holding'
    BY <1>1, <1>3, <1>4, <1>5, <1>6 DEF Holding, CharPCs
  <2> QED BY <1>1, <1>2, <1>4, <2>1, HoldingFacts DEF Reading
<1>8. /\ given' \in Seq(Keys') /\ dropped' \in Seq(Keys')
      /\ Taken' = Taken + (IF Reading THEN 1 ELSE 0)
      /\ \A n : TakenKey(n) => TakenKey(n)'
      /\ \A n : Reading /\ n = got[t] => TakenKey(n)'
  <2>1. Len(kind') \in Nat /\ Len(kind) <= Len(kind')
    BY <1>1, <1>6
  <2>2. CASE t \in Holding /\ dropped' = Append(dropped, got[t])
    <3>1. PICK g \in 1 .. Len(kind') : g = got[t]
      <4>1. got[t] \in 0 .. MaxKeys /\ got[t] # 0 /\ got[t] <= Len(kind)
        BY <1>2, <2>2 DEF KbdTypes, BufferInv, Holding
      <4>2. got[t] \in 1 .. Len(kind')
        BY <1>1, <1>6, <4>1
      <4> QED BY <4>2
    <3>2. dropped' = Append(dropped, g)
      BY <2>2, <3>1
    <3>3. /\ given' \in Seq(Keys') /\ dropped' \in Seq(Keys')
          /\ Taken' = Taken + 1
          /\ \A n : TakenKey(n) \/ n = g => TakenKey(n)'
      BY <1>2, <2>1, <3>1, <3>2, TakenMore
    <3> QED BY <1>7, <2>2, <3>1, <3>3
  <2>3. CASE t \notin Holding /\ dropped' = dropped
    <3>1. /\ given' \in Seq(Keys') /\ dropped' \in Seq(Keys')
          /\ Taken' = Taken /\ \A n : TakenKey(n)' <=> TakenKey(n)
      BY <1>2, <2>1, <2>3, TakenSame
    <3>2. Taken' = Taken + 0
      BY <1>6, <3>1
    <3> QED BY <1>7, <2>3, <3>1, <3>2
  <2> QED BY <2>2, <2>3
<1>9. KbdTypes'
  <2>1. got' \in [Readers -> 0 .. MaxKeys]
    BY <1>1, <1>2, <1>5, <1>6 DEF KbdTypes
  <2>2. rpc' \in [Readers -> {"out"} \cup LinePCs \cup CharPCs]
    BY <1>1, <1>2 DEF KbdTypes, LinePCs, CharPCs
  <2>3. bufCount' \in 0 .. MaxKeys
    BY <1>3, <1>6
  <2> QED BY <1>1, <1>2, <1>3, <1>8, <2>1, <2>2, <2>3 DEF KbdTypes, Slots
<1>10. ReaderInv'
  <2>1. rpc[t] \notin InCvarSpin \cup Asleep \cup {"out", "l_park", "c_park"}
    BY <1>1 DEF InCvarSpin, Asleep
  <2>2. label \notin InCvarSpin \cup {"out"}
    BY <1>1 DEF InCvarSpin
  <2> QED BY <1>1, <1>2, <1>4, <2>1, <2>2 DEF ReaderInv, InWaitq
<1>11. BufferInv'
  <2>1. Len(kind') = Taken' + bufCount' + (IF Reading' THEN 1 ELSE 0)
    <3>1. Len(kind) = Taken + bufCount + (IF Reading THEN 1 ELSE 0) /\ kind' = kind
      BY <1>1, <1>2 DEF BufferInv
    <3>2. /\ Len(kind) \in Nat /\ Taken \in Nat /\ bufCount \in Nat
          /\ bufCount' = bufCount - 1 /\ Reading'
          /\ Taken' = Taken + (IF Reading THEN 1 ELSE 0)
      BY <1>3, <1>6, <1>7, <1>8
    <3>3. CASE Reading
      BY <3>1, <3>2, <3>3
    <3>4. CASE ~Reading
      BY <3>1, <3>2, <3>4
    <3> QED BY <3>3, <3>4
  <2>2. getCount' <= Taken'
    <3>1. getCount \in Nat /\ getCount <= Taken /\ getCount' = getCount
      BY <1>1, <1>2, KbdSizes DEF BufferInv, KbdTypes
    <3> QED BY <1>6, <1>8, <3>1
  <2>3. \A u \in Readers : got'[u] <= Len(kind')
    <3>1. \A u \in Readers : got[u] <= Len(kind)
      BY <1>2 DEF BufferInv
    <3>2. c <= Len(kind)
      BY <1>5, <1>6
    <3> QED BY <1>1, <1>3, <1>4, <1>5, <3>1, <3>2
  <2>4. \A u \in Readers : rpc'[u] = "l_update" => got'[u] # 0
    BY <1>3, <1>4, <1>5, <1>6
  <2>5. \A i \in Slots : buf'[i] <= Len(kind')
    BY <1>1, <1>2 DEF BufferInv
  <2>6. Len(kind') <= MaxKeys
    BY <1>1, <1>6
  <2> QED BY <1>3, <2>1, <2>2, <2>3, <2>4, <2>5, <2>6 DEF BufferInv
<1>12. WindowInv'
  <2> SUFFICES ASSUME ~overrun PROVE WindowInv'
    BY <1>1 DEF WindowInv
  <2> DEFINE n == bufCount
  <2>1. /\ n <= Size /\ bufW = (bufR + n) % Size
        /\ \A i, j \in 1 .. n : i < j => Oldest(i) < Oldest(j)
        /\ \A i \in 1 .. n : Oldest(i) # 0
        /\ \A k \in Keys : \/ TakenKey(k)
                           \/ \E i \in 1 .. n : Oldest(i) = k
                           \/ \E u \in Holding : got[u] = k
    BY <1>2 DEF WindowInv
  <2>2. /\ Oldest(1) = c
        /\ \A i \in 1 .. bufCount' : Oldest(i)' = Oldest(i + 1) /\ i + 1 \in 1 .. n
        /\ bufW' = (bufR' + bufCount') % Size
        /\ bufCount' <= Size
    BY <1>3, <1>5, <1>6, <2>1, KbdSizes
  <2>3. \A i \in 1 .. bufCount' : Oldest(i)' # 0
    BY <2>1, <2>2
  <2>4. \A i, j \in 1 .. bufCount' : i < j => Oldest(i)' < Oldest(j)'
    <3> SUFFICES ASSUME NEW i \in 1 .. bufCount', NEW j \in 1 .. bufCount', i < j
                 PROVE  Oldest(i)' < Oldest(j)'
      OBVIOUS
    <3>1. i + 1 < j + 1
      BY <1>3, <1>6
    <3> QED BY <2>1, <2>2, <3>1
  <2>5. ASSUME NEW k \in Keys'
        PROVE  \/ TakenKey(k)'
               \/ \E i \in 1 .. bufCount' : Oldest(i)' = k
               \/ \E u \in Holding' : got'[u] = k
    <3>1. k \in Keys
      BY <1>1 DEF Keys
    <3>2. CASE TakenKey(k)
      BY <1>8, <3>2
    <3>3. ASSUME NEW i \in 1 .. n, Oldest(i) = k, i # 1
          PROVE  \E m \in 1 .. bufCount' : Oldest(m)' = k
      <4>1. i - 1 \in 1 .. bufCount' /\ (i - 1) + 1 = i
        BY <1>3, <1>6, <3>3
      <4> QED BY <2>2, <3>3, <4>1
    <3>4. CASE k = c
      BY <1>3, <1>5, <1>7, <3>4
    <3>5. ASSUME NEW u \in Holding, got[u] = k PROVE TakenKey(k)'
      <4>1. u = t /\ Reading
        BY <1>2, <1>4, HoldingFacts DEF Reading
      <4> QED BY <1>8, <3>5, <4>1
    <3> QED BY <2>1, <2>2, <3>1, <3>2, <3>3, <3>4, <3>5
  <2> HIDE DEF n
  <2> QED BY <2>2, <2>3, <2>4, <2>5 DEF WindowInv
<1> QED BY <1>9, <1>10, <1>11, <1>12 DEF KbdIInv

(* A key passes from the hand into the line, or to the caller of           *)
(* kbd_getchar: what the two steps have in common.                         *)
LEMMA HandEmptied ==
    ASSUME KbdIInv, KbdTypes', ReaderInv', NEW t \in Readers, t \in Holding,
           Taken' = Taken + 1, \A n : TakenKey(n) \/ n = got[t] => TakenKey(n)',
           Holding' = {}, UNCHANGED <<bufVars, kind, got>>,
           getCount' <= getCount + 1, \A u \in Readers : rpc'[u] # "l_update"
    PROVE  KbdIInv'
<1>1. KbdTypes /\ ReaderInv /\ BufferInv /\ WindowInv
  BY DEF KbdIInv
<1>2. /\ Len(kind) \in Nat /\ Taken \in Nat /\ bufCount \in Nat
      /\ getCount \in Nat /\ getCount' \in Nat /\ kind' = kind
  <2>1. getCount \in 0 .. MaxKeys /\ getCount' \in 0 .. MaxKeys /\ MaxKeys \in Nat
    BY <1>1, KbdSizes DEF KbdTypes
  <2> QED BY <1>1, <2>1, HistoryFacts, BufferFacts
<1>3. Reading /\ ~Reading'
  BY <1>1, HoldingFacts DEF Reading
<1>4. BufferInv'
  <2>1. Len(kind') = Taken' + bufCount' + (IF Reading' THEN 1 ELSE 0)
    <3>1. Len(kind) = Taken + bufCount + (IF Reading THEN 1 ELSE 0) /\ bufCount' = bufCount
      BY <1>1 DEF BufferInv, bufVars
    <3> QED BY <1>2, <1>3, <3>1
  <2>2. getCount' <= Taken'
    <3>1. getCount <= Taken
      BY <1>1 DEF BufferInv
    <3> QED BY <1>2, <3>1
  <2>3. Written'
    BY <1>1 DEF BufferInv, Written, bufVars
  <2> QED BY <1>1, <2>1, <2>2, <2>3 DEF BufferInv, bufVars
<1>5. WindowInv'
  <2> SUFFICES ASSUME ~overrun PROVE WindowInv'
    BY DEF WindowInv, bufVars
  <2>1. /\ bufCount <= Size /\ bufW = (bufR + bufCount) % Size
        /\ \A i, j \in 1 .. bufCount : i < j => Oldest(i) < Oldest(j)
        /\ \A i \in 1 .. bufCount : Oldest(i) # 0
        /\ \A n \in Keys : \/ TakenKey(n)
                           \/ \E i \in 1 .. bufCount : Oldest(i) = n
                           \/ \E u \in Holding : got[u] = n
    BY <1>1 DEF WindowInv
  <2>2. \A i : Oldest(i)' = Oldest(i)
    BY DEF Oldest, bufVars
  <2>3. \A u \in Holding : u = t
    BY <1>1, HoldingFacts
  <2>4. \A n \in Keys : TakenKey(n)' \/ \E i \in 1 .. bufCount : Oldest(i) = n
    BY <2>1, <2>3
  <2>5. bufCount' = bufCount /\ bufR' = bufR /\ bufW' = bufW /\ Keys' = Keys
    BY DEF bufVars, Keys
  <2> QED BY <2>1, <2>2, <2>4, <2>5 DEF WindowInv
<1> QED BY <1>4, <1>5 DEF KbdIInv

(* kbd_getline puts it into the line.                                      *)
LEMMA LineUpdateKeeps ==
    ASSUME KbdIInv, NEW t \in Readers, LineUpdate(t)
    PROVE  KbdIInv'
<1>1. /\ rpc[t] = "l_update" /\ kind' = kind /\ got' = got
      /\ kbdLock' = kbdLock /\ kbdState' = kbdState
      /\ stray' = stray /\ spin' = spin /\ waitq' = waitq
      /\ getBuf' = getBuf /\ UNCHANGED bufVars /\ UNCHANGED cvVars
      /\ hpc' = hpc /\ hthr' = hthr
      /\ \/ given' = Append(given, got[t]) /\ dropped' = dropped
         \/ dropped' = Append(dropped, got[t]) /\ given' = given
      /\ getCount' = CountAfter(kind[got[t]])
  BY DEF LineUpdate, ReaderAt, UpdateGetlineGlobals, cvVars
<1>2. KbdTypes /\ ReaderInv /\ BufferInv /\ WindowInv
  BY DEF KbdIInv
<1>3. PICK l \in {"l_early", "l_drain"} : rpc' = [rpc EXCEPT ![t] = l]
  BY DEF LineUpdate, ReaderGoto
<1>4. /\ rpc'[t] = l /\ kbdLock = t
      /\ \A u \in Readers : u # t => rpc'[u] = rpc[u] /\ rpc[u] = "out"
  <2>1. rpc[t] # "out" /\ kbdLock = t
    BY <1>1, <1>2 DEF ReaderInv
  <2>2. \A u \in Readers : u # t => rpc[u] = "out"
    BY <1>2, <2>1, Alone
  <2> QED BY <1>2, <1>3, <2>1, <2>2 DEF KbdTypes
<1>5. /\ \A u \in Readers : rpc'[u] # "l_update" /\ rpc'[u] \notin CharPCs
      /\ t \in Holding
  BY <1>1, <1>2, <1>3, <1>4 DEF Holding, CharPCs, BufferInv
<1>6. Holding' = {}
  BY <1>5 DEF Holding
<1>7. /\ Len(kind) \in Nat /\ Len(kind) <= MaxKeys /\ MaxKeys \in Nat
      /\ getCount \in Nat /\ Taken \in Nat /\ bufCount \in Nat
  <2>1. getCount \in 0 .. MaxKeys /\ MaxKeys \in Nat /\ Len(kind) <= MaxKeys
    BY <1>2, KbdSizes DEF KbdTypes, BufferInv
  <2> QED BY <1>2, <2>1, HistoryFacts, BufferFacts
<1>8. PICK c \in 1 .. Len(kind') : c = got[t]
  <2>1. got[t] \in 0 .. MaxKeys /\ got[t] # 0 /\ got[t] <= Len(kind)
    BY <1>2, <1>5 DEF KbdTypes, BufferInv, Holding
  <2>2. got[t] \in 1 .. Len(kind')
    BY <1>1, <1>7, <2>1
  <2> QED BY <2>2
<1>9. /\ given' \in Seq(Keys') /\ dropped' \in Seq(Keys')
      /\ Taken' = Taken + 1
      /\ \A n : TakenKey(n) \/ n = c => TakenKey(n)'
  <2>1. Len(kind') \in Nat /\ Len(kind) <= Len(kind')
    BY <1>1, <1>7
  <2> QED BY <1>1, <1>2, <1>8, <2>1, TakenMore
<1>10. getCount' \in Nat /\ getCount' <= getCount + 1
  BY <1>1, <1>7 DEF CountAfter
<1>11. getCount' \in 0 .. MaxKeys
  <2>1. Len(kind) = Taken + bufCount + (IF Reading THEN 1 ELSE 0) /\ getCount <= Taken
    BY <1>2 DEF BufferInv
  <2>2. Reading
    BY <1>2, <1>5, HoldingFacts
  <2> QED BY <1>7, <1>10, <2>1, <2>2
<1>12. KbdTypes'
  <2>1. rpc' \in [Readers -> {"out"} \cup LinePCs \cup CharPCs]
    BY <1>2, <1>3 DEF KbdTypes, LinePCs
  <2> QED BY <1>1, <1>2, <1>9, <1>11, <2>1 DEF KbdTypes, bufVars
<1>13. ReaderInv'
  <2>1. /\ rpc[t] \notin InCvarSpin \cup Asleep \cup {"out", "l_park", "c_park"}
        /\ l \notin InCvarSpin \cup {"out"}
    BY <1>1, <1>3 DEF InCvarSpin, Asleep
  <2> QED BY <1>1, <1>2, <1>4, <2>1 DEF ReaderInv, InWaitq
<1> QED BY <1>1, <1>5, <1>6, <1>8, <1>9, <1>10, <1>12, <1>13, HandEmptied

(* kbd_getchar returns it.                                                 *)
LEMMA GetcharReturnKeeps ==
    ASSUME KbdIInv, NEW t \in Readers, ReadReturn(t), rpc[t] = "c_done", got[t] # 0
    PROVE  KbdIInv'
<1>1. /\ kind' = kind /\ got' = got
      /\ kbdLock' = Nil /\ kbdState' = kbdState
      /\ stray' = stray /\ spin' = spin /\ waitq' = waitq
      /\ getBuf' = getBuf /\ getCount' = getCount /\ UNCHANGED bufVars
      /\ hpc' = hpc /\ hthr' = hthr
      /\ given' = Append(given, got[t]) /\ dropped' = dropped
      /\ rpc' = [rpc EXCEPT ![t] = "out"]
  BY DEF ReadReturn, ReaderGoto, cvVars, lineVars
<1>2. KbdTypes /\ ReaderInv /\ BufferInv
  BY DEF KbdIInv
<1>3. /\ rpc'[t] = "out" /\ kbdLock = t
      /\ \A u \in Readers : rpc'[u] = "out"
      /\ \A u \in Readers : ~InWaitq(u)
      /\ spin = Nil
  <2>1. rpc[t] # "out" /\ kbdLock = t /\ rpc[t] \notin InCvarSpin \cup Asleep
    BY <1>2 DEF ReaderInv, InCvarSpin, Asleep
  <2>2. /\ spin = t \/ spin = Nil
        /\ \A u \in Readers : u # t => rpc[u] = "out" /\ ~InWaitq(u)
    BY <1>2, <2>1, Alone
  <2>3. ~InWaitq(t) /\ spin # t
    BY <1>2, <2>1 DEF ReaderInv, InCvarSpin
  <2> QED BY <1>1, <1>2, <2>1, <2>2, <2>3 DEF KbdTypes
<1>4. /\ \A u \in Readers : rpc'[u] # "l_update" /\ rpc'[u] \notin CharPCs
      /\ t \in Holding
  BY <1>3 DEF Holding, CharPCs
<1>5. Holding' = {}
  BY <1>4 DEF Holding
<1>6. Len(kind) \in Nat /\ MaxKeys \in Nat /\ getCount \in Nat
  <2>1. getCount \in 0 .. MaxKeys
    BY <1>2 DEF KbdTypes
  <2> QED BY <1>2, <2>1, HistoryFacts, KbdSizes
<1>7. PICK c \in 1 .. Len(kind') : c = got[t]
  <2>1. got[t] \in 0 .. MaxKeys /\ got[t] <= Len(kind)
    BY <1>2 DEF KbdTypes, BufferInv
  <2>2. got[t] \in 1 .. Len(kind')
    BY <1>1, <1>6, <2>1
  <2> QED BY <2>2
<1>8. /\ given' \in Seq(Keys') /\ dropped' \in Seq(Keys')
      /\ Taken' = Taken + 1
      /\ \A n : TakenKey(n) \/ n = c => TakenKey(n)'
  <2>1. Len(kind') \in Nat /\ Len(kind) <= Len(kind') /\ given' = Append(given, c)
    BY <1>1, <1>6, <1>7
  <2> QED BY <1>1, <1>2, <1>7, <2>1, TakenMore
<1>9. KbdTypes'
  <2>1. rpc' \in [Readers -> {"out"} \cup LinePCs \cup CharPCs]
    BY <1>1, <1>2 DEF KbdTypes
  <2> QED BY <1>1, <1>2, <1>8, <2>1 DEF KbdTypes, bufVars
<1>10. ReaderInv'
  <2>1. "out" \notin InCvarSpin
    BY DEF InCvarSpin
  <2> QED BY <1>1, <1>2, <1>3, <2>1, KbdSizes DEF ReaderInv, InWaitq
<1>11. getCount' <= getCount + 1
  BY <1>1, <1>6
<1> QED BY <1>1, <1>4, <1>5, <1>7, <1>8, <1>9, <1>10, <1>11, HandEmptied

LEMMA KindAppended ==
    ASSUME KbdTypes, NEW k \in Kinds, kind' = Append(kind, k)
    PROVE  /\ kind' \in Seq(Kinds) /\ Len(kind) \in Nat
           /\ Len(kind') = Len(kind) + 1
           /\ Keys \subseteq Keys'
           /\ \A n \in Keys' : n \in Keys \/ n = Len(kind) + 1
<1>1. kind' \in Seq(Kinds) /\ Len(kind) \in Nat /\ Len(kind') = Len(kind) + 1
  BY DEF KbdTypes
<1> QED BY <1>1 DEF Keys

(* The unread keys are older than the key that is pressed now. *)
LEMMA UnreadOlder ==
    ASSUME KbdTypes, BufferInv, NEW n \in Nat, n <= Size
    PROVE  \A i \in 1 .. n : Oldest(i) \in Nat /\ Oldest(i) < Len(kind) + 1
<1> SUFFICES ASSUME NEW i \in 1 .. n
             PROVE  Oldest(i) \in Nat /\ Oldest(i) < Len(kind) + 1
  OBVIOUS
<1>1. i \in 1 .. Size
  BY KbdSizes
<1>2. (bufR + i - 1) % Size \in Slots
  BY <1>1, PlaceIs, BufferFacts
<1>3. Oldest(i) <= Len(kind) /\ Oldest(i) \in Nat
  BY <1>2, BufferFacts DEF Oldest, BufferInv
<1> QED BY <1>3, HistoryFacts

(* A key that goes into a line, or where a line was *)
LEMMA KeyForLineKeeps ==
    ASSUME KbdIInv, NEW p \in Readers \cup {Other}, NEW k \in Kinds, KeyPress(p, k),
           KeyForLine(p, k)
    PROVE  KbdIInv'
<1>1. /\ kind' = Append(kind, k) /\ Len(kind) < MaxKeys
      /\ kbdLock' = kbdLock /\ spin' = spin /\ rpc' = rpc /\ got' = got
      /\ \/ given' = Append(given, Len(kind')) /\ dropped' = dropped
         \/ dropped' = Append(dropped, Len(kind')) /\ given' = given
      /\ getBuf' = getBuf /\ UNCHANGED bufVars
      /\ getCount' = CountAfter(k)
  BY DEF KeyPress, KeyForLine, UpdateGetlineGlobals
<1>2. KbdTypes /\ ReaderInv /\ BufferInv /\ WindowInv
  BY DEF KbdIInv
<1>3. /\ kind' \in Seq(Kinds) /\ Len(kind) \in Nat
      /\ Len(kind') = Len(kind) + 1
      /\ Keys \subseteq Keys' /\ \A n \in Keys' : n \in Keys \/ n = Len(kind) + 1
  BY <1>1, <1>2, KindAppended
<1>4. /\ Taken \in Nat /\ MaxKeys \in Nat /\ bufCount \in Nat /\ getCount \in Nat
      /\ \A t \in Readers : got[t] \in Nat
      /\ \A i \in Slots : buf[i] \in Nat
  <2>1. getCount \in 0 .. MaxKeys /\ MaxKeys \in Nat
    BY <1>2, KbdSizes DEF KbdTypes
  <2>2. \A t \in Readers : got[t] \in 0 .. MaxKeys
    BY <1>2 DEF KbdTypes
  <2> QED BY <1>2, <2>1, <2>2, BufferFacts, HistoryFacts
<1>5. PICK d \in 1 .. Len(kind') : d = Len(kind')
  BY <1>3
<1>6. d = Len(kind) + 1 /\ d \in Nat /\ d <= MaxKeys
  BY <1>1, <1>3, <1>4, <1>5
<1>7. /\ given' \in Seq(Keys') /\ dropped' \in Seq(Keys')
      /\ Taken' = Taken + 1
      /\ \A n : TakenKey(n) \/ n = d => TakenKey(n)'
  <2>1. Len(kind') \in Nat /\ Len(kind) <= Len(kind')
    BY <1>3
  <2>2. \/ given' = Append(given, d) /\ dropped' = dropped
        \/ dropped' = Append(dropped, d) /\ given' = given
    BY <1>1, <1>5
  <2> QED BY <1>2, <2>1, <2>2, TakenMore
<1>8. getCount' \in Nat /\ getCount' <= getCount + 1
  BY <1>1, <1>4 DEF CountAfter
<1>9. Holding' = Holding /\ (Reading' <=> Reading)
  BY <1>1 DEF Holding, Reading
<1>10. waitq' = waitq \/ waitq' = <<>>
  BY <1>2 DEF KeyForLine, Signal, ReaderInv, KbdTypes, HandlerDone, HandlerAt
<1>11. /\ kbdState' \in {"NONE", "CHAR", "LINE"} /\ stray' \in BOOLEAN
       /\ hpc' \in {"idle", "char", "signal"} /\ hthr' \in Readers \cup {Other, Nil}
  BY <1>2 DEF KeyForLine, KbdTypes, HandlerDone, HandlerAt
<1>12. /\ Len(kind) = Taken + bufCount + (IF Reading THEN 1 ELSE 0)
       /\ getCount <= Taken
  BY <1>2 DEF BufferInv
<1>13. KbdTypes'
  <2>1. getCount' \in 0 .. MaxKeys
    <3>1. Taken <= Len(kind)
      BY <1>3, <1>4, <1>12
    <3> QED BY <1>3, <1>4, <1>6, <1>8, <1>12, <3>1
  <2>2. waitq' \in Seq(Readers)
    <3>1. waitq \in Seq(Readers) /\ <<>> \in Seq(Readers)
      BY <1>2 DEF KbdTypes
    <3> QED BY <1>10, <3>1
  <2> QED BY <1>1, <1>2, <1>3, <1>7, <1>11, <2>1, <2>2 DEF KbdTypes, bufVars
<1>14. ReaderInv'
  <2>1. \A t \in Readers : InWaitq(t)' => InWaitq(t)
    <3>1. ToSet(<<>>) = {}
      BY DEF ToSet
    <3> QED BY <1>10, <3>1 DEF InWaitq
  <2>2. Len(waitq') <= 1
    BY <1>2, <1>10 DEF ReaderInv
  <2> QED BY <1>1, <1>2, <2>1, <2>2 DEF ReaderInv
<1>15. BufferInv'
  <2>1. Len(kind') = Taken' + bufCount' + (IF Reading' THEN 1 ELSE 0)
    <3>1. bufCount' = bufCount
      BY <1>1 DEF bufVars
    <3> QED BY <1>3, <1>4, <1>7, <1>9, <1>12, <3>1
  <2>2. getCount' <= Taken' /\ Len(kind') <= MaxKeys
    BY <1>4, <1>5, <1>6, <1>7, <1>8, <1>12
  <2>3. Written'
    BY <1>1, <1>2 DEF BufferInv, Written, bufVars
  <2>4. \A i \in Slots : buf'[i] <= Len(kind')
    BY <1>1, <1>2, <1>3, <1>4 DEF BufferInv, bufVars
  <2>5. \A t \in Readers : got'[t] <= Len(kind') /\ (rpc'[t] = "l_update" => got'[t] # 0)
    BY <1>1, <1>2, <1>3, <1>4 DEF BufferInv
  <2> QED BY <2>1, <2>2, <2>3, <2>4, <2>5 DEF BufferInv
<1>16. WindowInv'
  <2> SUFFICES ASSUME ~overrun PROVE WindowInv'
    BY <1>1 DEF WindowInv, bufVars
  <2>1. /\ bufCount <= Size /\ bufW = (bufR + bufCount) % Size
        /\ \A i, j \in 1 .. bufCount : i < j => Oldest(i) < Oldest(j)
        /\ \A i \in 1 .. bufCount : Oldest(i) # 0
        /\ \A n \in Keys :
              \/ TakenKey(n)
              \/ \E i \in 1 .. bufCount : Oldest(i) = n
              \/ \E t \in Holding : got[t] = n
    BY <1>2 DEF WindowInv
  <2>2. \A i : Oldest(i)' = Oldest(i)
    BY <1>1 DEF Oldest, bufVars
  <2>3. ASSUME NEW n \in Keys'
        PROVE  \/ TakenKey(n)'
               \/ \E i \in 1 .. bufCount : Oldest(i) = n
               \/ \E t \in Holding : got[t] = n
    <3>1. CASE n \in Keys
      BY <1>7, <2>1, <3>1
    <3>2. CASE n = Len(kind) + 1
      BY <1>6, <1>7, <3>2
    <3> QED BY <1>3, <3>1, <3>2
  <2>4. bufCount' = bufCount /\ bufR' = bufR /\ bufW' = bufW
    BY <1>1 DEF bufVars
  <2> QED BY <1>1, <1>9, <2>1, <2>2, <2>3, <2>4 DEF WindowInv
<1> QED BY <1>13, <1>14, <1>15, <1>16 DEF KbdIInv

(* A key that goes into the buffer *)
LEMMA KeyForBufferKeeps ==
    ASSUME KbdIInv, NEW p \in Readers \cup {Other}, NEW k \in Kinds, KeyPress(p, k),
           KeyForChar(p) \/ KeyForNobody
    PROVE  KbdIInv'
<1> DEFINE n == bufCount
<1>1. /\ kind' = Append(kind, k) /\ Len(kind) < MaxKeys
      /\ kbdLock' = kbdLock /\ spin' = spin /\ rpc' = rpc /\ got' = got
      /\ given' = given /\ dropped' = dropped /\ UNCHANGED lineVars /\ waitq' = waitq
      /\ kbdState' = kbdState /\ stray' = stray
      /\ hpc' \in {"idle", "char"} /\ hthr' \in Readers \cup {Other, Nil}
      /\ BufferWrite(Len(kind'))
  BY DEF KeyPress, KeyForChar, KeyForNobody, HandlerAt, HandlerDone, lineVars, takenVars
<1>2. KbdTypes /\ ReaderInv /\ BufferInv /\ WindowInv
  BY DEF KbdIInv
<1>3. /\ kind' \in Seq(Kinds) /\ Len(kind) \in Nat
      /\ Len(kind') = Len(kind) + 1
      /\ Keys \subseteq Keys' /\ \A i \in Keys' : i \in Keys \/ i = Len(kind) + 1
  BY <1>1, <1>2, KindAppended
<1>4. /\ Taken \in Nat /\ MaxKeys \in Nat
      /\ n \in 0 .. MaxKeys /\ getCount \in Nat
      /\ \A t \in Readers : got[t] \in Nat
      /\ \A i \in Slots : buf[i] \in Nat
  <2>1. getCount \in 0 .. MaxKeys /\ MaxKeys \in Nat /\ n \in 0 .. MaxKeys
    BY <1>2, KbdSizes DEF KbdTypes
  <2>2. \A t \in Readers : got[t] \in 0 .. MaxKeys
    BY <1>2 DEF KbdTypes
  <2> QED BY <1>2, <2>1, <2>2, BufferFacts, HistoryFacts
<1>5. PICK d \in 1 .. MaxKeys : d = Len(kind) + 1
  BY <1>1, <1>3, <1>4
<1>6. /\ buf' \in [Slots -> 0 .. MaxKeys]
      /\ \A i \in Slots : buf'[i] = d \/ buf'[i] = buf[i]
      /\ bufR' \in Slots /\ bufW' \in Slots
      /\ bufCount' = n + 1 /\ overrun' \in BOOLEAN
      /\ Written'
      /\ ~overrun' => ~overrun /\ n < Size
      /\ ~overrun' /\ bufW = (bufR + n) % Size =>
            /\ \A i \in 1 .. n + 1 : Oldest(i)' = IF i = n + 1 THEN d ELSE Oldest(i)
            /\ bufW' = (bufR' + bufCount') % Size
  <2>1. BufferWrite(d)
    BY <1>1, <1>3, <1>5
  <2> QED BY <1>2, <2>1, BufferWritten
<1> HIDE DEF n
<1>7. /\ given' \in Seq(Keys') /\ dropped' \in Seq(Keys')
      /\ Taken' = Taken /\ \A m : TakenKey(m)' <=> TakenKey(m)
  <2>1. Len(kind') \in Nat /\ Len(kind) <= Len(kind')
    BY <1>3
  <2> QED BY <1>1, <1>2, <2>1, TakenSame
<1>8. /\ Len(kind) = Taken + n + (IF Reading THEN 1 ELSE 0)
      /\ Holding' = Holding /\ (Reading' <=> Reading)
  BY <1>1, <1>2 DEF BufferInv, n, Reading, Holding
<1>9. bufCount' \in 0 .. MaxKeys
  BY <1>1, <1>3, <1>4, <1>6, <1>8
<1>10. KbdTypes'
  BY <1>1, <1>2, <1>3, <1>6, <1>7, <1>9 DEF KbdTypes, lineVars, Slots
<1>11. ReaderInv'
  BY <1>1, <1>2 DEF ReaderInv, InWaitq
<1>12. BufferInv'
  <2>1. Len(kind') = Taken' + bufCount' + (IF Reading' THEN 1 ELSE 0)
    BY <1>3, <1>4, <1>6, <1>7, <1>8
  <2>2. getCount' <= Taken' /\ Len(kind') <= MaxKeys
    BY <1>1, <1>2, <1>3, <1>4, <1>7 DEF BufferInv, lineVars
  <2>3. \A i \in Slots : buf'[i] <= Len(kind')
    BY <1>2, <1>3, <1>4, <1>5, <1>6 DEF BufferInv
  <2>4. \A t \in Readers : got'[t] <= Len(kind') /\ (rpc'[t] = "l_update" => got'[t] # 0)
    BY <1>1, <1>2, <1>3, <1>4 DEF BufferInv
  <2> QED BY <1>6, <2>1, <2>2, <2>3, <2>4 DEF BufferInv
<1>13. WindowInv'
  <2> SUFFICES ASSUME ~overrun' PROVE WindowInv'
    BY DEF WindowInv
  <2>1. /\ ~overrun /\ n < Size /\ bufW = (bufR + n) % Size
        /\ \A i, j \in 1 .. n : i < j => Oldest(i) < Oldest(j)
        /\ \A i \in 1 .. n : Oldest(i) # 0
        /\ \A m \in Keys :
              \/ TakenKey(m)
              \/ \E i \in 1 .. n : Oldest(i) = m
              \/ \E t \in Holding : got[t] = m
    BY <1>2, <1>6 DEF WindowInv, n
  <2>2. /\ \A i \in 1 .. n : Oldest(i)' = Oldest(i)
        /\ \A i \in 1 .. n + 1 : i \in 1 .. n \/ (i = n + 1 /\ Oldest(i)' = d)
        /\ bufW' = (bufR' + bufCount') % Size
        /\ n + 1 \in 1 .. n + 1 /\ \A i \in 1 .. n : i \in 1 .. n + 1
    <3>1. /\ \A i \in 1 .. n + 1 : Oldest(i)' = IF i = n + 1 THEN d ELSE Oldest(i)
          /\ bufW' = (bufR' + bufCount') % Size
      BY <1>6, <2>1
    <3>2. /\ n + 1 \in 1 .. n + 1 /\ \A i \in 1 .. n : i \in 1 .. n + 1 /\ i # n + 1
          /\ \A i \in 1 .. n + 1 : i \in 1 .. n \/ i = n + 1
      BY <1>4
    <3>3. \A i \in 1 .. n : Oldest(i)' = Oldest(i)
      BY <3>1, <3>2
    <3>4. \A i \in 1 .. n + 1 : i \in 1 .. n \/ (i = n + 1 /\ Oldest(i)' = d)
      BY <3>1, <3>2
    <3> QED BY <3>1, <3>2, <3>3, <3>4
  <2>3. \A i \in 1 .. n : Oldest(i) < d
    <3>1. n \in Nat /\ n <= Size
      BY <1>4, <2>1, KbdSizes
    <3> QED BY <1>2, <1>5, <3>1, UnreadOlder
  <2>4. \A i, j \in 1 .. n + 1 : i < j => Oldest(i)' < Oldest(j)'
    <3> SUFFICES ASSUME NEW i \in 1 .. n + 1, NEW j \in 1 .. n + 1, i < j
                 PROVE  Oldest(i)' < Oldest(j)'
      OBVIOUS
    <3>1. i \in 1 .. n
      BY <1>4
    <3> QED BY <2>1, <2>2, <2>3, <3>1
  <2>5. \A i \in 1 .. n + 1 : Oldest(i)' # 0
    BY <1>5, <2>1, <2>2
  <2>6. ASSUME NEW m \in Keys'
        PROVE  \/ TakenKey(m)
               \/ \E i \in 1 .. n + 1 : Oldest(i)' = m
               \/ \E t \in Holding : got[t] = m
    <3>1. CASE m = Len(kind) + 1
      <4>1. n + 1 \in 1 .. n + 1 /\ n + 1 \notin 1 .. n
        BY <1>4
      <4>2. \A i \in 1 .. n + 1 : i = n + 1 => Oldest(i)' = m
        BY <1>5, <2>2, <3>1, <4>1
      <4> QED BY <4>1, <4>2
    <3>2. CASE m \in Keys
      <4>1. CASE \E i \in 1 .. n : Oldest(i) = m
        BY <2>2, <4>1
      <4> QED BY <2>1, <3>2, <4>1
    <3> QED BY <1>3, <3>1, <3>2
  <2>7. bufCount' = n + 1 /\ bufCount' <= Size
    BY <1>4, <1>6, <2>1, KbdSizes
  <2> QED BY <1>1, <1>7, <1>8, <2>2, <2>4, <2>5, <2>6, <2>7 DEF WindowInv
<1> QED BY <1>10, <1>11, <1>12, <1>13 DEF KbdIInv

-----------------------------------------------------------------------------
(* All steps *)

LEMMA KbdStepKeeps == KbdIInv /\ [KbdNext]_kbdVars => KbdIInv'
<1> SUFFICES ASSUME KbdIInv, [KbdNext]_kbdVars PROVE KbdIInv'
  OBVIOUS
<1>1. ASSUME NEW t \in Readers, CallRead(t, "l_state") \/ CallRead(t, "c_state")
      PROVE  KbdIInv'
  BY <1>1, CallReadKeeps
<1>2. ASSUME NEW t \in Readers, SetState(t) \/ SetBuf(t) \/ SetCount(t)
      PROVE  KbdIInv'
  BY <1>2, SetKeeps
<1>3. ASSUME NEW t \in Readers, LineDrain(t) PROVE KbdIInv'
  <2>1. CASE BufferRead(t) /\ ReaderGoto(t, "l_update")
    <3>1. /\ given' = given /\ dropped' = dropped
          /\ rpc' = [rpc EXCEPT ![t] = "l_update"] /\ t \notin Holding
      BY <1>3, <2>1 DEF LineDrain, ReaderGoto, takenVars, Holding, CharPCs, ReaderAt
    <3> QED BY <1>3, <2>1, <3>1, ReadKeeps
  <2>2. CASE bufCount = 0 /\ ReaderGoto(t, "l_wait") /\ UNCHANGED <<bufVars, got>>
    <3>1. /\ rpc' = [rpc EXCEPT ![t] = "l_wait"]
          /\ UNCHANGED <<got, takenVars>> /\ UNCHANGED bufVars
      BY <1>3, <2>2 DEF LineDrain, ReaderGoto
    <3> QED BY <1>3, <3>1, NothingReadKeeps
  <2> QED BY <1>3, <2>1, <2>2 DEF LineDrain
<1>4. ASSUME NEW t \in Readers, LineUpdate(t) PROVE KbdIInv'
  BY <1>4, LineUpdateKeeps
<1>5. ASSUME NEW t \in Readers, CharRead(t) PROVE KbdIInv'
  <2>1. CASE /\ BufferRead(t)
             /\ dropped' = IF got[t] = 0 THEN dropped ELSE Append(dropped, got[t])
             /\ ReaderGoto(t, "c_wait")
    <3>1. /\ rpc' = [rpc EXCEPT ![t] = "c_wait"] /\ given' = given
          /\ t \in Holding <=> got[t] # 0
      BY <1>5, <2>1 DEF CharRead, ReaderGoto, Holding, CharPCs, ReaderAt
    <3>2. \/ t \in Holding /\ dropped' = Append(dropped, got[t])
          \/ t \notin Holding /\ dropped' = dropped
      BY <2>1, <3>1
    <3> QED BY <1>5, <2>1, <3>1, <3>2, ReadKeeps
  <2>2. CASE bufCount = 0 /\ ReaderGoto(t, "c_done") /\ UNCHANGED <<bufVars, got, dropped>>
    <3>1. /\ rpc' = [rpc EXCEPT ![t] = "c_done"]
          /\ UNCHANGED <<got, takenVars>> /\ UNCHANGED bufVars
      BY <1>5, <2>2 DEF CharRead, ReaderGoto, takenVars
    <3> QED BY <1>5, <3>1, NothingReadKeeps
  <2> QED BY <1>5, <2>1, <2>2 DEF CharRead
<1>6. ASSUME NEW t \in Readers, WaitStep(t) PROVE KbdIInv'
  BY <1>6, WaitKeeps
<1>7. ASSUME NEW t \in Readers, ReadReturn(t) PROVE KbdIInv'
  BY <1>7, ReturnKeeps, GetcharReturnKeeps
<1>8. ASSUME NEW p \in Readers \cup {Other}, NEW k \in Kinds, KeyPress(p, k)
      PROVE  KbdIInv'
  <2>1. CASE KeyForLine(p, k)
    BY <1>8, <2>1, KeyForLineKeeps
  <2>2. CASE KeyForChar(p) \/ KeyForNobody
    BY <1>8, <2>2, KeyForBufferKeeps
  <2> QED BY <1>8, <2>1, <2>2 DEF KeyPress
<1>9. CASE HandlerClearState \/ HandlerSignal
  BY <1>9, HandlerKeeps
<1>10. CASE UNCHANGED kbdVars
  <2> USE <1>10 DEF kbdVars, bufVars, lineVars, cvVars, keyVars, takenVars
  <2>1. KbdTypes'
    BY DEF KbdIInv, KbdTypes, Keys
  <2>2. ReaderInv'
    BY DEF KbdIInv, ReaderInv, InWaitq
  <2>3. \A t \in Readers : t \in Holding' <=> t \in Holding
    BY DEF Holding
  <2> QED BY <2>1, <2>2, <2>3, NothingTaken
<1> QED
  BY <1>1, <1>2, <1>3, <1>4, <1>5, <1>6, <1>7, <1>8, <1>9, <1>10
  DEF KbdNext, GetlineStep

THEOREM KbdInvariance == KbdSpec => []KbdIInv
<1>1. KbdInit => KbdIInv
  BY InitKbd
<1>2. KbdIInv /\ [KbdNext]_kbdVars => KbdIInv'
  BY KbdStepKeeps
<1> QED BY <1>1, <1>2, PTL DEF KbdSpec

(* One thread at most sleeps in kbd_wait, queued once and with kbd_lock.   *)
THEOREM KbdAlwaysConsistent == KbdSpec => []KbdConsistent
<1>1. KbdIInv => KbdConsistent
  <2> SUFFICES ASSUME KbdIInv PROVE KbdTypes /\ OneSleeper
    BY DEF KbdConsistent
  <2>1. KbdTypes /\ ReaderInv
    BY DEF KbdIInv
  <2>2. ASSUME NEW t \in Readers, InWaitq(t)
        PROVE  kbdLock = t /\ (rpc[t] \in Asleep \/ spin = t)
    BY <2>1, <2>2 DEF ReaderInv, InCvarSpin, Asleep
  <2> QED BY <2>1, <2>2 DEF OneSleeper, ReaderInv
<1> QED BY <1>1, KbdInvariance, PTL

(* Until the buffer overflows each key is given, unread, in hand or was    *)
(* dropped in one of the two ways the code has, and is so once.            *)
THEOREM KbdConservesKeys == KbdSpec => []KeysConserved
<1>1. KbdIInv => KeysConserved
  <2> SUFFICES ASSUME KbdIInv, ~overrun
               PROVE  /\ \A i, j \in 1 .. bufCount : i < j => Unread[i] < Unread[j]
                      /\ Keys = ToSet(given) \cup ToSet(dropped) \cup ToSet(Unread) \cup InHand
                      /\ Len(kind) = Len(given) + Len(dropped) + bufCount + Cardinality(Holding)
    BY DEF KeysConserved
  <2>1. KbdTypes /\ ReaderInv /\ BufferInv
    BY DEF KbdIInv
  <2>2. /\ bufCount <= Size
        /\ \A i, j \in 1 .. bufCount : i < j => Oldest(i) < Oldest(j)
        /\ \A i \in 1 .. bufCount : Oldest(i) # 0
        /\ \A n \in Keys :
              \/ TakenKey(n)
              \/ \E i \in 1 .. bufCount : Oldest(i) = n
              \/ \E t \in Holding : got[t] = n
    BY DEF KbdIInv, WindowInv
  <2>3. \A i \in 1 .. bufCount : Unread[i] = Oldest(i)
    BY DEF Unread, Oldest
  <2>4. /\ bufCount \in Nat /\ Len(kind) \in Nat /\ Taken \in Nat
        /\ \A n : TakenKey(n) => n \in 1 .. Len(kind)
        /\ \A t \in Readers : got[t] \in Nat
    <3>1. \A t \in Readers : got[t] \in 0 .. MaxKeys
      BY <2>1 DEF KbdTypes
    <3> QED BY <2>1, <3>1, HistoryFacts, BufferFacts
  <2>5. \A i \in 1 .. bufCount : Oldest(i) \in 1 .. Len(kind)
    <3>1. \A i \in 1 .. bufCount : Oldest(i) \in Nat /\ Oldest(i) < Len(kind) + 1
      BY <2>1, <2>2, <2>4, UnreadOlder
    <3> QED BY <2>2, <2>4, <3>1
  <2>6. \A n : n \in ToSet(given) \cup ToSet(dropped) <=> TakenKey(n)
    BY DEF ToSet, TakenKey
  <2>7. ToSet(Unread) = {Oldest(i) : i \in 1 .. bufCount}
    <3>1. DOMAIN Unread = 1 .. bufCount
      BY DEF Unread
    <3>2. ToSet(Unread) = {Unread[i] : i \in 1 .. bufCount}
      BY <3>1 DEF ToSet
    <3> QED BY <2>3, <3>2
  <2>8. \A t \in Holding : got[t] \in 1 .. Len(kind)
    BY <2>1, <2>4 DEF BufferInv, Holding
  <2>9. Keys = ToSet(given) \cup ToSet(dropped) \cup ToSet(Unread) \cup InHand
    <3>1. ASSUME NEW n \in Keys
          PROVE  n \in ToSet(given) \cup ToSet(dropped) \cup ToSet(Unread) \cup InHand
      BY <2>2, <2>6, <2>7 DEF InHand
    <3>2. ASSUME NEW n \in ToSet(given) \cup ToSet(dropped) \cup ToSet(Unread) \cup InHand
          PROVE  n \in 1 .. Len(kind)
      BY <2>4, <2>5, <2>6, <2>7, <2>8, <3>2 DEF InHand
    <3> QED BY <3>1, <3>2 DEF Keys
  <2>10. Cardinality(Holding) = IF Reading THEN 1 ELSE 0
    <3>1. CASE Reading
      <4>1. Holding = {kbdLock}
        BY <2>1, <3>1, HoldingFacts DEF Reading
      <4> QED BY <3>1, <4>1, FS_Singleton
    <3>2. CASE ~Reading
      <4>1. Holding = {}
        BY <2>1, <3>2, HoldingFacts
      <4> QED BY <3>2, <4>1, FS_EmptySet
    <3> QED BY <3>1, <3>2
  <2>11. Len(kind) = Len(given) + Len(dropped) + bufCount + Cardinality(Holding)
    BY <2>1, <2>10 DEF BufferInv, Taken
  <2>12. \A i, j \in 1 .. bufCount : i < j => Unread[i] < Unread[j]
    BY <2>2, <2>3
  <2> QED BY <2>9, <2>11, <2>12
<1> QED BY <1>1, KbdInvariance, PTL
=============================================================================
