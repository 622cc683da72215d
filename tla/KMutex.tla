------------------------------- MODULE KMutex -------------------------------
(***************************************************************************)
(* The kernel mutex (kern/lib/mutex.c) on its ticket spinlock              *)
(* (kern/lib/spin.c) and the scheduler (Sched).  The threads of Threads    *)
(* call mutex_lock, mutex_unlock and mutex_unlock_and_block on one mutex;  *)
(* the timer preempts them between any two steps.  A step of thread t is   *)
(* enabled only while t is on the CPU (curr = t): one step per access to   *)
(* shared memory, one step for each section with interrupts disabled.      *)
(***************************************************************************)
EXTENDS Sched

CONSTANT M      \* number of ticket values before the counters wrap: the
                \* code's 2^32, far more than the threads there can be

ASSUME TicketAssumption == M \in Nat /\ M > Cardinality(Threads)

Tickets == 0 .. M - 1

Inc(n) == IF n = M - 1 THEN 0 ELSE n + 1

VARIABLES
    ticket, turn, spOwner,      \* struct spin_lock
    mstate, mowner, mqueue,     \* struct mutex: state, owner, queue
    pc,                         \* where the thread stands in mutex.c/spin.c
    op,                         \* the operation it is executing
    myTurn,                     \* spin_lock's local `turn'
    seen                        \* the sp->owner it passes to sched_find

spinVars == <<ticket, turn, spOwner>>
mutexVars == <<mstate, mowner, mqueue>>
localVars == <<op, myTurn, seen>>
vars == <<schedVars, spinVars, mutexVars, pc, localVars>>

Unlocks == {"unlock", "unlock_block"}
Ops == {"none", "lock"} \cup Unlocks

(* spin_lock returned and spin_unlock has not started *)
SpinBody == {"enter", "enqueue", "take", "dequeue", "handoff", "free",
             "park", "release"}

(* between the fetch_and_add on the ticket and the one on the turn *)
Ticketed == {"test", "yield", "own", "advance"} \cup SpinBody

PCs == {"out", "crit", "ticket", "waiting", "parked"} \cup Ticketed

Init ==
    /\ runq \in {Append(s, Idle) : s \in SetToSeqs(Threads)}
    /\ tstate = [p \in Procs |-> "RUNNABLE"]
    /\ curr = Idle
    /\ ticket = 0 /\ turn = 0 /\ spOwner = None
    /\ mstate = "UNLOCKED" /\ mowner = None /\ mqueue = <<>>
    /\ pc = [t \in Threads |-> "out"]
    /\ op = [t \in Threads |-> "none"]
    /\ myTurn = [t \in Threads |-> 0]
    /\ seen = [t \in Threads |-> None]

At(t, label) == curr = t /\ pc[t] = label

Goto(t, label) == pc' = [pc EXCEPT ![t] = label]

-----------------------------------------------------------------------------
(* The callers: outside the mutex a thread may lock it, inside it may      *)
(* unlock it either way.                                                   *)

CallLock(t) ==
    /\ At(t, "out")
    /\ op' = [op EXCEPT ![t] = "lock"]
    /\ Goto(t, "ticket")
    /\ UNCHANGED <<schedVars, spinVars, mutexVars, myTurn, seen>>

CallUnlock(t, mode) ==
    /\ At(t, "crit")
    /\ op' = [op EXCEPT ![t] = mode]
    /\ Goto(t, "ticket")
    /\ UNCHANGED <<schedVars, spinVars, mutexVars, myTurn, seen>>

(* A thread that mutex_unlock_and_block put to sleep is made runnable by   *)
(* another thread's sched_unblock, and then returns from the call.         *)
Wake(t, u) ==
    /\ At(t, "out")
    /\ pc[u] = "parked" /\ tstate[u] = "BLOCKED"
    /\ SchedUnblock(u)
    /\ UNCHANGED <<spinVars, mutexVars, pc, localVars>>

Resume(t) ==
    /\ At(t, "parked")
    /\ op' = [op EXCEPT ![t] = "none"]
    /\ Goto(t, "out")
    /\ UNCHANGED <<schedVars, spinVars, mutexVars, myTurn, seen>>

-----------------------------------------------------------------------------
(* spin_lock *)

SpinTicket(t) ==
    /\ At(t, "ticket")
    /\ myTurn' = [myTurn EXCEPT ![t] = ticket]
    /\ ticket' = Inc(ticket)
    /\ Goto(t, "test")
    /\ UNCHANGED <<schedVars, turn, spOwner, mutexVars, op, seen>>

(* Mutant: the turn is not waited for. *)
SpinTestNoWait(t) ==
    /\ At(t, "test")
    /\ Goto(t, "own")
    /\ UNCHANGED <<schedVars, spinVars, mutexVars, localVars>>

SpinTest(t) ==
    /\ At(t, "test")
    /\ \/ /\ turn = myTurn[t]
          /\ Goto(t, "own")
          /\ UNCHANGED seen
       \/ /\ turn # myTurn[t]
          /\ seen' = [seen EXCEPT ![t] = spOwner]
          /\ Goto(t, "yield")
    /\ UNCHANGED <<schedVars, spinVars, mutexVars, op, myTurn>>

SpinYield(t) ==
    /\ At(t, "yield")
    /\ SchedFind(seen[t])
    /\ seen' = [seen EXCEPT ![t] = None]
    /\ Goto(t, "test")
    /\ UNCHANGED <<spinVars, mutexVars, op, myTurn>>

SpinOwn(t) ==
    /\ At(t, "own")
    /\ spOwner' = t
    /\ Goto(t, "enter")
    /\ UNCHANGED <<schedVars, ticket, turn, mutexVars, localVars>>

(* spin_unlock: two stores with interrupts enabled between them *)

SpinRelease(t) ==
    /\ At(t, "release")
    /\ spOwner' = None
    /\ Goto(t, "advance")
    /\ UNCHANGED <<schedVars, ticket, turn, mutexVars, localVars>>

SpinAdvance(t) ==
    /\ At(t, "advance")
    /\ turn' = Inc(turn)
    /\ op' = [op EXCEPT ![t] = "none"]
    /\ Goto(t, IF op[t] = "lock" THEN "crit" ELSE "out")
    /\ UNCHANGED <<schedVars, ticket, spOwner, mutexVars, myTurn, seen>>

(* spin_unlock inside a section with interrupts disabled *)
SpinUnlock ==
    /\ spOwner' = None
    /\ turn' = Inc(turn)
    /\ UNCHANGED ticket

SpinUnlockAndBlock(t) ==
    /\ At(t, "park")
    /\ SpinUnlock
    /\ SchedBlock(t)
    /\ Goto(t, IF op[t] = "lock" THEN "waiting" ELSE "parked")
    /\ UNCHANGED <<mutexVars, localVars>>

-----------------------------------------------------------------------------
(* mutex_lock, once it has the spinlock *)

LockEnter(t) ==
    /\ At(t, "enter") /\ op[t] = "lock"
    /\ Goto(t, IF mstate = "LOCKED" THEN "enqueue" ELSE "take")
    /\ UNCHANGED <<schedVars, spinVars, mutexVars, localVars>>

LockEnqueue(t) ==
    /\ At(t, "enqueue")
    /\ mqueue' = Append(mqueue, t)
    /\ Goto(t, "park")
    /\ UNCHANGED <<schedVars, spinVars, mstate, mowner, localVars>>

LockTake(t) ==
    /\ At(t, "take")
    /\ mstate' = "LOCKED"
    /\ mowner' = t
    /\ Goto(t, "release")
    /\ UNCHANGED <<schedVars, spinVars, mqueue, localVars>>

(* A waiter that was handed the mutex returns from spin_unlock_and_block   *)
(* and from mutex_lock without looking at the mutex again.                 *)
LockReturn(t) ==
    /\ At(t, "waiting")
    /\ op' = [op EXCEPT ![t] = "none"]
    /\ Goto(t, "crit")
    /\ UNCHANGED <<schedVars, spinVars, mutexVars, myTurn, seen>>

-----------------------------------------------------------------------------
(* unlock, once it has the spinlock *)

(* Mutant: the mutex is freed although threads wait for it. *)
UnlockEnterNoHandOff(t) ==
    /\ At(t, "enter") /\ op[t] \in Unlocks
    /\ Goto(t, "free")
    /\ UNCHANGED <<schedVars, spinVars, mutexVars, localVars>>

UnlockEnter(t) ==
    /\ At(t, "enter") /\ op[t] \in Unlocks
    /\ Goto(t, IF mqueue # <<>> THEN "dequeue" ELSE "free")
    /\ UNCHANGED <<schedVars, spinVars, mutexVars, localVars>>

(* Mutant: the youngest waiter is taken. *)
UnlockDequeueLast(t) ==
    /\ At(t, "dequeue")
    /\ mqueue' = Front(mqueue)
    /\ mowner' = Last(mqueue)
    /\ Goto(t, "handoff")
    /\ UNCHANGED <<schedVars, spinVars, mstate, localVars>>

UnlockDequeue(t) ==
    /\ At(t, "dequeue")
    /\ mqueue' = Tail(mqueue)
    /\ mowner' = Head(mqueue)
    /\ Goto(t, "handoff")
    /\ UNCHANGED <<schedVars, spinVars, mstate, localVars>>

(* Mutant: the blocking unlock does not add the new owner to the run queue. *)
UnlockHandOffNoWake(t) ==
    /\ At(t, "handoff")
    /\ SpinUnlock
    /\ \/ /\ op[t] = "unlock_block"
          /\ SchedBlock(t)
          /\ Goto(t, "parked")
          /\ UNCHANGED op
       \/ /\ op[t] = "unlock"
          /\ SchedUnblock(mowner)
          /\ Goto(t, "out")
          /\ op' = [op EXCEPT ![t] = "none"]
    /\ UNCHANGED <<mutexVars, myTurn, seen>>

(* The section with interrupts disabled; its local thr is the owner just   *)
(* set, which nobody else writes before the spinlock is released.          *)
UnlockHandOff(t) ==
    /\ At(t, "handoff")
    /\ SpinUnlock
    /\ \/ /\ op[t] = "unlock_block"
          /\ SchedSwap(t, mowner)
          /\ Goto(t, "parked")
          /\ UNCHANGED op
       \/ /\ op[t] = "unlock"
          /\ SchedUnblock(mowner)
          /\ Goto(t, "out")
          /\ op' = [op EXCEPT ![t] = "none"]
    /\ UNCHANGED <<mutexVars, myTurn, seen>>

UnlockFree(t) ==
    /\ At(t, "free")
    /\ mowner' = None
    /\ mstate' = "UNLOCKED"
    /\ Goto(t, IF op[t] = "unlock" THEN "release" ELSE "park")
    /\ UNCHANGED <<schedVars, spinVars, mqueue, localVars>>

-----------------------------------------------------------------------------
(* The timer interrupt: preempts whoever runs. *)
Tick ==
    /\ Schedule
    /\ UNCHANGED <<spinVars, mutexVars, pc, localVars>>

SpinStep(t) ==
    \/ SpinTicket(t) \/ SpinTest(t) \/ SpinYield(t) \/ SpinOwn(t)
    \/ SpinRelease(t) \/ SpinAdvance(t) \/ SpinUnlockAndBlock(t)

LockStep(t) ==
    LockEnter(t) \/ LockEnqueue(t) \/ LockTake(t) \/ LockReturn(t)

UnlockStep(t) ==
    UnlockEnter(t) \/ UnlockDequeue(t) \/ UnlockHandOff(t) \/ UnlockFree(t)

Step(t) == SpinStep(t) \/ LockStep(t) \/ UnlockStep(t)

CallerStep(t) ==
    \/ CallLock(t)
    \/ \E mode \in Unlocks : CallUnlock(t, mode)
    \/ \E u \in Threads : Wake(t, u)
    \/ Resume(t)

Next == Tick \/ \E t \in Threads : Step(t) \/ CallerStep(t)

Spec == Init /\ [][Next]_vars

(* Interrupts come forever, and a thread that keeps getting the CPU keeps  *)
(* executing: a timer period is longer than an instruction.  A critical    *)
(* section is finite kernel code, so a thread in it eventually unlocks.    *)
Fairness ==
    /\ WF_vars(Tick)
    /\ \A t \in Threads :
          /\ SF_vars(Step(t))
          /\ SF_vars(\E mode \in Unlocks : CallUnlock(t, mode))

FairSpec == Spec /\ Fairness
-----------------------------------------------------------------------------
(***************************************************************************)
(* Properties.                                                             *)
(***************************************************************************)

TypeOK ==
    /\ SchedTypeOK
    /\ ticket \in Tickets /\ turn \in Tickets
    /\ spOwner \in Threads \cup {None}
    /\ mstate \in {"LOCKED", "UNLOCKED"}
    /\ mowner \in Threads \cup {None}
    /\ mqueue \in Seq(Threads)
    /\ pc \in [Threads -> PCs]
    /\ op \in [Threads -> Ops]
    /\ myTurn \in [Threads -> Tickets]
    /\ seen \in [Threads -> Threads \cup {None}]

(* Which operation a thread at a given label can be executing. *)
OpMatches ==
    \A t \in Threads :
        /\ pc[t] \in {"out", "crit"} => op[t] = "none"
        /\ pc[t] \in {"waiting", "enqueue", "take"} => op[t] = "lock"
        /\ pc[t] \in {"dequeue", "handoff", "free"} => op[t] \in Unlocks
        /\ pc[t] = "parked" => op[t] = "unlock_block"
        /\ pc[t] = "park" => op[t] \in {"lock", "unlock_block"}
        /\ pc[t] \in {"release", "advance"} => op[t] \in {"lock", "unlock"}
        /\ pc[t] \in {"ticket", "test", "yield", "own", "enter"} => op[t] # "none"

-----------------------------------------------------------------------------
(* The ticket lock.  Ahead(v) is how many tickets are served before v.     *)

Ahead(v) == IF v >= turn THEN v - turn ELSE v - turn + M

InSpin == {t \in Threads : pc[t] \in Ticketed}

Served(t) == pc[t] \in {"own", "advance"} \cup SpinBody

(* The outstanding tickets are exactly those from turn up to ticket, one   *)
(* per thread in the lock, across the wrap of the two counters; so one of  *)
(* them is being served whenever anybody holds one (spin.c:50,51,66).      *)
TicketsContiguous ==
    /\ \A t \in InSpin : Ahead(myTurn[t]) < Ahead(ticket)
    /\ \A t, u \in InSpin : myTurn[t] = myTurn[u] => t = u
    /\ \A v \in Tickets : Ahead(v) < Ahead(ticket)
                            => \E t \in InSpin : myTurn[t] = v

(* At most one thread is inside the spinlock, and sp->owner names it from  *)
(* its store at the end of spin_lock to its store in spin_unlock, and      *)
(* nobody at any other time: what a spinner hands to sched_find.           *)
SpinExclusion ==
    /\ \A t \in Threads : Served(t) => myTurn[t] = turn
    /\ \A t, u \in Threads : Served(t) /\ Served(u) => t = u
    /\ \A t \in Threads : pc[t] \in SpinBody <=> spOwner = t

-----------------------------------------------------------------------------
Queued(t) == \E i \in DOMAIN mqueue : mqueue[i] = t

(* t has the mutex: it was granted, and t has not yet given it up.  A      *)
(* waiter has it from the moment unlock takes it off the queue.            *)
Has(t) ==
    \/ pc[t] = "crit"
    \/ pc[t] = "waiting" /\ ~Queued(t)
    \/ op[t] = "lock" /\ pc[t] \in {"release", "advance"}
    \/ op[t] \in Unlocks
       /\ pc[t] \in {"ticket", "test", "yield", "own", "enter", "dequeue", "free"}

(* Mutual exclusion: the mutex is had by one thread at most, the one whose *)
(* TID is in mp->owner, and it is LOCKED just while somebody has it; so    *)
(* a hand-off neither loses the mutex nor grants it twice                  *)
(* (mutex.c:66-90,156-173).                                                *)
MutexExclusion ==
    /\ \A t \in Threads : Has(t) <=> mowner = t
    /\ mstate = "LOCKED" <=> mowner # None

(* No waiter is lost: a thread is in the queue exactly from its enqueue to *)
(* the hand-off, there is somebody to hand the mutex to it, it stays       *)
(* blocked meanwhile, and a thread the queue no longer holds is made       *)
(* runnable in the section that follows its removal.                       *)
NoLostWaiter ==
    /\ NoDuplicates(mqueue)
    /\ \A t \in Threads : Queued(t) =>
          /\ mstate = "LOCKED"
          /\ op[t] = "lock"
          /\ pc[t] = "park" \/ (pc[t] = "waiting" /\ tstate[t] = "BLOCKED")
    /\ \A t \in Threads : pc[t] = "park" /\ op[t] = "lock" => Queued(t)
    /\ \A t \in Threads : pc[t] = "waiting" /\ ~Queued(t) =>
          (tstate[t] = "BLOCKED" <=> \E u \in Threads : pc[u] = "handoff")

(* Only threads that sleep in this module's calls are off the run queue.   *)
BlockedIsAsleep ==
    \A t \in Threads :
        /\ tstate[t] \in {"RUNNABLE", "BLOCKED"}
        /\ tstate[t] = "BLOCKED" => pc[t] \in {"waiting", "parked"}

(* What a thread decided on under the spinlock still holds when it acts.   *)
DecisionsHold ==
    \A t \in Threads :
        /\ pc[t] = "enqueue" => mstate = "LOCKED"
        /\ pc[t] = "take" => mstate = "UNLOCKED"
        /\ pc[t] = "dequeue" => mqueue # <<>>
        /\ pc[t] = "free" => mqueue = <<>>
        /\ pc[t] = "handoff" => /\ mowner \in Threads
                                /\ pc[mowner] = "waiting"
                                /\ ~Queued(mowner)

(* Every assert on the way holds when it is reached: the owner tests of    *)
(* spin_unlock (spin.c:64) and unlock (mutex.c:62,63), and the state tests *)
(* of rq_add and rq_del (sched.c:49,64) for the threads they are given.    *)
AssertsHold ==
    \A t \in Threads : curr = t =>
        /\ pc[t] \in {"release", "park", "handoff"} => spOwner = t
        /\ pc[t] = "enter" /\ op[t] \in Unlocks => mowner = t /\ mstate = "LOCKED"
        /\ pc[t] \in {"park", "handoff"} => tstate[t] = "RUNNABLE"
        /\ pc[t] = "handoff" => mowner \in Threads /\ tstate[mowner] = "BLOCKED"

(* Data that steps of several threads build up together agrees: the types, *)
(* the run queue, the tickets that are out, and what the asserts test.     *)
Consistent == TypeOK /\ RunqExact /\ TicketsContiguous /\ AssertsHold

(* One thread at most inside the spinlock, and one at most has the mutex.  *)
Exclusive == SpinExclusion /\ MutexExclusion

(* The inductive invariant *)
IInv ==
    /\ TypeOK
    /\ OpMatches
    /\ RunqExact
    /\ TicketsContiguous
    /\ SpinExclusion
    /\ MutexExclusion
    /\ NoLostWaiter
    /\ BlockedIsAsleep
    /\ DecisionsHold

-----------------------------------------------------------------------------
(* Refinement: the line of FifoLock is the wait queue followed by the      *)
(* requests still in the spinlock, in ticket order.                        *)

AskedInSpin(t) ==
    /\ op[t] = "lock"
    /\ pc[t] \in {"test", "yield", "own", "enter", "enqueue", "take"}

Asking == {t \in Threads : AskedInSpin(t)}

Rank == [t \in Threads |-> Ahead(myTurn[t])]

(* The elements of S, which rank tells apart, in increasing rank. *)
SortedBy(S, rank) ==
    CHOOSE s \in SetToSeqs(S) :
        \A i, j \in DOMAIN s : i < j => rank[s[i]] < rank[s[j]]

SpinLine == SortedBy(Asking, Rank)

Line == mqueue \o SpinLine

Fifo == INSTANCE FifoLock WITH owner <- mowner, line <- Line

(* The mutex grants requests in the order of their tickets, whether the    *)
(* request is taken up in spin_lock, found the mutex free, or waited in    *)
(* the queue: nobody barges past a waiter.                                 *)
GrantsInTicketOrder == Fifo!Spec

(* Nobody starves: a thread that called mutex_lock gets the mutex.         *)
EveryRequestGranted ==
    \A t \in Threads : (op[t] = "lock") ~> (pc[t] = "crit")

(* A thread does not run twice as the head while another is passed over:   *)
(* every thread on the run queue gets the CPU, or leaves the queue.        *)
RunnableRuns ==
    \A p \in Procs : (tstate[p] = "RUNNABLE") ~> (curr = p)

=============================================================================
