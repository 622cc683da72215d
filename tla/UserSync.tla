------------------------------ MODULE UserSync ------------------------------
(***************************************************************************)
(* The synchronisation objects of the user library together: a mutex with  *)
(* its condition variable, a semaphore and a readers/writer lock, used by  *)
(* the same threads, one at a time.  What ties them together is that a     *)
(* late wake-up from one may hit a thread that waits in another.           *)
(***************************************************************************)
EXTENDS UCond, USem, RWLock

vars == <<syncVars, condVars, semVars, rwVars>>

Init == SyncInit /\ CondInit /\ SemInit /\ RWInit

Step(t) ==
    \/ Wakes(t) /\ UNCHANGED <<condVars, semVars, rwVars>>
    \/ CondStep(t) /\ UNCHANGED <<semVars, rwVars>>
    \/ SemStep(t) /\ UNCHANGED <<condVars, rwVars>>
    \/ RWStep(t) /\ UNCHANGED <<condVars, semVars>>

CallerStep(t) ==
    \/ CondCall(t) /\ UNCHANGED <<semVars, rwVars>>
    \/ SemCall(t) /\ UNCHANGED <<condVars, rwVars>>
    \/ CallRW(t) /\ UNCHANGED <<condVars, semVars>>
    \/ CallRWUnlock(t) /\ UNCHANGED <<condVars, semVars>>

(* What a caller owes: to give back what it has. *)
Unlock(t) ==
    \/ CallUnlock(t) /\ UNCHANGED <<cvq, semVars, rwVars>>
    \/ CallSemSignal(t) /\ UNCHANGED <<condVars, rwVars>>
    \/ pc[t] # "out" /\ CallRWUnlock(t) /\ UNCHANGED <<condVars, semVars>>

Next == \E t \in Threads : Step(t) \/ CallerStep(t)

Spec == Init /\ [][Next]_vars

(* The kernel gives every runnable thread the CPU (Sched's RunnableRuns in *)
(* module KMutex), and callers end their critical sections.                *)
FairSpec ==
    Spec /\ \A t \in Threads : WF_vars(Step(t)) /\ SF_vars(Unlock(t))

-----------------------------------------------------------------------------
TypeOK ==
    /\ SyncTypeOK
    /\ mowner \in Threads \cup {None} /\ mqueue \in Seq(Threads)
    /\ cvq \in Seq(Threads)
    /\ count \in 0..Permits /\ semq \in Seq(Threads)
    /\ rwstate \in {"UNLOCKED", "RDLOCKED", "WRLOCKED"}
    /\ writer \in Threads \cup {None}
    /\ writers \in Seq(Threads) /\ rwaiting \in Seq(Threads)
    /\ rreading \in Seq(Threads) /\ todo \in Seq(Threads)

(* What the asserts and lists of the library take for granted: unlock is   *)
(* called by the owner (mutex.c:122-123); the readers' list is empty when  *)
(* that of the waiting ones replaces it, or nodes would be lost            *)
(* (rwlock.c:199-204); a lock that is free has nobody waiting              *)
(* (mutex.c:147, rwlock.c:383); and the types.                             *)
Consistent ==
    /\ TypeOK
    /\ \A t \in Threads : pc[t] = "u_spin" => mowner = t
    /\ todo # <<>> => rreading = <<>>
    /\ mowner = None => mqueue = <<>>
    /\ count > 0 => semq = <<>>
    /\ rwstate = "UNLOCKED" => writers = <<>> /\ rwaiting = <<>> /\ rreading = <<>>

(* Nobody shares what it has locked: one thread in the mutex, Permits      *)
(* units of a semaphore that are neither lost nor multiplied, a writer     *)
(* alone or readers, and the readers' list says who they are.              *)
Exclusive ==
    /\ \A t \in Threads : pc[t] \in {"crit", "c_spin", "u_spin"} => mowner = t
    /\ count + Cardinality(Permitted) = Permits
    /\ \A t, u \in Threads : Writes(t) /\ t # u => ~Writes(u) /\ ~Reads(u)
    /\ \A t \in Threads : Reads(t) => t \in AbsReaders \/ AbsWriter = t

(* A thread that sleeps in the library stands in a queue, or somebody has  *)
(* dequeued it and will set its reject, or has set it and will wake it     *)
(* (mutex.c:142, cvar.c:124,155, sem.c:106, rwlock.c:195,373): also when   *)
(* the waker reads the TID from a stack that is no longer the waiter's.    *)
Queued(t) ==
    \/ pc[t] \in {"l_wait", "k_wait"} /\ OnMqueue(t)
    \/ pc[t] = "c_wait" /\ OnCvq(t)
    \/ pc[t] = "s_wait" /\ t \in ToSet(semq)
    \/ pc[t] = "r_wait" /\ t \in ToSet(rwaiting)
    \/ pc[t] = "w_wait" /\ t \in ToSet(writers)

NoLostWaiter ==
    \A t \in asleep :
        IF reject[t] THEN Awaited(t) ELSE Queued(t) # Dequeued(t)

(* The mutex serves its requests in the order of their tickets: nobody    *)
(* barges past a waiter.                                                   *)
GrantsInTicketOrder == Fifo!Spec

(* The condition variable implements CondVar: giving up the mutex and      *)
(* joining the waiters are one step to every observer.  The readers/writer *)
(* lock implements SharedLock.                                             *)
ImplementsPromises == CV!Spec /\ Shared!Spec

(* Whoever asks for a mutex, for a permit or to write gets it, and a       *)
(* waiter that was signalled comes back with the mutex, as long as those   *)
(* who have it give it back.  Readers are not promised as much: writers    *)
(* may keep them out for ever (rwlock.c:359).                              *)
Asks(t) ==
    \/ pc[t] \in {"l_spin", "k_spin", "l_wait", "k_wait",
                  "sw_spin", "s_wait", "wl_spin", "w_wait"}
    \/ pc[t] = "c_wait" /\ ~OnCvq(t)

(* The threads are interchangeable: what holds of one holds of all. *)
Witness == CHOOSE t \in Threads : TRUE

EveryRequestServed == Asks(Witness) ~> pc[Witness] \in {"crit", "s_in", "w_in"}

-----------------------------------------------------------------------------
(* Two statements that TLC refutes in place of a property above.           *)

(* Every waker names the thread it dequeued: mutex.c:134-135 says why the  *)
(* TID has to be read before reject is set; cvar.c:156 and rwlock.c:374    *)
(* read it after.                                                          *)
WakesWhomItDequeued == \A t \in Threads : target[t] # Trampled

(* A reader gets in: writers that keep coming keep it out (rwlock.c:359).  *)
EveryReaderServed == pc[Witness] = "r_wait" ~> pc[Witness] = "r_in"
=============================================================================
