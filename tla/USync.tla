------------------------------- MODULE USync -------------------------------
(***************************************************************************)
(* What the synchronisation objects of the user library share: the ticket  *)
(* spinlock (synch/spin.c), the queue entry a waiter leaves on its stack   *)
(* (qentry_s: tid and reject), and the system calls deschedule and         *)
(* make_runnable.  The scheduler may run any thread that is not            *)
(* descheduled.                                                            *)
(*                                                                         *)
(* The spinlock is the line of its tickets.  What a thread does under it   *)
(* is one step when nothing it touches can be seen from outside, so a      *)
(* step ends where the code releases the lock, sets a reject or makes a    *)
(* system call.  Kernel-side atomicity of deschedule is module ThreadMgmt. *)
(***************************************************************************)
EXTENDS SequencesExt, Integers

CONSTANTS Threads,
          None,         \* the TID -1
          Trampled      \* what a queue entry holds once its stack is reused

ASSUME USyncAssumption ==
    /\ IsFiniteSet(Threads)
    /\ None \notin Threads /\ Trampled \notin Threads \cup {None}

VARIABLES
    spin,       \* for each spinlock, the threads with tickets, in order
    asleep,     \* the descheduled threads
    reject,     \* the reject field of the thread's own queue entry
    target,     \* the waiter a waker has dequeued
    pc,
    home        \* the label the call in progress returns to

syncVars == <<spin, asleep, reject, target, pc, home>>

SpinLocks == {"mp", "cv", "sem", "rw"}

At(t, label) == t \notin asleep /\ pc[t] = label

Goto(t, label) == pc' = [pc EXCEPT ![t] = label]

Call(t, lock, label, back) ==
    /\ spin' = [spin EXCEPT ![lock] = Append(@, t)]
    /\ Goto(t, label)
    /\ home' = [home EXCEPT ![t] = back]
    /\ UNCHANGED <<asleep, reject, target>>

Turn(t, lock) == spin[lock] # <<>> /\ Head(spin[lock]) = t

SpinUnlock(lock) == spin' = [spin EXCEPT ![lock] = Tail(@)]

(* The labels at which a waker has yet to read the TID of an entry whose   *)
(* reject it has set.                                                      *)
LateReaders == {"b_wake", "late_wake"}

(* t returns from the call its queue entry belongs to: the entry is gone.  *)
Leave(t) ==
    target' = [u \in Threads |-> IF target[u] = t /\ pc[u] \in LateReaders
                                 THEN Trampled ELSE target[u]]

SyncInit ==
    /\ spin = [l \in SpinLocks |-> <<>>]
    /\ asleep = {}
    /\ reject = [t \in Threads |-> FALSE]
    /\ target = [t \in Threads |-> None]
    /\ pc = [t \in Threads |-> "out"]
    /\ home = [t \in Threads |-> "out"]

-----------------------------------------------------------------------------
(* Waiting: while (!qe.reject) deschedule(&qe.reject).  deschedule tests   *)
(* reject and blocks in one step with respect to make_runnable, and        *)
(* returns at once when reject is set.                                     *)

(* Mutant: reject is tested before the call, not in it. *)
DescheduleAnyway(t) ==
    /\ asleep' = asleep \cup {t}
    /\ UNCHANGED <<spin, reject, target, pc, home>>

Deschedule(t) ==
    /\ ~reject[t]
    /\ asleep' = asleep \cup {t}
    /\ UNCHANGED <<spin, reject, target, pc, home>>

Waits(t, label, next) ==
    /\ At(t, label)
    /\ \/ Deschedule(t)
       \/ /\ reject[t]
          /\ Goto(t, next)
          /\ reject' = [reject EXCEPT ![t] = FALSE]
          /\ Leave(t)
          /\ UNCHANGED <<spin, asleep, home>>

(* make_runnable of a thread that is not descheduled, or of a TID that     *)
(* nobody has, is an error the library ignores.                            *)
MakeRunnable(t) == asleep' = asleep \ {t}

(* Waking, when the TID was read in time: qe->reject = gettid();           *)
(* make_runnable(tid).                                                     *)
Post(t) ==
    /\ At(t, "post")
    /\ reject' = [reject EXCEPT ![target[t]] = TRUE]
    /\ Goto(t, "wake")
    /\ UNCHANGED <<spin, asleep, target, home>>

Wake(t) ==
    /\ At(t, "wake")
    /\ MakeRunnable(target[t])
    /\ target' = [target EXCEPT ![t] = None]
    /\ Goto(t, home[t])
    /\ UNCHANGED <<spin, reject, home>>

(* make_runnable(qe->tid) after qe->reject was set: the waiter may have    *)
(* seen it, returned and used its stack for something else.                *)
MakeRunnableLate(t) ==
    \E u \in IF target[t] = Trampled THEN Threads \cup {None} ELSE {target[t]} :
        MakeRunnable(u)

Wakes(t) == Post(t) \/ Wake(t)

-----------------------------------------------------------------------------
SyncTypeOK ==
    /\ spin \in [SpinLocks -> Seq(Threads)]
    /\ asleep \subseteq Threads
    /\ reject \in [Threads -> BOOLEAN]
    /\ target \in [Threads -> Threads \cup {None, Trampled}]

(* w has been dequeued by a thread that has not set its reject yet. *)
Dequeued(w) == \E u \in Threads : target[u] = w /\ pc[u] \in {"post", "late_post"}

(* w's reject is set and a thread is still to make it runnable. *)
Awaited(w) == \E u \in Threads :
    \/ target[u] = w /\ pc[u] \in {"wake"} \cup LateReaders
    \/ pc[u] = "bc_wake" /\ reject[w]
=============================================================================
