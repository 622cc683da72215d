----------------------------- MODULE ThreadMgmt -----------------------------
(***************************************************************************)
(* The thread list (kern/sched/thread.c) and the calls deschedule,         *)
(* make_runnable and yield (kern/entry/syscall/threadmgmt.c), with the     *)
(* creation and the death of threads as far as the list sees them.         *)
(*                                                                         *)
(* A mutex is [owner, queue] and each of its operations one step with the  *)
(* scheduler's work inside: KMutex shows that requests are granted in      *)
(* order and that the mutex is handed over.  A thread that blocks in       *)
(* mutex_lock owns the mutex when it runs again, so its pc already names   *)
(* the next statement.                                                     *)
(*                                                                         *)
(* A thread of the model is a TCB: it is used again after it was freed.    *)
(***************************************************************************)
EXTENDS Sched

CONSTANTS List,         \* the head of thread_list, and thrlist_lock
          MaxTid        \* the largest TID: INT32_MAX

ASSUME ThreadMgmtAssumption ==
    /\ List \notin Procs \cup {None}
    /\ MaxTid \in Nat /\ MaxTid >= 2

VARIABLES
    thrlist, rover, lastTid,    \* thread_list, rover, the static tid
    tid, mutex, desched,        \* fields of each TCB; mutex[List] is the list's
    word,                       \* user memory: the integer *reject of a thread
    mapped,                     \* whether the page of that integer is mapped
    pc,
    arg, ptr                    \* the TID argument; the TCB a call works on

listVars == <<thrlist, rover, lastTid, tid>>
userVars == <<word, mapped>>
locals == <<arg, ptr>>
vars == <<schedVars, listVars, mutex, desched, userVars, pc, locals>>

Locks == Procs \cup {List}

Free == [owner |-> None, queue |-> <<>>]

(* After boot: idle has TID 1, the first user thread TID 2.                *)
Init ==
    \E t0 \in Threads :
        /\ thrlist = <<Idle, t0>> /\ rover = t0 /\ lastTid = 2
        /\ tid = [p \in Procs |-> IF p = Idle THEN 1 ELSE IF p = t0 THEN 2 ELSE 0]
        /\ runq = <<t0, Idle>> /\ curr = t0
        /\ tstate = [p \in Procs |->
                        IF p \in {Idle, t0} THEN "RUNNABLE" ELSE "BLOCKED"]
        /\ mutex = [m \in Locks |-> Free]
        /\ desched = [p \in Procs |-> FALSE]
        /\ word = [t \in Threads |-> 0]
        /\ mapped = [t \in Threads |-> TRUE]
        /\ pc = [t \in Threads |-> IF t = t0 THEN "out" ELSE "absent"]
        /\ arg = [t \in Threads |-> 0]
        /\ ptr = [t \in Threads |-> None]

At(t, label) == curr = t /\ pc[t] = label

Goto(t, label) == pc' = [pc EXCEPT ![t] = label]

-----------------------------------------------------------------------------
(* Kernel mutexes *)

Lock(m, t) ==
    \/ /\ mutex[m].owner = None
       /\ mutex' = [mutex EXCEPT ![m].owner = t]
       /\ UNCHANGED schedVars
    \/ /\ mutex[m].owner # None
       /\ mutex' = [mutex EXCEPT ![m].queue = Append(@, t)]
       /\ SchedBlock(t)

HandOver(m) ==
    mutex' = [mutex EXCEPT ![m] = [owner |-> Head(@.queue), queue |-> Tail(@.queue)]]

Unlock(m) ==
    \/ /\ mutex[m].queue = <<>>
       /\ mutex' = [mutex EXCEPT ![m] = Free]
       /\ UNCHANGED schedVars
    \/ /\ mutex[m].queue # <<>>
       /\ HandOver(m)
       /\ SchedUnblock(Head(mutex[m].queue))

UnlockAndBlock(m, t) ==
    \/ /\ mutex[m].queue = <<>>
       /\ mutex' = [mutex EXCEPT ![m] = Free]
       /\ SchedBlock(t)
    \/ /\ mutex[m].queue # <<>>
       /\ HandOver(m)
       /\ SchedSwap(t, Head(mutex[m].queue))

-----------------------------------------------------------------------------
(* User code: a thread that waits clears its word before others know of    *)
(* it, and deschedules itself while it is zero; a thread that wakes it     *)
(* sets the word first (user/libthread/synch/mutex.c:84-88,140-143).       *)

ClearWord(t) ==
    /\ At(t, "out")
    /\ word' = [word EXCEPT ![t] = 0]
    /\ UNCHANGED <<schedVars, listVars, mutex, desched, mapped, pc, locals>>

SetWord(t, u) ==
    /\ At(t, "out") /\ u \in ToSet(thrlist)
    /\ word' = [word EXCEPT ![u] = 1]
    /\ arg' = [arg EXCEPT ![t] = tid[u]]
    /\ Goto(t, "m_list")
    /\ UNCHANGED <<schedVars, listVars, mutex, desched, mapped, ptr>>

(* Another thread of the task removes the page that holds t's word.        *)
RemovePage(t) ==
    /\ pc[t] \in {"d_attrs", "d_test"} /\ mapped[t]
    /\ \E u \in Threads \ {t} : At(u, "out")
    /\ mapped' = [mapped EXCEPT ![t] = FALSE]
    /\ UNCHANGED <<schedVars, listVars, mutex, desched, word, pc, locals>>

-----------------------------------------------------------------------------
(* sys_deschedule; valid: whether the pointer passed lies in a writable    *)
(* region.                                                                 *)

CallDeschedule(t, valid) ==
    /\ At(t, "out")
    /\ mapped' = [mapped EXCEPT ![t] = valid]
    /\ Lock(t, t)
    /\ Goto(t, "d_attrs")
    /\ UNCHANGED <<listVars, desched, word, locals>>

LeaveDeschedule(t) ==
    /\ Goto(t, "out")
    /\ mapped' = [mapped EXCEPT ![t] = TRUE]
    /\ UNCHANGED <<listVars, word, locals>>

CheckReject(t) ==
    /\ At(t, "d_attrs")
    /\ \/ /\ mapped[t]
          /\ Goto(t, "d_test")
          /\ UNCHANGED <<schedVars, listVars, mutex, userVars, locals>>
       \/ ~mapped[t] /\ Unlock(t) /\ LeaveDeschedule(t)
    /\ UNCHANGED desched

(* The page went after the check: the read of *reject faults, and the      *)
(* fault handler kills the thread, which still owns its lock.              *)
TestFaults(t) ==
    /\ At(t, "d_test") /\ ~mapped[t]
    /\ Goto(t, "v_list")
    /\ UNCHANGED <<schedVars, listVars, mutex, desched, userVars, locals>>

TestRejects(t) ==
    /\ At(t, "d_test") /\ mapped[t] /\ word[t] # 0
    /\ Unlock(t)
    /\ LeaveDeschedule(t)
    /\ UNCHANGED desched

(* Mutant: the lock is released between the test and the block. *)
TestPassesUnlocked(t) ==
    /\ At(t, "d_test") /\ mapped[t] /\ word[t] = 0
    /\ desched' = [desched EXCEPT ![t] = TRUE]
    /\ Unlock(t)
    /\ Goto(t, "d_block")
    /\ UNCHANGED <<listVars, userVars, locals>>

TestPasses(t) ==
    /\ At(t, "d_test") /\ mapped[t] /\ word[t] = 0
    /\ desched' = [desched EXCEPT ![t] = TRUE]
    /\ Goto(t, "d_block")
    /\ UNCHANGED <<schedVars, listVars, mutex, userVars, locals>>

Deschedule(t) ==
    /\ At(t, "d_block")
    /\ UnlockAndBlock(t, t)
    /\ Goto(t, "d_asleep")
    /\ UNCHANGED <<listVars, desched, userVars, locals>>

DescheduleReturns(t) ==
    /\ At(t, "d_asleep")
    /\ LeaveDeschedule(t)
    /\ UNCHANGED <<schedVars, mutex, desched>>

-----------------------------------------------------------------------------
(* sys_make_runnable and thrlist_find_and_lock *)

CallMakeRunnable(t, n) ==
    /\ At(t, "out")
    /\ arg' = [arg EXCEPT ![t] = n]
    /\ Goto(t, "m_list")
    /\ UNCHANGED <<schedVars, listVars, mutex, desched, userVars, ptr>>

FindLocksList(t) ==
    /\ At(t, "m_list")
    /\ Lock(List, t)
    /\ Goto(t, "m_find")
    /\ UNCHANGED <<listVars, desched, userVars, locals>>

FindLocksThread(t) ==
    /\ At(t, "m_find")
    /\ \E p \in ToSet(thrlist) :
        /\ tid[p] = arg[t]
        /\ Lock(p, t)
        /\ ptr' = [ptr EXCEPT ![t] = p]
    /\ arg' = [arg EXCEPT ![t] = 0]
    /\ Goto(t, "m_unlist")
    /\ UNCHANGED <<listVars, desched, userVars>>

(* No such thread: sys_make_runnable goes on to unlock the mutex of a NULL *)
(* thread, which is whatever lies in low memory: nothing is modelled after *)
(* "m_null".                                                               *)
FindFails(t) ==
    /\ At(t, "m_find")
    /\ \A p \in ToSet(thrlist) : tid[p] # arg[t]
    /\ Unlock(List)
    /\ arg' = [arg EXCEPT ![t] = 0]
    /\ Goto(t, "m_null")
    /\ UNCHANGED <<listVars, desched, userVars, ptr>>

FindUnlocksList(t) ==
    /\ At(t, "m_unlist")
    /\ Unlock(List)
    /\ Goto(t, "m_test")
    /\ UNCHANGED <<listVars, desched, userVars, locals>>

(* Mutant: any thread that is not runnable may be made runnable. *)
TestTargetAny(t) ==
    /\ At(t, "m_test")
    /\ IF tstate[ptr[t]] = "RUNNABLE"
       THEN Goto(t, "m_unlock") /\ UNCHANGED desched
       ELSE /\ desched' = [desched EXCEPT ![ptr[t]] = FALSE]
            /\ Goto(t, "m_wake")
    /\ UNCHANGED <<schedVars, listVars, mutex, userVars, locals>>

TestTarget(t) ==
    /\ At(t, "m_test")
    /\ IF tstate[ptr[t]] = "RUNNABLE" \/ ~desched[ptr[t]]
       THEN Goto(t, "m_unlock") /\ UNCHANGED desched
       ELSE /\ desched' = [desched EXCEPT ![ptr[t]] = FALSE]
            /\ Goto(t, "m_wake")
    /\ UNCHANGED <<schedVars, listVars, mutex, userVars, locals>>

(* Mutant: the target is marked but not put into the run queue. *)
WakeTargetNot(t) ==
    /\ At(t, "m_wake")
    /\ Schedule
    /\ Goto(t, "m_unlock")
    /\ UNCHANGED <<listVars, mutex, desched, userVars, locals>>

WakeTarget(t) ==
    /\ At(t, "m_wake")
    /\ SchedUnblock(ptr[t])
    /\ Goto(t, "m_unlock")
    /\ UNCHANGED <<listVars, mutex, desched, userVars, locals>>

MakeRunnableReturns(t) ==
    /\ At(t, "m_unlock")
    /\ Unlock(ptr[t])
    /\ ptr' = [ptr EXCEPT ![t] = None]
    /\ Goto(t, "out")
    /\ UNCHANGED <<listVars, desched, userVars, arg>>

-----------------------------------------------------------------------------
(* sys_yield: the thread of the run queue that bears the TID, which may    *)
(* have left the thread list already.                                      *)

Bearers(n) == SelectSeq(runq, LAMBDA p : tid[p] = n)

Yield(t, n) ==
    /\ At(t, "out")
    /\ SchedFind(IF Bearers(n) = <<>> THEN None ELSE Head(Bearers(n)))
    /\ UNCHANGED <<listVars, mutex, desched, userVars, pc, locals>>

-----------------------------------------------------------------------------
(* thread_init, thrlist_add, thr_launch *)

CallThreadFork(t, u) ==
    /\ At(t, "out") /\ pc[u] = "absent"
    /\ pc' = [pc EXCEPT ![t] = "f_list", ![u] = "nascent"]
    /\ tstate' = [tstate EXCEPT ![u] = "NASCENT"]
    /\ mutex' = [mutex EXCEPT ![u] = Free]
    /\ desched' = [desched EXCEPT ![u] = FALSE]
    /\ ptr' = [ptr EXCEPT ![t] = u]
    /\ UNCHANGED <<runq, curr, listVars, userVars, arg>>

AddLocksList(t) ==
    /\ At(t, "f_list")
    /\ Lock(List, t)
    /\ Goto(t, "f_add")
    /\ UNCHANGED <<listVars, desched, userVars, locals>>

(* The scan for a gap, starting from the TID n: how many threads of the    *)
(* sequence s it passes, and the last TID it has seen.                     *)
Before(s, n, i) == IF i = 1 THEN n ELSE tid[s[i - 1]]

Passed(s, n) ==
    Cardinality({i \in DOMAIN s :
                    \A j \in 1 .. i : tid[s[j]] <= Before(s, n, j) + 1})

LastSeen(s, n) == Before(s, n, Passed(s, n) + 1)

RoverAt == IF rover = List THEN 0
           ELSE CHOOSE i \in DOMAIN thrlist : thrlist[i] = rover

PastRover == SubSeq(thrlist, RoverAt + 1, Len(thrlist))

(* Insert the new thread at position i with TID n. *)
InsertThread(t, i, n) ==
    /\ thrlist' = InsertAt(thrlist, i, ptr[t])
    /\ tid' = [tid EXCEPT ![ptr[t]] = n]
    /\ lastTid' = n
    /\ rover' = ptr[t]
    /\ Goto(t, "f_unlist")
    /\ UNCHANGED <<schedVars, mutex, desched, userVars, locals>>

AddPastRover(t) ==
    /\ At(t, "f_add")
    /\ LastSeen(PastRover, lastTid) # MaxTid
    /\ InsertThread(t, RoverAt + Passed(PastRover, lastTid) + 1,
                    LastSeen(PastRover, lastTid) + 1)

(* The TIDs have rolled over: the search starts again from the head of the *)
(* list and gives up on reaching the rover, before it looks for a gap      *)
(* there.                                                                  *)
GivesUp == rover # List /\ RoverAt <= Passed(thrlist, 0) + 1

AddFromStart(t) ==
    /\ At(t, "f_add")
    /\ LastSeen(PastRover, lastTid) = MaxTid /\ ~GivesUp
    /\ InsertThread(t, Passed(thrlist, 0) + 1, LastSeen(thrlist, 0) + 1)

(* thread_init asserts that thrlist_add succeeds: the kernel panics. *)
AddFails(t) ==
    /\ At(t, "f_add")
    /\ LastSeen(PastRover, lastTid) = MaxTid /\ GivesUp
    /\ Unlock(List)
    /\ Goto(t, "f_panic")
    /\ UNCHANGED <<listVars, desched, userVars, locals>>

AddUnlocksList(t) ==
    /\ At(t, "f_unlist")
    /\ Unlock(List)
    /\ Goto(t, "f_launch")
    /\ UNCHANGED <<listVars, desched, userVars, locals>>

Launch(t) ==
    /\ At(t, "f_launch")
    /\ SchedUnblock(ptr[t])
    /\ pc' = [pc EXCEPT ![t] = "out", ![ptr[t]] = "out"]
    /\ ptr' = [ptr EXCEPT ![t] = None]
    /\ UNCHANGED <<listVars, mutex, desched, userVars, arg>>

-----------------------------------------------------------------------------
(* sys_vanish: thrlist_del; the rest of it, in Lifecycle, blocks for good. *)

CallVanish(t) ==
    /\ At(t, "out")
    /\ Goto(t, "v_list")
    /\ UNCHANGED <<schedVars, listVars, mutex, desched, userVars, locals>>

DelLocksList(t) ==
    /\ At(t, "v_list")
    /\ Lock(List, t)
    /\ Goto(t, "v_del")
    /\ UNCHANGED <<listVars, desched, userVars, locals>>

(* Mutant: the rover stays on a thread that leaves the list. *)
ThrlistDelKeepsRover(t) ==
    /\ At(t, "v_del")
    /\ thrlist' = RemoveFirst(thrlist, t)
    /\ Lock(t, t)
    /\ Goto(t, "v_own")
    /\ UNCHANGED <<rover, lastTid, tid, desched, userVars, locals>>

(* Mutant: whoever has found the thread before is not waited for. *)
ThrlistDelAtOnce(t) ==
    /\ At(t, "v_del")
    /\ rover' = IF rover = t THEN List ELSE rover
    /\ thrlist' = RemoveFirst(thrlist, t)
    /\ Goto(t, "v_unlist")
    /\ UNCHANGED <<schedVars, lastTid, tid, mutex, desched, userVars, locals>>

(* Take the thread out of the list, step the rover back, and wait for the  *)
(* thread's own lock.                                                      *)
ThrlistDel(t) ==
    /\ At(t, "v_del")
    /\ rover' = IF rover # t THEN rover
                ELSE IF RoverAt = 1 THEN List ELSE thrlist[RoverAt - 1]
    /\ thrlist' = RemoveFirst(thrlist, t)
    /\ Lock(t, t)
    /\ Goto(t, "v_own")
    /\ UNCHANGED <<lastTid, tid, desched, userVars, locals>>

DelUnlocksThread(t) ==
    /\ At(t, "v_own")
    /\ Unlock(t)
    /\ Goto(t, "v_unlist")
    /\ UNCHANGED <<listVars, desched, userVars, locals>>

DelUnlocksList(t) ==
    /\ At(t, "v_unlist")
    /\ Unlock(List)
    /\ Goto(t, "v_block")
    /\ UNCHANGED <<listVars, desched, userVars, locals>>

VanishBlocks(t) ==
    /\ At(t, "v_block")
    /\ SchedBlock(t)
    /\ Goto(t, "gone")
    /\ UNCHANGED <<listVars, mutex, desched, userVars, locals>>

(* thr_free, called by whoever dies next or waits for the task             *)
(* (Lifecycle): the TCB may be used again.                                 *)
ThrFree(t) ==
    /\ pc[t] = "gone"
    /\ tid' = [tid EXCEPT ![t] = 0]
    /\ word' = [word EXCEPT ![t] = 0]
    /\ mapped' = [mapped EXCEPT ![t] = TRUE]
    /\ Goto(t, "absent")
    /\ UNCHANGED <<schedVars, thrlist, rover, lastTid, mutex, desched, locals>>

-----------------------------------------------------------------------------
Tick ==
    /\ Schedule
    /\ UNCHANGED <<listVars, mutex, desched, userVars, pc, locals>>

DescheduleStep(t) ==
    \/ CheckReject(t) \/ TestFaults(t) \/ TestRejects(t) \/ TestPasses(t)
    \/ Deschedule(t) \/ DescheduleReturns(t)

MakeRunnableStep(t) ==
    \/ FindLocksList(t) \/ FindLocksThread(t) \/ FindFails(t)
    \/ FindUnlocksList(t) \/ TestTarget(t) \/ WakeTarget(t)
    \/ MakeRunnableReturns(t)

ThreadForkStep(t) ==
    \/ AddLocksList(t) \/ AddPastRover(t) \/ AddFromStart(t) \/ AddFails(t)
    \/ AddUnlocksList(t) \/ Launch(t)

VanishStep(t) ==
    \/ DelLocksList(t) \/ ThrlistDel(t) \/ DelUnlocksThread(t)
    \/ DelUnlocksList(t) \/ VanishBlocks(t)

KernelStep(t) ==
    DescheduleStep(t) \/ MakeRunnableStep(t) \/ ThreadForkStep(t) \/ VanishStep(t)

UserStep(t) ==
    \/ ClearWord(t) \/ CallVanish(t)
    \/ \E valid \in BOOLEAN : CallDeschedule(t, valid)
    \/ \E u \in Threads : SetWord(t, u) \/ CallThreadFork(t, u)
    \/ \E n \in 1 .. MaxTid : CallMakeRunnable(t, n) \/ Yield(t, n)

(* A panic, or a store through a NULL thread, ends what can be said.       *)
Stopped == \E t \in Threads : pc[t] \in {"m_null", "f_panic"}

Next ==
    /\ ~Stopped
    /\ \/ Tick
       \/ \E t \in Threads :
            KernelStep(t) \/ UserStep(t) \/ RemovePage(t) \/ ThrFree(t)

Spec == Init /\ [][Next]_vars

(* The timer keeps interrupting; a thread in the kernel that keeps getting *)
(* the CPU keeps executing.                                                *)
FairSpec ==
    /\ Spec
    /\ WF_vars(~Stopped /\ Tick)
    /\ \A t \in Threads : SF_vars(~Stopped /\ KernelStep(t))
-----------------------------------------------------------------------------
(***************************************************************************)
(* Properties.                                                             *)
(***************************************************************************)

PCs == {"out", "absent", "nascent", "gone",
        "d_attrs", "d_test", "d_block", "d_asleep",
        "m_list", "m_find", "m_unlist", "m_test", "m_wake", "m_unlock", "m_null",
        "f_list", "f_add", "f_unlist", "f_launch", "f_panic",
        "v_list", "v_del", "v_own", "v_unlist", "v_block"}

TypeOK ==
    /\ SchedTypeOK
    /\ thrlist \in Seq(Procs)
    /\ rover \in Procs \cup {List}
    /\ lastTid \in 1 .. MaxTid
    /\ tid \in [Procs -> 0 .. MaxTid]
    /\ mutex \in [Locks -> [owner : Threads \cup {None}, queue : Seq(Threads)]]
    /\ desched \in [Procs -> BOOLEAN]
    /\ word \in [Threads -> 0 .. 1]
    /\ mapped \in [Threads -> BOOLEAN]
    /\ pc \in [Threads -> PCs]
    /\ arg \in [Threads -> 0 .. MaxTid]
    /\ ptr \in [Threads -> Procs \cup {None}]

(* The thread list is in strictly ascending order of TIDs, so no TID is    *)
(* given to two threads at a time, also after the TIDs have rolled over    *)
(* and after the rover's thread has died; and the rover stands in the list *)
(* (thread.c:149-179,197-200).                                             *)
TidsAscend ==
    /\ \A i, j \in DOMAIN thrlist : i < j => tid[thrlist[i]] < tid[thrlist[j]]
    /\ rover \in ToSet(thrlist) \cup {List}

(* The run queue holds exactly the runnable threads, each once, the new,   *)
(* the descheduled and the dead among them (sched.c:40-69), the thread     *)
(* list is in order, and the variables have their types.                   *)
Consistent == TypeOK /\ RunqExact /\ TidsAscend

Asleep(t) == pc[t] = "d_asleep" /\ tstate[t] = "BLOCKED"

Waking(u, t) ==
    \/ pc[u] \in {"m_list", "m_find"} /\ arg[u] = tid[t]
    \/ pc[u] \in {"m_unlist", "m_test", "m_wake"} /\ ptr[u] = t

(* No wakeup is lost: a thread that is descheduled although its word has   *)
(* been set is about to be made runnable.  This is what "atomic with       *)
(* respect to calls to make_runnable" buys (threadmgmt.c:56-58).           *)
NoLostWakeup ==
    \A t \in Threads :
        Asleep(t) /\ word[t] # 0 => \E u \in Threads \ {t} : Waking(u, t)

(* A TCB that may be freed is nobody's: it is not in the list, its lock is *)
(* free, and no call still holds a pointer to it that it found before      *)
(* (thread.c:205-207, the "clear thread lock hack").                       *)
GoneIsAlone ==
    \A t \in Threads : pc[t] \in {"gone", "absent"} =>
        /\ t \notin ToSet(thrlist)
        /\ mutex[t] = Free
        /\ \A u \in Threads : ptr[u] # t

(* make_runnable wakes only threads that deschedule has put to sleep:      *)
(* never one that is blocked on a mutex, is not launched yet or is dead    *)
(* (threadmgmt.c:111).                                                     *)
WakesOnlyDescheduled ==
    \A t \in Threads : pc[t] = "m_wake" =>
        ptr[t] \in Threads /\ Asleep(ptr[t])

(* A thread that waits for a lock it owns: it will wait for ever. *)
Wedged ==
    \E t \in Threads : \E m \in Locks :
        mutex[m].owner = t /\ t \in ToSet(mutex[m].queue)

(* A thread that is descheduled and whose word is set runs again, unless   *)
(* the kernel has died or is wedged (see NoSelfWait).                      *)
PostedWaiterRuns ==
    \A t \in Threads :
        (pc[t] = "d_asleep" /\ word[t] # 0)
            ~> (pc[t] # "d_asleep" \/ Stopped \/ Wedged)

(* No thread waits for a lock it owns.  Refuted: the fault on *reject      *)
(* kills a thread that owns its lock, and thrlist_del then waits for it    *)
(* with the thread list locked, so that no thread is created, found or     *)
(* deleted any more.  sys_deschedule says of a bad pointer that "an error  *)
(* code is returned" (threadmgmt.c:55-56).                                 *)
NoSelfWait == ~Wedged

(* make_runnable returns an error for a TID nobody has ("If the thread     *)
(* specified by TID does not exist ... returns an error code",             *)
(* threadmgmt.c:94-97).  Refuted: it unlocks the mutex of a NULL thread.   *)
UnknownTidRefused == \A t \in Threads : pc[t] # "m_null"

(* thrlist_add fails only when every TID is in use ("assigns the thread    *)
(* the lowest available tid", thread.c:119-120).  Refuted: after the       *)
(* roll-over it does not look at the gap in front of the rover.            *)
AddFailsOnlyWhenFull ==
    \A t \in Threads : pc[t] = "f_panic" =>
        {tid[p] : p \in ToSet(thrlist)} = 1 .. MaxTid
=============================================================================
