----------------------------- MODULE Lifecycle -----------------------------
(***************************************************************************)
(* Tasks and threads from fork to the last free (kern/sched/process.c,     *)
(* kern/sched/thread.c, kern/entry/syscall/lifecycle.c): fork,             *)
(* thread_fork, exec, wait and vanish, with the memory each of them        *)
(* allocates, hands over and frees.  A dying thread cannot free the stack  *)
(* it runs on, nor a dying task its page directory, so each is freed by    *)
(* the next one to die in the same place, or by whoever reaps.             *)
(*                                                                         *)
(* The scheduler is abstracted to interleaving: every thread that is not   *)
(* asleep may take the next step.  A mutex is its owner (KMutex has the    *)
(* rest); a section under one mutex is one step, and a step holds a mutex  *)
(* over its end where the code takes a second one or goes on elsewhere.    *)
(* cvar_wait and cvar_broadcast are those of CondVar.  A task's identifier *)
(* stands for its TID: TIDs are not recycled here (see ThreadList).        *)
(***************************************************************************)
EXTENDS SequencesExt, Integers

CONSTANTS Tasks,        \* task structs that can be allocated
          Threads,      \* thread structs that can be allocated
          InitTask,     \* init, which never exits
          InitThread,
          None,
          Failures      \* what may fail: within AllFailures

AllFailures == {"mini", "copy", "exec"}

ASSUME LifecycleAssumption ==
    /\ InitTask \in Tasks /\ InitThread \in Threads
    /\ None \notin Tasks \cup Threads /\ Tasks \cap Threads = {}
    /\ Failures \subseteq AllFailures
    /\ IsFiniteSet(Tasks) /\ IsFiniteSet(Threads)

VARIABLES
    mem,        \* the state of each task struct: Memory
    mini,       \* and of its mini PCB
    tcb,        \* and of each thread struct, its kernel stack included
    tk,         \* the fields of the task structs
    of,         \* thread -> task_info
    listed,     \* task_list
    listLock,   \* task_list_lock
    thrlist,    \* thread_list
    pc,
    ptr         \* the struct a thread's system call works on

memVars == <<mem, mini, tcb>>
vars == <<memVars, tk, of, listed, listLock, thrlist, pc, ptr>>

Memory == {"unused", "alloc", "freed"}

NewTask(p) ==
    [parent |-> p, num |-> 1, live |-> 0, dead |-> <<>>, waiters |-> {},
     dtask |-> None, dthr |-> None, lock |-> None, vm |-> TRUE]

Init ==
    /\ mem = [k \in Tasks |-> IF k = InitTask THEN "alloc" ELSE "unused"]
    /\ mini = mem
    /\ tcb = [t \in Threads |-> IF t = InitThread THEN "alloc" ELSE "unused"]
    /\ tk = [k \in Tasks |-> NewTask(None)]
    /\ of = [t \in Threads |-> IF t = InitThread THEN InitTask ELSE None]
    /\ listed = {InitTask} /\ listLock = None
    /\ thrlist = {InitThread}
    /\ pc = [t \in Threads |-> IF t = InitThread THEN "user" ELSE "unused"]
    /\ ptr = [t \in Threads |-> None]

Goto(t, label) == pc' = [pc EXCEPT ![t] = label]

(* t can take its task's lock *)
OwnLockFree(t) == tk[of[t]].lock = None

-----------------------------------------------------------------------------
(* fork *)

(* Only a task with one thread may fork; another returns -2 at once.       *)
ForkCheck(t) ==
    /\ pc[t] = "user" /\ OwnLockFree(t)
    /\ tk[of[t]].num = 1
    /\ Goto(t, "f_init")
    /\ UNCHANGED <<memVars, tk, of, listed, listLock, thrlist, ptr>>

(* task_init and thread_init, up to the task list *)
TaskInit(t) ==
    /\ pc[t] = "f_init"
    /\ \E c \in Tasks, u \in Threads :
          /\ mem[c] = "unused" /\ tcb[u] = "unused"
          /\ mem' = [mem EXCEPT ![c] = "alloc"]
          /\ mini' = [mini EXCEPT ![c] = "alloc"]
          /\ tcb' = [tcb EXCEPT ![u] = "alloc"]
          /\ tk' = [tk EXCEPT ![c] = NewTask(of[t])]
          /\ of' = [of EXCEPT ![u] = c]
          /\ thrlist' = thrlist \cup {u}
          /\ pc' = [pc EXCEPT ![t] = "f_list", ![u] = "nascent"]
          /\ ptr' = [ptr EXCEPT ![t] = c]
    /\ UNCHANGED <<listed, listLock>>

(* No memory for the mini PCB: the thread struct is freed, but stays in    *)
(* the thread list.                                                        *)
TaskInitFails(t) ==
    /\ "mini" \in Failures
    /\ pc[t] = "f_init"
    /\ \E c \in Tasks, u \in Threads :
          /\ mem[c] = "unused" /\ tcb[u] = "unused"
          /\ mem' = [mem EXCEPT ![c] = "freed"]
          /\ tcb' = [tcb EXCEPT ![u] = "freed"]
          /\ thrlist' = thrlist \cup {u}
    /\ Goto(t, "user")
    /\ UNCHANGED <<mini, tk, of, listed, listLock, ptr>>

TaskListAdd(t) ==
    /\ pc[t] = "f_list" /\ listLock = None
    /\ listed' = listed \cup {ptr[t]}
    /\ Goto(t, "f_copy")
    /\ UNCHANGED <<memVars, tk, of, listLock, thrlist, ptr>>

VmCopy(t) ==
    /\ pc[t] = "f_copy"
    /\ \/ Goto(t, "f_child") /\ UNCHANGED mini
       \/ /\ "copy" \in Failures
          /\ mini' = [mini EXCEPT ![ptr[t]] = "freed"]
          /\ Goto(t, "f_undo")
    /\ UNCHANGED <<mem, tcb, tk, of, listed, listLock, thrlist, ptr>>

(* The failed fork: task_free, then task_final, whose assert about the     *)
(* last thread stops the machine (Panicked).                               *)
ForkUndo(t) ==
    /\ pc[t] = "f_undo" /\ listLock = None
    /\ listed' = listed \ {ptr[t]}
    /\ tk' = [tk EXCEPT ![ptr[t]].vm = FALSE]
    /\ Goto(t, "f_final")
    /\ UNCHANGED <<memVars, of, listLock, thrlist, ptr>>

AddChild(t) ==
    /\ pc[t] = "f_child" /\ OwnLockFree(t)
    /\ tk' = [tk EXCEPT ![of[t]].live = @ + 1]
    /\ Goto(t, "f_launch")
    /\ UNCHANGED <<memVars, of, listed, listLock, thrlist, ptr>>

Launch(t) ==
    /\ pc[t] = "f_launch"
    /\ pc' = [u \in Threads |->
                IF u = t \/ (pc[u] = "nascent" /\ of[u] = ptr[t]) THEN "user" ELSE pc[u]]
    /\ ptr' = [ptr EXCEPT ![t] = None]
    /\ UNCHANGED <<memVars, tk, of, listed, listLock, thrlist>>

-----------------------------------------------------------------------------
(* thread_fork *)

ThreadInit(t) ==
    /\ pc[t] = "user" /\ of[t] # InitTask
    /\ \E u \in Threads :
          /\ tcb[u] = "unused"
          /\ tcb' = [tcb EXCEPT ![u] = "alloc"]
          /\ of' = [of EXCEPT ![u] = of[t]]
          /\ thrlist' = thrlist \cup {u}
          /\ pc' = [pc EXCEPT ![t] = "t_count", ![u] = "nascent"]
          /\ ptr' = [ptr EXCEPT ![t] = u]
    /\ UNCHANGED <<mem, mini, tk, listed, listLock>>

AddThread(t) ==
    /\ pc[t] = "t_count" /\ OwnLockFree(t)
    /\ tk' = [tk EXCEPT ![of[t]].num = @ + 1]
    /\ Goto(t, "t_launch")
    /\ UNCHANGED <<memVars, of, listed, listLock, thrlist, ptr>>

ThreadLaunch(t) ==
    /\ pc[t] = "t_launch"
    /\ pc' = [pc EXCEPT ![t] = "user", ![ptr[t]] = "user"]
    /\ ptr' = [ptr EXCEPT ![t] = None]
    /\ UNCHANGED <<memVars, tk, of, listed, listLock, thrlist>>

-----------------------------------------------------------------------------
(* exec: the old address space is gone before the new one is known to load *)

ExecCheck(t) ==
    /\ pc[t] = "user" /\ OwnLockFree(t)
    /\ tk[of[t]].num = 1
    /\ tk' = [tk EXCEPT ![of[t]].vm = FALSE]
    /\ Goto(t, "e_load")
    /\ UNCHANGED <<memVars, of, listed, listLock, thrlist, ptr>>

ExecLoad(t) ==
    /\ pc[t] = "e_load"
    /\ \/ tk' = [tk EXCEPT ![of[t]].vm = TRUE]
       \/ "exec" \in Failures /\ UNCHANGED tk
    /\ Goto(t, "user")
    /\ UNCHANGED <<memVars, of, listed, listLock, thrlist, ptr>>

-----------------------------------------------------------------------------
(* task_final(k), which does nothing when there is no k.                   *)

FinalMem(k) == IF k = None THEN mem ELSE [mem EXCEPT ![k] = "freed"]

FinalTcb(k) == IF k = None THEN tcb ELSE [tcb EXCEPT ![tk[k].dthr] = "freed"]

-----------------------------------------------------------------------------
(* vanish *)

ThrlistDel(t) ==
    /\ pc[t] = "user" /\ of[t] # InitTask
    /\ thrlist' = thrlist \ {t}
    /\ Goto(t, "v_thread")
    /\ UNCHANGED <<memVars, tk, of, listed, listLock, ptr>>

(* Mutant: the last thread keeps the lock as the others do. *)
DelThreadKeepsLock(t) ==
    LET k == of[t]
        last == tk[k].num = 1
    IN  /\ pc[t] = "v_thread" /\ tk[k].lock = None
        /\ tcb' = IF tk[k].dthr = None THEN tcb ELSE [tcb EXCEPT ![tk[k].dthr] = "freed"]
        /\ tk' = [tk EXCEPT ![k].dthr = t, ![k].num = @ - 1, ![k].lock = t]
        /\ ptr' = [ptr EXCEPT ![t] = k]
        /\ Goto(t, IF last THEN "v_unlist" ELSE "v_block")
        /\ UNCHANGED <<mem, mini, of, listed, listLock, thrlist>>

(* task_del_thread: the thread that died before is freed.  The last thread *)
(* lets the lock go, another keeps it until it sleeps for ever.            *)
DelThread(t) ==
    LET k == of[t]
        last == tk[k].num = 1
    IN  /\ pc[t] = "v_thread" /\ tk[k].lock = None
        /\ tcb' = IF tk[k].dthr = None THEN tcb ELSE [tcb EXCEPT ![tk[k].dthr] = "freed"]
        /\ tk' = [tk EXCEPT ![k].dthr = t, ![k].num = @ - 1,
                            ![k].lock = IF last THEN None ELSE t]
        /\ ptr' = [ptr EXCEPT ![t] = k]
        /\ Goto(t, IF last THEN "v_unlist" ELSE "v_block")
        /\ UNCHANGED <<mem, mini, of, listed, listLock, thrlist>>

(* task_free: off the task list, under its lock *)
TaskListDel(t) ==
    /\ pc[t] = "v_unlist" /\ listLock = None
    /\ listLock' = t
    /\ listed' = listed \ {of[t]}
    /\ Goto(t, "v_drain")
    /\ UNCHANGED <<memVars, tk, of, thrlist, ptr>>

(* "Let anyone holding your lock go" *)
Drain(t) ==
    /\ pc[t] = "v_drain" /\ OwnLockFree(t)
    /\ listLock' = None
    /\ Goto(t, "v_free")
    /\ UNCHANGED <<memVars, tk, of, listed, thrlist, ptr>>

(* Mutant: the last dead child is left behind. *)
TaskFreeKeeps(t) ==
    LET k == of[t]
    IN  /\ pc[t] = "v_free"
        /\ mini' = [c \in Tasks |-> IF c \in ToSet(tk[k].dead) THEN "freed" ELSE mini[c]]
        /\ tk' = [tk EXCEPT ![k].vm = FALSE, ![k].dead = <<>>]
        /\ Goto(t, "v_find")
        /\ UNCHANGED <<mem, tcb, of, listed, listLock, thrlist, ptr>>

(* the rest of task_free: address space, unreaped children, dead_task *)
TaskFree(t) ==
    LET k == of[t]
    IN  /\ pc[t] = "v_free"
        /\ mini' = [c \in Tasks |-> IF c \in ToSet(tk[k].dead) THEN "freed" ELSE mini[c]]
        /\ mem' = FinalMem(tk[k].dtask)
        /\ tcb' = FinalTcb(tk[k].dtask)
        /\ tk' = [tk EXCEPT ![k].vm = FALSE, ![k].dead = <<>>, ![k].dtask = None]
        /\ Goto(t, "v_find")
        /\ UNCHANGED <<of, listed, listLock, thrlist, ptr>>

(* tasklist_find_and_lock_parent *)
FindParent(t) ==
    /\ pc[t] = "v_find" /\ listLock = None
    /\ listLock' = t
    /\ Goto(t, "v_parent")
    /\ UNCHANGED <<memVars, tk, of, listed, thrlist, ptr>>

Heir(k) == IF tk[k].parent \in listed THEN tk[k].parent ELSE InitTask

LockParent(t) ==
    LET p == Heir(of[t])
    IN  /\ pc[t] = "v_parent" /\ tk[p].lock = None
        /\ tk' = [tk EXCEPT ![p].lock = t]
        /\ ptr' = [ptr EXCEPT ![t] = p]
        /\ listLock' = None
        /\ Goto(t, "v_child")
        /\ UNCHANGED <<memVars, of, listed, thrlist>>

(* Mutant: init's count goes down for children it did not fork. *)
DelChildAnyFamily(t) ==
    LET k == of[t]
        p == ptr[t]
    IN  /\ pc[t] = "v_child"
        /\ mem' = FinalMem(tk[p].dtask)
        /\ tcb' = FinalTcb(tk[p].dtask)
        /\ tk' = [tk EXCEPT ![p].dtask = k, ![p].live = @ - 1,
                            ![p].dead = Append(@, k), ![p].waiters = {}]
        /\ pc' = [u \in Threads |->
                    IF u = t THEN "v_block"
                    ELSE IF u \in tk[p].waiters THEN "w_lock" ELSE pc[u]]
        /\ UNCHANGED <<mini, of, listed, listLock, thrlist, ptr>>

(* Mutant: nobody is told of the death. *)
DelChildSilent(t) ==
    LET k == of[t]
        p == ptr[t]
    IN  /\ pc[t] = "v_child"
        /\ mem' = FinalMem(tk[p].dtask)
        /\ tcb' = FinalTcb(tk[p].dtask)
        /\ tk' = [tk EXCEPT ![p].dtask = k,
                            ![p].live = IF p = tk[k].parent THEN @ - 1 ELSE @,
                            ![p].dead = Append(@, k)]
        /\ Goto(t, "v_block")
        /\ UNCHANGED <<mini, of, listed, listLock, thrlist, ptr>>

(* task_del_child: the task that died there before is freed; the broadcast *)
(* sends everybody who waits back to mutex_lock.                           *)
DelChild(t) ==
    LET k == of[t]
        p == ptr[t]
    IN  /\ pc[t] = "v_child"
        /\ mem' = FinalMem(tk[p].dtask)
        /\ tcb' = FinalTcb(tk[p].dtask)
        /\ tk' = [tk EXCEPT ![p].dtask = k,
                            ![p].live = IF p = tk[k].parent THEN @ - 1 ELSE @,
                            ![p].dead = Append(@, k), ![p].waiters = {}]
        /\ pc' = [u \in Threads |->
                    IF u = t THEN "v_block"
                    ELSE IF u \in tk[p].waiters THEN "w_lock" ELSE pc[u]]
        /\ UNCHANGED <<mini, of, listed, listLock, thrlist, ptr>>

(* Mutant: the lock goes before the thread has stopped. *)
UnlockAndBlockSplit(t) ==
    /\ pc[t] = "v_block"
    /\ \/ /\ tk[ptr[t]].lock = t
          /\ tk' = [tk EXCEPT ![ptr[t]].lock = None] /\ UNCHANGED pc
       \/ tk[ptr[t]].lock # t /\ Goto(t, "dead") /\ UNCHANGED tk
    /\ UNCHANGED <<memVars, of, listed, listLock, thrlist, ptr>>

(* mutex_unlock_and_block: the last thing a thread does *)
UnlockAndBlock(t) ==
    /\ pc[t] = "v_block"
    /\ tk' = [tk EXCEPT ![ptr[t]].lock = None]
    /\ ptr' = [ptr EXCEPT ![t] = None]
    /\ Goto(t, "dead")
    /\ UNCHANGED <<memVars, of, listed, listLock, thrlist>>

-----------------------------------------------------------------------------
(* wait: task_reap, called from user mode or woken by a broadcast.  The    *)
(* lock is held from the test to its outcome.                              *)

AtReap(t) == pc[t] \in {"user", "w_lock"} /\ OwnLockFree(t)

Reap(t) ==
    LET k == of[t]
        c == Head(tk[k].dead)
    IN  /\ AtReap(t) /\ tk[k].dead # <<>>
        /\ mini' = [mini EXCEPT ![c] = "freed"]
        /\ mem' = FinalMem(tk[k].dtask)
        /\ tcb' = FinalTcb(tk[k].dtask)
        /\ tk' = [tk EXCEPT ![k].dead = Tail(@), ![k].dtask = None]
        /\ Goto(t, "user")
        /\ UNCHANGED <<of, listed, listLock, thrlist, ptr>>

ReapNobody(t) ==
    /\ AtReap(t) /\ tk[of[t]].dead = <<>> /\ tk[of[t]].live = 0
    /\ Goto(t, "user")
    /\ UNCHANGED <<memVars, tk, of, listed, listLock, thrlist, ptr>>

ReapWait(t) ==
    /\ AtReap(t) /\ tk[of[t]].dead = <<>> /\ tk[of[t]].live # 0
    /\ tk' = [tk EXCEPT ![of[t]].waiters = @ \cup {t}]
    /\ Goto(t, "w_asleep")
    /\ UNCHANGED <<memVars, of, listed, listLock, thrlist, ptr>>

-----------------------------------------------------------------------------
ForkStep(t) ==
    \/ TaskInit(t) \/ TaskInitFails(t) \/ TaskListAdd(t) \/ VmCopy(t)
    \/ ForkUndo(t) \/ AddChild(t) \/ Launch(t)

ThreadForkStep(t) == AddThread(t) \/ ThreadLaunch(t)

VanishStep(t) ==
    \/ DelThread(t) \/ TaskListDel(t) \/ Drain(t) \/ TaskFree(t)
    \/ FindParent(t) \/ LockParent(t) \/ DelChild(t) \/ UnlockAndBlock(t)

WaitStep(t) == Reap(t) \/ ReapNobody(t) \/ ReapWait(t)

(* A failed assert ends in panic(): interrupts disabled, an endless loop.  *)
Panicked == \E t \in Threads : pc[t] = "f_final"

(* system calls as user code makes them *)
UserStep(t) == ForkCheck(t) \/ ThreadInit(t) \/ ExecCheck(t) \/ ThrlistDel(t)

InKernel(t) ==
    ForkStep(t) \/ ThreadForkStep(t) \/ ExecLoad(t) \/ VanishStep(t) \/ WaitStep(t)

Next == ~Panicked /\ \E t \in Threads : UserStep(t) \/ InKernel(t)

Spec == Init /\ [][Next]_vars

-----------------------------------------------------------------------------
(***************************************************************************)
(* Properties.                                                             *)
(***************************************************************************)

PCs == {"unused", "nascent", "user", "dead", "f_init", "f_list", "f_copy",
        "f_undo", "f_final", "f_child", "f_launch", "t_count", "t_launch",
        "e_load", "v_thread", "v_unlist", "v_drain", "v_free", "v_find",
        "v_parent", "v_child", "v_block", "w_lock", "w_asleep"}

TypeOK ==
    /\ mem \in [Tasks -> Memory] /\ mini \in [Tasks -> Memory]
    /\ tcb \in [Threads -> Memory]
    /\ \A k \in Tasks :
          /\ tk[k].parent \in Tasks \cup {None}
          /\ tk[k].num \in 0 .. Cardinality(Threads)
          /\ tk[k].live \in 0 .. Cardinality(Tasks)
          /\ tk[k].dead \in Seq(Tasks)
          /\ tk[k].waiters \subseteq Threads
          /\ tk[k].dtask \in Tasks \cup {None}
          /\ tk[k].dthr \in Threads \cup {None}
          /\ tk[k].lock \in Threads \cup {None}
          /\ tk[k].vm \in BOOLEAN
    /\ of \in [Threads -> Tasks \cup {None}]
    /\ listed \subseteq Tasks /\ listLock \in Threads \cup {None}
    /\ thrlist \subseteq Threads
    /\ pc \in [Threads -> PCs]
    /\ ptr \in [Threads -> Tasks \cup Threads \cup {None}]

Running(t) == pc[t] \notin {"unused", "dead"}

Live(k) == mem[k] = "alloc"

(* Nobody uses what was freed: a thread that can still run has its stack   *)
(* and its task, a task on the list has its struct and its mini PCB, the   *)
(* threads on the thread list exist, and no struct that is in use points   *)
(* to one that was freed (process.c:118-123,169-171,222-225,299-302).      *)
(* What a failed fork leaves behind is the subject of ListsHoldLive.       *)
ForkUndone(k) == \E t \in Threads : pc[t] = "f_undo" /\ ptr[t] = k

NoUseAfterFree ==
    /\ \A t \in Threads : Running(t) => tcb[t] = "alloc" /\ Live(of[t])
    /\ \A k \in listed : Live(k) /\ (mini[k] = "alloc" \/ ForkUndone(k))
    /\ \A t \in thrlist : of[t] # None => tcb[t] = "alloc"
    /\ \A k \in Tasks : Live(k) =>
          /\ tk[k].dtask # None => Live(tk[k].dtask)
          /\ tk[k].dthr # None => tcb[tk[k].dthr] = "alloc"
          /\ \A i \in DOMAIN tk[k].dead : mini[tk[k].dead[i]] = "alloc"
          /\ \A w \in tk[k].waiters : pc[w] = "w_asleep"
    /\ \A t \in Threads : pc[t] \in {"v_child", "v_block"} => Live(ptr[t])

(* Nothing leaks: a thread that is dead and not freed will be freed by its *)
(* task, a dead task by the one that holds it as dead_task, and the mini   *)
(* PCB of a dead task waits to be reaped in exactly one queue.             *)
NothingLeaks ==
    /\ \A t \in Threads : pc[t] = "dead" /\ tcb[t] = "alloc" =>
          tk[of[t]].dthr = t /\ Live(of[t])
    /\ \A k \in Tasks :
          Live(k) /\ (\A t \in Threads : of[t] = k => pc[t] = "dead") =>
             \E p \in Tasks : Live(p) /\ tk[p].dtask = k
    /\ \A k \in Tasks :
          mini[k] = "alloc" /\ (\A t \in Threads : of[t] = k => pc[t] = "dead") =>
             Cardinality({p \in Tasks : Live(p) /\ k \in ToSet(tk[p].dead)}) = 1

(* The asserts of mutex_final and task_final when a task is torn down      *)
(* (mutex.c:130-132, process.c:247,250): nobody has or wants the lock of a *)
(* dying task, and the task somebody frees has freed its own last child    *)
(* and kept its last thread.                                               *)
Frees(t) == pc[t] \in {"v_free", "v_child"}

Freed(t) == IF pc[t] = "v_free" THEN tk[of[t]].dtask ELSE tk[ptr[t]].dtask

TeardownAsserts ==
    /\ \A t \in Threads : pc[t] = "v_free" =>
          /\ tk[of[t]].lock = None
          /\ \A u \in Threads \ {t} : of[u] = of[t] => pc[u] = "dead"
    /\ \A t \in Threads : Frees(t) /\ Freed(t) # None =>
          tk[Freed(t)].dtask = None /\ tk[Freed(t)].dthr # None

(* The same assert of task_final on the path of a fork that failed.        *)
FailedForkHasLastThread ==
    \A t \in Threads : pc[t] = "f_final" => tk[ptr[t]].dthr # None

(* live_children counts the children that were forked and have not yet     *)
(* reported their death here, and num_threads the threads that were forked *)
(* and have not yet deleted themselves: what decides when wait may give up *)
(* and when a task is torn down (process.c:139-141,174,283).               *)
Counted(c) ==
    ~\E t \in Threads : ptr[t] = c /\ pc[t] \in {"f_list", "f_copy", "f_undo", "f_final", "f_child"}

Reported(c) ==
    \E t \in Threads : of[t] = c /\ tk[c].num = 0 /\ pc[t] \in {"v_block", "dead"}
                       /\ tk[c].dthr = t

CountsExact ==
    \A k \in listed :
        /\ tk[k].live =
             Cardinality({c \in Tasks : /\ mem[c] = "alloc" /\ tk[c].parent = k
                                        /\ Counted(c) /\ ~Reported(c)})
        /\ tk[k].num =
             Cardinality({t \in Threads :
                /\ of[t] = k /\ pc[t] \notin {"dead", "v_unlist", "v_drain", "v_block"}
                /\ ~\E u \in Threads : ptr[u] = t /\ pc[u] = "t_count"})

(* The counts are exact in every interleaving of births and deaths, never  *)
(* below zero, and the variables have their types (process.c:139-183).     *)
(* The asserts of the teardown hold as well.                               *)
Consistent == TypeOK /\ CountsExact /\ TeardownAsserts

(* Who has what t waits for: a mutex that t is about to take.              *)
Blocks(t) ==
    CASE pc[t] \in {"f_list", "f_undo", "v_unlist", "v_find"} -> listLock
      [] pc[t] \in {"f_child", "t_count", "v_thread", "v_drain", "w_lock"} -> tk[of[t]].lock
      [] pc[t] = "v_parent" -> tk[Heir(of[t])].lock
      [] OTHER -> None

(* The locks of the task list, of parents and of children are never waited *)
(* for in a circle (process.c:350-363,379-405), and who has one will get   *)
(* to give it back: it is not dead, asleep in wait or in user mode.        *)
NoLockCycle ==
    /\ ~\E S \in (SUBSET Threads) \ {{}} : \A t \in S : Blocks(t) \in S
    /\ \A t \in Threads :
          listLock = t \/ (\E k \in listed : tk[k].lock = t) =>
              pc[t] \notin {"unused", "nascent", "user", "w_asleep", "dead"}

(* A thread that sleeps in wait has a child to wait for and none to reap:  *)
(* no death goes unnoticed, whichever thread of the task reaps it          *)
(* (process.c:280-290).                                                    *)
NoDeathUnnoticed ==
    \A k \in Tasks : Live(k) /\ tk[k].waiters # {} => tk[k].dead = <<>> /\ tk[k].live > 0

(* The lists hold what exists, after a failed fork too: the thread list    *)
(* threads (NoUseAfterFree says so of the others), the task list tasks     *)
(* with the mini PCB their list entry and TID are part of.                 *)
ListsHoldLive ==
    /\ \A t \in thrlist : tcb[t] = "alloc"
    /\ \A k \in listed : mini[k] = "alloc"

(* A task in user mode has an address space, also when exec has failed.    *)
UserHasMemory == \A t \in Threads : pc[t] = "user" => tk[of[t]].vm
=============================================================================
