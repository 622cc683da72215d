------------------------------- MODULE Sched -------------------------------
(***************************************************************************)
(* The run queue and the scheduler entry points of kern/sched/sched.c, on  *)
(* a uniprocessor.  Code between disable_interrupts() and                  *)
(* enable_interrupts() cannot be preempted, so each sched_* function is    *)
(* one atomic operator here; everything else in the kernel can be          *)
(* interrupted by the timer, which is the action Tick of the modules that  *)
(* extend this one.                                                        *)
(*                                                                         *)
(* The circular list `runnable' is the sequence runq, its head first.      *)
(* curr is curr_thr; tstate is the `state' field of each thread.           *)
(***************************************************************************)
EXTENDS SequencesExt, Integers

CONSTANTS Threads,      \* the threads that run kernel code
          Idle,         \* the idle thread: always runnable
          None          \* the TID -1: no thread

ASSUME SchedAssumption ==
    /\ IsFiniteSet(Threads)
    /\ Idle \notin Threads
    /\ None \notin Threads \cup {Idle}

Procs == Threads \cup {Idle}

VARIABLES runq, tstate, curr

schedVars == <<runq, tstate, curr>>

Runnable == {p \in Procs : tstate[p] = "RUNNABLE"}

-----------------------------------------------------------------------------
(* Run queue manipulation: a thread enters at the HEAD of the queue, and   *)
(* rotation moves it to the back.                                          *)

RqAdd(q, t) == Cons(t, q)

RqDel(q, t) == RemoveFirst(q, t)

RqRotate(q, t) == Append(RqDel(q, t), t)

RqFind(tid) == tid \in ToSet(runq)

(* Mutant: the dispatched thread stays at the head. *)
ScheduleNoRotate(q) ==
    /\ curr' = Head(q)
    /\ runq' = q

(* schedule_unprotected, applied to the queue q the caller left behind:    *)
(* the head goes to the back and is dispatched.                            *)
ScheduleUnprotected(q) ==
    /\ curr' = Head(q)
    /\ runq' = RqRotate(q, Head(q))

(* Mutant: rq_del marks the thread but leaves it in the queue. *)
SchedBlockStays(t) ==
    /\ tstate' = [tstate EXCEPT ![t] = "BLOCKED"]
    /\ ScheduleUnprotected(runq)

SchedBlock(t) ==
    /\ tstate' = [tstate EXCEPT ![t] = "BLOCKED"]
    /\ ScheduleUnprotected(RqDel(runq, t))

SchedUnblock(t) ==
    /\ tstate' = [tstate EXCEPT ![t] = "RUNNABLE"]
    /\ ScheduleUnprotected(RqAdd(runq, t))

SchedAddToRq(t) ==
    /\ tstate' = [tstate EXCEPT ![t] = "RUNNABLE"]
    /\ runq' = RqAdd(runq, t)
    /\ UNCHANGED curr

(* rq_del(curr_thr); rq_add(t); schedule_unprotected(), as the blocking    *)
(* unlock of a mutex does in one section with interrupts disabled.         *)
SchedSwap(b, t) ==
    /\ tstate' = [tstate EXCEPT ![b] = "BLOCKED", ![t] = "RUNNABLE"]
    /\ ScheduleUnprotected(RqAdd(RqDel(runq, b), t))

(* sched_find: the caller moves to the back; the target is dispatched but  *)
(* keeps its own place in the queue.  A target that is not runnable (None  *)
(* included) changes nothing.                                              *)
SchedFind(tid) ==
    IF RqFind(tid)
    THEN /\ runq' = RqRotate(runq, curr)
         /\ curr' = tid
         /\ UNCHANGED tstate
    ELSE UNCHANGED schedVars

(* schedule(), and the timer interrupt when no sleeper is due.             *)
Schedule == ScheduleUnprotected(runq) /\ UNCHANGED tstate

-----------------------------------------------------------------------------
ThreadStates == {"NASCENT", "RUNNABLE", "BLOCKED", "EXITING"}

SchedTypeOK ==
    /\ runq \in Seq(Procs)
    /\ tstate \in [Procs -> ThreadStates]
    /\ curr \in Procs

NoDuplicates(s) == \A i, j \in DOMAIN s : s[i] = s[j] => i = j

(* The run queue holds each RUNNABLE thread exactly once and nothing else, *)
(* and the thread on the CPU is one of them: what the asserts of rq_add,   *)
(* rq_del, rq_rotate and rq_find (sched.c:49,64,65,81,82,101) take for     *)
(* granted about a queue threaded through the TCBs.                        *)
RunqExact ==
    /\ NoDuplicates(runq)
    /\ ToSet(runq) = Runnable
    /\ curr \in Runnable
    /\ Idle \in Runnable
=============================================================================
