----------------------------- MODULE SleepTimer -----------------------------
(***************************************************************************)
(* sleep() and the timer (kern/entry/syscall/threadmgmt.c sys_sleep,       *)
(* kern/entry/drivers/timer.c) on the scheduler (Sched).  `ticks' is an    *)
(* unsigned counter of W values: 2^32 in the code.  The tick count is read *)
(* in one section with interrupts disabled and used in another, and any    *)
(* number of ticks may pass between them.                                  *)
(***************************************************************************)
EXTENDS Sched

CONSTANTS W,            \* values of the tick counter
          SleepArgs     \* the arguments of sleep() that are tried: 0 and
                        \* negative values return at once

ASSUME WidthAssumption ==
    /\ W \in Nat \ {0}
    /\ SleepArgs \subseteq Nat \ {0}
    /\ \A n \in SleepArgs : 2 * n < W       \* int is half of unsigned int

VARIABLES
    ticks,
    slist,          \* sleep_list: records [thread, wake], the head first
    spc,
    arg, time,      \* locals of sys_sleep, 0 outside it
    since           \* history: ticks since the call read the tick count,
                    \* counted up to W

locals == <<arg, time>>
sleepVars == <<schedVars, ticks, slist, spc, locals, since>>

SleepInit ==
    /\ runq \in {Append(s, Idle) : s \in SetToSeqs(Threads)}
    /\ tstate = [p \in Procs |-> "RUNNABLE"]
    /\ curr = Idle
    /\ ticks = 0 /\ slist = <<>>
    /\ spc = [t \in Threads |-> "out"]
    /\ arg = [t \in Threads |-> 0]
    /\ time = [t \in Threads |-> 0]
    /\ since = [t \in Threads |-> 0]

SleepAt(t, label) == curr = t /\ spc[t] = label

SleepGoto(t, label) == spc' = [spc EXCEPT ![t] = label]

(* How many entries from the head of the list are due at `now': both loops *)
(* over the list stop at the first entry that is later.                    *)
LeadingDue(now) ==
    Cardinality({i \in DOMAIN slist : \A j \in 1 .. i : slist[j].wake <= now})

-----------------------------------------------------------------------------
(* sys_sleep *)

CallSleep(t, n) ==
    /\ SleepAt(t, "out")
    /\ arg' = [arg EXCEPT ![t] = n]
    /\ SleepGoto(t, "read")
    /\ UNCHANGED <<schedVars, ticks, slist, time, since>>

(* Mutant: the tick that is under way is counted as a whole one. *)
ReadTicksLess(t) ==
    /\ SleepAt(t, "read")
    /\ time' = [time EXCEPT ![t] = (ticks + W - 1) % W]
    /\ SleepGoto(t, "insert")
    /\ UNCHANGED <<schedVars, ticks, slist, arg, since>>

ReadTicks(t) ==
    /\ SleepAt(t, "read")
    /\ time' = [time EXCEPT ![t] = ticks]
    /\ SleepGoto(t, "insert")
    /\ UNCHANGED <<schedVars, ticks, slist, arg, since>>

WakeTime(t) == (time[t] + arg[t]) % W

Entry(t) == [thread |-> t, wake |-> WakeTime(t)]

(* Mutant: the entry goes to the back of the list, not to its place. *)
GoToSleepLast(t) ==
    /\ SleepAt(t, "insert")
    /\ slist' = Append(slist, Entry(t))
    /\ SchedBlock(t)
    /\ SleepGoto(t, "asleep")
    /\ UNCHANGED <<ticks, locals, since>>

(* Mutant: interrupts are enabled between the insertion and the block. *)
GoToSleepSplit(t) ==
    /\ SleepAt(t, "insert")
    /\ \/ /\ \A i \in DOMAIN slist : slist[i].thread # t
          /\ slist' = InsertAt(slist, LeadingDue(WakeTime(t)) + 1, Entry(t))
          /\ UNCHANGED <<schedVars, spc>>
       \/ /\ \E i \in DOMAIN slist : slist[i].thread = t
          /\ SchedBlock(t)
          /\ SleepGoto(t, "asleep")
          /\ UNCHANGED slist
    /\ UNCHANGED <<ticks, locals, since>>

(* go_to_sleep: insertion and block are one section *)
GoToSleep(t) ==
    /\ SleepAt(t, "insert")
    /\ slist' = InsertAt(slist, LeadingDue(WakeTime(t)) + 1, Entry(t))
    /\ SchedBlock(t)
    /\ SleepGoto(t, "asleep")
    /\ UNCHANGED <<ticks, locals, since>>

Return(t) ==
    /\ SleepAt(t, "asleep")
    /\ arg' = [arg EXCEPT ![t] = 0]
    /\ time' = [time EXCEPT ![t] = 0]
    /\ since' = [since EXCEPT ![t] = 0]
    /\ SleepGoto(t, "out")
    /\ UNCHANGED <<schedVars, ticks, slist>>

-----------------------------------------------------------------------------
(* tmr_int_handler *)

(* Mutant: the sleepers leave the list but not all enter the run queue. *)
WakeUpLast(now) ==
    LET n == LeadingDue(now)
        woken == IF n = 0 THEN <<>> ELSE <<slist[n].thread>>
    IN  /\ slist' = SubSeq(slist, n + 1, Len(slist))
        /\ tstate' = [p \in Procs |->
                        IF p \in ToSet(woken) THEN "RUNNABLE" ELSE tstate[p]]
        /\ ScheduleUnprotected(woken \o runq)

(* wake_up(now), then schedule_unprotected: each sleeper that is due       *)
(* enters the run queue at its head.                                       *)
WakeUp(now) ==
    LET n == LeadingDue(now)
        woken == [i \in 1 .. n |-> slist[i].thread]
    IN  /\ slist' = SubSeq(slist, n + 1, Len(slist))
        /\ tstate' = [p \in Procs |->
                        IF p \in ToSet(woken) THEN "RUNNABLE" ELSE tstate[p]]
        /\ ScheduleUnprotected(Reverse(woken) \o runq)

NextTick == (ticks + 1) % W

TimerTick ==
    /\ ticks' = NextTick
    /\ WakeUp(ticks')
    /\ since' = [t \in Threads |-> IF spc[t] \in {"insert", "asleep"} /\ since[t] < W
                                   THEN since[t] + 1 ELSE since[t]]
    /\ UNCHANGED <<spc, locals>>

SleepStep(t) == ReadTicks(t) \/ GoToSleep(t) \/ Return(t)

SleepNext ==
    \/ TimerTick
    \/ \E t \in Threads : SleepStep(t) \/ \E n \in SleepArgs : CallSleep(t, n)

SleepSpec == SleepInit /\ [][SleepNext]_sleepVars

(* The timer keeps interrupting; a thread that keeps getting the CPU       *)
(* keeps executing.                                                        *)
FairSleepSpec ==
    SleepSpec /\ WF_sleepVars(TimerTick) /\ \A t \in Threads : SF_sleepVars(SleepStep(t))

-----------------------------------------------------------------------------
(***************************************************************************)
(* Properties.                                                             *)
(***************************************************************************)

SleepTypes ==
    /\ SchedTypeOK
    /\ ticks \in 0 .. W - 1
    /\ slist \in Seq([thread : Threads, wake : 0 .. W - 1])
    /\ spc \in [Threads -> {"out", "read", "insert", "asleep"}]
    /\ arg \in [Threads -> SleepArgs \cup {0}]
    /\ time \in [Threads -> 0 .. W - 1]
    /\ since \in [Threads -> 0 .. W]

Listed(t) == \E i \in DOMAIN slist : slist[i].thread = t

(* The list holds exactly the threads that sleep and are blocked, each     *)
(* once: an entry lives on the sleeper's stack (timer.c:43-49), so a       *)
(* thread that runs while listed would leave a dangling entry, and one     *)
(* that is blocked and not listed would never run again.                   *)
SleepersListed ==
    /\ \A i, j \in DOMAIN slist : slist[i].thread = slist[j].thread => i = j
    /\ \A t \in Threads : Listed(t) <=> (spc[t] = "asleep" /\ tstate[t] = "BLOCKED")

(* The run queue and the sleep list are exact, although sleep and the      *)
(* timer edit them from both sides, and the variables have their types.    *)
SleepConsistent == SleepTypes /\ RunqExact /\ SleepersListed

(* The tick counter did not wrap between the read and now, nor would it    *)
(* before the wake time.                                                   *)
NoWrap(t) == time[t] + since[t] < W /\ time[t] + arg[t] < W

Woken(t) == spc[t] = "asleep" /\ tstate[t] = "RUNNABLE"

(* A thread is not woken before the ticks it asked for have passed.        *)
NeverEarly == \A t \in Threads : Woken(t) /\ NoWrap(t) => since[t] >= arg[t]

(* The same with no proviso about the counter: what the comment of         *)
(* sys_sleep says (threadmgmt.c:135-137, "put to sleep until ticks timer   *)
(* interrupts have occurred").                                             *)
SleepsAllTicks == \A t \in Threads : Woken(t) => since[t] >= arg[t]

(* No tick leaves asleep a thread whose time has come, wherever it is in   *)
(* the list: a thread oversleeps only if it enters the list late, and then *)
(* until the next tick (timer.c:51-56,69-73).                              *)
TickWakesAllDue ==
    [][ticks' # ticks =>
         \A t \in Threads :
            Listed(t) /\ (Listed(t) /\ NoWrap(t))' => since'[t] < arg[t]]_sleepVars

(* Every sleeper returns in the end, even if the counter wraps.            *)
EverySleeperReturns == \A t \in Threads : (spc[t] = "asleep") ~> (spc[t] = "out")
=============================================================================
