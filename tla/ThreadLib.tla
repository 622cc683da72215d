----------------------------- MODULE ThreadLib -----------------------------
(***************************************************************************)
(* The user thread library: creation, exit and join (libthread/thread.c),  *)
(* the TCBs and their list (tcb.c) and the stacks that are used again      *)
(* (stack_alloc.c, asm_thr.S).                                             *)
(*                                                                         *)
(* The locks are what module UserSync shows a user mutex to be.  A section *)
(* under the list's, the stacks' or malloc's lock is one step.  The lock   *)
(* of a TCB is kept: exit and join meet in it, and free it.                *)
(*                                                                         *)
(* A TCB and a stack entry are named after their thread; a thread lives    *)
(* once.  A fault ends its thread alone, without thr_exit, the root        *)
(* thread's too: its handler and panic return, for sys_task_vanish does    *)
(* nothing, and the handler's return address faults in turn.               *)
(*                                                                         *)
(* Callers join a TID that thr_create has returned to somebody, once, and  *)
(* never the root thread's, whose TCB is not on the heap.                  *)
(***************************************************************************)
EXTENDS SequencesExt, Integers

CONSTANTS Threads,
          Main,         \* the thread that called thr_init
          None,
          Failures,     \* which of "pages", "malloc", "fork" may fail
          MaxStacks     \* how many stacks fit below the root thread's

ASSUME ThreadLibAssumption ==
    /\ IsFiniteSet(Threads)
    /\ Main \in Threads /\ None \notin Threads
    /\ Failures \subseteq {"pages", "malloc", "fork"}
    /\ MaxStacks \in Nat

VARIABLES
    mem,        \* the memory of a TCB: "none", "live" or "freed"
    state,      \* tcb->state
    tidset,     \* whether tcb->tid has been written
    joinp,      \* tcb->joinp
    reject,     \* tcb->reject
    lock,       \* tcb->lock: its owner and its queue
    thrlist,    \* the TCBs on thread_list
    stack,      \* tcb->stack; 0 is the root thread's
    mapped,     \* the stacks whose pages are mapped
    slist,      \* stack_list: who made the entries, first to last
    sbase,      \* the entries' data, 0 for NULL
    spindex,    \* sp_index
    asleep,     \* the descheduled threads
    pc,
    other,      \* the thread that is being created or joined
    claimed     \* the threads that somebody has called thr_join for

tcbVars == <<mem, state, tidset, joinp, reject, lock, thrlist>>
stackVars == <<stack, mapped, slist, sbase, spindex>>
callVars == <<asleep, other, claimed>>
vars == <<tcbVars, stackVars, callVars, pc>>

Children == Threads \ {Main}

At(t, label) == pc[t] = label /\ t \notin asleep

Goto(t, label) == pc' = [pc EXCEPT ![t] = label]

Unlocked == [owner |-> None, queue |-> <<>>]

(* thr_init *)
Init ==
    /\ mem = [t \in Threads |-> IF t = Main THEN "live" ELSE "none"]
    /\ state = [t \in Threads |-> "NASCENT"]
    /\ tidset = [t \in Threads |-> t = Main]
    /\ joinp = [t \in Threads |-> None]
    /\ reject = [t \in Threads |-> None]
    /\ lock = [t \in Threads |-> Unlocked]
    /\ thrlist = {Main}
    /\ stack = [t \in Threads |-> 0]
    /\ mapped = {} /\ slist = <<>> /\ spindex = 1
    /\ sbase = [t \in Threads |-> 0]
    /\ asleep = {} /\ claimed = {}
    /\ pc = [t \in Threads |-> IF t = Main THEN "run" ELSE "unborn"]
    /\ other = [t \in Threads |-> None]

(* A fault: the thread is gone, with all that it has. *)
Killed(t) ==
    /\ Goto(t, "killed")
    /\ UNCHANGED <<tcbVars, stackVars, callVars>>

(* A fault of the program, and what thr_join comes to for a TID that has   *)
(* no TCB: it locks the mutex of NULL before it looks.                     *)
Crash(t) == At(t, "run") /\ Killed(t)

-----------------------------------------------------------------------------
(* mutex_lock and mutex_unlock of a TCB's lock: ask for it, go on once it  *)
(* is held.                                                                *)

TcbLock(t, u) ==
    lock' = [lock EXCEPT ![u] =
               IF @.owner = None THEN [owner |-> t, queue |-> @.queue]
               ELSE [owner |-> @.owner, queue |-> Append(@.queue, t)]]

Holds(t, label, u) == At(t, label) /\ lock[u].owner = t

TcbUnlock(u) ==
    lock' = [lock EXCEPT ![u] =
               IF @.queue = <<>> THEN Unlocked
               ELSE [owner |-> Head(@.queue), queue |-> Tail(@.queue)]]

-----------------------------------------------------------------------------
(* stack_alloc *)

(* the entries of the free list whose owners have let their stacks go *)
Usable == {u \in ToSet(slist) : sbase[u] # 0}

FirstUsable == slist[Min({i \in DOMAIN slist : slist[i] \in Usable})]

Extract(e) ==
    /\ slist' = RemoveFirst(slist, e)
    /\ sbase' = [sbase EXCEPT ![e] = 0]

(* Mutant: a placeholder is taken for a stack that is free. *)
FromListEager(c) ==
    /\ slist # <<>>
    /\ stack' = [stack EXCEPT ![c] = stack[Head(slist)]]
    /\ mapped' = mapped \cup {stack[Head(slist)]}
    /\ Extract(Head(slist))
    /\ UNCHANGED spindex

FromList(c) ==
    /\ Usable # {}
    /\ stack' = [stack EXCEPT ![c] = sbase[FirstUsable]]
    /\ mapped' = mapped \cup {sbase[FirstUsable]}
    /\ Extract(FirstUsable)
    /\ UNCHANGED spindex

(* alloc_from_list returns NULL: the entry whose new_pages has failed is   *)
(* nobody's any more.                                                      *)
NotFromList ==
    \/ Usable = {} /\ UNCHANGED <<slist, sbase>>
    \/ "pages" \in Failures /\ Usable # {} /\ Extract(FirstUsable)

NewStack(c) ==
    /\ spindex <= MaxStacks
    /\ stack' = [stack EXCEPT ![c] = spindex]
    /\ mapped' = mapped \cup {spindex}
    /\ spindex' = spindex + 1

AllocStack(c) == FromList(c) \/ (NotFromList /\ NewStack(c))

AllocFails ==
    /\ NotFromList
    /\ "pages" \in Failures \/ spindex > MaxStacks
    /\ UNCHANGED <<stack, mapped, spindex>>

-----------------------------------------------------------------------------
(* thr_create *)

(* The child is chosen when the first thing is done for it. *)
CreateStack(t) ==
    /\ At(t, "run")
    /\ \/ /\ AllocFails
          /\ UNCHANGED <<pc, other>>
       \/ \E c \in Children :
              /\ pc[c] = "unborn"
              /\ AllocStack(c)
              /\ pc' = [pc EXCEPT ![t] = "new_tcb", ![c] = "reserved"]
              /\ other' = [other EXCEPT ![t] = c]
    /\ UNCHANGED <<tcbVars, asleep, claimed>>

(* malloc, tcb_init and thrlist_add *)
CreateTcb(t) ==
    LET c == other[t]
    IN /\ At(t, "new_tcb")
       /\ mem' = [mem EXCEPT ![c] = "live"]
       /\ thrlist' = thrlist \cup {c}
       /\ Goto(t, "fork")
       /\ UNCHANGED <<state, tidset, joinp, reject, lock, stackVars, callVars>>

(* Both ways of giving up remove the pages and forget where they were. *)
GiveUp(t, label) ==
    LET c == other[t]
    IN /\ mapped' = mapped \ {stack[c]}
       /\ stack' = [stack EXCEPT ![c] = 0]
       /\ pc' = [pc EXCEPT ![t] = "run", ![c] = label]
       /\ other' = [other EXCEPT ![t] = None]
       /\ UNCHANGED <<state, tidset, joinp, reject, lock, thrlist, slist, sbase,
                      spindex, asleep, claimed>>

CreateNoTcb(t) ==
    /\ At(t, "new_tcb") /\ "malloc" \in Failures
    /\ GiveUp(t, "unborn")
    /\ UNCHANGED mem

CreateFork(t) ==
    /\ At(t, "fork")
    /\ pc' = [pc EXCEPT ![t] = "set_tid", ![other[t]] = "born"]
    /\ UNCHANGED <<tcbVars, stackVars, callVars>>

(* The TCB is freed and stays on the list. *)
CreateNoFork(t) ==
    /\ At(t, "fork") /\ "fork" \in Failures
    /\ GiveUp(t, "unforked")
    /\ mem' = [mem EXCEPT ![other[t]] = "freed"]

SetTid(t, c, next) ==
    /\ tidset' = [tidset EXCEPT ![c] = TRUE]
    /\ Goto(t, next)
    /\ UNCHANGED <<mem, state, joinp, reject, lock, thrlist, stackVars, callVars>>

(* Mutant: the state is set whatever it is. *)
PlainStore(c) == state' = [state EXCEPT ![c] = "ACTIVE"]

(* compare_and_swap(&tcb->state, THR_NASCENT, THR_ACTIVE) *)
Activate(c) ==
    state' = [state EXCEPT ![c] = IF @ = "NASCENT" THEN "ACTIVE" ELSE @]

CreateTid(t) == At(t, "set_tid") /\ SetTid(t, other[t], "set_state")

CreateReturn(t) ==
    /\ At(t, "set_state")
    /\ Activate(other[t])
    /\ other' = [other EXCEPT ![t] = None]
    /\ Goto(t, "run")
    /\ UNCHANGED <<mem, tidset, joinp, reject, lock, thrlist, stackVars,
                   asleep, claimed>>

(* Mutant: the child leaves its TID to its creator. *)
ChildTidLazy(t) ==
    /\ At(t, "born")
    /\ Goto(t, "child_state")
    /\ UNCHANGED <<tcbVars, stackVars, callVars>>

(* child_init *)
ChildTid(t) ==
    /\ At(t, "born")
    /\ \/ state[t] = "NASCENT" /\ SetTid(t, t, "child_state")
       \/ /\ state[t] # "NASCENT"
          /\ Goto(t, "child_state")
          /\ UNCHANGED <<tcbVars, stackVars, callVars>>

ChildState(t) ==
    /\ At(t, "child_state")
    /\ Activate(t)
    /\ Goto(t, "run")
    /\ UNCHANGED <<mem, tidset, joinp, reject, lock, thrlist, stackVars, callVars>>

-----------------------------------------------------------------------------
(* thr_exit *)

(* Mutant: the state is set before the TCB is locked. *)
CallExitEarly(t) ==
    /\ At(t, "run")
    /\ TcbLock(t, t)
    /\ state' = [state EXCEPT ![t] = "EXITED"]
    /\ Goto(t, "exit")
    /\ UNCHANGED <<mem, tidset, joinp, reject, thrlist, stackVars, callVars>>

CallExit(t) ==
    /\ At(t, "run")
    /\ TcbLock(t, t)
    /\ Goto(t, "exit")
    /\ UNCHANGED <<mem, state, tidset, joinp, reject, thrlist, stackVars, callVars>>

ExitSection(t) ==
    /\ Holds(t, "exit", t)
    /\ state' = [state EXCEPT ![t] = "EXITED"]
    /\ TcbUnlock(t)
    /\ Goto(t, IF joinp[t] # None THEN "post" ELSE "entry")
    /\ UNCHANGED <<mem, tidset, joinp, reject, thrlist, stackVars, callVars>>

ExitPost(t) ==
    /\ At(t, "post")
    /\ reject' = [reject EXCEPT ![joinp[t]] = t]
    /\ Goto(t, "wake")
    /\ UNCHANGED <<mem, state, tidset, joinp, lock, thrlist, stackVars, callVars>>

MakeRunnable(u) == asleep' = asleep \ {u}

(* tcb->joinp->tid is read again.  The joiner may have seen its reject and *)
(* have freed the TCB: it is zero, or holds what it was allocated for.     *)
ExitWake(t) ==
    /\ At(t, "wake")
    /\ \/ /\ \E u \in IF mem[t] = "live" THEN {joinp[t]} ELSE Threads : MakeRunnable(u)
          /\ Goto(t, "entry")
          /\ UNCHANGED <<tcbVars, stackVars, other, claimed>>
       \/ mem[t] = "freed" /\ Killed(t)

(* stack_create_entry *)
ExitEntry(t) ==
    /\ At(t, "entry")
    /\ \/ slist' = <<t>> \o slist
       \/ "malloc" \in Failures /\ UNCHANGED slist
    /\ Goto(t, "remove")
    /\ UNCHANGED <<tcbVars, stack, mapped, sbase, spindex, callVars>>

(* remove_and_vanish: the root thread's stack is not ours to remove *)
ExitRemove(t) ==
    /\ At(t, "remove")
    /\ mapped' = mapped \ {stack[t]}
    /\ Goto(t, IF t = Main THEN "gone" ELSE "give")
    /\ UNCHANGED <<tcbVars, stack, slist, sbase, spindex, callVars>>

(* Without an entry the write to NULL faults, and the thread is gone too. *)
ExitGive(t) ==
    /\ At(t, "give")
    /\ sbase' = [sbase EXCEPT ![t] = IF t \in ToSet(slist) THEN stack[t] ELSE 0]
    /\ Goto(t, "gone")
    /\ UNCHANGED <<tcbVars, stack, mapped, slist, spindex, callVars>>

-----------------------------------------------------------------------------
(* thr_join *)

Joinable == {u \in Children :
    /\ pc[u] \notin {"unborn", "reserved", "unforked"}
    /\ \A t \in Threads : other[t] = u => pc[t] \notin {"set_tid", "set_state"}
    /\ u \notin claimed}

(* The TCB is found; nobody else takes it off the list. *)
CallJoin(t) ==
    /\ At(t, "run")
    /\ \E u \in Joinable \ {t} :
           /\ TcbLock(t, u)
           /\ other' = [other EXCEPT ![t] = u]
           /\ claimed' = claimed \cup {u}
    /\ Goto(t, "join")
    /\ UNCHANGED <<mem, state, tidset, joinp, reject, thrlist, stackVars, asleep>>

JoinExited(t) ==
    /\ Holds(t, "join", other[t])
    /\ state[other[t]] = "EXITED"
    /\ Goto(t, "take")
    /\ UNCHANGED <<tcbVars, stackVars, callVars>>

JoinBlock(t) ==
    LET u == other[t]
    IN /\ Holds(t, "join", u)
       /\ state[u] # "EXITED"
       /\ joinp' = [joinp EXCEPT ![u] = t]
       /\ reject' = [reject EXCEPT ![t] = None]
       /\ TcbUnlock(u)
       /\ Goto(t, "join_wait")
       /\ UNCHANGED <<mem, state, tidset, thrlist, stackVars, callVars>>

(* while (me->reject != tcb->tid) deschedule(&me->reject); tcb_lock(tcb) *)
JoinSleep(t) ==
    /\ At(t, "join_wait") /\ reject[t] = None
    /\ asleep' = asleep \cup {t}
    /\ UNCHANGED <<tcbVars, stackVars, other, claimed, pc>>

JoinWoken(t) ==
    /\ At(t, "join_wait") /\ reject[t] = other[t]
    /\ TcbLock(t, other[t])
    /\ Goto(t, "take")
    /\ UNCHANGED <<mem, state, tidset, joinp, reject, thrlist, stackVars, callVars>>

(* thrlist_del and tcb_unlock *)
JoinTake(t) ==
    /\ Holds(t, "take", other[t])
    /\ thrlist' = thrlist \ {other[t]}
    /\ TcbUnlock(other[t])
    /\ Goto(t, "final")
    /\ UNCHANGED <<mem, state, tidset, joinp, reject, stackVars, callVars>>

(* tcb_final, whose asserts are mutex_destroy's (see Consistent), and free *)
JoinFree(t) ==
    /\ At(t, "final")
    /\ mem' = [mem EXCEPT ![other[t]] = "freed"]
    /\ other' = [other EXCEPT ![t] = None]
    /\ Goto(t, "run")
    /\ UNCHANGED <<state, tidset, joinp, reject, lock, thrlist, stackVars,
                   asleep, claimed>>

-----------------------------------------------------------------------------
Step(t) ==
    \/ CreateTcb(t) \/ CreateNoTcb(t) \/ CreateFork(t) \/ CreateNoFork(t)
    \/ CreateTid(t) \/ CreateReturn(t) \/ ChildTid(t) \/ ChildState(t)
    \/ ExitSection(t) \/ ExitPost(t) \/ ExitWake(t)
    \/ ExitEntry(t) \/ ExitRemove(t) \/ ExitGive(t)
    \/ JoinExited(t) \/ JoinBlock(t) \/ JoinSleep(t) \/ JoinWoken(t)
    \/ JoinTake(t) \/ JoinFree(t)

CallerStep(t) ==
    CreateStack(t) \/ CallExit(t) \/ CallJoin(t) \/ Crash(t)

Next == \E t \in Threads : Step(t) \/ CallerStep(t)

Spec == Init /\ [][Next]_vars

(* Every runnable thread gets the CPU; nobody has to call anything. *)
FairSpec == Spec /\ \A t \in Threads : WF_vars(Step(t))

-----------------------------------------------------------------------------
(* A thread that has not let its stack go. *)
OnStack(t) == t # Main /\ pc[t] \notin {"unborn", "unforked", "give", "gone"}

TypeOK ==
    /\ mem \in [Threads -> {"none", "live", "freed"}]
    /\ state \in [Threads -> {"NASCENT", "ACTIVE", "EXITED"}]
    /\ \A t \in Threads : reject[t] \in Threads \cup {None}
    /\ \A t \in Threads : joinp[t] \in Threads \cup {None}
    /\ mapped \subseteq 1..(spindex - 1)
    /\ IsInjective(slist)

(* The asserts of the library hold (thread.c:151, tcb.c:147,206,           *)
(* mutex.c:122-123 and 51-52), and thr_join finds whom it may be called    *)
(* for (thread.c:193): a thread that runs has its TID in its TCB, and the  *)
(* list names the TCBs that are there, and those of failed forks.          *)
Consistent ==
    /\ TypeOK
    /\ \A t \in Threads : pc[t] \in {"run", "exit"} => tidset[t]
    /\ \A u \in Joinable : u \in thrlist /\ tidset[u]
    /\ \A t \in Threads : pc[t] = "take" => other[t] \in thrlist
    /\ \A t \in Threads : pc[t] = "final" => lock[other[t]] = Unlocked
    /\ \A u \in thrlist : mem[u] = "live" \/ pc[u] = "unforked"

(* Nobody uses a TCB that thr_join has freed, the one exit that reads      *)
(* joinp too late excepted (thread.c:167): not the creator that completes  *)
(* it after the child has started, not the child, the exiting thread, nor  *)
(* the thread it wakes.  The joiner frees it once only, after the status   *)
(* is there.                                                               *)
Touches(t) ==
    (IF pc[t] \in {"born", "child_state", "run", "exit", "post"} THEN {t} ELSE {})
        \cup
    (IF pc[t] \in {"set_tid", "set_state", "join", "join_wait", "take", "final"}
     THEN {other[t]} ELSE {})
        \cup
    (IF pc[t] = "post" THEN {joinp[t]} ELSE {})

NoUseAfterFree ==
    \A t \in Threads :
        /\ \A u \in Touches(t) : mem[u] = "live"
        /\ pc[t] \in {"take", "final"} => state[other[t]] = "EXITED"

(* A stack has one user, whose pages are mapped; a stack that can be taken *)
(* from the list is nobody's, and its pages are gone (stack_alloc.c:61,    *)
(* asm_thr.S:81-84); and the next new one has never been used.             *)
StacksExclusive ==
    /\ \A t \in Threads : OnStack(t) => stack[t] \in mapped
    /\ \A t, u \in Threads : OnStack(t) /\ OnStack(u) /\ t # u => stack[t] # stack[u]
    /\ \A e \in ToSet(slist) : sbase[e] # 0 =>
           /\ sbase[e] \notin mapped
           /\ \A d \in ToSet(slist) \ {e} : sbase[d] # sbase[e]
    /\ \A t \in Threads : stack[t] < spindex

(* Whoever joins a thread that has called thr_exit comes back: the exit    *)
(* does not miss the joiner, and creator and child do not undo the exit    *)
(* (thread.c:128, 162-168, 201-213).                                       *)
JoinReturns ==
    \A t \in Threads, u \in Children :
        /\ other[t] = u /\ pc[t] \in {"join", "join_wait"}
        /\ pc[u] \in {"exit", "post", "wake", "entry", "remove", "give", "gone"}
        ~> pc[t] = "run"
=============================================================================
