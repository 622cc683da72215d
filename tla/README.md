# A verification project for the Pebbles kernel

This directory holds TLA+ models of the kernel and thread library in `../src`
(a uniprocessor x86 kernel in C, written for the Pebbles system call
specification), the TLC runs that check them on small instances, and TLAPS
proofs about the core.  `PROJECT.json` maps every definition to the lines it
stands for.

## 1. The system

| Component | Code | State | Operations |
|---|---|---|---|
| scheduler | `kern/sched/sched.c`, `dispatch.c` | the circular run queue `runnable`, `state` of each thread, `curr_thr` | `schedule`, `sched_block`, `sched_unblock`, `sched_add_to_rq`, `sched_find`, their unprotected halves |
| ticket spinlock | `kern/lib/spin.c` | `ticket`, `turn`, `owner` | lock (yields to the owner), unlock, unlock-and-block |
| kernel mutex | `kern/lib/mutex.c` | spinlock, `state`, `owner`, FIFO queue | lock, unlock with hand-off, unlock-and-block |
| kernel condition variable | `kern/lib/cvar.c` | spinlock, FIFO queue | wait (with or without a mutex), signal, signal_raw, broadcast |
| timer and sleep | `entry/drivers/timer.c`, `sys_sleep` | `ticks`, the ordered `sleep_list` | sleep, the timer interrupt |
| keyboard | `entry/drivers/keyboard.c` | circular buffer, `kbd_state`, `getline_*`, `kbd_lock`, `kbd_wait` | getchar, getline, the interrupt handler |
| tasks and life cycle | `kern/sched/process.c`, `entry/syscall/lifecycle.c` | PCB and mini PCB, `task_list`, counts, `dead_task`, `dead_thr`, `dead_children` | fork, thread_fork, exec, wait, vanish |
| threads, thread list | `kern/sched/thread.c` | TCBs, `thread_list`, rover, last TID | thread_init, thr_free, add, delete, find-and-lock |
| thread management | `entry/syscall/threadmgmt.c` | `desched` flag, thread lock | yield, deschedule, make_runnable |
| virtual memory | `kern/vm/*` | regions, page directories and tables, the implicit free list, `fr_avail` | alloc, free, copy, final, page fault |
| console | `console.c`, `cursor.c`, `console_io.c` | cursor, colour, `console_lock` | putbyte, print, set/get cursor and colour |
| system call utilities, swexn, faults, IDT, loader, boot | `sc_utils.c`, `misc_syscalls.c`, `faults.c`, `idt.c`, `loader/`, `kernel.c` | the task lock; per-thread handlers | sequential code |
| user library | `user/libthread`, `libautostack`, `libsyscall` | mutex, cond, sem, rwlock, TCB list, free stacks | on top of deschedule, make_runnable and thread_fork |

**How they interact.**  Everything rests on the scheduler: the spinlock yields
through `sched_find`, mutex and condition variable block and wake through
`sched_block`/`sched_unblock`, and `mutex_unlock_and_block` edits the run queue
itself in a section of its own.  Kernel code runs with interrupts enabled except
between `disable_interrupts` and `enable_interrupts`, so the timer may preempt
between any two accesses to shared memory, and the keyboard interrupt may stand
on top of any thread.  A thread's queue node is shared by the run queue and
whatever it waits in, which is why each operation asserts where the node is.
Tasks die in two halves, because nobody can free the stack it runs on or the
page directory it uses: each death leaves a struct to the next one.

**What is hard**: preemption inside the lock primitives; the window between
queueing oneself and blocking; the hand-off of the mutex; woken threads that
jump the run queue; a tick count that is read early and that wraps; an interrupt
handler that shares a buffer, a mode and a spinlock with the threads; deferred
frees; errors half-way through fork and exec; two threads faulting on the same
page; a user library whose wakers look at memory of the thread they have just
let go.  `hazards` in `PROJECT.json` lists each of them at its line with the
properties that watch it, or says why none does.

**What makes each component correct.**

* scheduler: the run queue holds exactly the runnable threads, each once, the
  current one included; every runnable thread gets the CPU.
* spinlock, mutex: exclusion across hand-offs and counter wrap; no waiter lost;
  first come, first served; every request granted.
* condition variable: no sleeper lost between queueing and blocking or between
  dequeuing and waking; the mutex held on return; FIFO; wakers return.
* sleep: nobody too early, everybody woken by the first tick that finds it due.
* keyboard: no key lost, repeated or out of order; a reader that waits is woken.
  The code falls short of each (section 5); what holds is that keys go nowhere
  but to readers, until a buffer overflows, or in two ways that can be named.
* life cycle: nothing freed twice, used after it was freed, or leaked; the
  asserts of the teardown hold; a parent learns of every death; vanish ends.
* thread management: deschedule is atomic with respect to make_runnable.
* virtual memory: frames are conserved, no frame belongs to two pages, fork
  copies and leaves the parent alone, page tables go with their last page, and no
  access goes to a frame or through a table that was given back.
* console: the cursor and its image stay in the screen; a call that no echo
  interrupts does what the console promises.
* user synchronisation: as for the kernel's primitives, on top of system calls,
  and the semaphore's permits and the readers/writer lock's readers are exact.
* user threads: a join that meets an exit comes back; a TCB is freed once and
  used by nobody after; a stack has one user.

## 2. Modules

| Module | Models | Role |
|---|---|---|
| `Sched` | run queue and scheduler entry points | extended by all modules that block or wake |
| `KMutex` | `spin.c` and `mutex.c`, one step per access to shared memory | core |
| `FifoLock` | what a mutex promises: a line of requests | abstract specification, refined by `KMutex` |
| `SchedProofs` | lemmas on the run queue | TLAPS |
| `KCvar` | `cvar.c` with its world mutex | composes Sched, the spinlock and the mutex |
| `CondVar` | what a condition variable promises | abstract specification, refined by `KCvar` |
| `KCvarProofs` | nobody who waits is lost, the queue stays exact; `KCvar` implements `CondVar` | TLAPS |
| `SleepTimer` | `sys_sleep`, `timer.c` | on Sched |
| `Keyboard` | `keyboard.c` with raw signalling | interrupt handler against threads |
| `Lifecycle` | `process.c`, `lifecycle.c`, the allocations of `thread.c` | tasks, threads and their memory |
| `LifecycleProofs` | life cycle: counts exact, nothing used after it was freed, nothing leaks, no death unnoticed, no circle of locks | TLAPS |
| `ThreadMgmt` | `thread.c` (the list and its lock), `threadmgmt.c` | on Sched, with `Lifecycle`'s creation and death as the list sees them |
| `ThreadMgmtProofs` | the thread list is in order, no wakeup is lost, a dead TCB is nobody's | TLAPS |
| `VM` | `kern/vm`, `mem_mgmt.c`, the page fault handler | regions, page tables, frames |
| `Memory` | what virtual memory promises a program | abstract specification, refined by `VM` |
| `VMProofs` | every frame has one use; no access leaves its space; page tables and entries go with the regions, over any number of tables; `VM` implements `Memory` | TLAPS |
| `Console` | `console.c`, `cursor.c`, `console_io.c` against the echo of keys | threads under `console_lock`, echoes without it |
| `KernelProofs` | the inductive invariant of `KMutex`, its corollaries, and that it implements `FifoLock`; timer: the sleep list is exact, nobody wakes early or oversleeps a tick; console: the cursor stays in the screen, calls and echoes do what they promise; keyboard: one sleeper, keys conserved | TLAPS |
| `USync` | the user library's spinlock and queue entries, deschedule and make_runnable as it uses them | extended by the next four |
| `UMutex`, `UCond`, `USem`, `RWLock` | `libthread/synch`: mutex, condition variable, semaphore, readers/writer lock | one object each |
| `UserSync` | the four objects used by the same threads | composes them; refines `FifoLock`, `CondVar`, `SharedLock` |
| `UserSyncProofs` | exclusion, no waiter lost, and the three refinements | TLAPS |
| `SharedLock` | what a readers/writer lock promises | abstract specification |
| `ThreadLib` | `thread.c`, `tcb.c`, `stack_alloc.c`, `asm_thr.S` of libthread | create, exit, join |
| `ThreadLibProofs` | no TCB is used after it was freed, the asserts hold, a stack has one user | TLAPS |
| `MC*` | constants and symmetry for TLC | |

### Sched and KMutex

`runq` is the circular list with its head first; `rq_add` inserts at the head,
`schedule_unprotected` rotates the head to the back and dispatches it.  A
section with interrupts disabled is one step; in `KMutex` a step of thread `t`
needs `curr = t`, and `Tick` reschedules at any point.  `pc` walks through
`spin.c` and `mutex.c` label by label, `op` is the call in progress.  Ticket and
turn are counters modulo `M` (2^32 in the code).  `sp->owner` is read without
protection by the yield, so the model keeps it apart from who really is inside.

The environment is any caller that keeps the contract: it unlocks only what it
has locked, and does not lock twice.  `mutex_unlock_and_block` leaves its caller
asleep until somebody wakes it (`Wake`), as a waiting parent or a descheduled
thread is woken.

`FifoLock` is the line of requests: `Request` appends, `Acquire` and `HandOff`
give the lock to the head.  The mapping puts the wait queue first and the threads still in the
spinlock behind it in ticket order, so the refinement `GrantsInTicketOrder` says
that the mutex is granted in the order in which tickets were drawn.

### KCvar

Built on what `KMutex` establishes, two parts are coarser here: the spinlock is
the line of its tickets and the world mutex one step per call, with the calls of
the scheduler inside.  The window the code leaves open is kept: enqueue, mutex
unlock and block are three steps of `cvar_wait`, and signal dequeues, unlocks
and wakes in three.  `home` remembers whether a waker holds the mutex.

### SleepTimer

`ReadTicks` and `GoToSleep` are apart because the code reads the tick count in
one section and inserts in another.  Ticks are modulo `W`; `since` is a history
variable that counts the ticks since the read, so properties can say what a
sleep owes its caller.

### Keyboard

Threads and handler interleave; the handler runs on top of a thread (`hthr`)
that cannot move until it returns.  With `kbd_state` at CHAR, `buffer_write`
enables interrupts inside the handler, which is why that path has three steps
and the others one.  A character is the number of the key press that made it.

Histories say what becomes of keys.  `overrun`: a key was written over one that
nobody had read.  `given`: keys that a reader gets, because kbd_getchar returned
them or because they were put into the line of a call of kbd_getline that had
not returned (`LineLive`).  `dropped`: keys taken that no reader gets.  There are
two ways to be dropped, and both are the code's: the loop of kbd_getchar reads on
while there is something to read, and each character overwrites the one before
(`CharRead`, `keyboard.c:54`); and a character may be written through
`getline_buf` when that is the buffer of a call that has returned or has not set
the globals yet, or past its end (`UpdateGetlineGlobals`, `keyboard.c:82-87,
98-100,155-161`).  `KeysConserved` says that until the buffer overflows there is
no third way: each key is exactly once given, dropped, unread in typing order, or
in one reader's hand.  It does not say that no key is lost; that is
`NoKeyDropped`, which TLC refutes, as it does `GetcharTakesOne`, which names the
first of the two ways (section 5).

### Lifecycle

Scheduling is reduced to interleaving: a thread that is not asleep may step.  A
mutex is its owner; a section under one mutex is one step, and a step ends while
a mutex is held where the code goes on to take another.  Every allocation and
free is a change of `mem` (PCB), `mini` (mini PCB) or `tcb` (TCB and stack).
`Failures` says which allocations may fail; a failed assert ends everything, as
`panic` does (`Panicked`).  Identifiers are not recycled.

### ThreadMgmt

A mutex is `[owner, queue]` and each operation on it one step with the
scheduler's work inside, which rests on `KMutex`; a step ends wherever a lock is
taken or released, a thread is woken or blocked, or user memory is read.  The
element `p` of `thrlist` is a TCB: `ThrFree` makes it free for another
`CallThreadFork`, so that a stale pointer would meet a different thread.
`word[t]` is the integer that `t` passes as `reject`; user threads clear it
before they deschedule and set the other's before they make it runnable, as
`user/libthread/synch/mutex.c:84-88,137-143` does, and may call everything else
at any time with any TID.  Nothing is modelled after a panic or after a store
through a NULL thread (`Stopped`).  `Wedged` names the state in which a thread
waits for a lock that it owns.

### VM

Pages are numbered from `USER_MEM_START` and `TomeSize` of them share a page
table.  `pte` and `tbl` are the entries and the frames of the tables, `regions`
the list `mmap`; `head`, `next` and `avail` are the free list, whose links lie in
the free frames themselves, and `rest` what else a frame holds: 0 or the thread
that wrote it last.  `job[t]` holds the locals of the call in progress.  A
section under `frame_allocator_lock` is one step; between two of them, and
between a look at an entry and its use, other threads may run.  new_pages and
remove_pages hold the task's lock, a page fault does not.

`Memory` is what a program may rely on: a function from pages to contents for
every task.  The mapping reads each page through its entry, and hides a space
that is being built up or taken down and a region that is being made or removed.

What is given back goes in two steps, and the order is the code's.  A page's frame
is pushed and `frame_allocator_lock` released (`FreeFrame`), and only then is the
entry cleared (`FreeClear`); a page table's frame is pushed and the lock released
(`FreeTable`, `page_alloc.c:102,340`), and only then is the directory entry cleared
(`ClearTable`, `:343-345`).  `Pushed` and `TablePushed` name the two windows.  In
them the frame is on the free list, or taken by any thread of any space, while
it is still mapped, or still translates addresses.  Nothing in the code keeps a peer
from using the page or the table then.  Whoever does gets to `"astray"`: it writes
to a frame that is free or another's, or it walks through entries that a new
owner has filled in (`LeadsAstray`, `LostTable`, `FaultGoto`).  After that the model
stops, since nothing can be said of the memory of any space.

**The assumption about programs.**  With `SharePages = FALSE` threads of a task do
not work on one page at one time: no two of them fault on it together, and none
touches what another one is unmapping or mapping, which is its region and the
pages, mapped by nobody, of the tables that may go with it (`RegionPages`).  The
code does not ensure this.  It asks more of programs than to avoid data races,
for two threads may well write to different words of a fresh page, or one may read
a wild pointer while another removes a region nearby; `vm_race` and section 5 show
what happens to those that do, and to tasks that have nothing to do with them:
spaces are isolated from each other only as long as *all* programs keep to it.
`StaysInSpace` says that nobody goes astray; that it holds under the assumption has
to be shown, since other threads of the task, in other pages and tables, and all
other tasks go on through every window.  Everything else is left open: threads of
different tasks, and of one task on different pages, meet in every order.  After
a failed assert, the freeing of a table that is not there, or a failed copy, the
model stops (`Stopped`); the failed copy ends in the failed assert of `Lifecycle`.

### Console

A printing thread holds `console_lock` and can be interrupted between any two
accesses to the cursor; an echo runs with interrupts off and takes no lock, so
it is one step at any moment.  The labels follow `putbyte` through
`crs_get_coords`, which reads the offset once for the row and once for the
column, `set_cursor_raw` and `newline`.  `Type` is what the console promises of
a screen, apart from how offsets are computed; `expect` is what the call in
progress should leave behind, forgotten once an echo has come in between.
Bytes may then be lost or drawn over others (`console.c:220`), which the code
accepts; that the cursor stays in the screen all the same is proved.

### UserSync

The user mutex, condition variable, semaphore and readers/writer lock.  The
spinlock is the line of its tickets, and a section under it is one step as far
as nobody can look in; a step ends where the lock is released, a `reject` is
set, or a system call made.  A waiter's queue entry lies on its stack, so it is
gone once the waiter returns: `Trampled` is the TID a waker reads then, and its
make_runnable may hit any thread, or none.  cond_broadcast and the readers' list
read the TID after they have set `reject`; the mutex, and the comment at
`mutex.c:132-136`, take care not to.  Because every waiter looks at `reject`
again, a stray wake-up only costs it a round (`NoLostWaiter`), in whatever
object it waits: this is why the four are composed in one model.  Any thread may
call rwlock_unlock and rwlock_downgrade; the code ignores the calls of threads
that hold nothing.

`FifoLock` is refined by the mutex as by the kernel's, `CondVar` by the
condition variable, `SharedLock` by the readers/writer lock.

### ThreadLib

Creator, child, exit and join meet in the TCB, whose lock is kept; the list, the
stack list and malloc are sections of one step, each under a mutex of its own
that `UserSync` covers.  A TCB is named after its thread, `mem` says whether it
is there.  The creator fills in a TCB that the child may fill in first and may
even have exited with: `SetTid` and `Activate` are what both do.  thr_exit reads
`joinp` a second time after it has posted the joiner (`thread.c:167`), which may
have freed the TCB: `ExitWake` takes any outcome of that read, death by fault
included.  A fault kills its thread alone: the handler that panic.c installs
calls task_vanish, which the kernel does not implement (`lifecycle.c:345`), and
returns into nowhere.  Callers join a TID that thr_create has returned, once,
and never the root thread's.

## 3. Runs

| Run | Instance | States | Shows |
|---|---|---|---|
| `kmutex` | 3 threads, tickets mod 4, symmetry | 215 592 | the safety of spinlock, mutex and run queue; refinement of `FifoLock` |
| `kmutex_live` | 2 threads, tickets mod 3 | 11 907 | every request granted, every runnable thread runs |
| `kcvar` | 3 threads, symmetry | 78 842 | no sleeper lost, mutex kept, asserts; refinement of `CondVar` |
| `sleep` | 2 threads, 5 tick values, sleeps of 1 and 2 | 38 280 | list exact, not early, not late, every sleeper returns |
| `kbd` | 2 readers, 4 keys of three kinds, buffer of 2 | 2 385 866 | one sleeper; each key given, unread, in hand or dropped in one of two ways, until something unread is overwritten |
| `life` | init and 3 tasks, init and 4 threads, every failure, symmetry | 1 068 652 | memory, counts, teardown asserts, no death unnoticed, no circle of locks |
| `threads` | 2 user threads and idle, 4 TIDs | 124 083 | TIDs ascend across roll-over, no wakeup lost, no freed TCB in use, only the descheduled are woken; a posted waiter runs |
| `vm` | 2 spaces, 2 threads, 5 frames, 4 pages, 2 tables, symmetry | 271 438 | under the assumption on programs: tables match regions, frames accounted for, no access astray; refinement of `Memory` |
| `console` | 2 threads, 2 rows of 2 columns, symmetry | 712 144 | cursor in the screen, calls and echoes do what they promise |
| `usync` | 3 threads, 2 permits | 276 394 | exclusion, no waiter lost, ticket order; refinement of `CondVar` and `SharedLock`; every request but a reader's is served |
| `threadlib` | root and 2 children, 2 stacks, every failure | 55 890 | no use after free, asserts, a stack has one user; joins return |
| `vm_race` | 2 threads of one task, shared pages | stops at the violation | a disagreement, see section 5 |

**Bounds.**  Three threads give a mutex a holder, a queued waiter and a
newcomer, and a condition variable two sleepers and a waker; a fourth adds
another waiter of the same kind.  The ticket counter must exceed the threads
with tickets out and wrap during the run: 4 values for 3 threads.  The tick
counter has 5 values, so that a sleep of 2 may be read, delayed, listed and
woken on either side of a wrap, and is twice the longest sleep as in the code.
The buffer of the keyboard holds 2 of 4 keys: both indices wrap, and it overflows.  Tasks: a task, its child and its
grandchild, so that a parent dies before, while and after its children do, and
init adopts; two threads in a task, so that the first to die is freed by the
second; a second child of one parent, so that `dead_task` is passed on.
`threads`: 4 TIDs for 3 threads roll over and leave a gap; the waker may find,
lose and free the sleeper.  The safety properties were also checked once with 3
user threads (16.5 million states), too long for a regular run.
`vm`: the program's table, two regions (one shares its table, one of two pages
has a table of its own) and a child need more than 5 frames, so every allocation
meets an empty free list but those of a fork after its count of free frames: a
third thread would have to take them meanwhile.  Regions of the run do not
cross into a second table, where the code panics (section 5); with `AnyRegion` but
for the empty ones and the program's page, one space and two threads, `FramesAccounted`,
`StaysInSpace` and, until the panic, `TablesExact` were checked once (100 405 states).
For regions of any size and number they are proved.
`console`: a screen of 2 x 2 has a line that is full after two bytes, a last
line that scrolls, and rows and columns that differ between two reads.
`usync`: three threads are a holder, a waiter and a waker, or two readers and a
writer; two permits let a semaphore be partly taken.  Each thread waits in any
of the objects, so stray wake-ups cross from one to another.
`threadlib`: a child may create, join and exit while it is joined itself; two
stacks for two children, so that the third creation fails or uses one again.
The safety properties were also checked once for three children, with symmetry
(254 648 states).  `kcvar`'s liveness (`TakenReturns`, `WakersReturn`) was
checked once under `FairSpec` with two threads and no symmetry, and holds.
For `vm`, the same properties were checked once for three
regions of one page (890 845 states), where a region has neighbours on both
sides.

**Fairness.**  `WF(Tick)`: the timer interrupts for ever.  `SF(Step(t))`: a
step of `t` needs `curr = t`, which the timer keeps taking away and giving
back; a thread that gets the CPU again and again executes instructions.
Critical sections end (`SF(Unlock(t))`): callers of a mutex release it.
Nothing is assumed of the idle thread or of new calls.  In `Lifecycle` the
absence of a circle of locks (`NoLockCycle`) stands for the liveness of vanish:
with `EveryRequestGranted` of `KMutex` it means that nobody waits for ever.

`UserSync` and `ThreadLib`: `WF(Step(t))`, as the kernel gives every runnable
thread the CPU (`RunnableRuns`); in `UserSync` also `SF(Unlock(t))`, since who
has a lock gives it back even if it waits on the condition variable in between.
Nobody has to signal a condition variable, to exit or to join.  That readers get
in is not claimed: a stream of writers keeps them out (`rwlock.c:359`).

In `ThreadMgmt` as in `KMutex`, only kernel steps are fair: whoever posts a
word without calling make_runnable owes nothing, but `SetWord` leads into the
call.

`CHECK_DEADLOCK FALSE` stands in the keyboard, life cycle, thread management,
memory, `usync` and `threadlib` runs: with all keys typed, all tasks dead, the
kernel panicked, everybody in cond_wait, or all threads gone or joining one that
was killed, these models rightly stop.

## 4. Proofs

`SchedProofs` proves what each queue operation does to a queue without
duplicates.  `KernelProofs` proves, for any finite set of threads and any
counter width above it, that

    IInv == TypeOK /\ OpMatches /\ RunqExact /\ TicketsContiguous
            /\ SpinExclusion /\ MutexExclusion /\ NoLostWaiter
            /\ BlockedIsAsleep /\ DecisionsHold

is inductive, and from it `SharedDataAgrees`, `LocksExclude`, `WaitersNotLost`
(the safety properties of the run `kmutex`), `SpinMutualExclusion` and
`NoAssertFails`.  The argument: the
tickets out form an interval from `turn` (`TicketsContiguous`), so one thread at
most has the ticket that is served, the wrap included (`AheadInjective`); hence
everything between `SpinOwn` and the release runs alone, so the decision a
thread took on reading `mp->state` or the queue still holds when it acts on it
(`DecisionsHold`); a thread is BLOCKED only at the two labels where something is
bound to wake it (`BlockedIsAsleep`), which makes `rq_add` and `rq_del` meet the
thread in the state their asserts want.  None of the parts is inductive without
the others.  `TicketOrder` proves that the mutex implements `FifoLock`: a sequence
sorted by distance from the turn is unique (`SortedOnce`), and each step shows which
one lists the requests it leaves (`NewLine`): the new ticket ranks last
(`TicketDrawn` has the arithmetic of the wrap), who is served ranks first
(`ServedFirst`), and a turn moves all of them up by one (`MovesUp`).
Assumptions: `SchedAssumption` (finitely many threads, distinct
from idle) and `TicketAssumption` (more tickets than threads).

`KCvarProofs` proves `QueueAndAsserts` (`Consistent`) and `SleepersNotLost`
(`SleepersReachable`) for any number of threads.  A waiter enters `cv->queue` before
it gives up the mutex, and from then to its sleep it has the spinlock of the
condition variable; a signal takes it under the same spinlock.  So whoever is
taken is asleep already (`Dequeued`), and a waiter that has not slept yet is in
the queue and was taken by nobody (`WaitLine`, `SpinLine`).  The world mutex is the
model's own, so its line is part of the invariant too (`MutexLine`).  On the same
invariant rests `CvarIsCondVar`, the refinement of `CondVar`: the abstract
waiters are those of the queue, and a waiter that is in the queue but still holds
the mutex (`JoiningLast`: there is at most one, and it stands last) is not one of
them yet, so that giving up the mutex is the step that waits.  Assumption:
`SchedAssumption`.

`ThreadMgmtProofs` proves the four invariants of the run `threads` for any number
of threads and TIDs: `ThreadListInOrder`, `WakeupsKept`, `WakesSleepers` and
`DeadAreAlone`.  `Requests` is the heart of the inductive invariant: it says, by
the statement a thread stands at, which locks it has asked for, that it owns
these or waits, and that it waits for the last one only.  It follows that the
holder of the list's lock is alone with the list (`AloneWithList`), and the holder
of a thread's lock alone with its mark (`AloneWithTarget`, needed for `Marked`);
and that whoever leaves its own lock behind, on its way out, is pointed to by
nobody (`NobodyPoints`): this is the "clear thread lock hack".  `Ordered` says
why the rover is needed in the list: the TIDs past it exceed the last one given,
so a gap that the scan finds there is new (`PassedLemma` says where the scan
stops, `InsertOrdered` that the thread is put between the TIDs next to its own),
and the idle thread, whose TID is the least, keeps the rover from stepping off
the list (`DelOrdered`).  The invariant was checked with TLC for two and three
user threads before it was proved.  Assumptions: `SchedAssumption`,
`ThreadMgmtAssumption`.

`LifecycleProofs` proves the five invariants of the run `life` for any finite
number of tasks and threads and any set of failures: `LifeConsistent`,
`LifeNoUseAfterFree`, `LifeNothingLeaks`, `LifeNoDeathUnnoticed` and
`LifeNoLockCycle`.  The inductive invariant says who is responsible for each
struct at every statement.  `ThreadInv` and `HeirInv`: a thread on its way out
that nobody has freed is the last one its task has seen die (`dthr`), and a task
without threads is being taken down by that thread or is the last child its heir
has seen die (`dtask`), of one heir only.  `TaskInv` says what the teardown has
undone so far: the task is off the list, then nobody has its lock, then it has
nothing left to free; `LockInv` that a lock is held over the end of a step only by
a thread that reports its death (`v_child`) or sleeps for ever (`v_block`), and
what that thread has left in the struct it holds.  So who frees `dtask` or `dthr`
has the lock under which its thread let go (`FinalFacts`): that thread has made its
last step, which is why the stack may be freed.  `BuildInv` and
`ForkInv` keep what is not launched yet out of everybody's hands, `MiniInv` puts
the mini PCB of the dead in one queue, and `NumInv` and `LiveInv` count, by set, the
threads and the children that are still expected; `LiveInv` holds for tasks off
the list too, where children report to init, as an inequality.  `NoLockCycle`
follows because who has a task's lock waits for nothing, and who has the list's
waits at most for a task's.  TLC checked the invariant on the run before it was
proved.  Assumption: `LifecycleAssumption`.

`UserSyncProofs` proves the invariants and the three refinements of the run `usync`
for any number of threads and permits.  Of the inductive invariant, `Queues` says
that nobody stands in a list twice, `Homes` and `Spinning` where a call returns to
and who is in which spinlock; `MutexInv`, `CondInv`, `SemInv`, `ReaderInv`,
`WriterInv` and `StateInv` what each object's lists and fields mean by the
statements its users stand at; and `WakeInv` that who has left a list without
having been posted is the target of one waker, and who sleeps although it was
posted is about to be woken.  A stray wake-up changes none of this, which is why
it does no harm.
The refinements map the lines of waiters as `KCvarProofs` does: a waiter that has
queued itself but not let go of the mutex yet stands last (`JoiningLast`).
Assumptions: `USyncAssumption`, `PermitsAssumption`.

`VMProofs` proves four theorems of `VM` for any number of spaces, threads, frames
and pages.  All rest on `VMAssumption` and on the assumption about programs of
section 2, which each states as its hypothesis `~SharePages`; without it each is false
(section 5).

*Frames* (`VMFramesAccounted`).  The heart of the inductive invariant
(`VMAlwaysHolds`) is `Shared`: `PageHolds`, `TableHolds` and `CopyHolds`, the frames
that pages, tables and copies have, are injective and disjoint, and `F` are those
that none has; `ListOf` says that the free list leads through exactly these, in some
order without repetition, and that `fr_avail` is one less.  A page or a table stops to
hold its frame when it is pushed, not when its entry is cleared: between the two
the frame is free, or has its next use, and is still named by an entry.  That is
why the rest of the invariant is needed: from the push to the clearing no thread may
use the entry.  `Apart` says that who works on a page works on it alone and who
takes down or copies a space is alone in it; `CallOf` and `Progress` how far a call
is by its label; `RegionInv` that the entries of a space are those of its regions,
but for the pages that a call on its way is about to map or has cleared
(`Excused`).  Each step moves at most one frame (`PageTakes`, `PageLeaves`,
`TableTakes`, `TableLeaves`, `CopyTakes`, `CopyEnters`) and has a lemma of its own, as has
a frame on either end of the list (`ListPops`, `ListPushes`).  That `Path`, which the
property counts by, ends at `Nil` and visits each free frame once is `PathIs`.

*No access astray* (`VMStaysInSpace`).  `AsideInv` says what a fault on its way may
meet: no other thread of its space is unmapping its page or about to free its
table (`FaultsAside`), the tables a call is to free are those that its region
reaches into (`TabsIn`), and the table that is being cleared has no entry left
(`ClearsEmpty`).  That the tables named by `destroy_mem_region`, the wrong ones
included, are within the region's (`OwnTablesIn`) is what the assumption needs in
order to cover them all.

*Tables* (`VMTablesExact`): while the model has not stopped, the regions of a space
ascend, and the entries and tables of a space that no call is changing are exactly
those that its regions need.  Regions may lie in one table or reach over many,
as new_pages allows; only empty ones are left out (`NonEmpty`: of a region without
a page, `vm.c:113` compares tables on its two sides).  `TableInv` says that regions
ascend and none is empty (`Ascends`, `Solid`), that a mapped page has a table
(`HasTable`), and that each table reaches into some region (`HasRegion`).  What makes
it hard is the error at `vm.c:131`, which frees the low table in place of the high one,
and skips one in between.  A remove_pages that gets past `validate_pd` has left each
table that is still there a page, and this page is in another region; past
`validate_pt`, it has freed no table with a page in it (`RegionFreedTables`,
`ClearTableTables`).  The clean-up of a new_pages that found no frame does not call
`validate_pd`.  At least one table of the region is missing then (`Starved`), and from
this it follows that the tables named are either enough (`Covers`), or that the code
is bound to stop at one of them (`Doomed`): it is missing, has a neighbour's pages, or
is named twice (`OwnTablesEnough`).  So what a region over several tables costs
is a panic; between calls, as long as there was none, no table or entry is left over
and none is missing.

`VMIsMemory` is the refinement: `VM` implements `Memory`, so programs see their own
writes, zeroes in new pages and, after fork, what the parent saw, and nothing else
ever changes what they see.  A page is seen if it `Shows`: a thread lives in its
space that is not in exit, and no call makes or removes its region.  The
invariant `SeenInv` adds to `VMIInv` that the pages a call has made so far are backed
by the frame of zeroes (`Fresh`), and that what fork has mapped for the child
reads as the parent's page, as does the frame it is about to map (`Copied`).  Most
steps of the code stutter there: `NothingShows` and `HiddenStep` say that contents
change in one frame at most, which no other space has (`Aside`, from `Shared`) and
which backs no page that shows.  A page fault changes the frame of a page that
shows, but not what is read there, for both frames are clean.  The steps of
`Memory` are the last page of new_pages (`MemMakes`), the start of remove_pages and of
the last vanish (`MemRemoves`), a write (`MemWrites`) and the return of fork
(`MemForks`), which reveals a space as a whole.  The invariant was checked with TLC
first.  The theorem states `StaysInSpace` along with the refinement: while no
access goes astray, what a program sees at its addresses is what `Seen` says.

`KernelProofs` proves, of `SleepTimer`, `SleepListExact`, `NobodyWokenEarly` and `NobodyOverslept`
for any number of threads, any width of the tick counter and any arguments.  The
inductive invariant adds to the properties that the list is in the order of the
wake times (`SleepList`; so the loop of `wake_up`, which stops at the first entry
that is later, passes all that are due: `DueLemma`) and that, until the counter
wraps, the count now is the count read plus the ticks since (`Clocks`).
Assumptions: `SchedAssumption`, `WidthAssumption`.

Of `Console` it proves `CursorStaysInScreen` for a screen of any size: an offset
that is written was computed from a row and a column that `valid_row` and
`valid_col` have accepted (`OffsetInScreen`), or is that of the last row; what a
print has read of a cursor that has moved since does not matter.  `CursorConsistent` is
inductive by itself.  `ConsoleWorks` is the other property of the run, the step
of every call and echo.  Its invariant adds to `CursorConsistent` what is due from
the caller that has the lock (`Due`): by the place it has reached, that what it has
read is still where the cursor is, and how the screen differs from what was promised
(a byte to draw, the cursor to move, a line to scroll, `crtc` or `off` to write).
An echo in between ends the promise, so nothing else moves the cursor.  `ExpectedIs`
says what is promised of each byte, `EchoIs` that `putbyte` computes the same from
`/`, `%` and the checks of row and column.  Assumption: `ConsoleAssumption`.

Of `Keyboard` it proves `KbdAlwaysConsistent` and `KbdConservesKeys` for any number of
readers, keys and any size of the buffer and the lines.  `ReaderInv` says that who
is in a call holds `kbd_lock`, so one reader at most waits or has a key in hand
(`Alone`).  `BufferInv` counts the keys, given, dropped, unread and in hand, whatever
has been overwritten, and keeps what is read from being a cell never written
(`Written`).  `WindowInv` says that until an overflow the cells from `r` on are the
unread keys in the order typed, and that each other key was given, was dropped or is
in hand; with the count, each is so once.  `BufferReadGives` and `BufferWritten` move that
window past the end of the buffer.  That keys are dropped is not left out: the two
ways are part of the statement, and `NoKeyDropped`, which denies them, is false (section
5).  Assumption: `KeyboardAssumption`.

`ThreadLibProofs` proves all safety of the run `threadlib` for any number of
threads and whichever calls fail: `TcbsUsedLive`, `AssertsHold` and
`StacksNeverShared`.  The inductive invariant of the first says who works on whom:
a thread is the business of its creator alone, then of one joiner (`Roles`); what
they work on is there (`Creators`, `Joiners`, `Memory`); a joiner that has not been
posted waits for an exit that is still to come, and one that has been, for an
exit that is through (`Posts`, `Waits`).  That an exited state is never undone
(`Exits`) is needed, or the joiner could free the TCB too early.  `TInv` adds what
the other two need: TIDs and the list of TCBs (`Tids`, `Lists`), the lock of each TCB
with its owner and waiters by statement (`Locks`), and, for the stacks, who holds
which (`Holders`) and that the free list is in order and holds each stack once
(`Entries`): what alloc_from_list takes is no one's (`FirstUsableLemma`).  Assumption: `ThreadLibAssumption`.

Only model-checked: liveness, for liveness under fairness is out of the prover's
reach.

## 5. Where the code and its documentation disagree

Checked by a run that TLC refutes:

* `vm_race`: of two threads that fault on one fresh page, the second replaces
  the frame that the first has been given, and what was written to it is lost
  (`page_alloc.c:373`).

Stated in the modules, refuted by TLC in the same way when put in place of the
property of a run above, without a run of their own:

* `Keyboard`: `SleeperIsAwaited` (a newline typed between the reader's last look
  at the buffer and its wait signals nobody and clears the mode,
  `keyboard.c:105`), `GetcharReadsKey` (the loop of `kbd_getchar` tests `buffer_read`
  the wrong way round, so an empty buffer returns an uninitialised character,
  `keyboard.c:54`), `HandlerNotStuck` (the handler spins for a lock that the
  thread under it holds, `keyboard.c:159`, `cvar.c:58`); `TypedOrder`,
  `WritesLiveBuffer`; `NoKeyDropped` and `GetcharTakesOne` (keys are lost although
  there is room for them: kbd_getchar, which should retrieve "the next
  character", `keyboard.c:37`, reads on until none is left and keeps the last, and
  kbd_getline's globals outlive its call, `keyboard.c:54,98-100`); `GivenOnce` (with a
  buffer of 2 and 5 keys: after an overflow old keys are read again).
* `Lifecycle`: `FailedForkHasLastThread` (a failed copy of the address space
  ends in a failed assert, `lifecycle.c:117`), `ListsHoldLive`, `UserHasMemory`.
* `SleepTimer`: `SleepsAllTicks`.
* `ThreadMgmt`: `UnknownTidRefused` (make_runnable of a TID that nobody has
  unlocks the mutex of a NULL thread instead of returning an error,
  `threadmgmt.c:113`), `NoSelfWait` (a bad `reject` page kills a thread that owns its
  lock and then waits for it with the thread list locked, `threadmgmt.c:81`),
  `AddFailsOnlyWhenFull` (the search after a roll-over stops before the gap in
  front of the rover, `thread.c:164`).
* `VM`: `FreesOnlyTables` (when no frame is left for a table, vm_alloc's clean-up
  frees the table that it could not allocate, `vm.c:242-247`), `FreshPageIsZero`
  (the first word of a fresh page is a link of the free list,
  `page_alloc.c:73`); `AssertsHold` with `NewRegions <- AnyRegion` (a region over
  several tables frees its low one twice, `vm.c:131`); with `SharePages = TRUE`
  `StaysInSpace`, `FramesAccounted` and `ActsLikeMemory`: pg_free makes an entry for
  the frame of zeroes writable for a moment, and keeps mapping a frame it has
  pushed (`page_alloc.c:303-316`); pg_free_table keeps a page table in the directory
  whose frame it has pushed (`:340-345`).  A thread that uses the page, or any
  unmapped page of the table, at that moment reads and writes frames that
  may be another task's by then: the isolation of tasks depends on what
  programs do.

* `UserSync`: `WakesWhomItDequeued` (cond_broadcast and the readers' list read the
  TID in a queue entry after they have set its `reject`, `cvar.c:156`,
  `rwlock.c:374`; the comment at `mutex.c:132-136` says why one must not),
  `EveryReaderServed` (`rwlock.c:359`).

In the model `ThreadLib`, as the code has it: thr_exit reads `joinp` after the
joiner may have freed the TCB (`thread.c:167`), so the exiting thread may fault or
wake anybody, and one that faults leaves its stack unused for ever; a thread
that faults dies alone, while `thread.c:288-291` and `panic.c:31,50` say that the
whole task does.

Read in the code, not modelled:

* thr_join locks the TCB before it looks whether there is one
  (`thread.c:194-197`), and a second joiner returns with the lock held (`:198`); a
  failed fork leaves the freed TCB on the list (`:120-124`: there in the model,
  but nobody looks it up); joining the root thread would free a static TCB;
* `owntcb` finds the TCB by PAGE_CEILING, right for stacks of one page only
  (`tcb.c:201`); mallocs are not checked at `rwlock.c:225` and `tcb.c:121`;
* `console_io.c:93-95` may free a `buf_k` that was never set;
* error paths of `sc_utils.c:210,289` keep the task lock, and that of `vm_copy`
  frees the child's pages through the parent's address space (`vm.c:347`).

## 6. Not modelled, and the plan

Left out for good: the register switch, TLB maintenance, scancode processing,
descriptor tables, ELF parsing, the allocator of the 410 library and its
wrappers, the stack growth of libautostack, output formatting: no concurrency or
protocol of this code's own.  More than half of the lines in the repository
belong to test programs and games under `410user/progs`, `user/progs` and to
headers, which is why the map covers a small share of all lines and a large one
of the components named as modelled.

Open:

1. `VM`: exec's reload and the clean-up of a failed copy, where the code's own
   error (`vm.c:347`) leaves no state to go on from.
2. `sc_utils.c`: the copies between user and kernel space; sequential, but for the
   task lock on their error paths.
3. swexn, and the registers a handler is started with.
