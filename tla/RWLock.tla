------------------------------- MODULE RWLock -------------------------------
(***************************************************************************)
(* The readers/writer lock of the user library (synch/rwlock.c).  A reader *)
(* leaves a node on the heap, which moves from readers_waiting to          *)
(* readers_reading and is freed by rwlock_unlock; a writer waits with a    *)
(* node on its stack.  Holders and threads that hold nothing may call      *)
(* rwlock_unlock and rwlock_downgrade: the code says which calls count.    *)
(***************************************************************************)
EXTENDS USync

VARIABLES
    rwstate,            \* rwlock->state
    writer,             \* rwlock->writer_tid
    writers,            \* threads waiting to write
    rwaiting,           \* readers_waiting
    rreading,           \* readers_reading
    todo                \* what broadcast_readers has still to visit

rwVars == <<rwstate, writer, writers, rwaiting, rreading, todo>>
rwLists == <<writers, rwaiting, rreading>>

RWInit ==
    /\ rwstate = "UNLOCKED"
    /\ writer = None
    /\ writers = <<>> /\ rwaiting = <<>> /\ rreading = <<>> /\ todo = <<>>

Section(t, label) == At(t, label) /\ Turn(t, "rw")

CallRW(t) ==
    /\ \/ At(t, "out") /\ \E label \in {"rl_spin", "wl_spin"} :
              Call(t, "rw", label, "out")
       \/ /\ At(t, "out") \/ At(t, "r_in")
          /\ Call(t, "rw", "dg_spin", pc[t])
       \/ At(t, "w_in") /\ Call(t, "rw", "dg_spin", "r_in")
    /\ UNCHANGED rwVars

CallRWUnlock(t) ==
    /\ At(t, "out") \/ At(t, "r_in") \/ At(t, "w_in")
    /\ Call(t, "rw", "ul_spin", "out")
    /\ UNCHANGED rwVars

-----------------------------------------------------------------------------
(* rwlock_lock *)

(* Mutant: a reader does not look for waiting writers. *)
ReadEnterBarging(t) ==
    /\ rwstate # "WRLOCKED"
    /\ rreading' = Append(rreading, t)
    /\ Goto(t, "r_in")
    /\ UNCHANGED <<reject, rwaiting>>

ReadEnter(t) ==
    /\ rwstate # "WRLOCKED" /\ writers = <<>>
    /\ rreading' = Append(rreading, t)
    /\ Goto(t, "r_in")
    /\ UNCHANGED <<reject, rwaiting>>

ReadEnqueue(t) ==
    /\ rwstate = "WRLOCKED" \/ writers # <<>>
    /\ rwaiting' = Append(rwaiting, t)
    /\ reject' = [reject EXCEPT ![t] = FALSE]
    /\ Goto(t, "r_wait")
    /\ UNCHANGED rreading

ReadLock(t) ==
    /\ Section(t, "rl_spin")
    /\ rwstate' = IF rwstate = "UNLOCKED" THEN "RDLOCKED" ELSE rwstate
    /\ ReadEnter(t) \/ ReadEnqueue(t)
    /\ SpinUnlock("rw")
    /\ UNCHANGED <<asleep, target, home, writer, writers, todo>>

WriteLock(t) ==
    /\ Section(t, "wl_spin")
    /\ \/ /\ rwstate = "UNLOCKED"
          /\ rwstate' = "WRLOCKED"
          /\ writer' = t
          /\ Goto(t, "w_in")
          /\ UNCHANGED <<reject, writers>>
       \/ /\ rwstate # "UNLOCKED"
          /\ writers' = Append(writers, t)
          /\ reject' = [reject EXCEPT ![t] = FALSE]
          /\ Goto(t, "w_wait")
          /\ UNCHANGED <<rwstate, writer>>
    /\ SpinUnlock("rw")
    /\ UNCHANGED <<asleep, target, home, rwaiting, rreading, todo>>

RWLoop(t) ==
    /\ Waits(t, "r_wait", "r_in") \/ Waits(t, "w_wait", "w_in")
    /\ UNCHANGED rwVars

-----------------------------------------------------------------------------
(* rwlock_unlock *)

(* A caller that holds nothing, and a reader that leaves others behind:    *)
(* the lock is released and that is all.                                   *)
UnlockNothing(t) ==
    /\ Section(t, "ul_spin")
    /\ \/ /\ rwstate = "RDLOCKED"
          /\ t \notin ToSet(rreading) \/ Len(rreading) > 1
          /\ rreading' = RemoveFirst(rreading, t)
       \/ /\ \/ rwstate = "UNLOCKED"
             \/ rwstate = "WRLOCKED" /\ writer # t
          /\ UNCHANGED rreading
    /\ Goto(t, home[t])
    /\ SpinUnlock("rw")
    /\ UNCHANGED <<asleep, reject, target, home, rwstate, writer, writers,
                   rwaiting, todo>>

(* update_rwlock, once the caller was found to be the last holder *)
PassToWriter(t) ==
    /\ writers # <<>>
    /\ writer' = Head(writers)
    /\ writers' = Tail(writers)
    /\ target' = [target EXCEPT ![t] = Head(writers)]
    /\ rwstate' = "WRLOCKED"
    /\ Goto(t, "late_post")
    /\ SpinUnlock("rw")
    /\ UNCHANGED <<rwaiting, todo>>

PassToReaders(t) ==
    /\ writers = <<>> /\ rwaiting # <<>>
    /\ todo' = rwaiting
    /\ Goto(t, "bc")
    /\ UNCHANGED <<spin, target, rwstate, writer, writers, rwaiting>>

PassToNobody(t) ==
    /\ writers = <<>> /\ rwaiting = <<>>
    /\ rwstate' = "UNLOCKED"
    /\ Goto(t, home[t])
    /\ SpinUnlock("rw")
    /\ UNCHANGED <<target, writer, writers, rwaiting, todo>>

UnlockLast(t) ==
    /\ Section(t, "ul_spin")
    /\ \/ rwstate = "RDLOCKED" /\ rreading = <<t>>
       \/ rwstate = "WRLOCKED" /\ writer = t
    /\ rreading' = IF rwstate = "RDLOCKED" THEN <<>> ELSE rreading
    /\ PassToWriter(t) \/ PassToReaders(t) \/ PassToNobody(t)
    /\ UNCHANGED <<asleep, reject, home>>

WriterPost(t) ==
    /\ At(t, "late_post")
    /\ reject' = [reject EXCEPT ![target[t]] = TRUE]
    /\ Goto(t, "late_wake")
    /\ UNCHANGED <<spin, asleep, target, home, rwVars>>

WriterWake(t) ==
    /\ At(t, "late_wake")
    /\ MakeRunnableLate(t)
    /\ target' = [target EXCEPT ![t] = None]
    /\ Goto(t, home[t])
    /\ UNCHANGED <<spin, reject, home, rwVars>>

-----------------------------------------------------------------------------
(* rwlock_downgrade and broadcast_readers *)

DowngradeNothing(t) ==
    /\ Section(t, "dg_spin")
    /\ rwstate # "WRLOCKED" \/ writer # t
    /\ SpinUnlock("rw")
    /\ Goto(t, home[t])
    /\ UNCHANGED <<asleep, reject, target, home, rwVars>>

Downgrade(t) ==
    /\ Section(t, "dg_spin")
    /\ rwstate = "WRLOCKED" /\ writer = t
    /\ \/ /\ rwaiting # <<>>
          /\ todo' = rwaiting
          /\ Goto(t, "bc")
          /\ UNCHANGED <<spin, rwstate, rreading>>
       \/ /\ rwaiting = <<>>
          /\ rwstate' = "RDLOCKED"
          /\ rreading' = Append(rreading, t)
          /\ SpinUnlock("rw")
          /\ Goto(t, home[t])
          /\ UNCHANGED todo
    /\ UNCHANGED <<asleep, reject, target, home, writer, writers, rwaiting>>

(* reader->reject = gettid() *)
BroadcastReader(t) ==
    /\ At(t, "bc")
    /\ reject' = [reject EXCEPT ![Head(todo)] = TRUE]
    /\ Goto(t, "bc_wake")
    /\ UNCHANGED <<spin, asleep, target, home, rwVars>>

(* Mutant: the downgraded writer does not join the readers. *)
BroadcastSpliceNoSelf(t) ==
    /\ rreading' = rwaiting
    /\ rwaiting' = <<>>
    /\ rwstate' = "RDLOCKED"
    /\ SpinUnlock("rw")
    /\ Goto(t, home[t])

(* After the last reader: the list of those who waited replaces that of    *)
(* the readers, and a downgraded writer (home "r_in") is added to it.      *)
BroadcastSplice(t) ==
    /\ rreading' = rwaiting \o (IF home[t] = "r_in" THEN <<t>> ELSE <<>>)
    /\ rwaiting' = <<>>
    /\ rwstate' = "RDLOCKED"
    /\ SpinUnlock("rw")
    /\ Goto(t, home[t])

(* make_runnable(reader->tid): the node is on the heap, and whoever would  *)
(* free it needs the spinlock.                                             *)
BroadcastReaderWake(t) ==
    /\ At(t, "bc_wake")
    /\ MakeRunnable(Head(todo))
    /\ todo' = Tail(todo)
    /\ \/ /\ Len(todo) > 1
          /\ Goto(t, "bc")
          /\ UNCHANGED <<spin, rwstate, rwaiting, rreading>>
       \/ /\ Len(todo) = 1
          /\ BroadcastSplice(t)
    /\ UNCHANGED <<reject, target, home, writer, writers>>

RWStep(t) ==
    \/ ReadLock(t) \/ WriteLock(t) \/ RWLoop(t)
    \/ UnlockNothing(t) \/ UnlockLast(t) \/ WriterPost(t) \/ WriterWake(t)
    \/ DowngradeNothing(t) \/ Downgrade(t)
    \/ BroadcastReader(t) \/ BroadcastReaderWake(t)

-----------------------------------------------------------------------------
(* Who may use what the lock protects.  A writer that has called downgrade *)
(* reads already.                                                          *)
Reads(t) ==
    \/ pc[t] = "r_in"
    \/ pc[t] \in {"dg_spin", "bc", "bc_wake"} /\ home[t] = "r_in"

Writes(t) == pc[t] = "w_in"

(* Refinement: the readers get in when broadcast_readers starts. *)
Broadcasting == todo # <<>>

AbsReaders ==
    IF Broadcasting
    THEN ToSet(rwaiting) \cup
         {t \in Threads : pc[t] \in {"bc", "bc_wake"} /\ home[t] = "r_in"}
    ELSE ToSet(rreading)

AbsWriter == IF rwstate = "WRLOCKED" /\ ~Broadcasting THEN writer ELSE None

Shared == INSTANCE SharedLock WITH
    writer <- AbsWriter, readers <- AbsReaders, wline <- writers,
    rwait <- IF Broadcasting THEN {} ELSE ToSet(rwaiting)
=============================================================================
