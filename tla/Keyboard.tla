------------------------------ MODULE Keyboard ------------------------------
(***************************************************************************)
(* The keyboard driver (kern/entry/drivers/keyboard.c): getchar, readline, *)
(* the circular buffer and the interrupt handler, with the condition       *)
(* variable kbd_wait used as the driver uses it (cvar_wait without a       *)
(* mutex, cvar_signal_raw; kern/lib/cvar.c).                               *)
(*                                                                         *)
(* A section with interrupts disabled is one step.  The handler runs on    *)
(* top of the thread it interrupts, hthr, which stands still until the     *)
(* handler is done; other threads can run as soon as buffer_write or       *)
(* sched_find has enabled interrupts.  The keyboard interrupt itself is    *)
(* acknowledged last, so it does not nest.  The run queue is abstracted:   *)
(* any thread that is not blocked may take the next step (module Sched has *)
(* the queue), and kbd_lock is taken by any thread that wants it (module   *)
(* KMutex has its line).                                                   *)
(***************************************************************************)
EXTENDS SequencesExt, Integers

CONSTANTS Readers,      \* the threads that read input
          Other,        \* the thread interrupted when none of those runs
          Nil,          \* no thread; the NULL pointer
          Size,         \* KBD_BUFFER_SIZE
          LineSize,     \* the size of the callers' line buffers
          MaxKeys,      \* bound: how many keys are pressed
          Kinds         \* the kinds of keys pressed: within AllKinds

AllKinds == {"char", "newline", "backspace"}

ASSUME KeyboardAssumption ==
    /\ Other \notin Readers /\ Nil \notin Readers
    /\ Size \in Nat \ {0} /\ LineSize \in Nat \ {0} /\ MaxKeys \in Nat
    /\ Kinds \subseteq AllKinds

VARIABLES
    kbdLock,            \* owner of kbd_lock
    kbdState,           \* kbd_state
    buf, bufR, bufW,    \* struct keyboard_buffer: buffer, r, w, count; a
    bufCount,           \* character is its key's number, 0 before any is
    overrun,            \* history: a key was written over an unread one
    getBuf,             \* whose buffer getline_buf points to
    getCount,           \* getline_count; getline_size is LineSize once set
    spin, waitq,        \* kbd_wait: the holder of its spinlock, its queue
    rpc, got,           \* the threads; their local `ch', 0 uninitialised
    hpc, hthr,          \* the handler and the thread it runs on top of
    kind,               \* the kind of each key pressed so far
    given,              \* history: keys that readers got, in that order
    dropped,            \* history: keys taken that no reader gets
    stray               \* history: the handler wrote to a dead line buffer

bufVars == <<buf, bufR, bufW, bufCount, overrun>>
lineVars == <<getBuf, getCount>>
cvVars == <<spin, waitq>>
takenVars == <<given, dropped>>
keyVars == <<hpc, hthr, kind, takenVars, stray>>
kbdVars == <<kbdLock, kbdState, bufVars, lineVars, cvVars, rpc, got, keyVars>>

LinePCs == {"l_state", "l_buf", "l_count", "l_drain", "l_update", "l_early",
            "l_wait", "l_enqueue", "l_park", "l_asleep", "l_done"}
CharPCs == {"c_state", "c_read", "c_wait", "c_enqueue", "c_park", "c_asleep",
            "c_done"}
Asleep == {"l_asleep", "c_asleep"}

KbdInit ==
    /\ kbdLock = Nil /\ kbdState = "NONE"
    /\ buf = [i \in 0 .. Size - 1 |-> 0] /\ bufR = 0 /\ bufW = 0 /\ bufCount = 0
    /\ overrun = FALSE
    /\ getBuf = Nil /\ getCount = 0
    /\ spin = Nil /\ waitq = <<>>
    /\ rpc = [t \in Readers |-> "out"] /\ got = [t \in Readers |-> 0]
    /\ hpc = "idle" /\ hthr = Nil
    /\ kind = <<>> /\ given = <<>> /\ dropped = <<>> /\ stray = FALSE

(* t is runnable and no handler stands on top of it *)
ReaderAt(t, label) == hthr # t /\ rpc[t] = label

ReaderGoto(t, label) == rpc' = [rpc EXCEPT ![t] = label]

ModInc(i) == (i + 1) % Size

-----------------------------------------------------------------------------
(* The circular buffer: both functions disable interrupts. *)

BufferWrite(c) ==
    /\ buf' = [buf EXCEPT ![bufW] = c]
    /\ bufW' = ModInc(bufW)
    /\ bufR' = IF bufCount >= Size THEN ModInc(bufR) ELSE bufR
    /\ bufCount' = bufCount + 1
    /\ overrun' = (overrun \/ bufCount >= Size)

(* Mutant: the read index stays. *)
BufferReadStays(t) ==
    /\ bufCount > 0
    /\ got' = [got EXCEPT ![t] = buf[bufR]]
    /\ bufCount' = bufCount - 1
    /\ UNCHANGED <<buf, bufR, bufW, overrun>>

BufferRead(t) ==
    /\ bufCount > 0
    /\ got' = [got EXCEPT ![t] = buf[bufR]]
    /\ bufR' = ModInc(bufR)
    /\ bufCount' = bufCount - 1
    /\ UNCHANGED <<buf, bufW, overrun>>

(* update_getline_globals: the count after character c, and whether the    *)
(* line is complete (its nonzero results).                                 *)
CountAfter(k) ==
    IF k = "backspace"
    THEN IF getCount > 0 THEN getCount - 1 ELSE getCount
    ELSE getCount + 1

LineFull(k) == CountAfter(k) >= LineSize \/ k = "newline"

(* getline_buf is the buffer of a call that has set the globals, and a     *)
(* character put there lies within it.                                     *)
LineLive ==
    /\ getBuf # Nil
    /\ rpc[getBuf] \in LinePCs \ {"l_state", "l_buf", "l_count"}
    /\ getCount < LineSize

UpdateGetlineGlobals(c, k) ==
    /\ getCount' = CountAfter(k)
    /\ IF LineLive THEN given' = Append(given, c) /\ UNCHANGED dropped
                   ELSE dropped' = Append(dropped, c) /\ UNCHANGED given
    /\ UNCHANGED getBuf

-----------------------------------------------------------------------------
(* kbd_getchar and kbd_getline, up to the first look at the buffer *)

CallRead(t, label) ==
    /\ ReaderAt(t, "out")
    /\ kbdLock = Nil
    /\ kbdLock' = t
    /\ ReaderGoto(t, label)
    /\ got' = [got EXCEPT ![t] = 0]
    /\ UNCHANGED <<kbdState, bufVars, lineVars, cvVars, keyVars>>

SetState(t) ==
    /\ \/ ReaderAt(t, "l_state") /\ kbdState' = "LINE" /\ ReaderGoto(t, "l_buf")
       \/ ReaderAt(t, "c_state") /\ kbdState' = "CHAR" /\ ReaderGoto(t, "c_read")
    /\ UNCHANGED <<kbdLock, bufVars, lineVars, cvVars, got, keyVars>>

SetBuf(t) ==
    /\ ReaderAt(t, "l_buf")
    /\ getBuf' = t
    /\ ReaderGoto(t, "l_count")
    /\ UNCHANGED <<kbdLock, kbdState, bufVars, getCount, cvVars, got, keyVars>>

SetCount(t) ==
    /\ ReaderAt(t, "l_count")
    /\ getCount' = 0
    /\ ReaderGoto(t, "l_drain")
    /\ UNCHANGED <<kbdLock, kbdState, bufVars, getBuf, cvVars, got, keyVars>>

(* The loop of kbd_getline: take what is in the buffer, then wait. *)
LineDrain(t) ==
    /\ ReaderAt(t, "l_drain")
    /\ \/ BufferRead(t) /\ ReaderGoto(t, "l_update")
       \/ bufCount = 0 /\ ReaderGoto(t, "l_wait") /\ UNCHANGED <<bufVars, got>>
    /\ UNCHANGED <<kbdLock, kbdState, lineVars, cvVars, hpc, hthr, kind, takenVars, stray>>

LineUpdate(t) ==
    /\ ReaderAt(t, "l_update")
    /\ LET k == kind[got[t]]
       IN  /\ UpdateGetlineGlobals(got[t], k)
           /\ ReaderGoto(t, IF LineFull(k) THEN "l_early" ELSE "l_drain")
    /\ UNCHANGED <<kbdLock, kbdState, bufVars, cvVars, got, hpc, hthr, kind, stray>>

(* The loop of kbd_getchar waits after a character WAS read, and ends when *)
(* none is there: buffer_read returns 0 on success.  The character that    *)
(* was read before is overwritten.                                         *)
CharRead(t) ==
    /\ ReaderAt(t, "c_read")
    /\ \/ /\ BufferRead(t)
          /\ dropped' = IF got[t] = 0 THEN dropped ELSE Append(dropped, got[t])
          /\ ReaderGoto(t, "c_wait")
       \/ /\ bufCount = 0
          /\ ReaderGoto(t, "c_done")
          /\ UNCHANGED <<bufVars, got, dropped>>
    /\ UNCHANGED <<kbdLock, kbdState, lineVars, cvVars, hpc, hthr, kind, given, stray>>

-----------------------------------------------------------------------------
(* cvar_wait(&kbd_wait, NULL): the mutex stays locked *)

WaitNext == [l_wait |-> "l_enqueue", l_enqueue |-> "l_park", l_park |-> "l_asleep",
             c_wait |-> "c_enqueue", c_enqueue |-> "c_park", c_park |-> "c_asleep"]

WaitLock(t) ==
    /\ hthr # t /\ rpc[t] \in {"l_wait", "c_wait"}
    /\ spin = Nil
    /\ spin' = t
    /\ ReaderGoto(t, WaitNext[rpc[t]])
    /\ UNCHANGED <<kbdLock, kbdState, bufVars, lineVars, waitq, got, keyVars>>

WaitEnqueue(t) ==
    /\ hthr # t /\ rpc[t] \in {"l_enqueue", "c_enqueue"}
    /\ waitq' = Append(waitq, t)
    /\ ReaderGoto(t, WaitNext[rpc[t]])
    /\ UNCHANGED <<kbdLock, kbdState, bufVars, lineVars, spin, got, keyVars>>

(* Mutant: the mutex is dropped while waiting, as for a "world mutex".     *)
WaitParkDrops(t) ==
    /\ hthr # t /\ rpc[t] \in {"l_park", "c_park"}
    /\ spin' = Nil
    /\ kbdLock' = Nil
    /\ ReaderGoto(t, WaitNext[rpc[t]])
    /\ UNCHANGED <<kbdState, bufVars, lineVars, waitq, got, keyVars>>

(* spin_unlock_and_block; pc "asleep" and in waitq is BLOCKED *)
WaitPark(t) ==
    /\ hthr # t /\ rpc[t] \in {"l_park", "c_park"}
    /\ spin' = Nil
    /\ ReaderGoto(t, WaitNext[rpc[t]])
    /\ UNCHANGED <<kbdLock, kbdState, bufVars, lineVars, waitq, got, keyVars>>

InWaitq(t) == t \in ToSet(waitq)

WaitReturn(t) ==
    /\ hthr # t /\ rpc[t] \in Asleep
    /\ ~InWaitq(t)
    /\ ReaderGoto(t, IF rpc[t] = "l_asleep" THEN "l_done" ELSE "c_read")
    /\ UNCHANGED <<kbdLock, kbdState, bufVars, lineVars, cvVars, got, keyVars>>

ReadReturn(t) ==
    /\ hthr # t /\ rpc[t] \in {"l_early", "l_done", "c_done"}
    /\ kbdLock' = Nil
    /\ given' = IF rpc[t] = "c_done" /\ got[t] # 0 THEN Append(given, got[t]) ELSE given
    /\ ReaderGoto(t, "out")
    /\ UNCHANGED <<kbdState, bufVars, lineVars, cvVars, got, hpc, hthr, kind, dropped, stray>>
-----------------------------------------------------------------------------
(* kbd_int_handler, on top of thread p (or Idle) *)

(* signal(), raw: dequeue and rq_add.  Whoever sleeps in kbd_wait holds    *)
(* kbd_lock, so nobody else wants the spinlock meanwhile and the call is   *)
(* one step from the moment the spinlock is free.                          *)
Signal == waitq' = IF waitq = <<>> THEN waitq ELSE Tail(waitq)

Interruptible(p) ==
    p = Other \/ (p \in Readers /\ ~(rpc[p] \in Asleep /\ InWaitq(p)))

HandlerDone == hpc' = "idle" /\ hthr' = Nil

HandlerAt(label, p) == hpc' = label /\ hthr' = p

(* getline_buf is not the buffer of a call in progress, or its end is past *)
OffBuffer ==
    \/ getBuf = Nil
    \/ rpc[getBuf] \notin LinePCs \ {"l_state", "l_buf"}
    \/ getCount >= LineSize

(* Somebody wants a line: interrupts stay disabled, up to spin_lock.       *)
KeyForLine(p, k) ==
    /\ kbdState = "LINE"
    /\ UpdateGetlineGlobals(Len(kind'), k)
    /\ stray' = (stray \/ OffBuffer)
    /\ IF ~LineFull(k)
       THEN HandlerDone /\ UNCHANGED <<kbdState, waitq>>
       ELSE /\ kbdState' = "NONE"
            /\ IF spin = Nil
               THEN Signal /\ HandlerDone
               ELSE HandlerAt("signal", p) /\ UNCHANGED waitq
    /\ UNCHANGED bufVars

(* Somebody wants a character: buffer_write enables interrupts.            *)
KeyForChar(p) ==
    /\ kbdState = "CHAR"
    /\ BufferWrite(Len(kind'))
    /\ HandlerAt("char", p)
    /\ UNCHANGED <<kbdState, lineVars, waitq, takenVars, stray>>

KeyForNobody ==
    /\ kbdState = "NONE"
    /\ BufferWrite(Len(kind'))
    /\ HandlerDone
    /\ UNCHANGED <<kbdState, lineVars, waitq, takenVars, stray>>

KeyPress(p, k) ==
    /\ hpc = "idle" /\ Len(kind) < MaxKeys
    /\ Interruptible(p)
    /\ kind' = Append(kind, k)
    /\ KeyForLine(p, k) \/ KeyForChar(p) \/ KeyForNobody
    /\ UNCHANGED <<kbdLock, spin, rpc, got>>

HandlerClearState ==
    /\ hpc = "char"
    /\ kbdState' = "NONE"
    /\ HandlerAt("signal", hthr)
    /\ UNCHANGED <<kbdLock, bufVars, lineVars, cvVars, rpc, got, kind, takenVars, stray>>

HandlerSignal ==
    /\ hpc = "signal"
    /\ spin = Nil
    /\ Signal
    /\ HandlerDone
    /\ UNCHANGED <<kbdLock, kbdState, bufVars, lineVars, spin, rpc, got, kind, takenVars, stray>>

GetlineStep(t) == SetBuf(t) \/ SetCount(t) \/ LineDrain(t) \/ LineUpdate(t)

WaitStep(t) == WaitLock(t) \/ WaitEnqueue(t) \/ WaitPark(t) \/ WaitReturn(t)

KbdNext ==
    \/ \E t \in Readers :
          \/ CallRead(t, "l_state") \/ CallRead(t, "c_state") \/ SetState(t)
          \/ GetlineStep(t) \/ CharRead(t) \/ WaitStep(t) \/ ReadReturn(t)
    \/ \E p \in Readers \cup {Other}, k \in Kinds : KeyPress(p, k)
    \/ HandlerClearState \/ HandlerSignal

KbdSpec == KbdInit /\ [][KbdNext]_kbdVars

-----------------------------------------------------------------------------
(***************************************************************************)
(* Properties.                                                             *)
(***************************************************************************)

Keys == 1 .. Len(kind)

KbdTypes ==
    /\ kbdLock \in Readers \cup {Nil}
    /\ kbdState \in {"NONE", "CHAR", "LINE"}
    /\ buf \in [0 .. Size - 1 -> 0 .. MaxKeys]
    /\ bufR \in 0 .. Size - 1 /\ bufW \in 0 .. Size - 1
    /\ bufCount \in 0 .. MaxKeys /\ overrun \in BOOLEAN
    /\ getBuf \in Readers \cup {Nil} /\ getCount \in 0 .. MaxKeys
    /\ spin \in Readers \cup {Nil} /\ waitq \in Seq(Readers)
    /\ rpc \in [Readers -> {"out"} \cup LinePCs \cup CharPCs]
    /\ got \in [Readers -> 0 .. MaxKeys]
    /\ hpc \in {"idle", "char", "signal"}
    /\ hthr \in Readers \cup {Other, Nil}
    /\ kind \in Seq(Kinds)
    /\ given \in Seq(Keys) /\ dropped \in Seq(Keys) /\ stray \in BOOLEAN

(* One thread at most sleeps in kbd_wait, is queued there once, and holds  *)
(* kbd_lock: what makes signalling without a mutex meet the right thread,  *)
(* and rq_add's assert hold for the thread it is given (sched.c:49).       *)
OneSleeper ==
    /\ Len(waitq) <= 1
    /\ \A t \in Readers : InWaitq(t) =>
          /\ kbdLock = t
          /\ rpc[t] \in Asleep \/ spin = t

(* With that, and the indices within the buffer and the line.              *)
KbdConsistent == KbdTypes /\ OneSleeper

(* The unread part of the circular buffer, oldest first *)
Unread == [i \in 1 .. bufCount |-> buf[(bufR + i - 1) % Size]]

(* The readers that have read a key, and neither put it into the line nor  *)
(* returned it nor overwritten it.                                         *)
Holding == {t \in Readers : rpc[t] \in {"l_update"} \cup CharPCs /\ got[t] # 0}

InHand == {got[t] : t \in Holding}

(* Until the buffer overflows, each key was given to a reader, is unread   *)
(* in the order of typing, is in one reader's hand, or was dropped, and is *)
(* so once: wherever the two indices wrap, the handler and the readers     *)
(* neither repeat a key nor lose track of one (keyboard.c:200-251).  What  *)
(* is dropped is what kbd_getchar reads over (keyboard.c:54-58) and what   *)
(* is written where no call in progress has its line, or past its end      *)
(* (keyboard.c:82-87,98-100,155-161).                                      *)
KeysConserved ==
    ~overrun =>
        /\ \A i, j \in 1 .. bufCount : i < j => Unread[i] < Unread[j]
        /\ Keys = ToSet(given) \cup ToSet(dropped) \cup ToSet(Unread) \cup InHand
        /\ Len(kind) = Len(given) + Len(dropped) + bufCount + Cardinality(Holding)

(* No key is given twice, whatever the buffer has overwritten.             *)
GivenOnce == \A i, j \in DOMAIN given : given[i] = given[j] => i = j

(* No key is dropped while there is room for it: readers get the keys that *)
(* are typed.  Refuted by both of the ways above.                          *)
NoKeyDropped == overrun \/ dropped = <<>>

(* getchar retrieves the next character (keyboard.c:37): having read one,  *)
(* it reads no other.  Refuted: the loop goes on until the buffer is empty *)
(* (keyboard.c:54).                                                        *)
GetcharTakesOne ==
    [][\A t \in Readers : rpc[t] = "c_read" /\ got[t] # 0 => got'[t] = got[t]]_kbdVars

(* getchar returns a character somebody typed, not an uninitialised local. *)
GetcharReadsKey == \A t \in Readers : rpc[t] = "c_done" => got[t] # 0

(* A thread asleep in getline will be signalled: the handler knows of it.  *)
SleeperIsAwaited ==
    \A t \in Readers : rpc[t] = "l_asleep" /\ InWaitq(t) =>
        kbdState = "LINE" \/ hpc # "idle"

(* The handler never waits for a spinlock that the thread it stands on     *)
(* holds: that thread cannot release it.                                   *)
HandlerNotStuck == ~(hpc = "signal" /\ spin # Nil /\ spin = hthr)

(* The keys of lines and characters are given in the order they are typed. *)
TypedOrder == \A i, j \in DOMAIN given : i < j => given[i] < given[j]

(* The handler writes only into the line buffer of a call in progress, and *)
(* within it.                                                              *)
WritesLiveBuffer == ~stray
=============================================================================
