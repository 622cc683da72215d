-------------------------- MODULE ThreadMgmtProofs --------------------------
(***************************************************************************)
(* The thread list, deschedule and make_runnable, for any number of        *)
(* threads and TIDs: the list stays in order, no wakeup is lost, only      *)
(* descheduled threads are woken, and a TCB that may be freed is nobody's. *)
(*                                                                         *)
(* The inductive invariant says which locks a thread has asked for at      *)
(* each statement.  It either owns them or waits, and it waits for the     *)
(* last one only; so the holder of the list's lock is alone with the list, *)
(* and the holder of a thread's lock is alone with that thread's mark.     *)
(***************************************************************************)
EXTENDS ThreadMgmt, SchedProofs, WellFoundedInduction

-----------------------------------------------------------------------------
(* The inductive invariant *)

Has(x, m) == mutex[m].owner = x

Waits(x, m) == x \in ToSet(mutex[m].queue)

(* By the statement a thread stands at: the locks it has asked for and not *)
(* given up, and the one it asked for last, for which it may be waiting.   *)
OwnHeld == {"d_attrs", "d_test", "d_block", "v_own"}
ListHeld == {"m_find", "m_unlist", "f_add", "f_unlist", "v_del", "v_own", "v_unlist"}
Finding == {"m_unlist", "m_test", "m_wake", "m_unlock"}

Asks(t, m) ==
    \/ m = t /\ pc[t] \in OwnHeld
    \/ m = List /\ pc[t] \in ListHeld
    \/ m = ptr[t] /\ pc[t] \in Finding

AskedLast(t, m) ==
    \/ m = t /\ pc[t] \in {"d_attrs", "v_own"}
    \/ m = List /\ pc[t] \in {"m_find", "f_add", "v_del"}
    \/ m = ptr[t] /\ pc[t] = "m_unlist"

Types ==
    /\ SchedInv
    /\ lastTid \in 1 .. MaxTid
    /\ tid \in [Procs -> 0 .. MaxTid]
    /\ mutex \in [Locks -> [owner : Threads \cup {None}, queue : Seq(Threads)]]
    /\ desched \in [Procs -> BOOLEAN]
    /\ word \in [Threads -> 0 .. 1]
    /\ mapped \in [Threads -> BOOLEAN]
    /\ pc \in [Threads -> PCs]
    /\ arg \in [Threads -> 0 .. MaxTid]
    /\ ptr \in [Threads -> Procs \cup {None}]

Lines ==
    \A m \in Locks :
        /\ IsLine(mutex[m].queue)
        /\ mutex[m].owner = None => mutex[m].queue = <<>>

(* Who waits asked last for what it waits for; who has asked owns or       *)
(* waits; who owns has asked, or was killed with its own lock in hand.     *)
Requests ==
    \A t \in Threads : \A m \in Locks :
        /\ Waits(t, m) => tstate[t] = "BLOCKED" /\ AskedLast(t, m)
        /\ Asks(t, m) => Has(t, m) \/ Waits(t, m)
        /\ Has(t, m) => Asks(t, m) \/ (m = t /\ pc[t] \in {"v_list", "v_del"})

(* Who has not been launched, or is dead, is not runnable. *)
Lifeless ==
    \A t \in Threads :
        /\ pc[t] = "nascent" => tstate[t] = "NASCENT"
        /\ pc[t] \in {"gone", "absent"} => tstate[t] = "BLOCKED"

(* desched marks who has passed the test of deschedule, until a call of    *)
(* make_runnable has taken the mark and is about to wake it.               *)
Marked ==
    /\ \A p \in Procs : desched[p] =>
           p \in Threads /\ (pc[p] = "d_block" \/ Asleep(p))
    /\ \A t \in Threads : pc[t] = "d_block" => desched[t]
    /\ \A t \in Threads : Asleep(t) =>
           desched[t] \/ \E u \in Threads : pc[u] = "m_wake" /\ ptr[u] = t
    /\ \A t \in Threads : pc[t] = "m_wake" =>
           ptr[t] \in Threads /\ Asleep(ptr[t]) /\ ~desched[ptr[t]]

Forking == {"f_list", "f_add", "f_unlist", "f_launch", "f_panic"}
Leaving == {"v_unlist", "v_block", "gone", "absent"}

(* A call points to the thread it creates, which is its own, or to the     *)
(* thread it has found, which has not gone past its own lock.              *)
Pointers ==
    /\ \A t \in Threads : ptr[t] # None <=> pc[t] \in Finding \cup Forking
    /\ \A t \in Threads : pc[t] \in Forking =>
           ptr[t] \in Threads /\ pc[ptr[t]] = "nascent"
    /\ \A t, u \in Threads :
           pc[t] \in Forking /\ pc[u] \in Forking /\ ptr[t] = ptr[u] => t = u
    /\ \A t, u \in Threads : pc[t] \in Leaving => ptr[u] # t

(* Who is in the thread list. *)
Listed ==
    /\ IsQueue(thrlist)
    /\ Idle \in ToSet(thrlist)
    /\ \A t \in Threads : pc[t] # "nascent" =>
           (t \in ToSet(thrlist) <=> pc[t] \notin Leaving \cup {"v_own"})
    /\ \A t \in Threads : pc[t] \in {"f_list", "f_add"} => ptr[t] \notin ToSet(thrlist)
    /\ \A t \in Threads : pc[t] \in {"f_unlist", "f_launch", "m_unlist"} =>
           ptr[t] \in ToSet(thrlist)

(* The list ascends, and the TIDs past the rover are larger than the last  *)
(* that was given.                                                         *)
Ordered ==
    /\ \A i, j \in DOMAIN thrlist : i < j => tid[thrlist[i]] < tid[thrlist[j]]
    /\ \A p \in ToSet(thrlist) : tid[p] >= 1
    /\ tid[Idle] = 1
    /\ rover \in ToSet(thrlist) /\ tid[rover] <= lastTid
    /\ \A p \in ToSet(thrlist) : tid[p] > tid[rover] => tid[p] > lastTid

(* Whoever sleeps, or is past the test, and has been posted to is about to *)
(* be woken.                                                               *)
Posted ==
    \A t \in Threads : (pc[t] = "d_block" \/ Asleep(t)) /\ word[t] # 0 =>
        \E u \in Threads \ {t} : Waking(u, t)

IInv ==
    /\ Types /\ Lines /\ Requests /\ Lifeless /\ Marked /\ Pointers
    /\ Listed /\ Ordered /\ Posted

-----------------------------------------------------------------------------
(* Mutexes *)

LockState == mutex \in [Locks -> [owner : Threads \cup {None}, queue : Seq(Threads)]]

LEMMA FreeFacts ==
    /\ IsLine(<<>>) /\ ToSet(<<>>) = {}
    /\ Free \in [owner : Threads \cup {None}, queue : Seq(Threads)]
    /\ Free.owner = None /\ Free.queue = <<>>
<1>1. IsLine(<<>>) /\ ToSet(<<>>) = {}
  BY DEF IsLine, NoDuplicates, ToSet
<1> QED
  BY <1>1 DEF Free, IsLine

(* The thread on the CPU waits for nothing, so it owns what it asked for.  *)
LEMMA Runner ==
    ASSUME Types, Requests, NEW t \in Threads, curr = t
    PROVE  /\ tstate[t] = "RUNNABLE"
           /\ \A m \in Locks : ~Waits(t, m)
           /\ \A m \in Locks : Asks(t, m) => Has(t, m)
<1>1. tstate[t] = "RUNNABLE"
  BY DEF Types, SchedInv, RunqExact, Runnable
<1> QED
  BY <1>1 DEF Requests

(* What a step of t that takes m, or gives it up, leaves to the others. *)
LEMMA LockKeeps ==
    ASSUME Types, Lines, Requests, NEW t \in Threads, curr = t, NEW m \in Locks,
           Lock(m, t)
    PROVE  /\ SchedInv' /\ LockState' /\ Lines'
           /\ Has(t, m)' \/ Waits(t, m)'
           /\ Waits(t, m)' => tstate'[t] = "BLOCKED"
           /\ tstate' \in [Procs -> ThreadStates]
           /\ tstate'[t] \in {"RUNNABLE", "BLOCKED"}
           /\ \A p \in Procs : p # t => tstate'[p] = tstate[p]
           /\ \A x \in Threads : \A l \in Locks : x # t \/ l # m =>
                  (Has(x, l)' <=> Has(x, l)) /\ (Waits(x, l)' <=> Waits(x, l))
<1>0. /\ tstate[t] = "RUNNABLE" /\ \A l \in Locks : ~Waits(t, l)
      /\ SchedInv /\ t \in Procs /\ t # None
      /\ tstate \in [Procs -> ThreadStates]
      /\ \A l \in Locks : /\ mutex[l].owner \in Threads \cup {None}
                          /\ mutex[l].queue \in Seq(Threads)
  BY Runner, SchedAssumption DEF Types, Procs, SchedInv, SchedTypeOK
<1>1. CASE mutex[m].owner = None
  <2>1. mutex' = [mutex EXCEPT ![m].owner = t] /\ UNCHANGED schedVars
    BY <1>1 DEF Lock
  <2>2. /\ mutex[m].queue = <<>>
        /\ mutex'[m] = [owner |-> t, queue |-> <<>>]
        /\ \A l \in Locks : l # m => mutex'[l] = mutex[l]
    BY <1>0, <1>1, <2>1 DEF Lines, Types
  <2>3. LockState'
    BY <2>1, <2>2 DEF LockState, Types
  <2>4. SchedInv' /\ tstate' = tstate
    BY <1>0, <2>1 DEF SchedInv, SchedTypeOK, RunqExact, NoDuplicates, Runnable, schedVars
  <2>5. Lines'
    BY <1>0, <2>2, FreeFacts DEF Lines
  <2>6. \A x \in Threads : \A l \in Locks : x # t \/ l # m =>
            (Has(x, l)' <=> Has(x, l)) /\ (Waits(x, l)' <=> Waits(x, l))
    <3> SUFFICES ASSUME NEW x \in Threads, NEW l \in Locks, x # t \/ l # m
                 PROVE  (Has(x, l)' <=> Has(x, l)) /\ (Waits(x, l)' <=> Waits(x, l))
      OBVIOUS
    <3>1. CASE l = m
      BY <1>1, <2>2, <3>1, SchedAssumption DEF Has, Waits
    <3>2. CASE l # m
      BY <2>2, <3>2 DEF Has, Waits
    <3> QED BY <3>1, <3>2
  <2>7. Has(t, m)' /\ ~Waits(t, m)'
    BY <2>2, FreeFacts DEF Has, Waits
  <2> QED BY <1>0, <2>3, <2>4, <2>5, <2>6, <2>7
<1>2. CASE mutex[m].owner # None
  <2>1. mutex' = [mutex EXCEPT ![m].queue = Append(@, t)] /\ SchedBlock(t)
    BY <1>2 DEF Lock
  <2>2. /\ mutex'[m] = [owner |-> mutex[m].owner, queue |-> Append(mutex[m].queue, t)]
        /\ \A l \in Locks : l # m => mutex'[l] = mutex[l]
    BY <1>0, <2>1 DEF Types
  <2>3. /\ IsLine(Append(mutex[m].queue, t))
        /\ ToSet(Append(mutex[m].queue, t)) = ToSet(mutex[m].queue) \cup {t}
    BY <1>0, LineAppend DEF Lines, Waits
  <2>3a. Append(mutex[m].queue, t) \in Seq(Threads)
    BY <2>3 DEF IsLine
  <2>4. LockState'
    <3>1. mutex'[m] \in [owner : Threads \cup {None}, queue : Seq(Threads)]
      BY <1>0, <2>2, <2>3a
    <3> QED BY <2>1, <2>2, <3>1 DEF LockState, Types
  <2>5. SchedInv'
    BY <1>0, <2>1, SchedBlockKeepsInv
  <2>6. tstate' = [tstate EXCEPT ![t] = "BLOCKED"]
    BY <2>1 DEF SchedBlock
  <2>7. Lines'
    <3> SUFFICES ASSUME NEW l \in Locks
                 PROVE  /\ IsLine(mutex'[l].queue)
                        /\ mutex'[l].owner = None => mutex'[l].queue = <<>>
      BY DEF Lines
    <3>1. CASE l = m
      <4>1. mutex'[l].queue = Append(mutex[m].queue, t) /\ mutex'[l].owner # None
        BY <1>2, <2>2, <3>1
      <4> QED BY <2>3, <4>1
    <3>2. CASE l # m
      BY <2>2, <3>2 DEF Lines
    <3> QED BY <3>1, <3>2
  <2>8. \A x \in Threads : \A l \in Locks : x # t \/ l # m =>
            (Has(x, l)' <=> Has(x, l)) /\ (Waits(x, l)' <=> Waits(x, l))
    <3> SUFFICES ASSUME NEW x \in Threads, NEW l \in Locks, x # t \/ l # m
                 PROVE  (Has(x, l)' <=> Has(x, l)) /\ (Waits(x, l)' <=> Waits(x, l))
      OBVIOUS
    <3>1. CASE l = m
      <4>1. /\ mutex'[l].owner = mutex[l].owner
            /\ mutex'[l].queue = Append(mutex[l].queue, t)
        BY <2>2, <3>1
      <4>2. ToSet(mutex'[l].queue) = ToSet(mutex[l].queue) \cup {t}
        BY <2>3, <3>1, <4>1
      <4> QED BY <3>1, <4>1, <4>2 DEF Has, Waits
    <3>2. CASE l # m
      BY <2>2, <3>2 DEF Has, Waits
    <3> QED BY <3>1, <3>2
  <2>9. Waits(t, m)'
    BY <2>2, <2>3 DEF Waits
  <2> QED BY <1>0, <2>4, <2>5, <2>6, <2>7, <2>8, <2>9 DEF ThreadStates
<1> QED BY <1>1, <1>2

(* The heir of m, if there is one, was waiting for it. *)
Released(m, t) ==
    /\ LockState' /\ Lines'
    /\ ~Has(t, m)' /\ ~Waits(t, m)'
    /\ \A x \in Threads : \A l \in Locks : l # m =>
           (Has(x, l)' <=> Has(x, l)) /\ (Waits(x, l)' <=> Waits(x, l))
    /\ \A x \in Threads : x # t =>
           (Has(x, m)' \/ Waits(x, m)' <=> Has(x, m) \/ Waits(x, m))
    /\ \A x \in Threads : x # t =>
           (Waits(x, m)' => Waits(x, m) /\ tstate'[x] = tstate[x])
    /\ \A p \in Procs : p # t /\ tstate'[p] # tstate[p] =>
           p \in Threads /\ Waits(p, m) /\ tstate'[p] = "RUNNABLE"

LEMMA Emptied ==
    ASSUME Types, Lines, Requests, NEW t \in Threads, curr = t, NEW m \in Locks,
           Has(t, m), mutex[m].queue = <<>>,
           mutex' = [mutex EXCEPT ![m] = Free],
           \A p \in Procs : p # t => tstate'[p] = tstate[p]
    PROVE  Released(m, t)
<1>1. mutex'[m] = Free /\ \A l \in Locks : l # m => mutex'[l] = mutex[l]
  BY DEF Types
<1>2. LockState'
  BY FreeFacts DEF LockState, Types
<1>3. Lines'
  BY <1>1, FreeFacts DEF Lines
<1>4. \A x \in Threads : ~Has(x, m)' /\ ~Waits(x, m)' /\ ~Waits(x, m)
  BY <1>1, FreeFacts, SchedAssumption DEF Has, Waits
<1>5. \A x \in Threads : x # t => ~Has(x, m)
  BY DEF Has
<1>6. \A x \in Threads : \A l \in Locks : l # m =>
          (Has(x, l)' <=> Has(x, l)) /\ (Waits(x, l)' <=> Waits(x, l))
  BY <1>1 DEF Has, Waits
<1> HIDE DEF Has, Waits
<1> QED
  BY <1>2, <1>3, <1>4, <1>5, <1>6 DEF Released

LEMMA HandedOver ==
    ASSUME Types, Lines, Requests, NEW t \in Threads, curr = t, NEW m \in Locks,
           Has(t, m), mutex[m].queue # <<>>, HandOver(m),
           \A p \in Procs : p # t /\ p # Head(mutex[m].queue) => tstate'[p] = tstate[p],
           tstate'[Head(mutex[m].queue)] = "RUNNABLE"
    PROVE  Released(m, t)
<1> DEFINE q == mutex[m].queue
           h == Head(q)
<1>1. /\ h \in Threads /\ h \in ToSet(q)
      /\ IsLine(Tail(q)) /\ ToSet(Tail(q)) = ToSet(q) \ {h}
  BY LineTail DEF Lines
<1>2. /\ mutex'[m] = [owner |-> h, queue |-> Tail(q)]
      /\ \A l \in Locks : l # m => mutex'[l] = mutex[l]
  BY DEF HandOver, Types
<1>3. t # h /\ ~Waits(t, m)
  BY <1>1, Runner DEF Waits
<1>3a. Waits(h, m)
  BY <1>1 DEF Waits
<1> HIDE DEF h, q
<1>4. LockState'
  <2>1. mutex'[m] \in [owner : Threads \cup {None}, queue : Seq(Threads)]
    BY <1>1, <1>2 DEF IsLine
  <2>2. mutex' = [mutex EXCEPT ![m] = mutex'[m]]
    BY <1>2 DEF HandOver, Types
  <2> QED BY <2>1, <2>2 DEF LockState, Types
<1>5. Lines'
  <2> SUFFICES ASSUME NEW l \in Locks
               PROVE  /\ IsLine(mutex'[l].queue)
                      /\ mutex'[l].owner = None => mutex'[l].queue = <<>>
    BY DEF Lines
  <2>1. CASE l = m
    <3>1. mutex'[l].queue = Tail(q) /\ mutex'[l].owner # None
      BY <1>1, <1>2, <2>1, SchedAssumption
    <3> QED BY <1>1, <3>1
  <2>2. CASE l # m
    BY <1>2, <2>2 DEF Lines
  <2> QED BY <2>1, <2>2
<1>6. ~Has(t, m)' /\ ~Waits(t, m)'
  BY <1>1, <1>2, <1>3 DEF Has, Waits, q
<1>7. \A x \in Threads : x # t => ~Has(x, m)
  BY DEF Has
<1>8. \A x \in Threads : /\ Has(x, m)' <=> x = h
                         /\ Waits(x, m)' <=> Waits(x, m) /\ x # h
  BY <1>1, <1>2 DEF Has, Waits, q
<1>9. \A x \in Threads : \A l \in Locks : l # m =>
          (Has(x, l)' <=> Has(x, l)) /\ (Waits(x, l)' <=> Waits(x, l))
  BY <1>2 DEF Has, Waits
<1>10. Threads \subseteq Procs
  BY DEF Procs
<1>11. /\ \A p \in Procs : p # t /\ p # h => tstate'[p] = tstate[p]
       /\ tstate'[h] = "RUNNABLE"
  BY DEF h, q
<1> HIDE DEF Has, Waits
<1> QED
  BY <1>1, <1>3, <1>3a, <1>4, <1>5, <1>6, <1>7, <1>8, <1>9, <1>10, <1>11 DEF Released

LEMMA HeirBlocked ==
    ASSUME Types, Lines, Requests, NEW m \in Locks, mutex[m].queue # <<>>
    PROVE  Head(mutex[m].queue) \in Threads /\ tstate[Head(mutex[m].queue)] = "BLOCKED"
<1>1. Head(mutex[m].queue) \in Threads /\ Waits(Head(mutex[m].queue), m)
  BY LineTail DEF Lines, Waits
<1> QED BY <1>1 DEF Requests

LEMMA UnlockKeeps ==
    ASSUME Types, Lines, Requests, NEW t \in Threads, curr = t, NEW m \in Locks,
           Has(t, m), Unlock(m)
    PROVE  SchedInv' /\ Released(m, t) /\ tstate'[t] = "RUNNABLE"
<1>0. /\ tstate[t] = "RUNNABLE" /\ SchedInv /\ t \in Procs
      /\ tstate \in [Procs -> ThreadStates]
  BY Runner DEF Types, Procs, SchedInv, SchedTypeOK
<1>1. CASE mutex[m].queue = <<>>
  <2>1. mutex' = [mutex EXCEPT ![m] = Free] /\ UNCHANGED schedVars
    BY <1>1 DEF Unlock
  <2>2. SchedInv'
    BY <1>0, <2>1 DEF SchedInv, SchedTypeOK, RunqExact, NoDuplicates, Runnable, schedVars
  <2> QED BY <1>0, <1>1, <2>1, <2>2, Emptied DEF schedVars
<1>2. CASE mutex[m].queue # <<>>
  <2> DEFINE h == Head(mutex[m].queue)
  <2>1. HandOver(m) /\ SchedUnblock(h)
    BY <1>2 DEF Unlock
  <2>2. h \in Threads /\ tstate[h] = "BLOCKED" /\ h \in Procs
    BY <1>2, HeirBlocked DEF Procs
  <2>3. SchedInv'
    BY <1>0, <2>1, <2>2, SchedUnblockKeepsInv
  <2>4. tstate' = [tstate EXCEPT ![h] = "RUNNABLE"]
    BY <2>1 DEF SchedUnblock
  <2>5. /\ \A p \in Procs : p # t /\ p # h => tstate'[p] = tstate[p]
        /\ tstate'[h] = "RUNNABLE" /\ tstate'[t] = "RUNNABLE"
    BY <1>0, <2>2, <2>4
  <2> QED BY <1>2, <2>1, <2>3, <2>5, HandedOver
<1> QED BY <1>1, <1>2

LEMMA UnlockAndBlockKeeps ==
    ASSUME Types, Lines, Requests, NEW t \in Threads, curr = t, NEW m \in Locks,
           Has(t, m), UnlockAndBlock(m, t)
    PROVE  SchedInv' /\ Released(m, t) /\ tstate'[t] = "BLOCKED"
<1>0. /\ tstate[t] = "RUNNABLE" /\ SchedInv /\ t \in Procs
      /\ tstate \in [Procs -> ThreadStates]
  BY Runner DEF Types, Procs, SchedInv, SchedTypeOK
<1>1. CASE mutex[m].queue = <<>>
  <2>1. mutex' = [mutex EXCEPT ![m] = Free] /\ SchedBlock(t)
    BY <1>1 DEF UnlockAndBlock
  <2>2. SchedInv'
    BY <1>0, <2>1, SchedBlockKeepsInv
  <2>3. tstate' = [tstate EXCEPT ![t] = "BLOCKED"]
    BY <2>1 DEF SchedBlock
  <2>4. tstate'[t] = "BLOCKED" /\ \A p \in Procs : p # t => tstate'[p] = tstate[p]
    BY <1>0, <2>3
  <2> QED BY <1>1, <2>1, <2>2, <2>4, Emptied
<1>2. CASE mutex[m].queue # <<>>
  <2> DEFINE h == Head(mutex[m].queue)
  <2>1. HandOver(m) /\ SchedSwap(t, h)
    BY <1>2 DEF UnlockAndBlock
  <2>2. h \in Threads /\ tstate[h] = "BLOCKED" /\ h \in Procs /\ h # t
    BY <1>0, <1>2, HeirBlocked DEF Procs
  <2>3. SchedInv'
    BY <1>0, <2>1, <2>2, SchedSwapKeepsInv
  <2>4. tstate' = [tstate EXCEPT ![t] = "BLOCKED", ![h] = "RUNNABLE"]
    BY <2>1 DEF SchedSwap
  <2>5. /\ \A p \in Procs : p # t /\ p # h => tstate'[p] = tstate[p]
        /\ tstate'[h] = "RUNNABLE" /\ tstate'[t] = "BLOCKED"
    BY <1>0, <2>2, <2>4
  <2> QED BY <1>2, <2>1, <2>3, <2>5, HandedOver
<1> QED BY <1>1, <1>2

-----------------------------------------------------------------------------
(* What most steps leave alone, one lemma for each part of the invariant.  *)

(* One thread goes on to the statement b. *)
Moves(t, b) ==
    /\ pc' \in [Threads -> PCs] /\ pc'[t] = b
    /\ \A x \in Threads : x # t => pc'[x] = pc[x]

OthersStay(t) ==
    \A x \in Threads : x # t => ptr'[x] = ptr[x] /\ arg'[x] = arg[x]

LockWait == {"d_attrs", "v_own", "m_find", "f_add", "v_del", "m_unlist"}

(* Nobody but t changes its state, except for waiters that get their lock. *)
Calm(t) ==
    \A p \in Procs : p # t /\ tstate'[p] # tstate[p] =>
        p \in Threads /\ pc[p] \in LockWait /\ tstate'[p] = "RUNNABLE"

LEMMA GotoMoves ==
    ASSUME Types, NEW t \in Threads, NEW b \in PCs, Goto(t, b)
    PROVE  Moves(t, b)
  BY DEF Types, Goto, Moves

LEMMA ReleasedCalm ==
    ASSUME Requests, NEW t \in Threads, NEW m \in Locks, Released(m, t)
    PROVE  Calm(t)
<1> SUFFICES ASSUME NEW p \in Procs, p # t, tstate'[p] # tstate[p]
             PROVE  p \in Threads /\ pc[p] \in LockWait /\ tstate'[p] = "RUNNABLE"
  BY DEF Calm
<1>1. p \in Threads /\ Waits(p, m) /\ tstate'[p] = "RUNNABLE"
  BY DEF Released
<1>2. AskedLast(p, m)
  BY <1>1 DEF Requests
<1> QED BY <1>1, <1>2 DEF AskedLast, LockWait

LEMMA RequestsKept ==
    ASSUME Requests, NEW S \in SUBSET Threads,
           \A x \in Threads \ S : pc'[x] = pc[x] /\ ptr'[x] = ptr[x],
           \A x \in Threads \ S : \A l \in Locks :
               (Has(x, l)' \/ Waits(x, l)' <=> Has(x, l) \/ Waits(x, l)),
           \A x \in Threads \ S : \A l \in Locks :
               Waits(x, l)' => Waits(x, l) /\ tstate'[x] = tstate[x],
           \A x \in S : \A l \in Locks :
               /\ Waits(x, l)' => tstate'[x] = "BLOCKED" /\ AskedLast(x, l)'
               /\ Asks(x, l)' => Has(x, l)' \/ Waits(x, l)'
               /\ Has(x, l)' => Asks(x, l)' \/ (l = x /\ pc'[x] \in {"v_list", "v_del"})
    PROVE  Requests'
<1> SUFFICES ASSUME NEW x \in Threads, NEW l \in Locks
             PROVE  /\ Waits(x, l)' => tstate'[x] = "BLOCKED" /\ AskedLast(x, l)'
                    /\ Asks(x, l)' => Has(x, l)' \/ Waits(x, l)'
                    /\ Has(x, l)' => Asks(x, l)' \/ (l = x /\ pc'[x] \in {"v_list", "v_del"})
  BY DEF Requests
<1>1. CASE x \in S
  BY <1>1
<1>2. CASE x \notin S
  <2>1. /\ Asks(x, l)' <=> Asks(x, l)
        /\ AskedLast(x, l)' <=> AskedLast(x, l)
    BY <1>2 DEF Asks, AskedLast
  <2>2. AskedLast(x, l) => Asks(x, l)
    BY DEF Asks, AskedLast, OwnHeld, ListHeld, Finding
  <2>3. /\ Waits(x, l) => tstate[x] = "BLOCKED" /\ AskedLast(x, l)
        /\ Asks(x, l) => Has(x, l) \/ Waits(x, l)
        /\ Has(x, l) => Asks(x, l) \/ (l = x /\ pc[x] \in {"v_list", "v_del"})
    BY DEF Requests
  <2>4. /\ pc'[x] = pc[x]
        /\ Has(x, l)' \/ Waits(x, l)' <=> Has(x, l) \/ Waits(x, l)
        /\ Waits(x, l)' => Waits(x, l) /\ tstate'[x] = tstate[x]
    BY <1>2
  <2> HIDE DEF Asks, AskedLast, Has, Waits
  <2> QED BY <2>1, <2>2, <2>3, <2>4
<1> QED BY <1>1, <1>2

(* A step of t that takes no lock and gives none up. *)
LEMMA NoLock ==
    ASSUME Types, Lines, Requests, NEW t \in Threads, curr = t, NEW b, Moves(t, b),
           OthersStay(t), UNCHANGED mutex,
           \A p \in Threads : p # t /\ pc[p] \in LockWait => tstate'[p] = tstate[p],
           \A l \in Locks :
               /\ Asks(t, l)' => Asks(t, l)
               /\ Has(t, l) => Asks(t, l)' \/ (l = t /\ b \in {"v_list", "v_del"})
    PROVE  Lines' /\ Requests'
<1>1. \A x \in Threads : \A l \in Locks :
          (Has(x, l)' <=> Has(x, l)) /\ (Waits(x, l)' <=> Waits(x, l))
  BY DEF Has, Waits
<1>2. Lines'
  BY DEF Lines
<1>3. \A l \in Locks : ~Waits(t, l) /\ (Asks(t, l) => Has(t, l))
  BY Runner
<1>4. \A x \in Threads : \A l \in Locks : Waits(x, l) => pc[x] \in LockWait
  <2>1. \A x \in Threads : \A l \in Locks : AskedLast(x, l) => pc[x] \in LockWait
    BY DEF AskedLast, LockWait
  <2> QED BY <2>1 DEF Requests
<1> HIDE DEF Has, Waits, Asks, AskedLast
<1>5. \A x \in {t} : \A l \in Locks :
          /\ Waits(x, l)' => tstate'[x] = "BLOCKED" /\ AskedLast(x, l)'
          /\ Asks(x, l)' => Has(x, l)' \/ Waits(x, l)'
          /\ Has(x, l)' => Asks(x, l)' \/ (l = x /\ pc'[x] \in {"v_list", "v_del"})
  BY <1>1, <1>3 DEF Moves
<1>6. \A x \in Threads \ {t} : pc'[x] = pc[x] /\ ptr'[x] = ptr[x]
  BY DEF Moves, OthersStay
<1>7. Requests'
  <2> DEFINE S == {t}
  <2>1. S \in SUBSET Threads
    OBVIOUS
  <2>2. \A x \in Threads \ S : \A l \in Locks :
            (Has(x, l)' \/ Waits(x, l)' <=> Has(x, l) \/ Waits(x, l))
    BY <1>1
  <2>3. \A x \in Threads \ S : \A l \in Locks :
            Waits(x, l)' => Waits(x, l) /\ tstate'[x] = tstate[x]
    BY <1>1, <1>4
  <2> HIDE DEF S
  <2> QED BY <1>5, <1>6, <2>1, <2>2, <2>3, RequestsKept DEF S
<1> QED BY <1>2, <1>7

(* A step that asks for m. *)
LEMMA TakeLock ==
    ASSUME Types, Lines, Requests, NEW t \in Threads, curr = t, NEW b, Moves(t, b),
           OthersStay(t), NEW m \in Locks, Lock(m, t),
           AskedLast(t, m)',
           \A l \in Locks : l # m =>
               /\ Asks(t, l)' => Asks(t, l)
               /\ Has(t, l) => Asks(t, l)' \/ (l = t /\ b \in {"v_list", "v_del"})
    PROVE  SchedInv' /\ LockState' /\ Lines' /\ Requests' /\ Calm(t)
<1>1. /\ SchedInv' /\ LockState' /\ Lines'
      /\ Has(t, m)' \/ Waits(t, m)'
      /\ Waits(t, m)' => tstate'[t] = "BLOCKED"
      /\ \A p \in Procs : p # t => tstate'[p] = tstate[p]
      /\ \A x \in Threads : \A l \in Locks : x # t \/ l # m =>
             (Has(x, l)' <=> Has(x, l)) /\ (Waits(x, l)' <=> Waits(x, l))
  BY LockKeeps
<1>2. \A l \in Locks : ~Waits(t, l) /\ (Asks(t, l) => Has(t, l))
  BY Runner
<1>3. Asks(t, m)'
  BY DEF Asks, AskedLast, OwnHeld, ListHeld, Finding
<1>4. \A x \in Threads \ {t} : pc'[x] = pc[x] /\ ptr'[x] = ptr[x] /\ tstate'[x] = tstate[x]
  BY <1>1 DEF Moves, OthersStay, Procs
<1>5. pc'[t] = b
  BY DEF Moves
<1> HIDE DEF Has, Waits, Asks, AskedLast
<1>6. \A x \in {t} : \A l \in Locks :
          /\ Waits(x, l)' => tstate'[x] = "BLOCKED" /\ AskedLast(x, l)'
          /\ Asks(x, l)' => Has(x, l)' \/ Waits(x, l)'
          /\ Has(x, l)' => Asks(x, l)' \/ (l = x /\ pc'[x] \in {"v_list", "v_del"})
  <2> SUFFICES ASSUME NEW l \in Locks
               PROVE  /\ Waits(t, l)' => tstate'[t] = "BLOCKED" /\ AskedLast(t, l)'
                      /\ Asks(t, l)' => Has(t, l)' \/ Waits(t, l)'
                      /\ Has(t, l)' => Asks(t, l)' \/ (l = t /\ pc'[t] \in {"v_list", "v_del"})
    OBVIOUS
  <2>1. CASE l = m
    BY <1>1, <1>3, <2>1
  <2>2. CASE l # m
    BY <1>1, <1>2, <1>5, <2>2
  <2> QED BY <2>1, <2>2
<1>7. Requests'
  <2>1. \A x \in Threads \ {t} : \A l \in Locks :
            (Has(x, l)' <=> Has(x, l)) /\ (Waits(x, l)' <=> Waits(x, l))
    BY <1>1
  <2> DEFINE S == {t}
  <2>2. S \in SUBSET Threads
    OBVIOUS
  <2>3. \A x \in Threads \ S : \A l \in Locks :
            (Has(x, l)' \/ Waits(x, l)' <=> Has(x, l) \/ Waits(x, l))
    BY <2>1
  <2>4. \A x \in Threads \ S : \A l \in Locks :
            Waits(x, l)' => Waits(x, l) /\ tstate'[x] = tstate[x]
    BY <1>4, <2>1
  <2> HIDE DEF S
  <2> QED BY <1>4, <1>6, <2>2, <2>3, <2>4, RequestsKept DEF S
<1>8. Calm(t)
  BY <1>1 DEF Calm
<1> QED BY <1>1, <1>7, <1>8

(* A step that gives m up, and may block. *)
LEMMA GiveLock ==
    ASSUME Types, Lines, Requests, NEW t \in Threads, curr = t, NEW b, Moves(t, b),
           OthersStay(t), NEW m \in Locks, Has(t, m),
           Unlock(m) \/ UnlockAndBlock(m, t),
           ~Asks(t, m)',
           \A l \in Locks : l # m =>
               /\ Asks(t, l)' => Asks(t, l)
               /\ Has(t, l) => Asks(t, l)' \/ (l = t /\ b \in {"v_list", "v_del"})
    PROVE  /\ SchedInv' /\ LockState' /\ Lines' /\ Requests' /\ Calm(t)
           /\ UnlockAndBlock(m, t) => tstate'[t] = "BLOCKED"
<1>1. SchedInv' /\ Released(m, t)
  BY UnlockKeeps, UnlockAndBlockKeeps
<1>1a. UnlockAndBlock(m, t) => tstate'[t] = "BLOCKED"
  BY UnlockAndBlockKeeps
<1>2. \A l \in Locks : ~Waits(t, l) /\ (Asks(t, l) => Has(t, l))
  BY Runner
<1>4. \A x \in Threads \ {t} : pc'[x] = pc[x] /\ ptr'[x] = ptr[x]
  BY DEF Moves, OthersStay
<1>5. pc'[t] = b
  BY DEF Moves
<1> HIDE DEF Has, Waits, Asks, AskedLast
<1>6. \A x \in {t} : \A l \in Locks :
          /\ Waits(x, l)' => tstate'[x] = "BLOCKED" /\ AskedLast(x, l)'
          /\ Asks(x, l)' => Has(x, l)' \/ Waits(x, l)'
          /\ Has(x, l)' => Asks(x, l)' \/ (l = x /\ pc'[x] \in {"v_list", "v_del"})
  BY <1>1, <1>2, <1>5 DEF Released
<1>7. Requests'
  <2>1. \A x \in Threads \ {t} : \A l \in Locks :
            (Has(x, l)' \/ Waits(x, l)' <=> Has(x, l) \/ Waits(x, l))
    BY <1>1 DEF Released
  <2>2. \A x \in Threads \ {t} : \A l \in Locks :
            Waits(x, l)' => Waits(x, l) /\ tstate'[x] = tstate[x]
    <3> SUFFICES ASSUME NEW x \in Threads \ {t}, NEW l \in Locks, Waits(x, l)'
                 PROVE  Waits(x, l) /\ tstate'[x] = tstate[x]
      OBVIOUS
    <3>1. CASE l = m
      BY <1>1, <3>1 DEF Released
    <3>2. CASE l # m
      <4>1. Waits(x, l)
        BY <1>1, <3>2 DEF Released
      <4>2. AskedLast(x, l) /\ tstate[x] = "BLOCKED"
        BY <4>1 DEF Requests
      <4>3. tstate'[x] = tstate[x]
        <5> SUFFICES ASSUME tstate'[x] # tstate[x] PROVE FALSE
          OBVIOUS
        <5>1. Waits(x, m)
          BY <1>1 DEF Released, Procs
        <5>2. AskedLast(x, m)
          BY <5>1 DEF Requests
        <5>3. ptr[x] # List
          BY ThreadMgmtAssumption DEF Types
        <5>4. x # List
          BY ThreadMgmtAssumption DEF Procs
        <5> QED BY <3>2, <4>2, <5>2, <5>3, <5>4 DEF AskedLast
      <4> QED BY <4>1, <4>3
    <3> QED BY <3>1, <3>2
  <2> DEFINE S == {t}
  <2>3. S \in SUBSET Threads
    OBVIOUS
  <2> HIDE DEF S
  <2> QED BY <1>4, <1>6, <2>1, <2>2, <2>3, RequestsKept DEF S
<1> QED BY <1>1, <1>1a, <1>7, ReleasedCalm DEF Released

LEMMA LifelessKept ==
    ASSUME Lifeless, NEW t \in Threads, NEW b, Moves(t, b), Calm(t),
           b # "nascent", b \notin {"gone", "absent"}
    PROVE  Lifeless'
<1>1. \A x \in Threads : x # t /\ pc[x] \in {"nascent", "gone", "absent"} =>
          tstate'[x] = tstate[x]
  BY DEF Calm, LockWait, Procs
<1> QED BY <1>1 DEF Lifeless, Moves

LEMMA AsleepKept ==
    ASSUME NEW t \in Threads, NEW b, Moves(t, b), Calm(t),
           pc[t] # "d_asleep", b # "d_asleep"
    PROVE  \A x \in Threads : Asleep(x)' <=> Asleep(x)
<1>1. \A x \in Threads : x # t /\ pc[x] = "d_asleep" => tstate'[x] = tstate[x]
  BY DEF Calm, LockWait, Procs
<1> QED BY <1>1 DEF Asleep, Moves

LEMMA MarkedKept ==
    ASSUME Marked, NEW t \in Threads, NEW b, Moves(t, b), Calm(t), OthersStay(t),
           UNCHANGED desched,
           pc[t] \notin {"d_block", "d_asleep", "m_wake"},
           b \notin {"d_block", "d_asleep", "m_wake"}
    PROVE  Marked'
<1>1. \A x \in Threads : Asleep(x)' <=> Asleep(x)
  BY AsleepKept
<1>2. \A x \in Threads : /\ pc'[x] = "d_block" <=> pc[x] = "d_block"
                         /\ pc'[x] = "m_wake" <=> pc[x] = "m_wake"
                         /\ pc'[x] = "m_wake" => ptr'[x] = ptr[x]
  BY DEF Moves, OthersStay
<1> HIDE DEF Asleep
<1> QED BY <1>1, <1>2 DEF Marked

LEMMA PointersKept ==
    ASSUME Types, Pointers, NEW t \in Threads, NEW b, Moves(t, b), OthersStay(t),
           pc[t] # "nascent",
           ptr'[t] # None <=> b \in Finding \cup Forking,
           b \in Forking => pc[t] \in Forking /\ ptr'[t] = ptr[t],
           \A u \in Threads : ptr'[t] = u => ptr[t] = u \/ pc'[u] \notin Leaving,
           b \in Leaving => \A u \in Threads : ptr'[u] # t
    PROVE  Pointers'
<1>1. /\ pc'[t] = b
      /\ \A x \in Threads : x # t => pc'[x] = pc[x] /\ ptr'[x] = ptr[x]
  BY DEF Moves, OthersStay
<1>2. \A x \in Threads : ptr'[x] # None <=> pc'[x] \in Finding \cup Forking
  BY <1>1 DEF Pointers
<1>3. \A x \in Threads : pc'[x] \in Forking => pc[x] \in Forking /\ ptr'[x] = ptr[x]
  BY <1>1
<1>4. \A x \in Threads : pc'[x] \in Forking =>
          ptr'[x] \in Threads /\ pc'[ptr'[x]] = "nascent"
  BY <1>1, <1>3 DEF Pointers
<1>5. \A x, u \in Threads :
          pc'[x] \in Forking /\ pc'[u] \in Forking /\ ptr'[x] = ptr'[u] => x = u
  BY <1>3 DEF Pointers
<1>6. \A x, u \in Threads : pc'[x] \in Leaving => ptr'[u] # x
  <2> SUFFICES ASSUME NEW x \in Threads, NEW u \in Threads, pc'[x] \in Leaving
               PROVE  ptr'[u] # x
    OBVIOUS
  <2>1. CASE x = t
    BY <1>1, <2>1
  <2>2. CASE x # t
    BY <1>1, <2>2 DEF Pointers
  <2> QED BY <2>1, <2>2
<1> QED BY <1>2, <1>4, <1>5, <1>6 DEF Pointers

LEMMA ListedKept ==
    ASSUME Listed, NEW t \in Threads, NEW b, Moves(t, b), OthersStay(t),
           UNCHANGED thrlist, pc[t] # "nascent", b # "nascent",
           b \in Leaving \cup {"v_own"} <=> pc[t] \in Leaving \cup {"v_own"},
           b \in {"f_list", "f_add"} => ptr'[t] \notin ToSet(thrlist),
           b \in {"f_unlist", "f_launch", "m_unlist"} => ptr'[t] \in ToSet(thrlist)
    PROVE  Listed'
<1>1. /\ pc'[t] = b
      /\ \A x \in Threads : x # t => pc'[x] = pc[x] /\ ptr'[x] = ptr[x]
  BY DEF Moves, OthersStay
<1>2. IsQueue(thrlist)'
  BY DEF Listed, IsQueue, NoDuplicates
<1> QED BY <1>1, <1>2 DEF Listed

LEMMA OrderedKept ==
    ASSUME Ordered, UNCHANGED listVars
    PROVE  Ordered'
  BY DEF Ordered, listVars

LEMMA PostedKept ==
    ASSUME Posted, NEW t \in Threads, NEW b, Moves(t, b), Calm(t), OthersStay(t),
           UNCHANGED tid, \A x \in Threads : word'[x] # 0 /\ x # t => word[x] # 0,
           pc[t] \notin {"d_block", "d_asleep"}, b \notin {"d_block", "d_asleep"},
           \A x \in Threads : x # t /\ (pc[x] = "d_block" \/ Asleep(x)) /\ Waking(t, x)
               => Waking(t, x)'
    PROVE  Posted'
<1>1. \A x \in Threads : Asleep(x)' <=> Asleep(x)
  BY AsleepKept
<1> SUFFICES ASSUME NEW x \in Threads, pc'[x] = "d_block" \/ Asleep(x)', word'[x] # 0
             PROVE  \E u \in Threads \ {x} : Waking(u, x)'
  BY DEF Posted
<1>2. x # t /\ (pc[x] = "d_block" \/ Asleep(x)) /\ word[x] # 0
  BY <1>1 DEF Moves, Asleep
<1>3. PICK u \in Threads \ {x} : Waking(u, x)
  BY <1>2 DEF Posted
<1>4. Waking(u, x)'
  <2>1. CASE u = t
    BY <1>2, <1>3, <2>1
  <2>2. CASE u # t
    <3>1. pc'[u] = pc[u] /\ arg'[u] = arg[u] /\ ptr'[u] = ptr[u] /\ tid' = tid
      BY <2>2 DEF Moves, OthersStay
    <3> QED BY <1>3, <3>1 DEF Waking
  <2> QED BY <2>1, <2>2
<1> QED BY <1>4

(* The statements at which neither sleep nor life and death are at stake.  *)
Quiet == PCs \ {"nascent", "gone", "absent", "d_block", "d_asleep", "m_wake"}

LEMMA QuietKeeps ==
    ASSUME IInv, NEW t \in Threads, NEW b \in Quiet, pc[t] \in Quiet,
           Moves(t, b), OthersStay(t), Calm(t),
           SchedInv', LockState', Lines', Requests',
           UNCHANGED <<listVars, desched>>,
           word' \in [Threads -> 0 .. 1], mapped' \in [Threads -> BOOLEAN],
           arg' \in [Threads -> 0 .. MaxTid], ptr' \in [Threads -> Procs \cup {None}],
           \A x \in Threads : word'[x] # 0 /\ x # t => word[x] # 0,
           \A x \in Threads : (pc[x] = "d_block" \/ Asleep(x)) /\ Waking(t, x)
               => Waking(t, x)',
           ptr'[t] # None <=> b \in Finding \cup Forking,
           b \in Forking => pc[t] \in Forking /\ ptr'[t] = ptr[t],
           \A u \in Threads : ptr'[t] = u => ptr[t] = u \/ pc'[u] \notin Leaving,
           b \in Leaving => \A u \in Threads : ptr'[u] # t,
           b \in Leaving \cup {"v_own"} <=> pc[t] \in Leaving \cup {"v_own"},
           b \in {"f_list", "f_add"} => ptr'[t] \notin ToSet(thrlist),
           b \in {"f_unlist", "f_launch", "m_unlist"} => ptr'[t] \in ToSet(thrlist)
    PROVE  IInv'
<1>1. /\ Types /\ Lines /\ Requests /\ Lifeless /\ Marked /\ Pointers
      /\ Listed /\ Ordered /\ Posted
  BY DEF IInv
<1>2. /\ b \in PCs /\ b # "nascent" /\ b \notin {"gone", "absent"}
      /\ b \notin {"d_block", "d_asleep", "m_wake"} /\ b # "d_asleep"
      /\ b \notin {"d_block", "d_asleep"}
      /\ pc[t] # "nascent" /\ pc[t] # "d_asleep"
      /\ pc[t] \notin {"d_block", "d_asleep", "m_wake"}
      /\ pc[t] \notin {"d_block", "d_asleep"}
  BY DEF Quiet
<1>3. UNCHANGED <<thrlist, rover, lastTid, tid, desched>>
  BY DEF listVars
<1>4. Types'
  BY <1>1, <1>3 DEF Types, LockState, Moves
<1>5. Lifeless'
  BY <1>1, <1>2, LifelessKept
<1>6. Marked'
  BY <1>1, <1>2, <1>3, MarkedKept
<1>7. Pointers'
  BY <1>1, <1>2, PointersKept
<1>8. Listed'
  BY <1>1, <1>2, <1>3, ListedKept
<1>9. Ordered'
  BY <1>1, OrderedKept
<1>10. Posted'
  BY <1>1, <1>2, <1>3, PostedKept
<1> QED BY <1>4, <1>5, <1>6, <1>7, <1>8, <1>9, <1>10 DEF IInv

(* The same for a step that leaves the thread's locals and words alone.    *)
LEMMA LabelKeeps ==
    ASSUME IInv, NEW t \in Threads, NEW b \in Quiet, pc[t] \in Quiet,
           Moves(t, b), Calm(t),
           SchedInv', LockState', Lines', Requests',
           UNCHANGED <<listVars, desched, word, locals>>,
           mapped' \in [Threads -> BOOLEAN],
           \A x \in Threads : (pc[x] = "d_block" \/ Asleep(x)) /\ Waking(t, x) =>
               \/ pc[t] \in {"m_list", "m_find"} /\ b \in {"m_list", "m_find"}
               \/ pc[t] \in {"m_unlist", "m_test"} /\ b \in {"m_unlist", "m_test"},
           b \in Finding \cup Forking <=> pc[t] \in Finding \cup Forking,
           b \in Forking => pc[t] \in Forking,
           b \in Leaving => pc[t] \in Leaving \/ \A u \in Threads : ptr[u] # t,
           b \in Leaving \cup {"v_own"} <=> pc[t] \in Leaving \cup {"v_own"},
           b \in {"f_list", "f_add"} => pc[t] \in {"f_list", "f_add"},
           b \in {"f_unlist", "f_launch", "m_unlist"} =>
               pc[t] \in {"f_unlist", "f_launch", "m_unlist"}
    PROVE  IInv'
<1>1. /\ word' = word /\ arg' = arg /\ ptr' = ptr /\ tid' = tid
      /\ UNCHANGED <<listVars, desched>>
  BY DEF locals, listVars
<1>2. /\ OthersStay(t)
      /\ word' \in [Threads -> 0 .. 1]
      /\ arg' \in [Threads -> 0 .. MaxTid] /\ ptr' \in [Threads -> Procs \cup {None}]
      /\ \A x \in Threads : word'[x] # 0 /\ x # t => word[x] # 0
  BY <1>1 DEF IInv, Types, OthersStay
<1>3. pc'[t] = b
  BY DEF Moves
<1>4. \A x \in Threads : (pc[x] = "d_block" \/ Asleep(x)) /\ Waking(t, x) => Waking(t, x)'
  <2> SUFFICES ASSUME NEW x \in Threads, pc[x] = "d_block" \/ Asleep(x), Waking(t, x)
               PROVE  Waking(t, x)'
    OBVIOUS
  <2>1. \/ pc[t] \in {"m_list", "m_find"} /\ b \in {"m_list", "m_find"}
        \/ pc[t] \in {"m_unlist", "m_test"} /\ b \in {"m_unlist", "m_test"}
    OBVIOUS
  <2> QED BY <1>1, <1>3, <2>1 DEF Waking
<1>5. /\ ptr'[t] # None <=> b \in Finding \cup Forking
      /\ b \in Forking => pc[t] \in Forking /\ ptr'[t] = ptr[t]
      /\ \A u \in Threads : ptr'[t] = u => ptr[t] = u \/ pc'[u] \notin Leaving
      /\ b \in Leaving => \A u \in Threads : ptr'[u] # t
  BY <1>1 DEF IInv, Pointers
<1>6. /\ b \in {"f_list", "f_add"} => ptr'[t] \notin ToSet(thrlist)
      /\ b \in {"f_unlist", "f_launch", "m_unlist"} => ptr'[t] \in ToSet(thrlist)
  BY <1>1 DEF IInv, Listed
<1> QED
  BY <1>1, <1>2, <1>4, <1>5, <1>6, QuietKeeps

(* Who stands where, as the lemmas about locks want to have it.            *)
LEMMA Bounds ==
    ASSUME Types, NEW t \in Threads
    PROVE  t \in Locks /\ List \in Locks /\ t # List /\ ptr[t] # List /\ t # None
  BY ThreadMgmtAssumption, SchedAssumption DEF Types, Locks, Procs

(* A step with the lock m asked for (take), given up (give), or neither.   *)
LEMMA LabelTake ==
    ASSUME IInv, NEW t \in Threads, curr = t, NEW b \in Quiet, pc[t] \in Quiet,
           Goto(t, b), UNCHANGED locals, NEW m \in Locks, Lock(m, t),
           AskedLast(t, m)',
           \A l \in Locks : l # m =>
               /\ Asks(t, l)' => Asks(t, l)
               /\ Asks(t, l) => Asks(t, l)'
               /\ Has(t, l) /\ ~Asks(t, l) => l = t /\ b \in {"v_list", "v_del"}
    PROVE  /\ Moves(t, b) /\ Calm(t)
           /\ SchedInv' /\ LockState' /\ Lines' /\ Requests'
<1>1. Moves(t, b) /\ OthersStay(t)
  BY GotoMoves DEF IInv, Quiet, OthersStay, locals
<1> HIDE DEF Asks, AskedLast, Has
<1> QED BY <1>1, TakeLock DEF IInv

LEMMA LabelGive ==
    ASSUME IInv, NEW t \in Threads, curr = t, NEW b \in Quiet, pc[t] \in Quiet,
           Goto(t, b), UNCHANGED locals, NEW m \in Locks, Unlock(m),
           Asks(t, m), ~Asks(t, m)',
           \A l \in Locks : l # m =>
               /\ Asks(t, l)' <=> Asks(t, l)
               /\ Has(t, l) /\ ~Asks(t, l) => l = t /\ b \in {"v_list", "v_del"}
    PROVE  /\ Moves(t, b) /\ Calm(t)
           /\ SchedInv' /\ LockState' /\ Lines' /\ Requests'
<1>1. Moves(t, b) /\ OthersStay(t)
  BY GotoMoves DEF IInv, Quiet, OthersStay, locals
<1>2. Has(t, m)
  BY Runner DEF IInv
<1> HIDE DEF Asks, AskedLast, Has
<1> QED BY <1>1, <1>2, GiveLock DEF IInv

LEMMA LabelNone ==
    ASSUME IInv, NEW t \in Threads, curr = t, NEW b \in Quiet, pc[t] \in Quiet,
           Goto(t, b), UNCHANGED <<locals, schedVars, mutex>>,
           \A l \in Locks :
               /\ Asks(t, l)' => Asks(t, l)
               /\ Has(t, l) => Asks(t, l)' \/ (l = t /\ b \in {"v_list", "v_del"})
    PROVE  /\ Moves(t, b) /\ Calm(t)
           /\ SchedInv' /\ LockState' /\ Lines' /\ Requests'
<1>1. Moves(t, b) /\ OthersStay(t)
  BY GotoMoves DEF IInv, Quiet, OthersStay, locals
<1>2. UNCHANGED schedVars /\ tstate' = tstate /\ mutex' = mutex
  BY DEF schedVars
<1>3. SchedInv' /\ LockState' /\ Calm(t)
  BY <1>2 DEF IInv, Types, schedVars, SchedInv, SchedTypeOK, RunqExact, NoDuplicates,
     Runnable, LockState, Calm
<1> HIDE DEF Asks, AskedLast, Has
<1> QED BY <1>1, <1>2, <1>3, NoLock DEF IInv

-----------------------------------------------------------------------------
(* The steps that only go on, with or without a lock                       *)

LEMMA TestFaultsKeeps ==
    ASSUME IInv, NEW t \in Threads, TestFaults(t)
    PROVE  IInv'
<1>1. /\ curr = t /\ pc[t] = "d_test" /\ Goto(t, "v_list") /\ UNCHANGED <<schedVars, mutex>>
      /\ UNCHANGED <<listVars, desched, word, locals>> /\ mapped' \in [Threads -> BOOLEAN]
  BY DEF TestFaults, userVars, At, IInv, Types
<1>2. pc'[t] = "v_list" /\ ptr' = ptr
  BY <1>1 DEF Goto, locals, IInv, Types
<1>3. t \in Locks /\ List \in Locks /\ t # List /\ ptr[t] # List
  BY Bounds DEF IInv
<1>4. \A l \in Locks :
          /\ Asks(t, l)' => Asks(t, l)
          /\ Has(t, l) => Asks(t, l)' \/ (l = t /\ "v_list" \in {"v_list", "v_del"})
  BY <1>1, <1>2 DEF Asks, AskedLast, OwnHeld, ListHeld, Finding, IInv, Requests
<1>5. /\ Moves(t, "v_list") /\ Calm(t)
      /\ SchedInv' /\ LockState' /\ Lines' /\ Requests'
  BY <1>1, <1>4, LabelNone DEF Quiet, PCs
<1> QED
  BY <1>1, <1>5, LabelKeeps DEF Quiet, PCs, Finding, Forking, Leaving, Waking

LEMMA TestRejectsKeeps ==
    ASSUME IInv, NEW t \in Threads, TestRejects(t)
    PROVE  IInv'
<1>1. /\ curr = t /\ pc[t] = "d_test" /\ Goto(t, "out") /\ Unlock(t)
      /\ UNCHANGED <<listVars, desched, word, locals>> /\ mapped' \in [Threads -> BOOLEAN]
  BY DEF TestRejects, LeaveDeschedule, At, IInv, Types
<1>2. pc'[t] = "out" /\ ptr' = ptr
  BY <1>1 DEF Goto, locals, IInv, Types
<1>3. t \in Locks /\ List \in Locks /\ t # List /\ ptr[t] # List
  BY Bounds DEF IInv
<1>4. /\ Asks(t, t) /\ ~Asks(t, t)'
      /\ \A l \in Locks : l # t =>
             /\ Asks(t, l)' <=> Asks(t, l)
             /\ Has(t, l) /\ ~Asks(t, l) => l = t /\ "out" \in {"v_list", "v_del"}
  BY <1>1, <1>2, <1>3 DEF Asks, AskedLast, OwnHeld, ListHeld, Finding, IInv, Requests
<1>5. /\ Moves(t, "out") /\ Calm(t)
      /\ SchedInv' /\ LockState' /\ Lines' /\ Requests'
  BY <1>1, <1>3, <1>4, LabelGive DEF Quiet, PCs
<1> QED
  BY <1>1, <1>5, LabelKeeps DEF Quiet, PCs, Finding, Forking, Leaving, Waking

LEMMA FindLocksListKeeps ==
    ASSUME IInv, NEW t \in Threads, FindLocksList(t)
    PROVE  IInv'
<1>1. /\ curr = t /\ pc[t] = "m_list" /\ Goto(t, "m_find") /\ Lock(List, t)
      /\ UNCHANGED <<listVars, desched, word, locals>> /\ mapped' \in [Threads -> BOOLEAN]
  BY DEF FindLocksList, userVars, At, IInv, Types
<1>2. pc'[t] = "m_find" /\ ptr' = ptr
  BY <1>1 DEF Goto, locals, IInv, Types
<1>3. t \in Locks /\ List \in Locks /\ t # List /\ ptr[t] # List
  BY Bounds DEF IInv
<1>4. /\ AskedLast(t, List)'
      /\ \A l \in Locks : l # List =>
             /\ Asks(t, l)' => Asks(t, l)
             /\ Asks(t, l) => Asks(t, l)'
             /\ Has(t, l) /\ ~Asks(t, l) => l = t /\ "m_find" \in {"v_list", "v_del"}
  BY <1>1, <1>2, <1>3 DEF Asks, AskedLast, OwnHeld, ListHeld, Finding, IInv, Requests
<1>5. /\ Moves(t, "m_find") /\ Calm(t)
      /\ SchedInv' /\ LockState' /\ Lines' /\ Requests'
  BY <1>1, <1>3, <1>4, LabelTake DEF Quiet, PCs
<1> QED
  BY <1>1, <1>5, LabelKeeps DEF Quiet, PCs, Finding, Forking, Leaving, Waking

LEMMA FindUnlocksListKeeps ==
    ASSUME IInv, NEW t \in Threads, FindUnlocksList(t)
    PROVE  IInv'
<1>1. /\ curr = t /\ pc[t] = "m_unlist" /\ Goto(t, "m_test") /\ Unlock(List)
      /\ UNCHANGED <<listVars, desched, word, locals>> /\ mapped' \in [Threads -> BOOLEAN]
  BY DEF FindUnlocksList, userVars, At, IInv, Types
<1>2. pc'[t] = "m_test" /\ ptr' = ptr
  BY <1>1 DEF Goto, locals, IInv, Types
<1>3. t \in Locks /\ List \in Locks /\ t # List /\ ptr[t] # List
  BY Bounds DEF IInv
<1>4. /\ Asks(t, List) /\ ~Asks(t, List)'
      /\ \A l \in Locks : l # List =>
             /\ Asks(t, l)' <=> Asks(t, l)
             /\ Has(t, l) /\ ~Asks(t, l) => l = t /\ "m_test" \in {"v_list", "v_del"}
  BY <1>1, <1>2, <1>3 DEF Asks, AskedLast, OwnHeld, ListHeld, Finding, IInv, Requests
<1>5. /\ Moves(t, "m_test") /\ Calm(t)
      /\ SchedInv' /\ LockState' /\ Lines' /\ Requests'
  BY <1>1, <1>3, <1>4, LabelGive DEF Quiet, PCs
<1> QED
  BY <1>1, <1>5, LabelKeeps DEF Quiet, PCs, Finding, Forking, Leaving, Waking

LEMMA AddLocksListKeeps ==
    ASSUME IInv, NEW t \in Threads, AddLocksList(t)
    PROVE  IInv'
<1>1. /\ curr = t /\ pc[t] = "f_list" /\ Goto(t, "f_add") /\ Lock(List, t)
      /\ UNCHANGED <<listVars, desched, word, locals>> /\ mapped' \in [Threads -> BOOLEAN]
  BY DEF AddLocksList, userVars, At, IInv, Types
<1>2. pc'[t] = "f_add" /\ ptr' = ptr
  BY <1>1 DEF Goto, locals, IInv, Types
<1>3. t \in Locks /\ List \in Locks /\ t # List /\ ptr[t] # List
  BY Bounds DEF IInv
<1>4. /\ AskedLast(t, List)'
      /\ \A l \in Locks : l # List =>
             /\ Asks(t, l)' => Asks(t, l)
             /\ Asks(t, l) => Asks(t, l)'
             /\ Has(t, l) /\ ~Asks(t, l) => l = t /\ "f_add" \in {"v_list", "v_del"}
  BY <1>1, <1>2, <1>3 DEF Asks, AskedLast, OwnHeld, ListHeld, Finding, IInv, Requests
<1>5. /\ Moves(t, "f_add") /\ Calm(t)
      /\ SchedInv' /\ LockState' /\ Lines' /\ Requests'
  BY <1>1, <1>3, <1>4, LabelTake DEF Quiet, PCs
<1> QED
  BY <1>1, <1>5, LabelKeeps DEF Quiet, PCs, Finding, Forking, Leaving, Waking

LEMMA AddFailsKeeps ==
    ASSUME IInv, NEW t \in Threads, AddFails(t)
    PROVE  IInv'
<1>1. /\ curr = t /\ pc[t] = "f_add" /\ Goto(t, "f_panic") /\ Unlock(List)
      /\ UNCHANGED <<listVars, desched, word, locals>> /\ mapped' \in [Threads -> BOOLEAN]
  BY DEF AddFails, userVars, At, IInv, Types
<1>2. pc'[t] = "f_panic" /\ ptr' = ptr
  BY <1>1 DEF Goto, locals, IInv, Types
<1>3. t \in Locks /\ List \in Locks /\ t # List /\ ptr[t] # List
  BY Bounds DEF IInv
<1>4. /\ Asks(t, List) /\ ~Asks(t, List)'
      /\ \A l \in Locks : l # List =>
             /\ Asks(t, l)' <=> Asks(t, l)
             /\ Has(t, l) /\ ~Asks(t, l) => l = t /\ "f_panic" \in {"v_list", "v_del"}
  BY <1>1, <1>2, <1>3 DEF Asks, AskedLast, OwnHeld, ListHeld, Finding, IInv, Requests
<1>5. /\ Moves(t, "f_panic") /\ Calm(t)
      /\ SchedInv' /\ LockState' /\ Lines' /\ Requests'
  BY <1>1, <1>3, <1>4, LabelGive DEF Quiet, PCs
<1> QED
  BY <1>1, <1>5, LabelKeeps DEF Quiet, PCs, Finding, Forking, Leaving, Waking

LEMMA AddUnlocksListKeeps ==
    ASSUME IInv, NEW t \in Threads, AddUnlocksList(t)
    PROVE  IInv'
<1>1. /\ curr = t /\ pc[t] = "f_unlist" /\ Goto(t, "f_launch") /\ Unlock(List)
      /\ UNCHANGED <<listVars, desched, word, locals>> /\ mapped' \in [Threads -> BOOLEAN]
  BY DEF AddUnlocksList, userVars, At, IInv, Types
<1>2. pc'[t] = "f_launch" /\ ptr' = ptr
  BY <1>1 DEF Goto, locals, IInv, Types
<1>3. t \in Locks /\ List \in Locks /\ t # List /\ ptr[t] # List
  BY Bounds DEF IInv
<1>4. /\ Asks(t, List) /\ ~Asks(t, List)'
      /\ \A l \in Locks : l # List =>
             /\ Asks(t, l)' <=> Asks(t, l)
             /\ Has(t, l) /\ ~Asks(t, l) => l = t /\ "f_launch" \in {"v_list", "v_del"}
  BY <1>1, <1>2, <1>3 DEF Asks, AskedLast, OwnHeld, ListHeld, Finding, IInv, Requests
<1>5. /\ Moves(t, "f_launch") /\ Calm(t)
      /\ SchedInv' /\ LockState' /\ Lines' /\ Requests'
  BY <1>1, <1>3, <1>4, LabelGive DEF Quiet, PCs
<1> QED
  BY <1>1, <1>5, LabelKeeps DEF Quiet, PCs, Finding, Forking, Leaving, Waking

LEMMA CallVanishKeeps ==
    ASSUME IInv, NEW t \in Threads, CallVanish(t)
    PROVE  IInv'
<1>1. /\ curr = t /\ pc[t] = "out" /\ Goto(t, "v_list") /\ UNCHANGED <<schedVars, mutex>>
      /\ UNCHANGED <<listVars, desched, word, locals>> /\ mapped' \in [Threads -> BOOLEAN]
  BY DEF CallVanish, userVars, At, IInv, Types
<1>2. pc'[t] = "v_list" /\ ptr' = ptr
  BY <1>1 DEF Goto, locals, IInv, Types
<1>3. t \in Locks /\ List \in Locks /\ t # List /\ ptr[t] # List
  BY Bounds DEF IInv
<1>4. \A l \in Locks :
          /\ Asks(t, l)' => Asks(t, l)
          /\ Has(t, l) => Asks(t, l)' \/ (l = t /\ "v_list" \in {"v_list", "v_del"})
  BY <1>1, <1>2 DEF Asks, AskedLast, OwnHeld, ListHeld, Finding, IInv, Requests
<1>5. /\ Moves(t, "v_list") /\ Calm(t)
      /\ SchedInv' /\ LockState' /\ Lines' /\ Requests'
  BY <1>1, <1>4, LabelNone DEF Quiet, PCs
<1> QED
  BY <1>1, <1>5, LabelKeeps DEF Quiet, PCs, Finding, Forking, Leaving, Waking

LEMMA DelLocksListKeeps ==
    ASSUME IInv, NEW t \in Threads, DelLocksList(t)
    PROVE  IInv'
<1>1. /\ curr = t /\ pc[t] = "v_list" /\ Goto(t, "v_del") /\ Lock(List, t)
      /\ UNCHANGED <<listVars, desched, word, locals>> /\ mapped' \in [Threads -> BOOLEAN]
  BY DEF DelLocksList, userVars, At, IInv, Types
<1>2. pc'[t] = "v_del" /\ ptr' = ptr
  BY <1>1 DEF Goto, locals, IInv, Types
<1>3. t \in Locks /\ List \in Locks /\ t # List /\ ptr[t] # List
  BY Bounds DEF IInv
<1>4. /\ AskedLast(t, List)'
      /\ \A l \in Locks : l # List =>
             /\ Asks(t, l)' => Asks(t, l)
             /\ Asks(t, l) => Asks(t, l)'
             /\ Has(t, l) /\ ~Asks(t, l) => l = t /\ "v_del" \in {"v_list", "v_del"}
  BY <1>1, <1>2, <1>3 DEF Asks, AskedLast, OwnHeld, ListHeld, Finding, IInv, Requests
<1>5. /\ Moves(t, "v_del") /\ Calm(t)
      /\ SchedInv' /\ LockState' /\ Lines' /\ Requests'
  BY <1>1, <1>3, <1>4, LabelTake DEF Quiet, PCs
<1> QED
  BY <1>1, <1>5, LabelKeeps DEF Quiet, PCs, Finding, Forking, Leaving, Waking

LEMMA DelUnlocksListKeeps ==
    ASSUME IInv, NEW t \in Threads, DelUnlocksList(t)
    PROVE  IInv'
<1>1. /\ curr = t /\ pc[t] = "v_unlist" /\ Goto(t, "v_block") /\ Unlock(List)
      /\ UNCHANGED <<listVars, desched, word, locals>> /\ mapped' \in [Threads -> BOOLEAN]
  BY DEF DelUnlocksList, userVars, At, IInv, Types
<1>2. pc'[t] = "v_block" /\ ptr' = ptr
  BY <1>1 DEF Goto, locals, IInv, Types
<1>3. t \in Locks /\ List \in Locks /\ t # List /\ ptr[t] # List
  BY Bounds DEF IInv
<1>4. /\ Asks(t, List) /\ ~Asks(t, List)'
      /\ \A l \in Locks : l # List =>
             /\ Asks(t, l)' <=> Asks(t, l)
             /\ Has(t, l) /\ ~Asks(t, l) => l = t /\ "v_block" \in {"v_list", "v_del"}
  BY <1>1, <1>2, <1>3 DEF Asks, AskedLast, OwnHeld, ListHeld, Finding, IInv, Requests
<1>5. /\ Moves(t, "v_block") /\ Calm(t)
      /\ SchedInv' /\ LockState' /\ Lines' /\ Requests'
  BY <1>1, <1>3, <1>4, LabelGive DEF Quiet, PCs
<1> QED
  BY <1>1, <1>5, LabelKeeps DEF Quiet, PCs, Finding, Forking, Leaving, Waking

LEMMA CallDescheduleKeeps ==
    ASSUME IInv, NEW t \in Threads, NEW valid \in BOOLEAN, CallDeschedule(t, valid)
    PROVE  IInv'
<1>1. /\ curr = t /\ pc[t] = "out" /\ Goto(t, "d_attrs") /\ Lock(t, t)
      /\ UNCHANGED <<listVars, desched, word, locals>> /\ mapped' \in [Threads -> BOOLEAN]
  BY DEF CallDeschedule, At, IInv, Types
<1>2. pc'[t] = "d_attrs" /\ ptr' = ptr
  BY <1>1 DEF Goto, locals, IInv, Types
<1>3. t \in Locks /\ List \in Locks /\ t # List /\ ptr[t] # List
  BY Bounds DEF IInv
<1>4. /\ AskedLast(t, t)'
      /\ \A l \in Locks : l # t =>
             /\ Asks(t, l)' => Asks(t, l)
             /\ Asks(t, l) => Asks(t, l)'
             /\ Has(t, l) /\ ~Asks(t, l) => l = t /\ "d_attrs" \in {"v_list", "v_del"}
  BY <1>1, <1>2, <1>3 DEF Asks, AskedLast, OwnHeld, ListHeld, Finding, IInv, Requests
<1>5. /\ Moves(t, "d_attrs") /\ Calm(t)
      /\ SchedInv' /\ LockState' /\ Lines' /\ Requests'
  BY <1>1, <1>3, <1>4, LabelTake DEF Quiet, PCs
<1> QED
  BY <1>1, <1>5, LabelKeeps DEF Quiet, PCs, Finding, Forking, Leaving, Waking

LEMMA CheckRejectKeeps ==
    ASSUME IInv, NEW t \in Threads, CheckReject(t)
    PROVE  IInv'
<1>1. /\ curr = t /\ pc[t] = "d_attrs"
      /\ UNCHANGED <<listVars, desched, word, locals>> /\ mapped' \in [Threads -> BOOLEAN]
      /\ \/ Goto(t, "d_test") /\ UNCHANGED <<schedVars, mutex>>
         \/ Goto(t, "out") /\ Unlock(t)
  BY DEF CheckReject, LeaveDeschedule, At, IInv, Types, userVars
<1>2. ptr' = ptr
  BY <1>1 DEF locals
<1>3. t \in Locks /\ List \in Locks /\ t # List /\ ptr[t] # List
  BY Bounds DEF IInv
<1>4. CASE Goto(t, "d_test") /\ UNCHANGED <<schedVars, mutex>>
  <2>1. pc'[t] = "d_test"
    BY <1>4 DEF Goto, IInv, Types
  <2>2. \A l \in Locks :
            /\ Asks(t, l)' => Asks(t, l)
            /\ Has(t, l) => Asks(t, l)' \/ (l = t /\ "d_test" \in {"v_list", "v_del"})
    BY <1>1, <1>2, <2>1 DEF Asks, AskedLast, OwnHeld, ListHeld, Finding, IInv, Requests
  <2>3. /\ Moves(t, "d_test") /\ Calm(t)
        /\ SchedInv' /\ LockState' /\ Lines' /\ Requests'
    BY <1>1, <1>4, <2>2, LabelNone DEF Quiet, PCs
  <2> QED
    BY <1>1, <2>3, LabelKeeps DEF Quiet, PCs, Finding, Forking, Leaving, Waking
<1>5. CASE Goto(t, "out") /\ Unlock(t)
  <2>1. pc'[t] = "out"
    BY <1>5 DEF Goto, IInv, Types
  <2>2. /\ Asks(t, t) /\ ~Asks(t, t)'
        /\ \A l \in Locks : l # t =>
               /\ Asks(t, l)' <=> Asks(t, l)
               /\ Has(t, l) /\ ~Asks(t, l) => l = t /\ "out" \in {"v_list", "v_del"}
    BY <1>1, <1>2, <1>3, <2>1 DEF Asks, AskedLast, OwnHeld, ListHeld, Finding, IInv, Requests
  <2>3. /\ Moves(t, "out") /\ Calm(t)
        /\ SchedInv' /\ LockState' /\ Lines' /\ Requests'
    BY <1>1, <1>3, <1>5, <2>2, LabelGive DEF Quiet, PCs
  <2> QED
    BY <1>1, <2>3, LabelKeeps DEF Quiet, PCs, Finding, Forking, Leaving, Waking
<1> QED BY <1>1, <1>4, <1>5

(* Whoever leaves its own lock behind is pointed to by nobody: who has     *)
(* found it either owns that lock, or still has the list's.                *)
LEMMA NobodyPoints ==
    ASSUME IInv, NEW t \in Threads, curr = t, pc[t] = "v_own", NEW u \in Threads
    PROVE  ptr[u] # t
<1>1. t \in Locks /\ List \in Locks /\ t # List /\ t # None
  BY Bounds DEF IInv
<1>2. Has(t, t) /\ Has(t, List)
  BY <1>1, Runner DEF IInv, Asks, OwnHeld, ListHeld
<1>3. SUFFICES ASSUME ptr[u] = t PROVE FALSE
  OBVIOUS
<1>4. pc[u] \in Finding
  <2>1. pc[u] \in Finding \cup Forking
    BY <1>1, <1>3 DEF IInv, Pointers
  <2>2. pc[u] \notin Forking
    BY <1>3 DEF IInv, Pointers
  <2> QED BY <2>1, <2>2
<1>5. Asks(u, t) /\ u # t
  BY <1>3, <1>4 DEF Asks, Finding
<1>6. Waits(u, t)
  BY <1>1, <1>2, <1>5 DEF IInv, Requests, Has
<1>7. pc[u] = "m_unlist"
  BY <1>1, <1>4, <1>5, <1>6 DEF IInv, Requests, AskedLast, Finding
<1>8. Asks(u, List)
  BY <1>7 DEF Asks, ListHeld
<1>9. Waits(u, List)
  BY <1>1, <1>2, <1>5, <1>8 DEF IInv, Requests, Has
<1> QED
  BY <1>1, <1>3, <1>7, <1>9 DEF IInv, Requests, AskedLast

LEMMA DelUnlocksThreadKeeps ==
    ASSUME IInv, NEW t \in Threads, DelUnlocksThread(t)
    PROVE  IInv'
<1>1. /\ curr = t /\ pc[t] = "v_own" /\ Goto(t, "v_unlist") /\ Unlock(t)
      /\ UNCHANGED <<listVars, desched, word, locals>> /\ mapped' \in [Threads -> BOOLEAN]
  BY DEF DelUnlocksThread, userVars, At, IInv, Types
<1>2. pc'[t] = "v_unlist" /\ ptr' = ptr
  BY <1>1 DEF Goto, locals, IInv, Types
<1>3. t \in Locks /\ List \in Locks /\ t # List /\ ptr[t] # List
  BY Bounds DEF IInv
<1>4. /\ Asks(t, t) /\ ~Asks(t, t)'
      /\ \A l \in Locks : l # t =>
             /\ Asks(t, l)' <=> Asks(t, l)
             /\ Has(t, l) /\ ~Asks(t, l) => l = t /\ "v_unlist" \in {"v_list", "v_del"}
  BY <1>1, <1>2, <1>3 DEF Asks, AskedLast, OwnHeld, ListHeld, Finding, IInv, Requests
<1>5. /\ Moves(t, "v_unlist") /\ Calm(t)
      /\ SchedInv' /\ LockState' /\ Lines' /\ Requests'
  BY <1>1, <1>3, <1>4, LabelGive DEF Quiet, PCs
<1>6. \A u \in Threads : ptr[u] # t
  BY <1>1, NobodyPoints
<1> QED
  BY <1>1, <1>5, <1>6, LabelKeeps DEF Quiet, PCs, Finding, Forking, Leaving, Waking

-----------------------------------------------------------------------------
(* The CPU goes to another thread, or a page goes. *)
LEMMA SwitchKeeps ==
    ASSUME IInv, SchedInv', tstate' = tstate, mapped' \in [Threads -> BOOLEAN],
           UNCHANGED <<listVars, mutex, desched, word, pc, locals>>
    PROVE  IInv'
<1>1. /\ thrlist' = thrlist /\ tid' = tid /\ rover' = rover /\ lastTid' = lastTid
      /\ mutex' = mutex /\ desched' = desched /\ word' = word /\ pc' = pc
      /\ arg' = arg /\ ptr' = ptr
  BY DEF listVars, locals
<1>2. Types' /\ Lines'
  BY <1>1 DEF IInv, Types, Lines
<1>3. \A x \in Threads : \A l \in Locks :
          /\ Has(x, l)' <=> Has(x, l)
          /\ Waits(x, l)' <=> Waits(x, l)
          /\ Asks(x, l)' <=> Asks(x, l)
          /\ AskedLast(x, l)' <=> AskedLast(x, l)
  BY <1>1 DEF Has, Waits, Asks, AskedLast
<1>4. Requests'
  <2> HIDE DEF Has, Waits, Asks, AskedLast
  <2> QED BY <1>1, <1>3 DEF IInv, Requests
<1>5. Lifeless'
  BY <1>1 DEF IInv, Lifeless
<1>6. Marked' /\ Posted'
  BY <1>1 DEF IInv, Marked, Posted, Asleep, Waking
<1>7. Pointers'
  BY <1>1 DEF IInv, Pointers
<1>8. Listed' /\ Ordered'
  BY <1>1 DEF IInv, Listed, Ordered, IsQueue, NoDuplicates
<1> QED BY <1>2, <1>4, <1>5, <1>6, <1>7, <1>8 DEF IInv

LEMMA TickKeeps ==
    ASSUME IInv, Tick
    PROVE  IInv'
<1>1. SchedInv' /\ tstate' = tstate
  BY ScheduleKeepsInv DEF IInv, Types, Tick, Schedule
<1> QED
  BY <1>1, SwitchKeeps DEF Tick, userVars, IInv, Types

LEMMA YieldKeeps ==
    ASSUME IInv, NEW t \in Threads, NEW n, Yield(t, n)
    PROVE  IInv'
<1>1. SchedInv' /\ tstate' = tstate
  BY SchedFindKeepsInv DEF IInv, Types, Yield
<1> QED
  BY <1>1, SwitchKeeps DEF Yield, userVars, IInv, Types

LEMMA SchedSame ==
    ASSUME IInv, UNCHANGED schedVars
    PROVE  SchedInv' /\ tstate' = tstate /\ \A t \in Threads : Calm(t)
  BY DEF IInv, Types, schedVars, SchedInv, SchedTypeOK, RunqExact, NoDuplicates,
     Runnable, Calm

LEMMA RemovePageKeeps ==
    ASSUME IInv, NEW t \in Threads, RemovePage(t)
    PROVE  IInv'
<1>1. SchedInv' /\ tstate' = tstate
  BY SchedSame DEF RemovePage
<1>2. mapped' \in [Threads -> BOOLEAN]
  BY DEF RemovePage, IInv, Types
<1> QED
  BY <1>1, <1>2, SwitchKeeps DEF RemovePage

LEMMA ClearWordKeeps ==
    ASSUME IInv, NEW t \in Threads, ClearWord(t)
    PROVE  IInv'
<1>1. /\ curr = t /\ pc[t] = "out" /\ word' = [word EXCEPT ![t] = 0]
      /\ UNCHANGED <<schedVars, mutex, desched, mapped, pc, arg, ptr>>
      /\ UNCHANGED listVars
  BY DEF ClearWord, At, locals
<1>2. Moves(t, "out") /\ OthersStay(t)
  BY <1>1 DEF IInv, Types, Moves, OthersStay
<1>3. SchedInv' /\ tstate' = tstate /\ Calm(t)
  BY <1>1, SchedSame
<1>4. LockState' /\ Lines' /\ Requests'
  <2>1. \A l \in Locks : /\ Asks(t, l)' => Asks(t, l)
                         /\ Has(t, l) => Asks(t, l)'
    BY <1>1 DEF Asks, AskedLast, OwnHeld, ListHeld, Finding, IInv, Requests
  <2>2. LockState'
    BY <1>1 DEF LockState, IInv, Types
  <2> HIDE DEF Has, Asks
  <2> QED BY <1>1, <1>2, <1>3, <2>1, <2>2, NoLock DEF IInv
<1>5. /\ word' \in [Threads -> 0 .. 1] /\ mapped' \in [Threads -> BOOLEAN]
      /\ arg' \in [Threads -> 0 .. MaxTid] /\ ptr' \in [Threads -> Procs \cup {None}]
      /\ \A x \in Threads : word'[x] # 0 /\ x # t => word[x] # 0
  BY <1>1 DEF IInv, Types
<1>6. ptr[t] = None
  BY <1>1 DEF IInv, Pointers, Finding, Forking
<1> QED
  BY <1>1, <1>2, <1>3, <1>4, <1>5, <1>6, SchedAssumption, QuietKeeps
  DEF Quiet, PCs, Finding, Forking, Leaving, Waking

LEMMA CallMakeRunnableKeeps ==
    ASSUME IInv, NEW t \in Threads, NEW n \in 1 .. MaxTid, CallMakeRunnable(t, n)
    PROVE  IInv'
<1>1. /\ curr = t /\ pc[t] = "out" /\ arg' = [arg EXCEPT ![t] = n] /\ Goto(t, "m_list")
      /\ UNCHANGED <<schedVars, mutex, desched, word, mapped, ptr>>
      /\ UNCHANGED listVars
  BY DEF CallMakeRunnable, At, userVars
<1>2. Moves(t, "m_list") /\ OthersStay(t)
  BY <1>1, GotoMoves DEF IInv, Types, OthersStay, PCs
<1>3. SchedInv' /\ tstate' = tstate /\ Calm(t)
  BY <1>1, SchedSame
<1>4. LockState' /\ Lines' /\ Requests'
  <2>1. \A l \in Locks : /\ Asks(t, l)' => Asks(t, l)
                         /\ Has(t, l) => Asks(t, l)'
    BY <1>1, <1>2 DEF Moves, Asks, AskedLast, OwnHeld, ListHeld, Finding, IInv, Requests
  <2>2. LockState'
    BY <1>1 DEF LockState, IInv, Types
  <2> HIDE DEF Has, Asks
  <2> QED BY <1>1, <1>2, <1>3, <2>1, <2>2, NoLock DEF IInv
<1>5. /\ word' \in [Threads -> 0 .. 1] /\ mapped' \in [Threads -> BOOLEAN]
      /\ arg' \in [Threads -> 0 .. MaxTid] /\ ptr' \in [Threads -> Procs \cup {None}]
      /\ \A x \in Threads : word'[x] # 0 /\ x # t => word[x] # 0
  BY <1>1, ThreadMgmtAssumption DEF IInv, Types
<1>6. ptr[t] = None
  BY <1>1 DEF IInv, Pointers, Finding, Forking
<1> QED
  BY <1>1, <1>2, <1>3, <1>4, <1>5, <1>6, SchedAssumption, QuietKeeps
  DEF Quiet, PCs, Finding, Forking, Leaving, Waking

(* Whoever posts is about to wake the thread it has posted to.             *)
LEMMA SetWordKeeps ==
    ASSUME IInv, NEW t \in Threads, NEW u \in Threads, SetWord(t, u)
    PROVE  IInv'
<1>1. /\ curr = t /\ pc[t] = "out" /\ Goto(t, "m_list")
      /\ arg' = [arg EXCEPT ![t] = tid[u]] /\ word' = [word EXCEPT ![u] = 1]
      /\ UNCHANGED <<schedVars, mutex, desched, mapped, ptr>>
      /\ UNCHANGED listVars
  BY DEF SetWord, At
<1>2. Moves(t, "m_list") /\ OthersStay(t)
  BY <1>1, GotoMoves DEF IInv, Types, OthersStay, PCs
<1>3. SchedInv' /\ tstate' = tstate /\ Calm(t)
  BY <1>1, SchedSame
<1>4. LockState' /\ Lines' /\ Requests'
  <2>1. \A l \in Locks : /\ Asks(t, l)' => Asks(t, l)
                         /\ Has(t, l) => Asks(t, l)'
    BY <1>1, <1>2 DEF Moves, Asks, AskedLast, OwnHeld, ListHeld, Finding, IInv, Requests
  <2>2. LockState'
    BY <1>1 DEF LockState, IInv, Types
  <2> HIDE DEF Has, Asks
  <2> QED BY <1>1, <1>2, <1>3, <2>1, <2>2, NoLock DEF IInv
<1>5. Types'
  <2>1. tid[u] \in 0 .. MaxTid
    BY DEF IInv, Types, Procs
  <2>2. /\ word' \in [Threads -> 0 .. 1] /\ arg' \in [Threads -> 0 .. MaxTid]
        /\ UNCHANGED <<lastTid, tid>>
    BY <1>1, <2>1 DEF IInv, Types, listVars
  <2> QED BY <1>1, <1>2, <1>3, <1>4, <2>2 DEF IInv, Types, LockState, Moves
<1>6. ptr[t] = None /\ thrlist' = thrlist
  BY <1>1 DEF IInv, Pointers, Finding, Forking, listVars
<1>7. Lifeless'
  BY <1>2, <1>3, LifelessKept DEF IInv
<1>8. Marked'
  BY <1>1, <1>2, <1>3, MarkedKept DEF IInv
<1>9. Pointers'
  BY <1>1, <1>2, <1>6, SchedAssumption, PointersKept
  DEF IInv, Finding, Forking, Leaving
<1>10. Listed'
  BY <1>1, <1>2, <1>6, ListedKept DEF IInv, Leaving
<1>11. Ordered'
  BY <1>1, OrderedKept DEF IInv
<1>12. Posted'
  <2> SUFFICES ASSUME NEW x \in Threads, pc'[x] = "d_block" \/ Asleep(x)', word'[x] # 0
               PROVE  \E v \in Threads \ {x} : Waking(v, x)'
    BY DEF Posted
  <2>1. x # t /\ (pc[x] = "d_block" \/ Asleep(x)) /\ tid' = tid
    BY <1>1, <1>2, <1>3 DEF Moves, Asleep, listVars
  <2>2. CASE x = u
    <3>1. Waking(t, x)'
      BY <1>1, <1>2, <2>1, <2>2 DEF Waking, Moves, IInv, Types
    <3> QED BY <2>1, <3>1
  <2>3. CASE x # u
    <3>1. word[x] # 0
      BY <1>1, <2>3 DEF IInv, Types
    <3>2. PICK v \in Threads \ {x} : Waking(v, x)
      BY <2>1, <3>1 DEF IInv, Posted
    <3>3. v # t
      BY <1>1, <3>2 DEF Waking
    <3>4. Waking(v, x)'
      BY <1>1, <1>2, <2>1, <3>2, <3>3 DEF Waking, Moves, OthersStay
    <3> QED BY <3>4
  <2> QED BY <2>2, <2>3
<1> QED
  BY <1>4, <1>5, <1>7, <1>8, <1>9, <1>10, <1>11, <1>12 DEF IInv

-----------------------------------------------------------------------------
(* sys_make_runnable *)

LEMMA TidUnique ==
    ASSUME IInv, NEW p \in ToSet(thrlist), NEW q \in ToSet(thrlist), tid[p] = tid[q]
    PROVE  p = q
<1>1. PICK i \in DOMAIN thrlist : thrlist[i] = p
  BY DEF ToSet
<1>2. PICK j \in DOMAIN thrlist : thrlist[j] = q
  BY DEF ToSet
<1>3. /\ thrlist \in Seq(Procs) /\ DOMAIN thrlist = 1 .. Len(thrlist) /\ Len(thrlist) \in Nat
      /\ tid[p] \in Nat
  BY DEF IInv, Listed, IsQueue, Types, ToSet
<1>4. i < j \/ j < i \/ i = j
  BY <1>3
<1>5. ~(i < j) /\ ~(j < i)
  BY <1>1, <1>2, <1>3 DEF IInv, Ordered
<1> QED BY <1>1, <1>2, <1>4, <1>5

LEMMA SleeperListed ==
    ASSUME IInv, NEW x \in Threads, pc[x] = "d_block" \/ Asleep(x)
    PROVE  x \in ToSet(thrlist)
  BY DEF IInv, Listed, Asleep, Leaving

LEMMA FindLocksThreadKeeps ==
    ASSUME IInv, NEW t \in Threads, FindLocksThread(t)
    PROVE  IInv'
<1>1. /\ curr = t /\ pc[t] = "m_find" /\ Goto(t, "m_unlist")
      /\ arg' = [arg EXCEPT ![t] = 0]
      /\ UNCHANGED <<desched, word, mapped>> /\ UNCHANGED listVars
  BY DEF FindLocksThread, At, userVars
<1>2. PICK p \in ToSet(thrlist) :
          tid[p] = arg[t] /\ Lock(p, t) /\ ptr' = [ptr EXCEPT ![t] = p]
  BY DEF FindLocksThread
<1>3. /\ Moves(t, "m_unlist") /\ OthersStay(t)
      /\ pc'[t] = "m_unlist" /\ ptr'[t] = p
  BY <1>1, <1>2, GotoMoves DEF IInv, Types, OthersStay, PCs, Moves
<1>4. /\ p \in Procs /\ p \in Locks /\ p # None /\ p # List
      /\ ptr[t] = None
  BY <1>1, SchedAssumption, ThreadMgmtAssumption
  DEF IInv, Listed, IsQueue, ToSet, Locks, Procs, Pointers, Finding, Forking
<1>5. /\ SchedInv' /\ LockState' /\ Lines' /\ Requests' /\ Calm(t)
  <2>1. AskedLast(t, p)'
    BY <1>3 DEF AskedLast
  <2>2. \A l \in Locks : l # p =>
            /\ Asks(t, l)' => Asks(t, l)
            /\ Has(t, l) => Asks(t, l)'
    BY <1>1, <1>3, <1>4 DEF Asks, AskedLast, OwnHeld, ListHeld, Finding, IInv, Requests
  <2> HIDE DEF Asks, AskedLast, Has
  <2> QED BY <1>1, <1>2, <1>3, <1>4, <2>1, <2>2, TakeLock DEF IInv
<1>6. /\ word' \in [Threads -> 0 .. 1] /\ mapped' \in [Threads -> BOOLEAN]
      /\ arg' \in [Threads -> 0 .. MaxTid] /\ ptr' \in [Threads -> Procs \cup {None}]
      /\ word' = word /\ thrlist' = thrlist
  BY <1>1, <1>2, <1>4, ThreadMgmtAssumption DEF IInv, Types, listVars
<1>7. \A x \in Threads : (pc[x] = "d_block" \/ Asleep(x)) /\ Waking(t, x) => Waking(t, x)'
  <2> SUFFICES ASSUME NEW x \in Threads, pc[x] = "d_block" \/ Asleep(x), Waking(t, x)
               PROVE  Waking(t, x)'
    OBVIOUS
  <2>1. x \in ToSet(thrlist) /\ tid[x] = arg[t]
    BY <1>1, SleeperListed DEF Waking
  <2>2. x = p
    BY <1>2, <2>1, TidUnique
  <2> QED BY <1>3, <2>2 DEF Waking
<1>8. \A u \in Threads : ptr'[t] = u => ptr[t] = u \/ pc'[u] \notin Leaving
  <2> SUFFICES ASSUME p \in Threads PROVE pc'[p] \notin Leaving
    BY <1>3
  <2>1. CASE p = t
    BY <1>3, <2>1 DEF Leaving
  <2>2. CASE p # t
    <3>1. pc'[p] = pc[p]
      BY <1>3, <2>2 DEF Moves
    <3> QED BY <1>2, <3>1 DEF IInv, Listed, Leaving
  <2> QED BY <2>1, <2>2
<1> QED
  BY <1>1, <1>2, <1>3, <1>4, <1>5, <1>6, <1>7, <1>8, QuietKeeps
  DEF Quiet, PCs, Finding, Forking, Leaving

LEMMA FindFailsKeeps ==
    ASSUME IInv, NEW t \in Threads, FindFails(t)
    PROVE  IInv'
<1>1. /\ curr = t /\ pc[t] = "m_find" /\ Goto(t, "m_null") /\ Unlock(List)
      /\ arg' = [arg EXCEPT ![t] = 0]
      /\ UNCHANGED <<desched, word, mapped, ptr>> /\ UNCHANGED listVars
      /\ \A p \in ToSet(thrlist) : tid[p] # arg[t]
  BY DEF FindFails, At, userVars
<1>2. /\ Moves(t, "m_null") /\ OthersStay(t) /\ pc'[t] = "m_null"
  BY <1>1, GotoMoves DEF IInv, Types, OthersStay, PCs, Moves
<1>3. /\ t \in Locks /\ List \in Locks /\ ptr[t] = None
      /\ t # List
  BY <1>1, Bounds DEF IInv, Pointers, Finding, Forking
<1>4. Asks(t, List) /\ ~Asks(t, List)'
  BY <1>1, <1>2, <1>3 DEF Asks, OwnHeld, ListHeld, Finding
<1>5. /\ SchedInv' /\ LockState' /\ Lines' /\ Requests' /\ Calm(t)
  <2>1. Has(t, List)
    BY <1>1, <1>3, <1>4, Runner DEF IInv
  <2>2. \A l \in Locks : l # List =>
            /\ Asks(t, l)' => Asks(t, l)
            /\ Has(t, l) => Asks(t, l)'
    BY <1>1, <1>2, <1>3 DEF Asks, AskedLast, OwnHeld, ListHeld, Finding, IInv, Requests
  <2> HIDE DEF Asks, AskedLast, Has
  <2> QED BY <1>1, <1>2, <1>3, <1>4, <2>1, <2>2, GiveLock DEF IInv
<1>6. /\ word' \in [Threads -> 0 .. 1] /\ mapped' \in [Threads -> BOOLEAN]
      /\ arg' \in [Threads -> 0 .. MaxTid] /\ ptr' \in [Threads -> Procs \cup {None}]
      /\ word' = word /\ ptr'[t] = None
  BY <1>1, <1>3, ThreadMgmtAssumption DEF IInv, Types
<1>7. \A x \in Threads : (pc[x] = "d_block" \/ Asleep(x)) /\ Waking(t, x) => Waking(t, x)'
  <2> SUFFICES ASSUME NEW x \in Threads, pc[x] = "d_block" \/ Asleep(x), Waking(t, x)
               PROVE  FALSE
    OBVIOUS
  <2>1. x \in ToSet(thrlist) /\ tid[x] = arg[t]
    BY <1>1, SleeperListed DEF Waking
  <2> QED BY <1>1, <2>1
<1> QED
  BY <1>1, <1>2, <1>3, <1>5, <1>6, <1>7, SchedAssumption, QuietKeeps
  DEF Quiet, PCs, Finding, Forking, Leaving, Procs

LEMMA MakeRunnableReturnsKeeps ==
    ASSUME IInv, NEW t \in Threads, MakeRunnableReturns(t)
    PROVE  IInv'
<1>1. /\ curr = t /\ pc[t] = "m_unlock" /\ Goto(t, "out") /\ Unlock(ptr[t])
      /\ ptr' = [ptr EXCEPT ![t] = None]
      /\ UNCHANGED <<desched, word, mapped, arg>> /\ UNCHANGED listVars
  BY DEF MakeRunnableReturns, At, userVars
<1>2. /\ Moves(t, "out") /\ OthersStay(t) /\ pc'[t] = "out" /\ ptr'[t] = None
  BY <1>1, GotoMoves DEF IInv, Types, OthersStay, PCs, Moves
<1>3. /\ t \in Locks /\ ptr[t] \in Locks /\ t # List /\ ptr[t] # List
  BY <1>1, Bounds DEF IInv, Types, Pointers, Finding, Locks
<1>4. Asks(t, ptr[t]) /\ \A l \in Locks : ~Asks(t, l)'
  BY <1>1, <1>2 DEF Asks, OwnHeld, ListHeld, Finding
<1>5. /\ SchedInv' /\ LockState' /\ Lines' /\ Requests' /\ Calm(t)
  <2>1. Has(t, ptr[t])
    BY <1>1, <1>3, <1>4, Runner DEF IInv
  <2>2. \A l \in Locks : l # ptr[t] => ~Has(t, l)
    BY <1>1, <1>3 DEF Asks, AskedLast, OwnHeld, ListHeld, Finding, IInv, Requests
  <2> HIDE DEF Asks, AskedLast, Has
  <2>3. PICK m \in Locks : m = ptr[t]
    BY <1>3
  <2>4. /\ Has(t, m) /\ Unlock(m) /\ ~Asks(t, m)'
        /\ \A l \in Locks : l # m => ~Asks(t, l)' /\ ~Has(t, l)
    BY <1>1, <1>4, <2>1, <2>2, <2>3
  <2> QED BY <1>1, <1>2, <2>4, GiveLock DEF IInv
<1>6. /\ word' \in [Threads -> 0 .. 1] /\ mapped' \in [Threads -> BOOLEAN]
      /\ arg' \in [Threads -> 0 .. MaxTid] /\ ptr' \in [Threads -> Procs \cup {None}]
      /\ word' = word
  BY <1>1 DEF IInv, Types
<1> QED
  BY <1>1, <1>2, <1>5, <1>6, SchedAssumption, QuietKeeps
  DEF Quiet, PCs, Finding, Forking, Leaving, Procs, Waking

(* Who runs past the search with a thread's lock is alone with the mark of *)
(* that thread.                                                            *)
LEMMA AloneWithTarget ==
    ASSUME IInv, NEW t \in Threads, curr = t, pc[t] \in {"m_test", "m_wake"},
           NEW x \in Threads, ptr[t] = x
    PROVE  /\ pc[x] # "d_block"
           /\ \A u \in Threads : pc[u] = "m_wake" /\ ptr[u] = x => u = t
<1>1. x \in Locks /\ x # List
  BY Bounds DEF IInv
<1>2. Asks(t, x)
  BY DEF Asks, Finding
<1>3. Has(t, x)
  BY <1>1, <1>2, Runner DEF IInv
<1>4. ASSUME pc[x] = "d_block" PROVE FALSE
  <2>1. Asks(x, x) /\ ~AskedLast(x, x)
    BY <1>1, <1>4 DEF Asks, OwnHeld, AskedLast
  <2>2. Has(x, x)
    BY <1>1, <2>1 DEF IInv, Requests
  <2> QED BY <1>3, <1>4, <2>2 DEF Has
<1>5. ASSUME NEW u \in Threads, pc[u] = "m_wake", ptr[u] = x PROVE u = t
  <2>1. Asks(u, x) /\ ~AskedLast(u, x)
    BY <1>1, <1>5 DEF Asks, Finding, AskedLast
  <2>2. Has(u, x)
    BY <1>1, <2>1 DEF IInv, Requests
  <2> QED BY <1>3, <2>2 DEF Has
<1> QED BY <1>4, <1>5

LEMMA TestTargetKeeps ==
    ASSUME IInv, NEW t \in Threads, TestTarget(t)
    PROVE  IInv'
<1>1. /\ curr = t /\ pc[t] = "m_test"
      /\ UNCHANGED <<schedVars, mutex, word, mapped, locals>> /\ UNCHANGED listVars
      /\ \/ /\ tstate[ptr[t]] = "RUNNABLE" \/ ~desched[ptr[t]]
            /\ Goto(t, "m_unlock") /\ UNCHANGED desched
         \/ /\ tstate[ptr[t]] # "RUNNABLE" /\ desched[ptr[t]]
            /\ desched' = [desched EXCEPT ![ptr[t]] = FALSE]
            /\ Goto(t, "m_wake")
  BY DEF TestTarget, At, userVars
<1>2. ptr' = ptr /\ arg' = arg /\ tid' = tid /\ mapped' \in [Threads -> BOOLEAN] /\ OthersStay(t)
  BY <1>1 DEF locals, listVars, IInv, Types, OthersStay
<1>3. SchedInv' /\ tstate' = tstate /\ Calm(t)
  BY <1>1, SchedSame
<1>4. CASE Goto(t, "m_unlock") /\ UNCHANGED desched /\ (tstate[ptr[t]] = "RUNNABLE" \/ ~desched[ptr[t]])
  <2>1. pc'[t] = "m_unlock"
    BY <1>4 DEF Goto, IInv, Types
  <2>2. \A l \in Locks :
            /\ Asks(t, l)' => Asks(t, l)
            /\ Has(t, l) => Asks(t, l)' \/ (l = t /\ "m_unlock" \in {"v_list", "v_del"})
    BY <1>1, <1>2, <2>1 DEF Asks, AskedLast, OwnHeld, ListHeld, Finding, IInv, Requests
  <2>3. /\ Moves(t, "m_unlock") /\ Calm(t)
        /\ SchedInv' /\ LockState' /\ Lines' /\ Requests'
    BY <1>1, <1>4, <2>2, LabelNone DEF Quiet, PCs
  <2>4. ASSUME NEW x \in Threads, pc[x] = "d_block" \/ Asleep(x), Waking(t, x)
        PROVE  FALSE
    <3>1. ptr[t] = x
      BY <1>1, <2>4 DEF Waking
    <3>2. Asleep(x)
      BY <1>1, <2>4, <3>1, AloneWithTarget
    <3>3. ~desched[x]
      BY <1>4, <3>1, <3>2 DEF Asleep
    <3>4. PICK u \in Threads : pc[u] = "m_wake" /\ ptr[u] = x
      BY <3>2, <3>3 DEF IInv, Marked
    <3> QED BY <1>1, <3>1, <3>4, AloneWithTarget
  <2> QED
    BY <1>1, <1>2, <1>4, <2>3, <2>4, LabelKeeps DEF Quiet, PCs, Finding, Forking, Leaving
<1>5. CASE /\ tstate[ptr[t]] # "RUNNABLE" /\ desched[ptr[t]]
           /\ desched' = [desched EXCEPT ![ptr[t]] = FALSE] /\ Goto(t, "m_wake")
  <2>1. Moves(t, "m_wake") /\ pc'[t] = "m_wake"
    BY <1>5, GotoMoves DEF IInv, PCs, Moves
  <2>2. PICK x \in Threads : x = ptr[t] /\ Asleep(x) /\ desched[x]
    <3>1. ptr[t] \in Procs
      BY <1>1 DEF IInv, Types, Pointers, Finding
    <3>2. ptr[t] \in Threads /\ (pc[ptr[t]] = "d_block" \/ Asleep(ptr[t]))
      BY <1>5, <3>1 DEF IInv, Marked
    <3> QED BY <1>1, <1>5, <3>2, AloneWithTarget
  <2>3. /\ desched' \in [Procs -> BOOLEAN] /\ ~desched'[x]
        /\ \A p \in Procs : p # x => desched'[p] = desched[p]
    BY <1>5, <2>2 DEF IInv, Types, Procs
  <2>4. \A l \in Locks : /\ Asks(t, l)' => Asks(t, l)
                         /\ Has(t, l) => Asks(t, l)'
    BY <1>1, <1>2, <2>1 DEF Asks, AskedLast, OwnHeld, ListHeld, Finding, IInv, Requests
  <2>5. Lines' /\ Requests'
    <3> HIDE DEF Has, Asks
    <3> QED BY <1>1, <1>2, <1>3, <2>1, <2>4, NoLock DEF IInv
  <2>6. Types'
    <3>1. UNCHANGED <<lastTid, tid, mutex, word, mapped, arg, ptr>>
      BY <1>1, <1>2 DEF listVars
    <3> QED BY <1>3, <2>1, <2>3, <3>1 DEF IInv, Types, Moves
  <2>7. Lifeless'
    BY <1>3, <2>1, LifelessKept DEF IInv
  <2>8. \A y \in Threads : Asleep(y)' <=> Asleep(y)
    BY <1>1, <1>3, <2>1, AsleepKept
  <2>9. \A u \in Threads : pc[u] = "m_wake" => ptr[u] # x
    BY <1>1, <2>2, AloneWithTarget
  <2>10. Marked'
    <3>1. \A y \in Threads : /\ y # t => pc'[y] = pc[y]
                             /\ pc'[y] = "d_block" <=> pc[y] = "d_block"
      BY <1>1, <2>1 DEF Moves
    <3>2. \A p \in Procs : desched'[p] =>
              p \in Threads /\ (pc'[p] = "d_block" \/ Asleep(p)')
      BY <2>3, <2>8, <3>1 DEF IInv, Marked
    <3>3. \A y \in Threads : pc'[y] = "d_block" => desched'[y]
      BY <2>2, <2>3, <3>1 DEF IInv, Marked, Asleep, Procs
    <3>4. ASSUME NEW y \in Threads, Asleep(y)', ~desched'[y]
          PROVE  \E u \in Threads : pc'[u] = "m_wake" /\ ptr'[u] = y
      <4>1. CASE y = x
        BY <1>2, <2>1, <2>2, <4>1
      <4>2. CASE y # x
        <5>1. Asleep(y) /\ ~desched[y]
          BY <2>3, <2>8, <3>4, <4>2 DEF Procs
        <5>2. PICK u \in Threads : pc[u] = "m_wake" /\ ptr[u] = y
          BY <5>1 DEF IInv, Marked
        <5> QED BY <1>1, <1>2, <3>1, <5>2
      <4> QED BY <4>1, <4>2
    <3>5. ASSUME NEW u \in Threads, pc'[u] = "m_wake"
          PROVE  ptr'[u] \in Threads /\ Asleep(ptr[u])' /\ ~desched'[ptr[u]]
      <4>1. CASE u = t
        <5>1. ptr[u] = x /\ ptr'[u] = x
          BY <1>2, <2>2, <4>1
        <5>2. Asleep(x)'
          BY <2>2, <2>8
        <5>3. Asleep(ptr[u])'
          BY <1>2, <5>1, <5>2 DEF Asleep
        <5> QED BY <2>3, <5>1, <5>3
      <4>2. CASE u # t
        <5>1. pc[u] = "m_wake" /\ ptr[u] \in Threads /\ Asleep(ptr[u]) /\ ~desched[ptr[u]]
          BY <3>1, <3>5, <4>2 DEF IInv, Marked
        <5>2. PICK y \in Threads : y = ptr[u]
          BY <5>1
        <5>3. Asleep(y)' /\ ptr'[u] = y /\ ~desched'[y]
          BY <1>2, <2>3, <2>8, <2>9, <5>1, <5>2 DEF Procs
        <5>4. Asleep(ptr[u])'
          BY <1>2, <5>2, <5>3 DEF Asleep
        <5> QED BY <5>2, <5>3, <5>4
      <4> QED BY <4>1, <4>2
    <3> QED
      BY <1>2, <3>2, <3>3, <3>4, <3>5 DEF Marked
  <2>11. Pointers'
    BY <1>1, <1>2, <2>1, PointersKept DEF IInv, Pointers, Finding, Forking, Leaving
  <2>12. Listed'
    BY <1>1, <1>2, <2>1, ListedKept DEF IInv, Leaving, listVars
  <2>13. Ordered'
    BY <1>1, OrderedKept DEF IInv
  <2>14. Posted'
    <3>1. \A y \in Threads : Waking(t, y) => Waking(t, y)'
      BY <1>1, <1>2, <2>1 DEF Waking
    <3> QED BY <1>1, <1>2, <1>3, <2>1, <3>1, PostedKept DEF IInv
  <2> QED
    BY <2>5, <2>6, <2>7, <2>10, <2>11, <2>12, <2>13, <2>14 DEF IInv
<1> QED BY <1>1, <1>4, <1>5

LEMMA WakeTargetKeeps ==
    ASSUME IInv, NEW t \in Threads, WakeTarget(t)
    PROVE  IInv'
<1>1. /\ curr = t /\ pc[t] = "m_wake" /\ SchedUnblock(ptr[t]) /\ Goto(t, "m_unlock")
      /\ UNCHANGED <<mutex, desched, word, mapped, arg, ptr>> /\ UNCHANGED listVars
  BY DEF WakeTarget, At, userVars, locals
<1>2. PICK x \in Threads : x = ptr[t] /\ Asleep(x) /\ ~desched[x]
  BY <1>1 DEF IInv, Marked
<1>3. /\ Moves(t, "m_unlock") /\ pc'[t] = "m_unlock" /\ OthersStay(t)
      /\ pc[x] = "d_asleep" /\ x # t /\ pc'[x] = "d_asleep"
  BY <1>1, <1>2, GotoMoves DEF IInv, PCs, Moves, OthersStay, Asleep
<1>4. SchedInv'
  BY <1>1, <1>2, SchedUnblockKeepsInv DEF IInv, Types, Asleep
<1>5. /\ tstate'[x] = "RUNNABLE" /\ tstate' \in [Procs -> ThreadStates]
      /\ \A p \in Procs : p # x => tstate'[p] = tstate[p]
  <2>1. tstate' = [tstate EXCEPT ![x] = "RUNNABLE"]
    BY <1>1, <1>2 DEF SchedUnblock
  <2> QED BY <1>4, <2>1 DEF IInv, Types, SchedInv, SchedTypeOK, Procs
<1>6. Lines' /\ Requests'
  <2>1. \A l \in Locks : /\ Asks(t, l)' => Asks(t, l)
                         /\ Has(t, l) => Asks(t, l)'
    BY <1>1, <1>3 DEF Asks, AskedLast, OwnHeld, ListHeld, Finding, IInv, Requests
  <2>2. \A p \in Threads : p # t /\ pc[p] \in LockWait => tstate'[p] = tstate[p]
    BY <1>3, <1>5 DEF LockWait, Procs
  <2> HIDE DEF Has, Asks
  <2> QED BY <1>1, <1>3, <2>1, <2>2, NoLock DEF IInv
<1>7. UNCHANGED <<thrlist, lastTid, tid>>
  BY <1>1 DEF listVars
<1>8. Types'
  BY <1>1, <1>3, <1>4, <1>7 DEF IInv, Types, Moves
<1>9. Lifeless'
  BY <1>3, <1>5 DEF IInv, Lifeless, Moves, Procs
<1>10. \A u \in Threads : pc[u] = "m_wake" /\ ptr[u] = x => u = t
  BY <1>1, <1>2, AloneWithTarget
<1>11. \A y \in Threads : Asleep(y)' <=> Asleep(y) /\ y # x
  BY <1>1, <1>3, <1>5 DEF Asleep, Moves, Procs
<1>12. \A y \in Threads : /\ y # t => pc'[y] = pc[y]
                          /\ pc'[y] = "d_block" <=> pc[y] = "d_block"
                          /\ pc'[y] = "m_wake" <=> pc[y] = "m_wake" /\ y # t
  BY <1>1, <1>3 DEF Moves
<1>13. Marked'
  <2>1. \A p \in Procs : desched'[p] =>
            p \in Threads /\ (pc'[p] = "d_block" \/ Asleep(p)')
    BY <1>1, <1>2, <1>11, <1>12 DEF IInv, Marked
  <2>2. \A y \in Threads : pc'[y] = "d_block" => desched'[y]
    BY <1>1, <1>12 DEF IInv, Marked
  <2>3. ASSUME NEW y \in Threads, Asleep(y)', ~desched'[y]
        PROVE  \E u \in Threads : pc'[u] = "m_wake" /\ ptr'[u] = y
    <3>1. PICK u \in Threads : pc[u] = "m_wake" /\ ptr[u] = y
      BY <1>1, <1>11, <2>3 DEF IInv, Marked
    <3>2. u # t
      BY <1>2, <1>11, <2>3, <3>1
    <3> QED BY <1>1, <1>12, <3>1, <3>2
  <2>4. ASSUME NEW u \in Threads, pc'[u] = "m_wake"
        PROVE  ptr'[u] \in Threads /\ Asleep(ptr[u])' /\ ~desched'[ptr[u]]
    <3>1. /\ u # t /\ ptr[u] \in Threads /\ Asleep(ptr[u]) /\ ~desched[ptr[u]]
          /\ pc[u] = "m_wake"
      BY <1>12, <2>4 DEF IInv, Marked
    <3>2. PICK y \in Threads : y = ptr[u] /\ y # x
      BY <1>10, <3>1
    <3>3. Asleep(y)'
      BY <1>11, <3>1, <3>2
    <3>4. Asleep(ptr[u])'
      BY <1>1, <3>2, <3>3 DEF Asleep
    <3> QED BY <1>1, <3>1, <3>4
  <2> QED
    BY <1>1, <2>1, <2>2, <2>3, <2>4 DEF Marked
<1>14. Pointers'
  BY <1>1, <1>3, PointersKept DEF IInv, Pointers, Finding, Forking, Leaving
<1>15. Listed'
  BY <1>1, <1>3, <1>7, ListedKept DEF IInv, Leaving
<1>16. Ordered'
  BY <1>1, OrderedKept DEF IInv
<1>17. Posted'
  <2> SUFFICES ASSUME NEW y \in Threads, pc'[y] = "d_block" \/ Asleep(y)', word'[y] # 0
               PROVE  \E u \in Threads \ {y} : Waking(u, y)'
    BY DEF Posted
  <2>1. y # x /\ (pc[y] = "d_block" \/ Asleep(y)) /\ word[y] # 0
    BY <1>1, <1>3, <1>11, <1>12
  <2>2. PICK u \in Threads \ {y} : Waking(u, y)
    BY <2>1 DEF IInv, Posted
  <2>3. u # t
    BY <1>1, <1>2, <2>1, <2>2 DEF Waking
  <2>4. Waking(u, y)'
    BY <1>1, <1>7, <1>12, <2>2, <2>3 DEF Waking
  <2> QED BY <2>4
<1> QED
  BY <1>6, <1>8, <1>9, <1>13, <1>14, <1>15, <1>16, <1>17 DEF IInv

-----------------------------------------------------------------------------
(* sys_deschedule, past its test *)

LEMMA TestPassesKeeps ==
    ASSUME IInv, NEW t \in Threads, TestPasses(t)
    PROVE  IInv'
<1>1. /\ curr = t /\ pc[t] = "d_test" /\ word[t] = 0 /\ Goto(t, "d_block")
      /\ desched' = [desched EXCEPT ![t] = TRUE]
      /\ UNCHANGED <<schedVars, mutex, word, mapped, arg, ptr>> /\ UNCHANGED listVars
  BY DEF TestPasses, At, userVars, locals
<1>2. /\ Moves(t, "d_block") /\ pc'[t] = "d_block" /\ OthersStay(t)
  BY <1>1, GotoMoves DEF IInv, PCs, Moves, OthersStay
<1>3. SchedInv' /\ tstate' = tstate /\ Calm(t)
  BY <1>1, SchedSame
<1>4. /\ desched' \in [Procs -> BOOLEAN] /\ desched'[t]
      /\ \A p \in Procs : p # t => desched'[p] = desched[p]
  BY <1>1 DEF IInv, Types, Procs
<1>5. Lines' /\ Requests'
  <2>1. \A l \in Locks : /\ Asks(t, l)' => Asks(t, l)
                         /\ Has(t, l) => Asks(t, l)'
    BY <1>1, <1>2 DEF Asks, AskedLast, OwnHeld, ListHeld, Finding, IInv, Requests
  <2> HIDE DEF Has, Asks
  <2> QED BY <1>1, <1>2, <1>3, <2>1, NoLock DEF IInv
<1>6. UNCHANGED <<thrlist, lastTid, tid>>
  BY <1>1 DEF listVars
<1>7. Types'
  BY <1>1, <1>2, <1>3, <1>4, <1>6 DEF IInv, Types, Moves
<1>8. Lifeless'
  BY <1>2, <1>3, LifelessKept DEF IInv
<1>9. \A y \in Threads : Asleep(y)' <=> Asleep(y)
  BY <1>1, <1>2, <1>3, AsleepKept
<1>10. Marked'
  <2>1. \A y \in Threads : /\ y # t => pc'[y] = pc[y]
                           /\ pc'[y] = "m_wake" <=> pc[y] = "m_wake"
    BY <1>1, <1>2 DEF Moves
  <2>2. \A p \in Procs : desched'[p] =>
            p \in Threads /\ (pc'[p] = "d_block" \/ Asleep(p)')
    BY <1>2, <1>4, <1>9, <2>1 DEF IInv, Marked
  <2>3. \A y \in Threads : pc'[y] = "d_block" => desched'[y]
    BY <1>4, <2>1 DEF IInv, Marked, Procs
  <2>4. \A y \in Threads : Asleep(y)' =>
            desched'[y] \/ \E u \in Threads : pc'[u] = "m_wake" /\ ptr'[u] = y
    BY <1>1, <1>4, <1>9, <2>1 DEF IInv, Marked, Procs
  <2>5. ASSUME NEW u \in Threads, pc'[u] = "m_wake"
        PROVE  ptr'[u] \in Threads /\ Asleep(ptr[u])' /\ ~desched'[ptr[u]]
    <3>1. /\ ptr[u] \in Threads /\ Asleep(ptr[u]) /\ ~desched[ptr[u]]
      BY <2>1, <2>5 DEF IInv, Marked
    <3>2. PICK y \in Threads : y = ptr[u] /\ y # t
      BY <1>1, <3>1 DEF Asleep
    <3>3. Asleep(y)'
      BY <1>9, <3>1, <3>2
    <3>4. Asleep(ptr[u])'
      BY <1>1, <3>2, <3>3 DEF Asleep
    <3> QED BY <1>1, <1>4, <3>1, <3>2, <3>4 DEF Procs
  <2> QED
    BY <1>1, <2>2, <2>3, <2>4, <2>5 DEF Marked
<1>11. Pointers'
  BY <1>1, <1>2, PointersKept DEF IInv, Pointers, Finding, Forking, Leaving
<1>12. Listed'
  BY <1>1, <1>2, <1>6, ListedKept DEF IInv, Leaving
<1>13. Ordered'
  BY <1>1, OrderedKept DEF IInv
<1>14. Posted'
  <2> SUFFICES ASSUME NEW y \in Threads, pc'[y] = "d_block" \/ Asleep(y)', word'[y] # 0
               PROVE  \E u \in Threads \ {y} : Waking(u, y)'
    BY DEF Posted
  <2>1. y # t /\ (pc[y] = "d_block" \/ Asleep(y)) /\ word[y] # 0
    BY <1>1, <1>2, <1>9 DEF Moves
  <2>2. PICK u \in Threads \ {y} : Waking(u, y)
    BY <2>1 DEF IInv, Posted
  <2>3. Waking(u, y)'
    BY <1>1, <1>2, <1>6, <2>2 DEF Waking, Moves
  <2> QED BY <2>3
<1> QED
  BY <1>5, <1>7, <1>8, <1>10, <1>11, <1>12, <1>13, <1>14 DEF IInv

LEMMA DescheduleKeeps ==
    ASSUME IInv, NEW t \in Threads, Deschedule(t)
    PROVE  IInv'
<1>1. /\ curr = t /\ pc[t] = "d_block" /\ UnlockAndBlock(t, t) /\ Goto(t, "d_asleep")
      /\ UNCHANGED <<desched, word, mapped, arg, ptr>> /\ UNCHANGED listVars
  BY DEF Deschedule, At, userVars, locals
<1>2. /\ Moves(t, "d_asleep") /\ pc'[t] = "d_asleep" /\ OthersStay(t)
  BY <1>1, GotoMoves DEF IInv, PCs, Moves, OthersStay
<1>3. t \in Locks /\ List \in Locks /\ t # List /\ ptr[t] # List
  BY Bounds DEF IInv
<1>4. /\ SchedInv' /\ LockState' /\ Lines' /\ Requests' /\ Calm(t)
      /\ tstate'[t] = "BLOCKED"
  <2>1. Asks(t, t) /\ ~Asks(t, t)'
    BY <1>1, <1>2, <1>3 DEF Asks, OwnHeld, ListHeld, Finding
  <2>2. \A l \in Locks : l # t =>
            /\ Asks(t, l)' => Asks(t, l)
            /\ Has(t, l) => Asks(t, l)'
    BY <1>1, <1>2, <1>3 DEF Asks, AskedLast, OwnHeld, ListHeld, Finding, IInv, Requests
  <2>3. Has(t, t)
    BY <1>1, <1>3, <2>1, Runner DEF IInv
  <2> HIDE DEF Has, Asks, AskedLast
  <2> QED BY <1>1, <1>2, <1>3, <2>1, <2>2, <2>3, GiveLock DEF IInv
<1>5. UNCHANGED <<thrlist, lastTid, tid>>
  BY <1>1 DEF listVars
<1>6. Types'
  BY <1>1, <1>2, <1>4, <1>5 DEF IInv, Types, LockState, Moves
<1>7. Lifeless'
  BY <1>2, <1>4, LifelessKept DEF IInv
<1>8. \A y \in Threads : Asleep(y)' <=> Asleep(y) \/ y = t
  <2>1. \A y \in Threads : y # t /\ pc[y] = "d_asleep" => tstate'[y] = tstate[y]
    BY <1>4 DEF Calm, LockWait, Procs
  <2> QED BY <1>2, <1>4, <2>1 DEF Asleep, Moves
<1>9. \A y \in Threads : /\ y # t => pc'[y] = pc[y]
                         /\ pc'[y] = "m_wake" <=> pc[y] = "m_wake"
                         /\ pc'[y] = "d_block" <=> pc[y] = "d_block" /\ y # t
  BY <1>1, <1>2 DEF Moves
<1>10. Marked'
  <2>1. \A p \in Procs : desched'[p] =>
            p \in Threads /\ (pc'[p] = "d_block" \/ Asleep(p)')
    BY <1>1, <1>8, <1>9 DEF IInv, Marked
  <2>2. \A y \in Threads : pc'[y] = "d_block" => desched'[y]
    BY <1>1, <1>9 DEF IInv, Marked
  <2>3. \A y \in Threads : Asleep(y)' =>
            desched'[y] \/ \E u \in Threads : pc'[u] = "m_wake" /\ ptr'[u] = y
    BY <1>1, <1>8, <1>9 DEF IInv, Marked
  <2>4. ASSUME NEW u \in Threads, pc'[u] = "m_wake"
        PROVE  ptr'[u] \in Threads /\ Asleep(ptr[u])' /\ ~desched'[ptr[u]]
    <3>1. /\ ptr[u] \in Threads /\ Asleep(ptr[u]) /\ ~desched[ptr[u]]
      BY <1>9, <2>4 DEF IInv, Marked
    <3>2. PICK y \in Threads : y = ptr[u]
      BY <3>1
    <3>3. Asleep(y)'
      BY <1>8, <3>1, <3>2
    <3>4. Asleep(ptr[u])'
      BY <1>1, <3>2, <3>3 DEF Asleep
    <3> QED BY <1>1, <3>1, <3>4
  <2> QED
    BY <1>1, <2>1, <2>2, <2>3, <2>4 DEF Marked
<1>11. Pointers'
  BY <1>1, <1>2, PointersKept DEF IInv, Pointers, Finding, Forking, Leaving
<1>12. Listed'
  BY <1>1, <1>2, <1>5, ListedKept DEF IInv, Leaving
<1>13. Ordered'
  BY <1>1, OrderedKept DEF IInv
<1>14. Posted'
  <2> SUFFICES ASSUME NEW y \in Threads, pc'[y] = "d_block" \/ Asleep(y)', word'[y] # 0
               PROVE  \E u \in Threads \ {y} : Waking(u, y)'
    BY DEF Posted
  <2>1. (pc[y] = "d_block" \/ Asleep(y)) /\ word[y] # 0
    BY <1>1, <1>8, <1>9
  <2>2. PICK u \in Threads \ {y} : Waking(u, y)
    BY <2>1 DEF IInv, Posted
  <2>3. Waking(u, y)'
    BY <1>1, <1>2, <1>5, <2>2 DEF Waking, Moves
  <2> QED BY <2>3
<1> QED
  BY <1>4, <1>6, <1>7, <1>10, <1>11, <1>12, <1>13, <1>14 DEF IInv

LEMMA DescheduleReturnsKeeps ==
    ASSUME IInv, NEW t \in Threads, DescheduleReturns(t)
    PROVE  IInv'
<1>1. /\ curr = t /\ pc[t] = "d_asleep" /\ Goto(t, "out")
      /\ mapped' \in [Threads -> BOOLEAN]
      /\ UNCHANGED <<schedVars, mutex, desched, word, arg, ptr>> /\ UNCHANGED listVars
  BY DEF DescheduleReturns, LeaveDeschedule, At, locals, IInv, Types
<1>2. /\ Moves(t, "out") /\ pc'[t] = "out" /\ OthersStay(t)
  BY <1>1, GotoMoves DEF IInv, PCs, Moves, OthersStay
<1>3. SchedInv' /\ tstate' = tstate /\ Calm(t)
  BY <1>1, SchedSame
<1>4. tstate[t] = "RUNNABLE"
  BY <1>1, Runner DEF IInv
<1>5. Lines' /\ Requests'
  <2>1. \A l \in Locks : /\ Asks(t, l)' => Asks(t, l)
                         /\ Has(t, l) => Asks(t, l)'
    BY <1>1, <1>2 DEF Asks, AskedLast, OwnHeld, ListHeld, Finding, IInv, Requests
  <2> HIDE DEF Has, Asks
  <2> QED BY <1>1, <1>2, <1>3, <2>1, NoLock DEF IInv
<1>6. UNCHANGED <<thrlist, lastTid, tid>>
  BY <1>1 DEF listVars
<1>7. Types'
  BY <1>1, <1>2, <1>3, <1>6 DEF IInv, Types, Moves
<1>8. Lifeless'
  BY <1>2, <1>3, LifelessKept DEF IInv
<1>9. \A y \in Threads : Asleep(y)' <=> Asleep(y)
  BY <1>1, <1>2, <1>3, <1>4 DEF Asleep, Moves
<1>10. \A y \in Threads : /\ pc'[y] = "m_wake" <=> pc[y] = "m_wake"
                          /\ pc'[y] = "d_block" <=> pc[y] = "d_block"
  BY <1>1, <1>2 DEF Moves
<1>11. Marked'
  <2> HIDE DEF Asleep
  <2> QED BY <1>1, <1>9, <1>10 DEF IInv, Marked
<1>12. Pointers'
  BY <1>1, <1>2, PointersKept DEF IInv, Pointers, Finding, Forking, Leaving
<1>13. Listed'
  BY <1>1, <1>2, <1>6, ListedKept DEF IInv, Leaving
<1>14. Ordered'
  BY <1>1, OrderedKept DEF IInv
<1>15. Posted'
  <2> SUFFICES ASSUME NEW y \in Threads, pc'[y] = "d_block" \/ Asleep(y)', word'[y] # 0
               PROVE  \E u \in Threads \ {y} : Waking(u, y)'
    BY DEF Posted
  <2>1. (pc[y] = "d_block" \/ Asleep(y)) /\ word[y] # 0
    BY <1>1, <1>9, <1>10
  <2>2. PICK u \in Threads \ {y} : Waking(u, y)
    BY <2>1 DEF IInv, Posted
  <2>3. Waking(u, y)'
    BY <1>1, <1>2, <1>6, <2>2 DEF Waking, Moves
  <2> QED BY <2>3
<1> QED
  BY <1>5, <1>7, <1>8, <1>11, <1>12, <1>13, <1>14, <1>15 DEF IInv

-----------------------------------------------------------------------------
(* The end of a thread *)

LEMMA VanishBlocksKeeps ==
    ASSUME IInv, NEW t \in Threads, VanishBlocks(t)
    PROVE  IInv'
<1>1. /\ curr = t /\ pc[t] = "v_block" /\ SchedBlock(t) /\ Goto(t, "gone")
      /\ UNCHANGED <<mutex, desched, word, mapped, arg, ptr>> /\ UNCHANGED listVars
  BY DEF VanishBlocks, At, userVars, locals
<1>2. /\ Moves(t, "gone") /\ pc'[t] = "gone" /\ OthersStay(t)
  BY <1>1, GotoMoves DEF IInv, PCs, Moves, OthersStay
<1>3. tstate[t] = "RUNNABLE" /\ SchedInv
  BY <1>1, Runner DEF IInv, Types
<1>4. SchedInv' /\ tstate' = [tstate EXCEPT ![t] = "BLOCKED"]
  BY <1>1, <1>3, SchedBlockKeepsInv DEF SchedBlock
<1>5. /\ tstate'[t] = "BLOCKED"
      /\ \A p \in Procs : p # t => tstate'[p] = tstate[p]
      /\ Calm(t)
  BY <1>3, <1>4 DEF SchedInv, SchedTypeOK, Procs, Calm
<1>6. Lines' /\ Requests'
  <2>1. \A l \in Locks : /\ Asks(t, l)' => Asks(t, l)
                         /\ Has(t, l) => Asks(t, l)'
    BY <1>1, <1>2 DEF Asks, AskedLast, OwnHeld, ListHeld, Finding, IInv, Requests
  <2> HIDE DEF Has, Asks
  <2> QED BY <1>1, <1>2, <1>5, <2>1, NoLock DEF IInv, Procs
<1>7. UNCHANGED <<thrlist, lastTid, tid>>
  BY <1>1 DEF listVars
<1>8. Types'
  BY <1>1, <1>2, <1>4, <1>7 DEF IInv, Types, Moves
<1>9. Lifeless'
  BY <1>2, <1>5 DEF IInv, Lifeless, Moves, Procs
<1>10. Marked'
  BY <1>1, <1>2, <1>5, MarkedKept DEF IInv
<1>11. Pointers'
  BY <1>1, <1>2, PointersKept DEF IInv, Pointers, Finding, Forking, Leaving
<1>12. Listed'
  BY <1>1, <1>2, <1>7, ListedKept DEF IInv, Leaving
<1>13. Ordered'
  BY <1>1, OrderedKept DEF IInv
<1>14. Posted'
  BY <1>1, <1>2, <1>5, <1>7, PostedKept DEF IInv, Waking
<1> QED
  BY <1>6, <1>8, <1>9, <1>10, <1>11, <1>12, <1>13, <1>14 DEF IInv

LEMMA ThrFreeKeeps ==
    ASSUME IInv, NEW t \in Threads, ThrFree(t)
    PROVE  IInv'
<1>1. /\ pc[t] = "gone" /\ Goto(t, "absent")
      /\ tid' = [tid EXCEPT ![t] = 0] /\ word' = [word EXCEPT ![t] = 0]
      /\ mapped' = [mapped EXCEPT ![t] = TRUE]
      /\ UNCHANGED <<schedVars, thrlist, rover, lastTid, mutex, desched, arg, ptr>>
  BY DEF ThrFree, locals
<1>2. /\ Moves(t, "absent") /\ pc'[t] = "absent" /\ OthersStay(t)
  BY <1>1, GotoMoves DEF IInv, PCs, Moves, OthersStay
<1>3. SchedInv' /\ tstate' = tstate /\ Calm(t)
  BY <1>1, SchedSame
<1>4. t \notin ToSet(thrlist)
  BY <1>1 DEF IInv, Listed, Leaving
<1>5. Lines' /\ Requests'
  <2>1. \A x \in Threads : \A l \in Locks :
            (Has(x, l)' <=> Has(x, l)) /\ (Waits(x, l)' <=> Waits(x, l))
    BY <1>1 DEF Has, Waits
  <2>2. \A l \in Locks : ~Asks(t, l)' /\ ~Asks(t, l) /\ ~Has(t, l) /\ ~Waits(t, l)
    BY <1>1, <1>2 DEF Asks, AskedLast, OwnHeld, ListHeld, Finding, IInv, Requests
  <2>3. Lines'
    BY <1>1 DEF IInv, Lines
  <2> HIDE DEF Has, Waits, Asks, AskedLast
  <2> DEFINE S == {t}
  <2>4. S \in SUBSET Threads
    OBVIOUS
  <2>5. \A x \in Threads \ S : pc'[x] = pc[x] /\ ptr'[x] = ptr[x]
    BY <1>2 DEF Moves, OthersStay
  <2>6. \A x \in Threads \ S : \A l \in Locks :
            (Has(x, l)' \/ Waits(x, l)' <=> Has(x, l) \/ Waits(x, l))
    BY <2>1
  <2>7. \A x \in Threads \ S : \A l \in Locks :
            Waits(x, l)' => Waits(x, l) /\ tstate'[x] = tstate[x]
    BY <1>3, <2>1
  <2>8. \A x \in S : \A l \in Locks : ~Asks(x, l)' /\ ~Has(x, l)' /\ ~Waits(x, l)'
    BY <2>1, <2>2
  <2> HIDE DEF S
  <2>9. Requests'
    BY <2>4, <2>5, <2>6, <2>7, <2>8, RequestsKept DEF IInv
  <2> QED BY <2>3, <2>9
<1>6. Types'
  <2>1. tid' \in [Procs -> 0 .. MaxTid] /\ word' \in [Threads -> 0 .. 1]
    <3>1. 0 \in 0 .. MaxTid /\ 0 \in 0 .. 1
      BY ThreadMgmtAssumption
    <3> QED BY <1>1, <3>1 DEF IInv, Types
  <2>2. mapped' \in [Threads -> BOOLEAN]
    BY <1>1 DEF IInv, Types
  <2> QED BY <1>1, <1>2, <1>3, <2>1, <2>2 DEF IInv, Types, Moves
<1>7. Lifeless'
  BY <1>1, <1>2, <1>3 DEF IInv, Lifeless, Moves
<1>8. Marked'
  BY <1>1, <1>2, <1>3, MarkedKept DEF IInv
<1>9. Pointers'
  BY <1>1, <1>2, PointersKept DEF IInv, Pointers, Finding, Forking, Leaving
<1>10. Listed'
  BY <1>1, <1>2, ListedKept DEF IInv, Leaving
<1>11. Ordered'
  <2>1. \A p \in ToSet(thrlist) : tid'[p] = tid[p]
    BY <1>1, <1>4 DEF IInv, Types, Listed, IsQueue, ToSet
  <2>2. \A i \in DOMAIN thrlist : thrlist[i] \in ToSet(thrlist)
    BY DEF ToSet
  <2>3. Idle \in ToSet(thrlist)
    BY DEF IInv, Listed
  <2> QED BY <1>1, <2>1, <2>2, <2>3 DEF IInv, Ordered
<1>12. Posted'
  <2> SUFFICES ASSUME NEW y \in Threads, pc'[y] = "d_block" \/ Asleep(y)', word'[y] # 0
               PROVE  \E u \in Threads \ {y} : Waking(u, y)'
    BY DEF Posted
  <2>1. y # t /\ (pc[y] = "d_block" \/ Asleep(y)) /\ word[y] # 0
    BY <1>1, <1>2, <1>3 DEF Moves, Asleep, IInv, Types
  <2>2. PICK u \in Threads \ {y} : Waking(u, y)
    BY <2>1 DEF IInv, Posted
  <2>3. u # t /\ tid'[y] = tid[y]
    BY <1>1, <2>1, <2>2 DEF Waking, IInv, Types, Procs
  <2>4. Waking(u, y)'
    BY <1>1, <1>2, <2>2, <2>3 DEF Waking, Moves
  <2> QED BY <2>4
<1> QED
  BY <1>5, <1>6, <1>7, <1>8, <1>9, <1>10, <1>11, <1>12 DEF IInv

-----------------------------------------------------------------------------
(* The thread list *)

Less == {ss \in Nat \X Nat : ss[1] < ss[2]}

LEMMA LessWellFounded == IsWellFoundedOn(Less, Nat)
  BY NatLessThanWellFounded DEF OpToRel, Less

LEMMA LeastLemma ==
    ASSUME NEW S, S \subseteq Nat, S # {}
    PROVE  \E i \in S : \A j \in S : i <= j
<1>1. PICK i \in S : \A j \in S : <<j, i>> \notin Less
  BY LessWellFounded, WFMin, Zenon
<1>2. ASSUME NEW j \in S PROVE i <= j
  <2>1. i \in Nat /\ j \in Nat
    OBVIOUS
  <2>2. ASSUME j < i PROVE FALSE
    <3>1. <<j, i>> \in {ss \in Nat \X Nat : ss[1] < ss[2]}
      BY <2>1, <2>2
    <3> QED BY <1>1, <3>1 DEF Less
  <2> QED BY <2>1, <2>2
<1> QED BY <1>2

(* The scan passes the threads that leave no gap, and the next one leaves  *)
(* one.                                                                    *)
LEMMA PassedLemma ==
    ASSUME NEW s \in Seq(Procs), NEW n \in Nat, tid \in [Procs -> 0 .. MaxTid]
    PROVE  \E k \in 0 .. Len(s) :
               /\ Passed(s, n) = k
               /\ \A i \in 1 .. k : tid[s[i]] <= Before(s, n, i) + 1
               /\ k < Len(s) => tid[s[k+1]] > Before(s, n, k+1) + 1
<1> DEFINE Ok(j) == tid[s[j]] <= Before(s, n, j) + 1
           G == {i \in DOMAIN s : \A j \in 1 .. i : Ok(j)}
           D == {k \in Nat : k + 1 \notin G}
<1>1. Len(s) \in Nat /\ DOMAIN s = 1 .. Len(s)
  OBVIOUS
<1>2. \A j \in DOMAIN s : tid[s[j]] \in Int /\ Before(s, n, j) \in Int
  BY <1>1, ThreadMgmtAssumption DEF Before
<1>3. D \subseteq Nat /\ Len(s) \in D
  BY <1>1
<1>4. PICK k \in D : \A d \in D : k <= d
  BY <1>3, LeastLemma
<1>5. k \in 0 .. Len(s)
  BY <1>1, <1>3, <1>4
<1>6. \A i \in 1 .. k : i \in G
  <2> SUFFICES ASSUME NEW i \in 1 .. k, i \notin G PROVE FALSE
    OBVIOUS
  <2>1. i - 1 \in Nat /\ (i - 1) + 1 = i
    BY <1>5
  <2>2. i - 1 \in D
    BY <2>1
  <2> QED BY <1>4, <1>5, <2>1, <2>2
<1>7. \A i \in G : i <= k
  <2> SUFFICES ASSUME NEW i \in G, ~(i <= k) PROVE FALSE
    OBVIOUS
  <2>1. /\ i \in 1 .. Len(s) /\ k + 1 \in 1 .. i /\ k + 1 \in DOMAIN s
    BY <1>1, <1>5
  <2>2. \A j \in 1 .. k + 1 : Ok(j)
    BY <1>5, <2>1
  <2>3. k + 1 \in G
    BY <2>1, <2>2
  <2> QED BY <1>4, <2>3
<1>8. G = 1 .. k
  <2>1. \A i \in G : i \in 1 .. k
    BY <1>1, <1>5, <1>7
  <2> HIDE DEF G
  <2> QED BY <1>6, <2>1
<1>9. Passed(s, n) = k
  <2>1. Passed(s, n) = Cardinality(G)
    BY DEF Passed
  <2>2. Cardinality(1 .. k) = IF 1 > k THEN 0 ELSE k - 1 + 1
    BY <1>5, FS_Interval
  <2> HIDE DEF G
  <2> QED BY <1>5, <1>8, <2>1, <2>2
<1>10. \A i \in 1 .. k : Ok(i)
  <2> SUFFICES ASSUME NEW i \in 1 .. k PROVE Ok(i)
    OBVIOUS
  <2>1. i \in G /\ i \in 1 .. i
    BY <1>5, <1>6
  <2> HIDE DEF Ok
  <2> QED BY <2>1
<1>11. ASSUME k < Len(s) PROVE ~Ok(k + 1)
  <2>1. k + 1 \notin G /\ k + 1 \in DOMAIN s
    BY <1>1, <1>4, <1>5, <1>11
  <2>2. PICK j \in 1 .. k + 1 : ~Ok(j)
    BY <2>1
  <2>3. j \notin 1 .. k
    BY <1>10, <2>2
  <2>4. j = k + 1
    BY <1>5, <2>3
  <2> QED BY <2>2, <2>4
<1>12. k < Len(s) => tid[s[k+1]] > Before(s, n, k+1) + 1
  <2> SUFFICES ASSUME k < Len(s) PROVE tid[s[k+1]] > Before(s, n, k+1) + 1
    OBVIOUS
  <2>1. k + 1 \in DOMAIN s
    BY <1>1, <1>5
  <2>2. tid[s[k+1]] \in Int /\ Before(s, n, k+1) \in Int
    BY <1>2, <2>1
  <2>3. ~(tid[s[k+1]] <= Before(s, n, k+1) + 1)
    BY <1>11
  <2> QED BY <2>2, <2>3
<1> QED BY <1>5, <1>9, <1>10, <1>12

LEMMA InsertAtLemma ==
    ASSUME NEW s \in Seq(Procs), NEW i \in 1 .. Len(s) + 1, NEW e \in Procs
    PROVE  /\ InsertAt(s, i, e) \in Seq(Procs)
           /\ Len(InsertAt(s, i, e)) = Len(s) + 1
           /\ \A j \in 1 .. Len(s) + 1 :
                  /\ j < i => InsertAt(s, i, e)[j] = s[j]
                  /\ j = i => InsertAt(s, i, e)[j] = e
                  /\ j > i => InsertAt(s, i, e)[j] = s[j-1]
<1> DEFINE a == SubSeq(s, 1, i - 1)
           b == SubSeq(s, i, Len(s))
           c == a \o <<e>>
<1>1. Len(s) \in Nat /\ i \in Int /\ i - 1 \in Int /\ 1 \in Int /\ Len(s) \in Int
  OBVIOUS
<1>2. /\ a \in Seq(Procs) /\ Len(a) = i - 1
      /\ \A j \in 1 .. i - 1 : a[j] = s[j]
  <2>1. \A j \in 1 .. i - 1 : s[j] \in Procs
    BY <1>1
  <2>2. /\ a \in Seq(Procs) /\ Len(a) = IF 1 <= i - 1 THEN i - 1 - 1 + 1 ELSE 0
        /\ \A j \in 1 .. i - 1 - 1 + 1 : a[j] = s[1 + j - 1]
    BY <1>1, <2>1, SubSeqProperties
  <2>3. \A j \in 1 .. i - 1 : j \in 1 .. i - 1 - 1 + 1 /\ 1 + j - 1 = j
    BY <1>1
  <2> HIDE DEF a
  <2> QED BY <1>1, <2>2, <2>3
<1>3. /\ b \in Seq(Procs) /\ Len(b) = Len(s) + 1 - i
      /\ \A j \in 1 .. Len(s) + 1 - i : b[j] = s[i + j - 1]
  <2>1. \A j \in i .. Len(s) : s[j] \in Procs
    BY <1>1
  <2> DEFINE n == Len(s)
  <2>2. /\ b \in Seq(Procs) /\ Len(b) = IF i <= n THEN n - i + 1 ELSE 0
        /\ \A j \in 1 .. n - i + 1 : b[j] = s[i + j - 1]
    BY <1>1, <2>1, SubSeqProperties
  <2>3. n \in Nat /\ i \in 1 .. n + 1
    BY <1>1
  <2> HIDE DEF b, n
  <2>4. Len(b) = n + 1 - i /\ n - i + 1 = n + 1 - i
    BY <2>2, <2>3
  <2>5. \A j \in 1 .. n + 1 - i : b[j] = s[i + j - 1]
    BY <2>2, <2>4
  <2> QED BY <2>2, <2>4, <2>5 DEF n
<1>4. <<e>> \in Seq(Procs) /\ Len(<<e>>) = 1 /\ <<e>>[1] = e
  OBVIOUS
<1> HIDE DEF a, b
<1>5. /\ c \in Seq(Procs) /\ Len(c) = i
      /\ \A j \in 1 .. i : c[j] = IF j <= i - 1 THEN a[j] ELSE <<e>>[j - (i - 1)]
  BY <1>1, <1>2, <1>4, ConcatProperties
<1> HIDE DEF c
<1>6. \A j \in 1 .. i : c[j] = IF j < i THEN s[j] ELSE e
  <2> SUFFICES ASSUME NEW j \in 1 .. i PROVE c[j] = IF j < i THEN s[j] ELSE e
    OBVIOUS
  <2>1. CASE j < i
    <3>1. j \in 1 .. i - 1 /\ j <= i - 1
      BY <1>1, <2>1
    <3> QED BY <1>2, <1>5, <2>1, <3>1
  <2>2. CASE j = i
    <3>1. ~(j <= i - 1) /\ j - (i - 1) = 1 /\ ~(j < i)
      BY <1>1, <2>2
    <3> QED BY <1>4, <1>5, <3>1
  <2> QED BY <1>1, <2>1, <2>2
<1> DEFINE r == c \o b
<1>7. /\ r \in Seq(Procs) /\ Len(r) = Len(c) + Len(b)
      /\ \A j \in 1 .. Len(c) + Len(b) : r[j] = IF j <= Len(c) THEN c[j] ELSE b[j - Len(c)]
  BY <1>3, <1>5, ConcatProperties
<1> HIDE DEF r
<1>8. Len(r) = Len(s) + 1
  BY <1>1, <1>3, <1>5, <1>7
<1>9. \A j \in 1 .. Len(s) + 1 : r[j] = IF j < i THEN s[j] ELSE IF j = i THEN e ELSE s[j-1]
  <2> SUFFICES ASSUME NEW j \in 1 .. Len(s) + 1
               PROVE  r[j] = IF j < i THEN s[j] ELSE IF j = i THEN e ELSE s[j-1]
    OBVIOUS
  <2>1. r[j] = IF j <= i THEN c[j] ELSE b[j - i]
    BY <1>1, <1>5, <1>7, <1>8
  <2>2. CASE j <= i
    <3>1. j \in 1 .. i
      BY <1>1, <2>2
    <3> QED BY <1>1, <1>6, <2>1, <2>2, <3>1
  <2>3. CASE j > i
    <3>1. j - i \in 1 .. Len(s) + 1 - i /\ i + (j - i) - 1 = j - 1 /\ ~(j <= i) /\ ~(j < i) /\ j # i
      BY <1>1, <2>3
    <3>2. b[j - i] = s[i + (j - i) - 1]
      BY <1>3, <3>1
    <3> QED BY <2>1, <3>1, <3>2
  <2> QED BY <1>1, <2>2, <2>3
<1>10. InsertAt(s, i, e) = r
  BY DEF InsertAt, r, c, a, b
<1>11. \A j \in 1 .. Len(s) + 1 : /\ j < i => r[j] = s[j]
                                  /\ j = i => r[j] = e
                                  /\ j > i => r[j] = s[j-1]
  BY <1>1, <1>9
<1> QED BY <1>7, <1>8, <1>10, <1>11

LEMMA RoverLemma ==
    ASSUME IInv
    PROVE  /\ thrlist \in Seq(Procs) /\ Len(thrlist) \in Nat
           /\ DOMAIN thrlist = 1 .. Len(thrlist)
           /\ RoverAt \in 1 .. Len(thrlist) /\ thrlist[RoverAt] = rover
           /\ rover # List
<1>1. /\ thrlist \in Seq(Procs) /\ Len(thrlist) \in Nat
      /\ DOMAIN thrlist = 1 .. Len(thrlist)
  BY DEF IInv, Listed, IsQueue
<1>2. PICK i \in DOMAIN thrlist : thrlist[i] = rover
  BY DEF IInv, Ordered, ToSet
<1>3. rover # List
  BY <1>1, <1>2, ThreadMgmtAssumption
<1>4. RoverAt = CHOOSE j \in DOMAIN thrlist : thrlist[j] = rover
  BY <1>3 DEF RoverAt
<1>5. RoverAt \in DOMAIN thrlist /\ thrlist[RoverAt] = rover
  BY <1>2, <1>4
<1> QED BY <1>1, <1>3, <1>5

(* The list ascends in either direction. *)
LEMMA Ascends ==
    ASSUME IInv, NEW i \in DOMAIN thrlist, NEW j \in DOMAIN thrlist
    PROVE  /\ tid[thrlist[i]] \in 0 .. MaxTid
           /\ i < j <=> tid[thrlist[i]] < tid[thrlist[j]]
           /\ i = j <=> tid[thrlist[i]] = tid[thrlist[j]]
<1>1. /\ i \in Int /\ j \in Int
      /\ tid[thrlist[i]] \in 0 .. MaxTid /\ tid[thrlist[j]] \in 0 .. MaxTid
  BY DEF IInv, Listed, IsQueue, Types
<1>2. /\ i < j => tid[thrlist[i]] < tid[thrlist[j]]
      /\ j < i => tid[thrlist[j]] < tid[thrlist[i]]
  BY DEF IInv, Ordered
<1> QED BY <1>1, <1>2, ThreadMgmtAssumption

LEMMA InsertOrdered ==
    ASSUME IInv, NEW e \in Threads, e \notin ToSet(thrlist),
           NEW i \in 1 .. Len(thrlist) + 1, NEW n \in 1 .. MaxTid,
           \A j \in DOMAIN thrlist : j < i => tid[thrlist[j]] < n,
           \A j \in DOMAIN thrlist : j >= i => tid[thrlist[j]] > n,
           thrlist' = InsertAt(thrlist, i, e), tid' = [tid EXCEPT ![e] = n],
           lastTid' = n, rover' = e
    PROVE  /\ IsQueue(thrlist)' /\ ToSet(thrlist') = ToSet(thrlist) \cup {e}
           /\ Ordered'
<1> DEFINE L == Len(thrlist)
           r == thrlist'
<1>1. /\ thrlist \in Seq(Procs) /\ L \in Nat /\ DOMAIN thrlist = 1 .. L
      /\ e \in Procs /\ e # Idle
  BY RoverLemma, SchedAssumption DEF Procs
<1>2. /\ r \in Seq(Procs) /\ Len(r) = L + 1 /\ DOMAIN r = 1 .. L + 1
      /\ \A j \in 1 .. L + 1 : r[j] =
             IF j < i THEN thrlist[j] ELSE IF j = i THEN e ELSE thrlist[j-1]
  <2> DEFINE w == InsertAt(thrlist, i, e)
  <2>1. /\ w \in Seq(Procs) /\ Len(w) = L + 1
        /\ \A j \in 1 .. L + 1 : w[j] =
               IF j < i THEN thrlist[j] ELSE IF j = i THEN e ELSE thrlist[j-1]
    <3>1. thrlist \in Seq(Procs) /\ e \in Procs /\ i \in 1 .. Len(thrlist) + 1
      BY <1>1
    <3>2. /\ w \in Seq(Procs) /\ Len(w) = L + 1
          /\ \A j \in 1 .. L + 1 :
                 /\ j < i => w[j] = thrlist[j]
                 /\ j = i => w[j] = e
                 /\ j > i => w[j] = thrlist[j-1]
      BY <3>1, InsertAtLemma
    <3> HIDE DEF w, L
    <3> QED BY <1>1, <3>1, <3>2
  <2>2. r = w
    OBVIOUS
  <2> HIDE DEF w, r
  <2>3. DOMAIN w = 1 .. L + 1
    BY <2>1
  <2> QED BY <2>1, <2>2, <2>3
<1>3. /\ tid'[e] = n
      /\ \A p \in ToSet(thrlist) : tid'[p] = tid[p]
      /\ tid'[Idle] = tid[Idle]
  <2>1. tid \in [Procs -> 0 .. MaxTid] /\ ToSet(thrlist) \subseteq Procs /\ Idle \in Procs
    BY <1>1 DEF IInv, Types, ToSet, Procs
  <2> QED BY <1>1, <2>1
<1> HIDE DEF r, L
<1>4. /\ \A j \in 1 .. L : thrlist[j] \in ToSet(thrlist)
      /\ \A j \in 1 .. L : j < i => tid[thrlist[j]] < n
      /\ \A j \in 1 .. L : j >= i => tid[thrlist[j]] > n
      /\ \A j \in 1 .. L : tid[thrlist[j]] \in Nat
      /\ i \in 1 .. L + 1
  <2>1. \A j \in 1 .. L : tid[thrlist[j]] \in 0 .. MaxTid
    BY <1>1, Ascends
  <2> QED BY <1>1, <2>1 DEF L, ToSet
<1>5. ToSet(r) = ToSet(thrlist) \cup {e}
  <2>1. ASSUME NEW x \in ToSet(r) PROVE x \in ToSet(thrlist) \cup {e}
    <3>1. PICK j \in 1 .. L + 1 : r[j] = x
      BY <1>2, <2>1 DEF ToSet
    <3>2. CASE j < i
      <4>1. j \in 1 .. L
        BY <1>1, <3>2
      <4> QED BY <1>2, <1>4, <3>1, <3>2, <4>1
    <3>3. CASE j = i
      BY <1>1, <1>2, <3>1, <3>3
    <3>4. CASE j > i
      <4>1. j - 1 \in 1 .. L /\ ~(j < i) /\ j # i
        BY <1>1, <3>4
      <4> QED BY <1>2, <1>4, <3>1, <4>1
    <3> QED BY <1>1, <3>2, <3>3, <3>4
  <2>2. ASSUME NEW x \in ToSet(thrlist) PROVE x \in ToSet(r)
    <3>1. PICK j \in 1 .. L : thrlist[j] = x
      BY <1>1, <2>2 DEF ToSet
    <3>2. CASE j < i
      <4>1. j \in DOMAIN r /\ r[j] = x
        BY <1>1, <1>2, <3>1, <3>2
      <4> QED BY <4>1 DEF ToSet
    <3>3. CASE j >= i
      <4>1. j + 1 \in 1 .. L + 1 /\ ~(j + 1 < i) /\ j + 1 # i /\ (j + 1) - 1 = j
        BY <1>1, <3>3
      <4>2. j + 1 \in DOMAIN r /\ r[j + 1] = x
        BY <1>2, <3>1, <4>1
      <4> QED BY <4>2 DEF ToSet
    <3> QED BY <1>1, <3>2, <3>3
  <2>3. e \in ToSet(r)
    <3>1. i \in DOMAIN r /\ r[i] = e
      BY <1>1, <1>2
    <3> QED BY <3>1 DEF ToSet
  <2> QED BY <2>1, <2>2, <2>3
<1>6. ASSUME NEW j \in DOMAIN r, NEW k \in DOMAIN r, j < k
      PROVE  tid'[r[j]] < tid'[r[k]]
  <2>0. /\ j \in 1 .. L + 1 /\ k \in 1 .. L + 1 /\ i \in Int /\ j \in Int /\ k \in Int
        /\ n \in Nat
    BY <1>1, <1>2
  <2>1. \A l \in 1 .. L : tid'[thrlist[l]] = tid[thrlist[l]] /\ tid[thrlist[l]] \in Nat
    BY <1>3, <1>4
  <2>2. \A l, m \in 1 .. L : l < m => tid[thrlist[l]] < tid[thrlist[m]]
    BY <1>1, Ascends
  <2>3. CASE k < i
    <3>1. j \in 1 .. L /\ k \in 1 .. L /\ j < i
      BY <1>1, <1>6, <2>0, <2>3
    <3>2. r[j] = thrlist[j] /\ r[k] = thrlist[k]
      BY <1>2, <2>0, <2>3, <3>1
    <3> QED BY <1>6, <2>1, <2>2, <3>1, <3>2
  <2>4. CASE k = i
    <3>1. j \in 1 .. L /\ j < i
      BY <1>1, <1>6, <2>0, <2>4
    <3>2. r[j] = thrlist[j] /\ r[k] = e
      BY <1>2, <2>0, <2>4, <3>1
    <3> QED BY <1>3, <1>4, <2>1, <3>1, <3>2
  <2>5. CASE k > i
    <3>1. k - 1 \in 1 .. L /\ k - 1 >= i /\ ~(k < i) /\ k # i
      BY <1>1, <2>0, <2>5
    <3>2. r[k] = thrlist[k-1]
      BY <1>2, <2>0, <3>1
    <3>3. CASE j < i
      <4>1. j \in 1 .. L /\ j < k - 1
        BY <1>1, <2>0, <3>1, <3>3
      <4>2. r[j] = thrlist[j]
        BY <1>2, <2>0, <3>3
      <4> QED BY <2>1, <2>2, <3>1, <3>2, <4>1, <4>2
    <3>4. CASE j = i
      <4>1. r[j] = e
        BY <1>2, <2>0, <3>4
      <4> QED BY <1>3, <1>4, <2>0, <2>1, <3>1, <3>2, <4>1
    <3>5. CASE j > i
      <4>1. j - 1 \in 1 .. L /\ j - 1 < k - 1 /\ ~(j < i) /\ j # i
        BY <1>1, <1>6, <2>0, <3>1, <3>5
      <4>2. r[j] = thrlist[j-1]
        BY <1>2, <2>0, <4>1
      <4> QED BY <2>1, <2>2, <3>1, <3>2, <4>1, <4>2
    <3> QED BY <2>0, <3>3, <3>4, <3>5
  <2> QED BY <2>0, <2>3, <2>4, <2>5
<1>7. NoDuplicates(r)
  <2> SUFFICES ASSUME NEW j \in DOMAIN r, NEW k \in DOMAIN r, r[j] = r[k], j # k
               PROVE  FALSE
    BY DEF NoDuplicates
  <2>1. tid'[r[j]] \in Nat
    BY <1>1, <1>2, ThreadMgmtAssumption DEF IInv, Types
  <2>2. j < k \/ k < j
    BY <1>1, <1>2
  <2> QED BY <1>6, <2>1, <2>2
<1>8. \A p \in ToSet(r) : tid'[p] >= 1
  BY <1>3, <1>5 DEF IInv, Ordered
<1>9. \A p \in ToSet(r) : tid'[p] > tid'[e] => tid'[p] > n
  BY <1>3
<1>10. Ordered'
  BY <1>3, <1>5, <1>6, <1>8, <1>9 DEF IInv, Ordered, r
<1>11. IsQueue(thrlist)'
  BY <1>2, <1>7 DEF IsQueue, r, NoDuplicates
<1> QED BY <1>5, <1>10, <1>11 DEF r

-----------------------------------------------------------------------------
(* thread_fork, before and after the new thread enters the list *)

(* Nobody has the lock of a dead thread, nor of a TCB that is not in use.  *)
LEMMA FreeWhenGone ==
    ASSUME IInv, NEW t \in Threads, pc[t] \in {"gone", "absent"}
    PROVE  mutex[t] = Free
<1>1. t \in Locks /\ t # List /\ t # None
  BY Bounds DEF IInv
<1>2. \A x \in Threads : ~Has(x, t)
  <2> SUFFICES ASSUME NEW x \in Threads, Has(x, t) PROVE FALSE
    OBVIOUS
  <2>1. ptr[x] # t
    BY DEF IInv, Pointers, Leaving
  <2>2. ~Asks(x, t)
    BY <1>1, <2>1 DEF Asks, OwnHeld
  <2>3. Asks(x, t) \/ (t = x /\ pc[x] \in {"v_list", "v_del"})
    BY <1>1 DEF IInv, Requests
  <2> QED BY <2>2, <2>3
<1>3. mutex[t] \in [owner : Threads \cup {None}, queue : Seq(Threads)]
  BY <1>1 DEF IInv, Types
<1>4. mutex[t].owner = None
  BY <1>2, <1>3 DEF Has
<1>5. mutex[t].queue = <<>>
  BY <1>1, <1>4 DEF IInv, Lines
<1> QED BY <1>3, <1>4, <1>5 DEF Free

LEMMA CallThreadForkKeeps ==
    ASSUME IInv, NEW t \in Threads, NEW u \in Threads, CallThreadFork(t, u)
    PROVE  IInv'
<1>1. /\ curr = t /\ pc[t] = "out" /\ pc[u] = "absent"
      /\ pc' = [pc EXCEPT ![t] = "f_list", ![u] = "nascent"]
      /\ tstate' = [tstate EXCEPT ![u] = "NASCENT"]
      /\ ptr' = [ptr EXCEPT ![t] = u]
      /\ UNCHANGED <<runq, curr, word, mapped, arg>> /\ UNCHANGED listVars
      /\ UNCHANGED <<thrlist, rover, lastTid, tid>>
  BY DEF CallThreadFork, At, userVars, listVars
<1>2. /\ t # u /\ u \in Procs /\ u # None
      /\ pc' \in [Threads -> PCs] /\ pc'[t] = "f_list" /\ pc'[u] = "nascent"
      /\ \A x \in Threads : x \notin {t, u} => pc'[x] = pc[x]
      /\ ptr' \in [Threads -> Procs \cup {None}] /\ ptr'[t] = u
      /\ \A x \in Threads : x # t => ptr'[x] = ptr[x]
  BY <1>1, SchedAssumption DEF IInv, Types, PCs, Procs
<1>3. mutex' = mutex
  <2>1. mutex[u] = Free
    BY <1>1, FreeWhenGone
  <2> QED BY <2>1 DEF CallThreadFork, IInv, Types
<1>4. ~desched[u] /\ desched' = desched
  <2>1. ~desched[u]
    BY <1>1, <1>2 DEF IInv, Marked, Asleep
  <2> QED BY <2>1 DEF CallThreadFork, IInv, Types
<1>5. /\ tstate[u] = "BLOCKED" /\ tstate'[u] = "NASCENT"
      /\ \A p \in Procs : p # u => tstate'[p] = tstate[p]
      /\ tstate' \in [Procs -> ThreadStates]
  BY <1>1, <1>2 DEF IInv, Lifeless, Types, SchedInv, SchedTypeOK, ThreadStates
<1>6. SchedInv'
  <2>1. Runnable' = Runnable
    BY <1>2, <1>5 DEF Runnable
  <2> QED
    BY <1>1, <1>5, <2>1 DEF IInv, Types, SchedInv, SchedTypeOK, RunqExact, NoDuplicates
<1>7. Types'
  BY <1>1, <1>2, <1>3, <1>4, <1>6 DEF IInv, Types
<1>8. Lines'
  BY <1>3 DEF IInv, Lines
<1>9. Requests'
  <2>1. \A x \in Threads : \A l \in Locks :
            (Has(x, l)' <=> Has(x, l)) /\ (Waits(x, l)' <=> Waits(x, l))
    BY <1>3 DEF Has, Waits
  <2> DEFINE S == {t, u}
  <2>2. S \in SUBSET Threads
    OBVIOUS
  <2>3. ptr[u] = None
    BY <1>1 DEF IInv, Pointers, Finding, Forking
  <2>4. \A x \in S : \A l \in Locks : ~Asks(x, l)' /\ ~Asks(x, l)
    BY <1>1, <1>2 DEF Asks, OwnHeld, ListHeld, Finding
  <2>5. \A x \in S : pc[x] \notin {"v_list", "v_del"}
    BY <1>1
  <2>6. \A x \in S : \A l \in Locks : AskedLast(x, l) => Asks(x, l)
    BY DEF Asks, AskedLast, OwnHeld, ListHeld, Finding
  <2>7. \A x \in Threads \ S : pc'[x] = pc[x] /\ ptr'[x] = ptr[x] /\ tstate'[x] = tstate[x]
    BY <1>2, <1>5 DEF Procs
  <2> HIDE DEF S, Has, Waits, Asks, AskedLast
  <2>8. \A x \in S : \A l \in Locks : ~Has(x, l)' /\ ~Waits(x, l)' /\ ~Asks(x, l)'
    <3> SUFFICES ASSUME NEW x \in S, NEW l \in Locks
                 PROVE  ~Has(x, l)' /\ ~Waits(x, l)' /\ ~Asks(x, l)'
      OBVIOUS
    <3>1. x \in Threads
      BY <2>2
    <3>2. ~Has(x, l) /\ ~Waits(x, l)
      BY <2>4, <2>5, <2>6, <3>1 DEF IInv, Requests
    <3> QED BY <2>1, <2>4, <3>1, <3>2
  <2>9. \A x \in Threads \ S : \A l \in Locks :
            (Has(x, l)' \/ Waits(x, l)' <=> Has(x, l) \/ Waits(x, l))
    BY <2>1
  <2>10. \A x \in Threads \ S : \A l \in Locks :
            Waits(x, l)' => Waits(x, l) /\ tstate'[x] = tstate[x]
    BY <2>1, <2>7
  <2> QED BY <2>2, <2>7, <2>8, <2>9, <2>10, RequestsKept DEF IInv
<1>10. Lifeless'
  BY <1>1, <1>2, <1>5 DEF IInv, Lifeless, Procs
<1>11. \A x \in Threads : /\ Asleep(x)' <=> Asleep(x)
                          /\ pc'[x] = "d_block" <=> pc[x] = "d_block"
                          /\ pc'[x] = "m_wake" <=> pc[x] = "m_wake"
                          /\ pc[x] = "m_wake" => ptr'[x] = ptr[x]
  BY <1>1, <1>2, <1>5 DEF Asleep, Procs
<1>12. Marked'
  <2> HIDE DEF Asleep
  <2> QED BY <1>4, <1>11 DEF IInv, Marked
<1>13. Pointers'
  <2>1. \A x \in Threads : ptr'[x] # None <=> pc'[x] \in Finding \cup Forking
    BY <1>1, <1>2 DEF IInv, Pointers, Finding, Forking
  <2>2. \A x \in Threads : pc'[x] \in Forking => x = t \/ (pc[x] \in Forking /\ x # u)
    BY <1>1, <1>2 DEF Forking
  <2>3. \A x \in Threads : ptr[x] # u
    BY <1>1 DEF IInv, Pointers, Leaving
  <2>4. \A x \in Threads : pc'[x] \in Forking =>
            ptr'[x] \in Threads /\ pc'[ptr'[x]] = "nascent"
    <3> SUFFICES ASSUME NEW x \in Threads, pc'[x] \in Forking
                 PROVE  ptr'[x] \in Threads /\ pc'[ptr'[x]] = "nascent"
      OBVIOUS
    <3>1. CASE x = t
      BY <1>2, <3>1
    <3>2. CASE x # t
      <4>1. pc[x] \in Forking /\ ptr'[x] = ptr[x]
        BY <1>2, <2>2, <3>2
      <4>2. ptr[x] \in Threads /\ pc[ptr[x]] = "nascent"
        BY <4>1 DEF IInv, Pointers
      <4> QED BY <1>1, <1>2, <2>3, <4>1, <4>2
    <3> QED BY <3>1, <3>2
  <2>5. \A x, y \in Threads :
            pc'[x] \in Forking /\ pc'[y] \in Forking /\ ptr'[x] = ptr'[y] => x = y
    BY <1>2, <2>2, <2>3 DEF IInv, Pointers
  <2>6. \A x, y \in Threads : pc'[x] \in Leaving => ptr'[y] # x
    <3>1. \A x \in Threads : pc'[x] \in Leaving => pc[x] \in Leaving /\ x # u
      BY <1>2 DEF Leaving
    <3> QED BY <1>2, <3>1 DEF IInv, Pointers
  <2> QED BY <2>1, <2>4, <2>5, <2>6 DEF Pointers
<1>14. Listed'
  <2>1. u \notin ToSet(thrlist)
    BY <1>1 DEF IInv, Listed, Leaving
  <2>2. IsQueue(thrlist)' /\ Idle \in ToSet(thrlist')
    BY <1>1 DEF IInv, Listed, IsQueue, NoDuplicates
  <2>3. \A x \in Threads : pc'[x] # "nascent" =>
            (x \in ToSet(thrlist') <=> pc'[x] \notin Leaving \cup {"v_own"})
    BY <1>1, <1>2 DEF IInv, Listed, Leaving
  <2>4. \A x \in Threads : pc'[x] \in {"f_list", "f_add"} => ptr'[x] \notin ToSet(thrlist')
    BY <1>1, <1>2, <2>1 DEF IInv, Listed
  <2>5. \A x \in Threads : pc'[x] \in {"f_unlist", "f_launch", "m_unlist"} =>
            ptr'[x] \in ToSet(thrlist')
    BY <1>1, <1>2 DEF IInv, Listed
  <2> QED BY <2>2, <2>3, <2>4, <2>5 DEF Listed
<1>15. Ordered'
  BY <1>1, OrderedKept DEF IInv
<1>16. Posted'
  <2> SUFFICES ASSUME NEW y \in Threads, pc'[y] = "d_block" \/ Asleep(y)', word'[y] # 0
               PROVE  \E x \in Threads \ {y} : Waking(x, y)'
    BY DEF Posted
  <2>1. (pc[y] = "d_block" \/ Asleep(y)) /\ word[y] # 0
    BY <1>1, <1>11
  <2>2. PICK x \in Threads \ {y} : Waking(x, y)
    BY <2>1 DEF IInv, Posted
  <2>3. Waking(x, y)'
    BY <1>1, <1>2, <2>2 DEF Waking
  <2> QED BY <2>3
<1> QED
  BY <1>7, <1>8, <1>9, <1>10, <1>12, <1>13, <1>14, <1>15, <1>16 DEF IInv

LEMMA LaunchKeeps ==
    ASSUME IInv, NEW t \in Threads, Launch(t)
    PROVE  IInv'
<1>0. /\ curr = t /\ pc[t] = "f_launch"
      /\ ptr[t] \in Threads /\ pc[ptr[t]] = "nascent" /\ ptr[t] \in ToSet(thrlist)
  BY DEF Launch, At, IInv, Pointers, Listed, Forking
<1> DEFINE u == ptr[t]
<1>1. /\ pc' = [pc EXCEPT ![t] = "out", ![u] = "out"] /\ SchedUnblock(u)
      /\ ptr' = [ptr EXCEPT ![t] = None]
      /\ UNCHANGED <<mutex, desched, word, mapped, arg>> /\ UNCHANGED listVars
      /\ UNCHANGED <<thrlist, rover, lastTid, tid>>
  BY DEF Launch, userVars, listVars
<1>2. /\ t # u /\ u \in Threads /\ u \in Procs /\ u \in ToSet(thrlist)
      /\ pc[u] = "nascent"
  BY <1>0 DEF Procs
<1>2a. \A x \in Threads : x # t /\ pc[x] \in Forking => ptr[x] # u
  BY <1>0 DEF IInv, Pointers, Forking
<1> HIDE DEF u
<1>3. /\ pc' \in [Threads -> PCs] /\ pc'[t] = "out" /\ pc'[u] = "out"
      /\ \A x \in Threads : x \notin {t, u} => pc'[x] = pc[x]
      /\ ptr' \in [Threads -> Procs \cup {None}] /\ ptr'[t] = None
      /\ \A x \in Threads : x # t => ptr'[x] = ptr[x]
  BY <1>1, <1>2 DEF IInv, Types, PCs, Procs
<1>4. tstate[u] = "NASCENT" /\ SchedInv
  BY <1>2 DEF IInv, Lifeless, Types
<1>5. /\ SchedInv' /\ tstate' = [tstate EXCEPT ![u] = "RUNNABLE"]
  BY <1>1, <1>2, <1>4, SchedUnblockKeepsInv DEF SchedUnblock
<1>6. /\ tstate'[u] = "RUNNABLE" /\ \A p \in Procs : p # u => tstate'[p] = tstate[p]
  BY <1>2, <1>4, <1>5 DEF SchedInv, SchedTypeOK
<1>7. Types' /\ Lines'
  BY <1>1, <1>3, <1>5 DEF IInv, Types, Lines
<1>8. Requests'
  <2>1. \A x \in Threads : \A l \in Locks :
            (Has(x, l)' <=> Has(x, l)) /\ (Waits(x, l)' <=> Waits(x, l))
    BY <1>1 DEF Has, Waits
  <2> DEFINE S == {t, u}
  <2>2. S \in SUBSET Threads
    BY <1>2
  <2>4. \A x \in S : \A l \in Locks : ~Asks(x, l)' /\ ~Asks(x, l)
    BY <1>0, <1>2, <1>3 DEF Asks, OwnHeld, ListHeld, Finding
  <2>5. \A x \in S : pc[x] \notin {"v_list", "v_del"}
    BY <1>0, <1>2
  <2>6. \A x \in S : \A l \in Locks : AskedLast(x, l) => Asks(x, l)
    BY DEF Asks, AskedLast, OwnHeld, ListHeld, Finding
  <2>7. \A x \in Threads \ S : pc'[x] = pc[x] /\ ptr'[x] = ptr[x] /\ tstate'[x] = tstate[x]
    BY <1>3, <1>6 DEF Procs
  <2> HIDE DEF S, Has, Waits, Asks, AskedLast
  <2>8. \A x \in S : \A l \in Locks : ~Has(x, l)' /\ ~Waits(x, l)' /\ ~Asks(x, l)'
    <3> SUFFICES ASSUME NEW x \in S, NEW l \in Locks
                 PROVE  ~Has(x, l)' /\ ~Waits(x, l)' /\ ~Asks(x, l)'
      OBVIOUS
    <3>1. x \in Threads
      BY <2>2
    <3>2. ~Has(x, l) /\ ~Waits(x, l)
      BY <2>4, <2>5, <2>6, <3>1 DEF IInv, Requests
    <3> QED BY <2>1, <2>4, <3>1, <3>2
  <2>9. \A x \in Threads \ S : \A l \in Locks :
            (Has(x, l)' \/ Waits(x, l)' <=> Has(x, l) \/ Waits(x, l))
    BY <2>1
  <2>10. \A x \in Threads \ S : \A l \in Locks :
            Waits(x, l)' => Waits(x, l) /\ tstate'[x] = tstate[x]
    BY <2>1, <2>7
  <2> QED BY <2>2, <2>7, <2>8, <2>9, <2>10, RequestsKept DEF IInv
<1>9. Lifeless'
  BY <1>0, <1>2, <1>3, <1>6 DEF IInv, Lifeless, Procs
<1>10. \A x \in Threads : /\ Asleep(x)' <=> Asleep(x)
                          /\ pc'[x] = "d_block" <=> pc[x] = "d_block"
                          /\ pc'[x] = "m_wake" <=> pc[x] = "m_wake"
                          /\ pc[x] = "m_wake" => ptr'[x] = ptr[x]
  BY <1>0, <1>2, <1>3, <1>6 DEF Asleep, Procs
<1>11. Marked'
  <2>1. desched' = desched
    BY <1>1
  <2> HIDE DEF Asleep
  <2> QED BY <1>10, <2>1 DEF IInv, Marked
<1>12. Pointers'
  <2>1. \A x \in Threads : ptr'[x] # None <=> pc'[x] \in Finding \cup Forking
    <3>1. ptr[u] = None
      BY <1>2 DEF IInv, Pointers, Finding, Forking
    <3> QED BY <1>2, <1>3, <3>1 DEF IInv, Pointers, Finding, Forking
  <2>2. \A x \in Threads : pc'[x] \in Forking =>
            pc[x] \in Forking /\ x # t /\ x # u /\ ptr'[x] = ptr[x]
    BY <1>3 DEF Forking
  <2>4. \A x \in Threads : pc'[x] \in Forking =>
            ptr'[x] \in Threads /\ pc'[ptr'[x]] = "nascent"
    <3> SUFFICES ASSUME NEW x \in Threads, pc'[x] \in Forking
                 PROVE  ptr'[x] \in Threads /\ pc'[ptr'[x]] = "nascent"
      OBVIOUS
    <3>1. pc[x] \in Forking /\ ptr'[x] = ptr[x] /\ ptr[x] # u
      BY <1>2a, <2>2
    <3>2. ptr[x] \in Threads /\ pc[ptr[x]] = "nascent"
      BY <3>1 DEF IInv, Pointers
    <3> QED BY <1>0, <1>3, <3>1, <3>2
  <2>5. \A x, y \in Threads :
            pc'[x] \in Forking /\ pc'[y] \in Forking /\ ptr'[x] = ptr'[y] => x = y
    BY <2>2 DEF IInv, Pointers
  <2>6. \A x, y \in Threads : pc'[x] \in Leaving => ptr'[y] # x
    <3>1. \A x \in Threads : pc'[x] \in Leaving => pc[x] \in Leaving
      BY <1>3 DEF Leaving
    <3> QED BY <1>3, <3>1, SchedAssumption DEF IInv, Pointers
  <2> QED BY <2>1, <2>4, <2>5, <2>6 DEF Pointers
<1>13. Listed'
  <2>2. IsQueue(thrlist)' /\ Idle \in ToSet(thrlist')
    BY <1>1 DEF IInv, Listed, IsQueue, NoDuplicates
  <2>3. \A x \in Threads : pc'[x] # "nascent" =>
            (x \in ToSet(thrlist') <=> pc'[x] \notin Leaving \cup {"v_own"})
    BY <1>0, <1>1, <1>2, <1>3 DEF IInv, Listed, Leaving
  <2>4. \A x \in Threads : pc'[x] \in {"f_list", "f_add"} => ptr'[x] \notin ToSet(thrlist')
    BY <1>1, <1>3 DEF IInv, Listed
  <2>5. \A x \in Threads : pc'[x] \in {"f_unlist", "f_launch", "m_unlist"} =>
            ptr'[x] \in ToSet(thrlist')
    BY <1>1, <1>3 DEF IInv, Listed
  <2> QED BY <2>2, <2>3, <2>4, <2>5 DEF Listed
<1>14. Ordered'
  BY <1>1, OrderedKept DEF IInv
<1>15. Posted'
  <2> SUFFICES ASSUME NEW y \in Threads, pc'[y] = "d_block" \/ Asleep(y)', word'[y] # 0
               PROVE  \E x \in Threads \ {y} : Waking(x, y)'
    BY DEF Posted
  <2>1. (pc[y] = "d_block" \/ Asleep(y)) /\ word[y] # 0
    BY <1>1, <1>10
  <2>2. PICK x \in Threads \ {y} : Waking(x, y)
    BY <2>1 DEF IInv, Posted
  <2>3. Waking(x, y)'
    BY <1>0, <1>1, <1>2, <1>3, <2>2 DEF Waking
  <2> QED BY <2>3
<1> QED
  BY <1>7, <1>8, <1>9, <1>11, <1>12, <1>13, <1>14, <1>15 DEF IInv

-----------------------------------------------------------------------------
(* thrlist_add: the gap it finds is between the TIDs of its neighbours. *)

LEMMA InsertThreadKeeps ==
    ASSUME IInv, NEW t \in Threads, At(t, "f_add"),
           NEW i \in 1 .. Len(thrlist) + 1, NEW n \in 1 .. MaxTid,
           \A j \in DOMAIN thrlist : j < i => tid[thrlist[j]] < n,
           \A j \in DOMAIN thrlist : j >= i => tid[thrlist[j]] > n,
           InsertThread(t, i, n)
    PROVE  IInv'
<1>0. PICK e \in Threads : e = ptr[t] /\ pc[e] = "nascent" /\ e \notin ToSet(thrlist)
  BY DEF At, IInv, Pointers, Listed, Forking
<1>1. /\ curr = t /\ pc[t] = "f_add" /\ Goto(t, "f_unlist")
      /\ thrlist' = InsertAt(thrlist, i, e) /\ tid' = [tid EXCEPT ![e] = n]
      /\ lastTid' = n /\ rover' = e
      /\ UNCHANGED <<schedVars, mutex, desched, word, mapped, arg, ptr>>
  BY <1>0 DEF At, InsertThread, userVars, locals
<1>2. /\ Moves(t, "f_unlist") /\ pc'[t] = "f_unlist" /\ OthersStay(t)
  BY <1>1, GotoMoves DEF IInv, PCs, Moves, OthersStay
<1>3. SchedInv' /\ tstate' = tstate /\ Calm(t)
  BY <1>1, SchedSame
<1>4. /\ IsQueue(thrlist)' /\ ToSet(thrlist') = ToSet(thrlist) \cup {e}
      /\ Ordered'
  BY <1>0, <1>1, InsertOrdered
<1>5. Lines' /\ Requests'
  <2>1. \A l \in Locks : /\ Asks(t, l)' => Asks(t, l)
                         /\ Has(t, l) => Asks(t, l)'
    BY <1>1, <1>2 DEF Asks, AskedLast, OwnHeld, ListHeld, Finding, IInv, Requests
  <2> HIDE DEF Has, Asks
  <2> QED BY <1>1, <1>2, <1>3, <2>1, NoLock DEF IInv
<1>6. /\ e \in Procs /\ e # t /\ tid'[e] = n
      /\ \A p \in Procs : p # e => tid'[p] = tid[p]
  BY <1>0, <1>1 DEF IInv, Types, Procs
<1>7. Types'
  <2>1. n \in 0 .. MaxTid
    BY ThreadMgmtAssumption
  <2>2. tid' \in [Procs -> 0 .. MaxTid]
    BY <1>1, <2>1 DEF IInv, Types
  <2> QED BY <1>1, <1>2, <1>3, <2>2 DEF IInv, Types, Moves
<1>8. Lifeless'
  BY <1>2, <1>3, LifelessKept DEF IInv
<1>9. Marked'
  BY <1>1, <1>2, <1>3, MarkedKept DEF IInv
<1>10. Pointers'
  BY <1>1, <1>2, PointersKept DEF IInv, Pointers, Finding, Forking, Leaving
<1>11. Listed'
  <2>1. \A x \in Threads : x # t => pc'[x] = pc[x] /\ ptr'[x] = ptr[x]
    BY <1>2 DEF Moves, OthersStay
  <2>2. ptr'[t] = e
    BY <1>0, <1>1
  <2>3. \A x \in Threads : pc'[x] # "nascent" =>
            (x \in ToSet(thrlist') <=> pc'[x] \notin Leaving \cup {"v_own"})
    BY <1>0, <1>1, <1>2, <1>4, <1>6, <2>1 DEF IInv, Listed, Leaving
  <2>4. \A x \in Threads : pc'[x] \in {"f_list", "f_add"} => ptr'[x] \notin ToSet(thrlist')
    <3> SUFFICES ASSUME NEW x \in Threads, pc'[x] \in {"f_list", "f_add"}
                 PROVE  ptr'[x] \notin ToSet(thrlist')
      OBVIOUS
    <3>1. x # t /\ pc[x] \in {"f_list", "f_add"} /\ ptr'[x] = ptr[x]
      BY <1>2, <2>1
    <3>2. ptr[x] # e
      BY <1>0, <1>1, <3>1 DEF IInv, Pointers, Forking
    <3>3. ptr[x] \notin ToSet(thrlist)
      BY <3>1 DEF IInv, Listed
    <3> QED BY <1>4, <3>1, <3>2, <3>3
  <2>5. \A x \in Threads : pc'[x] \in {"f_unlist", "f_launch", "m_unlist"} =>
            ptr'[x] \in ToSet(thrlist')
    BY <1>4, <2>1, <2>2 DEF IInv, Listed
  <2>6. Idle \in ToSet(thrlist')
    BY <1>4 DEF IInv, Listed
  <2> QED BY <1>4, <2>3, <2>4, <2>5, <2>6 DEF Listed
<1>12. Posted'
  <2>0. \A y \in Threads : Asleep(y)' <=> Asleep(y)
    BY <1>1, <1>2, <1>3 DEF Asleep, Moves
  <2> SUFFICES ASSUME NEW y \in Threads, pc'[y] = "d_block" \/ Asleep(y)', word'[y] # 0
               PROVE  \E x \in Threads \ {y} : Waking(x, y)'
    BY DEF Posted
  <2>1. (pc[y] = "d_block" \/ Asleep(y)) /\ word[y] # 0
    BY <1>1, <1>2, <2>0 DEF Moves
  <2>2. PICK x \in Threads \ {y} : Waking(x, y)
    BY <2>1 DEF IInv, Posted
  <2>3. y # e /\ tid'[y] = tid[y]
    BY <1>0, <1>6, <2>1 DEF Asleep, Procs
  <2>4. x # t
    BY <1>1, <2>2 DEF Waking
  <2>5. Waking(x, y)'
    BY <1>1, <1>2, <2>2, <2>3, <2>4 DEF Waking, Moves
  <2> QED BY <2>5
<1> QED
  BY <1>4, <1>5, <1>7, <1>8, <1>9, <1>10, <1>11, <1>12 DEF IInv

LEMMA AddPastRoverKeeps ==
    ASSUME IInv, NEW t \in Threads, AddPastRover(t)
    PROVE  IInv'
<1> DEFINE L == Len(thrlist)
           R == RoverAt
           s == PastRover
<1>1. /\ thrlist \in Seq(Procs) /\ L \in Nat /\ DOMAIN thrlist = 1 .. L
      /\ R \in 1 .. L /\ thrlist[R] = rover
  BY RoverLemma
<1>2. /\ s \in Seq(Procs) /\ Len(s) = L - R
      /\ \A j \in 1 .. L - R : s[j] = thrlist[R + j]
  <2>1. R + 1 \in 1 .. L + 1 /\ L \in 0 .. L
    BY <1>1
  <2>2. s = SubSeq(thrlist, R + 1, L)
    BY DEF PastRover
  <2>3. \A j \in R + 1 .. L : thrlist[j] \in Procs
    BY <1>1
  <2> HIDE DEF s, R, L
  <2>4. /\ s \in Seq(Procs)
        /\ Len(s) = IF R + 1 <= L THEN L - (R + 1) + 1 ELSE 0
        /\ \A j \in 1 .. L - (R + 1) + 1 : s[j] = thrlist[(R + 1) + j - 1]
    BY <1>1, <2>1, <2>2, <2>3, SubSeqProperties
  <2>5. Len(s) = L - R /\ L - (R + 1) + 1 = L - R
    BY <1>1, <2>4
  <2>6. \A j \in 1 .. L - R : (R + 1) + j - 1 = R + j
    BY <1>1
  <2> QED BY <2>4, <2>5, <2>6
<1>3. /\ lastTid \in 1 .. MaxTid /\ lastTid \in Nat /\ MaxTid \in Nat
      /\ tid \in [Procs -> 0 .. MaxTid]
      /\ tid[rover] <= lastTid
  BY ThreadMgmtAssumption DEF IInv, Types, Ordered
<1> HIDE DEF s
<1>4. PICK k \in 0 .. L - R :
          /\ Passed(s, lastTid) = k
          /\ k < L - R => tid[s[k+1]] > Before(s, lastTid, k+1) + 1
  BY <1>2, <1>3, PassedLemma
<1> DEFINE b == Before(s, lastTid, k+1)
           i == R + k + 1
<1>5. LastSeen(s, lastTid) = b
  BY <1>4 DEF LastSeen
<1>6. b # MaxTid /\ InsertThread(t, i, b + 1) /\ At(t, "f_add")
  BY <1>4, <1>5 DEF AddPastRover, s
<1> HIDE DEF L, R
<1>7. /\ k = 0 => b = lastTid
      /\ k # 0 => R + k \in 1 .. L /\ b = tid[thrlist[R + k]]
  <2>1. CASE k = 0
    BY <2>1 DEF Before
  <2>2. CASE k # 0
    <3>1. k + 1 # 1 /\ (k + 1) - 1 = k /\ k \in 1 .. L - R /\ R + k \in 1 .. L
      BY <1>1, <1>4, <2>2
    <3>2. b = tid[s[k]]
      BY <3>1 DEF Before
    <3> QED BY <1>2, <2>2, <3>1, <3>2
  <2> QED BY <2>1, <2>2
<1> HIDE DEF b
<1>8. \A j \in 1 .. L : tid[thrlist[j]] \in 0 .. MaxTid
  BY <1>1, Ascends
<1>9. b \in 0 .. MaxTid /\ b + 1 \in 1 .. MaxTid
  <2>1. b \in 0 .. MaxTid
    BY <1>1, <1>3, <1>4, <1>7, <1>8
  <2> QED BY <1>3, <1>6, <2>1
<1>10. i \in 1 .. L + 1
  BY <1>1, <1>4
<1>11. \A j \in 1 .. L : j < i => tid[thrlist[j]] < b + 1
  <2> SUFFICES ASSUME NEW j \in 1 .. L, j < i PROVE tid[thrlist[j]] < b + 1
    OBVIOUS
  <2>1. PICK m \in 1 .. L : m = R + k /\ j <= m /\ tid[thrlist[m]] <= b
    <3>1. R + k \in 1 .. L /\ j <= R + k
      BY <1>1, <1>4
    <3>2. tid[thrlist[R + k]] <= b
      <4>1. CASE k = 0
        <5>1. R + k = R
          BY <1>1, <4>1
        <5> QED BY <1>1, <1>3, <1>7, <4>1, <5>1
      <4>2. CASE k # 0
        BY <1>7, <1>9, <4>2
      <4> QED BY <4>1, <4>2
    <3> QED BY <3>1, <3>2
  <2>2. tid[thrlist[j]] <= tid[thrlist[m]]
    <3>1. j = m \/ j < m
      BY <2>1
    <3> QED BY <1>1, <1>8, <2>1, <3>1, Ascends
  <2> QED BY <1>8, <1>9, <2>1, <2>2
<1>12. \A j \in 1 .. L : j >= i => tid[thrlist[j]] > b + 1
  <2> SUFFICES ASSUME NEW j \in 1 .. L, j >= i PROVE tid[thrlist[j]] > b + 1
    OBVIOUS
  <2>1. /\ k < L - R /\ k + 1 \in 1 .. L - R /\ R + (k + 1) = i /\ i \in 1 .. L
    BY <1>1, <1>4
  <2>2. tid[thrlist[i]] > b + 1
    <3>1. s[k+1] = thrlist[i]
      BY <1>2, <2>1
    <3> QED BY <1>4, <2>1, <3>1 DEF b
  <2>3. tid[thrlist[i]] <= tid[thrlist[j]]
    <3>1. i = j \/ i < j
      BY <1>1, <1>4
    <3> HIDE DEF i
    <3> QED BY <1>1, <1>8, <2>1, <3>1, Ascends
  <2>4. tid[thrlist[i]] \in 0 .. MaxTid /\ tid[thrlist[j]] \in 0 .. MaxTid
    BY <1>8, <2>1
  <2> HIDE DEF i
  <2> QED BY <1>3, <1>9, <2>2, <2>3, <2>4
<1> HIDE DEF i
<1> QED
  BY <1>1, <1>6, <1>9, <1>10, <1>11, <1>12, InsertThreadKeeps DEF L

LEMMA AddFromStartKeeps ==
    ASSUME IInv, NEW t \in Threads, AddFromStart(t)
    PROVE  IInv'
<1> DEFINE L == Len(thrlist)
<1>1. /\ thrlist \in Seq(Procs) /\ L \in Nat /\ DOMAIN thrlist = 1 .. L
      /\ RoverAt \in 1 .. L /\ rover # List
  BY RoverLemma
<1>2. 0 \in Nat /\ MaxTid \in Nat /\ tid \in [Procs -> 0 .. MaxTid]
  BY ThreadMgmtAssumption DEF IInv, Types
<1>3. PICK k \in 0 .. L :
          /\ Passed(thrlist, 0) = k
          /\ k < L => tid[thrlist[k+1]] > Before(thrlist, 0, k+1) + 1
  BY <1>1, <1>2, PassedLemma
<1> DEFINE b == Before(thrlist, 0, k+1)
<1>4. InsertThread(t, k + 1, b + 1) /\ At(t, "f_add") /\ ~(RoverAt <= k + 1)
  BY <1>1, <1>3 DEF AddFromStart, LastSeen, GivesUp
<1> HIDE DEF L
<1>5. k + 1 \in 1 .. L /\ k < L /\ k + 1 \in 1 .. L + 1
  BY <1>1, <1>3, <1>4
<1>6. /\ k = 0 => b = 0
      /\ k # 0 => k \in 1 .. L /\ b = tid[thrlist[k]]
  <2>1. CASE k = 0
    BY <2>1 DEF Before
  <2>2. CASE k # 0
    <3>1. k + 1 # 1 /\ (k + 1) - 1 = k /\ k \in 1 .. L
      BY <1>1, <1>3, <2>2
    <3> QED BY <2>2, <3>1 DEF Before
  <2> QED BY <2>1, <2>2
<1>7. tid[thrlist[k+1]] > b + 1
  BY <1>3, <1>5
<1> HIDE DEF b
<1>8. \A j \in 1 .. L : tid[thrlist[j]] \in 0 .. MaxTid
  BY <1>1, Ascends
<1>9. b \in 0 .. MaxTid
  BY <1>2, <1>6, <1>8
<1>10. b + 1 \in 1 .. MaxTid
  <2>1. tid[thrlist[k+1]] \in 0 .. MaxTid
    BY <1>5, <1>8
  <2> QED BY <1>2, <1>7, <1>9, <2>1
<1>11. \A j \in 1 .. L : j < k + 1 => tid[thrlist[j]] < b + 1
  <2> SUFFICES ASSUME NEW j \in 1 .. L, j < k + 1 PROVE tid[thrlist[j]] < b + 1
    OBVIOUS
  <2>1. k \in 1 .. L /\ b = tid[thrlist[k]] /\ (j = k \/ j < k)
    BY <1>1, <1>3, <1>6
  <2>2. tid[thrlist[j]] <= tid[thrlist[k]]
    BY <1>1, <1>8, <2>1, Ascends
  <2> QED BY <1>8, <1>9, <2>1, <2>2
<1>12. \A j \in 1 .. L : j >= k + 1 => tid[thrlist[j]] > b + 1
  <2> SUFFICES ASSUME NEW j \in 1 .. L, j >= k + 1 PROVE tid[thrlist[j]] > b + 1
    OBVIOUS
  <2>1. PICK m \in 1 .. L : m = k + 1
    BY <1>5
  <2>2. m = j \/ m < j
    BY <1>3, <2>1
  <2>3. tid[thrlist[m]] <= tid[thrlist[j]]
    BY <1>1, <1>8, <2>1, <2>2, Ascends
  <2>4. tid[thrlist[m]] > b + 1
    BY <1>7, <2>1
  <2>5. tid[thrlist[m]] \in 0 .. MaxTid /\ tid[thrlist[j]] \in 0 .. MaxTid
    BY <1>8, <2>1
  <2> QED BY <1>2, <1>9, <2>3, <2>4, <2>5
<1> QED
  BY <1>1, <1>4, <1>5, <1>10, <1>11, <1>12, InsertThreadKeeps DEF L

-----------------------------------------------------------------------------
(* thrlist_del *)

(* Who has the list's lock is alone with the list. *)
LEMMA AloneWithList ==
    ASSUME IInv, NEW t \in Threads, curr = t, pc[t] \in ListHeld,
           NEW u \in Threads, pc[u] = "m_unlist"
    PROVE  u = t
<1>1. List \in Locks /\ u # List /\ ptr[u] # List
  BY Bounds DEF IInv
<1>2. Asks(t, List) /\ Asks(u, List) /\ ~AskedLast(u, List)
  BY <1>1 DEF Asks, AskedLast, ListHeld
<1>3. Has(t, List)
  BY <1>1, <1>2, Runner DEF IInv
<1>4. Has(u, List)
  BY <1>1, <1>2 DEF IInv, Requests
<1> QED BY <1>3, <1>4 DEF Has

(* The idle thread is the first of the list, so the rover can step back.   *)
LEMMA DelOrdered ==
    ASSUME IInv, NEW t \in Threads, t \in ToSet(thrlist),
           rover' = IF rover # t THEN rover
                    ELSE IF RoverAt = 1 THEN List ELSE thrlist[RoverAt - 1],
           thrlist' = RemoveFirst(thrlist, t), UNCHANGED <<lastTid, tid>>
    PROVE  /\ IsQueue(thrlist)' /\ ToSet(thrlist') = ToSet(thrlist) \ {t}
           /\ Ordered' /\ rover' \in Procs
<1> DEFINE L == Len(thrlist)
           r == RqDel(thrlist, t)
<1>1. /\ IsQueue(thrlist) /\ L \in Nat /\ DOMAIN thrlist = 1 .. L
      /\ RoverAt \in 1 .. L /\ thrlist[RoverAt] = rover
  BY RoverLemma DEF IInv, Listed
<1>2. IsQueue(r) /\ ToSet(r) = ToSet(thrlist) \ {t}
  BY <1>1, RqDelLemma
<1>3. PICK k \in 1 .. L :
          /\ Len(r) = L - 1 /\ DOMAIN r = 1 .. L - 1
          /\ \A i \in 1 .. L - 1 : r[i] = thrlist[IF i < k THEN i ELSE i + 1]
  BY <1>1, RqDelShifts
<1>4. thrlist' = r
  BY DEF RqDel
<1> HIDE DEF L, r
<1>5. \A i, j \in DOMAIN r : i < j => tid[r[i]] < tid[r[j]]
  <2> SUFFICES ASSUME NEW i \in 1 .. L - 1, NEW j \in 1 .. L - 1, i < j
               PROVE  tid[r[i]] < tid[r[j]]
    BY <1>3
  <2>1. PICK x \in 1 .. L : x = (IF i < k THEN i ELSE i + 1) /\ r[i] = thrlist[x]
    BY <1>1, <1>3
  <2>2. PICK y \in 1 .. L : y = (IF j < k THEN j ELSE j + 1) /\ r[j] = thrlist[y]
    BY <1>1, <1>3
  <2>3. x < y
    BY <2>1, <2>2
  <2> QED BY <1>1, <2>1, <2>2, <2>3, Ascends
<1>6. Idle \in ToSet(r) /\ tid[Idle] = 1
  BY <1>2, SchedAssumption DEF IInv, Listed, Ordered
<1>7. \A p \in ToSet(r) : tid[p] >= 1
  BY <1>2 DEF IInv, Ordered
<1>8. /\ rover' \in ToSet(r) /\ tid[rover'] <= lastTid
      /\ \A p \in ToSet(r) : tid[p] > tid[rover'] => tid[p] > lastTid
  <2>1. CASE rover # t
    BY <1>2, <2>1 DEF IInv, Ordered
  <2>2. CASE rover = t
    <3>1. RoverAt # 1
      <4> SUFFICES ASSUME RoverAt = 1 PROVE FALSE
        OBVIOUS
      <4>1. PICK m \in 1 .. L : thrlist[m] = Idle
        BY <1>1 DEF IInv, Listed, ToSet
      <4>2. m # 1 /\ 1 \in 1 .. L
        BY <1>1, <2>2, <4>1, SchedAssumption
      <4>3. 1 < m
        BY <4>2
      <4>4. tid[thrlist[1]] < tid[thrlist[m]] /\ tid[thrlist[1]] \in 0 .. MaxTid
        BY <1>1, <4>2, <4>3, Ascends
      <4>5. thrlist[1] \in ToSet(thrlist)
        BY <1>1, <4>2 DEF ToSet
      <4> QED BY <1>6, <4>1, <4>4, <4>5 DEF IInv, Ordered
    <3>2. PICK m \in 1 .. L : m = RoverAt - 1 /\ rover' = thrlist[m]
      BY <1>1, <2>2, <3>1
    <3>3. /\ m < RoverAt
          /\ tid[thrlist[m]] < tid[t] /\ tid[thrlist[m]] \in 0 .. MaxTid
          /\ tid[t] \in 0 .. MaxTid
      BY <1>1, <2>2, <3>2, Ascends
    <3>4. rover' \in ToSet(r)
      <4>1. thrlist[m] \in ToSet(thrlist)
        BY <1>1 DEF ToSet
      <4>2. thrlist[m] # t
        BY <3>3
      <4> QED BY <1>2, <3>2, <4>1, <4>2
    <3>5. tid[rover'] <= lastTid
      BY <2>2, <3>2, <3>3 DEF IInv, Ordered, Types
    <3>6. ASSUME NEW p \in ToSet(r), tid[p] > tid[rover'] PROVE tid[p] > lastTid
      <4>1. PICK j \in 1 .. L : thrlist[j] = p
        BY <1>1, <1>2 DEF ToSet
      <4>2. p # t
        BY <1>2
      <4>3. ~(j < m) /\ j # m
        <5>1. /\ j < m => tid[thrlist[j]] < tid[thrlist[m]]
              /\ tid[thrlist[j]] \in 0 .. MaxTid
          BY <1>1, Ascends
        <5> QED BY <3>2, <3>3, <3>6, <4>1, <5>1
      <4>4. RoverAt < j
        BY <1>1, <2>2, <3>2, <4>1, <4>2, <4>3
      <4>5. tid[rover] < tid[p] /\ tid[p] \in 0 .. MaxTid /\ tid[rover] \in 0 .. MaxTid
        BY <1>1, <4>1, <4>4, Ascends
      <4>6. p \in ToSet(thrlist)
        BY <1>2
      <4> QED BY <4>5, <4>6 DEF IInv, Ordered
    <3> QED BY <3>4, <3>5, <3>6
  <2> QED BY <2>1, <2>2
<1>9. Ordered'
  BY <1>4, <1>5, <1>6, <1>7, <1>8 DEF Ordered
<1>10. IsQueue(thrlist)'
  BY <1>2, <1>4 DEF IsQueue, NoDuplicates
<1>11. rover' \in Procs
  BY <1>2, <1>8 DEF IsQueue, ToSet
<1> QED BY <1>2, <1>4, <1>9, <1>10, <1>11

LEMMA ThrlistDelKeeps ==
    ASSUME IInv, NEW t \in Threads, ThrlistDel(t)
    PROVE  IInv'
<1>1. /\ curr = t /\ pc[t] = "v_del" /\ Lock(t, t) /\ Goto(t, "v_own")
      /\ UNCHANGED <<lastTid, tid, desched, word, mapped, arg, ptr>>
  BY DEF ThrlistDel, At, userVars, locals
<1>2. /\ Moves(t, "v_own") /\ pc'[t] = "v_own" /\ OthersStay(t)
  BY <1>1, GotoMoves DEF IInv, PCs, Moves, OthersStay
<1>3. t \in Locks /\ List \in Locks /\ t # List /\ ptr[t] # List
  BY Bounds DEF IInv
<1>4. SchedInv' /\ LockState' /\ Lines' /\ Requests' /\ Calm(t)
  <2>1. AskedLast(t, t)'
    BY <1>2 DEF AskedLast
  <2>2. \A l \in Locks : l # t =>
            /\ Asks(t, l)' => Asks(t, l)
            /\ Has(t, l) => Asks(t, l)'
    BY <1>1, <1>2 DEF Asks, AskedLast, OwnHeld, ListHeld, Finding, IInv, Requests
  <2> HIDE DEF Has, Asks, AskedLast
  <2> QED BY <1>1, <1>2, <1>3, <2>1, <2>2, TakeLock DEF IInv
<1>5. t \in ToSet(thrlist)
  BY <1>1 DEF IInv, Listed, Leaving
<1>6. /\ IsQueue(thrlist)' /\ ToSet(thrlist') = ToSet(thrlist) \ {t}
      /\ Ordered'
  BY <1>1, <1>5, DelOrdered DEF ThrlistDel
<1>7. Types'
  BY <1>1, <1>2, <1>4 DEF IInv, Types, LockState, Moves
<1>8. Lifeless'
  BY <1>2, <1>4, LifelessKept DEF IInv
<1>9. Marked'
  BY <1>1, <1>2, <1>4, MarkedKept DEF IInv
<1>10. Pointers'
  BY <1>1, <1>2, PointersKept DEF IInv, Pointers, Finding, Forking, Leaving
<1>11. Listed'
  <2>1. \A x \in Threads : x # t => pc'[x] = pc[x] /\ ptr'[x] = ptr[x]
    BY <1>2 DEF Moves, OthersStay
  <2>2. \A x \in Threads : pc'[x] # "nascent" =>
            (x \in ToSet(thrlist') <=> pc'[x] \notin Leaving \cup {"v_own"})
    BY <1>2, <1>6, <2>1 DEF IInv, Listed
  <2>3. \A x \in Threads : pc'[x] \in {"f_list", "f_add"} => ptr'[x] \notin ToSet(thrlist')
    BY <1>2, <1>6, <2>1 DEF IInv, Listed
  <2>4. \A x \in Threads : pc'[x] \in {"f_unlist", "f_launch", "m_unlist"} =>
            ptr'[x] \in ToSet(thrlist')
    <3> SUFFICES ASSUME NEW x \in Threads, pc'[x] \in {"f_unlist", "f_launch", "m_unlist"}
                 PROVE  ptr'[x] \in ToSet(thrlist')
      OBVIOUS
    <3>1. x # t /\ pc[x] \in {"f_unlist", "f_launch", "m_unlist"} /\ ptr'[x] = ptr[x]
      BY <1>2, <2>1
    <3>2. pc[x] # "m_unlist"
      BY <1>1, <3>1, AloneWithList DEF ListHeld
    <3>3. pc[ptr[x]] = "nascent"
      BY <3>1, <3>2 DEF IInv, Pointers, Forking
    <3>4. ptr[x] # t /\ ptr[x] \in ToSet(thrlist)
      BY <1>1, <3>1, <3>3 DEF IInv, Listed
    <3> QED BY <1>6, <3>1, <3>4
  <2>5. Idle \in ToSet(thrlist')
    BY <1>6, SchedAssumption DEF IInv, Listed
  <2> QED BY <1>6, <2>2, <2>3, <2>4, <2>5 DEF Listed
<1>12. Posted'
  BY <1>1, <1>2, <1>4, PostedKept DEF IInv, Waking
<1> QED
  BY <1>4, <1>6, <1>7, <1>8, <1>9, <1>10, <1>11, <1>12 DEF IInv

-----------------------------------------------------------------------------
(* The invariant *)

LEMMA InitInv == Init => IInv
<1> SUFFICES ASSUME Init PROVE IInv
  OBVIOUS
<1>1. PICK t0 \in Threads :
          /\ thrlist = <<Idle, t0>> /\ rover = t0 /\ lastTid = 2
          /\ tid = [p \in Procs |-> IF p = Idle THEN 1 ELSE IF p = t0 THEN 2 ELSE 0]
          /\ runq = <<t0, Idle>> /\ curr = t0
          /\ tstate = [p \in Procs |->
                          IF p \in {Idle, t0} THEN "RUNNABLE" ELSE "BLOCKED"]
          /\ mutex = [m \in Locks |-> Free]
          /\ desched = [p \in Procs |-> FALSE]
          /\ word = [t \in Threads |-> 0]
          /\ mapped = [t \in Threads |-> TRUE]
          /\ pc = [t \in Threads |-> IF t = t0 THEN "out" ELSE "absent"]
          /\ arg = [t \in Threads |-> 0]
          /\ ptr = [t \in Threads |-> None]
  BY DEF Init
<1>2. t0 \in Procs /\ Idle \in Procs /\ t0 # Idle /\ Idle \notin Threads
  BY SchedAssumption DEF Procs
<1>3. ToSet(thrlist) = {Idle, t0} /\ ToSet(runq) = {Idle, t0}
  <2>1. \A a, b : ToSet(<<a, b>>) = {a, b}
    <3> SUFFICES ASSUME NEW a, NEW b PROVE ToSet(<<a, b>>) = {a, b}
      OBVIOUS
    <3>1. DOMAIN <<a, b>> = {1, 2} /\ <<a, b>>[1] = a /\ <<a, b>>[2] = b
      OBVIOUS
    <3> QED BY <3>1 DEF ToSet
  <2> QED BY <1>1, <2>1
<1>4. /\ thrlist \in Seq(Procs) /\ runq \in Seq(Procs)
      /\ DOMAIN thrlist = {1, 2} /\ thrlist[1] = Idle /\ thrlist[2] = t0
      /\ DOMAIN runq = {1, 2} /\ runq[1] = t0 /\ runq[2] = Idle
  BY <1>1, <1>2
<1>5. NoDuplicates(runq) /\ IsQueue(thrlist)
  BY <1>2, <1>4 DEF NoDuplicates, IsQueue
<1>6. SchedInv
  <2>1. Runnable = {Idle, t0}
    BY <1>1, <1>2 DEF Runnable
  <2>2. tstate \in [Procs -> ThreadStates]
    BY <1>1 DEF ThreadStates
  <2> QED BY <1>1, <1>2, <1>3, <1>4, <1>5, <2>1, <2>2 DEF SchedInv, SchedTypeOK, RunqExact
<1>7. Types
  <2>1. 0 \in 0 .. MaxTid /\ 1 \in 0 .. MaxTid /\ 2 \in 0 .. MaxTid /\ 2 \in 1 .. MaxTid
    BY ThreadMgmtAssumption
  <2>2. tid \in [Procs -> 0 .. MaxTid] /\ arg \in [Threads -> 0 .. MaxTid]
    BY <1>1, <2>1
  <2>3. mutex \in [Locks -> [owner : Threads \cup {None}, queue : Seq(Threads)]]
    BY <1>1, FreeFacts
  <2>4. pc \in [Threads -> PCs] /\ ptr \in [Threads -> Procs \cup {None}]
    BY <1>1 DEF PCs
  <2>5. desched \in [Procs -> BOOLEAN] /\ mapped \in [Threads -> BOOLEAN]
    BY <1>1
  <2>6. word \in [Threads -> 0 .. 1]
    BY <1>1
  <2> QED BY <1>1, <1>6, <2>1, <2>2, <2>3, <2>4, <2>5, <2>6 DEF Types
<1>8. Lines
  BY <1>1, FreeFacts DEF Lines
<1>9. Requests
  <2> SUFFICES ASSUME NEW x \in Threads, NEW m \in Locks
               PROVE  ~Waits(x, m) /\ ~Asks(x, m) /\ ~Has(x, m)
    BY DEF Requests
  <2>1. ~Waits(x, m) /\ ~Has(x, m)
    BY <1>1, FreeFacts, SchedAssumption DEF Waits, Has
  <2>2. ~Asks(x, m)
    BY <1>1 DEF Asks, OwnHeld, ListHeld, Finding
  <2> QED BY <2>1, <2>2
<1>10. Lifeless
  <2>1. \A x \in Threads : x # t0 => tstate[x] = "BLOCKED"
    BY <1>1, <1>2 DEF Procs
  <2>2. \A x \in Threads : pc[x] = IF x = t0 THEN "out" ELSE "absent"
    BY <1>1
  <2> QED BY <2>1, <2>2 DEF Lifeless
<1>11. \A x \in Threads : pc[x] \in {"out", "absent"} /\ ptr[x] = None
  BY <1>1
<1>12. Marked
  BY <1>1, <1>11 DEF Marked, Asleep
<1>13. Pointers
  BY <1>11, SchedAssumption DEF Pointers, Finding, Forking
<1>14. Listed
  <2>1. \A x \in Threads : x \in ToSet(thrlist) <=> pc[x] \notin Leaving \cup {"v_own"}
    <3>1. \A x \in Threads : pc[x] = IF x = t0 THEN "out" ELSE "absent"
      BY <1>1
    <3> QED BY <1>2, <1>3, <3>1 DEF Leaving
  <2> QED BY <1>3, <1>5, <1>11, <2>1 DEF Listed
<1>15. Ordered
  <2>1. tid[Idle] = 1 /\ tid[t0] = 2
    BY <1>1, <1>2
  <2> QED BY <1>1, <1>3, <1>4, <2>1 DEF Ordered
<1>16. Posted
  BY <1>11 DEF Posted, Asleep
<1> QED
  BY <1>7, <1>8, <1>9, <1>10, <1>12, <1>13, <1>14, <1>15, <1>16 DEF IInv

LEMMA KernelStepKeeps ==
    ASSUME IInv, NEW t \in Threads, KernelStep(t)
    PROVE  IInv'
<1>1. CASE DescheduleStep(t)
  BY <1>1, CheckRejectKeeps, TestFaultsKeeps, TestRejectsKeeps, TestPassesKeeps,
     DescheduleKeeps, DescheduleReturnsKeeps
  DEF DescheduleStep
<1>2. CASE MakeRunnableStep(t)
  BY <1>2, FindLocksListKeeps, FindLocksThreadKeeps, FindFailsKeeps,
     FindUnlocksListKeeps, TestTargetKeeps, WakeTargetKeeps, MakeRunnableReturnsKeeps
  DEF MakeRunnableStep
<1>3. CASE ThreadForkStep(t)
  BY <1>3, AddLocksListKeeps, AddPastRoverKeeps, AddFromStartKeeps, AddFailsKeeps,
     AddUnlocksListKeeps, LaunchKeeps
  DEF ThreadForkStep
<1>4. CASE VanishStep(t)
  BY <1>4, DelLocksListKeeps, ThrlistDelKeeps, DelUnlocksThreadKeeps,
     DelUnlocksListKeeps, VanishBlocksKeeps
  DEF VanishStep
<1> QED BY <1>1, <1>2, <1>3, <1>4 DEF KernelStep

LEMMA UserStepKeeps ==
    ASSUME IInv, NEW t \in Threads, UserStep(t)
    PROVE  IInv'
  BY ClearWordKeeps, CallVanishKeeps, CallDescheduleKeeps, SetWordKeeps,
     CallThreadForkKeeps, CallMakeRunnableKeeps, YieldKeeps
  DEF UserStep

LEMMA NextInv == IInv /\ [Next]_vars => IInv'
<1> SUFFICES ASSUME IInv, [Next]_vars PROVE IInv'
  OBVIOUS
<1>1. CASE Tick
  BY <1>1, TickKeeps
<1>2. ASSUME NEW t \in Threads, KernelStep(t) PROVE IInv'
  BY <1>2, KernelStepKeeps
<1>3. ASSUME NEW t \in Threads, UserStep(t) PROVE IInv'
  BY <1>3, UserStepKeeps
<1>4. ASSUME NEW t \in Threads, RemovePage(t) PROVE IInv'
  BY <1>4, RemovePageKeeps
<1>5. ASSUME NEW t \in Threads, ThrFree(t) PROVE IInv'
  BY <1>5, ThrFreeKeeps
<1>6. CASE UNCHANGED vars
  <2>1. /\ UNCHANGED <<listVars, mutex, desched, word, pc, locals>>
        /\ mapped' = mapped /\ UNCHANGED schedVars
    BY <1>6 DEF vars, userVars
  <2> QED BY <2>1, SchedSame, SwitchKeeps DEF IInv, Types
<1> QED BY <1>1, <1>2, <1>3, <1>4, <1>5, <1>6 DEF Next

LEMMA SpecInv == Spec => []IInv
  BY InitInv, NextInv, PTL DEF Spec

-----------------------------------------------------------------------------
(* What is proved of every run *)

(* The run queue holds exactly the runnable threads, the thread list is in *)
(* strictly ascending order of TIDs, also after the TIDs have rolled over, *)
(* and its rover stands in it (sched.c:40-69, thread.c:149-179,197-200).   *)
THEOREM ThreadListInOrder == Spec => []Consistent
<1>1. IInv => Consistent
  <2> SUFFICES ASSUME IInv PROVE Consistent
    OBVIOUS
  <2>1. thrlist \in Seq(Procs)
    BY RoverLemma
  <2>2. rover \in ToSet(thrlist) /\ rover \in Procs
    BY <2>1 DEF IInv, Ordered, ToSet
  <2>3. TypeOK
    BY <2>1, <2>2 DEF IInv, Types, TypeOK, SchedInv
  <2>4. TidsAscend
    BY <2>2 DEF IInv, Ordered, TidsAscend
  <2> QED BY <2>3, <2>4 DEF IInv, Types, SchedInv, Consistent
<1> QED BY <1>1, SpecInv, PTL

(* deschedule is atomic with respect to make_runnable: a thread that       *)
(* sleeps although its word was set is about to be woken                   *)
(* (threadmgmt.c:56-58).                                                   *)
THEOREM WakeupsKept == Spec => []NoLostWakeup
<1>1. IInv => NoLostWakeup
  BY DEF IInv, Posted, NoLostWakeup
<1> QED BY <1>1, SpecInv, PTL

(* make_runnable wakes only who deschedule has put to sleep                *)
(* (threadmgmt.c:111).                                                     *)
THEOREM WakesSleepers == Spec => []WakesOnlyDescheduled
<1>1. IInv => WakesOnlyDescheduled
  BY DEF IInv, Marked, WakesOnlyDescheduled
<1> QED BY <1>1, SpecInv, PTL

(* A TCB that may be freed is in no list, its lock is free, and no call    *)
(* holds a pointer to it (thread.c:205-207).                               *)
THEOREM DeadAreAlone == Spec => []GoneIsAlone
<1>1. IInv => GoneIsAlone
  <2> SUFFICES ASSUME IInv, NEW t \in Threads, pc[t] \in {"gone", "absent"}
               PROVE  /\ t \notin ToSet(thrlist) /\ mutex[t] = Free
                      /\ \A u \in Threads : ptr[u] # t
    BY DEF GoneIsAlone
  <2>1. t \notin ToSet(thrlist)
    BY DEF IInv, Listed, Leaving
  <2>2. \A u \in Threads : ptr[u] # t
    BY DEF IInv, Pointers, Leaving
  <2> QED BY <2>1, <2>2, FreeWhenGone
<1> QED BY <1>1, SpecInv, PTL
=============================================================================
