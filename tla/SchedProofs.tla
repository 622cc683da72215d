---------------------------- MODULE SchedProofs ----------------------------
(***************************************************************************)
(* Lemmas about the run queue and the scheduler entry points of Sched: the *)
(* queue operations keep a queue without duplicates and change its         *)
(* contents as sched.c means them to, and every sched_* operator keeps the *)
(* run queue exact.                                                        *)
(***************************************************************************)
EXTENDS Sched, SequenceTheorems, FiniteSetTheorems, TLAPS

(* What is asked of a queue: a sequence of threads, each at most once. *)
IsQueue(q) == q \in Seq(Procs) /\ NoDuplicates(q)

LEMMA RqAddLemma ==
    ASSUME NEW q, IsQueue(q), NEW t \in Procs, t \notin ToSet(q)
    PROVE  /\ IsQueue(RqAdd(q, t))
           /\ ToSet(RqAdd(q, t)) = ToSet(q) \cup {t}
           /\ RqAdd(q, t) # <<>>
<1> DEFINE r == <<t>> \o q
<1>1. /\ r \in Seq(Procs) /\ Len(r) = Len(q) + 1
      /\ r[1] = t /\ \A i \in 1 .. Len(q) : r[i+1] = q[i]
  BY DEF IsQueue
<1>2. /\ DOMAIN q = 1 .. Len(q) /\ DOMAIN r = 1 .. Len(q) + 1
      /\ Len(q) \in Nat
  BY <1>1 DEF IsQueue
<1> HIDE DEF r
<1>3. \A i \in DOMAIN r : i = 1 \/ (i - 1 \in 1 .. Len(q) /\ r[i] = q[i-1])
  BY <1>1, <1>2
<1>4. NoDuplicates(r)
  BY <1>1, <1>2, <1>3 DEF IsQueue, NoDuplicates, ToSet
<1>5. ToSet(r) = ToSet(q) \cup {t}
  <2>1. t \in ToSet(r)
    BY <1>1, <1>2 DEF ToSet
  <2>2. ASSUME NEW x \in ToSet(q) PROVE x \in ToSet(r)
    <3>1. PICK i \in 1 .. Len(q) : q[i] = x
      BY <1>2 DEF ToSet
    <3>2. i + 1 \in DOMAIN r /\ r[i+1] = x
      BY <1>1, <1>2, <3>1
    <3> QED BY <3>2 DEF ToSet
  <2>3. ASSUME NEW x \in ToSet(r), x # t PROVE x \in ToSet(q)
    <3>1. PICK i \in DOMAIN r : r[i] = x
      BY DEF ToSet
    <3>2. i - 1 \in DOMAIN q /\ q[i-1] = x
      BY <1>1, <1>2, <1>3, <2>3, <3>1
    <3> QED BY <3>2 DEF ToSet
  <2> QED BY <2>1, <2>2, <2>3
<1>6. r # <<>>
  BY <1>1
<1>7. RqAdd(q, t) = r
  BY DEF RqAdd, Cons, r
<1> QED BY <1>1, <1>4, <1>5, <1>6, <1>7 DEF IsQueue

(* Where the elements go: those behind the one that leaves move up. *)
LEMMA RqDelShifts ==
    ASSUME NEW q, IsQueue(q), NEW t \in ToSet(q)
    PROVE  \E k \in 1 .. Len(q) :
               /\ q[k] = t
               /\ RqDel(q, t) \in Seq(Procs) /\ Len(RqDel(q, t)) = Len(q) - 1
               /\ DOMAIN RqDel(q, t) = 1 .. Len(q) - 1
               /\ \A i \in 1 .. Len(q) - 1 :
                      RqDel(q, t)[i] = q[IF i < k THEN i ELSE i + 1]
<1>1. q \in Seq(Procs) /\ NoDuplicates(q) /\ DOMAIN q = 1 .. Len(q) /\ Len(q) \in Nat
  BY DEF IsQueue
<1>2. PICK k \in 1 .. Len(q) : q[k] = t
  BY <1>1 DEF ToSet
<1>3. {i \in 1 .. Len(q) : q[i] = t} = {k}
  BY <1>1, <1>2 DEF NoDuplicates
<1>4. Min({k}) = k
  BY <1>2 DEF Min
<1> DEFINE a == SubSeq(q, 1, k-1)
           b == SubSeq(q, k+1, Len(q))
           r == a \o b
<1>5. RqDel(q, t) = r
  BY <1>2, <1>3, <1>4 DEF RqDel, RemoveFirst, RemoveAt, SelectInSeq
<1>6. /\ a \in Seq(Procs) /\ Len(a) = k-1
      /\ \A i \in 1 .. k-1 : a[i] = q[i]
  <2>1. \A i \in 1 .. k-1 : q[i] \in Procs
    BY <1>1, <1>2
  <2> QED BY <1>2, <2>1, SubSeqProperties
<1>7. /\ b \in Seq(Procs) /\ Len(b) = Len(q) - k
      /\ \A i \in 1 .. Len(q) - k : b[i] = q[k+i]
  <2>1. \A i \in k+1 .. Len(q) : q[i] \in Procs
    BY <1>1, <1>2
  <2>2. k+1 \in Int /\ Len(q) \in Int
    BY <1>1, <1>2
  <2> HIDE DEF b
  <2>3. /\ b \in Seq(Procs)
        /\ Len(b) = IF k+1 <= Len(q) THEN Len(q) - (k+1) + 1 ELSE 0
        /\ \A i \in 1 .. Len(q) - (k+1) + 1 : b[i] = q[k+1+i-1]
    BY <2>1, <2>2, SubSeqProperties DEF b
  <2>4. Len(b) = Len(q) - k
    <3> DEFINE n == Len(q)
    <3>1. n \in Nat /\ k \in 1 .. n
      BY <1>1, <1>2
    <3>2. Len(b) = IF k+1 <= n THEN n - (k+1) + 1 ELSE 0
      BY <2>3
    <3> HIDE DEF n
    <3>3. Len(b) = n - k
      BY <3>1, <3>2
    <3> QED BY <3>3 DEF n
  <2>5. \A i \in 1 .. Len(q) - k : b[i] = q[k+i]
    <3> TAKE i \in 1 .. Len(q) - k
    <3>1. i \in 1 .. Len(q) - (k+1) + 1 /\ k+1+i-1 = k+i
      BY <1>1, <1>2
    <3> QED BY <2>3, <3>1
  <2> QED BY <2>3, <2>4, <2>5
<1>8a. /\ r \in Seq(Procs) /\ Len(r) = Len(a) + Len(b)
       /\ \A i \in 1 .. Len(a) + Len(b) :
             r[i] = IF i <= Len(a) THEN a[i] ELSE b[i - Len(a)]
  BY <1>6, <1>7, ConcatProperties
<1> HIDE DEF r, a, b
<1>8. /\ r \in Seq(Procs) /\ Len(r) = Len(q) - 1 /\ DOMAIN r = 1 .. Len(q) - 1
      /\ \A i \in 1 .. Len(q) - 1 : r[i] = q[IF i < k THEN i ELSE i + 1]
  <2>1. Len(r) = Len(q) - 1 /\ DOMAIN r = 1 .. Len(q) - 1
    BY <1>1, <1>2, <1>6, <1>7, <1>8a
  <2>2. ASSUME NEW i \in 1 .. Len(q) - 1
        PROVE  r[i] = q[IF i < k THEN i ELSE i + 1]
    <3>0. i \in 1 .. Len(a) + Len(b) /\ Len(a) = k - 1
      BY <1>1, <1>2, <1>6, <1>7
    <3>a. r[i] = IF i <= k - 1 THEN a[i] ELSE b[i - (k - 1)]
      BY <1>8a, <3>0
    <3>1. CASE i < k
      <4>1. i \in 1 .. k-1
        BY <1>1, <1>2, <3>1
      <4> QED BY <1>6, <3>a, <3>1, <4>1
    <3>2. CASE i >= k
      <4> DEFINE j == i - (k - 1)
      <4>1. j \in 1 .. Len(q) - k /\ k + j = i + 1
        BY <1>1, <1>2, <3>2
      <4>2. ~(i <= k - 1) /\ ~(i < k)
        BY <1>1, <1>2, <3>2
      <4>3. r[i] = b[j]
        BY <3>a, <4>2
      <4> HIDE DEF j
      <4>4. b[j] = q[k + j]
        BY <1>7, <4>1
      <4> QED BY <4>1, <4>2, <4>3, <4>4
    <3> QED BY <1>2, <3>1, <3>2
  <2> QED BY <1>8a, <2>1, <2>2
<1> QED BY <1>2, <1>5, <1>8

LEMMA RqDelLemma ==
    ASSUME NEW q, IsQueue(q), NEW t \in ToSet(q)
    PROVE  /\ IsQueue(RqDel(q, t))
           /\ ToSet(RqDel(q, t)) = ToSet(q) \ {t}
<1> DEFINE r == RqDel(q, t)
<1>1. q \in Seq(Procs) /\ NoDuplicates(q) /\ DOMAIN q = 1 .. Len(q) /\ Len(q) \in Nat
  BY DEF IsQueue
<1>2. PICK k \in 1 .. Len(q) :
          /\ q[k] = t
          /\ r \in Seq(Procs) /\ Len(r) = Len(q) - 1 /\ DOMAIN r = 1 .. Len(q) - 1
          /\ \A i \in 1 .. Len(q) - 1 : r[i] = q[IF i < k THEN i ELSE i + 1]
  BY RqDelShifts
<1> HIDE DEF r
<1>3. NoDuplicates(r)
  <2> SUFFICES ASSUME NEW i \in DOMAIN r, NEW j \in DOMAIN r, r[i] = r[j]
               PROVE  i = j
    BY DEF NoDuplicates
  <2>1. i \in 1 .. Len(q) - 1 /\ j \in 1 .. Len(q) - 1
    BY <1>2
  <2>2. PICK x \in 1 .. Len(q) : x = (IF i < k THEN i ELSE i + 1) /\ r[i] = q[x]
    BY <1>1, <1>2, <2>1
  <2>3. PICK y \in 1 .. Len(q) : y = (IF j < k THEN j ELSE j + 1) /\ r[j] = q[y]
    BY <1>1, <1>2, <2>1
  <2>4. x = y
    BY <1>1, <2>2, <2>3 DEF NoDuplicates
  <2> QED BY <2>1, <2>2, <2>3, <2>4
<1>4. ToSet(r) = ToSet(q) \ {t}
  <2>1. ASSUME NEW x \in ToSet(r) PROVE x \in ToSet(q) \ {t}
    BY <1>1, <1>2 DEF ToSet, NoDuplicates
  <2>2. ASSUME NEW x \in ToSet(q), x # t PROVE x \in ToSet(r)
    <3>1. PICK i \in 1 .. Len(q) : q[i] = x
      BY <1>1 DEF ToSet
    <3>2. CASE i < k
      BY <1>2, <3>1, <3>2 DEF ToSet
    <3>3. CASE i > k
      <4>1. i - 1 \in DOMAIN r /\ r[i-1] = x
        BY <1>2, <3>1, <3>3
      <4> QED BY <4>1 DEF ToSet
    <3> QED BY <1>2, <2>2, <3>1, <3>2, <3>3
  <2> QED BY <2>1, <2>2
<1> QED BY <1>2, <1>3, <1>4 DEF IsQueue, r

LEMMA RqRotateLemma ==
    ASSUME NEW q, IsQueue(q), NEW t \in ToSet(q)
    PROVE  /\ IsQueue(RqRotate(q, t))
           /\ ToSet(RqRotate(q, t)) = ToSet(q)
<1> DEFINE d == RqDel(q, t)
           r == Append(d, t)
<1>1. IsQueue(d) /\ ToSet(d) = ToSet(q) \ {t}
  BY RqDelLemma
<1>2. t \in Procs
  BY DEF IsQueue, ToSet
<1>3. /\ r \in Seq(Procs) /\ Len(r) = Len(d) + 1
      /\ \A i \in 1 .. Len(d) : r[i] = d[i]
      /\ r[Len(d) + 1] = t
      /\ Len(d) \in Nat /\ DOMAIN d = 1 .. Len(d) /\ DOMAIN r = 1 .. Len(d) + 1
  BY <1>1, <1>2, AppendProperties DEF IsQueue
<1>4. \A i \in DOMAIN d : d[i] # t
  BY <1>1 DEF ToSet
<1> HIDE DEF r, d
<1>5. NoDuplicates(r)
  BY <1>1, <1>3, <1>4 DEF NoDuplicates, IsQueue
<1>6. ToSet(r) = ToSet(d) \cup {t}
  BY <1>3 DEF ToSet
<1>7. RqRotate(q, t) = r
  BY DEF RqRotate, r, d
<1> QED BY <1>1, <1>3, <1>5, <1>6, <1>7 DEF IsQueue

LEMMA ScheduleLemma ==
    ASSUME NEW q, IsQueue(q), q # <<>>, ScheduleUnprotected(q)
    PROVE  /\ curr' \in ToSet(q)
           /\ IsQueue(runq')
           /\ ToSet(runq') = ToSet(q)
<1>1. Head(q) \in ToSet(q)
  BY DEF IsQueue, ToSet
<1> QED BY <1>1, RqRotateLemma DEF ScheduleUnprotected

-----------------------------------------------------------------------------
(* Each scheduler entry point keeps the queue exact, given the state its   *)
(* asserts ask of the threads it is applied to.                            *)

SchedInv == SchedTypeOK /\ RunqExact

LEMMA SchedQueue ==
    ASSUME SchedInv
    PROVE  /\ IsQueue(runq) /\ runq # <<>>
           /\ ToSet(runq) = Runnable /\ curr \in ToSet(runq)
           /\ Runnable \subseteq Procs
<1>1. IsQueue(runq) /\ ToSet(runq) = Runnable /\ curr \in ToSet(runq)
  BY DEF SchedInv, SchedTypeOK, RunqExact, IsQueue
<1>2. runq # <<>>
  BY <1>1 DEF ToSet
<1> QED BY <1>1, <1>2 DEF Runnable

(* What is left to show of an entry point that ends in schedule_unprotected *)
(* on q: that q holds just the threads then runnable.                      *)
LEMMA ScheduleKeeps ==
    ASSUME NEW q, IsQueue(q), q # <<>>, ScheduleUnprotected(q),
           tstate' \in [Procs -> ThreadStates],
           ToSet(q) = Runnable', Idle \in ToSet(q)
    PROVE  SchedInv'
<1>1. curr' \in ToSet(q) /\ IsQueue(runq') /\ ToSet(runq') = ToSet(q)
  BY ScheduleLemma
<1>2. SchedTypeOK'
  BY <1>1 DEF SchedTypeOK, IsQueue, Runnable
<1>3. RunqExact'
  BY <1>1 DEF RunqExact, IsQueue
<1> QED BY <1>2, <1>3 DEF SchedInv

LEMMA ScheduleKeepsInv ==
    ASSUME SchedInv, Schedule
    PROVE  SchedInv'
<1>1. ToSet(runq) = Runnable'
  BY SchedQueue DEF Schedule, Runnable
<1> QED
  BY <1>1, SchedQueue, ScheduleKeeps
  DEF Schedule, SchedInv, SchedTypeOK, RunqExact

LEMMA SchedBlockKeepsInv ==
    ASSUME SchedInv, NEW t \in Threads, tstate[t] = "RUNNABLE", SchedBlock(t)
    PROVE  SchedInv' /\ Runnable' = Runnable \ {t}
<1> DEFINE q == RqDel(runq, t)
<1>1. t \in Procs /\ t # Idle /\ t \in ToSet(runq)
  BY SchedAssumption, SchedQueue DEF Procs, Runnable
<1>2. IsQueue(q) /\ ToSet(q) = ToSet(runq) \ {t}
  BY <1>1, SchedQueue, RqDelLemma
<1>3. Idle \in ToSet(q)
  BY <1>1, <1>2, SchedQueue DEF SchedInv, RunqExact
<1>4. q # <<>>
  BY <1>3 DEF ToSet
<1>5. tstate' \in [Procs -> ThreadStates]
  BY DEF SchedBlock, SchedInv, SchedTypeOK, ThreadStates
<1>6. Runnable' = Runnable \ {t}
  BY <1>1 DEF SchedBlock, SchedInv, SchedTypeOK, Runnable
<1>7. ScheduleUnprotected(q)
  BY DEF SchedBlock
<1> HIDE DEF q
<1> QED BY <1>2, <1>3, <1>4, <1>5, <1>6, <1>7, SchedQueue, ScheduleKeeps

LEMMA SchedUnblockKeepsInv ==
    ASSUME SchedInv, NEW t \in Threads, tstate[t] # "RUNNABLE", SchedUnblock(t)
    PROVE  SchedInv' /\ Runnable' = Runnable \cup {t}
<1> DEFINE q == RqAdd(runq, t)
<1>1. t \in Procs /\ t \notin ToSet(runq)
  BY SchedQueue DEF Procs, Runnable
<1>2. IsQueue(q) /\ ToSet(q) = ToSet(runq) \cup {t} /\ q # <<>>
  BY <1>1, SchedQueue, RqAddLemma
<1>3. Idle \in ToSet(q)
  BY <1>2, SchedQueue DEF SchedInv, RunqExact
<1>4. tstate' \in [Procs -> ThreadStates]
  BY DEF SchedUnblock, SchedInv, SchedTypeOK, ThreadStates
<1>5. Runnable' = Runnable \cup {t}
  BY <1>1 DEF SchedUnblock, SchedInv, SchedTypeOK, Runnable
<1>6. ScheduleUnprotected(q)
  BY DEF SchedUnblock
<1> HIDE DEF q
<1> QED BY <1>2, <1>3, <1>4, <1>5, <1>6, SchedQueue, ScheduleKeeps

LEMMA SchedAddKeepsInv ==
    ASSUME SchedInv, NEW t \in Threads, tstate[t] # "RUNNABLE", SchedAddToRq(t)
    PROVE  SchedInv'
<1>1. t \in Procs /\ t \notin ToSet(runq)
  BY SchedQueue DEF Procs, Runnable
<1>2. IsQueue(runq') /\ ToSet(runq') = ToSet(runq) \cup {t}
  BY <1>1, SchedQueue, RqAddLemma DEF SchedAddToRq
<1>3. Runnable' = Runnable \cup {t}
  BY <1>1 DEF SchedAddToRq, Runnable, SchedInv, SchedTypeOK
<1>4. tstate' \in [Procs -> ThreadStates]
  BY DEF SchedAddToRq, SchedInv, SchedTypeOK, ThreadStates
<1> QED
  BY <1>2, <1>3, <1>4, SchedQueue
  DEF SchedAddToRq, SchedInv, SchedTypeOK, RunqExact, IsQueue

LEMMA SchedSwapKeepsInv ==
    ASSUME SchedInv, NEW b \in Threads, NEW t \in Threads,
           tstate[b] = "RUNNABLE", tstate[t] # "RUNNABLE", SchedSwap(b, t)
    PROVE  SchedInv' /\ Runnable' = (Runnable \ {b}) \cup {t}
<1> DEFINE d == RqDel(runq, b)
           q == RqAdd(d, t)
<1>1. /\ b \in Procs /\ b # Idle /\ b \in ToSet(runq)
      /\ t \in Procs /\ t \notin ToSet(runq) /\ b # t
  BY SchedAssumption, SchedQueue DEF Procs, Runnable
<1>2. IsQueue(d) /\ ToSet(d) = ToSet(runq) \ {b}
  BY <1>1, SchedQueue, RqDelLemma
<1>3. IsQueue(q) /\ ToSet(q) = ToSet(d) \cup {t} /\ q # <<>>
  <2> HIDE DEF d
  <2> QED BY <1>1, <1>2, RqAddLemma
<1>4. Idle \in ToSet(q)
  BY <1>1, <1>2, <1>3, SchedQueue DEF SchedInv, RunqExact
<1>5. tstate' \in [Procs -> ThreadStates]
  BY DEF SchedSwap, SchedInv, SchedTypeOK, ThreadStates
<1>6. Runnable' = (Runnable \ {b}) \cup {t}
  BY <1>1 DEF SchedSwap, SchedInv, SchedTypeOK, Runnable
<1>7. ScheduleUnprotected(q)
  BY DEF SchedSwap
<1> HIDE DEF d, q
<1> QED BY <1>1, <1>2, <1>3, <1>4, <1>5, <1>6, <1>7, SchedQueue, ScheduleKeeps

LEMMA SchedFindKeepsInv ==
    ASSUME SchedInv, NEW tid, SchedFind(tid)
    PROVE  SchedInv' /\ tstate' = tstate
<1>1. CASE RqFind(tid)
  <2>1. /\ IsQueue(runq') /\ ToSet(runq') = ToSet(runq)
        /\ curr' \in ToSet(runq) /\ tstate' = tstate
    BY <1>1, SchedQueue, RqRotateLemma DEF SchedFind, RqFind
  <2>2. SchedTypeOK'
    BY <2>1, SchedQueue DEF SchedInv, SchedTypeOK, IsQueue
  <2>3. RunqExact'
    BY <2>1, SchedQueue DEF SchedInv, RunqExact, IsQueue, Runnable
  <2> QED BY <2>1, <2>2, <2>3 DEF SchedInv
<1>2. CASE ~RqFind(tid)
  BY <1>2 DEF SchedFind, schedVars, SchedInv, SchedTypeOK, RunqExact, Runnable
<1> QED BY <1>1, <1>2

-----------------------------------------------------------------------------
(* A line of threads that wait: each stands in it at most once. *)
IsLine(q) == q \in Seq(Threads) /\ NoDuplicates(q)

LEMMA LineAppend ==
    ASSUME NEW q, IsLine(q), NEW t \in Threads, t \notin ToSet(q)
    PROVE  /\ IsLine(Append(q, t)) /\ ToSet(Append(q, t)) = ToSet(q) \cup {t}
           /\ q # <<>> => Head(Append(q, t)) = Head(q)
<1> DEFINE r == Append(q, t)
<1>1. /\ q \in Seq(Threads) /\ Len(q) \in Nat /\ DOMAIN q = 1 .. Len(q)
      /\ r \in Seq(Threads) /\ Len(r) = Len(q) + 1
      /\ DOMAIN r = 1 .. Len(q) + 1
      /\ \A i \in 1 .. Len(q) : r[i] = q[i]
      /\ r[Len(q) + 1] = t
  BY AppendProperties DEF IsLine
<1>2. \A i \in 1 .. Len(q) : q[i] # t
  BY <1>1 DEF ToSet
<1>3. q # <<>> => Head(r) = Head(q)
  BY <1>1, HeadTailProperties
<1> HIDE DEF r
<1>4. NoDuplicates(r)
  BY <1>1, <1>2 DEF NoDuplicates, IsLine
<1>5. ToSet(r) = ToSet(q) \cup {t}
  BY <1>1 DEF ToSet
<1> QED
  BY <1>1, <1>3, <1>4, <1>5 DEF IsLine, r

LEMMA LineTail ==
    ASSUME NEW q, IsLine(q), q # <<>>
    PROVE  /\ Head(q) \in Threads /\ Head(q) \in ToSet(q)
           /\ IsLine(Tail(q)) /\ ToSet(Tail(q)) = ToSet(q) \ {Head(q)}
<1> DEFINE r == Tail(q)
<1>1. /\ Len(q) \in Nat \ {0} /\ DOMAIN q = 1 .. Len(q)
      /\ r \in Seq(Threads) /\ Len(r) = Len(q) - 1
      /\ DOMAIN r = 1 .. Len(q) - 1
      /\ \A i \in 1 .. Len(q) - 1 : r[i] = q[i+1]
      /\ Head(q) = q[1] /\ q[1] \in Threads
  BY HeadTailProperties DEF IsLine
<1> HIDE DEF r
<1>2. NoDuplicates(r)
  <2>1. ASSUME NEW i \in 1 .. Len(q) - 1, NEW j \in 1 .. Len(q) - 1, r[i] = r[j]
        PROVE  i = j
    <3>1. i + 1 \in DOMAIN q /\ j + 1 \in DOMAIN q /\ q[i + 1] = q[j + 1]
      BY <1>1, <2>1
    <3>2. i + 1 = j + 1
      BY <3>1 DEF NoDuplicates, IsLine
    <3> QED BY <3>2
  <2> QED BY <1>1, <2>1 DEF NoDuplicates
<1>3. Head(q) \in ToSet(q)
  BY <1>1 DEF ToSet
<1>4. ASSUME NEW u \in ToSet(r)
      PROVE  u \in ToSet(q) /\ u # Head(q)
  <2>1. PICK i \in 1 .. Len(q) - 1 : q[i+1] = u
    BY <1>1, <1>4 DEF ToSet
  <2> QED
    BY <1>1, <2>1 DEF ToSet, NoDuplicates, IsLine
<1>5. ASSUME NEW u \in ToSet(q), u # Head(q)
      PROVE  u \in ToSet(r)
  <2>1. PICK i \in 2 .. Len(q) : q[i] = u
    BY <1>1, <1>5 DEF ToSet
  <2>2. i - 1 \in DOMAIN r /\ r[i-1] = u
    BY <1>1, <2>1
  <2> QED
    BY <2>2 DEF ToSet
<1> QED
  BY <1>1, <1>2, <1>3, <1>4, <1>5 DEF IsLine, r

LEMMA LineIn ==
    ASSUME NEW q, IsLine(q)
    PROVE  ToSet(q) \subseteq Threads /\ (q = <<>> <=> ToSet(q) = {})
<1>1. ToSet(q) \subseteq Threads
  BY DEF IsLine, ToSet
<1>2. q # <<>> => ToSet(q) # {}
  BY LineTail
<1>3. ToSet(<<>>) = {}
  BY DEF ToSet
<1> QED
  BY <1>1, <1>2, <1>3

-----------------------------------------------------------------------------
(* Where the models begin: everybody is in the queue, the idle thread last. *)

LEMMA QueueOfAll ==
    ASSUME NEW s \in SetToSeqs(Threads), NEW q, q = Append(s, Idle)
    PROVE  IsQueue(q) /\ ToSet(q) = Procs
<1>1. /\ s \in [1 .. Cardinality(Threads) -> Threads]
      /\ \A i, j \in 1 .. Cardinality(Threads) : s[i] = s[j] => i = j
      /\ Cardinality(Threads) \in Nat
  BY SchedAssumption, FS_CardinalityType DEF SetToSeqs
<1>2. s \in Surjection(1 .. Cardinality(Threads), Threads)
  <2>1. s \in Injection(1 .. Cardinality(Threads), Threads)
    BY <1>1 DEF Injection, IsInjective
  <2>2. Cardinality(1 .. Cardinality(Threads)) = Cardinality(Threads)
    <3>1. 1 \in Int /\ Cardinality(Threads) \in Int
      BY <1>1
    <3> QED BY <1>1, <3>1, FS_Interval
  <2> QED BY <2>1, <2>2, SchedAssumption, FS_Injection
<1>3. IsQueue(s) /\ ToSet(s) = Threads
  <2>1. s \in Seq(Procs) /\ DOMAIN s = 1 .. Cardinality(Threads)
    BY <1>1 DEF Procs
  <2>2. ToSet(s) = Threads
    BY <1>2, <2>1 DEF Surjection, ToSet
  <2> QED BY <1>1, <2>1, <2>2 DEF IsQueue, NoDuplicates
<1>4. /\ Idle \in Procs /\ s \in Seq(Procs) /\ q \in Seq(Procs)
      /\ Len(q) = Len(s) + 1 /\ q[Len(s) + 1] = Idle
      /\ \A i \in 1 .. Len(s) : q[i] = s[i]
      /\ Len(s) \in Nat /\ DOMAIN s = 1 .. Len(s)
      /\ DOMAIN q = 1 .. Len(s) + 1
  BY <1>3, AppendProperties DEF IsQueue, Procs
<1>5. \A i \in DOMAIN s : s[i] # Idle
  BY <1>3, SchedAssumption DEF ToSet
<1>6. NoDuplicates(q)
  BY <1>3, <1>4, <1>5 DEF NoDuplicates, IsQueue
<1>7. ToSet(q) = ToSet(s) \cup {Idle}
  BY <1>4 DEF ToSet
<1> QED BY <1>3, <1>4, <1>6, <1>7 DEF IsQueue, Procs
=============================================================================
