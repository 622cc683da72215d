--------------------------- MODULE UserSyncProofs ---------------------------
(***************************************************************************)
(* Proofs about UserSync, for any set of threads and any count of permits: *)
(* the lists of the library are consistent, nobody shares what it has      *)
(* locked, no waiter is lost, the mutex implements FifoLock, the condition *)
(* variable CondVar and the readers/writer lock SharedLock.                *)
(***************************************************************************)
EXTENDS UserSync, SequenceTheorems, FiniteSetTheorems, TLAPS

-----------------------------------------------------------------------------
(* The inductive invariant.  Its parts say, for each label, which          *)
(* spinlocks a thread has a ticket for, what it holds, in which queue it   *)
(* stands and what is known of its reject.                                 *)

(* A sequence of threads, each at most once. *)
Line(q) ==
    /\ q \in Seq(Threads)
    /\ \A i, j \in 1 .. Len(q) : q[i] = q[j] => i = j

Queues ==
    /\ \A l \in SpinLocks : Line(spin[l])
    /\ Line(mqueue) /\ Line(cvq) /\ Line(semq)
    /\ Line(writers) /\ Line(rwaiting) /\ Line(rreading) /\ Line(todo)

Types ==
    /\ SyncTypeOK
    /\ DOMAIN pc = Threads /\ DOMAIN home = Threads
    /\ mowner \in Threads \cup {None}
    /\ count \in 0..Permits
    /\ rwstate \in {"UNLOCKED", "RDLOCKED", "WRLOCKED"}
    /\ writer \in Threads \cup {None}

(* Where a call returns to, by the label it has reached. *)
Homes ==
    \A t \in Threads :
        /\ pc[t] \in {"l_spin", "l_wait", "k_spin", "k_wait"} => home[t] = "crit"
        /\ pc[t] \in {"c_spin", "c_park", "c_wait"} => home[t] = "c_park"
        /\ pc[t] = "u_spin" => home[t] \in {"out", "c_park"}
        /\ pc[t] \in {"s_spin", "b_spin", "b_loop", "b_wake"} =>
               home[t] \in {"out", "crit"}
        /\ pc[t] \in {"post", "wake"} => home[t] \in {"out", "crit", "c_park"}
        /\ pc[t] \in {"sw_spin", "s_wait"} => home[t] = "s_in"
        /\ pc[t] \in {"ss_spin", "rl_spin", "wl_spin", "ul_spin", "r_wait",
                      "w_wait", "late_post", "late_wake"} => home[t] = "out"
        /\ pc[t] \in {"dg_spin", "bc", "bc_wake"} => home[t] \in {"out", "r_in"}

(* t is inside cond_wait, with the spinlock of the condition variable. *)
Parks(t) ==
    \/ pc[t] = "c_park"
    \/ pc[t] \in {"u_spin", "post", "wake"} /\ home[t] = "c_park"

HoldsCv(t) == pc[t] \in {"b_loop", "b_wake"} \/ Parks(t)

Broadcasts(t) == pc[t] \in {"bc", "bc_wake"}

Spinning ==
    \A t \in Threads :
        /\ t \in ToSet(spin["mp"]) <=> pc[t] \in {"l_spin", "k_spin", "u_spin"}
        /\ t \in ToSet(spin["cv"]) <=>
               pc[t] \in {"c_spin", "s_spin", "b_spin"} \/ HoldsCv(t)
        /\ t \in ToSet(spin["sem"]) <=> pc[t] \in {"sw_spin", "ss_spin"}
        /\ t \in ToSet(spin["rw"]) <=>
               pc[t] \in {"rl_spin", "wl_spin", "ul_spin", "dg_spin"} \/ Broadcasts(t)
        /\ HoldsCv(t) => Turn(t, "cv")
        /\ Broadcasts(t) => Turn(t, "rw")

HasMutex(t) ==
    \/ pc[t] \in {"crit", "c_spin", "u_spin"}
    \/ pc[t] \in {"l_wait", "k_wait"} /\ ~OnMqueue(t)
    \/ /\ pc[t] \in {"s_spin", "b_spin", "b_loop", "b_wake", "post", "wake"}
       /\ home[t] = "crit"

MutexInv ==
    /\ \A t \in Threads : mowner = t <=> HasMutex(t)
    /\ \A t \in Threads : OnMqueue(t) => pc[t] \in {"l_wait", "k_wait"} /\ ~reject[t]
    /\ mowner = None => mqueue = <<>>

CondInv ==
    /\ \A t \in Threads :
          OnCvq(t) => Parks(t) \/ (pc[t] = "c_wait" /\ ~reject[t])
    /\ \A t \in Threads : Parks(t) => OnCvq(t)

SemInv ==
    /\ \A t \in Threads : t \in ToSet(semq) => pc[t] = "s_wait" /\ ~reject[t]
    /\ count > 0 => semq = <<>>
    /\ count + Cardinality(Permitted) = Permits

-----------------------------------------------------------------------------
(* Waiters and wakers *)

Waiting(t) == pc[t] \in {"l_wait", "k_wait", "c_wait", "s_wait", "w_wait"}

Posting(t) == pc[t] \in {"post", "late_post"}

WakeInv ==
    /\ \A t \in Threads : t \in asleep => Waiting(t) \/ pc[t] = "r_wait"
    /\ \A u \in Threads : Posting(u) =>
           /\ target[u] \in Threads
           /\ Waiting(target[u]) /\ ~reject[target[u]] /\ ~Queued(target[u])
    /\ \A u, v \in Threads : Posting(u) /\ Posting(v) /\ target[u] = target[v] => u = v
    /\ \A t \in Threads : Waiting(t) /\ ~reject[t] /\ ~Queued(t) => Dequeued(t)
    /\ \A t \in Threads : t \in asleep /\ reject[t] =>
           \E u \in Threads :
               \/ target[u] = t /\ pc[u] \in {"wake", "b_wake", "late_wake"}
               \/ pc[u] = "bc_wake" /\ todo # <<>> /\ Head(todo) = t

-----------------------------------------------------------------------------
(* The readers/writer lock *)

(* The readers broadcast_readers has not set the reject of. *)
Rest ==
    IF \E u \in Threads : pc[u] = "bc_wake"
    THEN ToSet(todo) \ {Head(todo)} ELSE ToSet(todo)

(* A reader that is let in, wherever it has got to. *)
LetIn(t) ==
    \/ pc[t] \in {"r_in", "ul_spin"}
    \/ pc[t] = "dg_spin" /\ home[t] = "r_in"
    \/ pc[t] = "r_wait" /\ reject[t]

ReaderInv ==
    /\ \A t \in Threads : t \in ToSet(rwaiting) =>
           IF todo = <<>> \/ t \in Rest THEN pc[t] = "r_wait" /\ ~reject[t] ELSE LetIn(t)
    /\ \A t \in Threads : t \in ToSet(rreading) => LetIn(t)
    /\ \A t \in Threads :
           pc[t] = "r_wait" => t \in ToSet(rwaiting) \/ t \in ToSet(rreading)
    /\ \A t \in Threads :
           pc[t] = "r_in" => t \in AbsReaders
    /\ \A t \in Threads :
           pc[t] = "dg_spin" /\ home[t] = "r_in" => t \in AbsReaders \/ AbsWriter = t

WriterInv ==
    /\ \A t \in Threads : t \in ToSet(writers) => pc[t] = "w_wait" /\ ~reject[t]
    /\ \A t \in Threads :
           \/ pc[t] = "w_in"
           \/ pc[t] = "w_wait" /\ t \notin ToSet(writers)
           => rwstate = "WRLOCKED" /\ writer = t
    /\ rwstate = "WRLOCKED" =>
           /\ writer \in Threads
           /\ IF todo # <<>> THEN Broadcasts(writer)
              ELSE \/ pc[writer] \in {"w_in", "ul_spin"}
                   \/ pc[writer] = "dg_spin" /\ home[writer] = "r_in"
                   \/ pc[writer] = "w_wait" /\ writer \notin ToSet(writers)

StateInv ==
    /\ rwstate = "UNLOCKED" =>
           writers = <<>> /\ rwaiting = <<>> /\ rreading = <<>> /\ todo = <<>>
    /\ rwstate = "RDLOCKED" => rreading # <<>> \/ todo # <<>>
    /\ rwstate = "WRLOCKED" \/ todo # <<>> => rreading = <<>>
    /\ ToSet(todo) \subseteq ToSet(rwaiting)
    /\ todo # <<>> <=> \E t \in Threads : Broadcasts(t)
    /\ \A t \in Threads :
           Broadcasts(t) /\ home[t] = "r_in" => rwstate = "WRLOCKED" /\ writer = t

IInv ==
    /\ Queues /\ Types /\ Homes /\ Spinning /\ MutexInv /\ CondInv /\ SemInv
    /\ WakeInv /\ ReaderInv /\ WriterInv /\ StateInv

-----------------------------------------------------------------------------
(* Sequences of threads *)

LEMMA LineFacts ==
    ASSUME NEW q, Line(q)
    PROVE  /\ q \in Seq(Threads) /\ Len(q) \in Nat /\ DOMAIN q = 1 .. Len(q)
           /\ \A i \in 1 .. Len(q) : q[i] \in Threads /\ q[i] \in ToSet(q)
           /\ \A u \in ToSet(q) : u \in Threads /\ \E i \in 1 .. Len(q) : q[i] = u
           /\ q = <<>> <=> ToSet(q) = {}
           /\ q = <<>> <=> Len(q) = 0
<1>1. q \in Seq(Threads) /\ Len(q) \in Nat /\ DOMAIN q = 1 .. Len(q)
  BY DEF Line
<1>2. /\ \A i \in 1 .. Len(q) : q[i] \in Threads /\ q[i] \in ToSet(q)
      /\ \A u \in ToSet(q) : u \in Threads /\ \E i \in 1 .. Len(q) : q[i] = u
  BY <1>1 DEF ToSet
<1>3. q = <<>> <=> Len(q) = 0
  BY <1>1
<1>4. ToSet(q) = {} <=> Len(q) = 0
  <2>1. Len(q) = 0 => ToSet(q) = {}
    BY <1>1 DEF ToSet
  <2>2. Len(q) # 0 => q[1] \in ToSet(q)
    BY <1>1, <1>2
  <2> QED BY <2>1, <2>2
<1> QED BY <1>1, <1>2, <1>3, <1>4

LEMMA EmptyLine == Line(<<>>) /\ ToSet(<<>>) = {}
<1>1. Line(<<>>)
  BY DEF Line
<1> QED BY <1>1, LineFacts

LEMMA Joins ==
    ASSUME NEW q, Line(q), NEW t \in Threads, t \notin ToSet(q)
    PROVE  /\ Line(Append(q, t)) /\ ToSet(Append(q, t)) = ToSet(q) \cup {t}
           /\ Append(q, t) # <<>>
           /\ Head(Append(q, t)) = IF q = <<>> THEN t ELSE Head(q)
<1> DEFINE r == Append(q, t)
<1>1. /\ q \in Seq(Threads) /\ Len(q) \in Nat /\ DOMAIN q = 1 .. Len(q)
      /\ \A i \in 1 .. Len(q) : q[i] \in ToSet(q) /\ q[i] # t
  BY LineFacts
<1>2. /\ r \in Seq(Threads) /\ Len(r) = Len(q) + 1
      /\ DOMAIN r = 1 .. Len(q) + 1
      /\ r[Len(q) + 1] = t /\ \A i \in 1 .. Len(q) : r[i] = q[i]
  BY <1>1
<1>3. r # <<>> /\ Head(r) = IF q = <<>> THEN t ELSE Head(q)
  BY <1>1, <1>2
<1> HIDE DEF r
<1>4. Line(r)
  <2> SUFFICES ASSUME NEW i \in 1 .. Len(r), NEW j \in 1 .. Len(r), r[i] = r[j]
               PROVE  i = j
    BY <1>2 DEF Line
  <2>1. /\ i = Len(q) + 1 \/ i \in 1 .. Len(q)
        /\ j = Len(q) + 1 \/ j \in 1 .. Len(q)
    BY <1>1, <1>2
  <2> QED BY <1>1, <1>2, <2>1 DEF Line
<1>5. ToSet(r) = ToSet(q) \cup {t}
  <2>1. \A i \in DOMAIN r : i = Len(q) + 1 \/ i \in 1 .. Len(q)
    BY <1>1, <1>2
  <2>2. \A i \in 1 .. Len(q) : i \in DOMAIN r
    BY <1>1, <1>2
  <2>3. Len(q) + 1 \in DOMAIN r
    BY <1>1, <1>2
  <2> QED BY <1>1, <1>2, <2>1, <2>2, <2>3 DEF ToSet
<1> QED BY <1>3, <1>4, <1>5 DEF r

LEMMA Leaves ==
    ASSUME NEW q, Line(q), q # <<>>
    PROVE  /\ Line(Tail(q)) /\ ToSet(Tail(q)) = ToSet(q) \ {Head(q)}
           /\ Head(q) \in Threads /\ Head(q) \in ToSet(q)
           /\ Len(q) \in Nat /\ Len(Tail(q)) = Len(q) - 1
<1> DEFINE r == Tail(q)
<1>1. /\ q \in Seq(Threads) /\ Len(q) \in Nat /\ DOMAIN q = 1 .. Len(q)
      /\ Len(q) # 0
      /\ \A i \in 1 .. Len(q) : q[i] \in ToSet(q) /\ q[i] \in Threads
  BY LineFacts
<1>2. /\ r \in Seq(Threads) /\ Len(r) = Len(q) - 1
      /\ DOMAIN r = 1 .. Len(q) - 1
      /\ Head(q) = q[1] /\ \A i \in 1 .. Len(q) - 1 : r[i] = q[i + 1]
  BY <1>1
<1> HIDE DEF r
<1>3. \A i \in 1 .. Len(q) - 1 : i + 1 \in 1 .. Len(q) /\ i + 1 # 1
  BY <1>1
<1>4. Line(r)
  <2> SUFFICES ASSUME NEW i \in 1 .. Len(r), NEW j \in 1 .. Len(r), r[i] = r[j]
               PROVE  i = j
    BY <1>2 DEF Line
  <2>1. i + 1 = j + 1
    BY <1>1, <1>2, <1>3 DEF Line
  <2> QED BY <1>1, <1>2, <2>1
<1>5. ToSet(r) = ToSet(q) \ {Head(q)}
  <2>1. ASSUME NEW u \in ToSet(r) PROVE u \in ToSet(q) \ {Head(q)}
    <3>1. PICK i \in 1 .. Len(q) - 1 : r[i] = u
      BY <1>2 DEF ToSet
    <3>2. q[i + 1] = u /\ i + 1 \in 1 .. Len(q) /\ i + 1 # 1 /\ 1 \in 1 .. Len(q)
      BY <1>1, <1>2, <1>3, <3>1
    <3> QED BY <1>1, <1>2, <3>2 DEF Line
  <2>2. ASSUME NEW u \in ToSet(q), u # Head(q) PROVE u \in ToSet(r)
    <3>1. PICK i \in 1 .. Len(q) : q[i] = u
      BY LineFacts
    <3>2. i - 1 \in 1 .. Len(q) - 1 /\ (i - 1) + 1 = i
      BY <1>1, <1>2, <2>2, <3>1
    <3>3. i - 1 \in DOMAIN r /\ r[i - 1] = u
      BY <1>2, <3>1, <3>2
    <3> QED BY <3>3 DEF ToSet
  <2> QED BY <2>1, <2>2
<1>6. 1 \in 1 .. Len(q)
  BY <1>1
<1> QED BY <1>1, <1>2, <1>4, <1>5, <1>6 DEF r

-----------------------------------------------------------------------------
(* The spinlocks *)

LEMMA SpinJoin ==
    ASSUME Queues, Types, NEW t \in Threads, NEW lock \in SpinLocks,
           t \notin ToSet(spin[lock]),
           spin' = [spin EXCEPT ![lock] = Append(@, t)]
    PROVE  /\ spin' \in [SpinLocks -> Seq(Threads)]
           /\ \A l \in SpinLocks :
                 /\ Line(spin'[l])
                 /\ ToSet(spin'[l]) =
                        IF l = lock THEN ToSet(spin[l]) \cup {t} ELSE ToSet(spin[l])
                 /\ \A u \in Threads : Turn(u, l) => Turn(u, l)'
<1>1. spin \in [SpinLocks -> Seq(Threads)] /\ Line(spin[lock])
  BY DEF Types, SyncTypeOK, Queues
<1>2. spin' \in [SpinLocks -> Seq(Threads)] /\ spin'[lock] = Append(spin[lock], t)
  BY <1>1
<1>3. \A l \in SpinLocks : l # lock => spin'[l] = spin[l]
  BY <1>1
<1>4. /\ Line(spin'[lock]) /\ ToSet(spin'[lock]) = ToSet(spin[lock]) \cup {t}
      /\ spin'[lock] # <<>>
      /\ spin[lock] # <<>> => Head(spin'[lock]) = Head(spin[lock])
  BY <1>1, <1>2, Joins
<1> QED BY <1>2, <1>3, <1>4 DEF Queues, Turn

LEMMA SpinLeave ==
    ASSUME Queues, Types, NEW t \in Threads, NEW lock \in SpinLocks,
           Turn(t, lock), SpinUnlock(lock)
    PROVE  /\ spin' \in [SpinLocks -> Seq(Threads)]
           /\ \A l \in SpinLocks :
                 /\ Line(spin'[l])
                 /\ ToSet(spin'[l]) =
                        IF l = lock THEN ToSet(spin[l]) \ {t} ELSE ToSet(spin[l])
                 /\ l # lock => \A u \in Threads : Turn(u, l)' <=> Turn(u, l)
<1>1. /\ spin \in [SpinLocks -> Seq(Threads)] /\ Line(spin[lock])
      /\ spin[lock] # <<>> /\ Head(spin[lock]) = t
  BY DEF Types, SyncTypeOK, Queues, Turn
<1>2. spin' \in [SpinLocks -> Seq(Threads)] /\ spin'[lock] = Tail(spin[lock])
  BY <1>1 DEF SpinUnlock
<1>3. \A l \in SpinLocks : l # lock => spin'[l] = spin[l]
  BY <1>1 DEF SpinUnlock
<1>4. Line(spin'[lock]) /\ ToSet(spin'[lock]) = ToSet(spin[lock]) \ {t}
  BY <1>1, <1>2, Leaves
<1> QED BY <1>2, <1>3, <1>4 DEF Queues, Turn

LEMMA LeaveLemma ==
    ASSUME Types, NEW t \in Threads, Leave(t)
    PROVE  /\ target' \in [Threads -> Threads \cup {None, Trampled}]
           /\ \A u \in Threads :
                 \/ target'[u] = target[u]
                 \/ pc[u] \in LateReaders /\ target[u] = t /\ target'[u] = Trampled
BY DEF Types, SyncTypeOK, Leave

LEMMA CallKeeps ==
    ASSUME IInv, NEW t \in Threads, NEW lock, NEW label, NEW back,
           Call(t, lock, label, back), t \notin asleep,
           \/ pc[t] = "out" /\ lock = "mp" /\ label = "l_spin" /\ back = "crit"
           \/ pc[t] = "crit" /\ lock = "mp" /\ label = "u_spin" /\ back = "out"
           \/ pc[t] = "crit" /\ lock = "cv" /\ label = "c_spin" /\ back = "c_park"
           \/ /\ pc[t] \in {"out", "crit"} /\ back = pc[t]
              /\ lock = "cv" /\ label \in {"s_spin", "b_spin"}
           \/ /\ pc[t] = "c_wait" /\ reject[t]
              /\ lock = "mp" /\ label = "k_spin" /\ back = "crit"
           \/ pc[t] = "out" /\ lock = "sem" /\ label = "sw_spin" /\ back = "s_in"
           \/ pc[t] = "s_in" /\ lock = "sem" /\ label = "ss_spin" /\ back = "out"
           \/ pc[t] = "out" /\ lock = "rw" /\ label \in {"rl_spin", "wl_spin"} /\ back = "out"
           \/ /\ lock = "rw" /\ label = "dg_spin"
              /\ \/ pc[t] \in {"out", "r_in"} /\ back = pc[t]
                 \/ pc[t] = "w_in" /\ back = "r_in"
           \/ /\ pc[t] \in {"out", "r_in", "w_in"}
              /\ lock = "rw" /\ label = "ul_spin" /\ back = "out",
           UNCHANGED <<condVars, semVars, rwVars>>
    PROVE  IInv'
<1>1. /\ pc'[t] = label /\ home'[t] = back
      /\ \A u \in Threads \ {t} : pc'[u] = pc[u] /\ home'[u] = home[u]
      /\ DOMAIN pc' = Threads /\ DOMAIN home' = Threads
  BY DEF IInv, Types, Call, Goto
<1>2. /\ asleep' = asleep /\ reject' = reject /\ target' = target
      /\ mowner' = mowner /\ mqueue' = mqueue /\ cvq' = cvq
      /\ count' = count /\ semq' = semq
      /\ rwstate' = rwstate /\ writer' = writer /\ writers' = writers
      /\ rwaiting' = rwaiting /\ rreading' = rreading /\ todo' = todo
      /\ spin' = [spin EXCEPT ![lock] = Append(@, t)]
  BY DEF Call, condVars, mutexVars, semVars, rwVars
<1>3. lock \in SpinLocks /\ t \notin ToSet(spin[lock])
  BY DEF IInv, Spinning, SpinLocks, HoldsCv, Parks, Broadcasts
<1>4. /\ spin' \in [SpinLocks -> Seq(Threads)]
      /\ \A l \in SpinLocks :
            /\ Line(spin'[l])
            /\ ToSet(spin'[l]) =
                   IF l = lock THEN ToSet(spin[l]) \cup {t} ELSE ToSet(spin[l])
            /\ \A u \in Threads : Turn(u, l) => Turn(u, l)'
  BY <1>2, <1>3, SpinJoin DEF IInv
<1>5. Queues' /\ Types'
  BY <1>1, <1>2, <1>3, <1>4 DEF IInv, Queues, Types, SyncTypeOK
<1>6. Homes'
  BY <1>1, <1>2, <1>3, <1>4 DEF IInv, Homes
<1>7. Spinning'
  <2>1. \A u \in Threads : (HoldsCv(u)' <=> HoldsCv(u)) /\ (Broadcasts(u)' <=> Broadcasts(u))
    BY <1>1 DEF HoldsCv, Parks, Broadcasts
  <2>2. ASSUME NEW u \in Threads
        PROVE  /\ u \in ToSet(spin'["mp"]) <=> pc'[u] \in {"l_spin", "k_spin", "u_spin"}
               /\ u \in ToSet(spin'["sem"]) <=> pc'[u] \in {"sw_spin", "ss_spin"}
    BY <1>1, <1>4 DEF IInv, Spinning, SpinLocks
  <2>3. ASSUME NEW u \in Threads
        PROVE  u \in ToSet(spin'["cv"]) <=>
                   pc'[u] \in {"c_spin", "s_spin", "b_spin"} \/ HoldsCv(u)'
    BY <1>1, <1>4, <2>1 DEF IInv, Spinning, SpinLocks
  <2>4. ASSUME NEW u \in Threads
        PROVE  u \in ToSet(spin'["rw"]) <=>
                   \/ pc'[u] \in {"rl_spin", "wl_spin", "ul_spin", "dg_spin"}
                   \/ Broadcasts(u)'
    BY <1>1, <1>4, <2>1 DEF IInv, Spinning, SpinLocks
  <2>5. ASSUME NEW u \in Threads
        PROVE  (HoldsCv(u)' => Turn(u, "cv")') /\ (Broadcasts(u)' => Turn(u, "rw")')
    BY <1>4, <2>1 DEF IInv, Spinning, SpinLocks
  <2> QED BY <2>2, <2>3, <2>4, <2>5 DEF Spinning
<1>8. MutexInv'
  BY <1>1, <1>2, <1>3, <1>4 DEF IInv, MutexInv, HasMutex, OnMqueue
<1>9. CondInv'
  BY <1>1, <1>2, <1>3, <1>4 DEF IInv, CondInv, Parks, OnCvq
<1>10. SemInv'
  <2>1. Permitted' = Permitted
    BY <1>1, <1>2, <1>3, <1>4 DEF Permitted
  <2> QED BY <1>1, <1>2, <1>3, <1>4, <2>1 DEF IInv, SemInv
<1>11. WakeInv'
  <2>1. \A u \in Threads : u # t => (Queued(u)' <=> Queued(u)) /\ (Waiting(u)' <=> Waiting(u))
    BY <1>1, <1>2 DEF Queued, Waiting, OnMqueue, OnCvq
  <2>2. ~Waiting(t)' /\ pc'[t] # "r_wait"
    BY <1>1 DEF Waiting
  <2>3. \A u \in Threads : Posting(u)' <=> Posting(u)
    BY <1>1 DEF Posting
  <2>4. \A u \in Threads : Dequeued(u)' <=> Dequeued(u)
    BY <1>1, <1>2 DEF Dequeued
  <2>5. \A u \in Threads : Posting(u) => target[u] # t
    BY <1>1 DEF IInv, WakeInv, Waiting, Queued
  <2>6. \A u \in Threads : pc[u] \in {"wake", "b_wake", "late_wake", "bc_wake"} => u # t
    BY <1>1
  <2> QED BY <1>1, <1>2, <2>1, <2>2, <2>3, <2>4, <2>5, <2>6 DEF IInv, WakeInv
<1>12. ReaderInv'
  <2>1. AbsReaders' = AbsReaders /\ AbsWriter' = AbsWriter /\ Rest' = Rest
    BY <1>1, <1>2 DEF AbsReaders, AbsWriter, Broadcasting, Rest
  <2>2. pc[t] = "w_in" => AbsWriter = t
    BY DEF IInv, WriterInv, StateInv, Broadcasts, AbsWriter, Broadcasting
  <2>3. \A u \in Threads : LetIn(u) => LetIn(u)'
    BY <1>1, <1>2 DEF LetIn
  <2> QED BY <1>1, <1>2, <2>1, <2>2, <2>3 DEF IInv, ReaderInv
<1>13. WriterInv' /\ StateInv'
  BY <1>1, <1>2, <1>3, <1>4 DEF IInv, WriterInv, StateInv, Broadcasts
<1> QED
  BY <1>5, <1>6, <1>7, <1>8, <1>9, <1>10, <1>11, <1>12, <1>13
  DEF IInv

LEMMA DescheduleKeeps ==
    ASSUME IInv, NEW t \in Threads, Deschedule(t),
           pc[t] \in {"l_wait", "k_wait", "c_wait", "s_wait", "r_wait", "w_wait"},
           UNCHANGED <<condVars, semVars, rwVars>>
    PROVE  IInv'
<1>1. /\ asleep' = asleep \cup {t} /\ ~reject[t]
      /\ spin' = spin /\ reject' = reject /\ target' = target
      /\ pc' = pc /\ home' = home
  BY DEF Deschedule
<1>2. /\ mowner' = mowner /\ mqueue' = mqueue /\ cvq' = cvq
      /\ count' = count /\ semq' = semq
      /\ rwstate' = rwstate /\ writer' = writer /\ writers' = writers
      /\ rwaiting' = rwaiting /\ rreading' = rreading /\ todo' = todo
  BY DEF condVars, mutexVars, semVars, rwVars
<1>3. Queues' /\ Types'
  BY <1>1, <1>2 DEF IInv, Queues, Types, SyncTypeOK
<1>4. Homes' /\ Spinning' /\ MutexInv' /\ CondInv'
  BY <1>1, <1>2
  DEF IInv, Homes, Spinning, HoldsCv, Parks, Broadcasts, Turn, MutexInv,
         HasMutex, OnMqueue, CondInv, OnCvq
<1>5. SemInv' /\ ReaderInv' /\ WriterInv' /\ StateInv'
  BY <1>1, <1>2
  DEF IInv, SemInv, Permitted, ReaderInv, Rest, LetIn, AbsReaders,
         AbsWriter, Broadcasting, WriterInv, StateInv, Broadcasts
<1>6. WakeInv'
  BY <1>1, <1>2 DEF IInv, WakeInv, Waiting, Posting, Queued, Dequeued,
         OnMqueue, OnCvq
<1> QED
  BY <1>3, <1>4, <1>5, <1>6 DEF IInv

LEMMA ReturnKeeps ==
    ASSUME IInv, NEW t \in Threads, NEW label, NEW next, Waits(t, label, next), reject[t],
           \/ label \in {"l_wait", "k_wait"} /\ next = "crit"
           \/ label = "s_wait" /\ next = "s_in"
           \/ label = "r_wait" /\ next = "r_in"
           \/ label = "w_wait" /\ next = "w_in",
           UNCHANGED <<condVars, semVars, rwVars>>
    PROVE  IInv'
<1>1. /\ pc[t] = label /\ t \notin asleep /\ pc'[t] = next /\ ~reject'[t]
      /\ \A u \in Threads \ {t} : pc'[u] = pc[u] /\ reject'[u] = reject[u]
      /\ DOMAIN pc' = Threads /\ reject' \in [Threads -> BOOLEAN]
  BY DEF IInv, Types, SyncTypeOK, Waits, At, Deschedule, Goto
<1>2. /\ spin' = spin /\ asleep' = asleep /\ home' = home
      /\ mowner' = mowner /\ mqueue' = mqueue /\ cvq' = cvq
      /\ count' = count /\ semq' = semq
      /\ rwstate' = rwstate /\ writer' = writer /\ writers' = writers
      /\ rwaiting' = rwaiting /\ rreading' = rreading /\ todo' = todo
  BY DEF Waits, Deschedule, condVars, mutexVars, semVars, rwVars
<1>3. Leave(t)
  BY DEF Waits, Deschedule
<1>4. /\ target' \in [Threads -> Threads \cup {None, Trampled}]
      /\ \A u \in Threads :
            \/ target'[u] = target[u]
            \/ pc[u] \in LateReaders /\ target[u] = t /\ target'[u] = Trampled
  BY <1>3, LeaveLemma DEF IInv
<1>5. t \notin ToSet(semq)
  BY DEF IInv, SemInv
<1>6. Queues' /\ Types'
  BY <1>1, <1>2, <1>3, <1>4, <1>5 DEF IInv, Queues, Types, SyncTypeOK
<1>7. Homes'
  BY <1>1, <1>2, <1>3, <1>4, <1>5 DEF IInv, Homes
<1>8. Spinning'
  BY <1>1, <1>2, <1>3, <1>4, <1>5
  DEF IInv, Spinning, HoldsCv, Parks, Broadcasts, SpinLocks, Turn
<1>9. MutexInv'
  BY <1>1, <1>2, <1>3, <1>4, <1>5 DEF IInv, MutexInv, HasMutex, OnMqueue
<1>10. CondInv'
  BY <1>1, <1>2, <1>3, <1>4, <1>5 DEF IInv, CondInv, Parks, OnCvq
<1>11. SemInv'
  <2>1. Permitted' = Permitted
    BY <1>1, <1>2, <1>3, <1>4, <1>5 DEF Permitted
  <2> QED BY <1>1, <1>2, <1>3, <1>4, <1>5, <2>1 DEF IInv, SemInv
<1>12. WakeInv'
  BY <1>1, <1>2, <1>3, <1>4, <1>5
  DEF IInv, WakeInv, Waiting, Posting, Queued, Dequeued,
         OnMqueue, OnCvq, LateReaders
<1>13. ReaderInv'
  <2>1. AbsReaders' = AbsReaders /\ AbsWriter' = AbsWriter /\ Rest' = Rest
    BY <1>1, <1>2 DEF AbsReaders, AbsWriter, Broadcasting, Rest
  <2>2. LetIn(t)' <=> LetIn(t)
    BY <1>1, <1>2 DEF LetIn
  <2>3. \A u \in Threads : u # t => (LetIn(u)' <=> LetIn(u))
    BY <1>1, <1>2 DEF LetIn
  <2>4. label = "r_wait" => t \in AbsReaders
    BY <1>1, EmptyLine DEF IInv, ReaderInv, StateInv, AbsReaders, Broadcasting
  <2>5. label = "r_wait" => LetIn(t)
    BY <1>1 DEF LetIn
  <2> QED BY <1>1, <1>2, <2>1, <2>2, <2>3, <2>4, <2>5 DEF IInv, ReaderInv
<1>14. WriterInv' /\ StateInv'
  BY <1>1, <1>2, <1>3, <1>4, <1>5 DEF IInv, WriterInv, StateInv, Broadcasts
<1> QED
  BY <1>6, <1>7, <1>8, <1>9, <1>10, <1>11, <1>12, <1>13, <1>14
  DEF IInv

(* t takes w out of a queue, to wake it. *)
LEMMA DequeueKeepsWakeInv ==
    ASSUME WakeInv, NEW t \in Threads, NEW w \in Threads,
           Queued(w), ~Queued(w)', Waiting(w), ~reject[w],
           \A u \in Threads : u # w => (Queued(u)' <=> Queued(u)),
           pc[t] \in {"u_spin", "s_spin", "ss_spin", "ul_spin"},
           pc'[t] \in {"post", "late_post"}, target'[t] = w,
           \A u \in Threads : u # t => pc'[u] = pc[u] /\ target'[u] = target[u],
           t \notin asleep, asleep' = asleep, reject' = reject, todo' = todo
    PROVE  WakeInv'
<1>1. Posting(t)' /\ ~Posting(t) /\ ~Waiting(t) /\ ~Waiting(t)' /\ t # w /\ Dequeued(w)'
  BY DEF Posting, Waiting, Dequeued
<1>2. \A u \in Threads :
         u # t => (Posting(u)' <=> Posting(u)) /\ (Waiting(u)' <=> Waiting(u))
  BY DEF Posting, Waiting
<1>3. \A u \in Threads : Dequeued(u) => Dequeued(u)'
  BY DEF Dequeued
<1>4. \A u \in Threads : Posting(u) => target[u] # w /\ target[u] # t
  BY <1>1 DEF WakeInv
<1>5. \A u \in Threads : pc[u] \in {"wake", "b_wake", "late_wake", "bc_wake"} => u # t
  OBVIOUS
<1> QED BY <1>1, <1>2, <1>3, <1>4, <1>5 DEF WakeInv

LEMMA LockTakeKeeps ==
    ASSUME IInv, NEW t \in Threads, t \notin asleep, pc[t] \in {"l_spin", "k_spin"},
           Turn(t, "mp"), LockTake(t), SpinUnlock("mp"),
           UNCHANGED <<asleep, home, cvq, semVars, rwVars>>
    PROVE  IInv'
<1>1. /\ pc'[t] = "crit"
      /\ \A u \in Threads \ {t} : pc'[u] = pc[u]
      /\ DOMAIN pc' = Threads
      /\ ~reject'[t] /\ \A u \in Threads \ {t} : reject'[u] = reject[u]
      /\ reject' \in [Threads -> BOOLEAN]
      /\ mowner = None /\ mowner' = t /\ mqueue' = mqueue /\ mqueue = <<>>
  BY DEF IInv, Types, SyncTypeOK, MutexInv, LockTake, Goto
<1>2. /\ asleep' = asleep /\ home' = home
      /\ cvq' = cvq
      /\ count' = count /\ semq' = semq
      /\ rwstate' = rwstate /\ writer' = writer /\ writers' = writers
      /\ rwaiting' = rwaiting /\ rreading' = rreading /\ todo' = todo
  BY DEF semVars, rwVars
<1>3. /\ spin' \in [SpinLocks -> Seq(Threads)]
      /\ \A l \in SpinLocks :
            /\ Line(spin'[l])
            /\ ToSet(spin'[l]) =
                   IF l = "mp" THEN ToSet(spin[l]) \ {t} ELSE ToSet(spin[l])
            /\ l # "mp" => \A u \in Threads : Turn(u, l)' <=> Turn(u, l)
  BY SpinLeave DEF IInv, SpinLocks
<1>4. /\ target' \in [Threads -> Threads \cup {None, Trampled}]
      /\ \A u \in Threads :
            \/ target'[u] = target[u]
            \/ pc[u] \in LateReaders /\ target[u] = t /\ target'[u] = Trampled
  BY LeaveLemma DEF IInv, LockTake
<1>5. ToSet(mqueue) = {} /\ \A u \in Threads : ~HasMutex(u)
  BY <1>1, EmptyLine, USyncAssumption DEF IInv, MutexInv
<1>6. Queues' /\ Types'
  BY <1>1, <1>2, <1>3, <1>4, <1>5 DEF IInv, Queues, Types, SyncTypeOK
<1>7. Homes'
  BY <1>1, <1>2 DEF IInv, Homes
<1>8. Spinning'
  <2>1. \A u \in Threads : HoldsCv(u)' <=> HoldsCv(u)
    BY <1>1, <1>2 DEF HoldsCv, Parks
  <2>2. \A u \in Threads : Broadcasts(u)' <=> Broadcasts(u)
    BY <1>1, <1>2 DEF Broadcasts
  <2>3. ASSUME NEW u \in Threads
        PROVE  /\ u \in ToSet(spin'["mp"]) <=> pc'[u] \in {"l_spin", "k_spin", "u_spin"}
               /\ u \in ToSet(spin'["sem"]) <=> pc'[u] \in {"sw_spin", "ss_spin"}
    BY <1>1, <1>3 DEF IInv, Spinning, SpinLocks
  <2>4. ASSUME NEW u \in Threads
        PROVE  u \in ToSet(spin'["cv"]) <=>
                   pc'[u] \in {"c_spin", "s_spin", "b_spin"} \/ HoldsCv(u)'
    BY <1>1, <1>3, <1>4, <2>1 DEF IInv, Spinning, SpinLocks
  <2>5. ASSUME NEW u \in Threads
        PROVE  u \in ToSet(spin'["rw"]) <=>
                   \/ pc'[u] \in {"rl_spin", "wl_spin", "ul_spin", "dg_spin"}
                   \/ Broadcasts(u)'
    BY <1>1, <1>3, <1>4, <2>2 DEF IInv, Spinning, SpinLocks
  <2>6. ASSUME NEW u \in Threads
        PROVE  (HoldsCv(u)' => Turn(u, "cv")') /\ (Broadcasts(u)' => Turn(u, "rw")')
    BY <1>1, <1>3, <1>4, <2>1, <2>2 DEF IInv, Spinning, SpinLocks
  <2> QED BY <2>3, <2>4, <2>5, <2>6 DEF Spinning
<1>9. MutexInv'
  BY <1>1, <1>2, <1>3, <1>4, <1>5 DEF IInv, MutexInv, HasMutex, OnMqueue
<1>10. CondInv'
  BY <1>1, <1>2 DEF IInv, CondInv, Parks, OnCvq
<1>11. SemInv'
  <2>1. Permitted' = Permitted
    BY <1>1, <1>2 DEF Permitted
  <2> QED BY <1>1, <1>2, <2>1 DEF IInv, SemInv
<1>12. WakeInv'
  <2>1. \A u \in Threads : (Queued(u)' <=> Queued(u)) /\ (Waiting(u)' <=> Waiting(u))
    BY <1>1, <1>2 DEF Queued, Waiting, OnMqueue, OnCvq
  <2>2. \A u \in Threads : Posting(u)' <=> Posting(u)
    BY <1>1 DEF Posting
  <2>3. \A u \in Threads : Posting(u) => target'[u] = target[u] /\ target[u] # t
    BY <1>1, <1>4 DEF IInv, WakeInv, Posting, Waiting, LateReaders
  <2>4. \A u \in Threads : Dequeued(u)' <=> Dequeued(u)
    BY <1>1, <2>3, <1>4 DEF Dequeued, LateReaders
  <2>5. \A u, v \in Threads : target[u] = v /\ v # t => target'[u] = v
    BY <1>4
  <2>6. ~Waiting(t) /\ t \notin asleep
    BY <1>1 DEF Waiting
  <2> QED BY <1>1, <1>2, <2>1, <2>2, <2>3, <2>4, <2>5, <2>6 DEF IInv, WakeInv
<1>13. ReaderInv'
  <2>1. AbsReaders' = AbsReaders /\ AbsWriter' = AbsWriter /\ Rest' = Rest
    BY <1>1, <1>2 DEF AbsReaders, AbsWriter, Broadcasting, Rest
  <2>2. \A u \in Threads : LetIn(u)' <=> LetIn(u)
    BY <1>1, <1>2 DEF LetIn
  <2> QED BY <1>1, <1>2, <2>1, <2>2 DEF IInv, ReaderInv
<1>14. WriterInv' /\ StateInv'
  BY <1>1, <1>2 DEF IInv, WriterInv, StateInv, Broadcasts
<1> QED
  BY <1>6, <1>7, <1>8, <1>9, <1>10, <1>11, <1>12, <1>13, <1>14
  DEF IInv

LEMMA LockEnqueueKeeps ==
    ASSUME IInv, NEW t \in Threads, t \notin asleep, pc[t] \in {"l_spin", "k_spin"},
           Turn(t, "mp"), LockEnqueue(t), SpinUnlock("mp"),
           UNCHANGED <<asleep, home, cvq, semVars, rwVars>>
    PROVE  IInv'
<1>1. /\ \/ pc[t] = "l_spin" /\ pc'[t] = "l_wait"
         \/ pc[t] = "k_spin" /\ pc'[t] = "k_wait"
      /\ \A u \in Threads \ {t} : pc'[u] = pc[u]
      /\ DOMAIN pc' = Threads
      /\ ~reject'[t] /\ \A u \in Threads \ {t} : reject'[u] = reject[u]
      /\ reject' \in [Threads -> BOOLEAN]
      /\ mowner # None /\ mowner' = mowner /\ mqueue' = Append(mqueue, t)
  BY DEF IInv, Types, SyncTypeOK, LockEnqueue, Goto, WaitLabel
<1>2. /\ asleep' = asleep /\ home' = home /\ target' = target
      /\ cvq' = cvq
      /\ count' = count /\ semq' = semq
      /\ rwstate' = rwstate /\ writer' = writer /\ writers' = writers
      /\ rwaiting' = rwaiting /\ rreading' = rreading /\ todo' = todo
  BY DEF LockEnqueue, semVars, rwVars
<1>3. /\ spin' \in [SpinLocks -> Seq(Threads)]
      /\ \A l \in SpinLocks :
            /\ Line(spin'[l])
            /\ ToSet(spin'[l]) =
                   IF l = "mp" THEN ToSet(spin[l]) \ {t} ELSE ToSet(spin[l])
            /\ l # "mp" => \A u \in Threads : Turn(u, l)' <=> Turn(u, l)
  BY SpinLeave DEF IInv, SpinLocks
<1>4. t \notin ToSet(mqueue) /\ mowner # t /\ \A u \in Threads : Posting(u) => target[u] # t
  BY DEF IInv, MutexInv, HasMutex, OnMqueue, WakeInv, Waiting, Posting
<1>5. Line(mqueue') /\ ToSet(mqueue') = ToSet(mqueue) \cup {t}
  BY <1>1, <1>4, Joins DEF IInv, Queues
<1>6. Queues' /\ Types'
  BY <1>1, <1>2, <1>3, <1>4, <1>5 DEF IInv, Queues, Types, SyncTypeOK
<1>7. Homes'
  BY <1>1, <1>2 DEF IInv, Homes
<1>8. Spinning'
  <2>1. \A u \in Threads : HoldsCv(u)' <=> HoldsCv(u)
    BY <1>1, <1>2 DEF HoldsCv, Parks
  <2>2. \A u \in Threads : Broadcasts(u)' <=> Broadcasts(u)
    BY <1>1, <1>2 DEF Broadcasts
  <2> QED BY <1>1, <1>2, <1>3, <2>1, <2>2 DEF IInv, Spinning, SpinLocks
<1>9. MutexInv'
  BY <1>1, <1>2, <1>3, <1>4, <1>5 DEF IInv, MutexInv, HasMutex, OnMqueue
<1>10. CondInv'
  BY <1>1, <1>2 DEF IInv, CondInv, Parks, OnCvq
<1>11. SemInv'
  <2>1. Permitted' = Permitted
    BY <1>1, <1>2 DEF Permitted
  <2> QED BY <1>1, <1>2, <2>1 DEF IInv, SemInv
<1>12. WakeInv'
  <2>1. Queued(t)' /\ Waiting(t)'
    BY <1>1, <1>2, <1>4, <1>5 DEF Queued, Waiting, OnMqueue
  <2>2. \A u \in Threads : u # t => (Queued(u)' <=> Queued(u)) /\ (Waiting(u)' <=> Waiting(u))
    BY <1>1, <1>2, <1>4, <1>5 DEF Queued, Waiting, OnMqueue, OnCvq
  <2>3. \A u \in Threads : (Posting(u)' <=> Posting(u)) /\ (Dequeued(u)' <=> Dequeued(u))
    BY <1>1, <1>2, <1>4, <1>5 DEF Posting, Dequeued
  <2> QED BY <1>1, <1>2, <1>4, <1>5, <2>1, <2>2, <2>3 DEF IInv, WakeInv
<1>13. ReaderInv'
  <2>1. AbsReaders' = AbsReaders /\ AbsWriter' = AbsWriter /\ Rest' = Rest
    BY <1>1, <1>2 DEF AbsReaders, AbsWriter, Broadcasting, Rest
  <2>2. \A u \in Threads : LetIn(u)' <=> LetIn(u)
    BY <1>1, <1>2 DEF LetIn
  <2> QED BY <1>1, <1>2, <2>1, <2>2 DEF IInv, ReaderInv
<1>14. WriterInv' /\ StateInv'
  BY <1>1, <1>2 DEF IInv, WriterInv, StateInv, Broadcasts
<1> QED
  BY <1>6, <1>7, <1>8, <1>9, <1>10, <1>11, <1>12, <1>13, <1>14
  DEF IInv

LEMMA UnlockFreeKeeps ==
    ASSUME IInv, NEW t \in Threads, At(t, "u_spin"), Turn(t, "mp"),
           UnlockFree(t), SpinUnlock("mp"),
           UNCHANGED <<asleep, reject, home, cvq, semVars, rwVars>>
    PROVE  IInv'
<1>1. /\ t \notin asleep /\ pc[t] = "u_spin" /\ pc'[t] = home[t]
      /\ home[t] \in {"out", "c_park"}
      /\ \A u \in Threads \ {t} : pc'[u] = pc[u]
      /\ DOMAIN pc' = Threads
      /\ mowner = t /\ mowner' = None /\ mqueue' = mqueue /\ ToSet(mqueue) = {}
  BY EmptyLine
  DEF IInv, Types, SyncTypeOK, Homes, MutexInv, HasMutex, UnlockFree, Goto, At
<1>2. /\ mqueue = <<>> /\ asleep' = asleep /\ home' = home /\ target' = target
      /\ reject' = reject
      /\ cvq' = cvq
      /\ count' = count /\ semq' = semq
      /\ rwstate' = rwstate /\ writer' = writer /\ writers' = writers
      /\ rwaiting' = rwaiting /\ rreading' = rreading /\ todo' = todo
  BY DEF UnlockFree, semVars, rwVars
<1>3. /\ spin' \in [SpinLocks -> Seq(Threads)]
      /\ \A l \in SpinLocks :
            /\ Line(spin'[l])
            /\ ToSet(spin'[l]) =
                   IF l = "mp" THEN ToSet(spin[l]) \ {t} ELSE ToSet(spin[l])
            /\ l # "mp" => \A u \in Threads : Turn(u, l)' <=> Turn(u, l)
  BY SpinLeave DEF IInv, SpinLocks
<1>4. None \notin Threads
  BY USyncAssumption
<1>5. Queues' /\ Types'
  BY <1>1, <1>2, <1>3, <1>4 DEF IInv, Queues, Types, SyncTypeOK
<1>6. Homes'
  BY <1>1, <1>2 DEF IInv, Homes
<1>7. Spinning'
  <2>1. \A u \in Threads : HoldsCv(u)' <=> HoldsCv(u)
    BY <1>1, <1>2 DEF HoldsCv, Parks
  <2>2. \A u \in Threads : Broadcasts(u)' <=> Broadcasts(u)
    BY <1>1, <1>2 DEF Broadcasts
  <2> QED BY <1>1, <1>2, <1>3, <2>1, <2>2 DEF IInv, Spinning, SpinLocks
<1>8. MutexInv'
  BY <1>1, <1>2, <1>3, <1>4 DEF IInv, MutexInv, HasMutex, OnMqueue
<1>9. CondInv'
  BY <1>1, <1>2 DEF IInv, CondInv, Parks, OnCvq
<1>10. SemInv'
  <2>1. Permitted' = Permitted
    BY <1>1, <1>2 DEF Permitted
  <2> QED BY <1>1, <1>2, <2>1 DEF IInv, SemInv
<1>11. WakeInv'
  BY <1>1, <1>2, <1>3, <1>4
  DEF IInv, WakeInv, Waiting, Posting, Queued, Dequeued,
         OnMqueue, OnCvq
<1>12. ReaderInv'
  <2>1. AbsReaders' = AbsReaders /\ AbsWriter' = AbsWriter /\ Rest' = Rest
    BY <1>1, <1>2 DEF AbsReaders, AbsWriter, Broadcasting, Rest
  <2>2. \A u \in Threads : LetIn(u)' <=> LetIn(u)
    BY <1>1, <1>2 DEF LetIn
  <2> QED BY <1>1, <1>2, <2>1, <2>2 DEF IInv, ReaderInv
<1>13. WriterInv' /\ StateInv'
  BY <1>1, <1>2 DEF IInv, WriterInv, StateInv, Broadcasts
<1> QED
  BY <1>5, <1>6, <1>7, <1>8, <1>9, <1>10, <1>11, <1>12, <1>13
  DEF IInv

LEMMA UnlockHandOffKeeps ==
    ASSUME IInv, NEW t \in Threads, At(t, "u_spin"), Turn(t, "mp"),
           UnlockHandOff(t), SpinUnlock("mp"),
           UNCHANGED <<asleep, reject, home, cvq, semVars, rwVars>>
    PROVE  IInv'
<1>1. /\ t \notin asleep /\ pc[t] = "u_spin" /\ pc'[t] = "post"
      /\ home[t] \in {"out", "c_park"}
      /\ \A u \in Threads \ {t} : pc'[u] = pc[u]
      /\ DOMAIN pc' = Threads
      /\ mowner = t
  BY
  DEF IInv, Types, SyncTypeOK, Homes, MutexInv, HasMutex, UnlockHandOff, Goto,
      At
<1>2. /\ asleep' = asleep /\ home' = home /\ reject' = reject
      /\ cvq' = cvq
      /\ count' = count /\ semq' = semq
      /\ rwstate' = rwstate /\ writer' = writer /\ writers' = writers
      /\ rwaiting' = rwaiting /\ rreading' = rreading /\ todo' = todo
  BY DEF semVars, rwVars
<1>3. /\ spin' \in [SpinLocks -> Seq(Threads)]
      /\ \A l \in SpinLocks :
            /\ Line(spin'[l])
            /\ ToSet(spin'[l]) =
                   IF l = "mp" THEN ToSet(spin[l]) \ {t} ELSE ToSet(spin[l])
            /\ l # "mp" => \A u \in Threads : Turn(u, l)' <=> Turn(u, l)
  BY SpinLeave DEF IInv, SpinLocks
<1>4. Line(mqueue) /\ mqueue # <<>> /\ mqueue' = Tail(mqueue)
  BY DEF IInv, Queues, UnlockHandOff
<1>5. PICK w \in Threads :
         /\ w \in ToSet(mqueue)
         /\ Line(mqueue') /\ ToSet(mqueue') = ToSet(mqueue) \ {w}
         /\ mowner' = w /\ target' = [target EXCEPT ![t] = w]
  BY <1>4, Leaves DEF UnlockHandOff
<1>6. /\ pc[w] \in {"l_wait", "k_wait"} /\ ~reject[w] /\ w # t
      /\ target' \in [Threads -> Threads \cup {None, Trampled}]
      /\ target'[t] = w /\ \A u \in Threads \ {t} : target'[u] = target[u]
  BY <1>1, <1>5 DEF IInv, Types, SyncTypeOK, MutexInv, OnMqueue
<1>7. Queues' /\ Types'
  BY <1>1, <1>2, <1>3, <1>4, <1>5, <1>6 DEF IInv, Queues, Types, SyncTypeOK
<1>8. Homes'
  BY <1>1, <1>2 DEF IInv, Homes
<1>9. Spinning'
  <2>1. \A u \in Threads : HoldsCv(u)' <=> HoldsCv(u)
    BY <1>1, <1>2 DEF HoldsCv, Parks
  <2>2. \A u \in Threads : Broadcasts(u)' <=> Broadcasts(u)
    BY <1>1, <1>2 DEF Broadcasts
  <2>3. ASSUME NEW u \in Threads
        PROVE  /\ u \in ToSet(spin'["mp"]) <=> pc'[u] \in {"l_spin", "k_spin", "u_spin"}
               /\ u \in ToSet(spin'["sem"]) <=> pc'[u] \in {"sw_spin", "ss_spin"}
    BY <1>1, <1>2, <1>3 DEF IInv, Spinning, SpinLocks
  <2>4. ASSUME NEW u \in Threads
        PROVE  u \in ToSet(spin'["cv"]) <=>
                   pc'[u] \in {"c_spin", "s_spin", "b_spin"} \/ HoldsCv(u)'
    BY <1>1, <1>2, <1>3, <2>1 DEF IInv, Spinning, SpinLocks
  <2>5. ASSUME NEW u \in Threads
        PROVE  u \in ToSet(spin'["rw"]) <=>
                   \/ pc'[u] \in {"rl_spin", "wl_spin", "ul_spin", "dg_spin"}
                   \/ Broadcasts(u)'
    BY <1>1, <1>2, <1>3, <2>2 DEF IInv, Spinning, SpinLocks
  <2>6. ASSUME NEW u \in Threads
        PROVE  (HoldsCv(u)' => Turn(u, "cv")') /\ (Broadcasts(u)' => Turn(u, "rw")')
    BY <1>1, <1>2, <1>3, <2>1, <2>2 DEF IInv, Spinning, SpinLocks
  <2> QED BY <2>3, <2>4, <2>5, <2>6 DEF Spinning
<1>10. MutexInv'
  <2>1. HasMutex(w)' /\ ~HasMutex(t)'
    BY <1>1, <1>2, <1>5, <1>6 DEF HasMutex, OnMqueue
  <2>2. \A u \in Threads : u # w /\ u # t => (HasMutex(u)' <=> HasMutex(u))
    BY <1>1, <1>2, <1>5, <1>6 DEF HasMutex, OnMqueue
  <2> QED
    BY <1>1, <1>2, <1>5, <2>1, <2>2, USyncAssumption
    DEF IInv, MutexInv, OnMqueue
<1>11. CondInv'
  BY <1>1, <1>2 DEF IInv, CondInv, Parks, OnCvq
<1>12. SemInv'
  <2>1. Permitted' = Permitted
    BY <1>1, <1>2 DEF Permitted
  <2> QED BY <1>1, <1>2, <2>1 DEF IInv, SemInv
<1>13. WakeInv'
  <2>1. Queued(w) /\ ~Queued(w)' /\ Waiting(w)
    BY <1>1, <1>5, <1>6 DEF Queued, Waiting, OnMqueue
  <2>2. \A u \in Threads : u # w => (Queued(u)' <=> Queued(u))
    BY <1>1, <1>2, <1>5, <1>6 DEF Queued, OnMqueue, OnCvq
  <2> QED BY <1>1, <1>2, <1>6, <2>1, <2>2, DequeueKeepsWakeInv DEF IInv
<1>14. ReaderInv'
  <2>1. AbsReaders' = AbsReaders /\ AbsWriter' = AbsWriter /\ Rest' = Rest
    BY <1>1, <1>2 DEF AbsReaders, AbsWriter, Broadcasting, Rest
  <2>2. \A u \in Threads : LetIn(u)' <=> LetIn(u)
    BY <1>1, <1>2 DEF LetIn
  <2> QED BY <1>1, <1>2, <2>1, <2>2 DEF IInv, ReaderInv
<1>15. WriterInv' /\ StateInv'
  BY <1>1, <1>2 DEF IInv, WriterInv, StateInv, Broadcasts
<1> QED
  BY <1>7, <1>8, <1>9, <1>10, <1>11, <1>12, <1>13, <1>14, <1>15
  DEF IInv

LEMMA WaitEnqueueKeeps ==
    ASSUME IInv, NEW t \in Threads, WaitEnqueue(t), UNCHANGED <<semVars, rwVars>>
    PROVE  IInv'
<1>1. /\ t \notin asleep /\ pc[t] = "c_spin" /\ pc'[t] = "u_spin"
      /\ home[t] = "c_park" /\ home'[t] = "c_park"
      /\ \A u \in Threads \ {t} : pc'[u] = pc[u] /\ home'[u] = home[u]
      /\ DOMAIN pc' = Threads /\ DOMAIN home' = Threads
  BY DEF IInv, Types, Homes, WaitEnqueue, At, Call, Goto
<1>2. /\ asleep' = asleep /\ reject' = reject /\ target' = target
      /\ mowner' = mowner /\ mqueue' = mqueue
      /\ count' = count /\ semq' = semq
      /\ rwstate' = rwstate /\ writer' = writer /\ writers' = writers
      /\ rwaiting' = rwaiting /\ rreading' = rreading /\ todo' = todo
      /\ spin' = [spin EXCEPT !["mp"] = Append(@, t)]
  BY DEF WaitEnqueue, Call, mutexVars, semVars, rwVars
<1>3. t \notin ToSet(spin["mp"]) /\ "mp" \in SpinLocks
  BY <1>1 DEF IInv, Spinning, SpinLocks
<1>4. /\ spin' \in [SpinLocks -> Seq(Threads)]
      /\ \A l \in SpinLocks :
            /\ Line(spin'[l])
            /\ ToSet(spin'[l]) =
                   IF l = "mp" THEN ToSet(spin[l]) \cup {t} ELSE ToSet(spin[l])
            /\ \A u \in Threads : Turn(u, l) => Turn(u, l)'
  BY <1>2, <1>3, SpinJoin DEF IInv
<1>5. t \notin ToSet(cvq) /\ Turn(t, "cv") /\ cvq' = Append(cvq, t)
  BY <1>1 DEF IInv, CondInv, OnCvq, Parks, WaitEnqueue
<1>6. Line(cvq') /\ ToSet(cvq') = ToSet(cvq) \cup {t}
  BY <1>5, Joins DEF IInv, Queues
<1>7. \A u \in Threads : ~HoldsCv(u)
  BY <1>1, <1>5 DEF IInv, Spinning, HoldsCv, Parks, Turn
<1>8. Queues' /\ Types'
  BY <1>1, <1>2, <1>3, <1>4, <1>5, <1>6, <1>7
  DEF IInv, Queues, Types, SyncTypeOK
<1>9. Homes'
  BY <1>1, <1>2 DEF IInv, Homes
<1>10. Spinning'
  <2>1. \A u \in Threads : HoldsCv(u)' <=> u = t
    BY <1>1, <1>2, <1>7 DEF HoldsCv, Parks
  <2>2. \A u \in Threads : Broadcasts(u)' <=> Broadcasts(u)
    BY <1>1, <1>2 DEF Broadcasts
  <2>3. Turn(t, "cv")'
    BY <1>4, <1>5 DEF SpinLocks
  <2> QED
    BY <1>1, <1>2, <1>4, <1>7, <2>1, <2>2, <2>3 DEF IInv, Spinning, SpinLocks
<1>11. MutexInv'
  BY <1>1, <1>2 DEF IInv, MutexInv, HasMutex, OnMqueue
<1>12. CondInv'
  BY <1>1, <1>2, <1>3, <1>4, <1>5, <1>6, <1>7 DEF IInv, CondInv, Parks, OnCvq
<1>13. SemInv'
  <2>1. Permitted' = Permitted
    BY <1>1, <1>2 DEF Permitted
  <2> QED BY <1>1, <1>2, <2>1 DEF IInv, SemInv
<1>14. WakeInv'
  <2>1. \A u \in Threads : (Queued(u)' <=> Queued(u)) /\ (Waiting(u)' <=> Waiting(u))
    BY <1>1, <1>2, <1>5, <1>6 DEF Queued, Waiting, OnMqueue, OnCvq
  <2>2. \A u \in Threads : (Posting(u)' <=> Posting(u)) /\ (Dequeued(u)' <=> Dequeued(u))
    BY <1>1, <1>2 DEF Posting, Dequeued
  <2> QED BY <1>1, <1>2, <2>1, <2>2 DEF IInv, WakeInv
<1>15. ReaderInv'
  <2>1. AbsReaders' = AbsReaders /\ AbsWriter' = AbsWriter /\ Rest' = Rest
    BY <1>1, <1>2 DEF AbsReaders, AbsWriter, Broadcasting, Rest
  <2>2. \A u \in Threads : LetIn(u)' <=> LetIn(u)
    BY <1>1, <1>2 DEF LetIn
  <2> QED BY <1>1, <1>2, <2>1, <2>2 DEF IInv, ReaderInv
<1>16. WriterInv' /\ StateInv'
  BY <1>1, <1>2 DEF IInv, WriterInv, StateInv, Broadcasts
<1> QED
  BY <1>8, <1>9, <1>10, <1>11, <1>12, <1>13, <1>14, <1>15, <1>16
  DEF IInv

LEMMA WaitParkKeeps ==
    ASSUME IInv, NEW t \in Threads, WaitPark(t), UNCHANGED <<semVars, rwVars>>
    PROVE  IInv'
<1>1. /\ t \notin asleep /\ pc[t] = "c_park" /\ pc'[t] = "c_wait"
      /\ \A u \in Threads \ {t} : pc'[u] = pc[u]
      /\ DOMAIN pc' = Threads
      /\ ~reject'[t] /\ \A u \in Threads \ {t} : reject'[u] = reject[u]
      /\ reject' \in [Threads -> BOOLEAN]
  BY DEF IInv, Types, SyncTypeOK, WaitPark, At, Goto
<1>2. /\ asleep' = asleep /\ home' = home /\ target' = target
      /\ mowner' = mowner /\ mqueue' = mqueue /\ cvq' = cvq
      /\ count' = count /\ semq' = semq
      /\ rwstate' = rwstate /\ writer' = writer /\ writers' = writers
      /\ rwaiting' = rwaiting /\ rreading' = rreading /\ todo' = todo
      /\ Turn(t, "cv") /\ SpinUnlock("cv")
  BY <1>1
  DEF IInv, Spinning, HoldsCv, Parks, WaitPark, condVars, mutexVars, semVars,
      rwVars
<1>3. /\ spin' \in [SpinLocks -> Seq(Threads)]
      /\ \A l \in SpinLocks :
            /\ Line(spin'[l])
            /\ ToSet(spin'[l]) =
                   IF l = "cv" THEN ToSet(spin[l]) \ {t} ELSE ToSet(spin[l])
            /\ l # "cv" => \A u \in Threads : Turn(u, l)' <=> Turn(u, l)
  BY <1>2, SpinLeave DEF IInv, SpinLocks
<1>4. t \in ToSet(cvq) /\ \A u \in Threads : HoldsCv(u) <=> u = t
  BY <1>1, <1>2 DEF IInv, CondInv, OnCvq, Parks, Spinning, HoldsCv, Turn
<1>5. \A u \in Threads : Posting(u) => target[u] # t
  BY <1>1 DEF IInv, WakeInv, Waiting
<1>6. Queues' /\ Types'
  BY <1>1, <1>2, <1>3, <1>4, <1>5 DEF IInv, Queues, Types, SyncTypeOK
<1>7. Homes'
  BY <1>1, <1>2 DEF IInv, Homes
<1>8. Spinning'
  <2>1. \A u \in Threads : ~HoldsCv(u)'
    BY <1>1, <1>2, <1>4 DEF HoldsCv, Parks
  <2>2. \A u \in Threads : Broadcasts(u)' <=> Broadcasts(u)
    BY <1>1, <1>2 DEF Broadcasts
  <2>3. ASSUME NEW u \in Threads
        PROVE  /\ u \in ToSet(spin'["mp"]) <=> pc'[u] \in {"l_spin", "k_spin", "u_spin"}
               /\ u \in ToSet(spin'["sem"]) <=> pc'[u] \in {"sw_spin", "ss_spin"}
    BY <1>1, <1>3 DEF IInv, Spinning, SpinLocks
  <2>4. ASSUME NEW u \in Threads
        PROVE  u \in ToSet(spin'["cv"]) <=>
                   pc'[u] \in {"c_spin", "s_spin", "b_spin"} \/ HoldsCv(u)'
    BY <1>1, <1>3, <1>4, <2>1 DEF IInv, Spinning, SpinLocks
  <2>5. ASSUME NEW u \in Threads
        PROVE  u \in ToSet(spin'["rw"]) <=>
                   \/ pc'[u] \in {"rl_spin", "wl_spin", "ul_spin", "dg_spin"}
                   \/ Broadcasts(u)'
    BY <1>1, <1>3, <1>4, <2>2 DEF IInv, Spinning, SpinLocks
  <2>6. ASSUME NEW u \in Threads
        PROVE  (HoldsCv(u)' => Turn(u, "cv")') /\ (Broadcasts(u)' => Turn(u, "rw")')
    BY <1>1, <1>3, <1>4, <2>1, <2>2 DEF IInv, Spinning, SpinLocks
  <2> QED BY <2>3, <2>4, <2>5, <2>6 DEF Spinning
<1>9. MutexInv'
  BY <1>1, <1>2 DEF IInv, MutexInv, HasMutex, OnMqueue
<1>10. CondInv'
  BY <1>1, <1>2, <1>3, <1>4, <1>5 DEF IInv, CondInv, Parks, OnCvq, HoldsCv
<1>11. SemInv'
  <2>1. Permitted' = Permitted
    BY <1>1, <1>2 DEF Permitted
  <2> QED BY <1>1, <1>2, <2>1 DEF IInv, SemInv
<1>12. WakeInv'
  <2>1. Queued(t)' /\ Waiting(t)'
    BY <1>1, <1>2, <1>4 DEF Queued, Waiting, OnCvq
  <2>2. \A u \in Threads : u # t => (Queued(u)' <=> Queued(u)) /\ (Waiting(u)' <=> Waiting(u))
    BY <1>1, <1>2, <1>4 DEF Queued, Waiting, OnMqueue, OnCvq
  <2>3. \A u \in Threads : (Posting(u)' <=> Posting(u)) /\ (Dequeued(u)' <=> Dequeued(u))
    BY <1>1, <1>2, <1>4 DEF Posting, Dequeued
  <2> QED BY <1>5, <1>1, <1>2, <1>4, <2>1, <2>2, <2>3 DEF IInv, WakeInv
<1>13. ReaderInv'
  <2>1. AbsReaders' = AbsReaders /\ AbsWriter' = AbsWriter /\ Rest' = Rest
    BY <1>1, <1>2 DEF AbsReaders, AbsWriter, Broadcasting, Rest
  <2>2. \A u \in Threads : LetIn(u)' <=> LetIn(u)
    BY <1>1, <1>2 DEF LetIn
  <2> QED BY <1>1, <1>2, <2>1, <2>2 DEF IInv, ReaderInv
<1>14. WriterInv' /\ StateInv'
  BY <1>1, <1>2 DEF IInv, WriterInv, StateInv, Broadcasts
<1> QED
  BY <1>6, <1>7, <1>8, <1>9, <1>10, <1>11, <1>12, <1>13, <1>14
  DEF IInv

LEMMA SignalKeeps ==
    ASSUME IInv, NEW t \in Threads, SignalSection(t), cvq # <<>>, UNCHANGED <<semVars, rwVars>>
    PROVE  IInv'
<1>1. /\ t \notin asleep /\ pc[t] = "s_spin" /\ pc'[t] = "post"
      /\ home[t] \in {"out", "crit"}
      /\ \A u \in Threads \ {t} : pc'[u] = pc[u]
      /\ DOMAIN pc' = Threads
  BY DEF IInv, Types, Homes, SignalSection, At, Goto
<1>2. /\ asleep' = asleep /\ home' = home /\ reject' = reject
      /\ mowner' = mowner /\ mqueue' = mqueue
      /\ count' = count /\ semq' = semq
      /\ rwstate' = rwstate /\ writer' = writer /\ writers' = writers
      /\ rwaiting' = rwaiting /\ rreading' = rreading /\ todo' = todo
      /\ Turn(t, "cv") /\ SpinUnlock("cv")
  BY DEF SignalSection, mutexVars, semVars, rwVars
<1>3. /\ spin' \in [SpinLocks -> Seq(Threads)]
      /\ \A l \in SpinLocks :
            /\ Line(spin'[l])
            /\ ToSet(spin'[l]) =
                   IF l = "cv" THEN ToSet(spin[l]) \ {t} ELSE ToSet(spin[l])
            /\ l # "cv" => \A u \in Threads : Turn(u, l)' <=> Turn(u, l)
  BY <1>2, SpinLeave DEF IInv, SpinLocks
<1>4. \A u \in Threads : ~HoldsCv(u)
  BY <1>1, <1>2 DEF IInv, Spinning, HoldsCv, Parks, Turn
<1>5. PICK w \in Threads :
         /\ w \in ToSet(cvq)
         /\ Line(cvq') /\ ToSet(cvq') = ToSet(cvq) \ {w}
         /\ target' = [target EXCEPT ![t] = w]
  BY Leaves DEF IInv, Queues, SignalSection
<1>6. /\ pc[w] = "c_wait" /\ ~reject[w] /\ w # t
      /\ target' \in [Threads -> Threads \cup {None, Trampled}]
      /\ target'[t] = w /\ \A u \in Threads \ {t} : target'[u] = target[u]
  BY <1>1, <1>4, <1>5 DEF IInv, Types, SyncTypeOK, CondInv, OnCvq, HoldsCv
<1>7. Queues' /\ Types'
  BY <1>1, <1>2, <1>3, <1>4, <1>5, <1>6 DEF IInv, Queues, Types, SyncTypeOK
<1>8. Homes'
  BY <1>1, <1>2 DEF IInv, Homes
<1>9. Spinning'
  <2>1. \A u \in Threads : ~HoldsCv(u)'
    BY <1>1, <1>2, <1>4 DEF HoldsCv, Parks
  <2>2. \A u \in Threads : Broadcasts(u)' <=> Broadcasts(u)
    BY <1>1, <1>2 DEF Broadcasts
  <2>3. ASSUME NEW u \in Threads
        PROVE  /\ u \in ToSet(spin'["mp"]) <=> pc'[u] \in {"l_spin", "k_spin", "u_spin"}
               /\ u \in ToSet(spin'["sem"]) <=> pc'[u] \in {"sw_spin", "ss_spin"}
    BY <1>1, <1>3 DEF IInv, Spinning, SpinLocks
  <2>4. ASSUME NEW u \in Threads
        PROVE  u \in ToSet(spin'["cv"]) <=>
                   pc'[u] \in {"c_spin", "s_spin", "b_spin"} \/ HoldsCv(u)'
    BY <1>1, <1>3, <1>4, <2>1 DEF IInv, Spinning, SpinLocks
  <2>5. ASSUME NEW u \in Threads
        PROVE  u \in ToSet(spin'["rw"]) <=>
                   \/ pc'[u] \in {"rl_spin", "wl_spin", "ul_spin", "dg_spin"}
                   \/ Broadcasts(u)'
    BY <1>1, <1>3, <1>4, <2>2 DEF IInv, Spinning, SpinLocks
  <2>6. ASSUME NEW u \in Threads
        PROVE  (HoldsCv(u)' => Turn(u, "cv")') /\ (Broadcasts(u)' => Turn(u, "rw")')
    BY <1>1, <1>3, <1>4, <2>1, <2>2 DEF IInv, Spinning, SpinLocks
  <2> QED BY <2>3, <2>4, <2>5, <2>6 DEF Spinning
<1>10. MutexInv'
  BY <1>1, <1>2 DEF IInv, MutexInv, HasMutex, OnMqueue
<1>11. CondInv'
  <2>1. \A u \in Threads : ~Parks(u) /\ ~Parks(u)'
    BY <1>1, <1>2, <1>4 DEF HoldsCv, Parks
  <2> QED BY <1>1, <1>2, <1>5, <1>6, <2>1 DEF IInv, CondInv, OnCvq
<1>12. SemInv'
  <2>1. Permitted' = Permitted
    BY <1>1, <1>2 DEF Permitted
  <2> QED BY <1>1, <1>2, <2>1 DEF IInv, SemInv
<1>13. WakeInv'
  <2>1. Queued(w) /\ ~Queued(w)' /\ Waiting(w)
    BY <1>1, <1>5, <1>6 DEF Queued, Waiting, OnCvq
  <2>2. \A u \in Threads : u # w => (Queued(u)' <=> Queued(u))
    BY <1>1, <1>2, <1>5, <1>6 DEF Queued, OnMqueue, OnCvq
  <2> QED BY <1>1, <1>2, <1>6, <2>1, <2>2, DequeueKeepsWakeInv DEF IInv
<1>14. ReaderInv'
  <2>1. AbsReaders' = AbsReaders /\ AbsWriter' = AbsWriter /\ Rest' = Rest
    BY <1>1, <1>2 DEF AbsReaders, AbsWriter, Broadcasting, Rest
  <2>2. \A u \in Threads : LetIn(u)' <=> LetIn(u)
    BY <1>1, <1>2 DEF LetIn
  <2> QED BY <1>1, <1>2, <2>1, <2>2 DEF IInv, ReaderInv
<1>15. WriterInv' /\ StateInv'
  BY <1>1, <1>2 DEF IInv, WriterInv, StateInv, Broadcasts
<1> QED
  BY <1>7, <1>8, <1>9, <1>10, <1>11, <1>12, <1>13, <1>14, <1>15
  DEF IInv

LEMMA SignalNobodyKeeps ==
    ASSUME IInv, NEW t \in Threads, SignalSection(t), cvq = <<>>, UNCHANGED <<semVars, rwVars>>
    PROVE  IInv'
<1>1. /\ t \notin asleep /\ pc[t] = "s_spin" /\ pc'[t] = home[t]
      /\ home[t] \in {"out", "crit"}
      /\ \A u \in Threads \ {t} : pc'[u] = pc[u]
      /\ DOMAIN pc' = Threads
  BY DEF IInv, Types, Homes, SignalSection, At, Goto
<1>2. /\ asleep' = asleep /\ home' = home /\ reject' = reject
      /\ target' = target
      /\ mowner' = mowner /\ mqueue' = mqueue /\ cvq' = cvq
      /\ count' = count /\ semq' = semq
      /\ rwstate' = rwstate /\ writer' = writer /\ writers' = writers
      /\ rwaiting' = rwaiting /\ rreading' = rreading /\ todo' = todo
      /\ Turn(t, "cv") /\ SpinUnlock("cv")
  BY DEF SignalSection, mutexVars, semVars, rwVars
<1>3. /\ spin' \in [SpinLocks -> Seq(Threads)]
      /\ \A l \in SpinLocks :
            /\ Line(spin'[l])
            /\ ToSet(spin'[l]) =
                   IF l = "cv" THEN ToSet(spin[l]) \ {t} ELSE ToSet(spin[l])
            /\ l # "cv" => \A u \in Threads : Turn(u, l)' <=> Turn(u, l)
  BY <1>2, SpinLeave DEF IInv, SpinLocks
<1>4. \A u \in Threads : ~HoldsCv(u)
  BY <1>1, <1>2 DEF IInv, Spinning, HoldsCv, Parks, Turn
<1>5. Queues' /\ Types'
  BY <1>1, <1>2, <1>3, <1>4 DEF IInv, Queues, Types, SyncTypeOK
<1>6. Homes'
  BY <1>1, <1>2 DEF IInv, Homes
<1>7. Spinning'
  <2>1. \A u \in Threads : ~HoldsCv(u)'
    BY <1>1, <1>2, <1>4 DEF HoldsCv, Parks
  <2>2. \A u \in Threads : Broadcasts(u)' <=> Broadcasts(u)
    BY <1>1, <1>2 DEF Broadcasts
  <2>3. ASSUME NEW u \in Threads
        PROVE  /\ u \in ToSet(spin'["mp"]) <=> pc'[u] \in {"l_spin", "k_spin", "u_spin"}
               /\ u \in ToSet(spin'["sem"]) <=> pc'[u] \in {"sw_spin", "ss_spin"}
    BY <1>1, <1>3 DEF IInv, Spinning, SpinLocks
  <2>4. ASSUME NEW u \in Threads
        PROVE  u \in ToSet(spin'["cv"]) <=>
                   pc'[u] \in {"c_spin", "s_spin", "b_spin"} \/ HoldsCv(u)'
    BY <1>1, <1>3, <1>4, <2>1 DEF IInv, Spinning, SpinLocks
  <2>5. ASSUME NEW u \in Threads
        PROVE  u \in ToSet(spin'["rw"]) <=>
                   \/ pc'[u] \in {"rl_spin", "wl_spin", "ul_spin", "dg_spin"}
                   \/ Broadcasts(u)'
    BY <1>1, <1>3, <1>4, <2>2 DEF IInv, Spinning, SpinLocks
  <2>6. ASSUME NEW u \in Threads
        PROVE  (HoldsCv(u)' => Turn(u, "cv")') /\ (Broadcasts(u)' => Turn(u, "rw")')
    BY <1>1, <1>3, <1>4, <2>1, <2>2 DEF IInv, Spinning, SpinLocks
  <2> QED BY <2>3, <2>4, <2>5, <2>6 DEF Spinning
<1>8. MutexInv'
  BY <1>1, <1>2 DEF IInv, MutexInv, HasMutex, OnMqueue
<1>9. CondInv'
  BY <1>1, <1>2 DEF IInv, CondInv, Parks, OnCvq
<1>10. SemInv'
  <2>1. Permitted' = Permitted
    BY <1>1, <1>2 DEF Permitted
  <2> QED BY <1>1, <1>2, <2>1 DEF IInv, SemInv
<1>11. WakeInv'
  BY <1>1, <1>2, <1>3, <1>4
  DEF IInv, WakeInv, Waiting, Posting, Queued, Dequeued,
         OnMqueue, OnCvq
<1>12. ReaderInv'
  <2>1. AbsReaders' = AbsReaders /\ AbsWriter' = AbsWriter /\ Rest' = Rest
    BY <1>1, <1>2 DEF AbsReaders, AbsWriter, Broadcasting, Rest
  <2>2. \A u \in Threads : LetIn(u)' <=> LetIn(u)
    BY <1>1, <1>2 DEF LetIn
  <2> QED BY <1>1, <1>2, <2>1, <2>2 DEF IInv, ReaderInv
<1>13. WriterInv' /\ StateInv'
  BY <1>1, <1>2 DEF IInv, WriterInv, StateInv, Broadcasts
<1> QED
  BY <1>5, <1>6, <1>7, <1>8, <1>9, <1>10, <1>11, <1>12, <1>13
  DEF IInv

LEMMA BroadcastEnterKeeps ==
    ASSUME IInv, NEW t \in Threads, BroadcastEnter(t), UNCHANGED <<semVars, rwVars>>
    PROVE  IInv'
<1>1. /\ t \notin asleep /\ pc[t] = "b_spin" /\ pc'[t] = "b_loop"
      /\ \A u \in Threads \ {t} : pc'[u] = pc[u]
      /\ DOMAIN pc' = Threads
  BY DEF IInv, Types, BroadcastEnter, At, Goto
<1>2. /\ spin' = spin /\ asleep' = asleep /\ home' = home /\ reject' = reject
      /\ target' = target
      /\ mowner' = mowner /\ mqueue' = mqueue /\ cvq' = cvq
      /\ count' = count /\ semq' = semq
      /\ rwstate' = rwstate /\ writer' = writer /\ writers' = writers
      /\ rwaiting' = rwaiting /\ rreading' = rreading /\ todo' = todo
      /\ Turn(t, "cv")
  BY DEF BroadcastEnter, condVars, mutexVars, semVars, rwVars
<1>3. Queues' /\ Types'
  BY <1>1, <1>2 DEF IInv, Queues, Types, SyncTypeOK
<1>4. Homes'
  BY <1>1, <1>2 DEF IInv, Homes
<1>5. Spinning'
  <2>1. \A u \in Threads : HoldsCv(u)' <=> HoldsCv(u) \/ u = t
    BY <1>1, <1>2 DEF HoldsCv, Parks
  <2>2. \A u \in Threads : Broadcasts(u)' <=> Broadcasts(u)
    BY <1>1, <1>2 DEF Broadcasts
  <2>3. \A u \in Threads, l \in SpinLocks : Turn(u, l)' <=> Turn(u, l)
    BY <1>2 DEF Turn
  <2> QED BY <1>1, <1>2, <2>1, <2>2, <2>3 DEF IInv, Spinning, SpinLocks
<1>6. MutexInv'
  BY <1>1, <1>2 DEF IInv, MutexInv, HasMutex, OnMqueue
<1>7. CondInv'
  BY <1>1, <1>2 DEF IInv, CondInv, Parks, OnCvq
<1>8. SemInv'
  <2>1. Permitted' = Permitted
    BY <1>1, <1>2 DEF Permitted
  <2> QED BY <1>1, <1>2, <2>1 DEF IInv, SemInv
<1>9. WakeInv'
  BY <1>1, <1>2 DEF IInv, WakeInv, Waiting, Posting, Queued, Dequeued,
         OnMqueue, OnCvq
<1>10. ReaderInv'
  <2>1. AbsReaders' = AbsReaders /\ AbsWriter' = AbsWriter /\ Rest' = Rest
    BY <1>1, <1>2 DEF AbsReaders, AbsWriter, Broadcasting, Rest
  <2>2. \A u \in Threads : LetIn(u)' <=> LetIn(u)
    BY <1>1, <1>2 DEF LetIn
  <2> QED BY <1>1, <1>2, <2>1, <2>2 DEF IInv, ReaderInv
<1>11. WriterInv' /\ StateInv'
  BY <1>1, <1>2 DEF IInv, WriterInv, StateInv, Broadcasts
<1> QED
  BY <1>3, <1>4, <1>5, <1>6, <1>7, <1>8, <1>9, <1>10, <1>11
  DEF IInv

LEMMA BroadcastPostKeeps ==
    ASSUME IInv, NEW t \in Threads, BroadcastPost(t), UNCHANGED <<semVars, rwVars>>
    PROVE  IInv'
<1>1. /\ t \notin asleep /\ pc[t] = "b_loop" /\ pc'[t] = "b_wake"
      /\ \A u \in Threads \ {t} : pc'[u] = pc[u]
      /\ DOMAIN pc' = Threads
  BY DEF IInv, Types, BroadcastPost, At, Goto
<1>2. /\ spin' = spin /\ asleep' = asleep /\ home' = home
      /\ mowner' = mowner /\ mqueue' = mqueue
      /\ count' = count /\ semq' = semq
      /\ rwstate' = rwstate /\ writer' = writer /\ writers' = writers
      /\ rwaiting' = rwaiting /\ rreading' = rreading /\ todo' = todo
  BY DEF BroadcastPost, mutexVars, semVars, rwVars
<1>3. \A u \in Threads : HoldsCv(u) <=> u = t
  BY <1>1 DEF IInv, Spinning, HoldsCv, Turn
<1>4. PICK w \in Threads :
         /\ w \in ToSet(cvq)
         /\ Line(cvq') /\ ToSet(cvq') = ToSet(cvq) \ {w}
         /\ target' = [target EXCEPT ![t] = w]
         /\ reject' = [reject EXCEPT ![w] = TRUE]
  BY Leaves DEF IInv, Queues, BroadcastPost
<1>5. /\ pc[w] = "c_wait" /\ ~reject[w] /\ w # t
      /\ target' \in [Threads -> Threads \cup {None, Trampled}]
      /\ reject' \in [Threads -> BOOLEAN]
      /\ target'[t] = w /\ \A u \in Threads \ {t} : target'[u] = target[u]
      /\ reject'[w] /\ \A u \in Threads \ {w} : reject'[u] = reject[u]
  BY <1>1, <1>3, <1>4
  DEF IInv, Types, SyncTypeOK, CondInv, OnCvq, HoldsCv, Parks
<1>6. Queues' /\ Types'
  BY <1>1, <1>2, <1>3, <1>4, <1>5 DEF IInv, Queues, Types, SyncTypeOK
<1>7. Homes'
  BY <1>1, <1>2 DEF IInv, Homes
<1>8. Spinning'
  <2>1. \A u \in Threads : HoldsCv(u)' <=> HoldsCv(u)
    BY <1>1, <1>2, <1>3 DEF HoldsCv, Parks
  <2>2. \A u \in Threads : Broadcasts(u)' <=> Broadcasts(u)
    BY <1>1, <1>2 DEF Broadcasts
  <2>3. \A u \in Threads, l \in SpinLocks : Turn(u, l)' <=> Turn(u, l)
    BY <1>2 DEF Turn
  <2> QED BY <1>1, <1>2, <2>1, <2>2, <2>3 DEF IInv, Spinning, SpinLocks
<1>9. MutexInv'
  BY <1>1, <1>2, <1>3, <1>4, <1>5 DEF IInv, MutexInv, HasMutex, OnMqueue
<1>10. CondInv'
  <2>1. \A u \in Threads : ~Parks(u) /\ ~Parks(u)'
    BY <1>1, <1>2, <1>3 DEF HoldsCv, Parks
  <2> QED BY <1>1, <1>2, <1>4, <1>5, <2>1 DEF IInv, CondInv, OnCvq
<1>11. SemInv'
  <2>1. Permitted' = Permitted
    BY <1>1, <1>2, <1>3, <1>4, <1>5 DEF Permitted
  <2> QED BY <1>1, <1>2, <1>3, <1>4, <1>5, <2>1 DEF IInv, SemInv
<1>12. WakeInv'
  <2>1. Queued(w) /\ Waiting(w)
    BY <1>4, <1>5 DEF Queued, Waiting, OnCvq
  <2>2. \A u \in Threads : u # w => (Queued(u)' <=> Queued(u))
    BY <1>1, <1>2, <1>4, <1>5 DEF Queued, OnMqueue, OnCvq
  <2>3. \A u \in Threads : (Posting(u)' <=> Posting(u)) /\ (Waiting(u)' <=> Waiting(u))
    BY <1>1 DEF Posting, Waiting
  <2>4. \A u \in Threads : Dequeued(u)' <=> Dequeued(u)
    BY <1>1, <1>5 DEF Dequeued
  <2>5. \A u \in Threads : Posting(u) => target[u] # w /\ u # t
    BY <1>1, <2>1 DEF IInv, WakeInv, Posting
  <2>6. \A u \in Threads : pc[u] \in {"wake", "b_wake", "late_wake", "bc_wake"} => u # t
    BY <1>1
  <2> QED
    BY <1>1, <1>2, <1>5, <2>1, <2>2, <2>3, <2>4, <2>5, <2>6 DEF IInv, WakeInv
<1>13. ReaderInv'
  <2>1. AbsReaders' = AbsReaders /\ AbsWriter' = AbsWriter /\ Rest' = Rest
    BY <1>1, <1>2 DEF AbsReaders, AbsWriter, Broadcasting, Rest
  <2>2. \A u \in Threads : LetIn(u)' <=> LetIn(u)
    BY <1>1, <1>2, <1>5 DEF LetIn
  <2> QED BY <1>1, <1>2, <1>5, <2>1, <2>2 DEF IInv, ReaderInv
<1>14. WriterInv' /\ StateInv'
  BY <1>1, <1>2, <1>3, <1>4, <1>5 DEF IInv, WriterInv, StateInv, Broadcasts
<1> QED
  BY <1>6, <1>7, <1>8, <1>9, <1>10, <1>11, <1>12, <1>13, <1>14
  DEF IInv

LEMMA BroadcastEndKeeps ==
    ASSUME IInv, NEW t \in Threads, BroadcastEnd(t), UNCHANGED <<semVars, rwVars>>
    PROVE  IInv'
<1>1. /\ t \notin asleep /\ pc[t] = "b_loop" /\ pc'[t] = home[t]
      /\ home[t] \in {"out", "crit"}
      /\ \A u \in Threads \ {t} : pc'[u] = pc[u]
      /\ DOMAIN pc' = Threads
  BY DEF IInv, Types, Homes, BroadcastEnd, At, Goto
<1>2. /\ asleep' = asleep /\ home' = home /\ reject' = reject
      /\ target' = target
      /\ mowner' = mowner /\ mqueue' = mqueue /\ cvq' = cvq
      /\ count' = count /\ semq' = semq
      /\ rwstate' = rwstate /\ writer' = writer /\ writers' = writers
      /\ rwaiting' = rwaiting /\ rreading' = rreading /\ todo' = todo
      /\ SpinUnlock("cv")
  BY DEF BroadcastEnd, condVars, mutexVars, semVars, rwVars
<1>3. Turn(t, "cv") /\ \A u \in Threads : HoldsCv(u) <=> u = t
  BY <1>1 DEF IInv, Spinning, HoldsCv, Turn
<1>4. /\ spin' \in [SpinLocks -> Seq(Threads)]
      /\ \A l \in SpinLocks :
            /\ Line(spin'[l])
            /\ ToSet(spin'[l]) =
                   IF l = "cv" THEN ToSet(spin[l]) \ {t} ELSE ToSet(spin[l])
            /\ l # "cv" => \A u \in Threads : Turn(u, l)' <=> Turn(u, l)
  BY <1>2, <1>3, SpinLeave DEF IInv, SpinLocks
<1>5. Queues' /\ Types'
  BY <1>1, <1>2, <1>3, <1>4 DEF IInv, Queues, Types, SyncTypeOK
<1>6. Homes'
  BY <1>1, <1>2 DEF IInv, Homes
<1>7. Spinning'
  <2>1. \A u \in Threads : ~HoldsCv(u)'
    BY <1>1, <1>2, <1>3 DEF HoldsCv, Parks
  <2>2. \A u \in Threads : Broadcasts(u)' <=> Broadcasts(u)
    BY <1>1, <1>2 DEF Broadcasts
  <2> QED BY <1>1, <1>2, <1>3, <1>4, <2>1, <2>2 DEF IInv, Spinning, SpinLocks
<1>8. MutexInv'
  BY <1>1, <1>2 DEF IInv, MutexInv, HasMutex, OnMqueue
<1>9. CondInv'
  BY <1>1, <1>2, <1>3, <1>4 DEF IInv, CondInv, Parks, OnCvq, HoldsCv
<1>10. SemInv'
  <2>1. Permitted' = Permitted
    BY <1>1, <1>2 DEF Permitted
  <2> QED BY <1>1, <1>2, <2>1 DEF IInv, SemInv
<1>11. WakeInv'
  BY <1>1, <1>2, <1>3, <1>4
  DEF IInv, WakeInv, Waiting, Posting, Queued, Dequeued,
         OnMqueue, OnCvq
<1>12. ReaderInv'
  <2>1. AbsReaders' = AbsReaders /\ AbsWriter' = AbsWriter /\ Rest' = Rest
    BY <1>1, <1>2 DEF AbsReaders, AbsWriter, Broadcasting, Rest
  <2>2. \A u \in Threads : LetIn(u)' <=> LetIn(u)
    BY <1>1, <1>2 DEF LetIn
  <2> QED BY <1>1, <1>2, <2>1, <2>2 DEF IInv, ReaderInv
<1>13. WriterInv' /\ StateInv'
  BY <1>1, <1>2 DEF IInv, WriterInv, StateInv, Broadcasts
<1> QED
  BY <1>5, <1>6, <1>7, <1>8, <1>9, <1>10, <1>11, <1>12, <1>13
  DEF IInv

LEMMA PostKeeps ==
    ASSUME IInv, NEW t \in Threads, Post(t) \/ WriterPost(t),
           UNCHANGED <<condVars, semVars, rwVars>>
    PROVE  IInv'
<1>1. /\ t \notin asleep
      /\ \/ pc[t] = "post" /\ pc'[t] = "wake"
         \/ pc[t] = "late_post" /\ pc'[t] = "late_wake"
      /\ \A u \in Threads \ {t} : pc'[u] = pc[u]
      /\ DOMAIN pc' = Threads
  BY DEF IInv, Types, Post, WriterPost, At, Goto
<1>2. /\ spin' = spin /\ asleep' = asleep /\ home' = home /\ target' = target
      /\ mowner' = mowner /\ mqueue' = mqueue /\ cvq' = cvq
      /\ count' = count /\ semq' = semq
      /\ rwstate' = rwstate /\ writer' = writer /\ writers' = writers
      /\ rwaiting' = rwaiting /\ rreading' = rreading /\ todo' = todo
  BY DEF Post, WriterPost, condVars, mutexVars, semVars, rwVars
<1>3. PICK w \in Threads : w = target[t] /\ Waiting(w) /\ ~reject[w] /\ ~Queued(w) /\ w # t
  BY <1>1 DEF IInv, WakeInv, Posting, Waiting
<1>4. /\ reject' \in [Threads -> BOOLEAN]
      /\ reject'[w] /\ \A u \in Threads \ {w} : reject'[u] = reject[u]
  BY <1>3 DEF IInv, Types, SyncTypeOK, Post, WriterPost
<1>5. /\ ~OnMqueue(w) /\ w \notin ToSet(semq) /\ w \notin ToSet(writers)
      /\ w \notin ToSet(rwaiting) /\ pc[w] \notin {"r_wait"}
      /\ OnCvq(w) => pc[w] # "c_wait" 
  BY <1>3
  DEF IInv, Waiting, Queued, MutexInv, CondInv, SemInv, WriterInv, ReaderInv,
      Rest, LetIn
<1>6. Queues' /\ Types'
  BY <1>1, <1>2, <1>3, <1>4, <1>5 DEF IInv, Queues, Types, SyncTypeOK
<1>7. Homes'
  BY <1>1, <1>2 DEF IInv, Homes
<1>8. Spinning'
  <2>1. \A u \in Threads : HoldsCv(u)' <=> HoldsCv(u)
    BY <1>1, <1>2 DEF HoldsCv, Parks
  <2>2. \A u \in Threads : Broadcasts(u)' <=> Broadcasts(u)
    BY <1>1, <1>2 DEF Broadcasts
  <2>3. \A u \in Threads, l \in SpinLocks : Turn(u, l)' <=> Turn(u, l)
    BY <1>2 DEF Turn
  <2> QED BY <1>1, <1>2, <2>1, <2>2, <2>3 DEF IInv, Spinning, SpinLocks
<1>9. MutexInv'
  BY <1>1, <1>2, <1>3, <1>4, <1>5 DEF IInv, MutexInv, HasMutex, OnMqueue
<1>10. CondInv'
  BY <1>1, <1>2, <1>3, <1>4, <1>5 DEF IInv, CondInv, Parks, OnCvq
<1>11. SemInv'
  <2>1. Permitted' = Permitted
    BY <1>1, <1>2, <1>3, <1>4, <1>5 DEF Permitted
  <2> QED BY <1>1, <1>2, <1>3, <1>4, <1>5, <2>1 DEF IInv, SemInv
<1>12. WakeInv'
  <2>1. \A u \in Threads : (Queued(u)' <=> Queued(u)) /\ (Waiting(u)' <=> Waiting(u))
    BY <1>1, <1>2, <1>3 DEF Queued, Waiting, OnMqueue, OnCvq
  <2>2. \A u \in Threads : Posting(u)' <=> Posting(u) /\ u # t
    BY <1>1 DEF Posting
  <2>3. Posting(t) /\ \A u \in Threads : Dequeued(u) => Dequeued(u)' \/ u = w
    BY <1>1, <1>2, <1>3 DEF Posting, Dequeued
  <2>4. \A u \in Threads : pc[u] \in {"wake", "b_wake", "late_wake", "bc_wake"} => u # t
    BY <1>1
  <2> QED BY <1>1, <1>2, <1>3, <1>4, <2>1, <2>2, <2>3, <2>4 DEF IInv, WakeInv
<1>13. ReaderInv'
  <2>1. AbsReaders' = AbsReaders /\ AbsWriter' = AbsWriter /\ Rest' = Rest
    BY <1>1, <1>2 DEF AbsReaders, AbsWriter, Broadcasting, Rest
  <2>2. \A u \in Threads : LetIn(u)' <=> LetIn(u)
    BY <1>1, <1>2, <1>4, <1>5 DEF LetIn
  <2> QED BY <1>1, <1>2, <1>4, <1>5, <2>1, <2>2 DEF IInv, ReaderInv
<1>14. WriterInv' /\ StateInv'
  BY <1>1, <1>2, <1>3, <1>4, <1>5 DEF IInv, WriterInv, StateInv, Broadcasts
<1> QED
  BY <1>6, <1>7, <1>8, <1>9, <1>10, <1>11, <1>12, <1>13, <1>14
  DEF IInv

LEMMA WakeKeeps ==
    ASSUME IInv, NEW t \in Threads, Wake(t) \/ WriterWake(t) \/ BroadcastWake(t),
           UNCHANGED <<condVars, semVars, rwVars>>
    PROVE  IInv'
<1>1. /\ t \notin asleep
      /\ \/ pc[t] = "wake" /\ pc'[t] = home[t] /\ home[t] \in {"out", "crit", "c_park"}
         \/ pc[t] = "late_wake" /\ pc'[t] = home[t] /\ home[t] = "out"
         \/ pc[t] = "b_wake" /\ pc'[t] = "b_loop"
      /\ \A u \in Threads \ {t} : pc'[u] = pc[u]
      /\ DOMAIN pc' = Threads
  BY DEF IInv, Types, Homes, Wake, WriterWake, BroadcastWake, At, Goto
<1>2. /\ spin' = spin /\ reject' = reject /\ home' = home
      /\ mowner' = mowner /\ mqueue' = mqueue /\ cvq' = cvq
      /\ count' = count /\ semq' = semq
      /\ rwstate' = rwstate /\ writer' = writer /\ writers' = writers
      /\ rwaiting' = rwaiting /\ rreading' = rreading /\ todo' = todo
  BY DEF Wake, WriterWake, BroadcastWake, condVars, mutexVars, semVars, rwVars
<1>3. /\ target' \in [Threads -> Threads \cup {None, Trampled}]
      /\ \A u \in Threads \ {t} : target'[u] = target[u]
  BY DEF IInv, Types, SyncTypeOK, Wake, WriterWake, BroadcastWake
<1>4. /\ asleep' \subseteq asleep
      /\ target[t] \in Threads => target[t] \notin asleep'
  BY USyncAssumption
  DEF Wake, WriterWake, BroadcastWake, MakeRunnable, MakeRunnableLate
<1>5. Queues' /\ Types'
  BY <1>1, <1>2, <1>3, <1>4 DEF IInv, Queues, Types, SyncTypeOK
<1>6. Homes'
  BY <1>1, <1>2 DEF IInv, Homes
<1>7. Spinning'
  <2>1. \A u \in Threads : HoldsCv(u)' <=> HoldsCv(u)
    BY <1>1, <1>2 DEF HoldsCv, Parks
  <2>2. \A u \in Threads : Broadcasts(u)' <=> Broadcasts(u)
    BY <1>1, <1>2 DEF Broadcasts
  <2>3. \A u \in Threads, l \in SpinLocks : Turn(u, l)' <=> Turn(u, l)
    BY <1>2 DEF Turn
  <2> QED BY <1>1, <1>2, <2>1, <2>2, <2>3 DEF IInv, Spinning, SpinLocks
<1>8. MutexInv'
  BY <1>1, <1>2 DEF IInv, MutexInv, HasMutex, OnMqueue
<1>9. CondInv'
  BY <1>1, <1>2 DEF IInv, CondInv, Parks, OnCvq
<1>10. SemInv'
  <2>1. Permitted' = Permitted
    BY <1>1, <1>2 DEF Permitted
  <2> QED BY <1>1, <1>2, <2>1 DEF IInv, SemInv
<1>11. WakeInv'
  <2>1. \A u \in Threads : (Queued(u)' <=> Queued(u)) /\ (Waiting(u)' <=> Waiting(u))
    BY <1>1, <1>2 DEF Queued, Waiting, OnMqueue, OnCvq
  <2>2. \A u \in Threads : (Posting(u)' <=> Posting(u)) /\ (Posting(u) => u # t)
    BY <1>1 DEF Posting
  <2>3. \A u \in Threads : Dequeued(u)' <=> Dequeued(u)
    BY <1>1, <1>3 DEF Dequeued
  <2>4. \A u \in Threads : pc[u] = "bc_wake" => pc'[u] = "bc_wake"
    BY <1>1
  <2> QED BY <1>1, <1>2, <1>3, <1>4, <2>1, <2>2, <2>3, <2>4 DEF IInv, WakeInv
<1>12. ReaderInv'
  <2>1. AbsReaders' = AbsReaders /\ AbsWriter' = AbsWriter /\ Rest' = Rest
    BY <1>1, <1>2 DEF AbsReaders, AbsWriter, Broadcasting, Rest
  <2>2. \A u \in Threads : LetIn(u)' <=> LetIn(u)
    BY <1>1, <1>2 DEF LetIn
  <2> QED BY <1>1, <1>2, <2>1, <2>2 DEF IInv, ReaderInv
<1>13. WriterInv' /\ StateInv'
  BY <1>1, <1>2 DEF IInv, WriterInv, StateInv, Broadcasts
<1> QED
  BY <1>5, <1>6, <1>7, <1>8, <1>9, <1>10, <1>11, <1>12, <1>13
  DEF IInv

LEMMA SemTakeKeeps ==
    ASSUME IInv, NEW t \in Threads, SemWaitSection(t), count > 0,
           UNCHANGED <<condVars, rwVars>>
    PROVE  IInv'
<1>1. /\ t \notin asleep /\ pc[t] = "sw_spin" /\ pc'[t] = "s_in"
      /\ \A u \in Threads \ {t} : pc'[u] = pc[u]
      /\ DOMAIN pc' = Threads
  BY PermitsAssumption DEF IInv, Types, SemWaitSection, At, Goto
<1>2. /\ asleep' = asleep /\ home' = home /\ reject' = reject
      /\ target' = target
      /\ mowner' = mowner /\ mqueue' = mqueue /\ cvq' = cvq
      /\ semq' = semq
      /\ rwstate' = rwstate /\ writer' = writer /\ writers' = writers
      /\ rwaiting' = rwaiting /\ rreading' = rreading /\ todo' = todo
  BY DEF SemWaitSection, condVars, mutexVars, rwVars
<1>3. /\ spin' \in [SpinLocks -> Seq(Threads)]
      /\ \A l \in SpinLocks :
            /\ Line(spin'[l])
            /\ ToSet(spin'[l]) =
                   IF l = "sem" THEN ToSet(spin[l]) \ {t} ELSE ToSet(spin[l])
            /\ l # "sem" => \A u \in Threads : Turn(u, l)' <=> Turn(u, l)
  BY SpinLeave DEF IInv, SpinLocks, SemWaitSection
<1>4. count \in Nat /\ count' = count - 1 /\ Permits \in Nat
  BY PermitsAssumption DEF IInv, Types, SemWaitSection
<1>5. IsFiniteSet(Permitted) /\ Cardinality(Permitted) \in Nat
  BY USyncAssumption, FS_Subset, FS_CardinalityType DEF Permitted
<1>6. Queues' /\ Types'
  BY <1>1, <1>2, <1>3, <1>4, <1>5 DEF IInv, Queues, Types, SyncTypeOK
<1>7. Homes'
  BY <1>1, <1>2 DEF IInv, Homes
<1>8. Spinning'
  <2>1. \A u \in Threads : HoldsCv(u)' <=> HoldsCv(u)
    BY <1>1, <1>2 DEF HoldsCv, Parks
  <2>2. \A u \in Threads : Broadcasts(u)' <=> Broadcasts(u)
    BY <1>1, <1>2 DEF Broadcasts
  <2> QED BY <1>1, <1>2, <1>3, <2>1, <2>2 DEF IInv, Spinning, SpinLocks
<1>9. MutexInv'
  BY <1>1, <1>2 DEF IInv, MutexInv, HasMutex, OnMqueue
<1>10. CondInv'
  BY <1>1, <1>2 DEF IInv, CondInv, Parks, OnCvq
<1>11. SemInv'
  <2>1. Permitted' = Permitted \cup {t} /\ t \notin Permitted
    BY <1>1, <1>2 DEF Permitted
  <2>2. Cardinality(Permitted') = Cardinality(Permitted) + 1
    BY <1>5, <2>1, FS_AddElement
  <2> QED BY <1>1, <1>2, <1>4, <1>5, <2>2 DEF IInv, SemInv
<1>12. WakeInv'
  BY <1>1, <1>2, <1>3, <1>4, <1>5
  DEF IInv, WakeInv, Waiting, Posting, Queued, Dequeued,
         OnMqueue, OnCvq
<1>13. ReaderInv'
  <2>1. AbsReaders' = AbsReaders /\ AbsWriter' = AbsWriter /\ Rest' = Rest
    BY <1>1, <1>2 DEF AbsReaders, AbsWriter, Broadcasting, Rest
  <2>2. \A u \in Threads : LetIn(u)' <=> LetIn(u)
    BY <1>1, <1>2 DEF LetIn
  <2> QED BY <1>1, <1>2, <2>1, <2>2 DEF IInv, ReaderInv
<1>14. WriterInv' /\ StateInv'
  BY <1>1, <1>2 DEF IInv, WriterInv, StateInv, Broadcasts
<1> QED
  BY <1>6, <1>7, <1>8, <1>9, <1>10, <1>11, <1>12, <1>13, <1>14
  DEF IInv

LEMMA SemEnqueueKeeps ==
    ASSUME IInv, NEW t \in Threads, SemWaitSection(t), ~(count > 0),
           UNCHANGED <<condVars, rwVars>>
    PROVE  IInv'
<1>1. /\ t \notin asleep /\ pc[t] = "sw_spin" /\ pc'[t] = "s_wait"
      /\ \A u \in Threads \ {t} : pc'[u] = pc[u]
      /\ DOMAIN pc' = Threads
      /\ ~reject'[t] /\ \A u \in Threads \ {t} : reject'[u] = reject[u]
      /\ reject' \in [Threads -> BOOLEAN]
  BY DEF IInv, Types, SyncTypeOK, SemWaitSection, At, Goto
<1>2. /\ asleep' = asleep /\ home' = home /\ target' = target
      /\ mowner' = mowner /\ mqueue' = mqueue /\ cvq' = cvq
      /\ count' = count
      /\ rwstate' = rwstate /\ writer' = writer /\ writers' = writers
      /\ rwaiting' = rwaiting /\ rreading' = rreading /\ todo' = todo
  BY DEF SemWaitSection, condVars, mutexVars, rwVars
<1>3. /\ spin' \in [SpinLocks -> Seq(Threads)]
      /\ \A l \in SpinLocks :
            /\ Line(spin'[l])
            /\ ToSet(spin'[l]) =
                   IF l = "sem" THEN ToSet(spin[l]) \ {t} ELSE ToSet(spin[l])
            /\ l # "sem" => \A u \in Threads : Turn(u, l)' <=> Turn(u, l)
  BY SpinLeave DEF IInv, SpinLocks, SemWaitSection
<1>4. t \notin ToSet(semq) /\ \A u \in Threads : Posting(u) => target[u] # t
  BY <1>1 DEF IInv, SemInv, WakeInv, Waiting, Posting
<1>5. Line(semq') /\ ToSet(semq') = ToSet(semq) \cup {t}
  BY <1>4, Joins DEF IInv, Queues, SemWaitSection
<1>6. Queues' /\ Types'
  BY <1>1, <1>2, <1>3, <1>4, <1>5 DEF IInv, Queues, Types, SyncTypeOK
<1>7. Homes'
  BY <1>1, <1>2 DEF IInv, Homes
<1>8. Spinning'
  <2>1. \A u \in Threads : HoldsCv(u)' <=> HoldsCv(u)
    BY <1>1, <1>2 DEF HoldsCv, Parks
  <2>2. \A u \in Threads : Broadcasts(u)' <=> Broadcasts(u)
    BY <1>1, <1>2 DEF Broadcasts
  <2> QED BY <1>1, <1>2, <1>3, <2>1, <2>2 DEF IInv, Spinning, SpinLocks
<1>9. MutexInv'
  BY <1>1, <1>2 DEF IInv, MutexInv, HasMutex, OnMqueue
<1>10. CondInv'
  BY <1>1, <1>2 DEF IInv, CondInv, Parks, OnCvq
<1>11. SemInv'
  <2>1. Permitted' = Permitted
    BY <1>1, <1>2, <1>5 DEF Permitted
  <2> QED BY <1>1, <1>2, <1>4, <1>5, <2>1 DEF IInv, SemInv
<1>12. WakeInv'
  <2>1. Queued(t)' /\ Waiting(t)'
    BY <1>1, <1>2, <1>4, <1>5 DEF Queued, Waiting, OnMqueue
  <2>2. \A u \in Threads : u # t => (Queued(u)' <=> Queued(u)) /\ (Waiting(u)' <=> Waiting(u))
    BY <1>1, <1>2, <1>4, <1>5 DEF Queued, Waiting, OnMqueue, OnCvq
  <2>3. \A u \in Threads : (Posting(u)' <=> Posting(u)) /\ (Dequeued(u)' <=> Dequeued(u))
    BY <1>1, <1>2, <1>4, <1>5 DEF Posting, Dequeued
  <2> QED BY <1>1, <1>2, <1>4, <1>5, <2>1, <2>2, <2>3 DEF IInv, WakeInv
<1>13. ReaderInv'
  <2>1. AbsReaders' = AbsReaders /\ AbsWriter' = AbsWriter /\ Rest' = Rest
    BY <1>1, <1>2 DEF AbsReaders, AbsWriter, Broadcasting, Rest
  <2>2. \A u \in Threads : LetIn(u)' <=> LetIn(u)
    BY <1>1, <1>2 DEF LetIn
  <2> QED BY <1>1, <1>2, <2>1, <2>2 DEF IInv, ReaderInv
<1>14. WriterInv' /\ StateInv'
  BY <1>1, <1>2 DEF IInv, WriterInv, StateInv, Broadcasts
<1> QED
  BY <1>6, <1>7, <1>8, <1>9, <1>10, <1>11, <1>12, <1>13, <1>14
  DEF IInv

LEMMA SemHandOffKeeps ==
    ASSUME IInv, NEW t \in Threads, SemSignalSection(t), semq # <<>>,
           UNCHANGED <<condVars, rwVars>>
    PROVE  IInv'
<1>1. /\ t \notin asleep /\ pc[t] = "ss_spin" /\ pc'[t] = "post"
      /\ home[t] = "out"
      /\ \A u \in Threads \ {t} : pc'[u] = pc[u]
      /\ DOMAIN pc' = Threads
  BY DEF IInv, Types, Homes, SemSignalSection, At, Goto
<1>2. /\ asleep' = asleep /\ home' = home /\ reject' = reject
      /\ mowner' = mowner /\ mqueue' = mqueue /\ cvq' = cvq
      /\ count' = count
      /\ rwstate' = rwstate /\ writer' = writer /\ writers' = writers
      /\ rwaiting' = rwaiting /\ rreading' = rreading /\ todo' = todo
  BY DEF SemSignalSection, condVars, mutexVars, rwVars
<1>3. /\ spin' \in [SpinLocks -> Seq(Threads)]
      /\ \A l \in SpinLocks :
            /\ Line(spin'[l])
            /\ ToSet(spin'[l]) =
                   IF l = "sem" THEN ToSet(spin[l]) \ {t} ELSE ToSet(spin[l])
            /\ l # "sem" => \A u \in Threads : Turn(u, l)' <=> Turn(u, l)
  BY SpinLeave DEF IInv, SpinLocks, SemSignalSection
<1>4. PICK w \in Threads :
         /\ w \in ToSet(semq)
         /\ Line(semq') /\ ToSet(semq') = ToSet(semq) \ {w}
         /\ target' = [target EXCEPT ![t] = w]
  BY Leaves DEF IInv, Queues, SemSignalSection
<1>5. /\ pc[w] = "s_wait" /\ ~reject[w] /\ w # t
      /\ target' \in [Threads -> Threads \cup {None, Trampled}]
      /\ target'[t] = w /\ \A u \in Threads \ {t} : target'[u] = target[u]
  BY <1>1, <1>4 DEF IInv, Types, SyncTypeOK, SemInv
<1>6. IsFiniteSet(Permitted) /\ Cardinality(Permitted) \in Nat
  BY USyncAssumption, FS_Subset, FS_CardinalityType DEF Permitted
<1>7. count = 0 /\ count' = 0
  BY PermitsAssumption DEF IInv, Types, SemInv, SemSignalSection
<1>8. Queues' /\ Types'
  BY <1>1, <1>2, <1>3, <1>4, <1>5, <1>6, <1>7
  DEF IInv, Queues, Types, SyncTypeOK
<1>9. Homes'
  BY <1>1, <1>2 DEF IInv, Homes
<1>10. Spinning'
  <2>1. \A u \in Threads : HoldsCv(u)' <=> HoldsCv(u)
    BY <1>1, <1>2 DEF HoldsCv, Parks
  <2>2. \A u \in Threads : Broadcasts(u)' <=> Broadcasts(u)
    BY <1>1, <1>2 DEF Broadcasts
  <2> QED BY <1>1, <1>2, <1>3, <2>1, <2>2 DEF IInv, Spinning, SpinLocks
<1>11. MutexInv'
  BY <1>1, <1>2 DEF IInv, MutexInv, HasMutex, OnMqueue
<1>12. CondInv'
  BY <1>1, <1>2 DEF IInv, CondInv, Parks, OnCvq
<1>13. SemInv'
  <2>1. /\ Permitted' = (Permitted \cup {w}) \ {t}
        /\ t \in Permitted /\ w \notin Permitted
    BY <1>1, <1>2, <1>4, <1>5 DEF Permitted
  <2>2. /\ IsFiniteSet(Permitted \cup {w})
        /\ Cardinality(Permitted \cup {w}) = Cardinality(Permitted) + 1
    BY <1>6, <2>1, FS_AddElement
  <2>3. Cardinality((Permitted \cup {w}) \ {t}) = Cardinality(Permitted \cup {w}) - 1
    BY <2>1, <2>2, FS_RemoveElement
  <2>4. Cardinality(Permitted') = Cardinality(Permitted)
    BY <1>6, <2>1, <2>2, <2>3
  <2> QED BY <1>1, <1>2, <1>4, <1>5, <1>7, <2>4 DEF IInv, SemInv
<1>14. WakeInv'
  <2>1. Queued(w) /\ ~Queued(w)' /\ Waiting(w)
    BY <1>1, <1>4, <1>5 DEF Queued, Waiting
  <2>2. \A u \in Threads : u # w => (Queued(u)' <=> Queued(u))
    BY <1>1, <1>2, <1>4, <1>5 DEF Queued, OnMqueue, OnCvq
  <2> QED BY <1>1, <1>2, <1>5, <2>1, <2>2, DequeueKeepsWakeInv DEF IInv
<1>15. ReaderInv'
  <2>1. AbsReaders' = AbsReaders /\ AbsWriter' = AbsWriter /\ Rest' = Rest
    BY <1>1, <1>2 DEF AbsReaders, AbsWriter, Broadcasting, Rest
  <2>2. \A u \in Threads : LetIn(u)' <=> LetIn(u)
    BY <1>1, <1>2 DEF LetIn
  <2> QED BY <1>1, <1>2, <2>1, <2>2 DEF IInv, ReaderInv
<1>16. WriterInv' /\ StateInv'
  BY <1>1, <1>2 DEF IInv, WriterInv, StateInv, Broadcasts
<1> QED
  BY <1>8, <1>9, <1>10, <1>11, <1>12, <1>13, <1>14, <1>15, <1>16
  DEF IInv

LEMMA SemFreeKeeps ==
    ASSUME IInv, NEW t \in Threads, SemSignalSection(t), semq = <<>>,
           UNCHANGED <<condVars, rwVars>>
    PROVE  IInv'
<1>1. /\ t \notin asleep /\ pc[t] = "ss_spin" /\ pc'[t] = "out"
      /\ home[t] = "out"
      /\ \A u \in Threads \ {t} : pc'[u] = pc[u]
      /\ DOMAIN pc' = Threads
  BY DEF IInv, Types, Homes, SemSignalSection, At, Goto
<1>2. /\ asleep' = asleep /\ home' = home /\ reject' = reject
      /\ target' = target
      /\ mowner' = mowner /\ mqueue' = mqueue /\ cvq' = cvq
      /\ semq' = semq
      /\ rwstate' = rwstate /\ writer' = writer /\ writers' = writers
      /\ rwaiting' = rwaiting /\ rreading' = rreading /\ todo' = todo
  BY DEF SemSignalSection, condVars, mutexVars, rwVars
<1>3. /\ spin' \in [SpinLocks -> Seq(Threads)]
      /\ \A l \in SpinLocks :
            /\ Line(spin'[l])
            /\ ToSet(spin'[l]) =
                   IF l = "sem" THEN ToSet(spin[l]) \ {t} ELSE ToSet(spin[l])
            /\ l # "sem" => \A u \in Threads : Turn(u, l)' <=> Turn(u, l)
  BY SpinLeave DEF IInv, SpinLocks, SemSignalSection
<1>4. IsFiniteSet(Permitted) /\ Cardinality(Permitted) \in Nat
  BY USyncAssumption, FS_Subset, FS_CardinalityType DEF Permitted
<1>5. Permitted' = Permitted \ {t} /\ t \in Permitted
  BY <1>1, <1>2 DEF Permitted
<1>6. /\ Cardinality(Permitted') = Cardinality(Permitted) - 1
      /\ Cardinality(Permitted') \in Nat
  <2>1. Cardinality(Permitted \ {t}) = Cardinality(Permitted) - 1
    BY <1>4, <1>5, FS_RemoveElement
  <2>2. IsFiniteSet(Permitted \ {t})
    BY <1>4, FS_Subset
  <2> QED BY <1>5, <2>1, <2>2, FS_CardinalityType
<1>7. count \in Nat /\ Permits \in Nat /\ count' = count + 1 /\ count' \in 0..Permits
      /\ count' + Cardinality(Permitted') = Permits
  BY <1>4, <1>6, PermitsAssumption DEF IInv, Types, SemInv, SemSignalSection
<1>8. Queues' /\ Types'
  BY <1>1, <1>2, <1>3, <1>4, <1>5, <1>6, <1>7
  DEF IInv, Queues, Types, SyncTypeOK
<1>9. Homes'
  BY <1>1, <1>2 DEF IInv, Homes
<1>10. Spinning'
  <2>1. \A u \in Threads : HoldsCv(u)' <=> HoldsCv(u)
    BY <1>1, <1>2 DEF HoldsCv, Parks
  <2>2. \A u \in Threads : Broadcasts(u)' <=> Broadcasts(u)
    BY <1>1, <1>2 DEF Broadcasts
  <2> QED BY <1>1, <1>2, <1>3, <2>1, <2>2 DEF IInv, Spinning, SpinLocks
<1>11. MutexInv'
  BY <1>1, <1>2 DEF IInv, MutexInv, HasMutex, OnMqueue
<1>12. CondInv'
  BY <1>1, <1>2 DEF IInv, CondInv, Parks, OnCvq
<1>13. SemInv'
  BY <1>1, <1>2, <1>7 DEF IInv, SemInv, SemSignalSection
<1>14. WakeInv'
  BY <1>1, <1>2, <1>3, <1>4, <1>5, <1>6, <1>7
  DEF IInv, WakeInv, Waiting, Posting, Queued, Dequeued,
         OnMqueue, OnCvq
<1>15. ReaderInv'
  <2>1. AbsReaders' = AbsReaders /\ AbsWriter' = AbsWriter /\ Rest' = Rest
    BY <1>1, <1>2 DEF AbsReaders, AbsWriter, Broadcasting, Rest
  <2>2. \A u \in Threads : LetIn(u)' <=> LetIn(u)
    BY <1>1, <1>2 DEF LetIn
  <2> QED BY <1>1, <1>2, <2>1, <2>2 DEF IInv, ReaderInv
<1>16. WriterInv' /\ StateInv'
  BY <1>1, <1>2 DEF IInv, WriterInv, StateInv, Broadcasts
<1> QED
  BY <1>8, <1>9, <1>10, <1>11, <1>12, <1>13, <1>14, <1>15, <1>16
  DEF IInv

LEMMA NoBroadcast ==
    ASSUME IInv, NEW t \in Threads, Turn(t, "rw"), ~Broadcasts(t)
    PROVE  /\ todo = <<>> /\ \A u \in Threads : ~Broadcasts(u)
           /\ AbsReaders = ToSet(rreading)
           /\ AbsWriter = IF rwstate = "WRLOCKED" THEN writer ELSE None
<1>1. \A u \in Threads : ~Broadcasts(u)
  BY DEF IInv, Spinning, Turn
<1>2. todo = <<>>
  BY <1>1 DEF IInv, StateInv
<1> QED BY <1>1, <1>2 DEF AbsReaders, AbsWriter, Broadcasting

(* RemoveFirst closes the gap. *)
LEMMA RemovePresent ==
    ASSUME NEW q, Line(q), NEW t, NEW k \in 1 .. Len(q), q[k] = t
    PROVE  /\ RemoveFirst(q, t) \in Seq(Threads)
           /\ Len(RemoveFirst(q, t)) = Len(q) - 1
           /\ DOMAIN RemoveFirst(q, t) = 1 .. Len(q) - 1
           /\ \A i \in 1 .. Len(q) - 1 :
                 RemoveFirst(q, t)[i] = IF i < k THEN q[i] ELSE q[i + 1]
<1>1. /\ q \in Seq(Threads) /\ Len(q) \in Nat /\ DOMAIN q = 1 .. Len(q)
      /\ \A i \in 1 .. Len(q) : q[i] \in ToSet(q)
  BY LineFacts
<1>2. {i \in 1 .. Len(q) : q[i] = t} = {k}
  BY DEF Line
<1>3. SelectInSeq(q, LAMBDA v : v = t) = k
  BY <1>2 DEF SelectInSeq, Min
<1>4. RemoveFirst(q, t) = RemoveAt(q, k)
  BY <1>3 DEF RemoveFirst
<1> DEFINE a == SubSeq(q, 1, k - 1)
           b == SubSeq(q, k + 1, Len(q))
           r == a \o b
           n == Len(q)
<1>5. n \in Nat /\ k \in 1 .. n
  BY <1>1
<1>6. /\ a \in Seq(Threads) /\ Len(a) = k - 1
      /\ \A i \in 1 .. k - 1 : a[i] = q[i]
  BY <1>1, <1>5
<1>7. /\ b \in Seq(Threads) /\ Len(b) = n - k
      /\ \A i \in 1 .. n - k : b[i] = q[i + k]
  <2>1. \A i \in k + 1 .. n : q[i] \in Threads
    BY <1>1, <1>5
  <2> HIDE DEF b
  <2>2. /\ b \in Seq(Threads)
        /\ Len(b) = IF k + 1 <= n THEN n - (k + 1) + 1 ELSE 0
        /\ \A i \in 1 .. n - (k + 1) + 1 : b[i] = q[k + 1 + i - 1]
    BY <1>5, <2>1, SubSeqProperties DEF b
  <2> HIDE DEF n
  <2>3. Len(b) = n - k
    BY <1>5, <2>2
  <2>4. \A i \in 1 .. n - k : i \in 1 .. n - (k + 1) + 1 /\ k + 1 + i - 1 = i + k
    BY <1>5
  <2> QED BY <2>2, <2>3, <2>4
<1> HIDE DEF a, b
<1>8. /\ r \in Seq(Threads) /\ Len(r) = Len(a) + Len(b)
      /\ \A i \in 1 .. Len(a) + Len(b) :
            r[i] = IF i <= Len(a) THEN a[i] ELSE b[i - Len(a)]
  BY <1>6, <1>7, ConcatProperties
<1> HIDE DEF n
<1>9. Len(a) + Len(b) = n - 1
  BY <1>5, <1>6, <1>7
<1>10. ASSUME NEW i \in 1 .. n - 1
       PROVE  r[i] = IF i < k THEN q[i] ELSE q[i + 1]
  <2>1. r[i] = IF i <= k - 1 THEN a[i] ELSE b[i - (k - 1)]
    BY <1>6, <1>8, <1>9
  <2>2. CASE i < k
    <3>1. i \in 1 .. k - 1 /\ i <= k - 1
      BY <1>5, <2>2
    <3> QED BY <1>6, <2>1, <2>2, <3>1
  <2>3. CASE ~(i < k)
    <3>1. ~(i <= k - 1) /\ i - (k - 1) \in 1 .. n - k /\ (i - (k - 1)) + k = i + 1
      BY <1>5, <2>3
    <3> QED BY <1>7, <2>1, <2>3, <3>1
  <2> QED BY <2>2, <2>3
<1>11. /\ r \in Seq(Threads) /\ Len(r) = Len(q) - 1
       /\ DOMAIN r = 1 .. Len(q) - 1
       /\ \A i \in 1 .. Len(q) - 1 : r[i] = IF i < k THEN q[i] ELSE q[i + 1]
  <2>1. Len(r) = n - 1 /\ DOMAIN r = 1 .. n - 1
    BY <1>8, <1>9
  <2>2. r \in Seq(Threads)
    BY <1>8
  <2>3. \A i \in 1 .. n - 1 : r[i] = IF i < k THEN q[i] ELSE q[i + 1]
    BY <1>10
  <2> QED BY <2>1, <2>2, <2>3 DEF n
<1>12. RemoveAt(q, k) = r
  BY DEF RemoveAt, r, a, b
<1> HIDE DEF r
<1> QED BY <1>4, <1>11, <1>12

LEMMA RemoveFirstLemma ==
    ASSUME NEW q, Line(q), NEW t
    PROVE  /\ Line(RemoveFirst(q, t)) /\ ToSet(RemoveFirst(q, t)) = ToSet(q) \ {t}
<1>1. /\ q \in Seq(Threads) /\ Len(q) \in Nat /\ DOMAIN q = 1 .. Len(q)
      /\ \A i \in 1 .. Len(q) : q[i] \in ToSet(q)
      /\ \A u \in ToSet(q) : \E i \in 1 .. Len(q) : q[i] = u
  BY LineFacts
<1>2. CASE t \notin ToSet(q)
  <2>1. RemoveFirst(q, t) = q
    BY <1>1, <1>2 DEF RemoveFirst
  <2> QED BY <1>2, <2>1
<1>3. CASE t \in ToSet(q)
  <2>1. PICK k \in 1 .. Len(q) : q[k] = t
    BY <1>1, <1>3
  <2> DEFINE r == RemoveFirst(q, t)
  <2>2. /\ r \in Seq(Threads) /\ Len(r) = Len(q) - 1
        /\ DOMAIN r = 1 .. Len(q) - 1
        /\ \A i \in 1 .. Len(q) - 1 : r[i] = IF i < k THEN q[i] ELSE q[i + 1]
    BY <2>1, RemovePresent
  <2> HIDE DEF r
  <2>3. Line(r)
    <3> SUFFICES ASSUME NEW i \in 1 .. Len(r), NEW j \in 1 .. Len(r), r[i] = r[j]
                 PROVE  i = j
      BY <2>2 DEF Line
    <3>1. i \in 1 .. Len(q) /\ i + 1 \in 1 .. Len(q) /\ j \in 1 .. Len(q) /\ j + 1 \in 1 .. Len(q)
      BY <1>1, <2>2
    <3> QED BY <1>1, <2>1, <2>2, <3>1 DEF Line
  <2>4. ASSUME NEW u \in ToSet(r) PROVE u \in ToSet(q) \ {t}
    <3>1. PICK i \in 1 .. Len(q) - 1 : r[i] = u
      BY <2>2 DEF ToSet
    <3>2. /\ i \in 1 .. Len(q) /\ i + 1 \in 1 .. Len(q)
          /\ i < k => i # k
          /\ ~(i < k) => i + 1 # k
      BY <1>1, <2>1
    <3> QED BY <1>1, <2>1, <2>2, <3>1, <3>2 DEF Line
  <2>5. ASSUME NEW u \in ToSet(q), u # t PROVE u \in ToSet(r)
    <3>1. PICK i \in 1 .. Len(q) : q[i] = u
      BY <1>1
    <3>2. CASE i < k
      <4>1. i \in DOMAIN r /\ r[i] = u
        BY <1>1, <2>1, <2>2, <3>1, <3>2
      <4> QED BY <4>1 DEF ToSet
    <3>3. CASE i > k
      <4>1. i - 1 \in DOMAIN r /\ ~(i - 1 < k) /\ (i - 1) + 1 = i
        BY <1>1, <2>1, <2>2, <3>1, <3>3
      <4>2. r[i - 1] = u
        BY <2>2, <3>1, <4>1
      <4> QED BY <4>1, <4>2 DEF ToSet
    <3> QED BY <1>1, <2>1, <2>5, <3>1, <3>2, <3>3
  <2> QED BY <2>3, <2>4, <2>5 DEF r
<1> QED BY <1>2, <1>3

LEMMA ReadEnterKeeps ==
    ASSUME IInv, NEW t \in Threads, ReadLock(t), ReadEnter(t), UNCHANGED <<condVars, semVars>>
    PROVE  IInv'
<1>1. /\ t \notin asleep /\ pc[t] = "rl_spin" /\ pc'[t] = "r_in"
      /\ Turn(t, "rw")
      /\ \A u \in Threads \ {t} : pc'[u] = pc[u]
      /\ DOMAIN pc' = Threads
  BY DEF IInv, Types, ReadLock, Section, ReadEnter, At, Goto
<1>2. /\ asleep' = asleep /\ home' = home /\ target' = target
      /\ reject' = reject
      /\ mowner' = mowner /\ mqueue' = mqueue /\ cvq' = cvq
      /\ count' = count /\ semq' = semq
      /\ rwstate # "WRLOCKED" /\ rwstate' = "RDLOCKED" /\ writers = <<>>
      /\ writer' = writer /\ writers' = writers /\ rwaiting' = rwaiting
      /\ todo' = todo
  BY DEF IInv, Types, ReadLock, ReadEnter, condVars, mutexVars, semVars
<1>3. /\ spin' \in [SpinLocks -> Seq(Threads)]
      /\ \A l \in SpinLocks :
            /\ Line(spin'[l])
            /\ ToSet(spin'[l]) =
                   IF l = "rw" THEN ToSet(spin[l]) \ {t} ELSE ToSet(spin[l])
            /\ l # "rw" => \A u \in Threads : Turn(u, l)' <=> Turn(u, l)
  BY <1>1, SpinLeave DEF IInv, SpinLocks, ReadLock
<1>4. /\ todo = <<>> /\ ToSet(todo) = {} /\ (\A u \in Threads : ~Broadcasts(u))
      /\ AbsReaders = ToSet(rreading)
      /\ AbsWriter = (IF rwstate = "WRLOCKED" THEN writer ELSE None)
  BY <1>1, NoBroadcast, EmptyLine DEF Broadcasts
<1>5. t \notin ToSet(rreading) /\ t \notin ToSet(rwaiting)
  BY <1>1, <1>4 DEF IInv, ReaderInv, LetIn
<1>6. /\ Line(rreading') /\ ToSet(rreading') = ToSet(rreading) \cup {t}
      /\ rreading' # <<>>
  BY <1>5, Joins DEF IInv, Queues, ReadEnter
<1>7. Queues' /\ Types'
  BY <1>1, <1>2, <1>3, <1>4, <1>5, <1>6 DEF IInv, Queues, Types, SyncTypeOK
<1>8. Homes'
  BY <1>1, <1>2 DEF IInv, Homes
<1>9. Spinning'
  <2>1. \A u \in Threads : HoldsCv(u)' <=> HoldsCv(u)
    BY <1>1, <1>2 DEF HoldsCv, Parks
  <2>2. \A u \in Threads : ~Broadcasts(u)'
    BY <1>1, <1>2, <1>4 DEF Broadcasts
  <2> QED BY <1>1, <1>2, <1>3, <1>4, <2>1, <2>2 DEF IInv, Spinning, SpinLocks
<1>10. MutexInv'
  BY <1>1, <1>2 DEF IInv, MutexInv, HasMutex, OnMqueue
<1>11. CondInv'
  BY <1>1, <1>2 DEF IInv, CondInv, Parks, OnCvq
<1>12. SemInv'
  <2>1. Permitted' = Permitted
    BY <1>1, <1>2 DEF Permitted
  <2> QED BY <1>1, <1>2, <2>1 DEF IInv, SemInv
<1>13. WakeInv'
  <2>1. \A u \in Threads : (Queued(u)' <=> Queued(u)) /\ (Waiting(u)' <=> Waiting(u))
    BY <1>1, <1>2 DEF Queued, Waiting, OnMqueue, OnCvq
  <2>2. \A u \in Threads : (Posting(u)' <=> Posting(u)) /\ (Dequeued(u)' <=> Dequeued(u))
    BY <1>1, <1>2 DEF Posting, Dequeued
  <2>3. \A u \in Threads : pc[u] \in {"wake", "b_wake", "late_wake", "bc_wake"} => u # t
    BY <1>1
  <2> QED BY <1>1, <1>2, <1>4, <2>1, <2>2, <2>3 DEF IInv, WakeInv
<1>14. ReaderInv'
  <2>1. AbsReaders' = ToSet(rreading')
    BY <1>2, <1>4 DEF AbsReaders, Broadcasting
  <2>2. \A u \in Threads : u # t => (LetIn(u)' <=> LetIn(u))
    BY <1>1, <1>2 DEF LetIn
  <2>3. LetIn(t)'
    BY <1>1 DEF LetIn
  <2>4. AbsWriter = None
    BY <1>2, <1>4
  <2> QED
    BY <1>1, <1>2, <1>4, <1>5, <1>6, <2>1, <2>2, <2>3, <2>4, USyncAssumption
    DEF IInv, ReaderInv
<1>15. WriterInv' /\ StateInv'
  BY <1>1, <1>2, <1>4, <1>6 DEF IInv, WriterInv, StateInv, Broadcasts
<1> QED
  BY <1>7, <1>8, <1>9, <1>10, <1>11, <1>12, <1>13, <1>14, <1>15
  DEF IInv

LEMMA ReadEnqueueKeeps ==
    ASSUME IInv, NEW t \in Threads, ReadLock(t), ReadEnqueue(t), UNCHANGED <<condVars, semVars>>
    PROVE  IInv'
<1>1. /\ t \notin asleep /\ pc[t] = "rl_spin" /\ pc'[t] = "r_wait"
      /\ Turn(t, "rw")
      /\ \A u \in Threads \ {t} : pc'[u] = pc[u]
      /\ DOMAIN pc' = Threads
      /\ ~reject'[t] /\ \A u \in Threads \ {t} : reject'[u] = reject[u]
      /\ reject' \in [Threads -> BOOLEAN]
  BY DEF IInv, Types, SyncTypeOK, ReadLock, Section, ReadEnqueue, At, Goto
<1>2. /\ asleep' = asleep /\ home' = home /\ target' = target
      /\ mowner' = mowner /\ mqueue' = mqueue /\ cvq' = cvq
      /\ count' = count /\ semq' = semq
      /\ rwstate # "UNLOCKED" /\ rwstate' = rwstate
      /\ writer' = writer /\ writers' = writers /\ rreading' = rreading
      /\ todo' = todo
  BY DEF IInv, StateInv, ReadLock, ReadEnqueue, condVars, mutexVars, semVars
<1>3. /\ spin' \in [SpinLocks -> Seq(Threads)]
      /\ \A l \in SpinLocks :
            /\ Line(spin'[l])
            /\ ToSet(spin'[l]) =
                   IF l = "rw" THEN ToSet(spin[l]) \ {t} ELSE ToSet(spin[l])
            /\ l # "rw" => \A u \in Threads : Turn(u, l)' <=> Turn(u, l)
  BY <1>1, SpinLeave DEF IInv, SpinLocks, ReadLock
<1>4. /\ todo = <<>> /\ ToSet(todo) = {} /\ (\A u \in Threads : ~Broadcasts(u))
      /\ AbsReaders = ToSet(rreading)
      /\ AbsWriter = (IF rwstate = "WRLOCKED" THEN writer ELSE None)
  BY <1>1, NoBroadcast, EmptyLine DEF Broadcasts
<1>5. /\ t \notin ToSet(rreading) /\ t \notin ToSet(rwaiting)
      /\ \A u \in Threads : Posting(u) => target[u] # t
  BY <1>1, <1>4 DEF IInv, ReaderInv, LetIn, WakeInv, Waiting
<1>6. Line(rwaiting') /\ ToSet(rwaiting') = ToSet(rwaiting) \cup {t}
  BY <1>5, Joins DEF IInv, Queues, ReadEnqueue
<1>7. Queues' /\ Types'
  BY <1>1, <1>2, <1>3, <1>4, <1>5, <1>6 DEF IInv, Queues, Types, SyncTypeOK
<1>8. Homes'
  BY <1>1, <1>2 DEF IInv, Homes
<1>9. Spinning'
  <2>1. \A u \in Threads : HoldsCv(u)' <=> HoldsCv(u)
    BY <1>1, <1>2 DEF HoldsCv, Parks
  <2>2. \A u \in Threads : ~Broadcasts(u)'
    BY <1>1, <1>2, <1>4 DEF Broadcasts
  <2> QED BY <1>1, <1>2, <1>3, <1>4, <2>1, <2>2 DEF IInv, Spinning, SpinLocks
<1>10. MutexInv'
  BY <1>1, <1>2 DEF IInv, MutexInv, HasMutex, OnMqueue
<1>11. CondInv'
  BY <1>1, <1>2 DEF IInv, CondInv, Parks, OnCvq
<1>12. SemInv'
  <2>1. Permitted' = Permitted
    BY <1>1, <1>2 DEF Permitted
  <2> QED BY <1>1, <1>2, <2>1 DEF IInv, SemInv
<1>13. WakeInv'
  <2>1. \A u \in Threads : u # t => (Queued(u)' <=> Queued(u)) /\ (Waiting(u)' <=> Waiting(u))
    BY <1>1, <1>2, <1>6 DEF Queued, Waiting, OnMqueue, OnCvq
  <2>2. \A u \in Threads : (Posting(u)' <=> Posting(u)) /\ (Dequeued(u)' <=> Dequeued(u))
    BY <1>1, <1>2 DEF Posting, Dequeued
  <2>3. ~Waiting(t)' /\ \A u \in Threads : pc[u] \in {"wake", "b_wake", "late_wake", "bc_wake"} => u # t
    BY <1>1 DEF Waiting
  <2> QED BY <1>1, <1>2, <1>4, <1>5, <2>1, <2>2, <2>3 DEF IInv, WakeInv
<1>14. ReaderInv'
  <2>1. AbsReaders' = AbsReaders /\ AbsWriter' = AbsWriter
    BY <1>2, <1>4 DEF AbsReaders, AbsWriter, Broadcasting
  <2>2. \A u \in Threads : u # t => (LetIn(u)' <=> LetIn(u))
    BY <1>1, <1>2 DEF LetIn
  <2> QED BY <1>1, <1>2, <1>4, <1>5, <1>6, <2>1, <2>2 DEF IInv, ReaderInv
<1>15. WriterInv' /\ StateInv'
  BY <1>1, <1>2, <1>4, <1>6 DEF IInv, WriterInv, StateInv, Broadcasts
<1> QED
  BY <1>7, <1>8, <1>9, <1>10, <1>11, <1>12, <1>13, <1>14, <1>15
  DEF IInv

LEMMA WriteTakeKeeps ==
    ASSUME IInv, NEW t \in Threads, WriteLock(t), rwstate = "UNLOCKED", UNCHANGED <<condVars, semVars>>
    PROVE  IInv'
<1>1. /\ t \notin asleep /\ pc[t] = "wl_spin" /\ pc'[t] = "w_in"
      /\ Turn(t, "rw")
      /\ \A u \in Threads \ {t} : pc'[u] = pc[u]
      /\ DOMAIN pc' = Threads
  BY DEF IInv, Types, WriteLock, Section, At, Goto
<1>2. /\ asleep' = asleep /\ home' = home /\ target' = target
      /\ reject' = reject
      /\ mowner' = mowner /\ mqueue' = mqueue /\ cvq' = cvq
      /\ count' = count /\ semq' = semq
      /\ rwstate' = "WRLOCKED" /\ writer' = t
      /\ writers' = writers /\ rwaiting' = rwaiting /\ rreading' = rreading
      /\ todo' = todo
  BY DEF IInv, WriteLock, condVars, mutexVars, semVars
<1>3. /\ spin' \in [SpinLocks -> Seq(Threads)]
      /\ \A l \in SpinLocks :
            /\ Line(spin'[l])
            /\ ToSet(spin'[l]) =
                   IF l = "rw" THEN ToSet(spin[l]) \ {t} ELSE ToSet(spin[l])
            /\ l # "rw" => \A u \in Threads : Turn(u, l)' <=> Turn(u, l)
  BY <1>1, SpinLeave DEF IInv, SpinLocks, WriteLock
<1>4. /\ todo = <<>> /\ ToSet(todo) = {} /\ (\A u \in Threads : ~Broadcasts(u))
      /\ AbsReaders = ToSet(rreading)
      /\ AbsWriter = (IF rwstate = "WRLOCKED" THEN writer ELSE None)
  BY <1>1, NoBroadcast, EmptyLine DEF Broadcasts
<1>5. /\ writers = <<>> /\ rwaiting = <<>> /\ rreading = <<>>
      /\ ToSet(writers) = {} /\ ToSet(rwaiting) = {} /\ ToSet(rreading) = {}
  BY EmptyLine DEF IInv, StateInv
<1>6. Queues' /\ Types'
  BY <1>1, <1>2, <1>3, <1>4, <1>5 DEF IInv, Queues, Types, SyncTypeOK
<1>7. Homes'
  BY <1>1, <1>2 DEF IInv, Homes
<1>8. Spinning'
  <2>1. \A u \in Threads : HoldsCv(u)' <=> HoldsCv(u)
    BY <1>1, <1>2 DEF HoldsCv, Parks
  <2>2. \A u \in Threads : ~Broadcasts(u)'
    BY <1>1, <1>2, <1>4 DEF Broadcasts
  <2>3. ASSUME NEW u \in Threads
        PROVE  /\ u \in ToSet(spin'["mp"]) <=> pc'[u] \in {"l_spin", "k_spin", "u_spin"}
               /\ u \in ToSet(spin'["sem"]) <=> pc'[u] \in {"sw_spin", "ss_spin"}
    BY <1>1, <1>2, <1>3 DEF IInv, Spinning, SpinLocks
  <2>4. ASSUME NEW u \in Threads
        PROVE  u \in ToSet(spin'["cv"]) <=>
                   pc'[u] \in {"c_spin", "s_spin", "b_spin"} \/ HoldsCv(u)'
    BY <1>1, <1>2, <1>3, <1>4, <2>1 DEF IInv, Spinning, SpinLocks
  <2>5. ASSUME NEW u \in Threads
        PROVE  u \in ToSet(spin'["rw"]) <=>
                   \/ pc'[u] \in {"rl_spin", "wl_spin", "ul_spin", "dg_spin"}
                   \/ Broadcasts(u)'
    BY <1>1, <1>2, <1>3, <1>4, <2>2 DEF IInv, Spinning, SpinLocks
  <2>6. ASSUME NEW u \in Threads
        PROVE  (HoldsCv(u)' => Turn(u, "cv")') /\ (Broadcasts(u)' => Turn(u, "rw")')
    BY <1>1, <1>2, <1>3, <1>4, <2>1, <2>2 DEF IInv, Spinning, SpinLocks
  <2> QED BY <2>3, <2>4, <2>5, <2>6 DEF Spinning
<1>9. MutexInv'
  BY <1>1, <1>2 DEF IInv, MutexInv, HasMutex, OnMqueue
<1>10. CondInv'
  BY <1>1, <1>2 DEF IInv, CondInv, Parks, OnCvq
<1>11. SemInv'
  <2>1. Permitted' = Permitted
    BY <1>1, <1>2 DEF Permitted
  <2> QED BY <1>1, <1>2, <2>1 DEF IInv, SemInv
<1>12. WakeInv'
  <2>1. \A u \in Threads : (Queued(u)' <=> Queued(u)) /\ (Waiting(u)' <=> Waiting(u))
    BY <1>1, <1>2 DEF Queued, Waiting, OnMqueue, OnCvq
  <2>2. \A u \in Threads : (Posting(u)' <=> Posting(u)) /\ (Dequeued(u)' <=> Dequeued(u))
    BY <1>1, <1>2 DEF Posting, Dequeued
  <2>3. \A u \in Threads : pc[u] \in {"wake", "b_wake", "late_wake", "bc_wake"} => u # t
    BY <1>1
  <2> QED BY <1>1, <1>2, <1>4, <2>1, <2>2, <2>3 DEF IInv, WakeInv
<1>13. ReaderInv'
  <2>1. \A u \in Threads : pc'[u] # "r_wait" /\ pc'[u] # "r_in"
    BY <1>1, <1>4, <1>5 DEF IInv, ReaderInv
  <2>2. AbsWriter = None
    BY <1>4
  <2>3. \A u \in Threads : ~(pc'[u] = "dg_spin" /\ home'[u] = "r_in")
    BY <1>1, <1>2, <1>4, <1>5, <2>2, USyncAssumption DEF IInv, ReaderInv
  <2> QED BY <1>2, <1>5, <2>1, <2>3 DEF ReaderInv
<1>14. WriterInv' /\ StateInv'
  BY <1>1, <1>2, <1>4, <1>5 DEF IInv, WriterInv, StateInv, Broadcasts
<1> QED
  BY <1>6, <1>7, <1>8, <1>9, <1>10, <1>11, <1>12, <1>13, <1>14
  DEF IInv

LEMMA WriteEnqueueKeeps ==
    ASSUME IInv, NEW t \in Threads, WriteLock(t), rwstate # "UNLOCKED", UNCHANGED <<condVars, semVars>>
    PROVE  IInv'
<1>1. /\ t \notin asleep /\ pc[t] = "wl_spin" /\ pc'[t] = "w_wait"
      /\ Turn(t, "rw")
      /\ \A u \in Threads \ {t} : pc'[u] = pc[u]
      /\ DOMAIN pc' = Threads
      /\ ~reject'[t] /\ \A u \in Threads \ {t} : reject'[u] = reject[u]
      /\ reject' \in [Threads -> BOOLEAN]
  BY DEF IInv, Types, SyncTypeOK, WriteLock, Section, At, Goto
<1>2. /\ asleep' = asleep /\ home' = home /\ target' = target
      /\ mowner' = mowner /\ mqueue' = mqueue /\ cvq' = cvq
      /\ count' = count /\ semq' = semq
      /\ rwstate' = rwstate /\ writer' = writer
      /\ rwaiting' = rwaiting /\ rreading' = rreading /\ todo' = todo
  BY DEF IInv, WriteLock, condVars, mutexVars, semVars
<1>3. /\ spin' \in [SpinLocks -> Seq(Threads)]
      /\ \A l \in SpinLocks :
            /\ Line(spin'[l])
            /\ ToSet(spin'[l]) =
                   IF l = "rw" THEN ToSet(spin[l]) \ {t} ELSE ToSet(spin[l])
            /\ l # "rw" => \A u \in Threads : Turn(u, l)' <=> Turn(u, l)
  BY <1>1, SpinLeave DEF IInv, SpinLocks, WriteLock
<1>4. /\ todo = <<>> /\ ToSet(todo) = {} /\ (\A u \in Threads : ~Broadcasts(u))
      /\ AbsReaders = ToSet(rreading)
      /\ AbsWriter = (IF rwstate = "WRLOCKED" THEN writer ELSE None)
  BY <1>1, NoBroadcast, EmptyLine DEF Broadcasts
<1>5. /\ t \notin ToSet(writers) /\ t \notin ToSet(rwaiting)
      /\ rwstate = "WRLOCKED" => writer # t
      /\ \A u \in Threads : Posting(u) => target[u] # t
  BY <1>1, <1>4 DEF IInv, WriterInv, WakeInv, Waiting, ReaderInv
<1>6. Line(writers') /\ ToSet(writers') = ToSet(writers) \cup {t}
  BY <1>5, Joins DEF IInv, Queues, WriteLock
<1>7. Queues' /\ Types'
  BY <1>1, <1>2, <1>3, <1>4, <1>5, <1>6 DEF IInv, Queues, Types, SyncTypeOK
<1>8. Homes'
  BY <1>1, <1>2 DEF IInv, Homes
<1>9. Spinning'
  <2>1. \A u \in Threads : HoldsCv(u)' <=> HoldsCv(u)
    BY <1>1, <1>2 DEF HoldsCv, Parks
  <2>2. \A u \in Threads : ~Broadcasts(u)'
    BY <1>1, <1>2, <1>4 DEF Broadcasts
  <2> QED BY <1>1, <1>2, <1>3, <1>4, <2>1, <2>2 DEF IInv, Spinning, SpinLocks
<1>10. MutexInv'
  BY <1>1, <1>2 DEF IInv, MutexInv, HasMutex, OnMqueue
<1>11. CondInv'
  BY <1>1, <1>2 DEF IInv, CondInv, Parks, OnCvq
<1>12. SemInv'
  <2>1. Permitted' = Permitted
    BY <1>1, <1>2 DEF Permitted
  <2> QED BY <1>1, <1>2, <2>1 DEF IInv, SemInv
<1>13. WakeInv'
  <2>1. Queued(t)' /\ Waiting(t)'
    BY <1>1, <1>2, <1>6 DEF Queued, Waiting, OnMqueue
  <2>2. \A u \in Threads : u # t => (Queued(u)' <=> Queued(u)) /\ (Waiting(u)' <=> Waiting(u))
    BY <1>1, <1>2, <1>6 DEF Queued, Waiting, OnMqueue, OnCvq
  <2>3. \A u \in Threads : (Posting(u)' <=> Posting(u)) /\ (Dequeued(u)' <=> Dequeued(u))
    BY <1>1, <1>2, <1>6 DEF Posting, Dequeued
  <2> QED BY <1>5, <1>1, <1>2, <1>6, <2>1, <2>2, <2>3 DEF IInv, WakeInv
<1>14. ReaderInv'
  <2>1. AbsReaders' = AbsReaders /\ AbsWriter' = AbsWriter /\ Rest' = Rest
    BY <1>1, <1>2, <1>4 DEF AbsReaders, AbsWriter, Broadcasting, Rest
  <2>2. \A u \in Threads : LetIn(u)' <=> LetIn(u)
    BY <1>1, <1>2 DEF LetIn
  <2> QED BY <1>1, <1>2, <1>5, <2>1, <2>2 DEF IInv, ReaderInv
<1>15. WriterInv' /\ StateInv'
  BY <1>1, <1>2, <1>4, <1>5, <1>6 DEF IInv, WriterInv, StateInv, Broadcasts
<1> QED
  BY <1>7, <1>8, <1>9, <1>10, <1>11, <1>12, <1>13, <1>14, <1>15
  DEF IInv

LEMMA UnlockNothingKeeps ==
    ASSUME IInv, NEW t \in Threads, UnlockNothing(t), UNCHANGED <<condVars, semVars>>
    PROVE  IInv'
<1>1. /\ t \notin asleep /\ pc[t] = "ul_spin" /\ pc'[t] = "out"
      /\ Turn(t, "rw")
      /\ \A u \in Threads \ {t} : pc'[u] = pc[u]
      /\ DOMAIN pc' = Threads
  BY DEF IInv, Types, Homes, UnlockNothing, Section, At, Goto
<1>2. /\ asleep' = asleep /\ home' = home /\ target' = target
      /\ reject' = reject
      /\ mowner' = mowner /\ mqueue' = mqueue /\ cvq' = cvq
      /\ count' = count /\ semq' = semq
      /\ rwstate' = rwstate /\ writer' = writer /\ writers' = writers
      /\ rwaiting' = rwaiting /\ todo' = todo
  BY DEF UnlockNothing, condVars, mutexVars, semVars
<1>3. /\ spin' \in [SpinLocks -> Seq(Threads)]
      /\ \A l \in SpinLocks :
            /\ Line(spin'[l])
            /\ ToSet(spin'[l]) =
                   IF l = "rw" THEN ToSet(spin[l]) \ {t} ELSE ToSet(spin[l])
            /\ l # "rw" => \A u \in Threads : Turn(u, l)' <=> Turn(u, l)
  BY <1>1, SpinLeave DEF IInv, SpinLocks, UnlockNothing
<1>4. /\ todo = <<>> /\ ToSet(todo) = {} /\ (\A u \in Threads : ~Broadcasts(u))
      /\ AbsReaders = ToSet(rreading)
      /\ AbsWriter = (IF rwstate = "WRLOCKED" THEN writer ELSE None)
  BY <1>1, NoBroadcast, EmptyLine DEF Broadcasts
<1>5. /\ Line(rreading') /\ ToSet(rreading') = ToSet(rreading) \ {t}
      /\ rwstate # "RDLOCKED" => rreading' = rreading
      /\ rwstate = "RDLOCKED" => rreading' # <<>>
      /\ rwstate = "WRLOCKED" => writer # t
  <2>1. CASE rwstate = "RDLOCKED" /\ t \notin ToSet(rreading)
    <3>1. rreading' = rreading
      BY <2>1, LineFacts DEF IInv, Queues, UnlockNothing, RemoveFirst
    <3> QED BY <1>4, <2>1, <3>1 DEF IInv, Queues, StateInv
  <2>2. CASE rwstate = "RDLOCKED" /\ Len(rreading) > 1
    <3>1. rreading' = RemoveFirst(rreading, t)
      BY <2>2 DEF UnlockNothing
    <3>2. Line(rreading') /\ ToSet(rreading') = ToSet(rreading) \ {t}
      BY <3>1, RemoveFirstLemma DEF IInv, Queues
    <3>3. PICK i \in {1, 2} : i \in 1 .. Len(rreading) /\ rreading[i] # t
      BY <2>2, LineFacts DEF IInv, Queues, Line
    <3>4. rreading[i] \in ToSet(rreading')
      BY <3>2, <3>3, LineFacts DEF IInv, Queues
    <3> QED BY <2>2, <3>2, <3>4, EmptyLine
  <2>3. CASE rwstate # "RDLOCKED"
    <3>1. rreading' = rreading /\ (rwstate = "WRLOCKED" => writer # t)
      BY <2>3 DEF UnlockNothing
    <3>2. ToSet(rreading) = {}
      BY <2>3, EmptyLine DEF IInv, Types, StateInv
    <3> QED BY <2>3, <3>1, <3>2 DEF IInv, Queues
  <2> QED BY <2>1, <2>2, <2>3 DEF UnlockNothing
<1>6. Queues' /\ Types'
  BY <1>1, <1>2, <1>3, <1>4, <1>5 DEF IInv, Queues, Types, SyncTypeOK
<1>7. Homes'
  BY <1>1, <1>2 DEF IInv, Homes
<1>8. Spinning'
  <2>1. \A u \in Threads : HoldsCv(u)' <=> HoldsCv(u)
    BY <1>1, <1>2 DEF HoldsCv, Parks
  <2>2. \A u \in Threads : ~Broadcasts(u)'
    BY <1>1, <1>2, <1>4 DEF Broadcasts
  <2> QED BY <1>1, <1>2, <1>3, <1>4, <2>1, <2>2 DEF IInv, Spinning, SpinLocks
<1>9. MutexInv'
  BY <1>1, <1>2 DEF IInv, MutexInv, HasMutex, OnMqueue
<1>10. CondInv'
  BY <1>1, <1>2 DEF IInv, CondInv, Parks, OnCvq
<1>11. SemInv'
  <2>1. Permitted' = Permitted
    BY <1>1, <1>2 DEF Permitted
  <2> QED BY <1>1, <1>2, <2>1 DEF IInv, SemInv
<1>12. WakeInv'
  <2>1. \A u \in Threads : (Queued(u)' <=> Queued(u)) /\ (Waiting(u)' <=> Waiting(u))
    BY <1>1, <1>2 DEF Queued, Waiting, OnMqueue, OnCvq
  <2>2. \A u \in Threads : (Posting(u)' <=> Posting(u)) /\ (Dequeued(u)' <=> Dequeued(u))
    BY <1>1, <1>2 DEF Posting, Dequeued
  <2>3. \A u \in Threads : pc[u] \in {"wake", "b_wake", "late_wake", "bc_wake"} => u # t
    BY <1>1
  <2> QED BY <1>1, <1>2, <1>4, <2>1, <2>2, <2>3 DEF IInv, WakeInv
<1>13. ReaderInv'
  <2>1. AbsReaders' = ToSet(rreading') /\ AbsWriter' = AbsWriter /\ Rest' = Rest
    BY <1>1, <1>2, <1>4 DEF AbsReaders, AbsWriter, Broadcasting, Rest
  <2>2. \A u \in Threads : u # t => (LetIn(u)' <=> LetIn(u))
    BY <1>1, <1>2 DEF LetIn
  <2> QED BY <1>1, <1>2, <1>4, <1>5, <2>1, <2>2 DEF IInv, ReaderInv
<1>14. WriterInv' /\ StateInv'
  BY <1>1, <1>2, <1>4, <1>5 DEF IInv, WriterInv, StateInv, Broadcasts
<1> QED
  BY <1>6, <1>7, <1>8, <1>9, <1>10, <1>11, <1>12, <1>13, <1>14
  DEF IInv

LEMMA LastHolder ==
    ASSUME IInv, NEW t \in Threads, UnlockLast(t)
    PROVE  /\ t \notin asleep /\ pc[t] = "ul_spin" /\ home[t] = "out" /\ Turn(t, "rw")
           /\ todo = <<>> /\ ToSet(todo) = {}
           /\ \A u \in Threads : ~Broadcasts(u)
           /\ rwstate # "UNLOCKED"
           /\ rreading' = <<>> /\ ToSet(rreading') = {} /\ Line(rreading')
           /\ \A u \in Threads : u \in AbsReaders \/ AbsWriter = u => u = t
           /\ rwstate = "WRLOCKED" => writer = t
           /\ \A u \in ToSet(rwaiting) : u \in Threads /\ pc[u] = "r_wait" /\ ~reject[u]
<1>1. t \notin asleep /\ pc[t] = "ul_spin" /\ home[t] = "out" /\ Turn(t, "rw")
  BY DEF IInv, Homes, UnlockLast, Section, At
<1>2. /\ todo = <<>> /\ ToSet(todo) = {} /\ (\A u \in Threads : ~Broadcasts(u))
      /\ AbsReaders = ToSet(rreading)
      /\ AbsWriter = (IF rwstate = "WRLOCKED" THEN writer ELSE None)
  BY <1>1, NoBroadcast, EmptyLine DEF Broadcasts
<1>3. CASE rwstate = "RDLOCKED" /\ rreading = <<t>>
  <2>1. ToSet(rreading) = {t}
    BY <1>3 DEF ToSet
  <2>2. rreading' = <<>>
    BY <1>3 DEF UnlockLast
  <2> QED
    BY <1>1, <1>2, <1>3, <2>1, <2>2, EmptyLine, LineFacts, USyncAssumption
    DEF IInv, Queues, ReaderInv
<1>4. CASE rwstate = "WRLOCKED" /\ writer = t
  <2>1. rreading = <<>> /\ rreading' = <<>>
    BY <1>4 DEF IInv, StateInv, UnlockLast
  <2> QED
    BY <1>1, <1>2, <1>4, <2>1, EmptyLine, LineFacts DEF IInv, Queues, ReaderInv
<1> QED BY <1>3, <1>4 DEF UnlockLast

LEMMA PassToWriterKeeps ==
    ASSUME IInv, NEW t \in Threads, UnlockLast(t), PassToWriter(t), UNCHANGED <<condVars, semVars>>
    PROVE  IInv'
<1>1. /\ t \notin asleep /\ pc[t] = "ul_spin" /\ home[t] = "out"
      /\ Turn(t, "rw")
      /\ todo = <<>> /\ ToSet(todo) = {} /\ \A u \in Threads : ~Broadcasts(u)
      /\ rreading' = <<>> /\ ToSet(rreading') = {} /\ Line(rreading')
      /\ \A u \in Threads : u \in AbsReaders \/ AbsWriter = u => u = t
      /\ rwstate = "WRLOCKED" => writer = t
  BY LastHolder
<1>2. /\ pc'[t] = "late_post"
      /\ \A u \in Threads \ {t} : pc'[u] = pc[u]
      /\ DOMAIN pc' = Threads
  BY DEF IInv, Types, PassToWriter, Goto
<1>3. /\ asleep' = asleep /\ home' = home /\ reject' = reject
      /\ mowner' = mowner /\ mqueue' = mqueue /\ cvq' = cvq
      /\ count' = count /\ semq' = semq
      /\ rwstate' = "WRLOCKED" /\ rwaiting' = rwaiting /\ todo' = todo
  BY DEF UnlockLast, PassToWriter, condVars, mutexVars, semVars
<1>4. /\ spin' \in [SpinLocks -> Seq(Threads)]
      /\ \A l \in SpinLocks :
            /\ Line(spin'[l])
            /\ ToSet(spin'[l]) =
                   IF l = "rw" THEN ToSet(spin[l]) \ {t} ELSE ToSet(spin[l])
            /\ l # "rw" => \A u \in Threads : Turn(u, l)' <=> Turn(u, l)
  BY <1>1, SpinLeave DEF IInv, SpinLocks, PassToWriter
<1>5. PICK w \in Threads :
         /\ w \in ToSet(writers)
         /\ Line(writers') /\ ToSet(writers') = ToSet(writers) \ {w}
         /\ writer' = w /\ target' = [target EXCEPT ![t] = w]
  BY Leaves DEF IInv, Queues, PassToWriter
<1>6. /\ pc[w] = "w_wait" /\ ~reject[w] /\ w # t
      /\ target' \in [Threads -> Threads \cup {None, Trampled}]
      /\ target'[t] = w /\ \A u \in Threads \ {t} : target'[u] = target[u]
  BY <1>1, <1>5 DEF IInv, Types, SyncTypeOK, WriterInv
<1>7. Queues' /\ Types'
  BY <1>1, <1>2, <1>3, <1>4, <1>5, <1>6 DEF IInv, Queues, Types, SyncTypeOK
<1>8. Homes'
  BY <1>1, <1>2, <1>3 DEF IInv, Homes
<1>9. Spinning'
  <2>1. \A u \in Threads : HoldsCv(u)' <=> HoldsCv(u)
    BY <1>1, <1>2, <1>3 DEF HoldsCv, Parks
  <2>2. \A u \in Threads : ~Broadcasts(u)'
    BY <1>1, <1>2, <1>3 DEF Broadcasts
  <2> QED BY <1>1, <1>2, <1>3, <1>4, <2>1, <2>2 DEF IInv, Spinning, SpinLocks
<1>10. MutexInv'
  BY <1>1, <1>2, <1>3 DEF IInv, MutexInv, HasMutex, OnMqueue
<1>11. CondInv'
  BY <1>1, <1>2, <1>3 DEF IInv, CondInv, Parks, OnCvq
<1>12. SemInv'
  <2>1. Permitted' = Permitted
    BY <1>1, <1>2, <1>3 DEF Permitted
  <2> QED BY <1>1, <1>2, <1>3, <2>1 DEF IInv, SemInv
<1>13. WakeInv'
  <2>1. Queued(w) /\ ~Queued(w)' /\ Waiting(w)
    BY <1>2, <1>3, <1>5, <1>6, <1>1 DEF Queued, Waiting
  <2>2. \A u \in Threads : u # w => (Queued(u)' <=> Queued(u))
    BY <1>1, <1>2, <1>3, <1>5, <1>6 DEF Queued, OnMqueue, OnCvq
  <2> QED BY <1>1, <1>2, <1>3, <1>6, <2>1, <2>2, DequeueKeepsWakeInv DEF IInv
<1>14. ReaderInv'
  <2>1. \A u \in Threads : u # t => (LetIn(u)' <=> LetIn(u))
    BY <1>2, <1>3 DEF LetIn
  <2>2. AbsReaders = ToSet(rreading)
    BY <1>1 DEF AbsReaders, Broadcasting
  <2> QED BY <1>1, <1>2, <1>3, <2>1, <2>2 DEF IInv, ReaderInv
<1>15. WriterInv' /\ StateInv'
  BY <1>1, <1>2, <1>3, <1>5, <1>6 DEF IInv, WriterInv, StateInv, Broadcasts
<1> QED
  BY <1>7, <1>8, <1>9, <1>10, <1>11, <1>12, <1>13, <1>14, <1>15
  DEF IInv

LEMMA PassToReadersKeeps ==
    ASSUME IInv, NEW t \in Threads, UnlockLast(t), PassToReaders(t), UNCHANGED <<condVars, semVars>>
    PROVE  IInv'
<1>1. /\ t \notin asleep /\ pc[t] = "ul_spin" /\ home[t] = "out"
      /\ Turn(t, "rw")
      /\ todo = <<>> /\ ToSet(todo) = {} /\ \A u \in Threads : ~Broadcasts(u)
      /\ rreading' = <<>> /\ ToSet(rreading') = {} /\ Line(rreading')
      /\ \A u \in Threads : u \in AbsReaders \/ AbsWriter = u => u = t
      /\ rwstate = "WRLOCKED" => writer = t
  BY LastHolder
<1>2. /\ pc'[t] = "bc"
      /\ \A u \in Threads \ {t} : pc'[u] = pc[u]
      /\ DOMAIN pc' = Threads
  BY DEF IInv, Types, PassToReaders, Goto
<1>3. /\ asleep' = asleep /\ home' = home /\ reject' = reject /\ spin' = spin
      /\ target' = target
      /\ mowner' = mowner /\ mqueue' = mqueue /\ cvq' = cvq
      /\ count' = count /\ semq' = semq
      /\ rwstate # "UNLOCKED" /\ rwstate' = rwstate /\ rwaiting' = rwaiting
      /\ writer' = writer /\ writers' = writers
      /\ todo' = rwaiting /\ rwaiting # <<>>
  BY LastHolder DEF UnlockLast, PassToReaders, condVars, mutexVars, semVars
<1>4. \A u \in ToSet(rwaiting) : u \in Threads /\ pc[u] = "r_wait" /\ ~reject[u]
  BY LastHolder
<1>5. Queues' /\ Types'
  BY <1>1, <1>2, <1>3, <1>4 DEF IInv, Queues, Types, SyncTypeOK
<1>6. Homes'
  BY <1>1, <1>2, <1>3 DEF IInv, Homes
<1>7. Spinning'
  <2>1. \A u \in Threads : HoldsCv(u)' <=> HoldsCv(u)
    BY <1>1, <1>2, <1>3 DEF HoldsCv, Parks
  <2>2. \A u \in Threads : Broadcasts(u)' <=> u = t
    BY <1>1, <1>2, <1>3 DEF Broadcasts
  <2>3. \A u \in Threads, l \in SpinLocks : Turn(u, l)' <=> Turn(u, l)
    BY <1>3 DEF Turn
  <2> QED BY <1>1, <1>2, <1>3, <2>1, <2>2, <2>3 DEF IInv, Spinning, SpinLocks
<1>8. MutexInv'
  BY <1>1, <1>2, <1>3 DEF IInv, MutexInv, HasMutex, OnMqueue
<1>9. CondInv'
  BY <1>1, <1>2, <1>3 DEF IInv, CondInv, Parks, OnCvq
<1>10. SemInv'
  <2>1. Permitted' = Permitted
    BY <1>1, <1>2, <1>3 DEF Permitted
  <2> QED BY <1>1, <1>2, <1>3, <2>1 DEF IInv, SemInv
<1>11. WakeInv'
  <2>1. \A u \in Threads : (Queued(u)' <=> Queued(u)) /\ (Waiting(u)' <=> Waiting(u))
    BY <1>1, <1>2, <1>3 DEF Queued, Waiting, OnMqueue, OnCvq
  <2>2. \A u \in Threads : (Posting(u)' <=> Posting(u)) /\ (Dequeued(u)' <=> Dequeued(u))
    BY <1>1, <1>2, <1>3 DEF Posting, Dequeued
  <2>3. \A u \in Threads : pc[u] \in {"wake", "b_wake", "late_wake", "bc_wake"} => u # t
    BY <1>1
  <2> QED BY <1>1, <1>2, <1>3, <2>1, <2>2, <2>3 DEF IInv, WakeInv
<1>12. ReaderInv'
  <2>1. \A u \in Threads : pc[u] # "bc_wake" /\ pc'[u] # "bc_wake"
    BY <1>1, <1>2 DEF Broadcasts
  <2>2. Rest' = ToSet(rwaiting)
    BY <1>3, <2>1 DEF Rest
  <2>3. AbsReaders = ToSet(rreading)
    BY <1>1 DEF AbsReaders, Broadcasting
  <2> QED BY <1>1, <1>2, <1>3, <1>4, <2>2, <2>3 DEF IInv, ReaderInv
<1>13. WriterInv' /\ StateInv'
  BY <1>1, <1>2, <1>3, <1>4, EmptyLine
  DEF IInv, WriterInv, StateInv, Broadcasts
<1> QED
  BY <1>5, <1>6, <1>7, <1>8, <1>9, <1>10, <1>11, <1>12, <1>13
  DEF IInv

LEMMA PassToNobodyKeeps ==
    ASSUME IInv, NEW t \in Threads, UnlockLast(t), PassToNobody(t), UNCHANGED <<condVars, semVars>>
    PROVE  IInv'
<1>1. /\ t \notin asleep /\ pc[t] = "ul_spin" /\ home[t] = "out"
      /\ Turn(t, "rw")
      /\ todo = <<>> /\ ToSet(todo) = {} /\ \A u \in Threads : ~Broadcasts(u)
      /\ rreading' = <<>> /\ ToSet(rreading') = {} /\ Line(rreading')
      /\ \A u \in Threads : u \in AbsReaders \/ AbsWriter = u => u = t
      /\ rwstate = "WRLOCKED" => writer = t
  BY LastHolder
<1>2. /\ pc'[t] = "out"
      /\ \A u \in Threads \ {t} : pc'[u] = pc[u]
      /\ DOMAIN pc' = Threads
  BY <1>1 DEF IInv, Types, PassToNobody, Goto
<1>3. /\ asleep' = asleep /\ home' = home /\ reject' = reject
      /\ target' = target
      /\ mowner' = mowner /\ mqueue' = mqueue /\ cvq' = cvq
      /\ count' = count /\ semq' = semq
      /\ rwstate' = "UNLOCKED" /\ rwaiting' = rwaiting /\ rwaiting = <<>>
      /\ ToSet(rwaiting) = {}
      /\ writer' = writer /\ writers' = writers /\ writers = <<>>
      /\ todo' = todo
      /\ ToSet(writers) = {}
  BY EmptyLine DEF UnlockLast, PassToNobody, condVars, mutexVars, semVars
<1>4. /\ spin' \in [SpinLocks -> Seq(Threads)]
      /\ \A l \in SpinLocks :
            /\ Line(spin'[l])
            /\ ToSet(spin'[l]) =
                   IF l = "rw" THEN ToSet(spin[l]) \ {t} ELSE ToSet(spin[l])
            /\ l # "rw" => \A u \in Threads : Turn(u, l)' <=> Turn(u, l)
  BY <1>1, SpinLeave DEF IInv, SpinLocks, PassToNobody
<1>5. Queues' /\ Types'
  BY <1>1, <1>2, <1>3, <1>4 DEF IInv, Queues, Types, SyncTypeOK
<1>6. Homes'
  BY <1>1, <1>2, <1>3 DEF IInv, Homes
<1>7. Spinning'
  <2>1. \A u \in Threads : HoldsCv(u)' <=> HoldsCv(u)
    BY <1>1, <1>2, <1>3 DEF HoldsCv, Parks
  <2>2. \A u \in Threads : ~Broadcasts(u)'
    BY <1>1, <1>2, <1>3 DEF Broadcasts
  <2> QED BY <1>1, <1>2, <1>3, <1>4, <2>1, <2>2 DEF IInv, Spinning, SpinLocks
<1>8. MutexInv'
  BY <1>1, <1>2, <1>3 DEF IInv, MutexInv, HasMutex, OnMqueue
<1>9. CondInv'
  BY <1>1, <1>2, <1>3 DEF IInv, CondInv, Parks, OnCvq
<1>10. SemInv'
  <2>1. Permitted' = Permitted
    BY <1>1, <1>2, <1>3 DEF Permitted
  <2> QED BY <1>1, <1>2, <1>3, <2>1 DEF IInv, SemInv
<1>11. WakeInv'
  <2>1. \A u \in Threads : (Queued(u)' <=> Queued(u)) /\ (Waiting(u)' <=> Waiting(u))
    BY <1>1, <1>2, <1>3 DEF Queued, Waiting, OnMqueue, OnCvq
  <2>2. \A u \in Threads : (Posting(u)' <=> Posting(u)) /\ (Dequeued(u)' <=> Dequeued(u))
    BY <1>1, <1>2, <1>3 DEF Posting, Dequeued
  <2>3. \A u \in Threads : pc[u] \in {"wake", "b_wake", "late_wake", "bc_wake"} => u # t
    BY <1>1
  <2> QED BY <1>1, <1>2, <1>3, <2>1, <2>2, <2>3 DEF IInv, WakeInv
<1>12. ReaderInv'
  <2>1. \A u \in Threads : pc[u] # "r_wait"
    BY <1>1, <1>2, <1>3, LastHolder, LineFacts
    DEF IInv, ReaderInv, AbsReaders, Broadcasting
  <2> QED BY <1>1, <1>2, <1>3, <2>1 DEF IInv, ReaderInv
<1>13. WriterInv' /\ StateInv'
  BY <1>1, <1>2, <1>3 DEF IInv, WriterInv, StateInv, Broadcasts
<1> QED
  BY <1>5, <1>6, <1>7, <1>8, <1>9, <1>10, <1>11, <1>12, <1>13
  DEF IInv

LEMMA DowngradeNothingKeeps ==
    ASSUME IInv, NEW t \in Threads, DowngradeNothing(t), UNCHANGED <<condVars, semVars>>
    PROVE  IInv'
<1>1. /\ t \notin asleep /\ pc[t] = "dg_spin" /\ pc'[t] = home[t]
      /\ home[t] \in {"out", "r_in"}
      /\ Turn(t, "rw")
      /\ \A u \in Threads \ {t} : pc'[u] = pc[u]
      /\ DOMAIN pc' = Threads
  BY DEF IInv, Types, Homes, DowngradeNothing, Section, At, Goto
<1>2. /\ asleep' = asleep /\ home' = home /\ target' = target
      /\ reject' = reject
      /\ mowner' = mowner /\ mqueue' = mqueue /\ cvq' = cvq
      /\ count' = count /\ semq' = semq
      /\ rwstate = "WRLOCKED" => writer # t
      /\ rwstate' = rwstate /\ writer' = writer /\ writers' = writers
      /\ rwaiting' = rwaiting /\ rreading' = rreading /\ todo' = todo
  BY DEF DowngradeNothing, rwVars, condVars, mutexVars, semVars
<1>3. /\ spin' \in [SpinLocks -> Seq(Threads)]
      /\ \A l \in SpinLocks :
            /\ Line(spin'[l])
            /\ ToSet(spin'[l]) =
                   IF l = "rw" THEN ToSet(spin[l]) \ {t} ELSE ToSet(spin[l])
            /\ l # "rw" => \A u \in Threads : Turn(u, l)' <=> Turn(u, l)
  BY <1>1, SpinLeave DEF IInv, SpinLocks, DowngradeNothing
<1>4. /\ todo = <<>> /\ ToSet(todo) = {} /\ (\A u \in Threads : ~Broadcasts(u))
      /\ AbsReaders = ToSet(rreading)
      /\ AbsWriter = (IF rwstate = "WRLOCKED" THEN writer ELSE None)
  BY <1>1, NoBroadcast, EmptyLine DEF Broadcasts
<1>5. Queues' /\ Types'
  BY <1>1, <1>2, <1>3, <1>4 DEF IInv, Queues, Types, SyncTypeOK
<1>6. Homes'
  BY <1>1, <1>2 DEF IInv, Homes
<1>7. Spinning'
  <2>1. \A u \in Threads : HoldsCv(u)' <=> HoldsCv(u)
    BY <1>1, <1>2 DEF HoldsCv, Parks
  <2>2. \A u \in Threads : ~Broadcasts(u)'
    BY <1>1, <1>2, <1>4 DEF Broadcasts
  <2>3. ASSUME NEW u \in Threads
        PROVE  /\ u \in ToSet(spin'["mp"]) <=> pc'[u] \in {"l_spin", "k_spin", "u_spin"}
               /\ u \in ToSet(spin'["sem"]) <=> pc'[u] \in {"sw_spin", "ss_spin"}
    BY <1>1, <1>3 DEF IInv, Spinning, SpinLocks
  <2>4. ASSUME NEW u \in Threads
        PROVE  u \in ToSet(spin'["cv"]) <=>
                   pc'[u] \in {"c_spin", "s_spin", "b_spin"} \/ HoldsCv(u)'
    BY <1>1, <1>3, <1>4, <2>1 DEF IInv, Spinning, SpinLocks
  <2>5. ASSUME NEW u \in Threads
        PROVE  u \in ToSet(spin'["rw"]) <=>
                   \/ pc'[u] \in {"rl_spin", "wl_spin", "ul_spin", "dg_spin"}
                   \/ Broadcasts(u)'
    BY <1>1, <1>3, <1>4, <2>2 DEF IInv, Spinning, SpinLocks
  <2>6. ASSUME NEW u \in Threads
        PROVE  (HoldsCv(u)' => Turn(u, "cv")') /\ (Broadcasts(u)' => Turn(u, "rw")')
    BY <1>1, <1>3, <1>4, <2>1, <2>2 DEF IInv, Spinning, SpinLocks
  <2> QED BY <2>3, <2>4, <2>5, <2>6 DEF Spinning
<1>8. MutexInv'
  BY <1>1, <1>2 DEF IInv, MutexInv, HasMutex, OnMqueue
<1>9. CondInv'
  BY <1>1, <1>2 DEF IInv, CondInv, Parks, OnCvq
<1>10. SemInv'
  <2>1. Permitted' = Permitted
    BY <1>1, <1>2 DEF Permitted
  <2> QED BY <1>1, <1>2, <2>1 DEF IInv, SemInv
<1>11. WakeInv'
  <2>1. \A u \in Threads : (Queued(u)' <=> Queued(u)) /\ (Waiting(u)' <=> Waiting(u))
    BY <1>1, <1>2 DEF Queued, Waiting, OnMqueue, OnCvq
  <2>2. \A u \in Threads : (Posting(u)' <=> Posting(u)) /\ (Dequeued(u)' <=> Dequeued(u))
    BY <1>1, <1>2 DEF Posting, Dequeued
  <2>3. \A u \in Threads : pc[u] \in {"wake", "b_wake", "late_wake", "bc_wake"} => u # t
    BY <1>1
  <2> QED BY <1>1, <1>2, <1>4, <2>1, <2>2, <2>3 DEF IInv, WakeInv
<1>12. ReaderInv'
  <2>1. AbsReaders' = AbsReaders /\ AbsWriter' = AbsWriter /\ Rest' = Rest
    BY <1>1, <1>2, <1>4 DEF AbsReaders, AbsWriter, Broadcasting, Rest
  <2>2. \A u \in Threads : LetIn(u)' <=> LetIn(u)
    BY <1>1, <1>2 DEF LetIn
  <2>3. AbsWriter # t
    BY <1>2, <1>4, USyncAssumption
  <2> QED BY <1>1, <1>2, <1>4, <2>1, <2>2, <2>3 DEF IInv, ReaderInv
<1>13. WriterInv' /\ StateInv'
  BY <1>1, <1>2, <1>4 DEF IInv, WriterInv, StateInv, Broadcasts
<1> QED
  BY <1>5, <1>6, <1>7, <1>8, <1>9, <1>10, <1>11, <1>12, <1>13
  DEF IInv

LEMMA DowngradeBroadcastKeeps ==
    ASSUME IInv, NEW t \in Threads, Downgrade(t), rwaiting # <<>>,
           UNCHANGED <<condVars, semVars>>
    PROVE  IInv'
<1>1. /\ t \notin asleep /\ pc[t] = "dg_spin" /\ home[t] = "r_in"
      /\ Turn(t, "rw")
      /\ rwstate = "WRLOCKED" /\ writer = t /\ todo = <<>> /\ ToSet(todo) = {}
      /\ rreading = <<>> /\ ToSet(rreading) = {}
      /\ \A u \in Threads : ~Broadcasts(u)
      /\ \A u \in Threads : u \in AbsReaders \/ AbsWriter = u => u = t
  <2>1. /\ t \notin asleep /\ pc[t] = "dg_spin" /\ Turn(t, "rw")
        /\ rwstate = "WRLOCKED" /\ writer = t
    BY DEF Downgrade, Section, At
  <2>2. /\ todo = <<>> /\ (\A u \in Threads : ~Broadcasts(u))
        /\ AbsReaders = ToSet(rreading) /\ AbsWriter = t
    BY <2>1, NoBroadcast DEF Broadcasts
  <2>3. rreading = <<>> /\ home[t] = "r_in"
    BY <2>1, <2>2 DEF IInv, StateInv, WriterInv
  <2> QED BY <2>1, <2>2, <2>3, EmptyLine
<1>2. /\ pc'[t] = "bc"
      /\ \A u \in Threads \ {t} : pc'[u] = pc[u]
      /\ DOMAIN pc' = Threads
  BY DEF IInv, Types, Downgrade, Goto
<1>3. /\ asleep' = asleep /\ home' = home /\ reject' = reject /\ spin' = spin
      /\ target' = target
      /\ mowner' = mowner /\ mqueue' = mqueue /\ cvq' = cvq
      /\ count' = count /\ semq' = semq
      /\ rwstate' = rwstate /\ rwaiting' = rwaiting
      /\ writer' = writer /\ writers' = writers /\ rreading' = rreading
      /\ todo' = rwaiting
  BY DEF Downgrade, condVars, mutexVars, semVars
<1>4. \A u \in ToSet(rwaiting) : u \in Threads /\ pc[u] = "r_wait" /\ ~reject[u]
  BY <1>1, LineFacts DEF IInv, Queues, ReaderInv
<1>5. Queues' /\ Types'
  BY <1>1, <1>2, <1>3, <1>4 DEF IInv, Queues, Types, SyncTypeOK
<1>6. Homes'
  BY <1>1, <1>2, <1>3 DEF IInv, Homes
<1>7. Spinning'
  <2>1. \A u \in Threads : HoldsCv(u)' <=> HoldsCv(u)
    BY <1>1, <1>2, <1>3 DEF HoldsCv, Parks
  <2>2. \A u \in Threads : Broadcasts(u)' <=> u = t
    BY <1>1, <1>2, <1>3 DEF Broadcasts
  <2>3. \A u \in Threads, l \in SpinLocks : Turn(u, l)' <=> Turn(u, l)
    BY <1>3 DEF Turn
  <2> QED BY <1>1, <1>2, <1>3, <2>1, <2>2, <2>3 DEF IInv, Spinning, SpinLocks
<1>8. MutexInv'
  BY <1>1, <1>2, <1>3 DEF IInv, MutexInv, HasMutex, OnMqueue
<1>9. CondInv'
  BY <1>1, <1>2, <1>3 DEF IInv, CondInv, Parks, OnCvq
<1>10. SemInv'
  <2>1. Permitted' = Permitted
    BY <1>1, <1>2, <1>3 DEF Permitted
  <2> QED BY <1>1, <1>2, <1>3, <2>1 DEF IInv, SemInv
<1>11. WakeInv'
  <2>1. \A u \in Threads : (Queued(u)' <=> Queued(u)) /\ (Waiting(u)' <=> Waiting(u))
    BY <1>1, <1>2, <1>3 DEF Queued, Waiting, OnMqueue, OnCvq
  <2>2. \A u \in Threads : (Posting(u)' <=> Posting(u)) /\ (Dequeued(u)' <=> Dequeued(u))
    BY <1>1, <1>2, <1>3 DEF Posting, Dequeued
  <2>3. \A u \in Threads : pc[u] \in {"wake", "b_wake", "late_wake", "bc_wake"} => u # t
    BY <1>1
  <2> QED BY <1>1, <1>2, <1>3, <2>1, <2>2, <2>3 DEF IInv, WakeInv
<1>12. ReaderInv'
  <2>1. \A u \in Threads : pc[u] # "bc_wake" /\ pc'[u] # "bc_wake"
    BY <1>1, <1>2 DEF Broadcasts
  <2>2. Rest' = ToSet(rwaiting)
    BY <1>3, <2>1 DEF Rest
  <2> QED BY <1>1, <1>2, <1>3, <1>4, <2>2 DEF IInv, ReaderInv
<1>13. WriterInv' /\ StateInv'
  BY <1>1, <1>2, <1>3, <1>4, EmptyLine
  DEF IInv, WriterInv, StateInv, Broadcasts
<1> QED
  BY <1>5, <1>6, <1>7, <1>8, <1>9, <1>10, <1>11, <1>12, <1>13
  DEF IInv

LEMMA DowngradeAloneKeeps ==
    ASSUME IInv, NEW t \in Threads, Downgrade(t), rwaiting = <<>>,
           UNCHANGED <<condVars, semVars>>
    PROVE  IInv'
<1>1. /\ t \notin asleep /\ pc[t] = "dg_spin" /\ home[t] = "r_in"
      /\ Turn(t, "rw")
      /\ rwstate = "WRLOCKED" /\ writer = t /\ todo = <<>> /\ ToSet(todo) = {}
      /\ rreading = <<>> /\ ToSet(rreading) = {}
      /\ \A u \in Threads : ~Broadcasts(u)
      /\ \A u \in Threads : u \in AbsReaders \/ AbsWriter = u => u = t
  <2>1. /\ t \notin asleep /\ pc[t] = "dg_spin" /\ Turn(t, "rw")
        /\ rwstate = "WRLOCKED" /\ writer = t
    BY DEF Downgrade, Section, At
  <2>2. /\ todo = <<>> /\ (\A u \in Threads : ~Broadcasts(u))
        /\ AbsReaders = ToSet(rreading) /\ AbsWriter = t
    BY <2>1, NoBroadcast DEF Broadcasts
  <2>3. rreading = <<>> /\ home[t] = "r_in"
    BY <2>1, <2>2 DEF IInv, StateInv, WriterInv
  <2> QED BY <2>1, <2>2, <2>3, EmptyLine
<1>2. /\ pc'[t] = "r_in"
      /\ \A u \in Threads \ {t} : pc'[u] = pc[u]
      /\ DOMAIN pc' = Threads
  BY <1>1 DEF IInv, Types, Downgrade, Goto
<1>3. /\ asleep' = asleep /\ home' = home /\ reject' = reject
      /\ target' = target
      /\ mowner' = mowner /\ mqueue' = mqueue /\ cvq' = cvq
      /\ count' = count /\ semq' = semq
      /\ rwstate' = "RDLOCKED" /\ rwaiting' = rwaiting /\ ToSet(rwaiting) = {}
      /\ writer' = writer /\ writers' = writers /\ todo' = todo
  BY EmptyLine DEF Downgrade, condVars, mutexVars, semVars
<1>4. /\ spin' \in [SpinLocks -> Seq(Threads)]
      /\ \A l \in SpinLocks :
            /\ Line(spin'[l])
            /\ ToSet(spin'[l]) =
                   IF l = "rw" THEN ToSet(spin[l]) \ {t} ELSE ToSet(spin[l])
            /\ l # "rw" => \A u \in Threads : Turn(u, l)' <=> Turn(u, l)
  BY <1>1, SpinLeave DEF IInv, SpinLocks, Downgrade
<1>5. /\ Line(rreading') /\ ToSet(rreading') = {t} /\ rreading' # <<>>
  BY <1>1, Joins DEF IInv, Queues, Downgrade
<1>6. Queues' /\ Types'
  BY <1>1, <1>2, <1>3, <1>4, <1>5 DEF IInv, Queues, Types, SyncTypeOK
<1>7. Homes'
  BY <1>1, <1>2, <1>3 DEF IInv, Homes
<1>8. Spinning'
  <2>1. \A u \in Threads : HoldsCv(u)' <=> HoldsCv(u)
    BY <1>1, <1>2, <1>3 DEF HoldsCv, Parks
  <2>2. \A u \in Threads : ~Broadcasts(u)'
    BY <1>1, <1>2, <1>3 DEF Broadcasts
  <2> QED BY <1>1, <1>2, <1>3, <1>4, <2>1, <2>2 DEF IInv, Spinning, SpinLocks
<1>9. MutexInv'
  BY <1>1, <1>2, <1>3 DEF IInv, MutexInv, HasMutex, OnMqueue
<1>10. CondInv'
  BY <1>1, <1>2, <1>3 DEF IInv, CondInv, Parks, OnCvq
<1>11. SemInv'
  <2>1. Permitted' = Permitted
    BY <1>1, <1>2, <1>3 DEF Permitted
  <2> QED BY <1>1, <1>2, <1>3, <2>1 DEF IInv, SemInv
<1>12. WakeInv'
  <2>1. \A u \in Threads : (Queued(u)' <=> Queued(u)) /\ (Waiting(u)' <=> Waiting(u))
    BY <1>1, <1>2, <1>3 DEF Queued, Waiting, OnMqueue, OnCvq
  <2>2. \A u \in Threads : (Posting(u)' <=> Posting(u)) /\ (Dequeued(u)' <=> Dequeued(u))
    BY <1>1, <1>2, <1>3 DEF Posting, Dequeued
  <2>3. \A u \in Threads : pc[u] \in {"wake", "b_wake", "late_wake", "bc_wake"} => u # t
    BY <1>1
  <2> QED BY <1>1, <1>2, <1>3, <2>1, <2>2, <2>3 DEF IInv, WakeInv
<1>13. ReaderInv'
  <2>1. AbsReaders' = {t}
    BY <1>1, <1>3, <1>5 DEF AbsReaders, Broadcasting
  <2>2. LetIn(t)'
    BY <1>2 DEF LetIn
  <2> QED BY <1>1, <1>2, <1>3, <1>5, <2>1, <2>2 DEF IInv, ReaderInv
<1>14. WriterInv' /\ StateInv'
  BY <1>1, <1>2, <1>3, <1>5 DEF IInv, WriterInv, StateInv, Broadcasts
<1> QED
  BY <1>6, <1>7, <1>8, <1>9, <1>10, <1>11, <1>12, <1>13, <1>14
  DEF IInv

(* The broadcaster is the only one; the first reader it has still to visit *)
(* waits.                                                                  *)
LEMMA Broadcaster ==
    ASSUME IInv, NEW t \in Threads, Broadcasts(t)
    PROVE  /\ Turn(t, "rw") /\ \A u \in Threads : Broadcasts(u) <=> u = t
           /\ todo # <<>> /\ rreading = <<>> /\ ToSet(rreading) = {}
           /\ Head(todo) \in Threads /\ Head(todo) \in ToSet(todo)
           /\ Head(todo) \in ToSet(rwaiting)
           /\ Line(Tail(todo))
           /\ ToSet(Tail(todo)) = ToSet(todo) \ {Head(todo)}
           /\ Rest = IF pc[t] = "bc_wake" THEN ToSet(todo) \ {Head(todo)} ELSE ToSet(todo)
           /\ t \notin ToSet(rwaiting)
<1>1. Turn(t, "rw") /\ \A u \in Threads : Broadcasts(u) <=> u = t
  BY DEF IInv, Spinning, Turn
<1>2. todo # <<>> /\ rreading = <<>> /\ ToSet(rreading) = {}
  BY EmptyLine DEF IInv, StateInv
<1>3. /\ Head(todo) \in Threads /\ Head(todo) \in ToSet(todo)
      /\ Line(Tail(todo)) /\ ToSet(Tail(todo)) = ToSet(todo) \ {Head(todo)}
  BY <1>2, Leaves DEF IInv, Queues
<1>4. Rest = IF pc[t] = "bc_wake" THEN ToSet(todo) \ {Head(todo)} ELSE ToSet(todo)
  BY <1>1 DEF Rest, Broadcasts
<1>5. t \notin ToSet(rwaiting)
  BY <1>2 DEF IInv, ReaderInv, Broadcasts, LetIn
<1> QED BY <1>1, <1>2, <1>3, <1>4, <1>5 DEF IInv, StateInv

LEMMA BroadcastReaderKeeps ==
    ASSUME IInv, NEW t \in Threads, BroadcastReader(t), UNCHANGED <<condVars, semVars>>
    PROVE  IInv'
<1>1. /\ t \notin asleep /\ pc[t] = "bc" /\ Broadcasts(t) /\ pc'[t] = "bc_wake"
      /\ \A u \in Threads \ {t} : pc'[u] = pc[u]
      /\ DOMAIN pc' = Threads
  BY DEF IInv, Types, BroadcastReader, Broadcasts, At, Goto
<1>2. /\ asleep' = asleep /\ home' = home /\ spin' = spin /\ target' = target
      /\ mowner' = mowner /\ mqueue' = mqueue /\ cvq' = cvq
      /\ count' = count /\ semq' = semq
      /\ rwstate' = rwstate /\ writer' = writer /\ writers' = writers
      /\ rwaiting' = rwaiting /\ rreading' = rreading /\ todo' = todo
  BY DEF BroadcastReader, rwVars, condVars, mutexVars, semVars
<1>3. /\ Turn(t, "rw") /\ \A u \in Threads : Broadcasts(u) <=> u = t
      /\ todo # <<>> /\ rreading = <<>> /\ ToSet(rreading) = {}
      /\ Rest = ToSet(todo) /\ Head(todo) \in Threads
  BY <1>1, Broadcaster
<1>4. PICK w \in Threads :
         /\ w = Head(todo) /\ w \in ToSet(todo) /\ w \in ToSet(rwaiting)
         /\ pc[w] = "r_wait" /\ ~reject[w] /\ w # t
  BY <1>1, Broadcaster DEF IInv, ReaderInv
<1>5. /\ reject' \in [Threads -> BOOLEAN] /\ reject'[w]
      /\ \A u \in Threads \ {w} : reject'[u] = reject[u]
  BY <1>4 DEF IInv, Types, SyncTypeOK, BroadcastReader
<1>6. \A u \in Threads : pc'[u] = "bc_wake" <=> u = t
  BY <1>1, <1>3 DEF Broadcasts
<1>7. Queues' /\ Types'
  BY <1>1, <1>2, <1>3, <1>4, <1>5, <1>6 DEF IInv, Queues, Types, SyncTypeOK
<1>8. Homes'
  BY <1>1, <1>2 DEF IInv, Homes
<1>9. Spinning'
  <2>1. \A u \in Threads : HoldsCv(u)' <=> HoldsCv(u)
    BY <1>1, <1>2 DEF HoldsCv, Parks
  <2>2. \A u \in Threads : Broadcasts(u)' <=> Broadcasts(u)
    BY <1>1, <1>2 DEF Broadcasts
  <2>3. \A u \in Threads, l \in SpinLocks : Turn(u, l)' <=> Turn(u, l)
    BY <1>2 DEF Turn
  <2> QED BY <1>1, <1>2, <2>1, <2>2, <2>3 DEF IInv, Spinning, SpinLocks
<1>10. MutexInv'
  BY <1>1, <1>2, <1>3, <1>4, <1>5, <1>6 DEF IInv, MutexInv, HasMutex, OnMqueue
<1>11. CondInv'
  BY <1>1, <1>2, <1>3, <1>4, <1>5, <1>6 DEF IInv, CondInv, Parks, OnCvq
<1>12. SemInv'
  <2>1. Permitted' = Permitted
    BY <1>1, <1>2, <1>3, <1>4, <1>5, <1>6 DEF Permitted
  <2> QED BY <1>1, <1>2, <1>3, <1>4, <1>5, <1>6, <2>1 DEF IInv, SemInv
<1>13. WakeInv'
  <2>1. \A u \in Threads : (Queued(u)' <=> Queued(u)) /\ (Waiting(u)' <=> Waiting(u))
    BY <1>1, <1>2 DEF Queued, Waiting, OnMqueue, OnCvq
  <2>2. \A u \in Threads : (Posting(u)' <=> Posting(u)) /\ (Dequeued(u)' <=> Dequeued(u))
    BY <1>1, <1>2 DEF Posting, Dequeued
  <2>3. \A u \in Threads : pc[u] \in {"wake", "b_wake", "late_wake", "bc_wake"} => u # t
    BY <1>1
  <2>4. ~Waiting(w)
    BY <1>4 DEF Waiting
  <2> QED
    BY <1>1, <1>2, <1>3, <1>4, <1>5, <2>1, <2>2, <2>3, <2>4 DEF IInv, WakeInv
<1>14. ReaderInv'
  <2>1. AbsReaders' = AbsReaders /\ AbsWriter' = AbsWriter
    BY <1>1, <1>2 DEF AbsReaders, AbsWriter, Broadcasting
  <2>2. Rest' = ToSet(todo) \ {w}
    BY <1>2, <1>4, <1>6 DEF Rest
  <2>3. \A u \in Threads : u # w => (LetIn(u)' <=> LetIn(u))
    BY <1>1, <1>2, <1>5 DEF LetIn
  <2>4. LetIn(w)'
    BY <1>1, <1>4, <1>5 DEF LetIn
  <2> QED
    BY <1>1, <1>2, <1>3, <1>4, <1>5, <2>1, <2>2, <2>3, <2>4 DEF IInv, ReaderInv
<1>15. WriterInv' /\ StateInv'
  BY <1>1, <1>2, <1>3, <1>4, <1>5, <1>6
  DEF IInv, WriterInv, StateInv, Broadcasts
<1> QED
  BY <1>7, <1>8, <1>9, <1>10, <1>11, <1>12, <1>13, <1>14, <1>15
  DEF IInv

LEMMA BroadcastNextKeeps ==
    ASSUME IInv, NEW t \in Threads, BroadcastReaderWake(t), Len(todo) > 1,
           UNCHANGED <<condVars, semVars>>
    PROVE  IInv'
<1>1. /\ t \notin asleep /\ pc[t] = "bc_wake" /\ Broadcasts(t) /\ pc'[t] = "bc"
      /\ \A u \in Threads \ {t} : pc'[u] = pc[u]
      /\ DOMAIN pc' = Threads
  BY DEF IInv, Types, BroadcastReaderWake, Broadcasts, At, Goto
<1>2. /\ home' = home /\ reject' = reject /\ target' = target
      /\ mowner' = mowner /\ mqueue' = mqueue /\ cvq' = cvq
      /\ count' = count /\ semq' = semq
      /\ writer' = writer /\ writers' = writers
      /\ spin' = spin /\ rwstate' = rwstate /\ rwaiting' = rwaiting
      /\ rreading' = rreading
  <2>1. /\ mowner' = mowner /\ mqueue' = mqueue /\ cvq' = cvq
        /\ count' = count /\ semq' = semq
    BY DEF condVars, mutexVars, semVars
  <2>2. /\ home' = home /\ reject' = reject /\ target' = target
        /\ writer' = writer /\ writers' = writers
    BY DEF BroadcastReaderWake
  <2>3. /\ spin' = spin /\ rwstate' = rwstate /\ rwaiting' = rwaiting
        /\ rreading' = rreading
    <3>1. Len(todo) \in Nat
      BY LineFacts DEF IInv, Queues
    <3> QED BY <3>1 DEF BroadcastReaderWake
  <2> QED BY <2>1, <2>2, <2>3
<1>3. /\ Turn(t, "rw") /\ \A u \in Threads : Broadcasts(u) <=> u = t
      /\ todo # <<>> /\ rreading = <<>> /\ ToSet(rreading) = {}
      /\ asleep' = asleep \ {Head(todo)}
      /\ Line(todo') /\ ToSet(todo') = ToSet(todo) \ {Head(todo)}
      /\ todo' # <<>>
      /\ Rest = ToSet(todo')
  <2>1. todo' = Tail(todo) /\ asleep' = asleep \ {Head(todo)}
    BY DEF BroadcastReaderWake, MakeRunnable
  <2>a. Len(todo) \in Nat /\ Len(Tail(todo)) = Len(todo) - 1
    BY <1>1, Broadcaster, Leaves DEF IInv, Queues
  <2> DEFINE n == Len(todo)
             m == Len(Tail(todo))
  <2>b. n \in Nat /\ m = n - 1 /\ n > 1
    BY <2>a
  <2> HIDE DEF n, m
  <2>c. m # 0
    BY <2>b
  <2>2. Len(todo') # 0
    BY <2>c, <2>1 DEF m
  <2> QED BY <1>1, <2>1, <2>2, Broadcaster, LineFacts
<1>4. \A u \in Threads : pc'[u] # "bc_wake"
  BY <1>1, <1>3 DEF Broadcasts
<1>5. Queues' /\ Types'
  BY <1>1, <1>2, <1>3, <1>4 DEF IInv, Queues, Types, SyncTypeOK
<1>6. Homes'
  BY <1>1, <1>2 DEF IInv, Homes
<1>7. Spinning'
  <2>1. \A u \in Threads : HoldsCv(u)' <=> HoldsCv(u)
    BY <1>1, <1>2 DEF HoldsCv, Parks
  <2>2. \A u \in Threads : Broadcasts(u)' <=> Broadcasts(u)
    BY <1>1, <1>2 DEF Broadcasts
  <2>3. \A u \in Threads, l \in SpinLocks : Turn(u, l)' <=> Turn(u, l)
    BY <1>2 DEF Turn
  <2> QED BY <1>1, <1>2, <2>1, <2>2, <2>3 DEF IInv, Spinning, SpinLocks
<1>8. MutexInv'
  BY <1>1, <1>2, <1>3, <1>4 DEF IInv, MutexInv, HasMutex, OnMqueue
<1>9. CondInv'
  BY <1>1, <1>2, <1>3, <1>4 DEF IInv, CondInv, Parks, OnCvq
<1>10. SemInv'
  <2>1. Permitted' = Permitted
    BY <1>1, <1>2, <1>3, <1>4 DEF Permitted
  <2> QED BY <1>1, <1>2, <1>3, <1>4, <2>1 DEF IInv, SemInv
<1>11. WakeInv'
  <2>1. \A u \in Threads : Waiting(u) => (Queued(u)' <=> Queued(u))
    BY <1>1, <1>2, <1>3 DEF Queued, Waiting, OnMqueue, OnCvq
  <2>2. \A u \in Threads : Waiting(u)' <=> Waiting(u)
    BY <1>1, <1>2 DEF Waiting
  <2>3. \A u \in Threads : (Posting(u)' <=> Posting(u)) /\ (Dequeued(u)' <=> Dequeued(u))
    BY <1>1, <1>2 DEF Posting, Dequeued
  <2>4. \A u \in Threads : pc[u] \in {"wake", "b_wake", "late_wake"} => u # t
    BY <1>1
  <2> QED BY <1>1, <1>2, <1>3, <2>1, <2>2, <2>3, <2>4 DEF IInv, WakeInv
<1>12. ReaderInv'
  <2>1. AbsReaders' = AbsReaders /\ AbsWriter' = AbsWriter
    BY <1>1, <1>2, <1>3 DEF AbsReaders, AbsWriter, Broadcasting
  <2>2. Rest' = Rest
    BY <1>3, <1>4 DEF Rest
  <2>3. \A u \in Threads : LetIn(u)' <=> LetIn(u)
    BY <1>1, <1>2 DEF LetIn
  <2> QED BY <1>1, <1>2, <1>3, <2>1, <2>2, <2>3 DEF IInv, ReaderInv
<1>13. WriterInv' /\ StateInv'
  BY <1>1, <1>2, <1>3, <1>4 DEF IInv, WriterInv, StateInv, Broadcasts
<1> QED
  BY <1>5, <1>6, <1>7, <1>8, <1>9, <1>10, <1>11, <1>12, <1>13
  DEF IInv

LEMMA BroadcastEndsKeeps ==
    ASSUME IInv, NEW t \in Threads, BroadcastReaderWake(t), Len(todo) = 1,
           UNCHANGED <<condVars, semVars>>
    PROVE  IInv'
<1>1. /\ t \notin asleep /\ pc[t] = "bc_wake" /\ Broadcasts(t)
      /\ pc'[t] = home[t] /\ home[t] \in {"out", "r_in"}
      /\ \A u \in Threads \ {t} : pc'[u] = pc[u]
      /\ DOMAIN pc' = Threads
  BY
  DEF IInv, Types, Homes, BroadcastReaderWake, BroadcastSplice, Broadcasts, At,
      Goto
<1>2. /\ home' = home /\ reject' = reject /\ target' = target
      /\ mowner' = mowner /\ mqueue' = mqueue /\ cvq' = cvq
      /\ count' = count /\ semq' = semq
      /\ writer' = writer /\ writers' = writers
      /\ rwstate' = "RDLOCKED" /\ rwaiting' = <<>> /\ ToSet(rwaiting') = {}
      /\ Line(rwaiting')
  BY EmptyLine
  DEF BroadcastReaderWake, BroadcastSplice, condVars, mutexVars, semVars
<1>3. /\ Turn(t, "rw") /\ \A u \in Threads : Broadcasts(u) <=> u = t
      /\ todo # <<>> /\ rreading = <<>> /\ ToSet(rreading) = {}
      /\ asleep' = asleep \ {Head(todo)}
      /\ todo' = <<>> /\ ToSet(todo') = {} /\ Line(todo') /\ Rest = {}
      /\ rwaiting # <<>>
  <2>1. todo' = Tail(todo) /\ asleep' = asleep \ {Head(todo)}
    BY DEF BroadcastReaderWake, MakeRunnable
  <2>2. Len(todo') = 0 /\ Line(todo')
    BY <1>1, <2>1, Broadcaster, Leaves DEF IInv, Queues
  <2> QED BY <1>1, <2>1, <2>2, Broadcaster, LineFacts, EmptyLine
<1>4. /\ spin' \in [SpinLocks -> Seq(Threads)]
      /\ \A l \in SpinLocks :
            /\ Line(spin'[l])
            /\ ToSet(spin'[l]) =
                   IF l = "rw" THEN ToSet(spin[l]) \ {t} ELSE ToSet(spin[l])
            /\ l # "rw" => \A u \in Threads : Turn(u, l)' <=> Turn(u, l)
  BY <1>1, <1>3, SpinLeave
  DEF IInv, SpinLocks, BroadcastReaderWake, BroadcastSplice
<1>5. /\ Line(rreading') /\ rreading' # <<>>
      /\ ToSet(rreading') = ToSet(rwaiting) \cup (IF home[t] = "r_in" THEN {t} ELSE {})
  <2>1. Line(rwaiting) /\ t \notin ToSet(rwaiting) /\ rwaiting \in Seq(Threads)
    BY <1>1, Broadcaster, LineFacts DEF IInv, Queues
  <2>2. CASE home[t] = "r_in"
    <3>1. rreading' = rwaiting \o <<t>>
      BY <1>3, <2>2 DEF BroadcastReaderWake, BroadcastSplice
    <3>2. rwaiting \o <<t>> = Append(rwaiting, t)
      BY <2>1
    <3> QED BY <2>1, <2>2, <3>1, <3>2, Joins
  <2>3. CASE home[t] # "r_in"
    <3> DEFINE self == IF home[t] = "r_in" THEN <<t>> ELSE <<>>
    <3>0. rreading' = rwaiting \o self
      BY <1>3 DEF BroadcastReaderWake, BroadcastSplice
    <3>1. rreading' = rwaiting \o <<>>
      BY <2>3, <3>0
    <3>2. rwaiting \o <<>> = rwaiting
      BY <2>1
    <3> QED BY <1>3, <2>1, <2>3, <3>1, <3>2
  <2> QED BY <2>2, <2>3
<1>6. Queues' /\ Types'
  BY <1>1, <1>2, <1>3, <1>4, <1>5 DEF IInv, Queues, Types, SyncTypeOK
<1>7. Homes'
  BY <1>1, <1>2 DEF IInv, Homes
<1>8. Spinning'
  <2>1. \A u \in Threads : HoldsCv(u)' <=> HoldsCv(u)
    BY <1>1, <1>2 DEF HoldsCv, Parks
  <2>2. \A u \in Threads : ~Broadcasts(u)'
    BY <1>1, <1>2, <1>3 DEF Broadcasts
  <2>3. ASSUME NEW u \in Threads
        PROVE  /\ u \in ToSet(spin'["mp"]) <=> pc'[u] \in {"l_spin", "k_spin", "u_spin"}
               /\ u \in ToSet(spin'["sem"]) <=> pc'[u] \in {"sw_spin", "ss_spin"}
    BY <1>1, <1>4 DEF IInv, Spinning, SpinLocks
  <2>4. ASSUME NEW u \in Threads
        PROVE  u \in ToSet(spin'["cv"]) <=>
                   pc'[u] \in {"c_spin", "s_spin", "b_spin"} \/ HoldsCv(u)'
    BY <1>1, <1>2, <1>3, <1>4, <2>1 DEF IInv, Spinning, SpinLocks
  <2>5. ASSUME NEW u \in Threads
        PROVE  u \in ToSet(spin'["rw"]) <=>
                   \/ pc'[u] \in {"rl_spin", "wl_spin", "ul_spin", "dg_spin"}
                   \/ Broadcasts(u)'
    BY <1>1, <1>2, <1>3, <1>4, <2>2 DEF IInv, Spinning, SpinLocks
  <2>6. ASSUME NEW u \in Threads
        PROVE  (HoldsCv(u)' => Turn(u, "cv")') /\ (Broadcasts(u)' => Turn(u, "rw")')
    BY <1>1, <1>2, <1>3, <1>4, <2>1, <2>2 DEF IInv, Spinning, SpinLocks
  <2> QED BY <2>3, <2>4, <2>5, <2>6 DEF Spinning
<1>9. MutexInv'
  BY <1>1, <1>2 DEF IInv, MutexInv, HasMutex, OnMqueue
<1>10. CondInv'
  BY <1>1, <1>2 DEF IInv, CondInv, Parks, OnCvq
<1>11. SemInv'
  <2>1. Permitted' = Permitted
    BY <1>1, <1>2 DEF Permitted
  <2> QED BY <1>1, <1>2, <2>1 DEF IInv, SemInv
<1>12. WakeInv'
  <2>1. \A u \in Threads : Waiting(u) => (Queued(u)' <=> Queued(u))
    BY <1>1, <1>2, <1>3 DEF Queued, Waiting, OnMqueue, OnCvq
  <2>2. \A u \in Threads : Waiting(u)' <=> Waiting(u)
    BY <1>1, <1>2 DEF Waiting
  <2>3. \A u \in Threads : (Posting(u)' <=> Posting(u)) /\ (Dequeued(u)' <=> Dequeued(u))
    BY <1>1, <1>2 DEF Posting, Dequeued
  <2>4. \A u \in Threads : pc[u] \in {"wake", "b_wake", "late_wake"} => u # t
    BY <1>1
  <2> QED BY <1>1, <1>2, <1>3, <2>1, <2>2, <2>3, <2>4 DEF IInv, WakeInv
<1>13. ReaderInv'
  <2>1. AbsReaders' = ToSet(rreading')
    BY <1>3 DEF AbsReaders, Broadcasting
  <2>2. AbsReaders = ToSet(rreading') /\ AbsWriter = None
    BY <1>1, <1>3, <1>5 DEF AbsReaders, AbsWriter, Broadcasting, Broadcasts
  <2>3. \A u \in Threads : u # t => (LetIn(u)' <=> LetIn(u))
    BY <1>1, <1>2 DEF LetIn
  <2>4. home[t] = "r_in" => LetIn(t)'
    BY <1>1 DEF LetIn
  <2>5. \A u \in ToSet(rwaiting) : u \in Threads /\ LetIn(u) /\ u # t
    BY <1>1, <1>3, LineFacts, Broadcaster DEF IInv, Queues, ReaderInv
  <2> QED
    BY <1>1, <1>2, <1>3, <1>5, <2>1, <2>2, <2>3, <2>4, <2>5, USyncAssumption
    DEF IInv, ReaderInv
<1>14. WriterInv' /\ StateInv'
  BY <1>1, <1>2, <1>3, <1>5 DEF IInv, WriterInv, StateInv, Broadcasts
<1> QED
  BY <1>6, <1>7, <1>8, <1>9, <1>10, <1>11, <1>12, <1>13, <1>14
  DEF IInv

-----------------------------------------------------------------------------
(* The steps together *)

LEMMA WaitsKeeps ==
    ASSUME IInv, NEW t \in Threads, NEW label, NEW next, Waits(t, label, next),
           \/ label \in {"l_wait", "k_wait"} /\ next = "crit"
           \/ label = "s_wait" /\ next = "s_in"
           \/ label = "r_wait" /\ next = "r_in"
           \/ label = "w_wait" /\ next = "w_in",
           UNCHANGED <<condVars, semVars, rwVars>>
    PROVE  IInv'
<1>1. CASE Deschedule(t)
  <2>1. pc[t] = label
    BY DEF Waits, At
  <2> QED BY <1>1, <2>1, DescheduleKeeps
<1>2. CASE reject[t]
  BY <1>2, ReturnKeeps
<1> QED BY <1>1, <1>2 DEF Waits

LEMMA CondKeeps ==
    ASSUME IInv, NEW t \in Threads, CondStep(t) \/ CondCall(t),
           UNCHANGED <<semVars, rwVars>>
    PROVE  IInv'
<1>1. CASE LockSection(t) /\ UNCHANGED cvq
  BY <1>1, LockTakeKeeps, LockEnqueueKeeps DEF LockSection, WaitLabel
<1>2. CASE LockWait(t) /\ UNCHANGED cvq
  <2>1. PICK label \in {"l_wait", "k_wait"} : Waits(t, label, "crit")
    BY <1>2 DEF LockWait
  <2>2. UNCHANGED condVars
    BY <1>2 DEF LockWait, condVars
  <2> QED BY <2>1, <2>2, WaitsKeeps
<1>3. CASE UnlockSection(t) /\ UNCHANGED cvq
  BY <1>3, UnlockFreeKeeps, UnlockHandOffKeeps DEF UnlockSection
<1>4. CASE MutexCall(t) /\ UNCHANGED cvq
  <2>1. UNCHANGED condVars /\ t \notin asleep
    BY <1>4 DEF MutexCall, CallLock, CallUnlock, condVars, At
  <2>2. \/ pc[t] = "out" /\ Call(t, "mp", "l_spin", "crit")
        \/ pc[t] = "crit" /\ Call(t, "mp", "u_spin", "out")
    BY <1>4 DEF MutexCall, CallLock, CallUnlock, At
  <2> QED BY <2>1, <2>2, CallKeeps
<1>5. CASE WaitEnqueue(t) \/ WaitPark(t)
  BY <1>5, WaitEnqueueKeeps, WaitParkKeeps
<1>6. CASE WaitLoop(t)
  <2>1. UNCHANGED condVars /\ t \notin asleep /\ pc[t] = "c_wait"
    BY <1>6 DEF WaitLoop, At
  <2>2. CASE Deschedule(t)
    BY <2>1, <2>2, DescheduleKeeps
  <2>3. CASE reject[t] /\ Call(t, "mp", "k_spin", "crit")
    BY <2>1, <2>3, CallKeeps
  <2> QED BY <1>6, <2>2, <2>3 DEF WaitLoop
<1>7. CASE SignalSection(t)
  BY <1>7, SignalKeeps, SignalNobodyKeeps
<1>8. CASE BroadcastEnter(t) \/ BroadcastPost(t) \/ BroadcastEnd(t)
  BY <1>8, BroadcastEnterKeeps, BroadcastPostKeeps, BroadcastEndKeeps
<1>9. CASE BroadcastWake(t)
  BY <1>9, WakeKeeps DEF BroadcastWake
<1>10. CASE CallWait(t)
  <2>1. UNCHANGED condVars /\ t \notin asleep /\ pc[t] = "crit"
        /\ Call(t, "cv", "c_spin", "c_park")
    BY <1>10 DEF CallWait, At
  <2> QED BY <2>1, CallKeeps
<1>11. CASE \E label \in {"s_spin", "b_spin"} : CallWake(t, label)
  <2>1. PICK label \in {"s_spin", "b_spin"} : CallWake(t, label)
    BY <1>11
  <2>2. UNCHANGED condVars /\ t \notin asleep /\ pc[t] \in {"out", "crit"}
        /\ Call(t, "cv", label, pc[t])
    BY <2>1 DEF CallWake, At
  <2> QED BY <2>2, CallKeeps
<1> QED
  BY <1>1, <1>2, <1>3, <1>4, <1>5, <1>6, <1>7, <1>8, <1>9, <1>10, <1>11
  DEF CondStep, CondCall, MutexStep

LEMMA SemKeeps ==
    ASSUME IInv, NEW t \in Threads, SemStep(t) \/ SemCall(t),
           UNCHANGED <<condVars, rwVars>>
    PROVE  IInv'
<1>1. CASE SemWaitSection(t)
  BY <1>1, SemTakeKeeps, SemEnqueueKeeps
<1>2. CASE SemLoop(t)
  BY <1>2, WaitsKeeps DEF SemLoop
<1>3. CASE SemSignalSection(t)
  BY <1>3, SemHandOffKeeps, SemFreeKeeps
<1>4. CASE SemCall(t)
  <2>1. UNCHANGED semVars /\ t \notin asleep
    BY <1>4 DEF SemCall, CallSemWait, CallSemSignal, At
  <2>2. \/ pc[t] = "out" /\ Call(t, "sem", "sw_spin", "s_in")
        \/ pc[t] = "s_in" /\ Call(t, "sem", "ss_spin", "out")
    BY <1>4 DEF SemCall, CallSemWait, CallSemSignal, At
  <2> QED BY <2>1, <2>2, CallKeeps
<1> QED BY <1>1, <1>2, <1>3, <1>4 DEF SemStep

LEMMA RWKeeps ==
    ASSUME IInv, NEW t \in Threads, RWStep(t) \/ CallRW(t) \/ CallRWUnlock(t),
           UNCHANGED <<condVars, semVars>>
    PROVE  IInv'
<1>1. CASE ReadLock(t)
  BY <1>1, ReadEnterKeeps, ReadEnqueueKeeps DEF ReadLock
<1>2. CASE WriteLock(t)
  BY <1>2, WriteTakeKeeps, WriteEnqueueKeeps
<1>3. CASE RWLoop(t)
  BY <1>3, WaitsKeeps DEF RWLoop
<1>4. CASE UnlockNothing(t) \/ DowngradeNothing(t)
  BY <1>4, UnlockNothingKeeps, DowngradeNothingKeeps
<1>5. CASE UnlockLast(t)
  BY <1>5, PassToWriterKeeps, PassToReadersKeeps, PassToNobodyKeeps
  DEF UnlockLast
<1>6. CASE WriterPost(t)
  BY <1>6, PostKeeps DEF WriterPost
<1>7. CASE WriterWake(t)
  BY <1>7, WakeKeeps DEF WriterWake
<1>8. CASE Downgrade(t)
  BY <1>8, DowngradeBroadcastKeeps, DowngradeAloneKeeps
<1>9. CASE BroadcastReader(t)
  BY <1>9, BroadcastReaderKeeps
<1>10. CASE BroadcastReaderWake(t)
  BY <1>10, BroadcastNextKeeps, BroadcastEndsKeeps DEF BroadcastReaderWake
<1>11. CASE CallRW(t)
  <2>1. UNCHANGED rwVars /\ t \notin asleep
    BY <1>11 DEF CallRW, At
  <2>2. CASE pc[t] = "out" /\ \E label \in {"rl_spin", "wl_spin"} : Call(t, "rw", label, "out")
    BY <2>1, <2>2, CallKeeps
  <2>3. CASE pc[t] \in {"out", "r_in"} /\ Call(t, "rw", "dg_spin", pc[t])
    BY <2>1, <2>3, CallKeeps
  <2>4. CASE pc[t] = "w_in" /\ Call(t, "rw", "dg_spin", "r_in")
    BY <2>1, <2>4, CallKeeps
  <2> QED BY <1>11, <2>2, <2>3, <2>4 DEF CallRW, At
<1>12. CASE CallRWUnlock(t)
  <2>1. UNCHANGED rwVars /\ t \notin asleep /\ pc[t] \in {"out", "r_in", "w_in"}
        /\ Call(t, "rw", "ul_spin", "out")
    BY <1>12 DEF CallRWUnlock, At
  <2> QED BY <2>1, CallKeeps
<1> QED
  BY <1>1, <1>2, <1>3, <1>4, <1>5, <1>6, <1>7, <1>8, <1>9, <1>10, <1>11, <1>12
  DEF RWStep

LEMMA InitIInv == Init => IInv
<1> SUFFICES ASSUME Init PROVE IInv
  OBVIOUS
<1> USE DEF Init, SyncInit, CondInit, MutexInit, SemInit, RWInit
<1>1. /\ ToSet(mqueue) = {} /\ ToSet(cvq) = {} /\ ToSet(semq) = {}
      /\ ToSet(writers) = {} /\ ToSet(rwaiting) = {} /\ ToSet(rreading) = {}
      /\ ToSet(todo) = {} /\ \A l \in SpinLocks : ToSet(spin[l]) = {}
  BY EmptyLine
<1>2. Queues
  BY EmptyLine DEF Queues
<1>3. Types /\ Homes
  BY PermitsAssumption DEF Types, SyncTypeOK, Homes
<1>4. Spinning
  BY <1>1 DEF Spinning, HoldsCv, Parks, Broadcasts, SpinLocks
<1>5. MutexInv /\ CondInv
  BY <1>1, USyncAssumption
  DEF MutexInv, HasMutex, OnMqueue, CondInv, OnCvq, Parks
<1>6. SemInv
  <2>1. Permitted = {}
    BY DEF Permitted
  <2> QED BY <1>1, <2>1, FS_EmptySet, PermitsAssumption DEF SemInv
<1>7. WakeInv
  BY DEF WakeInv, Posting, Waiting
<1>8. ReaderInv /\ WriterInv /\ StateInv
  BY <1>1 DEF ReaderInv, WriterInv, StateInv, Broadcasts
<1> QED BY <1>2, <1>3, <1>4, <1>5, <1>6, <1>7, <1>8 DEF IInv

LEMMA NextIInv == IInv /\ [Next]_vars => IInv'
<1> SUFFICES ASSUME IInv, [Next]_vars PROVE IInv'
  OBVIOUS
<1>1. ASSUME NEW t \in Threads, Step(t) \/ CallerStep(t) PROVE IInv'
  <2>1. CASE Wakes(t) /\ UNCHANGED <<condVars, semVars, rwVars>>
    BY <2>1, PostKeeps, WakeKeeps DEF Wakes
  <2>2. CASE (CondStep(t) \/ CondCall(t)) /\ UNCHANGED <<semVars, rwVars>>
    BY <2>2, CondKeeps
  <2>3. CASE (SemStep(t) \/ SemCall(t)) /\ UNCHANGED <<condVars, rwVars>>
    BY <2>3, SemKeeps
  <2>4. CASE /\ RWStep(t) \/ CallRW(t) \/ CallRWUnlock(t)
             /\ UNCHANGED <<condVars, semVars>>
    BY <2>4, RWKeeps
  <2> QED BY <1>1, <2>1, <2>2, <2>3, <2>4 DEF Step, CallerStep
<1>2. CASE UNCHANGED vars
  <2> USE <1>2 DEF vars, syncVars, condVars, mutexVars, semVars, rwVars
  <2>1. Queues' /\ Types' /\ Homes'
    BY DEF IInv, Queues, Types, SyncTypeOK, Homes
  <2>2. Spinning' /\ MutexInv' /\ CondInv' /\ SemInv'
    BY
    DEF IInv, Spinning, HoldsCv, Parks, Broadcasts, Turn, MutexInv, HasMutex,
           OnMqueue, CondInv, OnCvq, SemInv, Permitted
  <2>3. WakeInv'
    BY DEF IInv, WakeInv, Posting, Waiting, Queued, Dequeued, OnMqueue, OnCvq
  <2>4. ReaderInv' /\ WriterInv' /\ StateInv'
    BY DEF IInv, ReaderInv, Rest, LetIn, AbsReaders, AbsWriter, Broadcasting,
           WriterInv, StateInv, Broadcasts
  <2> QED BY <2>1, <2>2, <2>3, <2>4 DEF IInv
<1> QED BY <1>1, <1>2 DEF Next

LEMMA Inductive == Spec => []IInv
<1> QED BY InitIInv, NextIInv, PTL DEF Spec

-----------------------------------------------------------------------------
(* Safety *)

(* The lists of the library are well-formed, unlock is called by the       *)
(* owner, the readers' list is empty when that of the waiting readers      *)
(* replaces it, and a lock that is free has nobody waiting (mutex.c:147,   *)
(* rwlock.c:199-204,383).                                                  *)
THEOREM Consistency == Spec => []Consistent
<1>1. IInv => Consistent
  <2> SUFFICES ASSUME IInv PROVE Consistent
    OBVIOUS
  <2>1. TypeOK
    BY DEF IInv, Queues, Types, Line, TypeOK
  <2>2. \A t \in Threads : pc[t] = "u_spin" => mowner = t
    BY DEF IInv, MutexInv, HasMutex
  <2> QED BY <2>1, <2>2 DEF IInv, MutexInv, SemInv, StateInv, Consistent
<1> QED BY <1>1, Inductive, PTL

(* One thread in the mutex, as many permits as sem_init was given, a       *)
(* writer alone or readers: whatever late wake-ups do (mutex.c:111,        *)
(* sem.c:76, rwlock.c:353).                                                *)
THEOREM Exclusion == Spec => []Exclusive
<1>1. IInv => Exclusive
  <2> SUFFICES ASSUME IInv PROVE Exclusive
    OBVIOUS
  <2>1. \A t \in Threads : pc[t] \in {"crit", "c_spin", "u_spin"} => mowner = t
    BY DEF IInv, MutexInv, HasMutex
  <2>2. \A t \in Threads : Writes(t) => rwstate = "WRLOCKED" /\ writer = t
    BY DEF IInv, WriterInv, Writes
  <2>3. \A t \in Threads : Writes(t) => todo = <<>> /\ ToSet(rreading) = {}
    BY <2>2, EmptyLine DEF IInv, WriterInv, StateInv, Writes, Broadcasts
  <2>4. ASSUME NEW t \in Threads, Reads(t) PROVE t \in AbsReaders \/ AbsWriter = t
    <3>1. CASE pc[t] \in {"bc", "bc_wake"} /\ home[t] = "r_in"
      <4>1. todo # <<>>
        BY <3>1, Broadcaster DEF Broadcasts
      <4> QED BY <3>1, <4>1 DEF AbsReaders, Broadcasting
    <3> QED BY <2>4, <3>1 DEF IInv, ReaderInv, Reads
  <2>5. ASSUME NEW t \in Threads, NEW u \in Threads, Writes(t), t # u
        PROVE  ~Writes(u) /\ ~Reads(u)
    <3>1. AbsReaders = {} /\ AbsWriter = t
      BY <2>2, <2>3, <2>5 DEF AbsReaders, AbsWriter, Broadcasting
    <3> QED BY <2>2, <2>4, <2>5, <3>1
  <2> QED BY <2>1, <2>4, <2>5 DEF IInv, SemInv, Exclusive
<1> QED BY <1>1, Inductive, PTL

(* A thread that sleeps in the library stands in exactly one queue, or     *)
(* somebody is about to set its reject, or has set it and is about to wake *)
(* it: also when the TID is read after reject was set (cvar.c:156,         *)
(* rwlock.c:374).                                                          *)
THEOREM NobodyIsLost == Spec => []NoLostWaiter
<1>1. IInv => NoLostWaiter
  <2> SUFFICES ASSUME IInv, NEW t \in asleep
               PROVE  IF reject[t] THEN Awaited(t) ELSE Queued(t) # Dequeued(t)
    BY DEF NoLostWaiter
  <2>1. t \in Threads /\ (Waiting(t) \/ pc[t] = "r_wait")
    BY DEF IInv, Types, SyncTypeOK, WakeInv
  <2>2. CASE reject[t]
    BY <2>1, <2>2 DEF IInv, WakeInv, Awaited, LateReaders
  <2>3. CASE ~reject[t]
    <3>1. Dequeued(t) => Waiting(t) /\ ~Queued(t)
      BY <2>1 DEF IInv, WakeInv, Dequeued, Posting
    <3>2. Waiting(t) /\ ~Queued(t) => Dequeued(t)
      BY <2>1, <2>3 DEF IInv, WakeInv
    <3>3. pc[t] = "r_wait" => Queued(t) /\ ~Waiting(t)
      BY <2>1, <2>3 DEF IInv, ReaderInv, LetIn, Queued, Waiting
    <3>4. Queued(t) \in BOOLEAN /\ Dequeued(t) \in BOOLEAN
      BY DEF Queued, Dequeued
    <3> QED BY <2>1, <2>3, <3>1, <3>2, <3>3, <3>4
  <2> QED BY <2>2, <2>3
<1> QED BY <1>1, Inductive, PTL

-----------------------------------------------------------------------------
(* The mutex implements FifoLock                                           *)

LEMMA SameSequence ==
    ASSUME NEW q \in Seq(Threads), NEW r \in Seq(Threads), Len(q) = Len(r),
           \A i \in 1 .. Len(q) : q[i] = r[i]
    PROVE  q = r
<1>1. DOMAIN q = 1 .. Len(q) /\ DOMAIN r = 1 .. Len(q)
  OBVIOUS
<1> QED BY <1>1

LEMMA RemoveAbsent ==
    ASSUME NEW q, NEW t, t \notin ToSet(q)
    PROVE  RemoveFirst(q, t) = q
BY DEF RemoveFirst, ToSet

(* Whose ticket is drawn is last; the head's is served first. *)
LEMMA RemoveFromAppended ==
    ASSUME NEW q, Line(q), NEW t \in Threads, t \notin ToSet(q), NEW x
    PROVE  RemoveFirst(Append(q, t), x) =
               IF x = t THEN q ELSE Append(RemoveFirst(q, x), t)
<1> DEFINE r == Append(q, t)
           n == Len(q)
<1>1. /\ q \in Seq(Threads) /\ n \in Nat /\ DOMAIN q = 1 .. n
      /\ \A i \in 1 .. n : q[i] \in ToSet(q) /\ q[i] \in Threads
      /\ \A u \in ToSet(q) : \E i \in 1 .. n : q[i] = u
  BY LineFacts
<1>2. /\ r \in Seq(Threads) /\ Len(r) = n + 1 /\ Line(r)
      /\ r[n + 1] = t /\ \A i \in 1 .. n : r[i] = q[i]
  BY <1>1, Joins
<1> HIDE DEF r
<1>3. n + 1 \in 1 .. Len(r) /\ \A i \in 1 .. n : i \in 1 .. n + 1 /\ i < n + 1
  BY <1>1, <1>2
<1>4. CASE x = t
  <2> DEFINE s == RemoveFirst(r, t)
             k == n + 1
  <2>0. k \in 1 .. Len(r) /\ r[k] = t
    BY <1>2, <1>3
  <2> HIDE DEF k
  <2>1. /\ s \in Seq(Threads) /\ Len(s) = Len(r) - 1
        /\ \A i \in 1 .. Len(r) - 1 : s[i] = IF i < k THEN r[i] ELSE r[i + 1]
    BY <1>2, <2>0, RemovePresent
  <2> HIDE DEF s, n
  <2>2. Len(s) = n /\ \A i \in 1 .. n : s[i] = q[i]
    BY <1>1, <1>2, <1>3, <2>1 DEF k
  <2>3. s = q
    BY <1>1, <2>1, <2>2, SameSequence DEF n
  <2> QED BY <1>4, <2>3 DEF s, r
<1>5. CASE x # t /\ x \notin ToSet(q)
  <2>1. x \notin ToSet(r)
    BY <1>5, Joins DEF r
  <2> QED BY <1>5, <2>1, RemoveAbsent DEF r
<1>6. CASE x # t /\ x \in ToSet(q)
  <2>1. PICK k \in 1 .. n : q[k] = x
    BY <1>1, <1>6
  <2> DEFINE s == RemoveFirst(r, x)
             p == RemoveFirst(q, x)
             a == Append(p, t)
  <2>2. /\ s \in Seq(Threads) /\ Len(s) = Len(r) - 1
        /\ \A i \in 1 .. Len(r) - 1 : s[i] = IF i < k THEN r[i] ELSE r[i + 1]
    <3>1. k \in 1 .. Len(r) /\ r[k] = x
      BY <1>2, <1>3, <2>1
    <3> QED BY <1>2, <3>1, RemovePresent
  <2>3. /\ p \in Seq(Threads) /\ Len(p) = n - 1
        /\ \A i \in 1 .. n - 1 : p[i] = IF i < k THEN q[i] ELSE q[i + 1]
    BY <2>1, RemovePresent
  <2> HIDE DEF s, p
  <2>4. /\ a \in Seq(Threads) /\ Len(a) = Len(p) + 1 /\ a[Len(p) + 1] = t
        /\ \A i \in 1 .. Len(p) : a[i] = p[i]
    BY <2>3
  <2> HIDE DEF a, n
  <2>5. Len(s) = n /\ Len(a) = n
    BY <1>1, <1>2, <2>2, <2>3, <2>4
  <2>6. ASSUME NEW i \in 1 .. n PROVE s[i] = a[i]
    <3>1. CASE i = n
      <4>1. ~(i < k) /\ i \in 1 .. Len(r) - 1
        BY <1>1, <1>2, <2>1, <3>1
      <4> QED BY <1>1, <1>2, <2>2, <2>3, <2>4, <3>1, <4>1
    <3>2. CASE i # n
      <4>1. i \in 1 .. n - 1 /\ i + 1 \in 1 .. n /\ i \in 1 .. Len(r) - 1
        BY <1>1, <1>2, <3>2
      <4>2. a[i] = p[i] /\ s[i] = IF i < k THEN r[i] ELSE r[i + 1]
        BY <2>2, <2>3, <2>4, <4>1
      <4> QED BY <1>2, <2>3, <4>1, <4>2
    <3> QED BY <3>1, <3>2
  <2>7. s = a
    BY <2>2, <2>4, <2>5, <2>6, SameSequence
  <2> QED BY <1>6, <2>7 DEF s, a, p, r
<1> QED BY <1>4, <1>5, <1>6

LEMMA RemoveFromServed ==
    ASSUME NEW q, Line(q), q # <<>>, NEW x
    PROVE  RemoveFirst(q, x) =
               IF x = Head(q) THEN Tail(q) ELSE <<Head(q)>> \o RemoveFirst(Tail(q), x)
<1> DEFINE r == Tail(q)
           n == Len(q)
           h == Head(q)
<1>1. /\ q \in Seq(Threads) /\ n \in Nat /\ DOMAIN q = 1 .. n /\ n > 0
      /\ h = q[1] /\ h \in Threads
      /\ \A i \in 1 .. n : q[i] \in ToSet(q) /\ q[i] \in Threads
      /\ \A u \in ToSet(q) : \E i \in 1 .. n : q[i] = u
  BY LineFacts
<1>2. /\ r \in Seq(Threads) /\ Len(r) = n - 1 /\ Line(r)
      /\ \A i \in 1 .. n - 1 : r[i] = q[i + 1]
      /\ ToSet(r) = ToSet(q) \ {h}
  BY <1>1, Leaves
<1> HIDE DEF r, h
<1>3. CASE x = h
  <2> DEFINE s == RemoveFirst(q, x)
             k == 1
  <2>0. k \in 1 .. n /\ q[k] = x
    BY <1>1, <1>3
  <2> HIDE DEF k
  <2>1. /\ s \in Seq(Threads) /\ Len(s) = n - 1
        /\ \A i \in 1 .. n - 1 : s[i] = IF i < k THEN q[i] ELSE q[i + 1]
    BY <2>0, RemovePresent
  <2> HIDE DEF s, n
  <2>2. \A i \in 1 .. n - 1 : s[i] = r[i]
    BY <1>1, <1>2, <2>1 DEF k
  <2>3. s = r
    BY <1>1, <1>2, <2>1, <2>2, SameSequence
  <2> QED BY <1>3, <2>3 DEF s, r, h
<1>4. CASE x # h /\ x \notin ToSet(q)
  <2>1. x \notin ToSet(r)
    BY <1>2, <1>4
  <2>2. RemoveFirst(r, x) = r /\ RemoveFirst(q, x) = q
    BY <1>4, <2>1, RemoveAbsent
  <2>3. q = <<h>> \o r
    BY <1>1 DEF r, h
  <2> QED BY <1>4, <2>2, <2>3 DEF r, h
<1>5. CASE x # h /\ x \in ToSet(q)
  <2>1. PICK k \in 1 .. n : q[k] = x
    BY <1>1, <1>5
  <2> DEFINE s == RemoveFirst(q, x)
             p == RemoveFirst(r, x)
             a == <<h>> \o p
  <2>2. /\ s \in Seq(Threads) /\ Len(s) = n - 1
        /\ \A i \in 1 .. n - 1 : s[i] = IF i < k THEN q[i] ELSE q[i + 1]
    BY <2>1, RemovePresent
  <2>3. k - 1 \in 1 .. Len(r) /\ r[k - 1] = x
    <3> HIDE DEF n
    <3>1. k # 1
      BY <1>1, <1>5, <2>1
    <3>2. k - 1 \in 1 .. n - 1 /\ (k - 1) + 1 = k
      BY <1>1, <2>1, <3>1
    <3> QED BY <1>2, <2>1, <3>2
  <2>4. /\ p \in Seq(Threads) /\ Len(p) = Len(r) - 1
        /\ \A i \in 1 .. Len(r) - 1 : p[i] = IF i < k - 1 THEN r[i] ELSE r[i + 1]
    <3> DEFINE l == k - 1
    <3>1. Line(r) /\ l \in 1 .. Len(r) /\ r[l] = x
      BY <1>2, <2>3
    <3> HIDE DEF l
    <3>2. /\ p \in Seq(Threads) /\ Len(p) = Len(r) - 1
          /\ \A i \in 1 .. Len(r) - 1 : p[i] = IF i < l THEN r[i] ELSE r[i + 1]
      BY <3>1, RemovePresent
    <3> QED BY <3>2 DEF l
  <2> HIDE DEF s, p
  <2>5. /\ a \in Seq(Threads) /\ Len(a) = Len(p) + 1 /\ a[1] = h
        /\ \A i \in 2 .. Len(p) + 1 : a[i] = p[i - 1]
    BY <1>1, <2>4
  <2> HIDE DEF a, n
  <2>6. Len(s) = n - 1 /\ Len(a) = n - 1
    BY <1>1, <1>2, <2>2, <2>4, <2>5
  <2>7. ASSUME NEW i \in 1 .. n - 1 PROVE s[i] = a[i]
    <3>1. CASE i = 1
      <4>1. i < k
        BY <1>1, <2>1, <2>3, <1>2, <3>1
      <4> QED BY <1>1, <2>2, <2>5, <3>1, <4>1
    <3>2. CASE i # 1
      <4>1. /\ i \in 2 .. Len(p) + 1 /\ i - 1 \in 1 .. Len(r) - 1
            /\ i - 1 \in 1 .. n - 1 /\ (i - 1) + 1 \in 1 .. n - 1
            /\ (i - 1) + 1 = i /\ (i - 1 < k - 1 <=> i < k)
        BY <1>1, <1>2, <2>1, <2>4, <2>6, <3>2
      <4>2. a[i] = IF i < k THEN r[i - 1] ELSE r[i]
        BY <2>4, <2>5, <4>1
      <4>3. r[i - 1] = q[i] /\ r[i] = q[i + 1]
        BY <1>2, <4>1
      <4> QED BY <2>2, <4>2, <4>3
    <3> QED BY <3>1, <3>2
  <2>8. s = a
    BY <2>2, <2>5, <2>6, <2>7, SameSequence
  <2> QED BY <1>5, <2>8 DEF s, a, p, r, h
<1> QED BY <1>3, <1>4, <1>5

(* One step of FifoLock, or none. *)
FifoStep == Fifo!Next \/ UNCHANGED <<mowner, MutexLine>>

LEMMA NotInLine ==
    ASSUME mowner' = mowner, mqueue' = mqueue, spin'["mp"] = spin["mp"]
    PROVE  FifoStep
BY DEF FifoStep, MutexLine

(* Who draws a ticket to lock stands last in the line ... *)
LEMMA RequestIsFifo ==
    ASSUME IInv, NEW t \in Threads, NEW label, NEW back, Call(t, "mp", label, back),
           pc[t] \in {"out", "c_wait"}, UNCHANGED mutexVars
    PROVE  FifoStep
<1> DEFINE q == spin["mp"]
           r == RemoveFirst(q, mowner)
<1>1. /\ Line(q) /\ Line(mqueue) /\ q \in Seq(Threads)
      /\ spin'["mp"] = Append(q, t) /\ mowner' = mowner /\ mqueue' = mqueue
  BY DEF IInv, Queues, Types, SyncTypeOK, SpinLocks, Call, mutexVars
<1>2. t \notin ToSet(q) /\ t \notin ToSet(mqueue) /\ mowner # t
  BY DEF IInv, Spinning, MutexInv, HasMutex, OnMqueue
<1>3. RemoveFirst(Append(q, t), mowner) = Append(r, t)
  BY <1>1, <1>2, RemoveFromAppended
<1>4. Line(r) /\ r \in Seq(Threads) /\ mqueue \in Seq(Threads) /\ t \notin ToSet(r)
  BY <1>1, <1>2, RemoveFirstLemma, LineFacts
<1> HIDE DEF q, r
<1>5. MutexLine = mqueue \o r /\ MutexLine' = mqueue \o Append(r, t)
  BY <1>1, <1>3 DEF MutexLine, q, r
<1>6. mqueue \o Append(r, t) = Append(mqueue \o r, t)
  BY <1>4
<1>7. ASSUME NEW i \in DOMAIN MutexLine PROVE MutexLine[i] # t
  <2> DEFINE m == Len(mqueue)
             n == Len(r)
  <2>1. /\ m \in Nat /\ n \in Nat /\ DOMAIN MutexLine = 1 .. m + n
        /\ MutexLine[i] = IF i <= m THEN mqueue[i] ELSE r[i - m]
        /\ \A j \in 1 .. m : mqueue[j] # t
        /\ \A j \in 1 .. n : r[j] # t
    <3>1. /\ m \in Nat /\ \A j \in 1 .. m : mqueue[j] # t
          /\ n \in Nat /\ \A j \in 1 .. n : r[j] # t
      BY <1>1, <1>2, <1>4, LineFacts
    <3>2. /\ DOMAIN MutexLine = 1 .. m + n
          /\ MutexLine[i] = IF i <= m THEN mqueue[i] ELSE r[i - m]
      BY <1>4, <1>5
    <3> QED BY <3>1, <3>2
  <2> HIDE DEF m, n
  <2>2. i \in 1 .. m \/ (~(i <= m) /\ i - m \in 1 .. n)
    BY <2>1
  <2> QED BY <2>1, <2>2
<1>8. Fifo!Request(t)
  BY <1>1, <1>2, <1>5, <1>6, <1>7 DEF Fifo!Request, Fifo!InLine
<1> QED BY <1>8 DEF FifoStep, Fifo!Next

(* ... and who draws one to unlock, the owner, does not. *)
LEMMA UnlockingIsNotInLine ==
    ASSUME IInv, NEW t \in Threads, NEW label, NEW back, Call(t, "mp", label, back),
           pc[t] \in {"crit", "c_spin"}, UNCHANGED mutexVars
    PROVE  FifoStep
<1> DEFINE q == spin["mp"]
<1>1. /\ Line(q)
      /\ spin'["mp"] = Append(q, t) /\ mowner' = mowner /\ mqueue' = mqueue
  BY DEF IInv, Queues, Types, SyncTypeOK, SpinLocks, Call, mutexVars
<1>2. t \notin ToSet(q) /\ mowner = t
  BY DEF IInv, Spinning, MutexInv, HasMutex
<1>3. RemoveFirst(Append(q, t), mowner) = RemoveFirst(q, mowner)
  BY <1>1, <1>2, RemoveFromAppended, RemoveAbsent
<1> QED BY <1>1, <1>3 DEF FifoStep, MutexLine

LEMMA LockIsFifo ==
    ASSUME IInv, NEW t \in Threads, LockSection(t)
    PROVE  FifoStep
<1> DEFINE q == spin["mp"]
           r == Tail(q)
<1>1. /\ Line(q) /\ q \in Seq(Threads) /\ spin'["mp"] = r
      /\ q # <<>> /\ Head(q) = t /\ pc[t] \in {"l_spin", "k_spin"}
  BY DEF IInv, Queues, Types, SyncTypeOK, SpinLocks, LockSection, Turn, SpinUnlock,
         WaitLabel
<1>2. Line(r) /\ ToSet(r) = ToSet(q) \ {t} /\ r \in Seq(Threads)
  BY <1>1, Leaves, LineFacts
<1>3. mowner # t /\ mqueue \in Seq(Threads) /\ \A u \in ToSet(q) : u \in Threads
  BY <1>1, LineFacts DEF IInv, MutexInv, HasMutex, Queues
<1>4. RemoveFirst(q, mowner) = <<t>> \o RemoveFirst(r, mowner)
  BY <1>1, <1>3, RemoveFromServed
<1>5. Line(RemoveFirst(r, mowner))
  BY <1>2, RemoveFirstLemma
<1>6. RemoveFirst(r, mowner) \in Seq(Threads)
  BY <1>5, LineFacts
<1> DEFINE p == RemoveFirst(r, mowner)
<1>7. CASE LockTake(t)
  <2>1. mowner = None /\ mqueue = <<>> /\ mowner' = t /\ mqueue' = mqueue
    BY <1>7 DEF LockTake, IInv, MutexInv
  <2>2. None \notin ToSet(r) /\ t \notin ToSet(r)
    BY <1>2, <1>3, USyncAssumption
  <2>3. RemoveFirst(r, None) = r /\ RemoveFirst(r, t) = r
    BY <2>2, RemoveAbsent
  <2> HIDE DEF q, r
  <2>4. MutexLine = <<t>> \o r /\ MutexLine' = r
    BY <1>1, <1>2, <1>4, <2>1, <2>3 DEF MutexLine, q
  <2>5. MutexLine # <<>> /\ Head(MutexLine) = t /\ Tail(MutexLine) = r
    BY <1>2, <2>4
  <2> QED BY <2>1, <2>4, <2>5 DEF Fifo!Acquire, Fifo!Next, FifoStep
<1>8. CASE LockEnqueue(t)
  <2>1. mowner' = mowner /\ mqueue' = Append(mqueue, t)
    BY <1>8 DEF LockEnqueue
  <2> HIDE DEF q, r
  <2>2. MutexLine = mqueue \o (<<t>> \o p) /\ MutexLine' = Append(mqueue, t) \o p
    BY <1>1, <1>4, <2>1 DEF MutexLine, q
  <2> HIDE DEF p
  <2>3. p \in Seq(Threads)
    BY <1>6 DEF p
  <2>4. mqueue \o (<<t>> \o p) = Append(mqueue, t) \o p
    BY <1>3, <2>3
  <2> QED BY <2>1, <2>2, <2>4 DEF FifoStep
<1> QED BY <1>7, <1>8 DEF LockSection

LEMMA UnlockIsFifo ==
    ASSUME IInv, NEW t \in Threads, UnlockSection(t)
    PROVE  FifoStep
<1> DEFINE q == spin["mp"]
           r == Tail(q)
<1>1. /\ Line(q) /\ q \in Seq(Threads) /\ spin'["mp"] = r
      /\ q # <<>> /\ Head(q) = t /\ pc[t] = "u_spin"
  BY DEF IInv, Queues, Types, SyncTypeOK, SpinLocks, UnlockSection, Turn, SpinUnlock, At
<1>2. /\ Line(r) /\ ToSet(r) = ToSet(q) \ {t} /\ r \in Seq(Threads)
      /\ \A u \in ToSet(q) : u \in Threads
  BY <1>1, Leaves, LineFacts
<1>3. mowner = t /\ mqueue \in Seq(Threads) /\ mowner # None
  BY <1>1, USyncAssumption DEF IInv, MutexInv, HasMutex, Queues, Line
<1>4. RemoveFirst(q, mowner) = r
  BY <1>1, <1>3, RemoveFromServed
<1> HIDE DEF r
<1>5. MutexLine = mqueue \o r
  BY <1>4 DEF MutexLine
<1>6. CASE UnlockFree(t)
  <2>1. mowner' = None /\ mqueue' = mqueue
    BY <1>6 DEF UnlockFree
  <2>2. RemoveFirst(r, None) = r
    BY <1>2, RemoveAbsent, USyncAssumption
  <2>3. MutexLine' = MutexLine
    BY <1>1, <1>5, <2>1, <2>2 DEF MutexLine
  <2> QED BY <1>3, <2>1, <2>3 DEF Fifo!Release, Fifo!Next, FifoStep
<1>7. CASE UnlockHandOff(t)
  <2>1. mqueue # <<>> /\ mowner' = Head(mqueue) /\ mqueue' = Tail(mqueue)
    BY <1>7 DEF UnlockHandOff
  <2>2. Head(mqueue) \in ToSet(mqueue) /\ Head(mqueue) \in Threads
    BY <2>1, Leaves DEF IInv, Queues
  <2>3. Head(mqueue) \notin ToSet(q)
    BY <2>2 DEF IInv, MutexInv, OnMqueue, Spinning
  <2>4. RemoveFirst(r, Head(mqueue)) = r
    BY <1>2, <2>3, RemoveAbsent
  <2>5. MutexLine' = Tail(mqueue) \o r
    BY <1>1, <2>1, <2>4 DEF MutexLine
  <2>6. /\ MutexLine # <<>> /\ Head(MutexLine) = Head(mqueue)
        /\ Tail(MutexLine) = Tail(mqueue) \o r
    BY <1>2, <1>3, <1>5, <2>1
  <2> QED BY <1>3, <2>1, <2>5, <2>6 DEF Fifo!HandOff, Fifo!Next, FifoStep
<1> QED BY <1>6, <1>7 DEF UnlockSection

LEMMA CondIsFifo ==
    ASSUME IInv, NEW t \in Threads, CondStep(t) \/ CondCall(t)
    PROVE  FifoStep
<1> USE DEF At, mutexVars, condVars, IInv, Types, SyncTypeOK, SpinLocks
<1>1. CASE LockSection(t) \/ UnlockSection(t)
  BY <1>1, LockIsFifo, UnlockIsFifo
<1>2. CASE LockWait(t)
  BY <1>2, NotInLine DEF LockWait, Waits, Deschedule
<1>3. CASE WaitEnqueue(t)
  BY <1>3, UnlockingIsNotInLine DEF WaitEnqueue
<1>4. CASE WaitPark(t) \/ SignalSection(t) \/ BroadcastEnd(t)
  BY <1>4, NotInLine DEF WaitPark, SignalSection, BroadcastEnd, SpinUnlock
<1>5. CASE WaitLoop(t)
  BY <1>5, RequestIsFifo, NotInLine DEF WaitLoop, Deschedule
<1>6. CASE BroadcastEnter(t) \/ BroadcastPost(t) \/ BroadcastWake(t)
  BY <1>6, NotInLine DEF BroadcastEnter, BroadcastPost, BroadcastWake
<1>7. CASE CallLock(t)
  BY <1>7, RequestIsFifo DEF CallLock
<1>8. CASE CallUnlock(t)
  BY <1>8, UnlockingIsNotInLine DEF CallUnlock
<1>9. CASE CallWait(t) \/ \E label \in {"s_spin", "b_spin"} : CallWake(t, label)
  BY <1>9, NotInLine DEF CallWait, CallWake, Call
<1> QED
  BY <1>1, <1>2, <1>3, <1>4, <1>5, <1>6, <1>7, <1>8, <1>9
  DEF CondStep, CondCall, MutexStep, MutexCall

(* The steps of the semaphore and of the readers/writer lock touch their   *)
(* own spinlock.                                                           *)
LEMMA OtherSpinlocks ==
    ASSUME IInv, NEW t \in Threads,
           SemStep(t) \/ SemCall(t) \/ RWStep(t) \/ CallRW(t) \/ CallRWUnlock(t)
    PROVE  spin'["mp"] = spin["mp"]
<1> USE DEF IInv, Types, SyncTypeOK, SpinLocks, SpinUnlock, Call
<1>1. CASE SemStep(t)
  BY <1>1
  DEF SemStep, SemWaitSection, SemLoop, SemSignalSection, Waits, Deschedule
<1>2. CASE SemCall(t) \/ CallRW(t) \/ CallRWUnlock(t)
  BY <1>2 DEF SemCall, CallSemWait, CallSemSignal, CallRW, CallRWUnlock
<1>3. CASE ReadLock(t) \/ WriteLock(t) \/ RWLoop(t) \/ UnlockNothing(t)
  BY <1>3 DEF ReadLock, WriteLock, RWLoop, UnlockNothing, Waits, Deschedule
<1>4. CASE UnlockLast(t)
  BY <1>4 DEF UnlockLast, PassToWriter, PassToReaders, PassToNobody
<1>5. CASE WriterPost(t) \/ WriterWake(t) \/ DowngradeNothing(t) \/ Downgrade(t)
  BY <1>5 DEF WriterPost, WriterWake, DowngradeNothing, Downgrade
<1>6. CASE BroadcastReader(t) \/ BroadcastReaderWake(t)
  BY <1>6 DEF BroadcastReader, BroadcastReaderWake, BroadcastSplice
<1> QED BY <1>1, <1>2, <1>3, <1>4, <1>5, <1>6 DEF RWStep

(* The mutex grants its requests in the order of their tickets, to one     *)
(* thread at a time: nobody barges past a waiter (mutex.c:78-160).         *)
THEOREM TicketOrder == Spec => GrantsInTicketOrder
<1>1. Init => Fifo!Init
  <2> SUFFICES ASSUME Init PROVE Fifo!Init
    OBVIOUS
  <2>1. mowner = None /\ mqueue = <<>> /\ spin["mp"] = <<>>
    BY DEF Init, SyncInit, CondInit, MutexInit, SpinLocks
  <2>2. RemoveFirst(<<>>, None) = <<>>
    BY EmptyLine, RemoveAbsent
  <2> QED BY <2>1, <2>2 DEF Fifo!Init, MutexLine
<1>2. IInv /\ [Next]_vars => [Fifo!Next]_(Fifo!vars)
  <2> SUFFICES ASSUME IInv, [Next]_vars PROVE FifoStep
    BY DEF FifoStep, Fifo!vars
  <2>1. ASSUME NEW t \in Threads, Step(t) \/ CallerStep(t) PROVE FifoStep
    <3>1. CASE Wakes(t) /\ UNCHANGED <<condVars, semVars, rwVars>>
      BY <3>1, NotInLine DEF Wakes, Post, Wake, condVars, mutexVars
    <3>2. CASE CondStep(t) \/ CondCall(t)
      BY <3>2, CondIsFifo
    <3>3. CASE /\ SemStep(t) \/ SemCall(t) \/ RWStep(t) \/ CallRW(t) \/ CallRWUnlock(t)
               /\ UNCHANGED condVars
      BY <3>3, OtherSpinlocks, NotInLine DEF condVars, mutexVars
    <3> QED BY <2>1, <3>1, <3>2, <3>3 DEF Step, CallerStep
  <2>2. CASE UNCHANGED vars
    BY <2>2, NotInLine DEF vars, syncVars, condVars, mutexVars
  <2> QED BY <2>1, <2>2 DEF Next
<1> QED BY <1>1, <1>2, Inductive, PTL DEF Spec, Fifo!Spec, GrantsInTicketOrder

-----------------------------------------------------------------------------
(* The condition variable implements CondVar                               *)

(* The thread that joins the waiters with the next step is the last in the *)
(* queue.                                                                  *)
JoiningLast ==
    \A t \in Threads : Joining(t) => cvq # <<>> /\ Last(cvq) = t

(* t waits in cond_wait, or was taken and has no mutex yet. *)
Within(t) ==
    \/ pc[t] \in {"c_park", "c_wait", "k_spin", "k_wait"}
    \/ pc[t] \in {"post", "wake"} /\ home[t] = "c_park"

(* Where t stands, as far as CondVar can tell. *)
SameStand(t) ==
    /\ Within(t)' <=> Within(t)
    /\ Joining(t)' <=> Joining(t)
    /\ pc'[t] \in {"b_loop", "b_wake"} <=> pc[t] \in {"b_loop", "b_wake"}
    /\ pc'[t] = "s_spin" <=> pc[t] = "s_spin"
    /\ pc'[t] = "b_spin" <=> pc[t] = "b_spin"

OthersStay(t) ==
    \A u \in Threads \ {t} : pc'[u] = pc[u] /\ home'[u] = home[u]

(* One step of CondVar, or none. *)
CVStep == CV!Next \/ UNCHANGED <<mowner, AbsWaiting, AbsTaken, AbsCalling>>

LEMMA FrontFacts ==
    ASSUME NEW q \in Seq(Threads), q # <<>>
    PROVE  /\ Front(q) \in Seq(Threads) /\ Len(Front(q)) = Len(q) - 1
           /\ \A i \in 1 .. Len(q) - 1 : Front(q)[i] = q[i]
<1> DEFINE n == Len(q)
           m == n - 1
           p == SubSeq(q, 1, m)
<1>1. n \in Nat /\ n > 0 /\ \A i \in 1 .. n : q[i] \in Threads
  OBVIOUS
<1> HIDE DEF n
<1>2. m \in Nat /\ \A i \in 1 .. m : i \in 1 .. n
  BY <1>1
<1>3. \A i \in 1 .. m : q[i] \in Threads
  BY <1>1, <1>2
<1>4. /\ p \in Seq(Threads)
      /\ Len(p) = (IF 1 <= m THEN m - 1 + 1 ELSE 0)
      /\ \A i \in 1 .. m - 1 + 1 : p[i] = q[1 + i - 1]
  <2> HIDE DEF m, p
  <2> QED BY <1>2, <1>3, SubSeqProperties DEF p
<1>5. Front(q) = p
  BY DEF Front, n
<1> HIDE DEF p
<1>6. Len(p) = m /\ \A i \in 1 .. m : p[i] = q[i]
  <2> HIDE DEF m
  <2>1. \A i \in 1 .. m : i \in 1 .. m - 1 + 1 /\ 1 + i - 1 = i
    BY <1>2
  <2> QED BY <1>2, <1>4, <2>1
<1> QED BY <1>4, <1>5, <1>6 DEF n

LEMMA LastFacts ==
    ASSUME NEW q, Line(q)
    PROVE  /\ \A t \in Threads : Last(Append(q, t)) = t /\ Front(Append(q, t)) = q
           /\ q # <<>> => /\ Line(Front(q)) /\ q = Append(Front(q), Last(q))
                          /\ ToSet(q) = ToSet(Front(q)) \cup {Last(q)}
                          /\ Last(q) \notin ToSet(Front(q))
<1> DEFINE n == Len(q)
<1>1. /\ q \in Seq(Threads) /\ n \in Nat /\ DOMAIN q = 1 .. n
      /\ \A i \in 1 .. n : q[i] \in ToSet(q) /\ q[i] \in Threads
      /\ \A u \in ToSet(q) : \E i \in 1 .. n : q[i] = u
  BY LineFacts
<1>2. ASSUME NEW t \in Threads PROVE Last(Append(q, t)) = t /\ Front(Append(q, t)) = q
  <2> DEFINE r == Append(q, t)
             p == Front(r)
  <2>1. /\ r \in Seq(Threads) /\ Len(r) = n + 1 /\ r[n + 1] = t
        /\ \A i \in 1 .. n : r[i] = q[i]
    BY <1>1
  <2> HIDE DEF r
  <2>2. r # <<>>
    BY <1>1, <2>1
  <2>3. /\ p \in Seq(Threads) /\ Len(p) = Len(r) - 1
        /\ \A i \in 1 .. Len(r) - 1 : p[i] = r[i]
    BY <2>1, <2>2, FrontFacts
  <2> HIDE DEF p, n
  <2>4. Len(p) = n /\ \A i \in 1 .. n : p[i] = q[i]
    BY <1>1, <2>1, <2>3
  <2>5. p = q
    BY <1>1, <2>3, <2>4, SameSequence DEF n
  <2> QED BY <2>1, <2>5 DEF Last, p, r
<1>3. CASE q # <<>>
  <2> DEFINE p == Front(q)
             e == Last(q)
             a == Append(p, e)
  <2>1. /\ p \in Seq(Threads) /\ Len(p) = n - 1
        /\ \A i \in 1 .. n - 1 : p[i] = q[i]
    BY <1>1, <1>3, FrontFacts
  <2>2. n # 0 /\ e = q[n]
    BY <1>1, <1>3 DEF Last
  <2> HIDE DEF p, e
  <2>3. n \in 1 .. n /\ e \in Threads
    BY <1>1, <2>2
  <2>4. /\ a \in Seq(Threads) /\ Len(a) = Len(p) + 1 /\ a[Len(p) + 1] = e
        /\ \A i \in 1 .. Len(p) : a[i] = p[i]
    BY <2>1, <2>3
  <2> HIDE DEF a
  <2>5. q = a
    <3> HIDE DEF n
    <3>1. Len(a) = n /\ \A i \in 1 .. n : a[i] = q[i]
      <4>1. Len(p) + 1 = n /\ \A i \in 1 .. n : i = n \/ i \in 1 .. n - 1
        BY <1>1, <2>1, <2>2
      <4> QED BY <2>1, <2>2, <2>4, <4>1
    <3> QED BY <1>1, <2>4, <3>1, SameSequence DEF n
  <2>6. \A i \in 1 .. n - 1 : i \in 1 .. n /\ i # n
    <3> HIDE DEF n
    <3> QED BY <1>1
  <2>7. Line(p)
    BY <1>1, <2>1, <2>6 DEF Line
  <2>8. e \notin ToSet(p)
    <3> SUFFICES ASSUME e \in ToSet(p) PROVE FALSE
      OBVIOUS
    <3>1. PICK i \in 1 .. n - 1 : p[i] = e
      BY <2>1, <2>7, LineFacts
    <3>2. q[i] = q[n] /\ i \in 1 .. n /\ i # n
      BY <2>1, <2>2, <2>6, <3>1
    <3> QED BY <2>3, <3>2 DEF Line
  <2>9. ToSet(a) = ToSet(p) \cup {e}
    BY <2>3, <2>7, <2>8, Joins DEF a
  <2>10. q = Append(p, e) /\ ToSet(q) = ToSet(p) \cup {e}
    BY <2>5, <2>9 DEF a
  <2> HIDE DEF a
  <2> QED BY <1>2, <2>7, <2>8, <2>10 DEF p, e
<1> QED BY <1>2, <1>3

-----------------------------------------------------------------------------
(* Inside cond_wait a waker's tickets say what its label to return to says. *)
LEMMA StandFacts ==
    ASSUME IInv
    PROVE  /\ \A t \in Threads : Joined(t) \/ pc[t] \in {"k_spin", "k_wait"} <=> Within(t)
           /\ ToSet(AbsWaiting) \subseteq ToSet(cvq)
           /\ AbsTaken = {t \in Threads :
                             Within(t) /\ t \notin ToSet(AbsWaiting) /\ mowner # t}
           /\ \A t \in Threads : Joining(t) \/ pc[t] \in {"b_loop", "b_wake"} => Turn(t, "cv")
<1>1. \A t \in Threads :
         Joined(t) \/ pc[t] \in {"k_spin", "k_wait"} <=> Within(t)
  <2> SUFFICES ASSUME NEW t \in Threads, pc[t] \in {"post", "wake"}
               PROVE  Turn(t, "cv") <=> home[t] = "c_park"
    BY DEF Joined, Within
  <2>1. spin["cv"] # <<>> => Head(spin["cv"]) \in ToSet(spin["cv"])
    BY Leaves DEF IInv, Queues, SpinLocks
  <2> QED BY <2>1 DEF IInv, Spinning, HoldsCv, Parks, Turn
<1>2. cvq # <<>> => ToSet(Front(cvq)) \subseteq ToSet(cvq)
  BY LastFacts DEF IInv, Queues
<1>3. ToSet(<<>>) = {}
  BY EmptyLine
<1>4. \A t \in Threads : Joining(t) => cvq # <<>>
  BY EmptyLine DEF IInv, CondInv, Joining, Parks, OnCvq
<1>5. ToSet(AbsWaiting) \subseteq ToSet(cvq)
  BY <1>2, <1>3, <1>4 DEF AbsWaiting
<1>6. AbsTaken = {t \in Threads :
                    Within(t) /\ t \notin ToSet(AbsWaiting) /\ mowner # t}
  BY <1>1 DEF AbsTaken
<1>7. \A t \in Threads : Joining(t) \/ pc[t] \in {"b_loop", "b_wake"} => Turn(t, "cv")
  BY DEF IInv, Spinning, HoldsCv, Parks, Joining
<1> QED BY <1>1, <1>5, <1>6, <1>7

Taken ==
    {t \in Threads : Within(t) /\ t \notin ToSet(AbsWaiting) /\ mowner # t}

LEMMA TakenNext == IInv' => (AbsTaken = Taken)'
<1>1. IInv => AbsTaken = Taken
  BY StandFacts DEF Taken
<1> QED BY <1>1, PTL

(* Who has the spinlock and is neither of the two, sees the whole queue    *)
(* wait.                                                                   *)
LEMMA HasCv ==
    ASSUME IInv, NEW t \in Threads, Turn(t, "cv"),
           pc[t] \in {"c_spin", "s_spin", "b_spin"}
    PROVE  /\ ~Emptying /\ (\A u \in Threads : ~Joining(u)) /\ AbsWaiting = cvq
           /\ \A w \in ToSet(cvq) :
                 w \in Threads /\ pc[w] = "c_wait" /\ Within(w) /\ mowner # w
<1>1. \A u \in Threads : ~HoldsCv(u)
  BY DEF IInv, Spinning, Turn, HoldsCv, Parks
<1>2. ~Emptying /\ (\A u \in Threads : ~Joining(u)) /\ AbsWaiting = cvq
  BY <1>1 DEF Emptying, Joining, AbsWaiting, HoldsCv, Parks
<1>3. \A w \in ToSet(cvq) : w \in Threads /\ pc[w] = "c_wait"
  BY <1>1, LineFacts DEF IInv, Queues, CondInv, OnCvq, HoldsCv
<1> QED BY <1>2, <1>3 DEF IInv, MutexInv, HasMutex, Within

(* What a step leaves alone when nobody's stand changes. *)
LEMMA StandsStay ==
    ASSUME NEW t \in Threads, SameStand(t), OthersStay(t)
    PROVE  /\ \A u \in Threads : SameStand(u)
           /\ Emptying' <=> Emptying
           /\ cvq' = cvq => AbsWaiting' = AbsWaiting
           /\ AbsCalling' = AbsCalling
<1>1. \A u \in Threads : SameStand(u)
  BY DEF SameStand, OthersStay, Within, Joining
<1>2. Emptying' <=> Emptying
  BY <1>1 DEF SameStand, Emptying
<1>3. cvq' = cvq => AbsWaiting' = AbsWaiting
  BY <1>1, <1>2 DEF SameStand, AbsWaiting
<1>4. AbsCalling' = AbsCalling
  BY <1>1 DEF SameStand, AbsCalling
<1> QED BY <1>1, <1>2, <1>3, <1>4

LEMMA NotSeenByCV ==
    ASSUME IInv, IInv', NEW t \in Threads, SameStand(t), OthersStay(t),
           mowner' = mowner, cvq' = cvq
    PROVE  CVStep
<1>1. /\ \A u \in Threads : SameStand(u)
      /\ AbsWaiting' = AbsWaiting /\ AbsCalling' = AbsCalling
  BY StandsStay
<1>2. AbsTaken = {u \in Threads :
                    Within(u) /\ u \notin ToSet(AbsWaiting) /\ mowner # u}
  BY StandFacts
<1>3. AbsTaken' = {u \in Threads :
                     Within(u)' /\ u \notin ToSet(AbsWaiting') /\ mowner' # u}
  BY TakenNext DEF Taken
<1>4. AbsTaken' = AbsTaken
  BY <1>1, <1>2, <1>3 DEF SameStand
<1> QED BY <1>1, <1>4 DEF CVStep

(* The mutex changes hands, and with that nothing else. *)
LEMMA PassIsCV ==
    ASSUME IInv, IInv', NEW t \in Threads, OthersStay(t), cvq' = cvq,
           Joining(t)' <=> Joining(t),
           pc[t] \in {"l_spin", "k_spin", "u_spin"}, mowner = t => pc[t] = "u_spin",
           pc'[t] \in {"crit", "out", "post"}, ~Within(t)', mowner' # mowner,
           \/ mowner' = None /\ mowner = t
           \/ mowner = None /\ mowner' = t /\ t \notin ToSet(cvq)
           \/ /\ mowner = t /\ mowner' \in Threads \ {t}
              /\ pc[mowner'] \in {"l_wait", "k_wait"}
    PROVE  CVStep
<1>1. /\ \A u \in Threads \ {t} : SameStand(u)
      /\ \A u \in Threads : Joining(u)' <=> Joining(u)
  BY DEF SameStand, OthersStay, Within, Joining
<1>2. Emptying' <=> Emptying
  BY DEF Emptying, OthersStay
<1>3. AbsWaiting' = AbsWaiting
  BY <1>1, <1>2 DEF AbsWaiting
<1>4. AbsCalling' = AbsCalling
  BY DEF AbsCalling, OthersStay
<1>5. /\ AbsTaken = {u \in Threads :
                       Within(u) /\ u \notin ToSet(AbsWaiting) /\ mowner # u}
      /\ ToSet(AbsWaiting) \subseteq ToSet(cvq)
  BY StandFacts
<1>6. AbsTaken' = {u \in Threads :
                     Within(u)' /\ u \notin ToSet(AbsWaiting') /\ mowner' # u}
  BY TakenNext DEF Taken
<1>7. \A u \in Threads : u = mowner => u = t /\ ~Within(u) /\ ~Within(u)'
  BY USyncAssumption DEF Within
<1>8. \A u \in Threads : u \in ToSet(cvq) => pc[u] \notin {"l_wait", "k_wait"}
  BY DEF IInv, CondInv, OnCvq, Parks
<1>9. AbsTaken' = AbsTaken \ {mowner'}
  BY <1>1, <1>3, <1>5, <1>6, <1>7 DEF SameStand, Within
<1>10. \/ mowner' = None
       \/ mowner' \in Threads \ ((ToSet(AbsWaiting) \cup AbsTaken) \cup {mowner})
       \/ mowner' \in AbsTaken
  BY <1>5, <1>8 DEF Within
<1>11. CV!Pass
  BY <1>3, <1>4, <1>9, <1>10
  DEF CV!Pass, CV!Passes, CV!Asleep, CV!Waiting, ToSet
<1> QED BY <1>11 DEF CVStep, CV!Next

LEMMA MovesOthers ==
    ASSUME IInv, NEW t \in Threads, NEW label, Goto(t, label), home' = home
    PROVE  pc'[t] = label /\ OthersStay(t)
BY DEF IInv, Types, Goto, OthersStay

LEMMA CallMoves ==
    ASSUME IInv, NEW t \in Threads, NEW lock, NEW label, NEW back,
           Call(t, lock, label, back)
    PROVE  pc'[t] = label /\ home'[t] = back /\ OthersStay(t)
BY DEF IInv, Types, Call, Goto, OthersStay

LEMMA StaysPut ==
    ASSUME IInv, IInv', NEW t \in Threads, pc' = pc, home' = home,
           mowner' = mowner, cvq' = cvq
    PROVE  CVStep
BY NotSeenByCV DEF SameStand, OthersStay, Within, Joining

LEMMA LockSectionIsCV ==
    ASSUME IInv, IInv', NEW t \in Threads, LockSection(t), cvq' = cvq
    PROVE  CVStep
<1>1. pc[t] \in {"l_spin", "k_spin"} /\ home' = home
  BY DEF LockSection, WaitLabel
<1>2. CASE LockTake(t)
  <2>1. mowner = None /\ mowner' = t /\ Goto(t, "crit")
    BY <1>2 DEF LockTake
  <2>2. pc'[t] = "crit" /\ OthersStay(t)
    BY <1>1, <2>1, MovesOthers
  <2>3. t \notin ToSet(cvq) /\ ~Within(t)' /\ ~Joining(t) /\ ~Joining(t)'
    BY <1>1, <2>2 DEF IInv, CondInv, OnCvq, Parks, Within, Joining
  <2> QED BY <1>1, <2>1, <2>2, <2>3, PassIsCV, USyncAssumption
<1>3. CASE LockEnqueue(t)
  <2>1. mowner' = mowner /\ Goto(t, WaitLabel[pc[t]])
    BY <1>3 DEF LockEnqueue
  <2>2. pc'[t] = WaitLabel[pc[t]] /\ OthersStay(t)
    BY <1>1, <2>1, MovesOthers
  <2>3. SameStand(t)
    BY <1>1, <2>2 DEF WaitLabel, SameStand, Within, Joining
  <2> QED BY <2>1, <2>2, <2>3, NotSeenByCV
<1> QED BY <1>2, <1>3 DEF LockSection

(* A thread that was handed the mutex returns: it had it already. *)
LEMMA LockWaitIsCV ==
    ASSUME IInv, IInv', NEW t \in Threads, LockWait(t), cvq' = cvq
    PROVE  CVStep
<1>1. PICK label \in {"l_wait", "k_wait"} : Waits(t, label, "crit")
  BY DEF LockWait
<1>2. mowner' = mowner /\ home' = home /\ pc[t] = label
  BY <1>1 DEF LockWait, Waits, Deschedule, At, mutexVars
<1>3. CASE Deschedule(t)
  BY <1>2, <1>3, StaysPut DEF Deschedule
<1>4. CASE reject[t] /\ Goto(t, "crit")
  <2>1. mowner = t
    BY <1>2, <1>4 DEF IInv, MutexInv, HasMutex
  <2>2. pc'[t] = "crit" /\ OthersStay(t)
    BY <1>2, <1>4, MovesOthers
  <2>3. AbsTaken = Taken /\ (AbsTaken = Taken)'
    BY StandFacts, TakenNext DEF Taken
  <2>4. /\ \A u \in Threads \ {t} : SameStand(u)
        /\ \A u \in Threads : Joining(u)' <=> Joining(u)
    BY <1>2, <2>2 DEF SameStand, OthersStay, Within, Joining
  <2>5. AbsWaiting' = AbsWaiting
    BY <1>2, <2>2, <2>4 DEF AbsWaiting, Emptying, OthersStay
  <2>6. AbsCalling' = AbsCalling
    BY <1>2, <2>2 DEF AbsCalling, OthersStay
  <2>7. AbsTaken' = AbsTaken
    BY <1>2, <2>1, <2>3, <2>4, <2>5 DEF Taken, SameStand
  <2> QED BY <1>2, <2>5, <2>6, <2>7 DEF CVStep
<1> QED BY <1>1, <1>3, <1>4 DEF Waits

(* mutex_unlock, called alone or from cond_wait *)
LEMMA UnlockSectionIsCV ==
    ASSUME IInv, IInv', JoiningLast, NEW t \in Threads, UnlockSection(t), cvq' = cvq
    PROVE  CVStep
<1>1. /\ pc[t] = "u_spin" /\ home' = home /\ home[t] \in {"out", "c_park"}
      /\ mowner = t /\ mowner \in Threads
  BY DEF IInv, Homes, MutexInv, HasMutex, UnlockSection, At
<1>2. /\ \/ mowner' = None /\ pc'[t] = home[t]
         \/ /\ mowner' \in Threads \ {t} /\ pc[mowner'] \in {"l_wait", "k_wait"}
            /\ pc'[t] = "post"
      /\ OthersStay(t)
  <2>1. CASE UnlockFree(t)
    BY <1>1, <2>1, MovesOthers DEF UnlockFree
  <2>2. CASE UnlockHandOff(t)
    <3>1. mqueue # <<>> /\ mowner' = Head(mqueue) /\ Goto(t, "post")
      BY <2>2 DEF UnlockHandOff
    <3>2. Head(mqueue) \in Threads /\ Head(mqueue) \in ToSet(mqueue)
      BY <3>1, Leaves DEF IInv, Queues
    <3> QED BY <1>1, <3>1, <3>2, MovesOthers DEF IInv, MutexInv, OnMqueue
  <2> QED BY <2>1, <2>2 DEF UnlockSection
<1>3. mowner' # mowner
  BY <1>1, <1>2, USyncAssumption
<1>4. CASE home[t] = "out"
  <2>1. ~Within(t)' /\ ~Joining(t) /\ ~Joining(t)'
    BY <1>1, <1>2, <1>4 DEF Within, Joining
  <2> QED BY <1>1, <1>2, <1>3, <1>4, <2>1, PassIsCV
<1>5. CASE home[t] = "c_park"
  <2>1. Joining(t) /\ Turn(t, "cv")
    BY <1>1, <1>5, StandFacts DEF Joining
  <2>2. /\ \A u \in Threads : Joining(u) => u = t
        /\ ~Emptying
    BY <2>1, StandFacts DEF Turn, Emptying, Joining
  <2>3. /\ ~Emptying' /\ (\A u \in Threads : ~Joining(u)')
        /\ Within(t)' /\ ~Within(t)
        /\ \A u \in Threads \ {t} : SameStand(u)
    BY <1>1, <1>2, <1>5, <2>2 DEF OthersStay, Emptying, Joining, Within, SameStand
  <2>4. AbsWaiting = Front(cvq) /\ AbsWaiting' = cvq
    BY <2>1, <2>2, <2>3 DEF AbsWaiting
  <2>5. /\ cvq # <<>> /\ cvq = Append(Front(cvq), t)
        /\ ToSet(cvq) = ToSet(Front(cvq)) \cup {t}
    BY <2>1, LastFacts DEF JoiningLast, IInv, Queues
  <2>6. AbsTaken = Taken /\ (AbsTaken = Taken)'
    BY StandFacts, TakenNext DEF Taken
  <2>7. AbsTaken' = AbsTaken \ {mowner'}
    BY <1>1, <1>2, <2>3, <2>4, <2>5, <2>6, USyncAssumption DEF Taken, SameStand
  <2>8. AbsCalling' = AbsCalling
    BY <1>1, <1>2, <1>5 DEF AbsCalling, OthersStay
  <2>9. \A u \in Threads : u \in ToSet(cvq) => pc[u] \notin {"l_wait", "k_wait"}
    BY DEF IInv, CondInv, OnCvq, Parks
  <2>10. \/ mowner' = None
         \/ mowner' \in Threads \ ((ToSet(AbsWaiting) \cup AbsTaken) \cup {mowner})
         \/ mowner' \in AbsTaken
    BY <1>1, <1>2, <2>4, <2>5, <2>6, <2>9 DEF Taken, Within
  <2>11. CV!Wait(t)
    BY <1>1, <2>4, <2>5, <2>7, <2>8, <2>10
    DEF CV!Wait, CV!Passes, CV!Asleep, CV!Waiting, ToSet
  <2> QED BY <2>11 DEF CVStep, CV!Next
<1> QED BY <1>1, <1>4, <1>5

(* To be put in the queue is not to have joined. *)
LEMMA WaitEnqueueIsCV ==
    ASSUME IInv, IInv', NEW t \in Threads, WaitEnqueue(t)
    PROVE  CVStep
<1>1. /\ pc[t] = "c_spin" /\ Turn(t, "cv") /\ cvq' = Append(cvq, t)
      /\ mowner' = mowner /\ Call(t, "mp", "u_spin", "c_park")
  BY DEF WaitEnqueue, At, mutexVars
<1>2. pc'[t] = "u_spin" /\ home'[t] = "c_park" /\ OthersStay(t)
  BY <1>1, CallMoves
<1>3. ~Emptying /\ (\A u \in Threads : ~Joining(u)) /\ AbsWaiting = cvq
  BY <1>1, HasCv
<1>4. Joining(t)' /\ ~Emptying' /\ \A u \in Threads : Within(u)' <=> Within(u)
  BY <1>1, <1>2, <1>3 DEF Joining, Emptying, Within, OthersStay
<1>5. AbsWaiting' = Front(Append(cvq, t))
  BY <1>1, <1>4 DEF AbsWaiting
<1>6. AbsWaiting' = AbsWaiting
  BY <1>3, <1>5, LastFacts DEF IInv, Queues
<1>7. AbsTaken = Taken /\ (AbsTaken = Taken)'
  BY StandFacts, TakenNext DEF Taken
<1>8. AbsTaken' = AbsTaken
  BY <1>1, <1>4, <1>6, <1>7 DEF Taken
<1>9. AbsCalling' = AbsCalling
  BY <1>1, <1>2 DEF AbsCalling, OthersStay
<1> QED BY <1>1, <1>6, <1>8, <1>9 DEF CVStep

LEMMA SignalIsCV ==
    ASSUME IInv, IInv', NEW t \in Threads, SignalSection(t)
    PROVE  CVStep
<1>1. /\ pc[t] = "s_spin" /\ Turn(t, "cv") /\ mowner' = mowner /\ home' = home
      /\ home[t] \in {"out", "crit"}
  BY DEF IInv, Homes, SignalSection, At, mutexVars
<1>2. /\ ~Emptying /\ (\A u \in Threads : ~Joining(u)) /\ AbsWaiting = cvq
      /\ \A w \in ToSet(cvq) :
            w \in Threads /\ pc[w] = "c_wait" /\ Within(w) /\ mowner # w
  BY <1>1, HasCv
<1>3. /\ OthersStay(t)
      /\ \/ cvq # <<>> /\ cvq' = Tail(cvq) /\ pc'[t] = "post"
         \/ cvq = <<>> /\ cvq' = cvq /\ pc'[t] = home[t]
  BY <1>1, MovesOthers DEF SignalSection
<1>4. /\ ~Emptying' /\ (\A u \in Threads : ~Joining(u)')
      /\ \A u \in Threads : Within(u)' <=> Within(u)
  BY <1>1, <1>2, <1>3 DEF Emptying, Joining, Within, OthersStay
<1>5. AbsWaiting' = cvq'
  BY <1>4 DEF AbsWaiting
<1>6. AbsTaken = Taken /\ (AbsTaken = Taken)'
  BY StandFacts, TakenNext DEF Taken
<1>7. /\ AbsCalling[t] = "signal"
      /\ AbsCalling' = [AbsCalling EXCEPT ![t] = "none"]
  BY <1>1, <1>3 DEF AbsCalling, OthersStay
<1>8. CASE cvq # <<>>
  <2>1. /\ Head(cvq) \in ToSet(cvq) /\ ToSet(Tail(cvq)) = ToSet(cvq) \ {Head(cvq)}
        /\ cvq' = Tail(cvq)
    BY <1>3, <1>8, Leaves DEF IInv, Queues
  <2>2. AbsTaken' = AbsTaken \cup {Head(cvq)}
    BY <1>1, <1>2, <1>4, <1>5, <1>6, <2>1 DEF Taken
  <2>3. CV!SignalOne(t)
    BY <1>1, <1>2, <1>5, <1>7, <1>8, <2>1, <2>2 DEF CV!SignalOne, CV!Done
  <2> QED BY <2>3 DEF CVStep, CV!Next
<1>9. CASE cvq = <<>>
  <2>1. AbsTaken' = AbsTaken /\ AbsWaiting' = AbsWaiting
    BY <1>1, <1>2, <1>3, <1>4, <1>5, <1>6, <1>9 DEF Taken
  <2>2. CV!SignalNobody(t)
    BY <1>1, <1>2, <1>7, <1>9, <2>1 DEF CV!SignalNobody, CV!Done
  <2> QED BY <2>2 DEF CVStep, CV!Next
<1> QED BY <1>8, <1>9

(* A broadcast takes all of them when it gets the spinlock ... *)
LEMMA BroadcastEnterIsCV ==
    ASSUME IInv, IInv', NEW t \in Threads, BroadcastEnter(t)
    PROVE  CVStep
<1>1. /\ pc[t] = "b_spin" /\ Turn(t, "cv") /\ mowner' = mowner /\ home' = home
      /\ cvq' = cvq /\ Goto(t, "b_loop")
  BY DEF BroadcastEnter, At, condVars, mutexVars
<1>2. /\ ~Emptying /\ (\A u \in Threads : ~Joining(u)) /\ AbsWaiting = cvq
      /\ \A w \in ToSet(cvq) :
            w \in Threads /\ pc[w] = "c_wait" /\ Within(w) /\ mowner # w
  BY <1>1, HasCv
<1>3. pc'[t] = "b_loop" /\ OthersStay(t)
  BY <1>1, MovesOthers
<1>4. Emptying' /\ \A u \in Threads : Within(u)' <=> Within(u)
  BY <1>1, <1>3 DEF Emptying, Within, OthersStay
<1>5. AbsWaiting' = <<>> /\ ToSet(AbsWaiting') = {}
  BY <1>4, EmptyLine DEF AbsWaiting
<1>6. AbsTaken = Taken /\ (AbsTaken = Taken)'
  BY StandFacts, TakenNext DEF Taken
<1>7. AbsTaken' = AbsTaken \cup ToSet(AbsWaiting)
  BY <1>1, <1>2, <1>4, <1>5, <1>6 DEF Taken
<1>8. /\ AbsCalling[t] = "broadcast"
      /\ AbsCalling' = [AbsCalling EXCEPT ![t] = "none"]
  BY <1>1, <1>3 DEF AbsCalling, OthersStay
<1>9. CV!Broadcast(t)
  BY <1>1, <1>5, <1>7, <1>8 DEF CV!Broadcast, CV!Done, CV!Waiting, ToSet
<1> QED BY <1>9 DEF CVStep, CV!Next

(* ... and its rounds are not seen. *)
LEMMA BroadcastRoundIsCV ==
    ASSUME IInv, IInv', NEW t \in Threads,
           BroadcastPost(t) \/ BroadcastWake(t) \/ BroadcastEnd(t)
    PROVE  CVStep
<1>1. /\ pc[t] \in {"b_loop", "b_wake"} /\ mowner' = mowner /\ home' = home
      /\ home[t] \in {"out", "crit"}
      /\ \/ Goto(t, "b_wake")
         \/ Goto(t, "b_loop")
         \/ Goto(t, home[t]) /\ cvq = <<>> /\ cvq' = cvq
  BY DEF IInv, Homes, BroadcastPost, BroadcastWake, BroadcastEnd, At, condVars, mutexVars
<1>2. /\ \/ pc'[t] \in {"b_loop", "b_wake"}
         \/ pc'[t] = home[t] /\ cvq' = <<>>
      /\ OthersStay(t)
  BY <1>1, MovesOthers
<1>3. Turn(t, "cv") /\ Emptying
  BY <1>1, StandFacts DEF Emptying
<1>4. \A u \in Threads \ {t} : ~Joining(u) /\ pc[u] \notin {"b_loop", "b_wake"}
  BY <1>3, StandFacts DEF Turn
<1>5. \A u \in Threads : ~Joining(u)' /\ (Within(u)' <=> Within(u))
  BY <1>1, <1>2, <1>4 DEF Joining, Within, OthersStay
<1>6. AbsWaiting = <<>> /\ AbsWaiting' = <<>>
  <2>1. pc'[t] \in {"b_loop", "b_wake"} => Emptying'
    BY DEF Emptying
  <2> QED BY <1>2, <1>3, <1>5, <2>1 DEF AbsWaiting
<1>7. AbsTaken = Taken /\ (AbsTaken = Taken)'
  BY StandFacts, TakenNext DEF Taken
<1>8. AbsTaken' = AbsTaken
  BY <1>1, <1>5, <1>6, <1>7 DEF Taken
<1>9. AbsCalling' = AbsCalling
  BY <1>1, <1>2 DEF AbsCalling, OthersStay
<1> QED BY <1>1, <1>6, <1>8, <1>9 DEF CVStep

LEMMA CallWakeIsCV ==
    ASSUME IInv, IInv', NEW t \in Threads, NEW label \in {"s_spin", "b_spin"},
           CallWake(t, label)
    PROVE  CVStep
<1>1. /\ pc[t] \in {"out", "crit"} /\ mowner' = mowner /\ cvq' = cvq
      /\ Call(t, "cv", label, pc[t])
  BY DEF CallWake, At, condVars, mutexVars
<1>2. pc'[t] = label /\ home'[t] = pc[t] /\ OthersStay(t)
  BY <1>1, CallMoves
<1>3. /\ \A u \in Threads : Joining(u)' <=> Joining(u)
      /\ \A u \in Threads : Within(u)' <=> Within(u)
      /\ Emptying' <=> Emptying
  BY <1>1, <1>2 DEF Emptying, Joining, Within, OthersStay
<1>4. AbsWaiting' = AbsWaiting
  BY <1>1, <1>3 DEF AbsWaiting
<1>5. AbsTaken = Taken /\ (AbsTaken = Taken)'
  BY StandFacts, TakenNext DEF Taken
<1>6. AbsTaken' = AbsTaken
  BY <1>1, <1>3, <1>4, <1>5 DEF Taken
<1>7. t \notin ToSet(AbsWaiting) /\ t \notin AbsTaken
  BY <1>1, <1>5, StandFacts DEF Taken, Within, IInv, CondInv, OnCvq, Parks
<1> DEFINE c == IF label = "s_spin" THEN "signal" ELSE "broadcast"
<1>8. AbsCalling[t] = "none" /\ AbsCalling' = [AbsCalling EXCEPT ![t] = c]
  BY <1>1, <1>2 DEF AbsCalling, OthersStay
<1>9. CV!Call(t, c)
  BY <1>1, <1>4, <1>6, <1>7, <1>8 DEF CV!Call, CV!Asleep, CV!Waiting, ToSet
<1>10. c \in CV!Calls \ {"none"}
  BY DEF CV!Calls
<1> QED BY <1>9, <1>10 DEF CVStep, CV!Next

(* t has nothing to do with the condition variable. *)
Aside(t) ==
    ~Within(t) /\ ~Joining(t) /\ pc[t] \notin {"b_loop", "b_wake", "s_spin", "b_spin"}

LEMMA AsideIsCV ==
    ASSUME IInv, IInv', NEW t \in Threads, Aside(t), Aside(t)', OthersStay(t),
           mowner' = mowner, cvq' = cvq
    PROVE  CVStep
BY NotSeenByCV DEF Aside, SameStand

LEMMA GotoAsideIsCV ==
    ASSUME IInv, IInv', NEW t \in Threads, Aside(t), NEW label, Goto(t, label),
           home' = home, mowner' = mowner, cvq' = cvq, home[t] # "c_park",
           label \notin {"c_park", "c_wait", "k_spin", "k_wait",
                         "b_loop", "b_wake", "s_spin", "b_spin"}
    PROVE  CVStep
<1>1. pc'[t] = label /\ OthersStay(t)
  BY MovesOthers
<1>2. Aside(t)'
  BY <1>1 DEF Aside, Within, Joining
<1> QED BY <1>1, <1>2, AsideIsCV

LEMMA CallAsideIsCV ==
    ASSUME IInv, IInv', NEW t \in Threads, NEW lock, NEW label, NEW back,
           Call(t, lock, label, back), mowner' = mowner, cvq' = cvq,
           pc[t] \in {"out", "crit", "s_in", "r_in", "w_in"}, back # "c_park",
           label \in {"l_spin", "u_spin", "c_spin", "sw_spin", "ss_spin",
                      "rl_spin", "wl_spin", "dg_spin", "ul_spin"}
    PROVE  CVStep
<1>1. pc'[t] = label /\ home'[t] = back /\ OthersStay(t)
  BY CallMoves
<1>2. Aside(t) /\ Aside(t)'
  BY <1>1 DEF Aside, Within, Joining
<1> QED BY <1>1, <1>2, AsideIsCV

(* Waiting for a permit or for the readers/writer lock *)
LEMMA WaitsAsideIsCV ==
    ASSUME IInv, IInv', NEW t \in Threads, NEW label, NEW next, Waits(t, label, next),
           label \in {"s_wait", "r_wait", "w_wait"},
           next \in {"s_in", "r_in", "w_in"},
           mowner' = mowner, cvq' = cvq
    PROVE  CVStep
<1>1. pc[t] = label /\ home' = home /\ home[t] \in {"s_in", "out"}
  BY DEF Waits, Deschedule, At, IInv, Homes
<1>2. CASE Deschedule(t)
  BY <1>1, <1>2, StaysPut DEF Deschedule
<1>3. CASE Goto(t, next)
  BY <1>1, <1>3, GotoAsideIsCV DEF Aside, Within, Joining
<1> QED BY <1>2, <1>3 DEF Waits

LEMMA WakesIsCV ==
    ASSUME IInv, IInv', NEW t \in Threads, Wakes(t), mowner' = mowner, cvq' = cvq
    PROVE  CVStep
<1>1. /\ home' = home /\ home[t] \in {"out", "crit", "c_park"}
      /\ \/ pc[t] = "post" /\ Goto(t, "wake")
         \/ pc[t] = "wake" /\ Goto(t, home[t])
  BY DEF Wakes, Post, Wake, At, IInv, Homes
<1>2. OthersStay(t) /\ SameStand(t)
  BY <1>1, MovesOthers DEF SameStand, Within, Joining
<1> QED BY <1>2, NotSeenByCV

LEMMA CondIsCV ==
    ASSUME IInv, IInv', JoiningLast, NEW t \in Threads, CondStep(t) \/ CondCall(t)
    PROVE  CVStep
<1>1. CASE MutexStep(t) /\ UNCHANGED cvq
  BY <1>1, LockSectionIsCV, LockWaitIsCV, UnlockSectionIsCV DEF MutexStep
<1>2. CASE WaitPark(t)
  <2>1. /\ pc[t] = "c_park" /\ Goto(t, "c_wait") /\ home' = home
        /\ mowner' = mowner /\ cvq' = cvq
    BY <1>2 DEF WaitPark, At, condVars, mutexVars
  <2>2. OthersStay(t) /\ SameStand(t)
    BY <2>1, MovesOthers DEF SameStand, Within, Joining
  <2> QED BY <2>1, <2>2, NotSeenByCV
<1>3. CASE WaitLoop(t)
  <2>1. pc[t] = "c_wait" /\ mowner' = mowner /\ cvq' = cvq
    BY <1>3 DEF WaitLoop, At, condVars, mutexVars
  <2>2. CASE Deschedule(t)
    BY <2>1, <2>2, StaysPut DEF Deschedule
  <2>3. CASE Call(t, "mp", "k_spin", "crit")
    <3>1. pc'[t] = "k_spin" /\ OthersStay(t)
      BY <2>3, CallMoves
    <3>2. SameStand(t)
      BY <2>1, <3>1 DEF SameStand, Within, Joining
    <3> QED BY <2>1, <3>1, <3>2, NotSeenByCV
  <2> QED BY <1>3, <2>2, <2>3 DEF WaitLoop
<1>4. CASE MutexCall(t) /\ UNCHANGED cvq
  <2>1. mowner' = mowner
    BY <1>4 DEF MutexCall, CallLock, CallUnlock, mutexVars
  <2>2. CASE CallLock(t)
    BY <1>4, <2>1, <2>2, CallAsideIsCV DEF CallLock, At
  <2>3. CASE CallUnlock(t)
    BY <1>4, <2>1, <2>3, CallAsideIsCV DEF CallUnlock, At
  <2> QED BY <1>4, <2>2, <2>3 DEF MutexCall
<1>5. CASE CallWait(t)
  <2>1. /\ pc[t] = "crit" /\ Call(t, "cv", "c_spin", "c_park")
        /\ mowner' = mowner /\ cvq' = cvq
    BY <1>5 DEF CallWait, At, condVars, mutexVars
  <2>2. pc'[t] = "c_spin" /\ OthersStay(t)
    BY <2>1, CallMoves
  <2>3. SameStand(t)
    BY <2>1, <2>2 DEF SameStand, Within, Joining
  <2> QED BY <2>1, <2>2, <2>3, NotSeenByCV
<1>6. CASE \E label \in {"s_spin", "b_spin"} : CallWake(t, label)
  BY <1>6, CallWakeIsCV
<1> QED
  BY <1>1, <1>2, <1>3, <1>4, <1>5, <1>6, WaitEnqueueIsCV, SignalIsCV,
     BroadcastEnterIsCV, BroadcastRoundIsCV
  DEF CondStep, CondCall

LEMMA SemIsCV ==
    ASSUME IInv, IInv', NEW t \in Threads, SemStep(t) \/ SemCall(t),
           mowner' = mowner, cvq' = cvq
    PROVE  CVStep
<1>1. CASE SemLoop(t)
  BY <1>1, WaitsAsideIsCV DEF SemLoop
<1>2. CASE SemWaitSection(t) \/ SemSignalSection(t)
  <2>1. /\ pc[t] \in {"sw_spin", "ss_spin"} /\ home' = home /\ home[t] \in {"s_in", "out"}
        /\ \E label \in {"s_in", "s_wait", "post", "out"} : Goto(t, label)
    BY <1>2 DEF SemWaitSection, SemSignalSection, At, IInv, Homes
  <2> QED BY <2>1, GotoAsideIsCV DEF Aside, Within, Joining
<1>3. CASE SemCall(t)
  BY <1>3, CallAsideIsCV DEF SemCall, CallSemWait, CallSemSignal, At
<1> QED BY <1>1, <1>2, <1>3 DEF SemStep

LEMMA RWIsCV ==
    ASSUME IInv, IInv', NEW t \in Threads, RWStep(t) \/ CallRW(t) \/ CallRWUnlock(t),
           mowner' = mowner, cvq' = cvq
    PROVE  CVStep
<1>1. CASE RWLoop(t)
  BY <1>1, WaitsAsideIsCV DEF RWLoop
<1>2. CASE CallRW(t) \/ CallRWUnlock(t)
  BY <1>2, CallAsideIsCV DEF CallRW, CallRWUnlock, At
<1>3. CASE RWStep(t) /\ ~RWLoop(t)
  <2>1. /\ pc[t] \in {"rl_spin", "wl_spin", "ul_spin", "dg_spin", "late_post",
                      "late_wake", "bc", "bc_wake"}
        /\ home' = home
    BY <1>3
    DEF RWStep, ReadLock, WriteLock, UnlockNothing, UnlockLast, WriterPost,
        WriterWake, DowngradeNothing, Downgrade, BroadcastReader,
        BroadcastReaderWake, Section, At
  <2>2. home[t] \in {"out", "r_in"}
    BY <2>1 DEF IInv, Homes
  <2>3. \E label \in {"r_in", "r_wait", "w_in", "w_wait", "out", "late_post",
                      "late_wake", "bc", "bc_wake"} : Goto(t, label)
    BY <1>3, <2>2
    DEF RWStep, ReadLock, ReadEnter, ReadEnqueue, WriteLock, UnlockNothing,
        UnlockLast, PassToWriter, PassToReaders, PassToNobody, WriterPost,
        WriterWake, DowngradeNothing, Downgrade, BroadcastReader,
        BroadcastReaderWake, BroadcastSplice
  <2> QED BY <2>1, <2>2, <2>3, GotoAsideIsCV DEF Aside, Within, Joining
<1> QED BY <1>1, <1>2, <1>3

-----------------------------------------------------------------------------
(* Nobody but WaitEnqueue makes a joining thread. *)
LEMMA NewJoiner ==
    ASSUME IInv, NEW t \in Threads, Step(t) \/ CallerStep(t), ~WaitEnqueue(t)
    PROVE  \A u \in Threads : Joining(u)' => Joining(u)
<1>1. ASSUME pc' = pc, home' = home
      PROVE  \A u \in Threads : Joining(u)' => Joining(u)
  BY <1>1 DEF Joining
<1>2. ASSUME NEW label, Goto(t, label), home' = home, label # "u_spin"
      PROVE  \A u \in Threads : Joining(u)' => Joining(u)
  BY <1>2, MovesOthers DEF OthersStay, Joining
<1>3. ASSUME NEW lock, NEW label, NEW back, Call(t, lock, label, back),
             label # "u_spin" \/ back # "c_park"
      PROVE  \A u \in Threads : Joining(u)' => Joining(u)
  BY <1>3, CallMoves DEF OthersStay, Joining
<1>4. CASE Wakes(t)
  <2>1. pc[t] \in {"post", "wake"} => home[t] # "u_spin"
    BY DEF IInv, Homes
  <2> QED BY <1>2, <1>4, <2>1 DEF Wakes, Post, Wake, At
<1>5. CASE CondStep(t)
  <2>1. CASE MutexStep(t) \/ WaitLoop(t)
    <3>1. pc[t] = "u_spin" => home[t] # "u_spin"
      BY DEF IInv, Homes
    <3>2. pc[t] \in {"l_spin", "k_spin"} => WaitLabel[pc[t]] # "u_spin"
      BY DEF WaitLabel
    <3>3. CASE LockSection(t) \/ UnlockSection(t)
      BY <1>2, <3>1, <3>2, <3>3
      DEF LockSection, LockTake, LockEnqueue, WaitLabel, UnlockSection,
          UnlockFree, UnlockHandOff, At
    <3>4. CASE LockWait(t) \/ WaitLoop(t)
      BY <1>1, <1>2, <1>3, <3>4 DEF LockWait, WaitLoop, Waits, Deschedule
    <3> QED BY <2>1, <3>3, <3>4 DEF MutexStep
  <2>2. CASE ~MutexStep(t) /\ ~WaitLoop(t)
    <3>1. pc[t] \in {"s_spin", "b_loop"} => home[t] # "u_spin"
      BY DEF IInv, Homes
    <3> QED
      BY <1>2, <1>5, <2>2, <3>1
      DEF CondStep, WaitPark, SignalSection, BroadcastEnter, BroadcastPost,
          BroadcastWake, BroadcastEnd, At
  <2> QED BY <2>1, <2>2
<1>6. CASE SemStep(t)
  BY <1>1, <1>2, <1>6
  DEF SemStep, SemWaitSection, SemLoop, SemSignalSection, Waits, Deschedule
<1>7. CASE RWStep(t)
  <2>1. CASE RWLoop(t)
    BY <1>1, <1>2, <2>1 DEF RWLoop, Waits, Deschedule
  <2>2. CASE ~RWLoop(t)
    <3>1. pc[t] \in {"ul_spin", "dg_spin", "late_wake", "bc_wake"} => home[t] # "u_spin"
      BY DEF IInv, Homes
    <3> QED
      BY <1>2, <1>7, <2>2, <3>1
      DEF RWStep, ReadLock, ReadEnter, ReadEnqueue, WriteLock, UnlockNothing,
          UnlockLast, PassToWriter, PassToReaders, PassToNobody, WriterPost,
          WriterWake, DowngradeNothing, Downgrade, BroadcastReader,
          BroadcastReaderWake, BroadcastSplice, Section, At
  <2> QED BY <2>1, <2>2
<1>8. CASE CallerStep(t)
  BY <1>3, <1>8
  DEF CallerStep, CondCall, MutexCall, CallLock, CallUnlock, CallWait, CallWake,
      SemCall, CallSemWait, CallSemSignal, CallRW, CallRWUnlock
<1> QED BY <1>4, <1>5, <1>6, <1>7, <1>8 DEF Step

(* What keeps the joining thread the last of the queue: everybody else who *)
(* would touch it has to wait for the spinlock.                            *)
LEMMA JoiningLastKept ==
    ASSUME IInv, IInv', JoiningLast, [Next]_vars
    PROVE  JoiningLast'
<1>1. CASE UNCHANGED vars
  BY <1>1 DEF vars, syncVars, condVars, JoiningLast, Joining, Last
<1>2. ASSUME NEW t \in Threads, Step(t) \/ CallerStep(t)
      PROVE  JoiningLast'
  <2>1. CASE WaitEnqueue(t)
    <3>1. /\ cvq' = Append(cvq, t) /\ Call(t, "mp", "u_spin", "c_park")
          /\ Turn(t, "cv") /\ pc[t] = "c_spin"
      BY <2>1 DEF WaitEnqueue, At
    <3>2. \A u \in Threads : ~Joining(u)
      BY <3>1, HasCv
    <3>3. \A u \in Threads : Joining(u)' => u = t
      BY <3>1, <3>2, CallMoves DEF OthersStay, Joining
    <3>4. Last(cvq') = t /\ cvq' # <<>>
      <4>1. cvq \in Seq(Threads)
        BY DEF IInv, Queues, Line
      <4>2. cvq' # <<>>
        BY <3>1, <4>1
      <4> QED BY <3>1, <4>2, LastFacts DEF IInv, Queues
    <3> QED BY <3>3, <3>4 DEF JoiningLast
  <2>2. ASSUME \A u \in Threads : Joining(u)' => Joining(u), cvq' = cvq
        PROVE  JoiningLast'
    BY <2>2 DEF JoiningLast, Last
  <2>3. ASSUME Turn(t, "cv"), ~Joining(t), ~Joining(t)', OthersStay(t)
        PROVE  JoiningLast'
    BY <2>3, StandFacts DEF Turn, OthersStay, Joining, JoiningLast
  <2>4. CASE SignalSection(t)
    <3>1. /\ pc[t] = "s_spin" /\ Turn(t, "cv") /\ home' = home
          /\ home[t] \in {"out", "crit"}
          /\ Goto(t, "post") \/ Goto(t, home[t])
      BY <2>4 DEF SignalSection, At, IInv, Homes
    <3>2. OthersStay(t) /\ ~Joining(t) /\ ~Joining(t)'
      BY <3>1, MovesOthers DEF Joining
    <3> QED BY <2>3, <3>1, <3>2
  <2>5. CASE BroadcastPost(t)
    <3>1. pc[t] = "b_loop" /\ home' = home /\ Goto(t, "b_wake")
      BY <2>5 DEF BroadcastPost, At
    <3>2. OthersStay(t) /\ ~Joining(t) /\ ~Joining(t)' /\ Turn(t, "cv")
      BY <3>1, MovesOthers, StandFacts DEF Joining
    <3> QED BY <2>3, <3>2
  <2>6. CASE ~WaitEnqueue(t) /\ ~SignalSection(t) /\ ~BroadcastPost(t)
    <3>1. cvq' = cvq
      BY <1>2, <2>6
      DEF Step, CallerStep, CondStep, CondCall, CallWait, CallWake, WaitPark,
          WaitLoop, BroadcastEnter, BroadcastWake, BroadcastEnd, condVars
    <3>2. \A u \in Threads : Joining(u)' => Joining(u)
      BY <1>2, <2>6, NewJoiner
    <3> QED BY <2>2, <3>1, <3>2
  <2> QED BY <2>1, <2>4, <2>5, <2>6
<1> QED BY <1>1, <1>2 DEF Next

LEMMA AlwaysJoiningLast == Spec => []JoiningLast
<1>1. Init => JoiningLast
  BY DEF Init, SyncInit, JoiningLast, Joining
<1>2. IInv /\ IInv' /\ JoiningLast /\ [Next]_vars => JoiningLast'
  BY JoiningLastKept
<1> QED BY <1>1, <1>2, Inductive, PTL DEF Spec

(* Giving up the mutex and joining the waiters are one step to every       *)
(* observer: no signal is missed and none wakes two, a broadcast takes all *)
(* the waiters, and nobody comes back uncalled or without the mutex        *)
(* (cvar.c:66-160).                                                        *)
THEOREM CondIsCondVar == Spec => CV!Spec
<1>1. Init => CV!Init
  <2> SUFFICES ASSUME Init PROVE CV!Init
    OBVIOUS
  <2>1. mowner = None /\ cvq = <<>> /\ \A t \in Threads : pc[t] = "out"
    BY DEF Init, SyncInit, CondInit, MutexInit
  <2>2. AbsWaiting = <<>>
    BY <2>1 DEF AbsWaiting, Emptying, Joining
  <2>3. AbsTaken = {}
    BY <2>1 DEF AbsTaken, Joined
  <2>4. AbsCalling = [t \in Threads |-> "none"]
    BY <2>1 DEF AbsCalling
  <2> QED BY <2>1, <2>2, <2>3, <2>4 DEF CV!Init
<1>2. IInv /\ IInv' /\ JoiningLast /\ [Next]_vars => [CV!Next]_(CV!vars)
  <2> SUFFICES ASSUME IInv, IInv', JoiningLast, [Next]_vars PROVE CVStep
    BY DEF CVStep, CV!vars
  <2>1. ASSUME NEW t \in Threads, Step(t) \/ CallerStep(t) PROVE CVStep
    <3>1. CASE Wakes(t) /\ UNCHANGED <<condVars, semVars, rwVars>>
      BY <3>1, WakesIsCV DEF condVars, mutexVars
    <3>2. CASE CondStep(t) \/ CondCall(t)
      BY <3>2, CondIsCV
    <3>3. CASE (SemStep(t) \/ SemCall(t)) /\ UNCHANGED <<condVars, rwVars>>
      BY <3>3, SemIsCV DEF condVars, mutexVars
    <3>4. CASE /\ RWStep(t) \/ CallRW(t) \/ CallRWUnlock(t)
               /\ UNCHANGED <<condVars, semVars>>
      BY <3>4, RWIsCV DEF condVars, mutexVars
    <3> QED BY <2>1, <3>1, <3>2, <3>3, <3>4 DEF Step, CallerStep
  <2>2. CASE UNCHANGED vars
    BY <2>2 DEF CVStep, vars, syncVars, condVars, mutexVars, AbsWaiting, AbsTaken,
                AbsCalling, Emptying, Joining, Joined, Turn
  <2> QED BY <2>1, <2>2 DEF Next
<1> QED BY <1>1, <1>2, Inductive, AlwaysJoiningLast, PTL DEF Spec, CV!Spec

-----------------------------------------------------------------------------
(* The readers/writer lock implements SharedLock                           *)

(* The waiting readers of SharedLock. *)
AbsWaitingReaders == IF Broadcasting THEN {} ELSE ToSet(rwaiting)

(* One step of SharedLock, or none. *)
SharedStep ==
    Shared!Next \/ UNCHANGED <<AbsWriter, AbsReaders, writers, AbsWaitingReaders>>

(* Steps that change neither lists nor state, and no broadcaster, are not  *)
(* seen.                                                                   *)
LEMMA NotSeen ==
    ASSUME UNCHANGED rwVars,
           \A u \in Threads : /\ Broadcasts(u)' <=> Broadcasts(u)
                              /\ Broadcasts(u) => home'[u] = home[u]
    PROVE  SharedStep
<1>1. /\ rwstate' = rwstate /\ writer' = writer /\ writers' = writers
      /\ rwaiting' = rwaiting /\ rreading' = rreading /\ todo' = todo
  BY DEF rwVars
<1>2. AbsReaders' = AbsReaders
  BY <1>1 DEF AbsReaders, Broadcasting, Broadcasts
<1>3. AbsWriter' = AbsWriter /\ AbsWaitingReaders' = AbsWaitingReaders
  BY <1>1 DEF AbsWriter, AbsWaitingReaders, Broadcasting
<1> QED BY <1>1, <1>2, <1>3 DEF SharedStep

LEMMA CallNotSeen ==
    ASSUME IInv, NEW t \in Threads, NEW lock, NEW label, NEW back,
           Call(t, lock, label, back), ~Broadcasts(t), label \notin {"bc", "bc_wake"},
           UNCHANGED rwVars
    PROVE  SharedStep
<1>1. /\ pc'[t] = label /\ \A u \in Threads \ {t} : pc'[u] = pc[u] /\ home'[u] = home[u]
  BY DEF IInv, Types, Call, Goto
<1> QED BY <1>1, NotSeen DEF Broadcasts

LEMMA GotoNotSeen ==
    ASSUME IInv, NEW t \in Threads, NEW label, Goto(t, label), home' = home,
           ~Broadcasts(t), label \notin {"bc", "bc_wake"}, UNCHANGED rwVars
    PROVE  SharedStep
<1>1. pc'[t] = label /\ \A u \in Threads \ {t} : pc'[u] = pc[u]
  BY DEF IInv, Types, Goto
<1> QED BY <1>1, NotSeen DEF Broadcasts

LEMMA PcNotSeen ==
    ASSUME pc' = pc, home' = home, UNCHANGED rwVars
    PROVE  SharedStep
BY NotSeen DEF Broadcasts

LEMMA WaitsNotSeen ==
    ASSUME IInv, NEW t \in Threads, NEW label, NEW next, Waits(t, label, next),
           label \notin {"bc", "bc_wake"}, next \notin {"bc", "bc_wake"},
           UNCHANGED rwVars
    PROVE  SharedStep
<1>1. pc[t] = label /\ home' = home /\ (pc' = pc \/ Goto(t, next))
  BY DEF Waits, Deschedule, At
<1>2. ~Broadcasts(t)
  BY <1>1 DEF Broadcasts
<1> QED BY <1>1, <1>2, PcNotSeen, GotoNotSeen

LEMMA WakesNotSeen ==
    ASSUME IInv, NEW t \in Threads, Wakes(t) \/ WriterPost(t) \/ WriterWake(t),
           UNCHANGED rwVars
    PROVE  SharedStep
<1>1. /\ pc[t] \in {"post", "wake", "late_post", "late_wake"} /\ home' = home
      /\ Goto(t, "wake") \/ Goto(t, "late_wake") \/ Goto(t, home[t])
  BY DEF Wakes, Post, Wake, WriterPost, WriterWake, At
<1>2. home[t] \in {"out", "crit", "c_park"}
  BY <1>1 DEF IInv, Homes
<1>3. ~Broadcasts(t)
  BY <1>1 DEF Broadcasts
<1> QED BY <1>1, <1>2, <1>3, GotoNotSeen

LEMMA CondNotSeen ==
    ASSUME IInv, NEW t \in Threads, CondStep(t) \/ CondCall(t), UNCHANGED rwVars
    PROVE  SharedStep
<1> USE DEF At
<1>1. CASE LockSection(t)
  <2>1. /\ pc[t] \in {"l_spin", "k_spin"} /\ home' = home
        /\ Goto(t, "crit") \/ Goto(t, "l_wait") \/ Goto(t, "k_wait")
    BY <1>1 DEF LockSection, LockTake, LockEnqueue, WaitLabel
  <2> QED BY <2>1, GotoNotSeen DEF Broadcasts
<1>2. CASE LockWait(t)
  BY <1>2, WaitsNotSeen DEF LockWait
<1>3. CASE UnlockSection(t)
  <2>1. /\ pc[t] = "u_spin" /\ home' = home /\ home[t] \in {"out", "c_park"}
        /\ Goto(t, home[t]) \/ Goto(t, "post")
    BY <1>3 DEF IInv, Homes, UnlockSection, UnlockFree, UnlockHandOff
  <2> QED BY <2>1, GotoNotSeen DEF Broadcasts
<1>4. CASE WaitEnqueue(t)
  <2>1. pc[t] = "c_spin" /\ Call(t, "mp", "u_spin", "c_park")
    BY <1>4 DEF WaitEnqueue
  <2> QED BY <2>1, CallNotSeen DEF Broadcasts
<1>5. CASE WaitPark(t)
  <2>1. pc[t] = "c_park" /\ Goto(t, "c_wait") /\ home' = home
    BY <1>5 DEF WaitPark
  <2> QED BY <2>1, GotoNotSeen DEF Broadcasts
<1>6. CASE WaitLoop(t)
  <2>1. pc[t] = "c_wait" /\ (Deschedule(t) \/ Call(t, "mp", "k_spin", "crit"))
    BY <1>6 DEF WaitLoop
  <2> QED BY <2>1, CallNotSeen, PcNotSeen DEF Broadcasts, Deschedule
<1>7. CASE SignalSection(t)
  <2>1. /\ pc[t] = "s_spin" /\ home' = home /\ home[t] \in {"out", "crit"}
        /\ Goto(t, home[t]) \/ Goto(t, "post")
    BY <1>7 DEF IInv, Homes, SignalSection
  <2> QED BY <2>1, GotoNotSeen DEF Broadcasts
<1>8. CASE BroadcastEnter(t) \/ BroadcastPost(t) \/ BroadcastWake(t) \/ BroadcastEnd(t)
  <2>1. /\ pc[t] \in {"b_spin", "b_loop", "b_wake"} /\ home' = home
        /\ home[t] \in {"out", "crit"}
        /\ Goto(t, home[t]) \/ Goto(t, "b_loop") \/ Goto(t, "b_wake")
    BY <1>8
    DEF IInv, Homes, BroadcastEnter, BroadcastPost, BroadcastWake, BroadcastEnd
  <2> QED BY <2>1, GotoNotSeen DEF Broadcasts
<1>9. CASE CondCall(t)
  <2>1. /\ pc[t] \in {"out", "crit"}
        /\ \E lock, label, back :
              /\ Call(t, lock, label, back)
              /\ label \in {"l_spin", "u_spin", "c_spin", "s_spin", "b_spin"}
    BY <1>9 DEF CondCall, MutexCall, CallLock, CallUnlock, CallWait, CallWake
  <2> QED BY <2>1, CallNotSeen DEF Broadcasts
<1> QED
  BY <1>1, <1>2, <1>3, <1>4, <1>5, <1>6, <1>7, <1>8, <1>9 DEF CondStep, MutexStep

LEMMA SemNotSeen ==
    ASSUME IInv, NEW t \in Threads, SemStep(t) \/ SemCall(t), UNCHANGED rwVars
    PROVE  SharedStep
<1> USE DEF At
<1>1. CASE SemLoop(t)
  BY <1>1, WaitsNotSeen DEF SemLoop
<1>2. CASE SemWaitSection(t) \/ SemSignalSection(t)
  <2>1. /\ pc[t] \in {"sw_spin", "ss_spin"} /\ home' = home
        /\ Goto(t, "s_in") \/ Goto(t, "s_wait") \/ Goto(t, "post") \/ Goto(t, "out")
    BY <1>2 DEF SemWaitSection, SemSignalSection
  <2> QED BY <2>1, GotoNotSeen DEF Broadcasts
<1>3. CASE SemCall(t)
  <2>1. /\ pc[t] \in {"out", "s_in"}
        /\ \/ Call(t, "sem", "sw_spin", "s_in") \/ Call(t, "sem", "ss_spin", "out")
    BY <1>3 DEF SemCall, CallSemWait, CallSemSignal
  <2> QED BY <2>1, CallNotSeen DEF Broadcasts
<1> QED BY <1>1, <1>2, <1>3 DEF SemStep

(* A thread that comes to lock has nothing and waits for nothing; the lock *)
(* is free when its state says so.                                         *)
LEMMA Comes ==
    ASSUME IInv, NEW t \in Threads, pc[t] \in {"rl_spin", "wl_spin"}, Turn(t, "rw")
    PROVE  /\ AbsWriter # t /\ t \notin AbsReaders /\ t \notin ToSet(rwaiting)
           /\ \A i \in DOMAIN writers : writers[i] # t
           /\ todo = <<>> /\ \A u \in Threads : ~Broadcasts(u)
           /\ AbsReaders = ToSet(rreading)
           /\ AbsWriter = IF rwstate = "WRLOCKED" THEN writer ELSE None
           /\ rwstate = "WRLOCKED" <=> AbsWriter # None
           /\ rwstate = "UNLOCKED" <=> AbsWriter = None /\ AbsReaders = {}
<1>1. /\ todo = <<>> /\ (\A u \in Threads : ~Broadcasts(u))
      /\ AbsReaders = ToSet(rreading)
      /\ AbsWriter = IF rwstate = "WRLOCKED" THEN writer ELSE None
  BY NoBroadcast DEF Broadcasts
<1>2. rwstate = "WRLOCKED" => writer \in Threads /\ writer # t
  BY <1>1 DEF IInv, WriterInv
<1>3. t \notin ToSet(rreading) /\ t \notin ToSet(rwaiting) /\ t \notin ToSet(writers)
  BY <1>1 DEF IInv, ReaderInv, WriterInv, LetIn
<1>4. \A i \in DOMAIN writers : writers[i] # t
  BY <1>3 DEF ToSet
<1>5. ToSet(rreading) = {} <=> rreading = <<>>
  BY LineFacts DEF IInv, Queues
<1>6. /\ rwstate = "UNLOCKED" => rreading = <<>>
      /\ rwstate = "RDLOCKED" => rreading # <<>>
      /\ rwstate \in {"UNLOCKED", "RDLOCKED", "WRLOCKED"}
  BY <1>1 DEF IInv, StateInv, Types
<1> QED BY <1>1, <1>2, <1>3, <1>4, <1>5, <1>6, USyncAssumption

LEMMA LockIsShared ==
    ASSUME IInv, NEW t \in Threads, ReadLock(t) \/ WriteLock(t)
    PROVE  SharedStep
<1>1. pc[t] \in {"rl_spin", "wl_spin"} /\ Turn(t, "rw") /\ todo' = todo
  BY DEF ReadLock, WriteLock, Section, At
<1>2. /\ AbsWriter # t /\ t \notin AbsReaders /\ t \notin ToSet(rwaiting)
      /\ \A i \in DOMAIN writers : writers[i] # t
      /\ todo = <<>>
      /\ AbsReaders = ToSet(rreading)
      /\ AbsWriter = IF rwstate = "WRLOCKED" THEN writer ELSE None
      /\ rwstate = "WRLOCKED" <=> AbsWriter # None
      /\ rwstate = "UNLOCKED" <=> AbsWriter = None /\ AbsReaders = {}
  BY <1>1, Comes
<1>3. /\ AbsWaitingReaders = ToSet(rwaiting) /\ AbsWaitingReaders' = ToSet(rwaiting')
      /\ AbsReaders' = ToSet(rreading')
      /\ AbsWriter' = IF rwstate' = "WRLOCKED" THEN writer' ELSE None
  BY <1>1, <1>2 DEF AbsWaitingReaders, AbsReaders, AbsWriter, Broadcasting
<1>4. /\ t \notin AbsWaitingReaders /\ ~Broadcasting /\ ~Broadcasting'
      /\ Shared!Away(t)
  BY <1>1, <1>2, <1>3 DEF Broadcasting, Shared!Away, Shared!InLine, AbsWaitingReaders
<1>5. CASE ReadLock(t) /\ ReadEnter(t)
  <2>1. /\ rwstate # "WRLOCKED" /\ writers = <<>> /\ writers' = writers
        /\ rwstate' # "WRLOCKED"
        /\ rwaiting' = rwaiting /\ rreading' = Append(rreading, t)
    BY <1>5 DEF ReadLock, ReadEnter
  <2>2. ToSet(rreading') = ToSet(rreading) \cup {t}
    BY <1>2, <2>1, Joins DEF IInv, Queues
  <2>3. Shared!Read(t)
    BY <1>2, <1>3, <1>4, <2>1, <2>2 DEF Shared!Read, AbsWaitingReaders
  <2> QED BY <2>3 DEF SharedStep, Shared!Next
<1>6. CASE ReadLock(t) /\ ReadEnqueue(t)
  <2>1. /\ rwstate = "WRLOCKED" \/ writers # <<>>
        /\ writers' = writers /\ writer' = writer
        /\ rwstate' = IF rwstate = "UNLOCKED" THEN "RDLOCKED" ELSE rwstate
        /\ rreading' = rreading /\ rwaiting' = Append(rwaiting, t)
    BY <1>6 DEF ReadLock, ReadEnqueue
  <2>2. rwstate' = rwstate
    BY <2>1 DEF IInv, StateInv
  <2>3. ToSet(rwaiting') = ToSet(rwaiting) \cup {t}
    BY <1>2, <2>1, Joins DEF IInv, Queues
  <2>4. Shared!WaitToRead(t)
    BY <1>2, <1>3, <1>4, <2>1, <2>2, <2>3 DEF Shared!WaitToRead, AbsWaitingReaders
  <2> QED BY <2>4 DEF SharedStep, Shared!Next
<1>7. CASE WriteLock(t) /\ rwstate = "UNLOCKED"
  <2>1. /\ rwstate' = "WRLOCKED" /\ writer' = t /\ writers' = writers
        /\ rreading' = rreading /\ rwaiting' = rwaiting
    BY <1>7 DEF WriteLock
  <2>2. Shared!Write(t)
    BY <1>2, <1>3, <1>4, <1>7, <2>1 DEF Shared!Write, Shared!Free, AbsWaitingReaders
  <2> QED BY <2>2 DEF SharedStep, Shared!Next
<1>8. CASE WriteLock(t) /\ rwstate # "UNLOCKED"
  <2>1. /\ rwstate' = rwstate /\ writer' = writer /\ writers' = Append(writers, t)
        /\ rreading' = rreading /\ rwaiting' = rwaiting
    BY <1>8 DEF WriteLock
  <2>2. Shared!WaitToWrite(t)
    BY <1>2, <1>3, <1>4, <1>8, <2>1 DEF Shared!WaitToWrite, Shared!Free, AbsWaitingReaders
  <2> QED BY <2>2 DEF SharedStep, Shared!Next
<1> QED BY <1>5, <1>6, <1>7, <1>8 DEF ReadLock

LEMMA UnlockNothingIsShared ==
    ASSUME IInv, NEW t \in Threads, UnlockNothing(t)
    PROVE  SharedStep
<1>1. /\ pc[t] = "ul_spin" /\ Turn(t, "rw") /\ todo' = todo
      /\ rwstate' = rwstate /\ writer' = writer /\ writers' = writers
      /\ rwaiting' = rwaiting
  BY DEF UnlockNothing, Section, At
<1>2. /\ todo = <<>> /\ AbsReaders = ToSet(rreading)
      /\ AbsWriter = IF rwstate = "WRLOCKED" THEN writer ELSE None
  BY <1>1, NoBroadcast DEF Broadcasts
<1>3. /\ AbsReaders' = ToSet(rreading') /\ AbsWriter' = AbsWriter
      /\ AbsWaitingReaders' = AbsWaitingReaders
      /\ ~Broadcasting /\ ~Broadcasting'
  BY <1>1, <1>2 DEF AbsWaitingReaders, AbsReaders, AbsWriter, Broadcasting
<1>4. CASE rreading' = rreading
  BY <1>1, <1>2, <1>3, <1>4 DEF SharedStep
<1>5. CASE /\ rreading' = RemoveFirst(rreading, t)
           /\ t \notin ToSet(rreading) \/ Len(rreading) > 1
  <2>1. ToSet(rreading') = ToSet(rreading) \ {t}
    BY <1>5, RemoveFirstLemma DEF IInv, Queues
  <2>2. CASE t \notin ToSet(rreading)
    <3>1. AbsReaders' = AbsReaders
      BY <1>2, <1>3, <2>1, <2>2
    <3> QED BY <1>1, <1>3, <3>1 DEF SharedStep
  <2>3. CASE t \in ToSet(rreading)
    <3>1. ToSet(rreading) # {t}
      <4> DEFINE n == Len(rreading)
      <4>1. /\ n \in Nat
            /\ \A i \in 1 .. n : rreading[i] \in ToSet(rreading)
            /\ \A i, j \in 1 .. n : rreading[i] = rreading[j] => i = j
        BY LineFacts DEF IInv, Queues, Line
      <4>2. n > 1
        BY <1>5, <2>3
      <4> HIDE DEF n
      <4>3. 1 \in 1 .. n /\ 2 \in 1 .. n
        BY <4>1, <4>2
      <4> QED BY <4>1, <4>3
    <3>2. Shared!LeaveReading(t)
      BY <1>1, <1>2, <1>3, <2>1, <2>3, <3>1 DEF Shared!LeaveReading, AbsWaitingReaders
    <3> QED BY <3>2 DEF SharedStep, Shared!Next
  <2> QED BY <2>2, <2>3
<1> QED BY <1>4, <1>5 DEF UnlockNothing

LEMMA UnlockLastIsShared ==
    ASSUME IInv, NEW t \in Threads, UnlockLast(t)
    PROVE  SharedStep
<1>1. /\ pc[t] = "ul_spin" /\ home[t] = "out" /\ Turn(t, "rw")
      /\ todo = <<>> /\ (\A u \in Threads : ~Broadcasts(u))
      /\ ToSet(rreading') = {}
      /\ rwstate = "WRLOCKED" => writer = t
  BY LastHolder
<1>2. AbsWriter = t \/ AbsReaders = {t}
  <2>1. /\ AbsReaders = ToSet(rreading)
        /\ AbsWriter = IF rwstate = "WRLOCKED" THEN writer ELSE None
    BY <1>1, NoBroadcast
  <2>2. rreading = <<t>> => ToSet(rreading) = {t}
    BY DEF ToSet
  <2> QED BY <2>1, <2>2 DEF UnlockLast
<1>3. ~Broadcasting /\ AbsWaitingReaders = ToSet(rwaiting)
  BY <1>1 DEF Broadcasting, AbsWaitingReaders
<1>4. ToSet(<<>>) = {} /\ home' = home
  BY EmptyLine DEF UnlockLast
<1>5. CASE PassToWriter(t)
  <2>1. /\ writers # <<>> /\ writer' = Head(writers) /\ writers' = Tail(writers)
        /\ rwstate' = "WRLOCKED" /\ rwaiting' = rwaiting /\ todo' = todo
    BY <1>5 DEF PassToWriter
  <2>2. ~Broadcasting' /\ AbsReaders' = {} /\ AbsWriter' = Head(writers)
    BY <1>1, <2>1 DEF Broadcasting, AbsReaders, AbsWriter
  <2> QED
    BY <1>2, <1>3, <2>1, <2>2 DEF Shared!Release, Shared!Next, SharedStep
<1>6. CASE PassToReaders(t)
  <2>1. /\ writers = <<>> /\ writers' = writers /\ rwaiting # <<>>
        /\ rwaiting' = rwaiting /\ todo' = rwaiting /\ Goto(t, "bc")
    BY <1>6 DEF PassToReaders
  <2>2. \A u \in Threads : Broadcasts(u)' => u = t
    BY <1>1, <2>1 DEF Goto, Broadcasts, IInv, Types
  <2>3. /\ Broadcasting' /\ AbsReaders' = ToSet(rwaiting) /\ AbsWriter' = None
    BY <1>1, <1>4, <2>1, <2>2 DEF Broadcasting, Broadcasts, AbsReaders, AbsWriter
  <2> QED
    BY <1>2, <1>3, <2>1, <2>3 DEF Shared!Release, Shared!Next, SharedStep
<1>7. CASE PassToNobody(t)
  <2>1. /\ writers = <<>> /\ writers' = writers /\ rwaiting = <<>>
        /\ rwaiting' = rwaiting /\ todo' = todo /\ rwstate' = "UNLOCKED"
    BY <1>7 DEF PassToNobody
  <2>2. ~Broadcasting' /\ AbsReaders' = {} /\ AbsWriter' = None
    BY <1>1, <2>1 DEF Broadcasting, AbsReaders, AbsWriter
  <2> QED
    BY <1>2, <1>3, <1>4, <2>1, <2>2 DEF Shared!Release, Shared!Next, SharedStep
<1> QED BY <1>5, <1>6, <1>7 DEF UnlockLast

LEMMA DowngradeIsShared ==
    ASSUME IInv, NEW t \in Threads, Downgrade(t)
    PROVE  SharedStep
<1>1. /\ pc[t] = "dg_spin" /\ Turn(t, "rw") /\ home' = home
      /\ rwstate = "WRLOCKED" /\ writer = t
      /\ writer' = writer /\ writers' = writers /\ rwaiting' = rwaiting
  BY DEF Downgrade, Section, At
<1>2. /\ todo = <<>> /\ (\A u \in Threads : ~Broadcasts(u))
      /\ AbsReaders = ToSet(rreading) /\ AbsWriter = t
  BY <1>1, NoBroadcast DEF Broadcasts
<1>3. rreading = <<>> /\ ToSet(rreading) = {} /\ home[t] = "r_in"
  BY <1>1, <1>2, EmptyLine DEF IInv, StateInv, WriterInv
<1>4. ~Broadcasting /\ AbsWaitingReaders = ToSet(rwaiting) /\ ToSet(<<>>) = {}
  BY <1>2, EmptyLine DEF Broadcasting, AbsWaitingReaders
<1>5. CASE rwaiting # <<>>
  <2>1. todo' = rwaiting /\ Goto(t, "bc")
    BY <1>5 DEF Downgrade
  <2>2. \A u \in Threads : Broadcasts(u)' <=> u = t
    BY <1>2, <2>1 DEF Goto, Broadcasts, IInv, Types
  <2>3. /\ Broadcasting' /\ AbsReaders' = ToSet(rwaiting) \cup {t}
        /\ AbsWriter' = None
    BY <1>1, <1>3, <1>5, <2>1, <2>2 DEF Broadcasting, Broadcasts, AbsReaders, AbsWriter
  <2> QED
    BY <1>1, <1>2, <1>4, <2>3 DEF Shared!Downgrade, Shared!Next, SharedStep
<1>6. CASE rwaiting = <<>>
  <2>1. todo' = todo /\ rwstate' = "RDLOCKED" /\ rreading' = Append(rreading, t)
    BY <1>6 DEF Downgrade
  <2>2. ToSet(rreading') = {t}
    <3>1. Line(rreading) /\ t \notin ToSet(rreading)
      BY <1>3 DEF IInv, Queues
    <3>2. ToSet(Append(rreading, t)) = ToSet(rreading) \cup {t}
      BY <3>1, Joins
    <3> QED BY <1>3, <2>1, <3>2
  <2>3. ~Broadcasting' /\ AbsReaders' = {t} /\ AbsWriter' = None
    BY <1>2, <2>1, <2>2 DEF Broadcasting, AbsReaders, AbsWriter
  <2> QED
    BY <1>1, <1>2, <1>4, <1>6, <2>3 DEF Shared!Downgrade, Shared!Next, SharedStep
<1> QED BY <1>5, <1>6

(* The readers got in when the broadcast started: its steps are not seen. *)
LEMMA BroadcastNotSeen ==
    ASSUME IInv, NEW t \in Threads, BroadcastReader(t) \/ BroadcastReaderWake(t)
    PROVE  SharedStep
<1>1. /\ Broadcasts(t) /\ home' = home /\ writer' = writer /\ writers' = writers
      /\ home[t] \in {"out", "r_in"}
  BY DEF BroadcastReader, BroadcastReaderWake, At, Broadcasts, IInv, Homes, rwVars
<1>2. /\ todo # <<>> /\ \A u \in Threads : Broadcasts(u) <=> u = t
      /\ t \notin ToSet(rwaiting)
  BY <1>1, Broadcaster
<1>3. /\ Broadcasting /\ AbsWriter = None /\ AbsWaitingReaders = {}
      /\ AbsReaders = ToSet(rwaiting) \cup (IF home[t] = "r_in" THEN {t} ELSE {})
  BY <1>2 DEF Broadcasting, AbsWriter, AbsWaitingReaders, AbsReaders, Broadcasts
<1>4. CASE BroadcastReader(t)
  <2>1. Goto(t, "bc_wake") /\ UNCHANGED rwVars
    BY <1>4 DEF BroadcastReader
  <2>2. \A u \in Threads : Broadcasts(u)' <=> Broadcasts(u)
    BY <1>1, <2>1 DEF Goto, Broadcasts, IInv, Types
  <2> QED BY <1>1, <2>1, <2>2, NotSeen
<1>5. CASE BroadcastReaderWake(t) /\ Len(todo) > 1
  <2>1. Goto(t, "bc") /\ rwstate' = rwstate /\ rwaiting' = rwaiting /\ todo' # <<>>
    <3>1. /\ Goto(t, "bc") /\ rwstate' = rwstate /\ rwaiting' = rwaiting
          /\ todo' = Tail(todo)
      BY <1>5 DEF BroadcastReaderWake
    <3>2. Line(todo') /\ Len(todo) \in Nat /\ Len(todo') = Len(todo) - 1
      BY <1>2, <3>1, Leaves DEF IInv, Queues
    <3> DEFINE n == Len(todo)
    <3>3. n - 1 # 0
      <4>1. n \in Nat /\ n > 1
        BY <1>5, <3>2
      <4> HIDE DEF n
      <4> QED BY <4>1
    <3> QED BY <3>1, <3>2, <3>3, LineFacts
  <2>2. \A u \in Threads : Broadcasts(u)' <=> Broadcasts(u)
    BY <1>1, <2>1 DEF Goto, Broadcasts, IInv, Types
  <2>3. /\ AbsWriter' = None /\ AbsWaitingReaders' = {}
        /\ AbsReaders' = ToSet(rwaiting) \cup (IF home[t] = "r_in" THEN {t} ELSE {})
    BY <1>1, <1>2, <2>1, <2>2
    DEF Broadcasting, AbsWriter, AbsWaitingReaders, AbsReaders, Broadcasts
  <2> QED BY <1>1, <1>3, <2>3 DEF SharedStep
<1>6. CASE BroadcastReaderWake(t) /\ Len(todo) = 1
  <2>1. /\ rreading' = rwaiting \o (IF home[t] = "r_in" THEN <<t>> ELSE <<>>)
        /\ rwaiting' = <<>> /\ rwstate' = "RDLOCKED" /\ todo' = Tail(todo)
    BY <1>6 DEF BroadcastReaderWake, BroadcastSplice
  <2>2. todo' = <<>>
    <3>1. Line(todo') /\ Len(todo') = 0
      BY <1>2, <1>6, <2>1, Leaves DEF IInv, Queues
    <3> QED BY <3>1, LineFacts
  <2>3. ToSet(rreading') = ToSet(rwaiting) \cup (IF home[t] = "r_in" THEN {t} ELSE {})
    <3>1. CASE home[t] = "r_in"
      <4>1. rreading' = Append(rwaiting, t)
        BY <2>1, <3>1 DEF IInv, Queues, Line
      <4> QED BY <1>2, <3>1, <4>1, Joins DEF IInv, Queues
    <3>2. CASE home[t] # "r_in"
      <4>1. rreading' = rwaiting
        BY <2>1, <3>2 DEF IInv, Queues, Line
      <4> QED BY <3>2, <4>1
    <3> QED BY <3>1, <3>2
  <2>4. /\ AbsWriter' = None /\ AbsWaitingReaders' = {} /\ AbsReaders' = ToSet(rreading')
    BY <2>1, <2>2, EmptyLine
    DEF Broadcasting, AbsWriter, AbsWaitingReaders, AbsReaders
  <2> QED BY <1>1, <1>3, <2>3, <2>4 DEF SharedStep
<1> QED BY <1>4, <1>5, <1>6 DEF BroadcastReaderWake

LEMMA RWIsShared ==
    ASSUME IInv, NEW t \in Threads, RWStep(t) \/ CallRW(t) \/ CallRWUnlock(t)
    PROVE  SharedStep
<1>1. CASE RWLoop(t)
  BY <1>1, WaitsNotSeen DEF RWLoop
<1>2. CASE WriterPost(t) \/ WriterWake(t)
  BY <1>2, WakesNotSeen DEF WriterPost, WriterWake
<1>3. CASE DowngradeNothing(t)
  <2>1. /\ pc[t] = "dg_spin" /\ Goto(t, home[t]) /\ home' = home
        /\ home[t] \in {"out", "r_in"} /\ UNCHANGED rwVars
    BY <1>3 DEF DowngradeNothing, Section, At, IInv, Homes
  <2> QED BY <2>1, GotoNotSeen DEF Broadcasts
<1>4. CASE CallRW(t) \/ CallRWUnlock(t)
  <2>1. /\ pc[t] \in {"out", "r_in", "w_in"} /\ UNCHANGED rwVars
        /\ \E label, back :
              /\ Call(t, "rw", label, back)
              /\ label \in {"rl_spin", "wl_spin", "dg_spin", "ul_spin"}
    BY <1>4 DEF CallRW, CallRWUnlock, At
  <2> QED BY <2>1, CallNotSeen DEF Broadcasts
<1> QED
  BY <1>1, <1>2, <1>3, <1>4, LockIsShared, UnlockNothingIsShared,
     UnlockLastIsShared, DowngradeIsShared, BroadcastNotSeen
  DEF RWStep

(* To every observer of who has the lock and who waits for it, lists and   *)
(* spinlock, the broadcast that wakes one reader after the other and the   *)
(* late wake-up of a writer come to SharedLock: the waiting readers get in *)
(* together and the writers in their order (rwlock.c:109,186-204,340-392). *)
THEOREM RWLockIsShared == Spec => Shared!Spec
<1>1. Init => Shared!Init
  <2> SUFFICES ASSUME Init PROVE Shared!Init
    OBVIOUS
  <2>1. /\ rwstate = "UNLOCKED" /\ todo = <<>> /\ writers = <<>>
        /\ ToSet(rreading) = {} /\ ToSet(rwaiting) = {}
    BY EmptyLine DEF Init, RWInit
  <2> QED BY <2>1 DEF Shared!Init, AbsWriter, AbsReaders, Broadcasting
<1>2. IInv /\ [Next]_vars => [Shared!Next]_(Shared!vars)
  <2> SUFFICES ASSUME IInv, [Next]_vars PROVE SharedStep
    BY DEF SharedStep, Shared!vars, AbsWaitingReaders
  <2>1. ASSUME NEW t \in Threads, Step(t) \/ CallerStep(t) PROVE SharedStep
    <3>1. CASE Wakes(t) /\ UNCHANGED <<condVars, semVars, rwVars>>
      BY <3>1, WakesNotSeen
    <3>2. CASE (CondStep(t) \/ CondCall(t)) /\ UNCHANGED <<semVars, rwVars>>
      BY <3>2, CondNotSeen
    <3>3. CASE (SemStep(t) \/ SemCall(t)) /\ UNCHANGED <<condVars, rwVars>>
      BY <3>3, SemNotSeen
    <3>4. CASE RWStep(t) \/ CallRW(t) \/ CallRWUnlock(t)
      BY <3>4, RWIsShared
    <3> QED BY <2>1, <3>1, <3>2, <3>3, <3>4 DEF Step, CallerStep
  <2>2. CASE UNCHANGED vars
    BY <2>2, PcNotSeen DEF vars, syncVars
  <2> QED BY <2>1, <2>2 DEF Next
<1> QED BY <1>1, <1>2, Inductive, PTL DEF Spec, Shared!Spec

(* The mutex apart, what the library's objects do is what the abstract     *)
(* specifications of a condition variable and of a readers/writer lock     *)
(* allow (cvar.c:66-160, rwlock.c:38-392).                                 *)
THEOREM Promises == Spec => ImplementsPromises
BY CondIsCondVar, RWLockIsShared DEF ImplementsPromises
=============================================================================
