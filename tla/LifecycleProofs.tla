-------------------------- MODULE LifecycleProofs --------------------------
(***************************************************************************)
(* Tasks and threads live and die in order, for any number of both and     *)
(* whatever fails: the counts are exact, nothing is used after it was      *)
(* freed, nothing leaks, no death goes unnoticed and no locks are waited   *)
(* for in a circle.                                                        *)
(*                                                                         *)
(* The invariant IInv says, beyond the properties, where a struct is in    *)
(* its life.  A thread that dies goes from `Ending' (the last one, which   *)
(* takes its task down) to "v_block" (its body is in somebody's hands, who *)
(* cannot free it before the lock is let go) to "dead"; a task under       *)
(* teardown is off the list, then its lock is nobody's, then it has no     *)
(* children left to free, then it is its heir's to free.                   *)
(***************************************************************************)
EXTENDS Lifecycle, FiniteSetTheorems, SequenceTheorems, WellFoundedInduction, TLAPS

-----------------------------------------------------------------------------
(* The labels of a thread on its way out: those of the last thread of its  *)
(* task, which takes the task down, and those of any other.                *)
Ending == {"v_unlist", "v_drain", "v_free", "v_find", "v_parent", "v_child"}
Dying == Ending \cup {"v_block"}
Uncounted == Dying \cup {"unused", "dead"}
Gone == Dying \cup {"v_thread", "dead"}
Building == {"f_list", "f_copy", "f_undo", "f_final", "f_child", "f_launch"}

TaskRec ==
    [parent : Tasks \cup {None}, num : Nat, live : Nat, dead : Seq(Tasks),
     waiters : SUBSET Threads, dtask : Tasks \cup {None},
     dthr : Threads \cup {None}, lock : Threads \cup {None}, vm : BOOLEAN]

Types ==
    /\ mem \in [Tasks -> Memory] /\ mini \in [Tasks -> Memory]
    /\ tcb \in [Threads -> Memory]
    /\ tk \in [Tasks -> TaskRec]
    /\ of \in [Threads -> Tasks \cup {None}]
    /\ listed \subseteq Tasks /\ listLock \in Threads \cup {None}
    /\ thrlist \subseteq Threads
    /\ pc \in [Threads -> PCs]
    /\ ptr \in [Threads -> Tasks \cup Threads \cup {None}]

(* A thread struct: whose it is, while it runs, and who keeps it after.    *)
ThreadOf(t) ==
    /\ of[t] = None <=> pc[t] = "unused"
    /\ tcb[t] = "unused" => pc[t] = "unused"
    /\ pc[t] \notin {"unused", "dead"} => tcb[t] = "alloc" /\ mem[of[t]] = "alloc"
    /\ t \in thrlist /\ of[t] # None => pc[t] \notin Gone
    /\ of[t] = InitTask => pc[t] \notin Gone
    /\ pc[t] \in Dying \cup {"dead"} /\ tcb[t] = "alloc" =>
          mem[of[t]] = "alloc" /\ tk[of[t]].dthr = t
    /\ pc[t] \in Ending => tk[of[t]].num = 0
    /\ pc[t] \notin {"unused", "nascent", "v_block", "dead"} => mini[of[t]] = "alloc"

ThreadInv == \A t \in Threads : ThreadOf(t)

(* A task that t builds has one thread, which has not started, and no      *)
(* children.                                                               *)
BuildOf(t, k) ==
    /\ k # InitTask /\ mem[k] = "alloc"
    /\ tk[k].parent = of[t]
    /\ tk[k].num = 1 /\ tk[k].live = 0 /\ tk[k].dead = <<>>
    /\ tk[k].dthr = None /\ tk[k].dtask = None
    /\ \A u \in Threads : of[u] = k => pc[u] = "nascent"
    /\ \A c \in Tasks : tk[c].parent # k
    /\ \A u \in Threads : pc[u] \in Building /\ ptr[u] = k => u = t
    /\ pc[t] \in {"f_list", "f_copy", "f_child", "f_launch"} => mini[k] = "alloc"

BuildInv ==
    \A t \in Threads : pc[t] \in Building =>
        ptr[t] \in Tasks /\ \A k \in Tasks : ptr[t] = k => BuildOf(t, k)

(* A thread that t builds has not started either. *)
ForkInv ==
    \A t \in Threads : pc[t] \in {"t_count", "t_launch"} =>
        /\ ptr[t] \in Threads /\ pc[ptr[t]] = "nascent" /\ of[ptr[t]] = of[t]
        /\ \A u \in Threads : pc[u] \in {"t_count", "t_launch"} /\ ptr[u] = ptr[t] => u = t

(* The stages of the teardown of a task k by its last thread. *)
AtStage(k, labels) ==
    \E t \in Threads :
        of[t] = k /\ tk[k].dthr = t /\ tk[k].num = 0 /\ pc[t] \in labels \cup {"v_block", "dead"}
Off(k) == AtStage(k, {"v_drain", "v_free", "v_find", "v_parent", "v_child"})
Closed(k) == AtStage(k, {"v_free", "v_find", "v_parent", "v_child"})
Bare(k) == AtStage(k, {"v_find", "v_parent", "v_child"})
Ended(k) == AtStage(k, {})

TaskOf(k) ==
    /\ mem[k] = "unused" =>
          /\ mini[k] = "unused" /\ \A t \in Threads : of[t] # k
          /\ \A c \in Tasks : tk[c].parent # k
    /\ k \in listed => mem[k] = "alloc" /\ (mini[k] = "alloc" \/ ForkUndone(k))
    /\ mem[k] = "alloc" /\ Off(k) => k \notin listed
    /\ mem[k] = "alloc" /\ Closed(k) => tk[k].lock = None
    /\ mem[k] = "alloc" /\ Bare(k) => tk[k].dead = <<>> /\ tk[k].dtask = None
    /\ mem[k] = "alloc" /\ tk[k].dthr # None =>
          /\ of[tk[k].dthr] = k /\ tcb[tk[k].dthr] = "alloc"
          /\ pc[tk[k].dthr] \in Dying \cup {"dead"}

TaskInv == InitTask \in listed /\ \A k \in Tasks : TaskOf(k)

(* Who has which lock, and what a thread is about to do under it. *)
ListLockOf(t) == listLock = t <=> pc[t] \in {"v_drain", "v_parent"}

LockOf(k, t) ==
    /\ tk[k].lock = t <=> pc[t] \in {"v_child", "v_block"} /\ ptr[t] = k
    /\ pc[t] \in {"v_child", "v_block"} /\ ptr[t] = k => mem[k] = "alloc"
    /\ pc[t] = "v_child" /\ ptr[t] = k =>
          /\ of[t] # k
          /\ tk[of[t]].parent # k => k = InitTask /\ tk[of[t]].parent \notin listed
    /\ pc[t] = "v_block" /\ ptr[t] = k =>
          \/ of[t] = k /\ tk[k].num # 0
          \/ tk[k].dtask = of[t] /\ tk[of[t]].num = 0

LockInv ==
    /\ \A t \in Threads : ListLockOf(t)
    /\ \A t \in Threads : pc[t] \in {"v_child", "v_block"} => ptr[t] \in Tasks
    /\ \A k \in Tasks, t \in Threads : LockOf(k, t)

(* Who frees what is left of a task. *)
HeirOf(p, c) ==
    mem[p] = "alloc" /\ tk[p].dtask = c =>
        /\ mem[c] = "alloc" /\ Ended(c) /\ c # p
        /\ \A t \in Threads : of[t] = c /\ pc[t] = "v_block" => ptr[t] = p
        /\ \A q \in Tasks : mem[q] = "alloc" /\ tk[q].dtask = c => q = p

InEnding(k) == \E t \in Threads : of[t] = k /\ pc[t] \in Ending

HasHeir(k) == \E p \in Tasks : mem[p] = "alloc" /\ tk[p].dtask = k

HeirInv ==
    /\ \A p, c \in Tasks : HeirOf(p, c)
    /\ \A k \in Tasks : mem[k] = "alloc" /\ tk[k].num = 0 => InEnding(k) \/ HasHeir(k)

Distinct(s) == \A i, j \in DOMAIN s : s[i] = s[j] => i = j

Dead(p) == ToSet(tk[p].dead)

InQueue(c) == \E p \in Tasks : mem[p] = "alloc" /\ c \in Dead(p)

MiniInv ==
    /\ \A p \in Tasks : mem[p] = "alloc" => Distinct(tk[p].dead)
    /\ \A p, c \in Tasks : mem[p] = "alloc" /\ c \in Dead(p) =>
          /\ mini[c] = "alloc"
          /\ \A t \in Threads : of[t] = c => pc[t] \in {"v_block", "dead"}
          /\ \A q \in Tasks : mem[q] = "alloc" /\ c \in Dead(q) => q = p
    /\ \A k \in Tasks : mini[k] = "alloc" =>
          (mem[k] = "alloc" /\ tk[k].num # 0) \/ InEnding(k) \/ InQueue(k)

Pending(u) == \E t \in Threads : ptr[t] = u /\ pc[t] = "t_count"
Members(k) == {t \in Threads : of[t] = k /\ pc[t] \notin Uncounted /\ ~Pending(t)}

NumInv ==
    \A k \in Tasks :
        /\ tk[k].num <= Cardinality(Threads)
        /\ mem[k] = "alloc" => tk[k].num = Cardinality(Members(k))

Children(k) == {c \in Tasks : mem[c] # "unused" /\ tk[c].parent = k /\ Counted(c)}
Expected(k) ==
    {c \in Tasks : mem[c] = "alloc" /\ tk[c].parent = k /\ Counted(c) /\ ~Reported(c)}

LiveInv ==
    \A k \in Tasks :
        /\ tk[k].live <= Cardinality(Children(k))
        /\ mem[k] = "alloc" => tk[k].live >= Cardinality(Expected(k))
        /\ k \in listed => tk[k].live = Cardinality(Expected(k))

WaitInv ==
    /\ \A k \in Tasks : \A w \in tk[k].waiters : pc[w] = "w_asleep" /\ of[w] = k
    /\ \A k \in Tasks : mem[k] = "alloc" /\ tk[k].waiters # {} =>
          tk[k].dead = <<>> /\ tk[k].live # 0

IInv ==
    /\ Types /\ ThreadInv /\ BuildInv /\ ForkInv /\ TaskInv /\ LockInv
    /\ HeirInv /\ MiniInv /\ NumInv /\ LiveInv /\ WaitInv

-----------------------------------------------------------------------------
(* Constants, and what the updates of a task struct come to *)

LEMMA Names ==
    /\ InitTask \in Tasks /\ InitThread \in Threads
    /\ None \notin Tasks /\ None \notin Threads
    /\ \A k \in Tasks : k \notin Threads
    /\ IsFiniteSet(Tasks) /\ IsFiniteSet(Threads)
  BY LifecycleAssumption

LEMMA FieldTypes ==
    ASSUME Types, NEW k \in Tasks
    PROVE  /\ tk[k].parent \in Tasks \cup {None} /\ tk[k].num \in Nat /\ tk[k].live \in Nat
           /\ tk[k].dead \in Seq(Tasks) /\ tk[k].waiters \subseteq Threads
           /\ tk[k].dtask \in Tasks \cup {None} /\ tk[k].dthr \in Threads \cup {None}
           /\ tk[k].lock \in Threads \cup {None}
<1>1. tk[k] \in TaskRec
  BY DEF Types
<1> QED BY <1>1 DEF TaskRec

LEMMA DeadAreTasks ==
    ASSUME Types, NEW k \in Tasks
    PROVE  ToSet(tk[k].dead) \subseteq Tasks
<1>1. tk[k].dead \in Seq(Tasks)
  BY FieldTypes
<1> QED BY <1>1 DEF ToSet

(* Two task structs that differ in their address space and in who waits at *)
(* most                                                                    *)
Fields(r, s) ==
    /\ r.parent = s.parent /\ r.num = s.num /\ r.live = s.live
    /\ r.dead = s.dead /\ r.dtask = s.dtask /\ r.dthr = s.dthr /\ r.lock = s.lock

LEMMA SetVm ==
    ASSUME tk \in [Tasks -> TaskRec], NEW k \in Tasks, NEW b \in BOOLEAN,
           tk' = [tk EXCEPT ![k].vm = b]
    PROVE  /\ tk' \in [Tasks -> TaskRec]
           /\ \A j \in Tasks : Fields(tk'[j], tk[j]) /\ tk'[j].waiters = tk[j].waiters
<1>1. tk[k] \in TaskRec /\ \A j \in Tasks : j # k => tk'[j] = tk[j]
  OBVIOUS
<1>2. tk'[k] \in TaskRec /\ Fields(tk'[k], tk[k]) /\ tk'[k].waiters = tk[k].waiters
  BY <1>1 DEF TaskRec, Fields
<1> QED BY <1>1, <1>2 DEF Fields

LEMMA SetLive ==
    ASSUME tk \in [Tasks -> TaskRec], NEW k \in Tasks,
           tk' = [tk EXCEPT ![k].live = @ + 1]
    PROVE  /\ tk' \in [Tasks -> TaskRec] /\ \A j \in Tasks \ {k} : tk'[j] = tk[j]
           /\ tk'[k].live = tk[k].live + 1
           /\ tk'[k].parent = tk[k].parent /\ tk'[k].num = tk[k].num
           /\ tk'[k].dead = tk[k].dead /\ tk'[k].waiters = tk[k].waiters
           /\ tk'[k].dtask = tk[k].dtask /\ tk'[k].dthr = tk[k].dthr
           /\ tk'[k].lock = tk[k].lock
<1>1. tk[k] \in TaskRec
  OBVIOUS
<1>2. tk'[k] \in TaskRec
  BY <1>1 DEF TaskRec
<1> QED BY <1>1, <1>2 DEF TaskRec

LEMMA SetNum ==
    ASSUME tk \in [Tasks -> TaskRec], NEW k \in Tasks,
           tk' = [tk EXCEPT ![k].num = @ + 1]
    PROVE  /\ tk' \in [Tasks -> TaskRec] /\ \A j \in Tasks \ {k} : tk'[j] = tk[j]
           /\ tk'[k].num = tk[k].num + 1
           /\ tk'[k].parent = tk[k].parent /\ tk'[k].live = tk[k].live
           /\ tk'[k].dead = tk[k].dead /\ tk'[k].waiters = tk[k].waiters
           /\ tk'[k].dtask = tk[k].dtask /\ tk'[k].dthr = tk[k].dthr
           /\ tk'[k].lock = tk[k].lock
<1>1. tk[k] \in TaskRec
  OBVIOUS
<1>2. tk'[k] \in TaskRec
  BY <1>1 DEF TaskRec
<1> QED BY <1>1, <1>2 DEF TaskRec

LEMMA SetFree ==
    ASSUME tk \in [Tasks -> TaskRec], NEW k \in Tasks,
           tk' = [tk EXCEPT ![k].vm = FALSE, ![k].dead = <<>>, ![k].dtask = None]
    PROVE  /\ tk' \in [Tasks -> TaskRec] /\ \A j \in Tasks \ {k} : tk'[j] = tk[j]
           /\ tk'[k].dead = <<>> /\ tk'[k].dtask = None
           /\ tk'[k].parent = tk[k].parent /\ tk'[k].num = tk[k].num
           /\ tk'[k].live = tk[k].live /\ tk'[k].waiters = tk[k].waiters
           /\ tk'[k].dthr = tk[k].dthr /\ tk'[k].lock = tk[k].lock
<1>1. tk[k] \in TaskRec /\ <<>> \in Seq(Tasks)
  OBVIOUS
<1>2. tk'[k] \in TaskRec
  BY <1>1 DEF TaskRec
<1> QED BY <1>1, <1>2 DEF TaskRec

LEMMA SetLock ==
    ASSUME tk \in [Tasks -> TaskRec], NEW k \in Tasks, NEW l \in Threads \cup {None},
           tk' = [tk EXCEPT ![k].lock = l]
    PROVE  /\ tk' \in [Tasks -> TaskRec] /\ \A j \in Tasks \ {k} : tk'[j] = tk[j]
           /\ tk'[k].lock = l
           /\ tk'[k].parent = tk[k].parent /\ tk'[k].num = tk[k].num
           /\ tk'[k].live = tk[k].live /\ tk'[k].dead = tk[k].dead
           /\ tk'[k].waiters = tk[k].waiters /\ tk'[k].dtask = tk[k].dtask
           /\ tk'[k].dthr = tk[k].dthr
<1>1. tk[k] \in TaskRec
  OBVIOUS
<1>2. tk'[k] \in TaskRec
  BY <1>1 DEF TaskRec
<1> QED BY <1>1, <1>2 DEF TaskRec

LEMMA SetReap ==
    ASSUME tk \in [Tasks -> TaskRec], NEW k \in Tasks, tk[k].dead # <<>>,
           tk' = [tk EXCEPT ![k].dead = Tail(@), ![k].dtask = None]
    PROVE  /\ tk' \in [Tasks -> TaskRec] /\ \A j \in Tasks \ {k} : tk'[j] = tk[j]
           /\ tk'[k].dead = Tail(tk[k].dead) /\ tk'[k].dtask = None
           /\ tk'[k].parent = tk[k].parent /\ tk'[k].num = tk[k].num
           /\ tk'[k].live = tk[k].live /\ tk'[k].waiters = tk[k].waiters
           /\ tk'[k].dthr = tk[k].dthr /\ tk'[k].lock = tk[k].lock
<1> DEFINE d == Tail(tk[k].dead)
<1>1. tk[k] \in TaskRec
  OBVIOUS
<1>2. d \in Seq(Tasks)
  BY <1>1 DEF TaskRec
<1>3. tk' = [tk EXCEPT ![k].dead = d, ![k].dtask = None]
  BY <1>1 DEF TaskRec
<1> HIDE DEF d
<1>4. tk'[k] \in TaskRec
  <2>1. tk'[k] = [tk[k] EXCEPT !.dead = d, !.dtask = None]
    BY <1>3
  <2> QED BY <1>1, <1>2, <2>1 DEF TaskRec
<1>5. /\ tk'[k].dead = d /\ tk'[k].dtask = None
      /\ tk'[k].parent = tk[k].parent /\ tk'[k].num = tk[k].num
      /\ tk'[k].live = tk[k].live /\ tk'[k].waiters = tk[k].waiters
      /\ tk'[k].dthr = tk[k].dthr /\ tk'[k].lock = tk[k].lock
  BY <1>1, <1>3 DEF TaskRec
<1>6. tk' \in [Tasks -> TaskRec] /\ \A j \in Tasks \ {k} : tk'[j] = tk[j]
  BY <1>3, <1>4
<1> QED BY <1>5, <1>6 DEF d

LEMMA SetWaiters ==
    ASSUME tk \in [Tasks -> TaskRec], NEW k \in Tasks, NEW t \in Threads,
           tk' = [tk EXCEPT ![k].waiters = @ \cup {t}]
    PROVE  /\ tk' \in [Tasks -> TaskRec] /\ \A j \in Tasks \ {k} : tk'[j] = tk[j]
           /\ tk'[k].waiters = tk[k].waiters \cup {t}
           /\ tk'[k].parent = tk[k].parent /\ tk'[k].num = tk[k].num
           /\ tk'[k].live = tk[k].live /\ tk'[k].dead = tk[k].dead
           /\ tk'[k].dtask = tk[k].dtask /\ tk'[k].dthr = tk[k].dthr
           /\ tk'[k].lock = tk[k].lock
<1>1. tk[k] \in TaskRec
  OBVIOUS
<1>2. tk'[k] \in TaskRec
  BY <1>1 DEF TaskRec
<1> QED BY <1>1, <1>2 DEF TaskRec

LEMMA SetNew ==
    ASSUME tk \in [Tasks -> TaskRec], NEW k \in Tasks, NEW p \in Tasks \cup {None},
           tk' = [tk EXCEPT ![k] = NewTask(p)]
    PROVE  /\ tk' \in [Tasks -> TaskRec] /\ \A j \in Tasks \ {k} : tk'[j] = tk[j]
           /\ tk'[k] = NewTask(p)
<1>1. NewTask(p) \in TaskRec
  BY DEF NewTask, TaskRec
<1> QED BY <1>1

-----------------------------------------------------------------------------
(* Steps that move one thread between two places that are alike here *)

Plain == {"user", "f_init", "e_load", "w_lock", "w_asleep", "v_thread"}

LEMMA QuietKeeps ==
    ASSUME IInv, NEW t \in Threads, NEW label \in Plain, pc[t] \in Plain, Goto(t, label),
           UNCHANGED <<memVars, of, listed, listLock, ptr>>,
           thrlist' \subseteq thrlist,
           label = "v_thread" => t \notin thrlist' /\ of[t] # InitTask,
           tk' \in [Tasks -> TaskRec], \A k \in Tasks : Fields(tk'[k], tk[k]),
           WaitInv'
    PROVE  IInv'
<1>1. /\ pc'[t] \in Plain /\ pc[t] \in Plain
      /\ pc'[t] = "v_thread" => t \notin thrlist' /\ of[t] # InitTask
      /\ \A u \in Threads : u # t => pc'[u] = pc[u]
      /\ pc' \in [Threads -> PCs]
  BY DEF IInv, Types, Goto, Plain, PCs
<1>2. /\ mem' = mem /\ mini' = mini /\ tcb' = tcb /\ of' = of /\ listed' = listed
      /\ listLock' = listLock /\ thrlist' \subseteq thrlist /\ ptr' = ptr
  BY DEF memVars
<1>3. \A k \in Tasks :
         /\ tk[k].dthr \in Threads \cup {None} /\ tk[k].dtask \in Tasks \cup {None}
         /\ tk[k].waiters \subseteq Threads /\ Dead(k) \subseteq Tasks
  BY FieldTypes, DeadAreTasks DEF IInv, Dead
<1>4. Types'
  BY <1>1, <1>2 DEF IInv, Types
<1>5. ThreadInv'
  <2>1. ASSUME NEW u \in Threads PROVE ThreadOf(u)'
    <3>1. ThreadOf(u) /\ of[u] \in Tasks \cup {None}
      BY DEF IInv, ThreadInv, Types
    <3> QED BY <1>1, <1>2, <3>1, Names DEF ThreadOf, Fields, Gone, Dying, Ending, Plain
  <2> QED BY <2>1 DEF ThreadInv
<1>6. BuildInv'
  <2>1. ASSUME NEW u \in Threads, pc'[u] \in Building, NEW k \in Tasks, ptr[u] = k
        PROVE  BuildOf(u, k)'
    <3>1. pc'[u] = pc[u] /\ BuildOf(u, k)
      BY <1>1, <2>1 DEF IInv, BuildInv, Building, Plain
    <3> QED BY <1>1, <1>2, <3>1 DEF BuildOf, Fields, Building, Plain
  <2> QED BY <1>1, <1>2, <2>1 DEF IInv, BuildInv, Building, Plain
<1>7. ForkInv'
  BY <1>1, <1>2 DEF IInv, ForkInv, Plain
<1>8. \A k \in Tasks : /\ Off(k)' <=> Off(k)
                       /\ Closed(k)' <=> Closed(k)
                       /\ Bare(k)' <=> Bare(k)
                       /\ Ended(k)' <=> Ended(k)
                       /\ ForkUndone(k)' <=> ForkUndone(k)
                       /\ InEnding(k)' <=> InEnding(k)
  BY <1>1, <1>2 
  DEF Off, Closed, Bare, Ended, AtStage, ForkUndone, InEnding, Ending, Fields, Plain
<1>9. TaskInv'
  <2>1. ASSUME NEW k \in Tasks PROVE TaskOf(k)'
    <3>1. TaskOf(k)
      BY DEF IInv, TaskInv
    <3> QED BY <1>1, <1>2, <1>3, <1>8, <3>1, Names DEF TaskOf, Fields, Dying, Ending, Plain
  <2> QED BY <1>2, <2>1 DEF IInv, TaskInv
<1>10. LockInv'
  <2>1. ASSUME NEW k \in Tasks, NEW u \in Threads PROVE LockOf(k, u)'
    <3>1. LockOf(k, u) /\ of[u] \in Tasks \cup {None} /\ ThreadOf(u)
      BY DEF IInv, LockInv, Types, ThreadInv
    <3> QED BY <1>1, <1>2, <3>1 DEF LockOf, ThreadOf, Fields, Plain
  <2> QED BY <1>1, <1>2, <2>1 DEF IInv, LockInv, ListLockOf, Plain
<1>11. HeirInv'
  <2>1. ASSUME NEW p \in Tasks, NEW c \in Tasks PROVE HeirOf(p, c)'
    <3>1. HeirOf(p, c)
      BY DEF IInv, HeirInv
    <3> QED BY <1>1, <1>2, <1>8, <3>1 DEF HeirOf, Fields, Plain
  <2>2. \A k \in Tasks : HasHeir(k)' <=> HasHeir(k)
    BY <1>2 DEF HasHeir, Fields
  <2> QED BY <1>2, <1>8, <2>1, <2>2 DEF IInv, HeirInv, Fields
<1>12. MiniInv'
  <2>1. \A k \in Tasks : Dead(k)' = Dead(k) /\ (InQueue(k)' <=> InQueue(k))
    BY <1>2 DEF Dead, InQueue, Fields
  <2> QED BY <1>1, <1>2, <1>8, <2>1 DEF IInv, MiniInv, Fields, Plain
<1>13. NumInv'
  <2>1. \A u \in Threads : Pending(u)' <=> Pending(u)
    BY <1>1, <1>2 DEF Pending, Plain
  <2>2. \A k \in Tasks : Members(k)' = Members(k)
    BY <1>1, <1>2, <2>1 DEF Members, Uncounted, Dying, Ending, Plain
  <2> QED BY <1>2, <2>2 DEF IInv, NumInv, Fields
<1>14. LiveInv'
  <2>1. \A k \in Tasks : Counted(k)' <=> Counted(k)
    BY <1>1, <1>2 DEF Counted, Plain
  <2>2. \A k \in Tasks : Reported(k)' <=> Reported(k)
    BY <1>1, <1>2 DEF Reported, Fields, Plain
  <2>3. \A k \in Tasks : Children(k)' = Children(k) /\ Expected(k)' = Expected(k)
    BY <1>2, <2>1, <2>2 DEF Children, Expected, Fields
  <2> QED BY <1>2, <2>3 DEF IInv, LiveInv, Fields
<1> QED
  BY <1>4, <1>5, <1>6, <1>7, <1>9, <1>10, <1>11, <1>12, <1>13, <1>14 DEF IInv

LEMMA PlainSteps ==
    ASSUME IInv, NEW t \in Threads,
           \/ ForkCheck(t) \/ ExecCheck(t) \/ ExecLoad(t) \/ ThrlistDel(t)
           \/ ReapNobody(t) \/ ReapWait(t)
    PROVE  IInv'
<1> DEFINE k == of[t]
<1>1. /\ tk \in [Tasks -> TaskRec] /\ WaitInv
      /\ pc \in [Threads -> PCs]
      /\ \A j \in Tasks : Fields(tk[j], tk[j])
  BY DEF IInv, Types, Fields
<1>2. pc[t] # "unused" => k \in Tasks
  BY DEF IInv, Types, ThreadInv, ThreadOf
<1>3. ASSUME pc[t] \notin {"w_asleep", "unused"},
             tk' = tk \/ (\E b \in BOOLEAN : tk' = [tk EXCEPT ![k].vm = b]),
             mem' = mem, of' = of, NEW label, pc' = [pc EXCEPT ![t] = label]
      PROVE  tk' \in [Tasks -> TaskRec] /\ (\A j \in Tasks : Fields(tk'[j], tk[j])) /\ WaitInv'
  <2>1. /\ tk' \in [Tasks -> TaskRec]
        /\ \A j \in Tasks : Fields(tk'[j], tk[j]) /\ tk'[j].waiters = tk[j].waiters
    BY <1>1, <1>2, <1>3, SetVm
  <2>2. \A j \in Tasks : tk[j].waiters \subseteq Threads
    BY FieldTypes DEF IInv
  <2>3. \A u \in Threads : pc[u] = "w_asleep" => pc'[u] = "w_asleep"
    BY <1>1, <1>3
  <2> QED BY <1>1, <1>3, <2>1, <2>2, <2>3 DEF WaitInv, Fields
<1>4. CASE ForkCheck(t)
  BY <1>1, <1>3, <1>4, QuietKeeps DEF ForkCheck, Goto, Plain, memVars
<1>5. CASE ExecCheck(t)
  BY <1>1, <1>3, <1>5, QuietKeeps DEF ExecCheck, Goto, Plain, memVars
<1>6. CASE ExecLoad(t)
  BY <1>1, <1>3, <1>6, QuietKeeps DEF ExecLoad, Goto, Plain, memVars
<1>7. CASE ThrlistDel(t)
  BY <1>1, <1>3, <1>7, QuietKeeps DEF ThrlistDel, Goto, Plain, memVars
<1>8. CASE ReapNobody(t)
  BY <1>1, <1>3, <1>8, QuietKeeps DEF ReapNobody, AtReap, Goto, Plain, memVars
<1>9. CASE ReapWait(t)
  <2>1. /\ pc[t] \in {"user", "w_lock"} /\ pc' = [pc EXCEPT ![t] = "w_asleep"]
        /\ tk[k].dead = <<>> /\ tk[k].live # 0 /\ k \in Tasks
        /\ tk' = [tk EXCEPT ![k].waiters = @ \cup {t}]
        /\ UNCHANGED <<memVars, of, listed, listLock, thrlist, ptr>>
    BY <1>2, <1>9 DEF ReapWait, AtReap, Goto
  <2>2. /\ tk' \in [Tasks -> TaskRec] /\ tk'[k].waiters = tk[k].waiters \cup {t}
        /\ \A j \in Tasks \ {k} : tk'[j] = tk[j]
        /\ Fields(tk'[k], tk[k])
    BY <1>1, <2>1, SetWaiters DEF Fields
  <2>3. \A j \in Tasks : Fields(tk'[j], tk[j])
    BY <2>2 DEF Fields
  <2>4. WaitInv'
    <3>1. ASSUME NEW j \in Tasks
          PROVE  /\ \A w \in tk'[j].waiters : pc'[w] = "w_asleep" /\ of'[w] = j
                 /\ mem'[j] = "alloc" /\ tk'[j].waiters # {} =>
                       tk'[j].dead = <<>> /\ tk'[j].live # 0
      <4>1. \A w \in tk[j].waiters : w \in Threads /\ pc[w] = "w_asleep" /\ of[w] = j
        BY <1>1, FieldTypes DEF IInv, WaitInv
      <4>2. \A w \in tk'[j].waiters : w \in tk[j].waiters \/ (w = t /\ j = k)
        BY <2>2
      <4>3. mem[j] = "alloc" /\ tk[j].waiters # {} => tk[j].dead = <<>> /\ tk[j].live # 0
        BY <1>1 DEF WaitInv
      <4> QED BY <1>1, <2>1, <2>2, <2>3, <4>1, <4>2, <4>3 DEF Fields, memVars
    <3> QED BY <3>1 DEF WaitInv
  <2> QED BY <2>1, <2>2, <2>3, <2>4, QuietKeeps DEF Goto, Plain
<1> QED BY <1>4, <1>5, <1>6, <1>7, <1>8, <1>9

-----------------------------------------------------------------------------
(* The steps of a teardown between its locks *)

LEMMA EndingMoves ==
    ASSUME IInv, NEW t \in Threads, NEW k \in Tasks, of[t] = k,
           NEW label \in Ending \ {"v_child"}, pc[t] \in Ending \ {"v_child"}, Goto(t, label),
           UNCHANGED <<memVars, tk, of, thrlist, ptr>>,
           listed' \subseteq listed, InitTask \in listed',
           \A j \in Tasks \ {k} : j \in listed => j \in listed',
           listLock' \in Threads \cup {None}, \A u \in Threads : ListLockOf(u)',
           TaskOf(k)'
    PROVE  IInv'
<1>1. /\ pc'[t] \in Ending /\ pc[t] \in Ending
      /\ pc[t] # "v_child" /\ pc'[t] # "v_child"
      /\ \A u \in Threads : u # t => pc'[u] = pc[u]
      /\ pc' \in [Threads -> PCs]
  BY DEF IInv, Types, Goto, Ending, PCs
<1>2. /\ mem' = mem /\ mini' = mini /\ tcb' = tcb /\ of' = of /\ tk' = tk
      /\ thrlist' = thrlist /\ ptr' = ptr
  BY DEF memVars
<1>3. \A j \in Tasks :
         /\ tk[j].dthr \in Threads \cup {None} /\ tk[j].dtask \in Tasks \cup {None}
         /\ tk[j].waiters \subseteq Threads /\ Dead(j) \subseteq Tasks
  BY FieldTypes, DeadAreTasks DEF IInv, Dead
<1>4. Types'
  BY <1>1, <1>2 DEF IInv, Types
<1>5. ThreadInv'
  <2>1. ASSUME NEW u \in Threads PROVE ThreadOf(u)'
    <3>1. ThreadOf(u) /\ of[u] \in Tasks \cup {None}
      BY DEF IInv, ThreadInv, Types
    <3> QED BY <1>1, <1>2, <3>1, Names DEF ThreadOf, Gone, Dying, Ending
  <2> QED BY <2>1 DEF ThreadInv
<1>6. BuildInv'
  <2>1. ASSUME NEW u \in Threads, pc'[u] \in Building, NEW j \in Tasks, ptr[u] = j
        PROVE  BuildOf(u, j)'
    <3>1. pc'[u] = pc[u] /\ BuildOf(u, j)
      BY <1>1, <2>1 DEF IInv, BuildInv, Building, Ending
    <3> QED BY <1>1, <1>2, <3>1 DEF BuildOf, Building, Ending
  <2> QED BY <1>1, <1>2, <2>1 DEF IInv, BuildInv, Building, Ending
<1>7. ForkInv'
  BY <1>1, <1>2 DEF IInv, ForkInv, Ending
<1>8. \A j \in Tasks : /\ j # k => (Off(j)' <=> Off(j)) /\ (Closed(j)' <=> Closed(j))
                                   /\ (Bare(j)' <=> Bare(j))
                       /\ Ended(j)' <=> Ended(j)
                       /\ ForkUndone(j)' <=> ForkUndone(j)
                       /\ InEnding(j)' <=> InEnding(j)
  BY <1>1, <1>2
  DEF Off, Closed, Bare, Ended, AtStage, ForkUndone, InEnding, Ending
<1>9. TaskInv'
  <2>1. ASSUME NEW j \in Tasks, j # k PROVE TaskOf(j)'
    <3>1. TaskOf(j)
      BY DEF IInv, TaskInv
    <3> QED BY <1>1, <1>2, <1>3, <1>8, <2>1, <3>1, Names DEF TaskOf, Dying
  <2> QED BY <1>2, <2>1 DEF IInv, TaskInv
<1>10. LockInv'
  <2>1. ASSUME NEW j \in Tasks, NEW u \in Threads PROVE LockOf(j, u)'
    <3>1. LockOf(j, u)
      BY DEF IInv, LockInv
    <3> QED BY <1>1, <1>2, <3>1 DEF LockOf, Ending
  <2> QED BY <1>1, <1>2, <2>1 DEF IInv, LockInv, Ending
<1>11. HeirInv'
  <2>1. ASSUME NEW p \in Tasks, NEW c \in Tasks PROVE HeirOf(p, c)'
    <3>1. HeirOf(p, c)
      BY DEF IInv, HeirInv
    <3> QED BY <1>1, <1>2, <1>8, <3>1 DEF HeirOf, Ending
  <2>2. \A j \in Tasks : HasHeir(j)' <=> HasHeir(j)
    BY <1>2 DEF HasHeir
  <2> QED BY <1>2, <1>8, <2>1, <2>2 DEF IInv, HeirInv
<1>12. MiniInv'
  <2>1. \A j \in Tasks : Dead(j)' = Dead(j) /\ (InQueue(j)' <=> InQueue(j))
    BY <1>2 DEF Dead, InQueue
  <2> QED BY <1>1, <1>2, <1>8, <2>1 DEF IInv, MiniInv, Ending
<1>13. NumInv'
  <2>1. \A u \in Threads : Pending(u)' <=> Pending(u)
    BY <1>1, <1>2 DEF Pending, Ending
  <2>2. \A j \in Tasks : Members(j)' = Members(j)
    BY <1>1, <1>2, <2>1 DEF Members, Uncounted, Dying
  <2> QED BY <1>2, <2>2 DEF IInv, NumInv
<1>14. LiveInv'
  <2>1. \A j \in Tasks : (Counted(j)' <=> Counted(j)) /\ (Reported(j)' <=> Reported(j))
    BY <1>1, <1>2 DEF Counted, Reported, Ending
  <2>2. \A j \in Tasks : Children(j)' = Children(j) /\ Expected(j)' = Expected(j)
    BY <1>2, <2>1 DEF Children, Expected
  <2> QED BY <1>2, <2>2 DEF IInv, LiveInv
<1>15. WaitInv'
  BY <1>1, <1>2, <1>3 DEF IInv, WaitInv, Ending
<1> QED
  BY <1>4, <1>5, <1>6, <1>7, <1>9, <1>10, <1>11, <1>12, <1>13, <1>14, <1>15 DEF IInv

(* The last thread of a task, at the label it has reached *)
LEMMA LastThread ==
    ASSUME IInv, NEW t \in Threads, pc[t] \in Ending
    PROVE  /\ of[t] \in Tasks /\ of[t] # InitTask /\ mem[of[t]] = "alloc"
           /\ tk[of[t]].dthr = t /\ tk[of[t]].num = 0 /\ tcb[t] = "alloc"
  BY DEF IInv, Types, ThreadInv, ThreadOf, Ending, Dying, Gone

LEMMA EndingSteps ==
    ASSUME IInv, NEW t \in Threads, TaskListDel(t) \/ Drain(t) \/ FindParent(t)
    PROVE  IInv'
<1>1. /\ pc[t] \in Ending \ {"v_child"} /\ pc'[t] \in Ending \ {"v_child"}
      /\ Goto(t, pc'[t])
      /\ UNCHANGED <<memVars, tk, of, thrlist, ptr>>
      /\ \A u \in Threads : u # t => pc'[u] = pc[u]
  BY DEF IInv, Types, TaskListDel, Drain, FindParent, Goto, Ending
<1>2. PICK k \in Tasks : of[t] = k /\ k # InitTask /\ tk[k].dthr = t /\ tk[k].num = 0
  BY <1>1, LastThread
<1>3. /\ listed' = listed \/ (listed' = listed \ {k} /\ pc[t] = "v_unlist")
      /\ listed' \subseteq listed /\ InitTask \in listed'
      /\ \A j \in Tasks \ {k} : j \in listed => j \in listed'
      /\ pc'[t] = "v_drain" => k \notin listed'
      /\ pc'[t] = "v_free" => tk[k].lock = None
      /\ pc[t] = "v_unlist" <=> pc'[t] = "v_drain"
      /\ pc[t] = "v_drain" <=> pc'[t] = "v_free"
      /\ pc[t] = "v_find" <=> pc'[t] = "v_parent"
      /\ pc[t] \in {"v_unlist", "v_drain", "v_find"}
  BY <1>1, <1>2 DEF TaskListDel, Drain, FindParent, OwnLockFree, IInv, TaskInv, Goto, Types
<1>4. listLock' \in Threads \cup {None} /\ \A u \in Threads : ListLockOf(u)'
  <2>1. \A u \in Threads : ListLockOf(u)
    BY DEF IInv, LockInv
  <2>2. CASE TaskListDel(t) \/ FindParent(t)
    BY <1>1, <1>3, <2>1, <2>2, Names DEF TaskListDel, FindParent, ListLockOf
  <2>3. CASE Drain(t)
    BY <1>1, <1>3, <2>1, <2>3, Names DEF Drain, ListLockOf
  <2> QED BY <2>2, <2>3
<1>5. TaskOf(k)'
  <2>1. TaskOf(k)
    BY DEF IInv, TaskInv
  <2>2. /\ mem' = mem /\ mini' = mini /\ tcb' = tcb /\ of' = of /\ tk' = tk /\ ptr' = ptr
    BY <1>1 DEF memVars
  <2>3. \A u \in Threads : of[u] = k /\ tk[k].dthr = u => u = t
    BY <1>2
  <2>4. /\ Off(k)' => k \notin listed'
        /\ Closed(k)' => tk[k].lock = None
    <3>1. pc[t] \in {"v_drain", "v_find"} => Off(k) /\ k \notin listed
      BY <1>2, <2>1, LastThread DEF Off, AtStage, TaskOf, Ending
    <3>2. pc[t] = "v_find" => Closed(k) /\ tk[k].lock = None
      BY <1>2, <2>1, LastThread DEF Closed, AtStage, TaskOf, Ending
    <3> QED BY <1>1, <1>2, <1>3, <2>2, <2>3, <3>1, <3>2 DEF Off, Closed, AtStage
  <2>5. Bare(k)' => Bare(k)
    BY <1>1, <1>2, <1>3, <2>2, <2>3 DEF Bare, AtStage
  <2>6. ForkUndone(k) => ForkUndone(k)'
    BY <1>1, <2>2 DEF ForkUndone, Ending
  <2> QED BY <1>1, <1>2, <1>3, <2>1, <2>2, <2>4, <2>5, <2>6 DEF TaskOf, Dying
<1> QED BY <1>1, <1>2, <1>3, <1>4, <1>5, EndingMoves

-----------------------------------------------------------------------------
(* The lock of the parent is taken, and a dying thread's last lock let go. *)

LEMMA LockMoves ==
    ASSUME IInv, NEW t \in Threads, NEW p \in Tasks, NEW label,
           \/ pc[t] = "v_parent" /\ label = "v_child"
           \/ pc[t] = "v_block" /\ label = "dead",
           Goto(t, label),
           tk' \in [Tasks -> TaskRec], \A j \in Tasks \ {p} : tk'[j] = tk[j],
           /\ tk'[p].parent = tk[p].parent /\ tk'[p].num = tk[p].num
           /\ tk'[p].live = tk[p].live /\ tk'[p].dead = tk[p].dead
           /\ tk'[p].waiters = tk[p].waiters /\ tk'[p].dtask = tk[p].dtask
           /\ tk'[p].dthr = tk[p].dthr,
           Closed(p) => tk'[p].lock = None,
           \A u \in Threads \ {t} : ptr'[u] = ptr[u],
           ptr' \in [Threads -> Tasks \cup Threads \cup {None}],
           listLock' \in Threads \cup {None},
           UNCHANGED <<memVars, of, listed, thrlist>>,
           LockInv'
    PROVE  IInv'
<1>1. /\ pc'[t] = label /\ \A u \in Threads : u # t => pc'[u] = pc[u]
      /\ pc' \in [Threads -> PCs]
  BY DEF IInv, Types, Goto, PCs
<1>2. /\ mem' = mem /\ mini' = mini /\ tcb' = tcb /\ of' = of
      /\ thrlist' = thrlist /\ listed' = listed
  BY DEF memVars
<1>3. \A j \in Tasks :
         /\ tk[j].dthr \in Threads \cup {None} /\ tk[j].dtask \in Tasks \cup {None}
         /\ tk[j].waiters \subseteq Threads /\ Dead(j) \subseteq Tasks
  BY FieldTypes, DeadAreTasks DEF IInv, Dead
<1>4. \A j \in Tasks :
         /\ tk'[j].parent = tk[j].parent /\ tk'[j].num = tk[j].num /\ tk'[j].live = tk[j].live
         /\ tk'[j].dead = tk[j].dead /\ tk'[j].dtask = tk[j].dtask /\ tk'[j].dthr = tk[j].dthr
         /\ tk'[j].waiters = tk[j].waiters
  OBVIOUS
<1>5. Types'
  BY <1>1, <1>2 DEF IInv, Types
<1>6. ThreadInv'
  <2>1. ASSUME NEW u \in Threads PROVE ThreadOf(u)'
    <3>1. ThreadOf(u) /\ of[u] \in Tasks \cup {None}
      BY DEF IInv, ThreadInv, Types
    <3> QED BY <1>1, <1>2, <1>4, <3>1, Names DEF ThreadOf, Gone, Dying, Ending
  <2> QED BY <2>1 DEF ThreadInv
<1>7. BuildInv'
  <2>1. ASSUME NEW u \in Threads, pc'[u] \in Building
        PROVE  ptr'[u] \in Tasks /\ pc[u] \in Building /\ ptr'[u] = ptr[u] /\ u # t
    BY <1>1, <2>1 DEF IInv, BuildInv, Building
  <2>2. ASSUME NEW u \in Threads, pc'[u] \in Building, NEW j \in Tasks, ptr'[u] = j
        PROVE  BuildOf(u, j)'
    <3>1. pc'[u] = pc[u] /\ BuildOf(u, j) /\ u # t
      BY <1>1, <2>1, <2>2 DEF IInv, BuildInv
    <3> QED BY <1>1, <1>2, <1>4, <2>1, <3>1 DEF BuildOf, Building
  <2> QED BY <2>1, <2>2 DEF BuildInv
<1>8. ForkInv'
  BY <1>1, <1>2 DEF IInv, ForkInv
<1>9. \A j \in Tasks : /\ Off(j)' <=> Off(j)
                       /\ Closed(j)' <=> Closed(j)
                       /\ Bare(j)' <=> Bare(j)
                       /\ Ended(j)' <=> Ended(j)
                       /\ ForkUndone(j)' <=> ForkUndone(j)
                       /\ InEnding(j)' <=> InEnding(j)
  BY <1>1, <1>2, <1>4
  DEF Off, Closed, Bare, Ended, AtStage, ForkUndone, InEnding, Ending
<1>10. TaskInv'
  <2>1. ASSUME NEW j \in Tasks PROVE TaskOf(j)'
    <3>1. TaskOf(j)
      BY DEF IInv, TaskInv
    <3>2. Closed(j) => tk'[j].lock = None \/ (j # p /\ tk'[j].lock = tk[j].lock)
      OBVIOUS
    <3> QED BY <1>1, <1>2, <1>3, <1>4, <1>9, <3>1, <3>2, Names DEF TaskOf, Dying, Ending
  <2> QED BY <1>2, <2>1 DEF IInv, TaskInv
<1>11. HeirInv'
  <2>1. ASSUME NEW q \in Tasks, NEW c \in Tasks PROVE HeirOf(q, c)'
    <3>1. HeirOf(q, c)
      BY DEF IInv, HeirInv
    <3> QED BY <1>1, <1>2, <1>4, <1>9, <3>1 DEF HeirOf
  <2>2. \A j \in Tasks : HasHeir(j)' <=> HasHeir(j)
    BY <1>2, <1>4 DEF HasHeir
  <2> QED BY <1>2, <1>4, <1>9, <2>1, <2>2 DEF IInv, HeirInv
<1>12. MiniInv'
  <2>1. \A j \in Tasks : Dead(j)' = Dead(j) /\ (InQueue(j)' <=> InQueue(j))
    BY <1>2, <1>4 DEF Dead, InQueue
  <2>2. \A u \in Threads : pc[u] \in {"v_block", "dead"} => pc'[u] \in {"v_block", "dead"}
    BY <1>1
  <2> QED BY <1>2, <1>4, <1>9, <2>1, <2>2 DEF IInv, MiniInv
<1>13. NumInv'
  <2>1. \A u \in Threads : Pending(u)' <=> Pending(u)
    BY <1>1, <1>2 DEF Pending
  <2>2. \A j \in Tasks : Members(j)' = Members(j)
    BY <1>1, <1>2, <2>1 DEF Members, Uncounted, Dying, Ending
  <2> QED BY <1>2, <1>4, <2>2 DEF IInv, NumInv
<1>14. LiveInv'
  <2>1. \A j \in Tasks : (Counted(j)' <=> Counted(j)) /\ (Reported(j)' <=> Reported(j))
    BY <1>1, <1>2, <1>4 DEF Counted, Reported
  <2>2. \A j \in Tasks : Children(j)' = Children(j) /\ Expected(j)' = Expected(j)
    BY <1>2, <1>4, <2>1 DEF Children, Expected
  <2> QED BY <1>2, <1>4, <2>2 DEF IInv, LiveInv
<1>15. WaitInv'
  BY <1>1, <1>2, <1>3, <1>4 DEF IInv, WaitInv
<1> QED
  BY <1>5, <1>6, <1>7, <1>8, <1>10, <1>11, <1>12, <1>13, <1>14, <1>15 DEF IInv

LEMMA LockParentKeeps ==
    ASSUME IInv, NEW t \in Threads, LockParent(t)
    PROVE  IInv'
<1>1. PICK k \in Tasks : of[t] = k /\ k # InitTask /\ mem[k] = "alloc" /\ k \notin listed
  <2>1. pc[t] = "v_parent"
    BY DEF LockParent
  <2>2. Off(of[t]) /\ mem[of[t]] = "alloc" /\ of[t] \in Tasks /\ of[t] # InitTask
    BY <2>1, LastThread DEF Off, AtStage, Ending
  <2> QED BY <2>2 DEF IInv, TaskInv, TaskOf
<1>2. PICK p \in Tasks : p = Heir(k) /\ p \in listed
  BY <1>1, Names DEF Heir, IInv, TaskInv, Types
<1>3. /\ pc[t] = "v_parent" /\ Goto(t, "v_child")
      /\ tk[p].lock = None /\ tk' = [tk EXCEPT ![p].lock = t]
      /\ ptr' = [ptr EXCEPT ![t] = p] /\ listLock' = None
      /\ UNCHANGED <<memVars, of, listed, thrlist>>
  BY <1>1, <1>2 DEF LockParent
<1>4. /\ tk' \in [Tasks -> TaskRec] /\ \A j \in Tasks \ {p} : tk'[j] = tk[j]
      /\ tk'[p].lock = t
      /\ tk'[p].parent = tk[p].parent /\ tk'[p].num = tk[p].num
      /\ tk'[p].live = tk[p].live /\ tk'[p].dead = tk[p].dead
      /\ tk'[p].waiters = tk[p].waiters /\ tk'[p].dtask = tk[p].dtask
      /\ tk'[p].dthr = tk[p].dthr
  BY <1>3, SetLock DEF IInv, Types
<1>5. ~Closed(p) /\ mem[p] = "alloc" /\ p # k
  <2>1. TaskOf(p)
    BY DEF IInv, TaskInv
  <2>2. Closed(p) => Off(p)
    BY DEF Closed, Off, AtStage
  <2> QED BY <1>1, <1>2, <2>1, <2>2 DEF TaskOf
<1>6. /\ pc'[t] = "v_child" /\ \A u \in Threads : u # t => pc'[u] = pc[u]
      /\ ptr'[t] = p /\ \A u \in Threads : u # t => ptr'[u] = ptr[u]
      /\ ptr' \in [Threads -> Tasks \cup Threads \cup {None}]
  BY <1>3 DEF IInv, Types, Goto
<1>7. LockInv'
  <2>1. ASSUME NEW j \in Tasks, NEW u \in Threads PROVE LockOf(j, u)'
    <3>1. LockOf(j, u) /\ ~(u # t /\ j = p /\ pc[u] \in {"v_child", "v_block"} /\ ptr[u] = p)
      BY <1>3, Names DEF IInv, LockInv, LockOf
    <3>2. mem' = mem /\ of' = of
      BY <1>3 DEF memVars
    <3>3. tk'[of[u]].num = tk[of[u]].num \/ of[u] \notin Tasks
      BY <1>4
    <3>4. of[u] \in Tasks \/ pc[u] = "unused"
      BY DEF IInv, Types, ThreadInv, ThreadOf
    <3>5. /\ tk'[of[u]].parent = tk[of[u]].parent \/ of[u] \notin Tasks
          /\ tk[k].parent # p => p = InitTask /\ tk[k].parent \notin listed
          /\ listed' = listed
      BY <1>2, <1>3, <1>4 DEF Heir
    <3>6. CASE u = t
      BY <1>1, <1>3, <1>4, <1>5, <1>6, <3>1, <3>2, <3>5, <3>6 DEF LockOf
    <3>7. CASE u # t
      BY <1>3, <1>4, <1>5, <1>6, <3>1, <3>2, <3>3, <3>4, <3>5, <3>7 DEF LockOf
    <3> QED BY <3>6, <3>7
  <2>2. \A u \in Threads : ListLockOf(u)'
    BY <1>3, <1>6, Names DEF IInv, LockInv, ListLockOf
  <2> QED BY <1>6, <2>1, <2>2 DEF IInv, LockInv
<1> QED BY <1>3, <1>4, <1>5, <1>6, <1>7, LockMoves

LEMMA UnlockKeeps ==
    ASSUME IInv, NEW t \in Threads, UnlockAndBlock(t)
    PROVE  IInv'
<1>1. PICK p \in Tasks : ptr[t] = p /\ tk[p].lock = t
  BY DEF UnlockAndBlock, IInv, LockInv, LockOf
<1>2. /\ pc[t] = "v_block" /\ Goto(t, "dead")
      /\ tk' = [tk EXCEPT ![p].lock = None] /\ ptr' = [ptr EXCEPT ![t] = None]
      /\ UNCHANGED <<memVars, of, listed, listLock, thrlist>>
  BY <1>1 DEF UnlockAndBlock
<1>3. /\ tk' \in [Tasks -> TaskRec] /\ \A j \in Tasks \ {p} : tk'[j] = tk[j]
      /\ tk'[p].lock = None
      /\ tk'[p].parent = tk[p].parent /\ tk'[p].num = tk[p].num
      /\ tk'[p].live = tk[p].live /\ tk'[p].dead = tk[p].dead
      /\ tk'[p].waiters = tk[p].waiters /\ tk'[p].dtask = tk[p].dtask
      /\ tk'[p].dthr = tk[p].dthr
  BY <1>2, SetLock DEF IInv, Types
<1>4. /\ pc'[t] = "dead" /\ \A u \in Threads : u # t => pc'[u] = pc[u]
      /\ ptr'[t] = None /\ \A u \in Threads : u # t => ptr'[u] = ptr[u]
      /\ ptr' \in [Threads -> Tasks \cup Threads \cup {None}]
  BY <1>2 DEF IInv, Types, Goto
<1>5. LockInv'
  <2>1. ASSUME NEW j \in Tasks, NEW u \in Threads PROVE LockOf(j, u)'
    <3>1. LockOf(j, u) /\ LockOf(j, t)
      BY DEF IInv, LockInv
    <3>2. mem' = mem /\ of' = of
      BY <1>2 DEF memVars
    <3>3. tk'[of[u]].num = tk[of[u]].num \/ of[u] \notin Tasks
      BY <1>3
    <3>4. of[u] \in Tasks \/ pc[u] = "unused"
      BY DEF IInv, Types, ThreadInv, ThreadOf
    <3>5. tk[p].lock = t
      BY <1>1
    <3> QED BY <1>1, <1>2, <1>3, <1>4, <3>1, <3>2, <3>3, <3>4, <3>5, Names DEF LockOf
  <2>2. \A u \in Threads : ListLockOf(u)'
    BY <1>2, <1>4, Names DEF IInv, LockInv, ListLockOf
  <2> QED BY <1>4, <2>1, <2>2 DEF IInv, LockInv
<1>6. listLock' \in Threads \cup {None}
  BY <1>2 DEF IInv, Types
<1> QED BY <1>2, <1>3, <1>4, <1>5, <1>6, LockMoves

-----------------------------------------------------------------------------
(* What a count of threads says *)

LEMMA MembersFinite ==
    ASSUME NEW k
    PROVE  IsFiniteSet(Members(k)) /\ Cardinality(Members(k)) \in Nat
           /\ Cardinality(Members(k)) <= Cardinality(Threads)
<1>1. Members(k) \subseteq Threads /\ IsFiniteSet(Threads)
  BY Names DEF Members
<1> QED BY <1>1, FS_Subset, FS_CardinalityType

LEMMA RunningCounts ==
    ASSUME IInv, NEW t \in Threads, pc[t] \notin Uncounted \cup {"nascent"}
    PROVE  /\ of[t] \in Tasks /\ mem[of[t]] = "alloc" /\ t \in Members(of[t])
           /\ tk[of[t]].num # 0
<1>1. of[t] \in Tasks /\ mem[of[t]] = "alloc"
  BY DEF IInv, Types, ThreadInv, ThreadOf, Uncounted
<1>2. ~Pending(t)
  BY DEF IInv, ForkInv, Pending
<1>3. t \in Members(of[t])
  BY <1>1, <1>2 DEF Members
<1>4. PICK k \in Tasks : k = of[t]
  BY <1>1
<1>5. Cardinality(Members(k)) # 0
  BY <1>3, <1>4, MembersFinite, FS_EmptySet
<1> QED BY <1>1, <1>3, <1>4, <1>5 DEF IInv, NumInv

LEMMA NotBuilt ==
    ASSUME IInv, NEW t \in Threads, pc[t] \notin {"unused", "nascent"},
           NEW u \in Threads, pc[u] \in Building
    PROVE  of[t] # ptr[u]
  BY DEF IInv, BuildInv, BuildOf

(* A task that counts no thread has only dead threads, or its last one.    *)
LEMMA NobodyCounted ==
    ASSUME IInv, NEW k \in Tasks, mem[k] = "alloc", tk[k].num = 0,
           NEW t \in Threads, of[t] = k
    PROVE  pc[t] \in Dying \cup {"dead"} /\ (pc[t] # "dead" => t = tk[k].dthr)
<1>1. Members(k) = {}
  BY MembersFinite, FS_EmptySet DEF IInv, NumInv
<1>2. ~Pending(t)
  <2>1. ASSUME NEW u \in Threads, ptr[u] = t, pc[u] = "t_count" PROVE FALSE
    <3>1. of[u] = k
      BY <2>1 DEF IInv, ForkInv
    <3>2. u \in Members(of[u])
      BY <2>1, RunningCounts DEF Uncounted, Dying, Ending
    <3> QED BY <1>1, <3>1, <3>2
  <2> QED BY <2>1 DEF Pending
<1>3. pc[t] \in Uncounted
  BY <1>1, <1>2 DEF Members
<1>4. pc[t] # "unused"
  BY Names DEF IInv, ThreadInv, ThreadOf
<1>5. pc[t] # "dead" => tcb[t] = "alloc"
  BY <1>4 DEF IInv, ThreadInv, ThreadOf
<1> QED BY <1>3, <1>4, <1>5 DEF IInv, ThreadInv, ThreadOf, Uncounted

LEMMA OneThread ==
    ASSUME IInv, NEW k \in Tasks, mem[k] = "alloc", tk[k].num # 0
    PROVE  \E t \in Threads : of[t] = k /\ pc[t] \notin Uncounted
<1>1. Cardinality(Members(k)) # 0
  BY DEF IInv, NumInv
<1>2. Members(k) # {}
  BY <1>1, FS_EmptySet
<1> QED BY <1>2 DEF Members

(* A task whose mini PCB waits to be reaped is over. *)
LEMMA QueuedIsOver ==
    ASSUME IInv, NEW p \in Tasks, NEW c \in Tasks, mem[p] = "alloc", c \in Dead(p)
    PROVE  /\ c \notin listed /\ mem[c] # "unused"
           /\ mem[c] = "alloc" => tk[c].num = 0
           /\ ~InEnding(c)
           /\ \A t \in Threads : pc[t] \in Building => ptr[t] # c
           /\ \A t \in Threads : of[t] = c => pc[t] \in {"v_block", "dead"}
<1>1. mini[c] = "alloc" /\ \A t \in Threads : of[t] = c => pc[t] \in {"v_block", "dead"}
  BY DEF IInv, MiniInv
<1>2. mem[c] = "alloc" => tk[c].num = 0
  BY <1>1, OneThread DEF Uncounted, Dying
<1>3. ~InEnding(c)
  BY <1>1 DEF InEnding, Ending
<1>4. c \notin listed
  <2>1. SUFFICES ASSUME c \in listed PROVE FALSE
    OBVIOUS
  <2>2. mem[c] = "alloc" /\ TaskOf(c)
    BY <2>1 DEF IInv, TaskInv, TaskOf
  <2>3. HasHeir(c)
    BY <1>2, <1>3, <2>2 DEF IInv, HeirInv
  <2>4. Ended(c)
    BY <2>3 DEF HasHeir, IInv, HeirInv, HeirOf
  <2> QED BY <2>1, <2>2, <2>4 DEF TaskOf, Off, Ended, AtStage
<1>5. \A t \in Threads : pc[t] \in Building => ptr[t] # c
  <2>1. ASSUME NEW t \in Threads, pc[t] \in Building, ptr[t] = c PROVE FALSE
    <3>1. mem[c] = "alloc" /\ tk[c].num = 1
      BY <2>1 DEF IInv, BuildInv, BuildOf
    <3> QED BY <1>2, <3>1
  <2> QED BY <2>1
<1> QED BY <1>1, <1>2, <1>3, <1>4, <1>5 DEF IInv, TaskInv, TaskOf

-----------------------------------------------------------------------------
(* fork, from the task list to the copy of the address space, and its      *)
(* undoing                                                                 *)

LEMMA BuildMoves ==
    ASSUME IInv, NEW t \in Threads, NEW k \in Tasks, NEW label, ptr[t] = k,
           pc[t] \in {"f_list", "f_copy", "f_undo"},
           \/ label = "f_child" /\ pc[t] = "f_copy" /\ listed' = listed /\ mini' = mini
           \/ label = "f_undo" /\ pc[t] = "f_copy" /\ listed' = listed
              /\ mini' = [mini EXCEPT ![k] = "freed"]
           \/ label = "f_copy" /\ pc[t] = "f_list" /\ listed' = listed \cup {k} /\ mini' = mini
           \/ label = "f_final" /\ pc[t] = "f_undo" /\ listed' = listed \ {k} /\ mini' = mini,
           Goto(t, label),
           UNCHANGED <<mem, tcb, of, listLock, thrlist, ptr>>,
           tk' \in [Tasks -> TaskRec],
           \A j \in Tasks : Fields(tk'[j], tk[j]) /\ tk'[j].waiters = tk[j].waiters
    PROVE  IInv'
<1>1. /\ pc'[t] = label /\ \A u \in Threads : u # t => pc'[u] = pc[u]
      /\ pc' \in [Threads -> PCs]
      /\ label \in {"f_child", "f_undo", "f_copy", "f_final"}
  BY DEF IInv, Types, Goto, PCs
<1>2. /\ mem' = mem /\ tcb' = tcb /\ of' = of /\ listLock' = listLock
      /\ thrlist' = thrlist /\ ptr' = ptr
  OBVIOUS
<1>3. \A j \in Tasks :
         /\ tk[j].dthr \in Threads \cup {None} /\ tk[j].dtask \in Tasks \cup {None}
         /\ tk[j].waiters \subseteq Threads /\ Dead(j) \subseteq Tasks
  BY FieldTypes, DeadAreTasks DEF IInv, Dead
<1>4. BuildOf(t, k)
  BY DEF IInv, BuildInv, Building
<1>5. /\ mini' \in [Tasks -> Memory]
      /\ \A j \in Tasks : mini'[j] = mini[j] \/ (j = k /\ label = "f_undo" /\ mini'[j] = "freed")
      /\ \A j \in Tasks : j # k => (j \in listed' <=> j \in listed)
      /\ listed' \subseteq Tasks
  BY DEF IInv, Types, Memory
<1>6. Types'
  BY <1>1, <1>2, <1>5 DEF IInv, Types
<1>7. ThreadInv'
  <2>1. ASSUME NEW u \in Threads PROVE ThreadOf(u)'
    <3>1. ThreadOf(u) /\ of[u] \in Tasks \cup {None}
      BY DEF IInv, ThreadInv, Types
    <3>2. of[u] = k => pc[u] = "nascent" /\ u # t
      BY <1>4 DEF BuildOf
    <3> QED BY <1>1, <1>2, <1>5, <3>1, <3>2, Names DEF ThreadOf, Fields, Gone, Dying, Ending
  <2> QED BY <2>1 DEF ThreadInv
<1>8. BuildInv'
  <2>1. ASSUME NEW u \in Threads, pc'[u] \in Building
        PROVE  pc[u] \in Building /\ ptr[u] \in Tasks
    BY <1>1, <2>1 DEF IInv, BuildInv, Building
  <2>2. ASSUME NEW u \in Threads, pc'[u] \in Building, NEW j \in Tasks, ptr[u] = j
        PROVE  BuildOf(u, j)'
    <3>1. BuildOf(u, j) /\ (j = k => u = t)
      BY <1>4, <2>1, <2>2 DEF IInv, BuildInv, BuildOf, Building
    <3>2. \A w \in Threads : pc'[w] \in Building => pc[w] \in Building
      BY <1>1 DEF Building
    <3>3. \A w \in Threads : pc[w] = "nascent" => pc'[w] = "nascent"
      BY <1>1
    <3>4. pc'[u] \in {"f_list", "f_copy", "f_child", "f_launch"} => mini'[j] = "alloc"
      BY <1>1, <1>5, <3>1 DEF BuildOf
    <3> QED BY <1>2, <3>1, <3>2, <3>3, <3>4 DEF BuildOf, Fields
  <2> QED BY <1>2, <2>1, <2>2 DEF BuildInv
<1>9. ForkInv'
  BY <1>1, <1>2 DEF IInv, ForkInv
<1>10. \A j \in Tasks : /\ Off(j)' <=> Off(j)
                        /\ Closed(j)' <=> Closed(j)
                        /\ Bare(j)' <=> Bare(j)
                        /\ Ended(j)' <=> Ended(j)
                        /\ InEnding(j)' <=> InEnding(j)
                        /\ j # k => (ForkUndone(j)' <=> ForkUndone(j))
  BY <1>1, <1>2
  DEF Off, Closed, Bare, Ended, AtStage, ForkUndone, InEnding, Ending, Fields
<1>11. TaskInv'
  <2>1. ASSUME NEW j \in Tasks, j # k PROVE TaskOf(j)'
    <3>1. TaskOf(j)
      BY DEF IInv, TaskInv
    <3> QED BY <1>1, <1>2, <1>3, <1>5, <1>10, <2>1, <3>1, Names DEF TaskOf, Fields, Dying, Ending
  <2>2. TaskOf(k)'
    <3>1. TaskOf(k) /\ mem[k] = "alloc" /\ tk[k].dthr = None /\ ~Off(k) /\ ~Closed(k) /\ ~Bare(k)
      BY <1>4, Names DEF IInv, TaskInv, BuildOf, Off, Closed, Bare, AtStage
    <3>2. k \in listed' => mini'[k] = "alloc" \/ ForkUndone(k)'
      BY <1>1, <1>2, <1>4 DEF BuildOf, ForkUndone
    <3> QED BY <1>2, <1>10, <3>1, <3>2 DEF TaskOf, Fields
  <2>3. InitTask \in listed'
    BY <1>4, <1>5, Names DEF IInv, TaskInv, BuildOf
  <2> QED BY <2>1, <2>2, <2>3 DEF TaskInv
<1>12. LockInv'
  <2>1. ASSUME NEW j \in Tasks, NEW u \in Threads PROVE LockOf(j, u)'
    <3>1. LockOf(j, u) /\ (of[u] \in Tasks \/ pc[u] = "unused")
      BY DEF IInv, LockInv, Types, ThreadInv, ThreadOf
    <3>2. of[u] \in Tasks => tk[of[u]].parent # k
      BY <1>4 DEF BuildOf
    <3>3. tk[of[u]].parent \notin listed /\ of[u] \in Tasks => tk[of[u]].parent \notin listed'
      BY <3>2
    <3> QED BY <1>1, <1>2, <3>1, <3>3 DEF LockOf, Fields
  <2> QED BY <1>1, <1>2, <2>1 DEF IInv, LockInv, ListLockOf
<1>13. HeirInv'
  <2>1. ASSUME NEW p \in Tasks, NEW c \in Tasks PROVE HeirOf(p, c)'
    <3>1. HeirOf(p, c)
      BY DEF IInv, HeirInv
    <3> QED BY <1>1, <1>2, <1>10, <3>1 DEF HeirOf, Fields
  <2>2. \A j \in Tasks : HasHeir(j)' <=> HasHeir(j)
    BY <1>2 DEF HasHeir, Fields
  <2> QED BY <1>2, <1>10, <2>1, <2>2 DEF IInv, HeirInv, Fields
<1>14. MiniInv'
  <2>1. \A j \in Tasks : Dead(j)' = Dead(j) /\ (InQueue(j)' <=> InQueue(j))
    BY <1>2 DEF Dead, InQueue, Fields
  <2>2. \A p \in Tasks : mem[p] = "alloc" => k \notin Dead(p)
    BY QueuedIsOver DEF Building
  <2>3. \A u \in Threads : pc[u] \in {"v_block", "dead"} => pc'[u] = pc[u]
    BY <1>1
  <2>4. \A j \in Tasks : mini'[j] = "alloc" => mini[j] = "alloc"
    BY <1>5
  <2>5. ASSUME NEW p \in Tasks, NEW c \in Tasks, mem[p] = "alloc", c \in Dead(p)
        PROVE  mini'[c] = "alloc"
    BY <1>5, <2>2, <2>5 DEF IInv, MiniInv
  <2> QED BY <1>2, <1>10, <2>1, <2>3, <2>4, <2>5 DEF IInv, MiniInv, Fields
<1>15. NumInv'
  <2>1. \A u \in Threads : Pending(u)' <=> Pending(u)
    BY <1>1, <1>2 DEF Pending
  <2>2. \A j \in Tasks : Members(j)' = Members(j)
    BY <1>1, <1>2, <2>1 DEF Members, Uncounted, Dying, Ending
  <2> QED BY <1>2, <2>2 DEF IInv, NumInv, Fields
<1>16. LiveInv'
  <2>1. \A j \in Tasks : (Counted(j)' <=> Counted(j)) /\ (Reported(j)' <=> Reported(j))
    BY <1>1, <1>2 DEF Counted, Reported, Fields
  <2>2. \A j \in Tasks : Children(j)' = Children(j) /\ Expected(j)' = Expected(j)
    BY <1>2, <2>1 DEF Children, Expected, Fields
  <2>3. Expected(k) = {} /\ tk[k].live = 0
    BY <1>4 DEF Expected, BuildOf
  <2>4. tk[k].live = Cardinality(Expected(k))
    BY <2>3, FS_EmptySet
  <2> QED BY <1>2, <1>5, <2>2, <2>4 DEF IInv, LiveInv, Fields
<1>17. WaitInv'
  BY <1>1, <1>2, <1>3 DEF IInv, WaitInv, Fields
<1> QED
  BY <1>6, <1>7, <1>8, <1>9, <1>11, <1>12, <1>13, <1>14, <1>15, <1>16, <1>17 DEF IInv

LEMMA BuildSteps ==
    ASSUME IInv, NEW t \in Threads, TaskListAdd(t) \/ VmCopy(t) \/ ForkUndo(t)
    PROVE  IInv'
<1>1. PICK k \in Tasks : ptr[t] = k
  BY DEF IInv, BuildInv, Building, TaskListAdd, VmCopy, ForkUndo
<1>2. /\ tk \in [Tasks -> TaskRec]
      /\ \A j \in Tasks : Fields(tk[j], tk[j])
  BY DEF IInv, Types, Fields
<1>3. CASE TaskListAdd(t)
  BY <1>1, <1>2, <1>3, BuildMoves DEF TaskListAdd, memVars
<1>4. CASE VmCopy(t)
  <2>1. CASE Goto(t, "f_child") /\ UNCHANGED mini
    BY <1>1, <1>2, <1>4, <2>1, BuildMoves DEF VmCopy
  <2>2. CASE mini' = [mini EXCEPT ![k] = "freed"] /\ Goto(t, "f_undo")
    BY <1>1, <1>2, <1>4, <2>2, BuildMoves DEF VmCopy
  <2> QED BY <1>1, <1>4, <2>1, <2>2 DEF VmCopy
<1>5. CASE ForkUndo(t)
  <2>1. /\ pc[t] = "f_undo" /\ Goto(t, "f_final") /\ listed' = listed \ {k}
        /\ tk' = [tk EXCEPT ![k].vm = FALSE]
        /\ UNCHANGED <<memVars, of, listLock, thrlist, ptr>>
    BY <1>1, <1>5 DEF ForkUndo
  <2>2. /\ tk' \in [Tasks -> TaskRec]
        /\ \A j \in Tasks : Fields(tk'[j], tk[j]) /\ tk'[j].waiters = tk[j].waiters
    BY <1>2, <2>1, SetVm
  <2> QED BY <1>1, <2>1, <2>2, BuildMoves DEF memVars
<1> QED BY <1>3, <1>4, <1>5

-----------------------------------------------------------------------------
(* fork: the child is counted, and started *)

LEMMA AddChildKeeps ==
    ASSUME IInv, NEW t \in Threads, AddChild(t)
    PROVE  IInv'
<1>1. PICK k \in Tasks, p \in Tasks :
         /\ ptr[t] = k /\ of[t] = p /\ mem[p] = "alloc" /\ BuildOf(t, k) /\ tk[k].parent = p
         /\ p # k
  <2>1. pc[t] = "f_child" /\ of[t] \in Tasks /\ mem[of[t]] = "alloc"
    BY RunningCounts DEF AddChild, Uncounted, Dying, Ending
  <2>2. ptr[t] \in Tasks /\ of[t] # ptr[t]
    BY <2>1, NotBuilt DEF IInv, BuildInv, Building
  <2>3. BuildOf(t, ptr[t])
    BY <2>1, <2>2 DEF IInv, BuildInv, Building
  <2> QED BY <2>1, <2>2, <2>3 DEF BuildOf
<1>2. /\ pc[t] = "f_child" /\ Goto(t, "f_launch") /\ tk[p].lock = None
      /\ tk' = [tk EXCEPT ![p].live = @ + 1]
      /\ UNCHANGED <<memVars, of, listed, listLock, thrlist, ptr>>
  BY <1>1 DEF AddChild, OwnLockFree
<1>3. /\ tk' \in [Tasks -> TaskRec] /\ \A j \in Tasks \ {p} : tk'[j] = tk[j]
      /\ tk'[p].live = tk[p].live + 1
      /\ \A j \in Tasks :
            /\ tk'[j].parent = tk[j].parent /\ tk'[j].num = tk[j].num
            /\ tk'[j].dead = tk[j].dead /\ tk'[j].dtask = tk[j].dtask
            /\ tk'[j].dthr = tk[j].dthr /\ tk'[j].lock = tk[j].lock
            /\ tk'[j].waiters = tk[j].waiters
            /\ j # p => tk'[j].live = tk[j].live
  BY <1>2, SetLive DEF IInv, Types
<1>4. /\ pc'[t] = "f_launch" /\ \A u \in Threads : u # t => pc'[u] = pc[u]
      /\ pc' \in [Threads -> PCs]
  BY <1>2 DEF IInv, Types, Goto, PCs
<1>5. /\ mem' = mem /\ mini' = mini /\ tcb' = tcb /\ of' = of /\ listed' = listed
      /\ listLock' = listLock /\ thrlist' = thrlist /\ ptr' = ptr
  BY <1>2 DEF memVars
<1>6. \A j \in Tasks :
         /\ tk[j].dthr \in Threads \cup {None} /\ tk[j].dtask \in Tasks \cup {None}
         /\ tk[j].waiters \subseteq Threads /\ Dead(j) \subseteq Tasks /\ tk[j].live \in Nat
  BY FieldTypes, DeadAreTasks DEF IInv, Dead
<1>7. Types'
  BY <1>3, <1>4, <1>5 DEF IInv, Types
<1>8. ThreadInv'
  <2>1. ASSUME NEW u \in Threads PROVE ThreadOf(u)'
    <3>1. ThreadOf(u) /\ of[u] \in Tasks \cup {None}
      BY DEF IInv, ThreadInv, Types
    <3> QED BY <1>2, <1>3, <1>4, <1>5, <3>1, Names DEF ThreadOf, Gone, Dying, Ending
  <2> QED BY <2>1 DEF ThreadInv
<1>9. BuildInv'
  <2>1. ASSUME NEW u \in Threads, pc'[u] \in Building
        PROVE  pc[u] \in Building /\ ptr[u] \in Tasks
    BY <1>2, <1>4, <2>1 DEF IInv, BuildInv, Building
  <2>2. ASSUME NEW u \in Threads, pc'[u] \in Building, NEW j \in Tasks, ptr[u] = j
        PROVE  BuildOf(u, j)'
    <3>1. BuildOf(u, j) /\ j # p
      BY <1>1, <1>2, <2>1, <2>2, NotBuilt DEF IInv, BuildInv
    <3>2. /\ \A w \in Threads : pc'[w] \in Building => pc[w] \in Building
          /\ \A w \in Threads : pc[w] = "nascent" => pc'[w] = "nascent"
      BY <1>2, <1>4 DEF Building
    <3>3. pc'[u] \in {"f_list", "f_copy", "f_child", "f_launch"} => mini[j] = "alloc"
      BY <1>2, <1>4, <3>1 DEF BuildOf
    <3> QED BY <1>3, <1>5, <3>1, <3>2, <3>3 DEF BuildOf
  <2> QED BY <1>5, <2>1, <2>2 DEF BuildInv
<1>10. ForkInv'
  BY <1>2, <1>4, <1>5 DEF IInv, ForkInv
<1>11. \A j \in Tasks : /\ Off(j)' <=> Off(j)
                        /\ Closed(j)' <=> Closed(j)
                        /\ Bare(j)' <=> Bare(j)
                        /\ Ended(j)' <=> Ended(j)
                        /\ InEnding(j)' <=> InEnding(j)
                        /\ ForkUndone(j)' <=> ForkUndone(j)
  BY <1>2, <1>3, <1>4, <1>5
  DEF Off, Closed, Bare, Ended, AtStage, ForkUndone, InEnding, Ending
<1>12. TaskInv'
  <2>1. ASSUME NEW j \in Tasks PROVE TaskOf(j)'
    <3>1. TaskOf(j)
      BY DEF IInv, TaskInv
    <3> QED BY <1>2, <1>3, <1>4, <1>5, <1>6, <1>11, <3>1, Names DEF TaskOf, Dying, Ending
  <2> QED BY <1>5, <2>1 DEF IInv, TaskInv
<1>13. LockInv'
  <2>1. ASSUME NEW j \in Tasks, NEW u \in Threads PROVE LockOf(j, u)'
    <3>1. LockOf(j, u) /\ (of[u] \in Tasks \/ pc[u] = "unused")
      BY DEF IInv, LockInv, Types, ThreadInv, ThreadOf
    <3> QED BY <1>2, <1>3, <1>4, <1>5, <3>1 DEF LockOf
  <2> QED BY <1>2, <1>4, <1>5, <2>1 DEF IInv, LockInv, ListLockOf
<1>14. HeirInv'
  <2>1. ASSUME NEW q \in Tasks, NEW c \in Tasks PROVE HeirOf(q, c)'
    <3>1. HeirOf(q, c)
      BY DEF IInv, HeirInv
    <3> QED BY <1>2, <1>3, <1>4, <1>5, <1>11, <3>1 DEF HeirOf
  <2>2. \A j \in Tasks : HasHeir(j)' <=> HasHeir(j)
    BY <1>3, <1>5 DEF HasHeir
  <2> QED BY <1>3, <1>5, <1>11, <2>1, <2>2 DEF IInv, HeirInv
<1>15. MiniInv'
  <2>1. \A j \in Tasks : Dead(j)' = Dead(j) /\ (InQueue(j)' <=> InQueue(j))
    BY <1>3, <1>5 DEF Dead, InQueue
  <2>2. \A u \in Threads : pc[u] \in {"v_block", "dead"} => pc'[u] = pc[u]
    BY <1>2, <1>4
  <2> QED BY <1>3, <1>5, <1>11, <2>1, <2>2 DEF IInv, MiniInv
<1>16. NumInv'
  <2>1. \A u \in Threads : Pending(u)' <=> Pending(u)
    BY <1>2, <1>4, <1>5 DEF Pending
  <2>2. \A j \in Tasks : Members(j)' = Members(j)
    BY <1>2, <1>4, <1>5, <2>1 DEF Members, Uncounted, Dying, Ending
  <2> QED BY <1>3, <1>5, <2>2 DEF IInv, NumInv
<1>17. LiveInv'
  <2>1. \A j \in Tasks : Reported(j)' <=> Reported(j)
    BY <1>2, <1>3, <1>4, <1>5 DEF Reported
  <2>2. \A j \in Tasks : j # k => (Counted(j)' <=> Counted(j))
    BY <1>1, <1>2, <1>4, <1>5 DEF Counted
  <2>3. ~Counted(k) /\ Counted(k)' /\ ~Reported(k)
    <3>1. \A u \in Threads : pc[u] \in Building /\ ptr[u] = k => u = t
      BY <1>1 DEF BuildOf
    <3>2. Counted(k)'
      BY <1>4, <1>5, <3>1 DEF Counted, Building
    <3> QED BY <1>1, <1>2, <3>2 DEF Counted, Reported, BuildOf
  <2>4. \A j \in Tasks : j # p => Children(j)' = Children(j) /\ Expected(j)' = Expected(j)
    BY <1>1, <1>3, <1>5, <2>1, <2>2, <2>3 DEF Children, Expected
  <2>5. Children(p)' = Children(p) \cup {k} /\ k \notin Children(p)
    BY <1>1, <1>3, <1>5, <2>2, <2>3 DEF Children, BuildOf
  <2>6. Expected(p)' = Expected(p) \cup {k} /\ k \notin Expected(p)
    BY <1>1, <1>3, <1>5, <2>1, <2>2, <2>3 DEF Expected, BuildOf
  <2>7. IsFiniteSet(Children(p)) /\ IsFiniteSet(Expected(p))
    <3>1. Children(p) \subseteq Tasks /\ Expected(p) \subseteq Tasks
      BY DEF Children, Expected
    <3> QED BY <3>1, Names, FS_Subset
  <2>8. /\ Cardinality(Children(p) \cup {k}) = Cardinality(Children(p)) + 1
        /\ Cardinality(Expected(p) \cup {k}) = Cardinality(Expected(p)) + 1
        /\ Cardinality(Children(p)) \in Nat /\ Cardinality(Expected(p)) \in Nat
    BY <2>5, <2>6, <2>7, FS_AddElement, FS_CardinalityType
  <2>9. /\ Cardinality(Children(p))' = Cardinality(Children(p)) + 1
        /\ Cardinality(Expected(p))' = Cardinality(Expected(p)) + 1
    BY <2>5, <2>6, <2>8
  <2>10. ASSUME NEW j \in Tasks, j # p
         PROVE  /\ Cardinality(Children(j))' = Cardinality(Children(j))
                /\ Cardinality(Expected(j))' = Cardinality(Expected(j))
    BY <2>4, <2>10
  <2> QED BY <1>3, <1>5, <1>6, <2>8, <2>9, <2>10 DEF IInv, LiveInv
<1>18. WaitInv'
  BY <1>2, <1>3, <1>4, <1>5, <1>6 DEF IInv, WaitInv
<1> QED
  BY <1>7, <1>8, <1>9, <1>10, <1>12, <1>13, <1>14, <1>15, <1>16, <1>17, <1>18 DEF IInv

LEMMA LaunchKeeps ==
    ASSUME IInv, NEW t \in Threads, Launch(t)
    PROVE  IInv'
<1>1. PICK k \in Tasks, p \in Tasks :
         ptr[t] = k /\ of[t] = p /\ mem[p] = "alloc" /\ BuildOf(t, k) /\ p # k
  <2>1. pc[t] = "f_launch" /\ of[t] \in Tasks /\ mem[of[t]] = "alloc"
    BY RunningCounts DEF Launch, Uncounted, Dying, Ending
  <2>2. ptr[t] \in Tasks /\ of[t] # ptr[t]
    BY <2>1, NotBuilt DEF IInv, BuildInv, Building
  <2>3. BuildOf(t, ptr[t])
    BY <2>1, <2>2 DEF IInv, BuildInv, Building
  <2> QED BY <2>1, <2>2, <2>3
<1>2. /\ pc[t] = "f_launch" /\ mini[k] = "alloc" /\ mem[k] = "alloc"
      /\ \A u \in Threads : of[u] = k => pc[u] = "nascent"
      /\ \A u \in Threads : pc[u] \in Building /\ ptr[u] = k => u = t
  BY <1>1 DEF Launch, BuildOf
<1>3. /\ \A u \in Threads : u = t \/ of[u] = k => pc'[u] = "user"
      /\ \A u \in Threads : u # t /\ of[u] # k => pc'[u] = pc[u]
      /\ pc' \in [Threads -> PCs]
  BY <1>1, <1>2 DEF IInv, Types, Launch, PCs
<1>4. /\ mem' = mem /\ mini' = mini /\ tcb' = tcb /\ of' = of /\ tk' = tk
      /\ listed' = listed /\ listLock' = listLock /\ thrlist' = thrlist
  BY DEF Launch, memVars
<1>5. /\ ptr'[t] = None /\ \A u \in Threads : u # t => ptr'[u] = ptr[u]
      /\ ptr' \in [Threads -> Tasks \cup Threads \cup {None}]
  BY DEF Launch, IInv, Types
<1>6. \A u \in Threads : \/ pc'[u] = pc[u] /\ ptr'[u] = ptr[u] /\ u # t /\ of[u] # k
                         \/ u = t /\ pc[u] = "f_launch" /\ pc'[u] = "user"
                         \/ of[u] = k /\ pc[u] = "nascent" /\ pc'[u] = "user"
                            /\ ptr'[u] = ptr[u]
  BY <1>1, <1>2, <1>3, <1>5
<1>7. \A j \in Tasks :
         /\ tk[j].dthr \in Threads \cup {None} /\ tk[j].dtask \in Tasks \cup {None}
         /\ tk[j].waiters \subseteq Threads /\ Dead(j) \subseteq Tasks
  BY FieldTypes, DeadAreTasks DEF IInv, Dead
<1>8. Types'
  BY <1>3, <1>4, <1>5 DEF IInv, Types
<1>9. ThreadInv'
  <2>1. ASSUME NEW u \in Threads PROVE ThreadOf(u)'
    <3>1. ThreadOf(u) /\ of[u] \in Tasks \cup {None}
      BY DEF IInv, ThreadInv, Types
    <3> QED BY <1>2, <1>4, <1>6, <3>1, Names DEF ThreadOf, Gone, Dying, Ending
  <2> QED BY <2>1 DEF ThreadInv
<1>10. BuildInv'
  <2>1. ASSUME NEW u \in Threads, pc'[u] \in Building
        PROVE  pc'[u] = pc[u] /\ ptr'[u] = ptr[u] /\ u # t /\ ptr[u] \in Tasks /\ ptr[u] # k
    BY <1>2, <1>6, <2>1 DEF IInv, BuildInv, Building
  <2>2. ASSUME NEW u \in Threads, pc'[u] \in Building, NEW j \in Tasks, ptr'[u] = j
        PROVE  BuildOf(u, j)'
    <3>1. BuildOf(u, j) /\ j # k
      BY <2>1, <2>2 DEF IInv, BuildInv
    <3>2. /\ \A w \in Threads : pc'[w] \in Building =>
                pc[w] \in Building /\ ptr'[w] = ptr[w]
          /\ \A w \in Threads : of[w] = j => pc'[w] = pc[w]
      BY <1>2, <1>6, <2>1, <3>1 DEF BuildOf
    <3> QED BY <1>4, <2>1, <2>2, <3>1, <3>2 DEF BuildOf
  <2> QED BY <2>1, <2>2 DEF BuildInv
<1>11. ForkInv'
  <2>1. ASSUME NEW u \in Threads, pc'[u] \in {"t_count", "t_launch"}
        PROVE  u # t /\ pc[u] = pc'[u] /\ ptr'[u] = ptr[u] /\ of[u] # k
    BY <1>6, <2>1
  <2>2. ASSUME NEW u \in Threads, pc'[u] \in {"t_count", "t_launch"}
        PROVE  ptr[u] \in Threads /\ pc'[ptr[u]] = "nascent" /\ of[ptr[u]] = of[u]
    <3>1. ptr[u] \in Threads /\ pc[ptr[u]] = "nascent" /\ of[ptr[u]] = of[u]
      BY <2>1, <2>2 DEF IInv, ForkInv
    <3> QED BY <1>6, <2>1, <2>2, <3>1
  <2>3. \A u, w \in Threads : /\ pc'[u] \in {"t_count", "t_launch"}
                              /\ pc'[w] \in {"t_count", "t_launch"} /\ ptr'[u] = ptr'[w]
                              => u = w
    BY <2>1 DEF IInv, ForkInv
  <2> QED BY <1>4, <2>1, <2>2, <2>3 DEF ForkInv
<1>12. \A j \in Tasks : /\ Off(j)' <=> Off(j)
                        /\ Closed(j)' <=> Closed(j)
                        /\ Bare(j)' <=> Bare(j)
                        /\ Ended(j)' <=> Ended(j)
                        /\ InEnding(j)' <=> InEnding(j)
                        /\ ForkUndone(j)' <=> ForkUndone(j)
  BY <1>4, <1>6
  DEF Off, Closed, Bare, Ended, AtStage, ForkUndone, InEnding, Ending
<1>13. TaskInv'
  <2>1. ASSUME NEW j \in Tasks PROVE TaskOf(j)'
    <3>1. TaskOf(j)
      BY DEF IInv, TaskInv
    <3> QED BY <1>4, <1>6, <1>7, <1>12, <3>1, Names DEF TaskOf, Dying, Ending
  <2> QED BY <1>4, <2>1 DEF IInv, TaskInv
<1>14. LockInv'
  <2>1. ASSUME NEW j \in Tasks, NEW u \in Threads PROVE LockOf(j, u)'
    <3>1. LockOf(j, u)
      BY DEF IInv, LockInv
    <3> QED BY <1>4, <1>6, <3>1 DEF LockOf
  <2> QED BY <1>4, <1>6, <2>1 DEF IInv, LockInv, ListLockOf
<1>15. HeirInv'
  <2>1. ASSUME NEW q \in Tasks, NEW c \in Tasks PROVE HeirOf(q, c)'
    <3>1. HeirOf(q, c)
      BY DEF IInv, HeirInv
    <3> QED BY <1>4, <1>6, <1>12, <3>1 DEF HeirOf
  <2>2. \A j \in Tasks : HasHeir(j)' <=> HasHeir(j)
    BY <1>4 DEF HasHeir
  <2> QED BY <1>4, <1>12, <2>1, <2>2 DEF IInv, HeirInv
<1>16. MiniInv'
  <2>1. \A j \in Tasks : Dead(j)' = Dead(j) /\ (InQueue(j)' <=> InQueue(j))
    BY <1>4 DEF Dead, InQueue
  <2>2. \A u \in Threads : pc[u] \in {"v_block", "dead"} => pc'[u] = pc[u]
    BY <1>6
  <2> QED BY <1>4, <1>12, <2>1, <2>2 DEF IInv, MiniInv
<1>17. NumInv'
  <2>1. \A u \in Threads : Pending(u)' <=> Pending(u)
    BY <1>4, <1>6 DEF Pending
  <2>2. \A j \in Tasks : Members(j)' = Members(j)
    BY <1>4, <1>6, <2>1 DEF Members, Uncounted, Dying, Ending
  <2> QED BY <1>4, <2>2 DEF IInv, NumInv
<1>18. LiveInv'
  <2>1. \A j \in Tasks : (Counted(j)' <=> Counted(j)) /\ (Reported(j)' <=> Reported(j))
    BY <1>4, <1>6 DEF Counted, Reported
  <2>2. \A j \in Tasks : Children(j)' = Children(j) /\ Expected(j)' = Expected(j)
    BY <1>4, <2>1 DEF Children, Expected
  <2> QED BY <1>4, <2>2 DEF IInv, LiveInv
<1>19. WaitInv'
  BY <1>4, <1>6, <1>7 DEF IInv, WaitInv
<1> QED
  BY <1>8, <1>9, <1>10, <1>11, <1>13, <1>14, <1>15, <1>16, <1>17, <1>18, <1>19 DEF IInv

-----------------------------------------------------------------------------
(* fork: the structs are allocated *)

LEMMA TaskInitKeeps ==
    ASSUME IInv, NEW t \in Threads, TaskInit(t)
    PROVE  IInv'
<1>1. PICK c \in Tasks, u \in Threads, p \in Tasks :
         /\ of[t] = p /\ mem[p] = "alloc" /\ mini[p] = "alloc"
         /\ mem[c] = "unused" /\ tcb[u] = "unused"
         /\ mem' = [mem EXCEPT ![c] = "alloc"] /\ mini' = [mini EXCEPT ![c] = "alloc"]
         /\ tcb' = [tcb EXCEPT ![u] = "alloc"]
         /\ tk' = [tk EXCEPT ![c] = NewTask(p)]
         /\ of' = [of EXCEPT ![u] = c]
         /\ thrlist' = thrlist \cup {u}
         /\ pc' = [pc EXCEPT ![t] = "f_list", ![u] = "nascent"]
         /\ ptr' = [ptr EXCEPT ![t] = c]
  <2>1. pc[t] = "f_init"
    BY DEF TaskInit
  <2>2. of[t] \in Tasks /\ mem[of[t]] = "alloc" /\ mini[of[t]] = "alloc"
    BY <2>1, RunningCounts DEF IInv, ThreadInv, ThreadOf, Uncounted, Dying, Ending
  <2> QED BY <2>2 DEF TaskInit
<1>2. /\ pc[t] = "f_init" /\ pc[u] = "unused" /\ of[u] = None /\ u # t
      /\ mini[c] = "unused" /\ c \notin listed /\ c # p /\ c # InitTask
      /\ listed' = listed /\ listLock' = listLock
  BY <1>1 DEF IInv, ThreadInv, ThreadOf, TaskInv, TaskOf, TaskInit
<1>3. /\ \A w \in Threads : of[w] # c
      /\ \A j \in Tasks : tk[j].parent # c
      /\ \A w \in Threads : pc[w] \in Building => ptr[w] # c /\ of[t] # ptr[w]
      /\ \A w \in Threads : pc[w] \in {"t_count", "t_launch"} => ptr[w] # u
      /\ \A q \in Tasks : mem[q] = "alloc" => tk[q].dtask # c /\ c \notin Dead(q)
      /\ \A w \in Threads : pc[w] \in {"v_child", "v_block"} => ptr[w] # c
  <2>1. \A w \in Threads : pc[w] \in Building => ptr[w] # c /\ of[t] # ptr[w]
    BY <1>1, <1>2, NotBuilt DEF IInv, BuildInv, BuildOf
  <2>2. \A q \in Tasks : mem[q] = "alloc" => tk[q].dtask # c /\ c \notin Dead(q)
    BY <1>1, <1>2 DEF IInv, HeirInv, HeirOf, MiniInv
  <2>3. \A w \in Threads : pc[w] \in {"v_child", "v_block"} => ptr[w] # c
    BY <1>1 DEF IInv, LockInv, LockOf
  <2> QED BY <1>1, <1>2, <2>1, <2>2, <2>3 DEF IInv, TaskInv, TaskOf, ForkInv
<1>4. /\ tk' \in [Tasks -> TaskRec] /\ \A j \in Tasks \ {c} : tk'[j] = tk[j]
      /\ tk'[c].parent = p /\ tk'[c].num = 1 /\ tk'[c].live = 0 /\ tk'[c].dead = <<>>
      /\ tk'[c].waiters = {} /\ tk'[c].dtask = None /\ tk'[c].dthr = None
      /\ tk'[c].lock = None
  BY <1>1, SetNew DEF IInv, Types, NewTask
<1>5. /\ mem'[c] = "alloc" /\ \A j \in Tasks \ {c} : mem'[j] = mem[j]
      /\ mini'[c] = "alloc" /\ \A j \in Tasks \ {c} : mini'[j] = mini[j]
      /\ tcb'[u] = "alloc" /\ \A w \in Threads \ {u} : tcb'[w] = tcb[w]
      /\ of'[u] = c /\ \A w \in Threads \ {u} : of'[w] = of[w]
      /\ mem' \in [Tasks -> Memory] /\ mini' \in [Tasks -> Memory]
      /\ tcb' \in [Threads -> Memory]
      /\ of' \in [Threads -> Tasks \cup {None}]
  BY <1>1 DEF IInv, Types, Memory
<1>6. /\ pc'[t] = "f_list" /\ pc'[u] = "nascent"
      /\ \A w \in Threads \ {t, u} : pc'[w] = pc[w]
      /\ pc' \in [Threads -> PCs]
      /\ ptr'[t] = c /\ \A w \in Threads \ {t} : ptr'[w] = ptr[w]
      /\ ptr' \in [Threads -> Tasks \cup Threads \cup {None}]
  BY <1>1, <1>2 DEF IInv, Types, PCs
<1>7. \A j \in Tasks :
         /\ tk[j].dthr \in Threads \cup {None} /\ tk[j].dtask \in Tasks \cup {None}
         /\ tk[j].waiters \subseteq Threads /\ Dead(j) \subseteq Tasks
  BY FieldTypes, DeadAreTasks DEF IInv, Dead
<1>8. Types'
  BY <1>1, <1>2, <1>4, <1>5, <1>6 DEF IInv, Types
<1>9. ThreadInv'
  <2>1. ASSUME NEW w \in Threads, w # u PROVE ThreadOf(w)'
    <3>1. ThreadOf(w) /\ of[w] \in Tasks \cup {None} /\ of[w] # c
      BY <1>3 DEF IInv, ThreadInv, Types
    <3>2. /\ of'[w] = of[w] /\ tcb'[w] = tcb[w]
          /\ pc'[w] = pc[w] \/ (w = t /\ pc'[w] = "f_list" /\ pc[w] = "f_init")
          /\ w \in thrlist' <=> w \in thrlist
          /\ of[w] \in Tasks => /\ mem'[of[w]] = mem[of[w]] /\ mini'[of[w]] = mini[of[w]]
                                /\ tk'[of[w]] = tk[of[w]]
      BY <1>1, <1>2, <1>4, <1>5, <1>6, <2>1, <3>1
    <3> QED BY <3>1, <3>2, Names DEF ThreadOf, Gone, Dying, Ending
  <2>2. ThreadOf(u)'
    BY <1>2, <1>5, <1>6, Names DEF ThreadOf, Gone, Dying, Ending
  <2> QED BY <2>1, <2>2 DEF ThreadInv
<1>10. BuildInv'
  <2>1. ASSUME NEW w \in Threads, pc'[w] \in Building, w # t
        PROVE  pc[w] \in Building /\ pc'[w] = pc[w] /\ ptr'[w] = ptr[w]
               /\ ptr[w] \in Tasks /\ ptr[w] # c /\ ptr[w] # p
    BY <1>1, <1>3, <1>6, <2>1 DEF IInv, BuildInv, Building
  <2>2. ASSUME NEW w \in Threads, pc'[w] \in Building, NEW j \in Tasks, ptr'[w] = j, w # t
        PROVE  BuildOf(w, j)'
    <3>1. BuildOf(w, j) /\ j # c /\ j # p
      BY <2>1, <2>2 DEF IInv, BuildInv
    <3>2. \A x \in Threads : pc'[x] \in Building /\ ptr'[x] = j => x = w
      BY <1>6, <2>1, <3>1 DEF BuildOf
    <3>3. /\ \A x \in Threads : of'[x] = j => pc'[x] = "nascent"
          /\ \A x \in Tasks : tk'[x].parent # j
      BY <1>1, <1>2, <1>4, <1>5, <1>6, <3>1 DEF BuildOf
    <3>4. of'[w] = of[w]
      BY <1>2, <1>5, <2>1, <2>2 DEF Building
    <3>5. /\ tk'[j] = tk[j] /\ mem'[j] = mem[j] /\ mini'[j] = mini[j]
          /\ pc'[w] = pc[w]
      BY <1>4, <1>5, <2>1, <2>2, <3>1
    <3> QED BY <3>1, <3>2, <3>3, <3>4, <3>5 DEF BuildOf
  <2>3. BuildOf(t, c)'
    <3>1. \A x \in Threads : pc'[x] \in Building /\ ptr'[x] = c => x = t
      BY <2>1
    <3>2. /\ \A x \in Threads : of'[x] = c => pc'[x] = "nascent"
          /\ \A x \in Tasks : tk'[x].parent # c
      BY <1>2, <1>3, <1>4, <1>5, <1>6
    <3> QED BY <1>1, <1>2, <1>4, <1>5, <3>1, <3>2 DEF BuildOf
  <2> QED BY <1>6, <2>1, <2>2, <2>3 DEF BuildInv
<1>11. ForkInv'
  <2>1. ASSUME NEW w \in Threads, pc'[w] \in {"t_count", "t_launch"}
        PROVE  w # t /\ w # u /\ pc[w] = pc'[w] /\ ptr'[w] = ptr[w] /\ of'[w] = of[w]
    BY <1>5, <1>6, <2>1
  <2>2. ASSUME NEW w \in Threads, pc'[w] \in {"t_count", "t_launch"}
        PROVE  ptr[w] \in Threads /\ pc'[ptr[w]] = "nascent" /\ of'[ptr[w]] = of[w]
    <3>1. ptr[w] \in Threads /\ pc[ptr[w]] = "nascent" /\ of[ptr[w]] = of[w]
      BY <2>1, <2>2 DEF IInv, ForkInv
    <3> QED BY <1>2, <1>5, <1>6, <3>1
  <2>3. \A w, x \in Threads : /\ pc'[w] \in {"t_count", "t_launch"}
                              /\ pc'[x] \in {"t_count", "t_launch"} /\ ptr'[w] = ptr'[x]
                              => w = x
    BY <2>1 DEF IInv, ForkInv
  <2> QED BY <2>1, <2>2, <2>3 DEF ForkInv
<1>12. \A j \in Tasks \ {c} :
          /\ Off(j)' <=> Off(j)
          /\ Closed(j)' <=> Closed(j)
          /\ Bare(j)' <=> Bare(j)
          /\ Ended(j)' <=> Ended(j)
          /\ InEnding(j)' <=> InEnding(j)
          /\ ForkUndone(j)' <=> ForkUndone(j)
  <2>1. ASSUME NEW w \in Threads, NEW j \in Tasks \ {c}
        PROVE  of'[w] = j <=> of[w] = j \/ (w = u /\ FALSE)
    BY <1>2, <1>5, Names
  <2>2. \A w \in Threads : \/ pc'[w] = pc[w] /\ ptr'[w] = ptr[w]
                           \/ w = t /\ pc[w] = "f_init" /\ pc'[w] = "f_list"
                           \/ w = u /\ pc[w] = "unused" /\ pc'[w] = "nascent"
    BY <1>2, <1>6
  <2> QED BY <1>4, <2>1, <2>2
      DEF Off, Closed, Bare, Ended, AtStage, ForkUndone, InEnding, Ending
<1>13. TaskInv'
  <2>1. ASSUME NEW j \in Tasks, j # c PROVE TaskOf(j)'
    <3>1. TaskOf(j) /\ tk'[j] = tk[j] /\ mem'[j] = mem[j] /\ mini'[j] = mini[j]
      BY <1>4, <1>5, <2>1 DEF IInv, TaskInv
    <3>2. mem[j] = "unused" => /\ \A w \in Threads : of'[w] # j
                               /\ \A x \in Tasks : tk'[x].parent # j
      BY <1>1, <1>4, <1>5, <2>1, <3>1 DEF TaskOf
    <3>3. mem[j] = "alloc" /\ tk[j].dthr # None =>
             /\ of'[tk[j].dthr] = j /\ tcb'[tk[j].dthr] = "alloc"
             /\ pc'[tk[j].dthr] \in Dying \cup {"dead"}
      BY <1>2, <1>5, <1>6, <1>7, <3>1, Names DEF TaskOf, Dying, Ending
    <3> QED BY <1>2, <1>12, <2>1, <3>1, <3>2, <3>3 DEF TaskOf
  <2>2. TaskOf(c)'
    <3>1. ~Off(c)' /\ ~Closed(c)' /\ ~Bare(c)'
      BY <1>4, Names DEF Off, Closed, Bare, AtStage
    <3> QED BY <1>2, <1>4, <1>5, <3>1 DEF TaskOf
  <2> QED BY <1>2, <2>1, <2>2 DEF IInv, TaskInv
<1>14. LockInv'
  <2>1. ASSUME NEW j \in Tasks, NEW w \in Threads PROVE LockOf(j, w)'
    <3>1. LockOf(j, w) /\ (of[w] \in Tasks \/ pc[w] = "unused")
      BY DEF IInv, LockInv, Types, ThreadInv, ThreadOf
    <3>2. pc'[w] \in {"v_child", "v_block"} => pc[w] = pc'[w] /\ ptr'[w] = ptr[w] /\ w # u /\ w # t
      BY <1>6
    <3>3. pc[w] \in {"v_child", "v_block"} => pc[w] = pc'[w] /\ ptr'[w] = ptr[w]
      BY <1>2, <1>6
    <3>4. CASE j = c
      BY <1>3, <1>4, <3>2, <3>4, Names DEF LockOf
    <3>5. CASE j # c
      <4>1. tk'[j] = tk[j] /\ mem'[j] = mem[j]
        BY <1>4, <1>5, <3>5
      <4>2. w # u => /\ of'[w] = of[w]
                     /\ of[w] \in Tasks => tk'[of[w]] = tk[of[w]]
        BY <1>3, <1>4, <1>5
      <4> QED BY <1>2, <3>1, <3>2, <3>3, <4>1, <4>2 DEF LockOf
    <3> QED BY <3>4, <3>5
  <2>2. \A w \in Threads : ListLockOf(w)'
    BY <1>2, <1>6 DEF IInv, LockInv, ListLockOf
  <2>3. \A w \in Threads : pc'[w] \in {"v_child", "v_block"} => ptr'[w] \in Tasks
    BY <1>6 DEF IInv, LockInv
  <2> QED BY <2>1, <2>2, <2>3 DEF LockInv
<1>15. HeirInv'
  <2>1. ASSUME NEW q \in Tasks, NEW d \in Tasks PROVE HeirOf(q, d)'
    <3>1. CASE q = c
      BY <1>4, <3>1, Names DEF HeirOf
    <3>2. CASE q # c /\ mem[q] = "alloc" /\ tk[q].dtask = d
      <4>1. HeirOf(q, d) /\ d # c
        BY <1>3, <3>2 DEF IInv, HeirInv
      <4>2. /\ mem'[d] = "alloc" /\ Ended(d)' /\ d # q
            /\ \A x \in Tasks : mem'[x] = "alloc" /\ tk'[x].dtask = d => x = q
        BY <1>4, <1>5, <1>12, <3>2, <4>1, Names DEF HeirOf
      <4>3. \A w \in Threads : of'[w] = d /\ pc'[w] = "v_block" => ptr'[w] = q
        BY <1>5, <1>6, <3>2, <4>1 DEF HeirOf
      <4> QED BY <4>2, <4>3 DEF HeirOf
    <3>3. q # c => (mem'[q] = "alloc" /\ tk'[q].dtask = d <=> mem[q] = "alloc" /\ tk[q].dtask = d)
      BY <1>4, <1>5
    <3> QED BY <3>1, <3>2, <3>3 DEF HeirOf
  <2>2. \A j \in Tasks : HasHeir(j) => HasHeir(j)'
    BY <1>1, <1>4, <1>5 DEF HasHeir
  <2>3. ASSUME NEW j \in Tasks, mem'[j] = "alloc", tk'[j].num = 0
        PROVE  InEnding(j)' \/ HasHeir(j)'
    BY <1>4, <1>5, <1>12, <2>2, <2>3 DEF IInv, HeirInv
  <2> QED BY <2>1, <2>3 DEF HeirInv
<1>16. MiniInv'
  <2>1. /\ Dead(c)' = {} /\ Distinct(tk'[c].dead)
        /\ \A j \in Tasks \ {c} : Dead(j)' = Dead(j)
    BY <1>4 DEF Dead, ToSet, Distinct
  <2>2. \A j \in Tasks : InQueue(j) => InQueue(j)'
    BY <1>1, <1>5, <2>1 DEF InQueue
  <2>3. ASSUME NEW q \in Tasks, NEW d \in Tasks, mem'[q] = "alloc", d \in Dead(q)'
        PROVE  /\ mini'[d] = "alloc"
               /\ \A w \in Threads : of'[w] = d => pc'[w] \in {"v_block", "dead"}
               /\ \A x \in Tasks : mem'[x] = "alloc" /\ d \in Dead(x)' => x = q
    <3>1. q # c /\ mem[q] = "alloc" /\ d \in Dead(q) /\ d # c
      BY <1>3, <1>5, <2>1, <2>3
    <3>2. /\ mini[d] = "alloc"
          /\ \A w \in Threads : of[w] = d => pc[w] \in {"v_block", "dead"}
          /\ \A x \in Tasks : mem[x] = "alloc" /\ d \in Dead(x) => x = q
      BY <3>1 DEF IInv, MiniInv
    <3>3. \A w \in Threads : of'[w] = d => of[w] = d /\ w # u /\ w # t
      BY <1>2, <1>5, <3>1, <3>2
    <3> QED BY <1>5, <1>6, <2>1, <3>1, <3>2, <3>3
  <2>4. ASSUME NEW j \in Tasks, mini'[j] = "alloc"
        PROVE  (mem'[j] = "alloc" /\ tk'[j].num # 0) \/ InEnding(j)' \/ InQueue(j)'
    BY <1>4, <1>5, <1>12, <2>2, <2>4 DEF IInv, MiniInv
  <2>5. \A q \in Tasks : mem'[q] = "alloc" => Distinct(tk'[q].dead)
    BY <1>4, <1>5, <2>1 DEF IInv, MiniInv
  <2> QED BY <2>3, <2>4, <2>5 DEF MiniInv
<1>17. NumInv'
  <2>1. \A w \in Threads : Pending(w)' <=> Pending(w)
    BY <1>2, <1>6 DEF Pending
  <2>2. ~Pending(u)
    BY <1>3 DEF Pending
  <2>3. Members(c)' = {u}
    BY <1>2, <1>3, <1>5, <1>6, <2>1, <2>2 DEF Members, Uncounted, Dying, Ending
  <2>4. \A j \in Tasks \ {c} : Members(j)' = Members(j)
    BY <1>2, <1>5, <1>6, <2>1, Names DEF Members, Uncounted, Dying, Ending
  <2>5. Cardinality(Members(c))' = 1 /\ 1 <= Cardinality(Threads)
    <3>1. Cardinality({u}) = 1
      BY FS_Singleton
    <3>2. {u} \subseteq Threads
      OBVIOUS
    <3> QED BY <2>3, <3>1, <3>2, Names, FS_Subset
  <2> QED BY <1>4, <1>5, <2>4, <2>5 DEF IInv, NumInv
<1>18. LiveInv'
  <2>1. \A j \in Tasks \ {c} : (Counted(j)' <=> Counted(j)) /\ (Reported(j)' <=> Reported(j))
    <3>1. \A w \in Threads : \/ pc'[w] = pc[w] /\ ptr'[w] = ptr[w] /\ of'[w] = of[w] /\ w # t
                             \/ w = t /\ pc[w] = "f_init" /\ pc'[w] = "f_list" /\ ptr'[w] = c
                             \/ w = u /\ pc[w] = "unused" /\ pc'[w] = "nascent"
                                /\ ptr'[w] = ptr[w]
      BY <1>2, <1>5, <1>6
    <3> QED BY <1>4, <3>1 DEF Counted, Reported
  <2>2. ~Counted(c)'
    BY <1>6 DEF Counted
  <2>3. \A j \in Tasks : j # c => Children(j)' = Children(j) /\ Expected(j)' = Expected(j)
    BY <1>1, <1>4, <1>5, <2>1, <2>2 DEF Children, Expected
  <2>4. Children(c)' = {} /\ Expected(c)' = {}
    BY <1>1, <1>2, <1>3, <1>4 DEF Children, Expected
  <2>5. Cardinality(Children(c))' = 0 /\ Cardinality(Expected(c))' = 0
    BY <2>4, FS_EmptySet
  <2> QED BY <1>2, <1>4, <1>5, <2>3, <2>5 DEF IInv, LiveInv
<1>19. WaitInv'
  <2>1. \A w \in Threads : pc[w] = "w_asleep" => pc'[w] = pc[w] /\ of'[w] = of[w]
    BY <1>2, <1>5, <1>6
  <2> QED BY <1>4, <1>5, <1>7, <2>1 DEF IInv, WaitInv
<1> QED
  BY <1>8, <1>9, <1>10, <1>11, <1>13, <1>14, <1>15, <1>16, <1>17, <1>18, <1>19 DEF IInv

LEMMA TaskInitFailsKeeps ==
    ASSUME IInv, NEW t \in Threads, TaskInitFails(t)
    PROVE  IInv'
<1>1. PICK c \in Tasks, u \in Threads :
         /\ mem[c] = "unused" /\ tcb[u] = "unused"
         /\ mem' = [mem EXCEPT ![c] = "freed"] /\ tcb' = [tcb EXCEPT ![u] = "freed"]
         /\ thrlist' = thrlist \cup {u}
  BY DEF TaskInitFails
<1>2. /\ pc[t] = "f_init" /\ pc[u] = "unused" /\ of[u] = None /\ u # t
      /\ c \notin listed
      /\ mini' = mini /\ tk' = tk /\ of' = of /\ listed' = listed /\ listLock' = listLock
      /\ ptr' = ptr
  BY <1>1 DEF IInv, ThreadInv, ThreadOf, TaskInv, TaskOf, TaskInitFails
<1>3. /\ mem'[c] = "freed" /\ \A j \in Tasks \ {c} : mem'[j] = mem[j]
      /\ tcb'[u] = "freed" /\ \A w \in Threads \ {u} : tcb'[w] = tcb[w]
      /\ mem' \in [Tasks -> Memory] /\ tcb' \in [Threads -> Memory]
      /\ \A j \in Tasks : mem'[j] = "alloc" <=> mem[j] = "alloc"
      /\ \A w \in Threads : tcb'[w] = "alloc" <=> tcb[w] = "alloc"
      /\ \A j \in Tasks : mem'[j] = "unused" => mem[j] = "unused"
  BY <1>1 DEF IInv, Types, Memory
<1>4. /\ pc'[t] = "user" /\ \A w \in Threads \ {t} : pc'[w] = pc[w]
      /\ pc' \in [Threads -> PCs]
  BY DEF IInv, Types, TaskInitFails, Goto, PCs
<1>5. \A j \in Tasks :
         /\ tk[j].dthr \in Threads \cup {None} /\ tk[j].dtask \in Tasks \cup {None}
         /\ tk[j].waiters \subseteq Threads /\ Dead(j) \subseteq Tasks /\ tk[j].live \in Nat
  BY FieldTypes, DeadAreTasks DEF IInv, Dead
<1>6. Types'
  BY <1>1, <1>2, <1>3, <1>4 DEF IInv, Types
<1>7. ThreadInv'
  <2>1. ASSUME NEW w \in Threads PROVE ThreadOf(w)'
    <3>1. ThreadOf(w) /\ of[w] \in Tasks \cup {None}
      BY DEF IInv, ThreadInv, Types
    <3>2. /\ w = u => of[w] = None /\ pc'[w] = "unused"
          /\ w # u => tcb'[w] = tcb[w] /\ (w \in thrlist' <=> w \in thrlist)
          /\ pc'[w] = pc[w] \/ (w = t /\ pc'[w] = "user" /\ pc[w] = "f_init")
      BY <1>1, <1>2, <1>3, <1>4
    <3>3. CASE w = u
      BY <1>2, <3>2, <3>3, Names DEF ThreadOf, Gone, Dying, Ending
    <3>4. CASE w # u
      BY <1>2, <1>3, <3>1, <3>2, <3>4, Names DEF ThreadOf, Gone, Dying, Ending
    <3> QED BY <3>3, <3>4
  <2> QED BY <2>1 DEF ThreadInv
<1>8. BuildInv'
  <2>1. ASSUME NEW w \in Threads, pc'[w] \in Building
        PROVE  pc[w] \in Building /\ pc'[w] = pc[w] /\ ptr[w] \in Tasks
    BY <1>4, <2>1 DEF IInv, BuildInv, Building
  <2>2. ASSUME NEW w \in Threads, pc'[w] \in Building, NEW j \in Tasks, ptr[w] = j
        PROVE  BuildOf(w, j)'
    <3>1. BuildOf(w, j)
      BY <2>1, <2>2 DEF IInv, BuildInv
    <3>2. /\ \A x \in Threads : pc'[x] \in Building => pc[x] \in Building
          /\ \A x \in Threads : pc[x] = "nascent" => pc'[x] = "nascent"
      BY <1>2, <1>4, <2>1
    <3>3. pc'[w] = pc[w]
      BY <2>1, <2>2
    <3> QED BY <1>2, <1>3, <3>1, <3>2, <3>3 DEF BuildOf
  <2> QED BY <1>2, <2>1, <2>2 DEF BuildInv
<1>9. ForkInv'
  BY <1>2, <1>4 DEF IInv, ForkInv
<1>10. \A j \in Tasks :
          /\ Off(j)' <=> Off(j)
          /\ Closed(j)' <=> Closed(j)
          /\ Bare(j)' <=> Bare(j)
          /\ Ended(j)' <=> Ended(j)
          /\ InEnding(j)' <=> InEnding(j)
          /\ ForkUndone(j)' <=> ForkUndone(j)
  BY <1>2, <1>4
  DEF Off, Closed, Bare, Ended, AtStage, ForkUndone, InEnding, Ending
<1>11. TaskInv'
  <2>1. ASSUME NEW j \in Tasks PROVE TaskOf(j)'
    <3>1. TaskOf(j)
      BY DEF IInv, TaskInv
    <3>2. mem'[j] = "alloc" /\ tk[j].dthr # None =>
             /\ tk[j].dthr \in Threads
             /\ tcb'[tk[j].dthr] = "alloc" /\ of[tk[j].dthr] = j
             /\ pc'[tk[j].dthr] \in Dying \cup {"dead"}
      BY <1>2, <1>3, <1>4, <1>5, <3>1 DEF TaskOf, Dying, Ending
    <3> QED BY <1>2, <1>3, <1>10, <3>1, <3>2 DEF TaskOf
  <2> QED BY <1>2, <2>1 DEF IInv, TaskInv
<1>12. LockInv'
  <2>1. ASSUME NEW j \in Tasks, NEW w \in Threads PROVE LockOf(j, w)'
    <3>1. LockOf(j, w)
      BY DEF IInv, LockInv
    <3> QED BY <1>2, <1>3, <1>4, <3>1 DEF LockOf
  <2> QED BY <1>2, <1>4, <2>1 DEF IInv, LockInv, ListLockOf
<1>13. HeirInv'
  <2>1. ASSUME NEW q \in Tasks, NEW d \in Tasks PROVE HeirOf(q, d)'
    <3>1. HeirOf(q, d)
      BY DEF IInv, HeirInv
    <3> QED BY <1>2, <1>3, <1>4, <1>10, <3>1 DEF HeirOf
  <2>2. \A j \in Tasks : HasHeir(j)' <=> HasHeir(j)
    BY <1>2, <1>3 DEF HasHeir
  <2> QED BY <1>2, <1>3, <1>10, <2>1, <2>2 DEF IInv, HeirInv
<1>14. MiniInv'
  <2>1. \A j \in Tasks : Dead(j)' = Dead(j) /\ (InQueue(j)' <=> InQueue(j))
    BY <1>2, <1>3 DEF Dead, InQueue
  <2>2. \A w \in Threads : pc[w] \in {"v_block", "dead"} => pc'[w] = pc[w]
    BY <1>2, <1>4
  <2> QED BY <1>2, <1>3, <1>10, <2>1, <2>2 DEF IInv, MiniInv
<1>15. NumInv'
  <2>1. \A w \in Threads : Pending(w)' <=> Pending(w)
    BY <1>2, <1>4 DEF Pending
  <2>2. \A j \in Tasks : Members(j)' = Members(j)
    BY <1>2, <1>4, <2>1 DEF Members, Uncounted, Dying, Ending
  <2> QED BY <1>2, <1>3, <2>2 DEF IInv, NumInv
<1>16. LiveInv'
  <2>1. \A j \in Tasks : (Counted(j)' <=> Counted(j)) /\ (Reported(j)' <=> Reported(j))
    BY <1>2, <1>4 DEF Counted, Reported
  <2>2. \A j \in Tasks : Children(j) \subseteq Children(j)' /\ Expected(j)' = Expected(j)
    BY <1>2, <1>3, <2>1 DEF Children, Expected
  <2>3. ASSUME NEW j \in Tasks PROVE Cardinality(Children(j)) <= Cardinality(Children(j))'
                                     /\ Cardinality(Children(j)) \in Nat
                                     /\ Cardinality(Children(j))' \in Nat
    <3>1. Children(j) \subseteq Tasks /\ Children(j)' \subseteq Tasks
      BY DEF Children
    <3>2. IsFiniteSet(Children(j)) /\ IsFiniteSet(Children(j)')
      BY <3>1, Names, FS_Subset
    <3> QED BY <2>2, <3>2, FS_Subset, FS_CardinalityType
  <2>4. ASSUME NEW j \in Tasks PROVE tk[j].live <= Cardinality(Children(j))'
    <3>1. tk[j].live <= Cardinality(Children(j))
      BY DEF IInv, LiveInv
    <3> QED BY <1>5, <2>3, <3>1
  <2>5. ASSUME NEW j \in Tasks PROVE Cardinality(Expected(j))' = Cardinality(Expected(j))
    BY <2>2
  <2> QED BY <1>2, <1>3, <2>4, <2>5 DEF IInv, LiveInv
<1>17. WaitInv'
  BY <1>2, <1>3, <1>4, <1>5 DEF IInv, WaitInv
<1> QED
  BY <1>6, <1>7, <1>8, <1>9, <1>11, <1>12, <1>13, <1>14, <1>15, <1>16, <1>17 DEF IInv

-----------------------------------------------------------------------------
(* thread_fork *)

LEMMA ThreadInitKeeps ==
    ASSUME IInv, NEW t \in Threads, ThreadInit(t)
    PROVE  IInv'
<1>1. PICK u \in Threads, p \in Tasks :
         /\ of[t] = p /\ p # InitTask /\ mem[p] = "alloc"
         /\ tcb[u] = "unused" /\ tcb' = [tcb EXCEPT ![u] = "alloc"]
         /\ of' = [of EXCEPT ![u] = p] /\ thrlist' = thrlist \cup {u}
         /\ pc' = [pc EXCEPT ![t] = "t_count", ![u] = "nascent"]
         /\ ptr' = [ptr EXCEPT ![t] = u]
  <2>1. pc[t] = "user"
    BY DEF ThreadInit
  <2>2. of[t] \in Tasks /\ mem[of[t]] = "alloc"
    BY <2>1, RunningCounts DEF Uncounted, Dying, Ending
  <2> QED BY <2>2 DEF ThreadInit
<1>2. /\ pc[t] = "user" /\ pc[u] = "unused" /\ of[u] = None /\ u # t
      /\ mem' = mem /\ mini' = mini /\ tk' = tk /\ listed' = listed /\ listLock' = listLock
  BY <1>1 DEF IInv, ThreadInv, ThreadOf, ThreadInit
<1>3. /\ \A w \in Threads : pc[w] \in Building => p # ptr[w]
      /\ \A w \in Threads : pc[w] \in {"t_count", "t_launch"} => ptr[w] # u
      /\ \A q \in Tasks : mem[q] = "alloc" => tk[q].dtask # p /\ p \notin Dead(q)
  <2>1. \A w \in Threads : pc[w] \in Building => p # ptr[w]
    BY <1>1, <1>2, NotBuilt
  <2>2. tk[p].num # 0
    BY <1>1, <1>2, RunningCounts DEF Uncounted, Dying, Ending
  <2>3. \A q \in Tasks : mem[q] = "alloc" => tk[q].dtask # p
    BY <2>2 DEF IInv, HeirInv, HeirOf, Ended, AtStage
  <2> QED BY <1>1, <1>2, <2>1, <2>3 DEF IInv, MiniInv, ForkInv
<1>4. /\ tcb'[u] = "alloc" /\ \A w \in Threads \ {u} : tcb'[w] = tcb[w]
      /\ of'[u] = p /\ \A w \in Threads \ {u} : of'[w] = of[w]
      /\ tcb' \in [Threads -> Memory] /\ of' \in [Threads -> Tasks \cup {None}]
      /\ pc'[t] = "t_count" /\ pc'[u] = "nascent"
      /\ \A w \in Threads \ {t, u} : pc'[w] = pc[w]
      /\ pc' \in [Threads -> PCs]
      /\ ptr'[t] = u /\ \A w \in Threads \ {t} : ptr'[w] = ptr[w]
      /\ ptr' \in [Threads -> Tasks \cup Threads \cup {None}]
  BY <1>1, <1>2 DEF IInv, Types, Memory, PCs
<1>5. \A w \in Threads :
         \/ pc'[w] = pc[w] /\ ptr'[w] = ptr[w] /\ of'[w] = of[w] /\ w # t /\ w # u
         \/ w = t /\ pc[w] = "user" /\ pc'[w] = "t_count" /\ of'[w] = of[w]
         \/ w = u /\ pc[w] = "unused" /\ pc'[w] = "nascent" /\ ptr'[w] = ptr[w]
            /\ of[w] = None /\ of'[w] = p
  BY <1>2, <1>4
<1>6. \A j \in Tasks :
         /\ tk[j].dthr \in Threads \cup {None} /\ tk[j].dtask \in Tasks \cup {None}
         /\ tk[j].waiters \subseteq Threads /\ Dead(j) \subseteq Tasks
  BY FieldTypes, DeadAreTasks DEF IInv, Dead
<1>7. Types'
  BY <1>1, <1>2, <1>4 DEF IInv, Types
<1>8. ThreadInv'
  <2>1. ASSUME NEW w \in Threads, w # u PROVE ThreadOf(w)'
    <3>1. ThreadOf(w) /\ of[w] \in Tasks \cup {None}
      BY DEF IInv, ThreadInv, Types
    <3>2. tcb'[w] = tcb[w] /\ (w \in thrlist' <=> w \in thrlist)
      BY <1>1, <1>4, <2>1
    <3> QED BY <1>2, <1>5, <2>1, <3>1, <3>2, Names DEF ThreadOf, Gone, Dying, Ending
  <2>2. ThreadOf(u)'
    BY <1>1, <1>2, <1>4, Names DEF ThreadOf, Gone, Dying, Ending
  <2> QED BY <2>1, <2>2 DEF ThreadInv
<1>9. BuildInv'
  <2>1. ASSUME NEW w \in Threads, pc'[w] \in Building
        PROVE  /\ pc[w] \in Building /\ pc'[w] = pc[w] /\ ptr'[w] = ptr[w] /\ of'[w] = of[w]
               /\ ptr[w] \in Tasks /\ ptr[w] # p
    BY <1>3, <1>5, <2>1 DEF IInv, BuildInv, Building
  <2>2. ASSUME NEW w \in Threads, pc'[w] \in Building, NEW j \in Tasks, ptr'[w] = j
        PROVE  BuildOf(w, j)'
    <3>1. BuildOf(w, j) /\ j # p /\ pc'[w] = pc[w] /\ of'[w] = of[w]
      BY <2>1, <2>2 DEF IInv, BuildInv
    <3>2. \A x \in Threads : pc'[x] \in Building /\ ptr'[x] = j => x = w
      BY <2>1, <3>1 DEF BuildOf
    <3>3. \A x \in Threads : of'[x] = j => pc'[x] = "nascent"
      BY <1>5, <3>1 DEF BuildOf
    <3> QED BY <1>2, <3>1, <3>2, <3>3 DEF BuildOf
  <2> QED BY <2>1, <2>2 DEF BuildInv
<1>10. ForkInv'
  <2>1. ASSUME NEW w \in Threads, pc'[w] \in {"t_count", "t_launch"}, w # t
        PROVE  /\ pc[w] = pc'[w] /\ ptr'[w] = ptr[w] /\ of'[w] = of[w]
               /\ ptr'[w] \in Threads /\ pc'[ptr'[w]] = "nascent" /\ of'[ptr'[w]] = of'[w]
               /\ ptr'[w] # u
    <3>1. pc[w] = pc'[w] /\ ptr'[w] = ptr[w] /\ of'[w] = of[w]
      BY <1>5, <2>1
    <3>2. ptr[w] \in Threads /\ pc[ptr[w]] = "nascent" /\ of[ptr[w]] = of[w] /\ ptr[w] # u
      BY <1>3, <2>1, <3>1 DEF IInv, ForkInv
    <3>3. pc'[ptr[w]] = "nascent" /\ of'[ptr[w]] = of[ptr[w]]
      BY <1>2, <1>4, <3>2
    <3> QED BY <3>1, <3>2, <3>3
  <2>2. ptr'[t] = u /\ pc'[u] = "nascent" /\ of'[u] = of'[t]
    BY <1>1, <1>2, <1>4
  <2>3. \A w, x \in Threads : /\ pc'[w] \in {"t_count", "t_launch"}
                              /\ pc'[x] \in {"t_count", "t_launch"} /\ ptr'[w] = ptr'[x]
                              => w = x
    BY <2>1, <2>2 DEF IInv, ForkInv
  <2> QED BY <2>1, <2>2, <2>3 DEF ForkInv
<1>11. \A j \in Tasks :
          /\ Off(j)' <=> Off(j)
          /\ Closed(j)' <=> Closed(j)
          /\ Bare(j)' <=> Bare(j)
          /\ Ended(j)' <=> Ended(j)
          /\ InEnding(j)' <=> InEnding(j)
          /\ ForkUndone(j)' <=> ForkUndone(j)
  BY <1>2, <1>5, Names
  DEF Off, Closed, Bare, Ended, AtStage, ForkUndone, InEnding, Ending
<1>12. TaskInv'
  <2>1. ASSUME NEW j \in Tasks PROVE TaskOf(j)'
    <3>1. TaskOf(j)
      BY DEF IInv, TaskInv
    <3>2. mem[j] = "unused" => \A w \in Threads : of'[w] # j
      BY <1>1, <1>4, <3>1 DEF TaskOf
    <3>3. mem[j] = "alloc" /\ tk[j].dthr # None =>
             /\ of'[tk[j].dthr] = j /\ tcb'[tk[j].dthr] = "alloc"
             /\ pc'[tk[j].dthr] \in Dying \cup {"dead"}
      BY <1>2, <1>4, <1>6, <3>1, Names DEF TaskOf, Dying, Ending
    <3> QED BY <1>2, <1>11, <3>1, <3>2, <3>3 DEF TaskOf
  <2> QED BY <1>2, <2>1 DEF IInv, TaskInv
<1>13. LockInv'
  <2>1. ASSUME NEW j \in Tasks, NEW w \in Threads PROVE LockOf(j, w)'
    <3>1. LockOf(j, w)
      BY DEF IInv, LockInv
    <3> QED BY <1>2, <1>5, <3>1 DEF LockOf
  <2> QED BY <1>2, <1>5, <2>1 DEF IInv, LockInv, ListLockOf
<1>14. HeirInv'
  <2>1. ASSUME NEW q \in Tasks, NEW d \in Tasks PROVE HeirOf(q, d)'
    <3>1. HeirOf(q, d)
      BY DEF IInv, HeirInv
    <3> QED BY <1>2, <1>5, <1>11, <3>1 DEF HeirOf
  <2>2. \A j \in Tasks : HasHeir(j)' <=> HasHeir(j)
    BY <1>2 DEF HasHeir
  <2> QED BY <1>2, <1>11, <2>1, <2>2 DEF IInv, HeirInv
<1>15. MiniInv'
  <2>1. \A j \in Tasks : Dead(j)' = Dead(j) /\ (InQueue(j)' <=> InQueue(j))
    BY <1>2 DEF Dead, InQueue
  <2>2. ASSUME NEW q \in Tasks, NEW d \in Tasks, mem[q] = "alloc", d \in Dead(q)
        PROVE  \A w \in Threads : of'[w] = d => pc'[w] \in {"v_block", "dead"}
    <3>1. d # p /\ \A w \in Threads : of[w] = d => pc[w] \in {"v_block", "dead"}
      BY <1>3, <2>2 DEF IInv, MiniInv
    <3> QED BY <1>5, <3>1
  <2> QED BY <1>2, <1>11, <2>1, <2>2 DEF IInv, MiniInv
<1>16. NumInv'
  <2>1. \A w \in Threads : w # u => (Pending(w)' <=> Pending(w))
    BY <1>2, <1>4, <1>5 DEF Pending
  <2>2. Pending(u)'
    BY <1>4 DEF Pending
  <2>3. \A j \in Tasks : Members(j)' = Members(j)
    BY <1>2, <1>5, <2>1, <2>2 DEF Members, Uncounted, Dying, Ending
  <2> QED BY <1>2, <2>3 DEF IInv, NumInv
<1>17. LiveInv'
  <2>1. \A j \in Tasks : (Counted(j)' <=> Counted(j)) /\ (Reported(j)' <=> Reported(j))
    BY <1>2, <1>5 DEF Counted, Reported
  <2>2. \A j \in Tasks : Children(j)' = Children(j) /\ Expected(j)' = Expected(j)
    BY <1>2, <2>1 DEF Children, Expected
  <2> QED BY <1>2, <2>2 DEF IInv, LiveInv
<1>18. WaitInv'
  BY <1>2, <1>5, <1>6 DEF IInv, WaitInv
<1> QED
  BY <1>7, <1>8, <1>9, <1>10, <1>12, <1>13, <1>14, <1>15, <1>16, <1>17, <1>18 DEF IInv

LEMMA AddThreadKeeps ==
    ASSUME IInv, NEW t \in Threads, AddThread(t)
    PROVE  IInv'
<1>1. PICK p \in Tasks, u \in Threads :
         /\ of[t] = p /\ mem[p] = "alloc" /\ t \in Members(p) /\ tk[p].num # 0
         /\ ptr[t] = u /\ pc[u] = "nascent" /\ of[u] = p
         /\ \A w \in Threads : pc[w] \in {"t_count", "t_launch"} /\ ptr[w] = u => w = t
  <2>1. pc[t] = "t_count"
    BY DEF AddThread
  <2>2. of[t] \in Tasks /\ mem[of[t]] = "alloc" /\ t \in Members(of[t]) /\ tk[of[t]].num # 0
    BY <2>1, RunningCounts DEF Uncounted, Dying, Ending
  <2> QED BY <2>1, <2>2 DEF IInv, ForkInv
<1>2. /\ pc[t] = "t_count" /\ Goto(t, "t_launch") /\ tk[p].lock = None
      /\ tk' = [tk EXCEPT ![p].num = @ + 1]
      /\ UNCHANGED <<memVars, of, listed, listLock, thrlist, ptr>>
  BY <1>1 DEF AddThread, OwnLockFree
<1>3. /\ tk' \in [Tasks -> TaskRec] /\ \A j \in Tasks \ {p} : tk'[j] = tk[j]
      /\ tk'[p].num = tk[p].num + 1
      /\ \A j \in Tasks :
            /\ tk'[j].parent = tk[j].parent /\ tk'[j].live = tk[j].live
            /\ tk'[j].dead = tk[j].dead /\ tk'[j].dtask = tk[j].dtask
            /\ tk'[j].dthr = tk[j].dthr /\ tk'[j].lock = tk[j].lock
            /\ tk'[j].waiters = tk[j].waiters
            /\ j # p => tk'[j].num = tk[j].num
  BY <1>2, SetNum DEF IInv, Types
<1>4. \A j \in Tasks : tk[j].num \in Nat /\ (tk'[j].num = 0 <=> tk[j].num = 0)
  <2>1. \A j \in Tasks : tk[j].num \in Nat
    BY FieldTypes DEF IInv
  <2> QED BY <1>1, <1>3, <2>1
<1>5. /\ pc'[t] = "t_launch" /\ \A w \in Threads : w # t => pc'[w] = pc[w]
      /\ pc' \in [Threads -> PCs]
  BY <1>2 DEF IInv, Types, Goto, PCs
<1>6. /\ mem' = mem /\ mini' = mini /\ tcb' = tcb /\ of' = of /\ listed' = listed
      /\ listLock' = listLock /\ thrlist' = thrlist /\ ptr' = ptr
  BY <1>2 DEF memVars
<1>7. \A j \in Tasks :
         /\ tk[j].dthr \in Threads \cup {None} /\ tk[j].dtask \in Tasks \cup {None}
         /\ tk[j].waiters \subseteq Threads /\ Dead(j) \subseteq Tasks
  BY FieldTypes, DeadAreTasks DEF IInv, Dead
<1>8. Types'
  BY <1>3, <1>5, <1>6 DEF IInv, Types
<1>9. ThreadInv'
  <2>1. ASSUME NEW w \in Threads PROVE ThreadOf(w)'
    <3>1. ThreadOf(w) /\ of[w] \in Tasks \cup {None}
      BY DEF IInv, ThreadInv, Types
    <3> QED BY <1>2, <1>3, <1>4, <1>5, <1>6, <3>1, Names DEF ThreadOf, Gone, Dying, Ending
  <2> QED BY <2>1 DEF ThreadInv
<1>10. BuildInv'
  <2>1. ASSUME NEW w \in Threads, pc'[w] \in Building
        PROVE  pc[w] \in Building /\ pc'[w] = pc[w] /\ ptr[w] \in Tasks /\ ptr[w] # p
    BY <1>1, <1>2, <1>5, <2>1, NotBuilt DEF IInv, BuildInv, Building
  <2>2. ASSUME NEW w \in Threads, pc'[w] \in Building, NEW j \in Tasks, ptr[w] = j
        PROVE  BuildOf(w, j)'
    <3>1. BuildOf(w, j) /\ j # p
      BY <2>1, <2>2 DEF IInv, BuildInv
    <3>2. /\ \A x \in Threads : pc'[x] \in Building => pc[x] \in Building
          /\ \A x \in Threads : pc[x] = "nascent" => pc'[x] = "nascent"
          /\ pc'[w] = pc[w]
      BY <1>2, <1>5, <2>1, <2>2
    <3> QED BY <1>3, <1>6, <3>1, <3>2 DEF BuildOf
  <2> QED BY <1>6, <2>1, <2>2 DEF BuildInv
<1>11. ForkInv'
  <2>1. \A w \in Threads : pc[w] \in {"t_count", "t_launch"} <=> pc'[w] \in {"t_count", "t_launch"}
    BY <1>2, <1>5
  <2>2. \A w \in Threads : pc[w] = "nascent" => pc'[w] = "nascent"
    BY <1>2, <1>5
  <2> QED BY <1>6, <2>1, <2>2 DEF IInv, ForkInv
<1>12. \A j \in Tasks :
          /\ Off(j)' <=> Off(j)
          /\ Closed(j)' <=> Closed(j)
          /\ Bare(j)' <=> Bare(j)
          /\ Ended(j)' <=> Ended(j)
          /\ InEnding(j)' <=> InEnding(j)
          /\ ForkUndone(j)' <=> ForkUndone(j)
  BY <1>2, <1>3, <1>4, <1>5, <1>6
  DEF Off, Closed, Bare, Ended, AtStage, ForkUndone, InEnding, Ending
<1>13. TaskInv'
  <2>1. ASSUME NEW j \in Tasks PROVE TaskOf(j)'
    <3>1. TaskOf(j)
      BY DEF IInv, TaskInv
    <3> QED BY <1>2, <1>3, <1>5, <1>6, <1>7, <1>12, <3>1, Names DEF TaskOf, Dying, Ending
  <2> QED BY <1>6, <2>1 DEF IInv, TaskInv
<1>14. LockInv'
  <2>1. ASSUME NEW j \in Tasks, NEW w \in Threads PROVE LockOf(j, w)'
    <3>1. LockOf(j, w) /\ (of[w] \in Tasks \/ pc[w] = "unused")
      BY DEF IInv, LockInv, Types, ThreadInv, ThreadOf
    <3> QED BY <1>2, <1>3, <1>4, <1>5, <1>6, <3>1 DEF LockOf
  <2> QED BY <1>2, <1>5, <1>6, <2>1 DEF IInv, LockInv, ListLockOf
<1>15. HeirInv'
  <2>1. ASSUME NEW q \in Tasks, NEW d \in Tasks PROVE HeirOf(q, d)'
    <3>1. HeirOf(q, d)
      BY DEF IInv, HeirInv
    <3> QED BY <1>2, <1>3, <1>5, <1>6, <1>12, <3>1 DEF HeirOf
  <2>2. \A j \in Tasks : HasHeir(j)' <=> HasHeir(j)
    BY <1>3, <1>6 DEF HasHeir
  <2> QED BY <1>4, <1>6, <1>12, <2>1, <2>2 DEF IInv, HeirInv
<1>16. MiniInv'
  <2>1. \A j \in Tasks : Dead(j)' = Dead(j) /\ (InQueue(j)' <=> InQueue(j))
    BY <1>3, <1>6 DEF Dead, InQueue
  <2>2. \A w \in Threads : pc[w] \in {"v_block", "dead"} => pc'[w] = pc[w]
    BY <1>2, <1>5
  <2> QED BY <1>3, <1>4, <1>6, <1>12, <2>1, <2>2 DEF IInv, MiniInv
<1>17. NumInv'
  <2>1. \A w \in Threads : w # u => (Pending(w)' <=> Pending(w))
    BY <1>1, <1>2, <1>5, <1>6 DEF Pending
  <2>2. Pending(u) /\ ~Pending(u)'
    BY <1>1, <1>2, <1>5, <1>6 DEF Pending
  <2>3. \A j \in Tasks \ {p} : Members(j)' = Members(j)
    BY <1>1, <1>2, <1>5, <1>6, <2>1 DEF Members, Uncounted, Dying, Ending
  <2>4. Members(p)' = Members(p) \cup {u} /\ u \notin Members(p)
    <3>1. \A w \in Threads : w # u => (w \in Members(p)' <=> w \in Members(p))
      BY <1>2, <1>5, <1>6, <2>1 DEF Members, Uncounted, Dying, Ending
    <3>2. u \in Members(p)' /\ u \notin Members(p)
      BY <1>1, <1>2, <1>5, <1>6, <2>2 DEF Members, Uncounted, Dying, Ending
    <3>3. Members(p) \subseteq Threads /\ Members(p)' \subseteq Threads
      BY DEF Members
    <3> QED BY <3>1, <3>2, <3>3
  <2>5. /\ Cardinality(Members(p) \cup {u}) = Cardinality(Members(p)) + 1
        /\ Members(p) \cup {u} \subseteq Threads
    <3>1. Members(p) \subseteq Threads
      BY DEF Members
    <3>2. IsFiniteSet(Members(p)) /\ u \notin Members(p)
      BY <2>4, MembersFinite
    <3> QED BY <3>1, <3>2, FS_AddElement
  <2>6. Cardinality(Members(p) \cup {u}) <= Cardinality(Threads)
    BY <2>5, Names, FS_Subset
  <2>7. tk'[p].num = Cardinality(Members(p))' /\ tk'[p].num <= Cardinality(Threads)
    BY <1>1, <1>3, <2>4, <2>5, <2>6 DEF IInv, NumInv
  <2> QED BY <1>3, <1>6, <2>3, <2>7 DEF IInv, NumInv
<1>18. LiveInv'
  <2>1. \A j \in Tasks : (Counted(j)' <=> Counted(j)) /\ (Reported(j)' <=> Reported(j))
    BY <1>2, <1>3, <1>4, <1>5, <1>6 DEF Counted, Reported
  <2>2. \A j \in Tasks : Children(j)' = Children(j) /\ Expected(j)' = Expected(j)
    BY <1>3, <1>6, <2>1 DEF Children, Expected
  <2> QED BY <1>3, <1>6, <2>2 DEF IInv, LiveInv
<1>19. WaitInv'
  BY <1>2, <1>3, <1>5, <1>6, <1>7 DEF IInv, WaitInv
<1> QED
  BY <1>8, <1>9, <1>10, <1>11, <1>13, <1>14, <1>15, <1>16, <1>17, <1>18, <1>19 DEF IInv

LEMMA ThreadLaunchKeeps ==
    ASSUME IInv, NEW t \in Threads, ThreadLaunch(t)
    PROVE  IInv'
<1>1. PICK p \in Tasks, u \in Threads :
         /\ of[t] = p /\ mem[p] = "alloc" /\ mini[p] = "alloc"
         /\ ptr[t] = u /\ pc[u] = "nascent" /\ of[u] = p
         /\ \A w \in Threads : pc[w] \in {"t_count", "t_launch"} /\ ptr[w] = u => w = t
  <2>1. pc[t] = "t_launch"
    BY DEF ThreadLaunch
  <2>2. of[t] \in Tasks /\ mem[of[t]] = "alloc" /\ mini[of[t]] = "alloc"
    BY <2>1, RunningCounts DEF IInv, ThreadInv, ThreadOf, Uncounted, Dying, Ending
  <2> QED BY <2>1, <2>2 DEF IInv, ForkInv
<1>2. /\ pc[t] = "t_launch" /\ u # t
      /\ mem' = mem /\ mini' = mini /\ tcb' = tcb /\ of' = of /\ tk' = tk
      /\ listed' = listed /\ listLock' = listLock /\ thrlist' = thrlist
  BY <1>1 DEF ThreadLaunch, memVars
<1>3. /\ pc'[t] = "user" /\ pc'[u] = "user"
      /\ \A w \in Threads \ {t, u} : pc'[w] = pc[w]
      /\ pc' \in [Threads -> PCs]
      /\ ptr'[t] = None /\ \A w \in Threads \ {t} : ptr'[w] = ptr[w]
      /\ ptr' \in [Threads -> Tasks \cup Threads \cup {None}]
  <2>1. /\ pc' = [pc EXCEPT ![t] = "user", ![u] = "user"]
        /\ ptr' = [ptr EXCEPT ![t] = None]
    BY <1>1 DEF ThreadLaunch
  <2> QED BY <1>2, <2>1 DEF IInv, Types, PCs
<1>4. \A w \in Threads : \/ pc'[w] = pc[w] /\ ptr'[w] = ptr[w] /\ w # t /\ w # u
                         \/ w = t /\ pc[w] = "t_launch" /\ pc'[w] = "user"
                         \/ w = u /\ pc[w] = "nascent" /\ pc'[w] = "user" /\ ptr'[w] = ptr[w]
  BY <1>1, <1>2, <1>3
<1>5. \A j \in Tasks :
         /\ tk[j].dthr \in Threads \cup {None} /\ tk[j].dtask \in Tasks \cup {None}
         /\ tk[j].waiters \subseteq Threads /\ Dead(j) \subseteq Tasks
  BY FieldTypes, DeadAreTasks DEF IInv, Dead
<1>6. Types'
  BY <1>2, <1>3 DEF IInv, Types
<1>7. ThreadInv'
  <2>1. ASSUME NEW w \in Threads PROVE ThreadOf(w)'
    <3>1. ThreadOf(w) /\ of[w] \in Tasks \cup {None}
      BY DEF IInv, ThreadInv, Types
    <3> QED BY <1>1, <1>2, <1>4, <3>1, Names DEF ThreadOf, Gone, Dying, Ending
  <2> QED BY <2>1 DEF ThreadInv
<1>8. BuildInv'
  <2>1. ASSUME NEW w \in Threads, pc'[w] \in Building
        PROVE  pc[w] \in Building /\ pc'[w] = pc[w] /\ ptr'[w] = ptr[w]
               /\ ptr[w] \in Tasks /\ ptr[w] # p
    BY <1>1, <1>2, <1>4, <2>1, NotBuilt DEF IInv, BuildInv, Building
  <2>2. ASSUME NEW w \in Threads, pc'[w] \in Building, NEW j \in Tasks, ptr'[w] = j
        PROVE  BuildOf(w, j)'
    <3>1. BuildOf(w, j) /\ j # p
      BY <2>1, <2>2 DEF IInv, BuildInv
    <3>2. /\ \A x \in Threads : pc'[x] \in Building => pc[x] \in Building /\ ptr'[x] = ptr[x]
          /\ \A x \in Threads : of[x] = j => pc'[x] = pc[x]
          /\ pc'[w] = pc[w]
      BY <1>1, <1>4, <2>1, <2>2, <3>1
    <3> QED BY <1>2, <3>1, <3>2 DEF BuildOf
  <2> QED BY <2>1, <2>2 DEF BuildInv
<1>9. ForkInv'
  <2>1. ASSUME NEW w \in Threads, pc'[w] \in {"t_count", "t_launch"}
        PROVE  w # t /\ pc[w] = pc'[w] /\ ptr'[w] = ptr[w] /\ ptr[w] # u
    BY <1>1, <1>4, <2>1
  <2>2. ASSUME NEW w \in Threads, pc'[w] \in {"t_count", "t_launch"}
        PROVE  ptr[w] \in Threads /\ pc'[ptr[w]] = "nascent" /\ of[ptr[w]] = of[w]
    <3>1. ptr[w] \in Threads /\ pc[ptr[w]] = "nascent" /\ of[ptr[w]] = of[w] /\ ptr[w] # u
      BY <2>1, <2>2 DEF IInv, ForkInv
    <3> QED BY <1>4, <3>1
  <2>3. \A w, x \in Threads : /\ pc'[w] \in {"t_count", "t_launch"}
                              /\ pc'[x] \in {"t_count", "t_launch"} /\ ptr'[w] = ptr'[x]
                              => w = x
    BY <2>1 DEF IInv, ForkInv
  <2> QED BY <1>2, <2>1, <2>2, <2>3 DEF ForkInv
<1>10. \A j \in Tasks :
          /\ Off(j)' <=> Off(j)
          /\ Closed(j)' <=> Closed(j)
          /\ Bare(j)' <=> Bare(j)
          /\ Ended(j)' <=> Ended(j)
          /\ InEnding(j)' <=> InEnding(j)
          /\ ForkUndone(j)' <=> ForkUndone(j)
  BY <1>2, <1>4
  DEF Off, Closed, Bare, Ended, AtStage, ForkUndone, InEnding, Ending
<1>11. TaskInv'
  <2>1. ASSUME NEW j \in Tasks PROVE TaskOf(j)'
    <3>1. TaskOf(j)
      BY DEF IInv, TaskInv
    <3> QED BY <1>2, <1>4, <1>5, <1>10, <3>1, Names DEF TaskOf, Dying, Ending
  <2> QED BY <1>2, <2>1 DEF IInv, TaskInv
<1>12. LockInv'
  <2>1. ASSUME NEW j \in Tasks, NEW w \in Threads PROVE LockOf(j, w)'
    <3>1. LockOf(j, w)
      BY DEF IInv, LockInv
    <3> QED BY <1>2, <1>4, <3>1 DEF LockOf
  <2> QED BY <1>2, <1>4, <2>1 DEF IInv, LockInv, ListLockOf
<1>13. HeirInv'
  <2>1. ASSUME NEW q \in Tasks, NEW d \in Tasks PROVE HeirOf(q, d)'
    <3>1. HeirOf(q, d)
      BY DEF IInv, HeirInv
    <3> QED BY <1>2, <1>4, <1>10, <3>1 DEF HeirOf
  <2>2. \A j \in Tasks : HasHeir(j)' <=> HasHeir(j)
    BY <1>2 DEF HasHeir
  <2> QED BY <1>2, <1>10, <2>1, <2>2 DEF IInv, HeirInv
<1>14. MiniInv'
  <2>1. \A j \in Tasks : Dead(j)' = Dead(j) /\ (InQueue(j)' <=> InQueue(j))
    BY <1>2 DEF Dead, InQueue
  <2>2. \A w \in Threads : pc[w] \in {"v_block", "dead"} => pc'[w] = pc[w]
    BY <1>4
  <2> QED BY <1>2, <1>10, <2>1, <2>2 DEF IInv, MiniInv
<1>15. NumInv'
  <2>1. \A w \in Threads : Pending(w)' <=> Pending(w)
    BY <1>2, <1>4 DEF Pending
  <2>2. \A j \in Tasks : Members(j)' = Members(j)
    BY <1>2, <1>4, <2>1 DEF Members, Uncounted, Dying, Ending
  <2> QED BY <1>2, <2>2 DEF IInv, NumInv
<1>16. LiveInv'
  <2>1. \A j \in Tasks : (Counted(j)' <=> Counted(j)) /\ (Reported(j)' <=> Reported(j))
    BY <1>2, <1>4 DEF Counted, Reported
  <2>2. \A j \in Tasks : Children(j)' = Children(j) /\ Expected(j)' = Expected(j)
    BY <1>2, <2>1 DEF Children, Expected
  <2> QED BY <1>2, <2>2 DEF IInv, LiveInv
<1>17. WaitInv'
  BY <1>2, <1>4, <1>5 DEF IInv, WaitInv
<1> QED
  BY <1>6, <1>7, <1>8, <1>9, <1>11, <1>12, <1>13, <1>14, <1>15, <1>16, <1>17 DEF IInv

-----------------------------------------------------------------------------
(* vanish: a thread takes itself off its task, and frees the one before it *)

LEMMA DelThreadKeeps ==
    ASSUME IInv, NEW t \in Threads, DelThread(t)
    PROVE  IInv'
<1>1. PICK k \in Tasks, d \in Threads \cup {None} :
         /\ of[t] = k /\ mem[k] = "alloc" /\ mini[k] = "alloc" /\ k # InitTask
         /\ t \in Members(k) /\ tk[k].num # 0
         /\ tk[k].dthr = d /\ tk[k].lock = None
         /\ pc[t] = "v_thread" /\ t \notin thrlist /\ tcb[t] = "alloc"
  <2>1. pc[t] = "v_thread" /\ tk[of[t]].lock = None
    BY DEF DelThread
  <2>2. of[t] \in Tasks /\ mem[of[t]] = "alloc" /\ t \in Members(of[t]) /\ tk[of[t]].num # 0
    BY <2>1, RunningCounts DEF Uncounted, Dying, Ending
  <2>3. /\ mini[of[t]] = "alloc" /\ of[t] # InitTask /\ t \notin thrlist /\ tcb[t] = "alloc"
    BY <2>1, <2>2, Names DEF IInv, ThreadInv, ThreadOf, Gone, Dying, Ending
  <2>4. tk[of[t]].dthr \in Threads \cup {None}
    BY <2>2, FieldTypes DEF IInv
  <2> QED BY <2>1, <2>2, <2>3, <2>4
<1>2. d # None => of[d] = k /\ pc[d] = "dead" /\ tcb[d] = "alloc" /\ d # t
  <2>1. SUFFICES ASSUME d # None PROVE of[d] = k /\ pc[d] = "dead" /\ tcb[d] = "alloc"
    BY <1>1
  <2>2. of[d] = k /\ tcb[d] = "alloc" /\ pc[d] \in Dying \cup {"dead"} /\ d \in Threads
    BY <1>1, <2>1 DEF IInv, TaskInv, TaskOf
  <2>3. pc[d] \notin Ending
    BY <1>1, <2>2 DEF IInv, ThreadInv, ThreadOf
  <2>4. pc[d] # "v_block"
    <3>1. SUFFICES ASSUME pc[d] = "v_block" PROVE FALSE
      OBVIOUS
    <3>2. PICK q \in Tasks : ptr[d] = q
      BY <2>2, <3>1 DEF IInv, LockInv
    <3>3. LockOf(q, d)
      BY <2>2, <3>2 DEF IInv, LockInv
    <3>4. q = k
      BY <1>1, <2>2, <3>1, <3>2, <3>3 DEF LockOf
    <3> QED BY <1>1, <2>2, <3>1, <3>2, <3>3, <3>4, Names DEF LockOf
  <2> QED BY <2>2, <2>3, <2>4 DEF Dying
<1>3. \A w \in Threads : of[w] = k /\ pc[w] \in Dying => FALSE
  <2>1. ASSUME NEW w \in Threads, of[w] = k, pc[w] \in Dying PROVE FALSE
    <3>1. tcb[w] = "alloc" /\ tk[k].dthr = w
      BY <2>1 DEF IInv, ThreadInv, ThreadOf, Dying, Ending
    <3>2. d = w /\ pc[w] # "dead"
      BY <1>1, <2>1, <3>1 DEF Dying, Ending
    <3> QED BY <1>2, <3>2, Names
  <2> QED BY <2>1
<1>4. PICK l \in Threads \cup {None}, label \in {"v_unlist", "v_block"} :
         /\ tk[k].num = 1 => label = "v_unlist" /\ l = None
         /\ tk[k].num # 1 => label = "v_block" /\ l = t
         /\ tk' = [tk EXCEPT ![k].dthr = t, ![k].num = @ - 1, ![k].lock = l]
         /\ Goto(t, label)
         /\ tcb' = IF d = None THEN tcb ELSE [tcb EXCEPT ![d] = "freed"]
         /\ ptr' = [ptr EXCEPT ![t] = k]
         /\ UNCHANGED <<mem, mini, of, listed, listLock, thrlist>>
  <2>1. CASE tk[k].num = 1
    BY <1>1, <2>1 DEF DelThread
  <2>2. CASE tk[k].num # 1
    BY <1>1, <2>2 DEF DelThread
  <2> QED BY <2>1, <2>2
<1>5. /\ tk' \in [Tasks -> TaskRec] /\ \A j \in Tasks \ {k} : tk'[j] = tk[j]
      /\ tk'[k].dthr = t /\ tk'[k].num = tk[k].num - 1 /\ tk'[k].lock = l
      /\ \A j \in Tasks :
            /\ tk'[j].parent = tk[j].parent /\ tk'[j].live = tk[j].live
            /\ tk'[j].dead = tk[j].dead /\ tk'[j].dtask = tk[j].dtask
            /\ tk'[j].waiters = tk[j].waiters
            /\ j # k => /\ tk'[j].num = tk[j].num /\ tk'[j].dthr = tk[j].dthr
                        /\ tk'[j].lock = tk[j].lock
  <2>1. /\ tk' \in [Tasks -> TaskRec] /\ \A j \in Tasks \ {k} : tk'[j] = tk[j]
        /\ tk'[k].dthr = t /\ tk'[k].num = tk[k].num - 1 /\ tk'[k].lock = l
        /\ tk'[k].parent = tk[k].parent /\ tk'[k].live = tk[k].live
        /\ tk'[k].dead = tk[k].dead /\ tk'[k].waiters = tk[k].waiters
        /\ tk'[k].dtask = tk[k].dtask
    <3>1. /\ tk \in [Tasks -> TaskRec] /\ tk[k].num # 0 /\ l \in Threads \cup {None}
          /\ tk' = [tk EXCEPT ![k].dthr = t, ![k].num = @ - 1, ![k].lock = l]
      BY <1>1, <1>4 DEF IInv, Types
    <3>2. tk[k] \in TaskRec
      BY <3>1
    <3>3. tk'[k] \in TaskRec
      BY <3>1, <3>2 DEF TaskRec
    <3> QED BY <3>1, <3>2, <3>3 DEF TaskRec
  <2> QED BY <2>1
<1>6. tk[k].num \in Nat /\ (tk'[k].num = 0 <=> label = "v_unlist")
  <2>1. tk[k].num \in Nat
    BY FieldTypes DEF IInv
  <2> QED BY <1>1, <1>4, <1>5, <2>1
<1>7. /\ pc'[t] = label /\ pc'[t] \in {"v_unlist", "v_block"}
      /\ \A w \in Threads : w # t => pc'[w] = pc[w]
      /\ pc' \in [Threads -> PCs]
      /\ ptr'[t] = k /\ \A w \in Threads : w # t => ptr'[w] = ptr[w]
      /\ ptr' \in [Threads -> Tasks \cup Threads \cup {None}]
  BY <1>4 DEF IInv, Types, Goto, PCs
<1>8. /\ mem' = mem /\ mini' = mini /\ of' = of /\ listed' = listed
      /\ listLock' = listLock /\ thrlist' = thrlist
  BY <1>4
<1>9. /\ tcb' \in [Threads -> Memory]
      /\ \A w \in Threads : tcb'[w] = tcb[w]
                            \/ (w = d /\ pc[w] = "dead" /\ of[w] = k /\ tcb'[w] = "freed")
      /\ d # None => tcb'[d] = "freed"
      /\ tcb'[t] = "alloc"
  <2>1. CASE d = None
    BY <1>1, <1>4, <2>1, Names DEF IInv, Types
  <2>2. CASE d # None
    BY <1>1, <1>2, <1>4, <2>2 DEF IInv, Types, Memory
  <2> QED BY <2>1, <2>2
<1>10. \A j \in Tasks :
         /\ tk[j].dthr \in Threads \cup {None} /\ tk[j].dtask \in Tasks \cup {None}
         /\ tk[j].waiters \subseteq Threads /\ Dead(j) \subseteq Tasks
  BY FieldTypes, DeadAreTasks DEF IInv, Dead
<1>11. Types'
  BY <1>5, <1>7, <1>8, <1>9 DEF IInv, Types
<1>12. ThreadInv'
  <2>1. ASSUME NEW w \in Threads, of[w] # k PROVE ThreadOf(w)'
    <3>1. ThreadOf(w) /\ of[w] \in Tasks \cup {None}
      BY DEF IInv, ThreadInv, Types
    <3>2. w # t /\ pc'[w] = pc[w] /\ tcb'[w] = tcb[w]
          /\ (of[w] \in Tasks => tk'[of[w]] = tk[of[w]])
      BY <1>1, <1>5, <1>7, <1>9, <2>1
    <3> QED BY <1>8, <3>1, <3>2, Names DEF ThreadOf, Gone, Dying, Ending
  <2>2. ASSUME NEW w \in Threads, of[w] = k, w # t PROVE ThreadOf(w)'
    <3>1. ThreadOf(w) /\ pc[w] \notin Dying /\ pc'[w] = pc[w]
      BY <1>3, <1>7, <2>2 DEF IInv, ThreadInv
    <3>2. pc[w] = "dead" /\ tcb[w] = "alloc" => w = d
      BY <1>1, <2>2, <3>1 DEF ThreadOf
    <3>3. pc[w] = "dead" => tcb'[w] # "alloc"
      BY <1>9, <2>2, <3>2, Names
    <3>4. tcb'[w] = "unused" => tcb[w] = "unused"
      BY <1>9
    <3>5. pc[w] # "dead" => tcb'[w] = tcb[w]
      BY <1>9
    <3> QED BY <1>1, <1>8, <2>2, <3>1, <3>3, <3>4, <3>5, Names
        DEF ThreadOf, Gone, Dying, Ending
  <2>3. ThreadOf(t)'
    BY <1>1, <1>5, <1>6, <1>7, <1>8, <1>9, Names DEF ThreadOf, Gone, Dying, Ending
  <2> QED BY <2>1, <2>2, <2>3 DEF ThreadInv
<1>13. BuildInv'
  <2>1. ASSUME NEW w \in Threads, pc'[w] \in Building
        PROVE  pc[w] \in Building /\ pc'[w] = pc[w] /\ ptr'[w] = ptr[w]
               /\ ptr[w] \in Tasks /\ ptr[w] # k
    BY <1>1, <1>4, <1>7, <2>1, NotBuilt DEF IInv, BuildInv, Building
  <2>2. ASSUME NEW w \in Threads, pc'[w] \in Building, NEW j \in Tasks, ptr'[w] = j
        PROVE  BuildOf(w, j)'
    <3>1. BuildOf(w, j) /\ j # k
      BY <2>1, <2>2 DEF IInv, BuildInv
    <3>2. /\ \A x \in Threads : pc'[x] \in Building => pc[x] \in Building /\ ptr'[x] = ptr[x]
          /\ \A x \in Threads : pc[x] = "nascent" => pc'[x] = "nascent"
          /\ pc'[w] = pc[w]
      BY <1>1, <1>7, <2>1, <2>2
    <3> QED BY <1>5, <1>8, <3>1, <3>2 DEF BuildOf
  <2> QED BY <2>1, <2>2 DEF BuildInv
<1>14. ForkInv'
  <2>1. \A w \in Threads : pc'[w] \in {"t_count", "t_launch"} =>
           pc[w] \in {"t_count", "t_launch"} /\ ptr'[w] = ptr[w]
    BY <1>4, <1>7
  <2>2. \A w \in Threads : pc[w] = "nascent" => pc'[w] = "nascent"
    BY <1>1, <1>7
  <2> QED BY <1>8, <2>1, <2>2 DEF IInv, ForkInv
<1>15. \A j \in Tasks :
          /\ j # k => /\ Off(j)' <=> Off(j)
                      /\ Closed(j)' <=> Closed(j)
                      /\ Bare(j)' <=> Bare(j)
                      /\ Ended(j)' <=> Ended(j)
                      /\ InEnding(j)' <=> InEnding(j)
          /\ ForkUndone(j)' <=> ForkUndone(j)
          /\ ~InEnding(k)
          /\ tk'[k].num = 0 => InEnding(k)'
          /\ ~Off(k)' /\ ~Closed(k)' /\ ~Bare(k)'
          /\ ~Ended(k)
  <2>1. ASSUME NEW j \in Tasks, j # k
        PROVE  /\ Off(j)' <=> Off(j)
               /\ Closed(j)' <=> Closed(j)
               /\ Bare(j)' <=> Bare(j)
               /\ Ended(j)' <=> Ended(j)
               /\ InEnding(j)' <=> InEnding(j)
    BY <1>1, <1>5, <1>7, <1>8, <2>1 DEF Off, Closed, Bare, Ended, AtStage, InEnding
  <2>2. ASSUME NEW j \in Tasks PROVE ForkUndone(j)' <=> ForkUndone(j)
    BY <1>1, <1>4, <1>7 DEF ForkUndone
  <2>3. ~InEnding(k) /\ ~Ended(k)
    BY <1>1, <1>3 DEF InEnding, Ended, AtStage, Dying
  <2>4. tk'[k].num = 0 => InEnding(k)'
    BY <1>1, <1>6, <1>7, <1>8 DEF InEnding, Ending
  <2>5. ~Off(k)' /\ ~Closed(k)' /\ ~Bare(k)'
    BY <1>4, <1>5, <1>6, <1>7 DEF Off, Closed, Bare, AtStage
  <2> QED BY <2>1, <2>2, <2>3, <2>4, <2>5
<1>16. TaskInv'
  <2>1. ASSUME NEW j \in Tasks, j # k PROVE TaskOf(j)'
    <3>1. TaskOf(j)
      BY DEF IInv, TaskInv
    <3>2. mem[j] = "alloc" /\ tk[j].dthr # None =>
             /\ tk[j].dthr \in Threads /\ of[tk[j].dthr] = j
             /\ tcb'[tk[j].dthr] = "alloc" /\ pc'[tk[j].dthr] \in Dying \cup {"dead"}
      BY <1>1, <1>7, <1>9, <1>10, <2>1, <3>1 DEF TaskOf
    <3> QED BY <1>5, <1>8, <1>15, <2>1, <3>1, <3>2 DEF TaskOf
  <2>2. TaskOf(k)'
    <3>1. TaskOf(k)
      BY DEF IInv, TaskInv
    <3>2. k \in listed => mini[k] = "alloc"
      BY <1>1
    <3> QED BY <1>1, <1>5, <1>7, <1>8, <1>9, <1>15, <3>1, <3>2 DEF TaskOf, Dying, Ending
  <2> QED BY <1>8, <2>1, <2>2 DEF IInv, TaskInv
<1>17. LockInv'
  <2>1. ASSUME NEW j \in Tasks, NEW w \in Threads, w # t PROVE LockOf(j, w)'
    <3>1. LockOf(j, w) /\ (of[w] \in Tasks \/ pc[w] = "unused")
      BY DEF IInv, LockInv, Types, ThreadInv, ThreadOf
    <3>2. pc'[w] = pc[w] /\ ptr'[w] = ptr[w]
      BY <1>7, <2>1
    <3>3. CASE j = k
      <4>1. tk'[k].lock # w /\ tk[k].lock # w
        BY <1>1, <1>4, <1>5, <2>1, Names
      <4> QED BY <3>1, <3>2, <3>3, <4>1 DEF LockOf
    <3>4. CASE j # k
      <4>1. of[w] \in Tasks => (tk[of[w]].num = 0 => tk'[of[w]].num = 0)
        BY <1>1, <1>5
      <4>2. tk'[j] = tk[j] /\ (of[w] \in Tasks => tk'[of[w]].parent = tk[of[w]].parent)
        BY <1>5, <3>4
      <4> QED BY <1>8, <3>1, <3>2, <4>1, <4>2 DEF LockOf
    <3> QED BY <3>3, <3>4
  <2>2. ASSUME NEW j \in Tasks PROVE LockOf(j, t)'
    <3>1. LockOf(j, t)
      BY DEF IInv, LockInv
    <3>2. CASE j = k /\ label = "v_unlist"
      <4>1. tk'[j].lock = None /\ pc'[t] = "v_unlist"
        BY <1>4, <1>5, <1>7, <3>2
      <4> QED BY <4>1, Names DEF LockOf
    <3>3. CASE j = k /\ label = "v_block"
      <4>1. tk'[k].lock = t /\ tk'[k].num # 0 /\ pc'[t] = "v_block"
        BY <1>4, <1>5, <1>6, <1>7, <3>3
      <4> QED BY <1>1, <1>7, <1>8, <3>3, <4>1 DEF LockOf
    <3>4. CASE j # k
      <4>1. tk'[j].lock = tk[j].lock /\ tk[j].lock # t
        BY <1>1, <1>5, <3>1, <3>4 DEF LockOf
      <4> QED BY <1>7, <3>4, <4>1 DEF LockOf
    <3> QED BY <1>4, <3>2, <3>3, <3>4
  <2>3. \A w \in Threads : ListLockOf(w)'
    BY <1>1, <1>4, <1>7, <1>8 DEF IInv, LockInv, ListLockOf
  <2>4. \A w \in Threads : pc'[w] \in {"v_child", "v_block"} => ptr'[w] \in Tasks
    BY <1>7 DEF IInv, LockInv
  <2> QED BY <2>1, <2>2, <2>3, <2>4 DEF LockInv
<1>18. HeirInv'
  <2>1. ASSUME NEW q \in Tasks, NEW c \in Tasks, mem[q] = "alloc", tk[q].dtask = c
        PROVE  HeirOf(q, c)'
    <3>1. HeirOf(q, c) /\ Ended(c) /\ c # k
      BY <1>15, <2>1 DEF IInv, HeirInv, HeirOf
    <3>2. \A w \in Threads : of[w] = c => pc'[w] = pc[w] /\ ptr'[w] = ptr[w]
      BY <1>1, <1>7, <3>1
    <3> QED BY <1>5, <1>8, <1>15, <2>1, <3>1, <3>2 DEF HeirOf
  <2>2. \A q, c \in Tasks : HeirOf(q, c)'
    BY <1>5, <1>8, <2>1 DEF HeirOf
  <2>3. \A j \in Tasks : HasHeir(j)' <=> HasHeir(j)
    BY <1>5, <1>8 DEF HasHeir
  <2> QED BY <1>5, <1>8, <1>15, <2>2, <2>3 DEF IInv, HeirInv
<1>19. MiniInv'
  <2>1. \A j \in Tasks : Dead(j)' = Dead(j) /\ (InQueue(j)' <=> InQueue(j))
    BY <1>5, <1>8 DEF Dead, InQueue
  <2>2. \A w \in Threads : pc[w] \in {"v_block", "dead"} => pc'[w] = pc[w]
    BY <1>1, <1>7
  <2>3. ASSUME NEW j \in Tasks, mini[j] = "alloc"
        PROVE  (mem[j] = "alloc" /\ tk'[j].num # 0) \/ InEnding(j)' \/ InQueue(j)'
    <3>1. CASE j = k
      BY <1>1, <1>15, <3>1
    <3>2. CASE j # k
      BY <1>5, <1>15, <2>1, <2>3, <3>2 DEF IInv, MiniInv
    <3> QED BY <3>1, <3>2
  <2> QED BY <1>5, <1>8, <2>1, <2>2, <2>3 DEF IInv, MiniInv
<1>20. NumInv'
  <2>1. \A w \in Threads : Pending(w)' <=> Pending(w)
    BY <1>1, <1>4, <1>7 DEF Pending
  <2>2. \A j \in Tasks \ {k} : Members(j)' = Members(j)
    BY <1>1, <1>7, <1>8, <2>1 DEF Members
  <2>3. Members(k)' = Members(k) \ {t}
    <3>1. \A w \in Threads : w # t => (w \in Members(k)' <=> w \in Members(k))
      BY <1>7, <1>8, <2>1 DEF Members
    <3>2. t \notin Members(k)'
      BY <1>4, <1>7 DEF Members, Uncounted, Dying, Ending
    <3>3. Members(k) \subseteq Threads /\ Members(k)' \subseteq Threads
      BY DEF Members
    <3> QED BY <3>1, <3>2, <3>3
  <2>4. Cardinality(Members(k) \ {t}) = Cardinality(Members(k)) - 1
    <3>1. IsFiniteSet(Members(k)) /\ t \in Members(k)
      BY <1>1, MembersFinite
    <3> QED BY <3>1, FS_RemoveElement
  <2>5. tk[k].num = Cardinality(Members(k)) /\ tk[k].num <= Cardinality(Threads)
    BY <1>1 DEF IInv, NumInv
  <2>6. tk'[k].num = Cardinality(Members(k))' /\ tk'[k].num <= Cardinality(Threads)
    <3>1. Cardinality(Threads) \in Nat
      BY Names, FS_CardinalityType
    <3> QED BY <1>5, <1>6, <2>3, <2>4, <2>5, <3>1
  <2> QED BY <1>5, <1>8, <2>2, <2>6 DEF IInv, NumInv
<1>21. LiveInv'
  <2>1. \A j \in Tasks : Counted(j)' <=> Counted(j)
    <3>1. \A w \in Threads :
             \/ pc'[w] = pc[w] /\ ptr'[w] = ptr[w]
             \/ w = t /\ pc[w] = "v_thread" /\ pc'[w] \in {"v_unlist", "v_block"}
      BY <1>1, <1>7
    <3> QED BY <3>1 DEF Counted
  <2>2. \A j \in Tasks : Reported(j)' <=> Reported(j)
    <3>1. ~Reported(k) /\ ~Reported(k)'
      BY <1>1, <1>5, <1>6, <1>7 DEF Reported
    <3>2. \A j \in Tasks \ {k} : Reported(j)' <=> Reported(j)
      BY <1>1, <1>5, <1>7, <1>8 DEF Reported
    <3> QED BY <3>1, <3>2
  <2>3. \A j \in Tasks : Children(j)' = Children(j) /\ Expected(j)' = Expected(j)
    BY <1>5, <1>8, <2>1, <2>2 DEF Children, Expected
  <2> QED BY <1>5, <1>8, <2>3 DEF IInv, LiveInv
<1>22. WaitInv'
  <2>1. \A w \in Threads : pc[w] = "w_asleep" => pc'[w] = pc[w]
    BY <1>1, <1>7
  <2> QED BY <1>5, <1>8, <1>10, <2>1 DEF IInv, WaitInv
<1> QED
  BY <1>11, <1>12, <1>13, <1>14, <1>16, <1>17, <1>18, <1>19, <1>20, <1>21, <1>22 DEF IInv

-----------------------------------------------------------------------------
(* What task_final frees: a task whose threads are all dead, that has let  *)
(* go everything, and that nobody else will free.                          *)

LEMMA FinalFacts ==
    ASSUME IInv, NEW p \in Tasks, mem[p] = "alloc", NEW c \in Tasks, tk[p].dtask = c,
           \A u \in Threads : ~(pc[u] = "v_block" /\ ptr[u] = p)
    PROVE  /\ mem[c] = "alloc" /\ c # p /\ c # InitTask /\ c \notin listed
           /\ tk[c].num = 0 /\ tk[c].dead = <<>> /\ tk[c].dtask = None /\ tk[c].lock = None
           /\ tk[c].dthr \in Threads /\ of[tk[c].dthr] = c /\ tcb[tk[c].dthr] = "alloc"
           /\ \A u \in Threads : of[u] = c => pc[u] = "dead"
           /\ Reported(c)
           /\ \A q \in Tasks : mem[q] = "alloc" /\ tk[q].dtask = c => q = p
           /\ \A u \in Threads : pc[u] \in {"v_child", "v_block"} => ptr[u] # c
<1>1. HeirOf(p, c) /\ TaskOf(c) /\ mem[c] = "alloc"
  BY DEF IInv, HeirInv, HeirOf, TaskInv
<1>2. PICK x \in Threads :
         of[x] = c /\ tk[c].dthr = x /\ tk[c].num = 0 /\ pc[x] \in {"v_block", "dead"}
  BY <1>1 DEF HeirOf, Ended, AtStage
<1>3. pc[x] = "dead"
  BY <1>1, <1>2 DEF HeirOf
<1>4. \A u \in Threads : of[u] = c => pc[u] = "dead"
  BY <1>1, <1>2, <1>3, NobodyCounted
<1>5. Off(c) /\ Closed(c) /\ Bare(c) /\ Reported(c)
  BY <1>2 DEF Off, Closed, Bare, AtStage, Reported
<1>6. /\ tk[c].dead = <<>> /\ tk[c].dtask = None /\ tk[c].lock = None /\ c \notin listed
      /\ tcb[x] = "alloc"
  BY <1>1, <1>2, <1>5, Names DEF TaskOf
<1>7. \A u \in Threads : pc[u] \in {"v_child", "v_block"} => ptr[u] # c
  BY <1>6, Names DEF IInv, LockInv, LockOf
<1> QED BY <1>1, <1>2, <1>4, <1>5, <1>6, <1>7 DEF HeirOf, IInv, TaskInv

LEMMA FinalFrees ==
    ASSUME IInv, NEW p \in Tasks, mem[p] = "alloc", NEW c, tk[p].dtask = c,
           \A u \in Threads : ~(pc[u] = "v_block" /\ ptr[u] = p),
           mem' = FinalMem(tk[p].dtask), tcb' = FinalTcb(tk[p].dtask)
    PROVE  /\ mem' \in [Tasks -> Memory] /\ tcb' \in [Threads -> Memory]
           /\ c \in Tasks \cup {None}
           /\ c \in Tasks => mem'[c] = "freed"
           /\ \A j \in Tasks : j # c => mem'[j] = mem[j]
           /\ \A w \in Threads : \/ tcb'[w] = tcb[w]
                                 \/ c \in Tasks /\ of[w] = c /\ pc[w] = "dead"
                                    /\ tcb[w] = "alloc" /\ tcb'[w] = "freed"
<1>1. c \in Tasks \cup {None}
  BY FieldTypes DEF IInv
<1>2. CASE c = None
  BY <1>2, Names DEF FinalMem, FinalTcb, IInv, Types
<1>3. CASE c \in Tasks
  <2>1. PICK x \in Threads : tk[c].dthr = x /\ of[x] = c /\ tcb[x] = "alloc" /\ pc[x] = "dead"
    BY <1>3, FinalFacts
  <2>2. mem' = [mem EXCEPT ![c] = "freed"] /\ tcb' = [tcb EXCEPT ![x] = "freed"]
    BY <1>3, <2>1, Names DEF FinalMem, FinalTcb
  <2> QED BY <1>3, <2>1, <2>2 DEF IInv, Types, Memory
<1> QED BY <1>1, <1>2, <1>3

-----------------------------------------------------------------------------
(* A thread of task k frees the child k is left with and some of the mini  *)
(* PCBs in its queue: task_free and task_reap.                             *)

FreesOf(t, k, S, label) ==
    /\ of[t] = k /\ mem[k] = "alloc" /\ tk[k].lock = None
    /\ \/ pc[t] = "v_free" /\ label = "v_find" /\ tk'[k].dead = <<>>
       \/ pc[t] \in {"user", "w_lock"} /\ label = "user" /\ tk[k].dead # <<>>
    /\ Goto(t, label) /\ S \subseteq Dead(k)
    /\ mem' = FinalMem(tk[k].dtask) /\ tcb' = FinalTcb(tk[k].dtask)
    /\ mini' \in [Tasks -> Memory]
    /\ \A j \in Tasks : (j \in S => mini'[j] = "freed") /\ (j \notin S => mini'[j] = mini[j])
    /\ tk' \in [Tasks -> TaskRec] /\ \A j \in Tasks \ {k} : tk'[j] = tk[j]
    /\ tk'[k].parent = tk[k].parent /\ tk'[k].num = tk[k].num
    /\ tk'[k].live = tk[k].live /\ tk'[k].waiters = tk[k].waiters
    /\ tk'[k].dthr = tk[k].dthr /\ tk'[k].lock = tk[k].lock
    /\ tk'[k].dtask = None
    /\ ToSet(tk'[k].dead) = Dead(k) \ S /\ Distinct(tk'[k].dead)
    /\ UNCHANGED <<of, listed, listLock, thrlist, ptr>>

LEMMA FreeMoves ==
    ASSUME IInv, NEW t \in Threads, NEW k \in Tasks, NEW S, NEW label,
           FreesOf(t, k, S, label)
    PROVE  IInv'
<1> USE DEF FreesOf
<1> PICK c : tk[k].dtask = c
  OBVIOUS
<1>1. /\ pc'[t] = label /\ \A u \in Threads : u # t => pc'[u] = pc[u]
      /\ pc' \in [Threads -> PCs]
  BY DEF IInv, Types, Goto, PCs
<1>2. /\ of' = of /\ listed' = listed /\ listLock' = listLock
      /\ thrlist' = thrlist /\ ptr' = ptr
  OBVIOUS
<1>3. \A u \in Threads : pc[u] \in {"v_child", "v_block"} => ptr[u] # k
  BY Names DEF IInv, LockInv, LockOf
<1>4. c \in Tasks =>
         /\ mem[c] = "alloc" /\ c # k /\ c # InitTask /\ c \notin listed
         /\ tk[c].num = 0 /\ tk[c].dead = <<>> /\ tk[c].dtask = None
         /\ \A u \in Threads : of[u] = c => pc[u] = "dead"
         /\ Reported(c)
         /\ \A q \in Tasks : mem[q] = "alloc" /\ tk[q].dtask = c => q = k
         /\ \A u \in Threads : pc[u] \in {"v_child", "v_block"} => ptr[u] # c
  BY <1>3, FinalFacts
<1>5. /\ mem' \in [Tasks -> Memory] /\ tcb' \in [Threads -> Memory]
      /\ c \in Tasks \cup {None}
      /\ c \in Tasks => mem'[c] = "freed"
      /\ \A j \in Tasks : j # c => mem'[j] = mem[j]
      /\ \A w \in Threads : \/ tcb'[w] = tcb[w]
                            \/ c \in Tasks /\ of[w] = c /\ pc[w] = "dead"
                               /\ tcb[w] = "alloc" /\ tcb'[w] = "freed"
  BY <1>3, FinalFrees
<1>6. /\ \A j \in Tasks :
            /\ tk'[j].parent = tk[j].parent /\ tk'[j].num = tk[j].num
            /\ tk'[j].live = tk[j].live /\ tk'[j].waiters = tk[j].waiters
            /\ tk'[j].dthr = tk[j].dthr /\ tk'[j].lock = tk[j].lock
            /\ j # k => tk'[j].dead = tk[j].dead /\ tk'[j].dtask = tk[j].dtask
      /\ tk'[k].dtask = None
  OBVIOUS
<1>7. /\ \A j \in Tasks : mem'[j] = "alloc" => mem[j] = "alloc" /\ j # c
      /\ \A j \in Tasks : mem[j] = "alloc" /\ j # c => mem'[j] = "alloc"
      /\ \A j \in Tasks : mem'[j] = "unused" <=> mem[j] = "unused"
      /\ mem'[k] = "alloc"
  BY <1>4, <1>5
<1>8. \A j \in S :
         /\ j \in Tasks /\ mini[j] = "alloc" /\ j \notin listed /\ mem[j] # "unused"
         /\ \A u \in Threads : pc[u] \in Building => ptr[u] # j
         /\ \A u \in Threads : of[u] = j => pc[u] \in {"v_block", "dead"}
         /\ \A q \in Tasks : mem[q] = "alloc" /\ j \in Dead(q) => q = k
  <2>1. Dead(k) \subseteq Tasks
    BY DeadAreTasks DEF IInv, Dead
  <2> QED BY <2>1, QueuedIsOver DEF IInv, MiniInv
<1>9. \A j \in Tasks :
         /\ tk[j].dthr \in Threads \cup {None} /\ tk[j].dtask \in Tasks \cup {None}
         /\ tk[j].waiters \subseteq Threads /\ Dead(j) \subseteq Tasks
  BY FieldTypes, DeadAreTasks DEF IInv, Dead
<1>10. Types'
  BY <1>1, <1>2, <1>5 DEF IInv, Types
<1>11. ThreadInv'
  <2>1. ASSUME NEW u \in Threads PROVE ThreadOf(u)'
    <3>1. ThreadOf(u) /\ of[u] \in Tasks \cup {None}
      BY DEF IInv, ThreadInv, Types
    <3>2. \/ tcb'[u] = tcb[u] /\ (of[u] \in Tasks => of[u] # c \/ pc[u] = "dead")
          \/ pc[u] = "dead" /\ tcb'[u] = "freed"
      BY <1>4, <1>5
    <3>3. of[u] = c /\ of[u] \in Tasks /\ pc[u] = "dead" => u # t
      BY <1>4
    <3>4. CASE of[u] \in Tasks /\ of[u] = c
      <4>1. tk[c].dthr = u /\ tcb[u] = "alloc" => tcb'[u] = "freed"
        <5>1. c \in Tasks /\ tcb' = FinalTcb(c) /\ c # None
          BY <3>4, Names
        <5> QED BY <5>1 DEF FinalTcb, IInv, Types
      <4>2. pc[u] = "dead" /\ pc'[u] = "dead"
        BY <1>1, <1>4, <3>3, <3>4
      <4>3. tcb'[u] # "alloc" \/ mem'[c] = "alloc"
        BY <1>5, <3>1, <3>4, <4>1, <4>2 DEF ThreadOf
      <4>4. tcb'[u] # "unused" /\ tcb'[u] # "alloc"
        BY <1>5, <3>1, <3>4, <4>2, <4>3 DEF ThreadOf
      <4> QED BY <1>2, <3>1, <3>4, <4>2, <4>4 DEF ThreadOf, Gone, Dying, Ending
    <3>5. CASE of[u] \notin Tasks \/ of[u] # c
      <4>1. tcb'[u] = tcb[u] /\ (of[u] \in Tasks => mem'[of[u]] = mem[of[u]])
        BY <1>5, <3>5
      <4>2. of[u] \in Tasks => \/ mini'[of[u]] = mini[of[u]]
                               \/ pc[u] \in {"v_block", "dead"}
        BY <1>8
      <4>3. u = t \/ pc'[u] = pc[u]
        BY <1>1
      <4> QED BY <1>1, <1>2, <1>6, <3>1, <4>1, <4>2, <4>3, Names
          DEF ThreadOf, Gone, Dying, Ending
    <3> QED BY <3>4, <3>5
  <2> QED BY <2>1 DEF ThreadInv
<1>12. BuildInv'
  <2>1. ASSUME NEW u \in Threads, pc'[u] \in Building
        PROVE  pc'[u] = pc[u] /\ pc[u] \in Building /\ ptr[u] \in Tasks
               /\ ptr[u] # k /\ ptr[u] # c /\ ptr[u] \notin S
    <3>1. pc'[u] = pc[u] /\ pc[u] \in Building /\ ptr[u] \in Tasks
      BY <1>1, <2>1 DEF IInv, BuildInv, Building
    <3>2. ptr[u] # k
      BY <3>1, NotBuilt
    <3>3. ptr[u] # c
      BY <1>4, <3>1 DEF IInv, BuildInv, BuildOf
    <3> QED BY <1>8, <3>1, <3>2, <3>3
  <2>2. ASSUME NEW u \in Threads, pc'[u] \in Building, NEW j \in Tasks, ptr[u] = j
        PROVE  BuildOf(u, j)'
    <3>1. BuildOf(u, j) /\ j # k /\ j # c /\ mini'[j] = mini[j] /\ mem'[j] = mem[j]
          /\ pc'[u] = pc[u]
      BY <1>5, <2>1, <2>2 DEF IInv, BuildInv
    <3>2. /\ \A w \in Threads : pc'[w] \in Building => pc[w] \in Building
          /\ \A w \in Threads : pc[w] = "nascent" => pc'[w] = "nascent"
      BY <1>1, <2>1
    <3> QED BY <1>2, <1>6, <3>1, <3>2 DEF BuildOf
  <2> QED BY <1>2, <2>1, <2>2 DEF BuildInv
<1>13. ForkInv'
  BY <1>1, <1>2 DEF IInv, ForkInv
<1>14. \A j \in Tasks :
          /\ Off(j)' <=> Off(j)
          /\ Closed(j)' <=> Closed(j)
          /\ Bare(j)' => Bare(j) \/ (j = k /\ tk'[k].dead = <<>>)
          /\ Ended(j)' <=> Ended(j)
          /\ ForkUndone(j)' <=> ForkUndone(j)
          /\ InEnding(j)' <=> InEnding(j)
  BY <1>1, <1>2, <1>6
  DEF Off, Closed, Bare, Ended, AtStage, ForkUndone, InEnding, Ending
<1>15. TaskInv'
  <2>1. ASSUME NEW j \in Tasks, j # c PROVE TaskOf(j)'
    <3>1. TaskOf(j)
      BY DEF IInv, TaskInv
    <3>2. mem[j] = "unused" => mini'[j] = "unused"
      BY <1>8, <3>1 DEF TaskOf
    <3>3. j \in listed => mini'[j] = mini[j]
      BY <1>8
    <3>4. mem[j] = "alloc" /\ tk[j].dthr # None =>
             /\ tk[j].dthr \in Threads /\ of[tk[j].dthr] = j
             /\ tcb'[tk[j].dthr] = "alloc" /\ pc'[tk[j].dthr] \in Dying \cup {"dead"}
      BY <1>1, <1>5, <1>9, <2>1, <3>1 DEF TaskOf, Dying, Ending
    <3>5. mem[j] = "alloc" /\ Bare(j)' => tk'[j].dead = <<>> /\ tk'[j].dtask = None
      BY <1>6, <1>14, <3>1 DEF TaskOf
    <3> QED BY <1>2, <1>5, <1>6, <1>14, <2>1, <3>1, <3>2, <3>3, <3>4, <3>5 DEF TaskOf
  <2>2. ASSUME c \in Tasks PROVE TaskOf(c)'
    BY <1>2, <1>4, <1>5, <2>2 DEF TaskOf
  <2> QED BY <1>2, <2>1, <2>2 DEF IInv, TaskInv
<1>16. LockInv'
  <2>1. ASSUME NEW j \in Tasks, NEW u \in Threads PROVE LockOf(j, u)'
    <3>1. LockOf(j, u) /\ (of[u] \in Tasks \/ pc[u] = "unused")
      BY DEF IInv, LockInv, Types, ThreadInv, ThreadOf
    <3>2. pc'[u] \in {"v_child", "v_block"} <=> pc[u] \in {"v_child", "v_block"}
      BY <1>1
    <3>3. pc[u] \in {"v_child", "v_block"} => pc'[u] = pc[u]
      BY <1>1
    <3>4. pc[u] \in {"v_child", "v_block"} /\ ptr[u] = j => j # k /\ j # c
      BY <1>3, <1>4
    <3> QED BY <1>2, <1>5, <1>6, <3>1, <3>2, <3>3, <3>4 DEF LockOf
  <2>2. \A u \in Threads : ListLockOf(u)'
    BY <1>1, <1>2 DEF IInv, LockInv, ListLockOf
  <2>3. \A u \in Threads : pc'[u] \in {"v_child", "v_block"} => ptr'[u] \in Tasks
    BY <1>1, <1>2 DEF IInv, LockInv
  <2> QED BY <2>1, <2>2, <2>3 DEF LockInv
<1>17. HeirInv'
  <2>1. ASSUME NEW q \in Tasks, NEW d \in Tasks, mem'[q] = "alloc", tk'[q].dtask = d
        PROVE  HeirOf(q, d)'
    <3>1. mem[q] = "alloc" /\ tk[q].dtask = d /\ q # k /\ d # c
      BY <1>4, <1>6, <1>7, <2>1, Names
    <3>2. HeirOf(q, d)
      BY DEF IInv, HeirInv
    <3>3. \A w \in Threads : of[w] = d /\ pc'[w] = "v_block" => pc[w] = "v_block"
      BY <1>1
    <3>4. \A x \in Tasks : mem'[x] = "alloc" /\ tk'[x].dtask = d => x = q
      BY <1>6, <1>7, <3>1, <3>2, Names DEF HeirOf
    <3> QED BY <1>2, <1>7, <1>14, <3>1, <3>2, <3>3, <3>4 DEF HeirOf
  <2>2. \A q, d \in Tasks : HeirOf(q, d)'
    BY <2>1 DEF HeirOf
  <2>3. ASSUME NEW j \in Tasks, mem'[j] = "alloc", tk'[j].num = 0
        PROVE  InEnding(j)' \/ HasHeir(j)'
    <3>1. mem[j] = "alloc" /\ j # c /\ tk[j].num = 0
      BY <1>6, <1>7, <2>3
    <3>2. CASE InEnding(j)
      BY <1>14, <3>2
    <3>3. CASE HasHeir(j)
      <4>1. PICK q \in Tasks : mem[q] = "alloc" /\ tk[q].dtask = j
        BY <3>3 DEF HasHeir
      <4>2. q # c /\ q # k
        BY <1>4, <3>1, <4>1, Names
      <4> QED BY <1>6, <1>7, <4>1, <4>2 DEF HasHeir
    <3> QED BY <3>1, <3>2, <3>3 DEF IInv, HeirInv
  <2> QED BY <2>2, <2>3 DEF HeirInv
<1>18. MiniInv'
  <2>1. /\ Dead(k)' = Dead(k) \ S
        /\ \A j \in Tasks \ {k} : Dead(j)' = Dead(j)
    BY <1>6 DEF Dead
  <2>2. ASSUME NEW q \in Tasks, mem'[q] = "alloc" PROVE Distinct(tk'[q].dead)
    BY <1>6, <1>7, <2>2 DEF IInv, MiniInv
  <2>3. ASSUME NEW q \in Tasks, NEW d \in Tasks, mem'[q] = "alloc", d \in Dead(q)'
        PROVE  /\ mini'[d] = "alloc"
               /\ \A w \in Threads : of'[w] = d => pc'[w] \in {"v_block", "dead"}
               /\ \A x \in Tasks : mem'[x] = "alloc" /\ d \in Dead(x)' => x = q
    <3>1. mem[q] = "alloc" /\ d \in Dead(q)
      BY <1>7, <2>1, <2>3
    <3>2. /\ mini[d] = "alloc"
          /\ \A w \in Threads : of[w] = d => pc[w] \in {"v_block", "dead"}
          /\ \A x \in Tasks : mem[x] = "alloc" /\ d \in Dead(x) => x = q
      BY <3>1 DEF IInv, MiniInv
    <3>3. d \notin S
      <4>1. d \in S => q = k
        BY <1>8, <3>1
      <4> QED BY <2>1, <2>3, <4>1
    <3>4. \A w \in Threads : of[w] = d => pc'[w] = pc[w]
      BY <1>1, <3>2
    <3>5. \A x \in Tasks : mem'[x] = "alloc" /\ d \in Dead(x)' => x = q
      BY <1>7, <2>1, <3>2
    <3> QED BY <1>2, <3>2, <3>3, <3>4, <3>5
  <2>4. ASSUME NEW j \in Tasks, mini'[j] = "alloc"
        PROVE  (mem'[j] = "alloc" /\ tk'[j].num # 0) \/ InEnding(j)' \/ InQueue(j)'
    <3>1. mini[j] = "alloc" /\ j \notin S
      BY <2>4
    <3>2. CASE mem[j] = "alloc" /\ tk[j].num # 0
      BY <1>4, <1>6, <1>7, <3>2
    <3>3. CASE InEnding(j)
      BY <1>14, <3>3
    <3>4. CASE InQueue(j)
      <4>1. PICK q \in Tasks : mem[q] = "alloc" /\ j \in Dead(q)
        BY <3>4 DEF InQueue
      <4>2. q # c
        BY <1>4, <4>1 DEF Dead, ToSet
      <4>3. mem'[q] = "alloc" /\ j \in Dead(q)'
        BY <1>7, <2>1, <3>1, <4>1, <4>2
      <4> QED BY <4>3 DEF InQueue
    <3> QED BY <3>1, <3>2, <3>3, <3>4 DEF IInv, MiniInv
  <2> QED BY <2>2, <2>3, <2>4 DEF MiniInv
<1>19. NumInv'
  <2>1. \A u \in Threads : Pending(u)' <=> Pending(u)
    BY <1>1, <1>2 DEF Pending
  <2>2. \A j \in Tasks : Members(j)' = Members(j)
    BY <1>1, <1>2, <2>1 DEF Members, Uncounted, Dying, Ending
  <2> QED BY <1>6, <1>7, <2>2 DEF IInv, NumInv
<1>20. LiveInv'
  <2>1. \A j \in Tasks : (Counted(j)' <=> Counted(j)) /\ (Reported(j)' <=> Reported(j))
    BY <1>1, <1>2, <1>6 DEF Counted, Reported
  <2>2. \A j \in Tasks : Children(j)' = Children(j) /\ Expected(j)' = Expected(j)
    <3>1. ASSUME NEW j \in Tasks PROVE Children(j)' = Children(j)
      BY <1>6, <1>7, <2>1 DEF Children
    <3>2. ASSUME NEW j \in Tasks PROVE Expected(j)' = Expected(j)
      BY <1>4, <1>6, <1>7, <2>1 DEF Expected
    <3> QED BY <3>1, <3>2
  <2> QED BY <1>2, <1>6, <1>7, <2>2 DEF IInv, LiveInv
<1>21. WaitInv'
  <2>1. \A u \in Threads : pc[u] = "w_asleep" => pc'[u] = pc[u]
    BY <1>1
  <2>2. ASSUME NEW j \in Tasks, mem'[j] = "alloc", tk'[j].waiters # {}
        PROVE  tk'[j].dead = <<>> /\ tk'[j].live # 0
    <3>1. tk[j].dead = <<>> /\ tk[j].live # 0
      BY <1>6, <1>7, <2>2 DEF IInv, WaitInv
    <3> QED BY <1>6, <3>1
  <2> QED BY <1>2, <1>6, <1>9, <2>1, <2>2 DEF IInv, WaitInv
<1> QED
  BY <1>10, <1>11, <1>12, <1>13, <1>15, <1>16, <1>17, <1>18, <1>19, <1>20, <1>21 DEF IInv

LEMMA FreeingKeeps ==
    ASSUME IInv, NEW t \in Threads, TaskFree(t)
    PROVE  IInv'
<1>1. PICK k \in Tasks : of[t] = k /\ mem[k] = "alloc" /\ tk[k].lock = None
  <2>1. /\ pc[t] = "v_free" /\ of[t] \in Tasks /\ mem[of[t]] = "alloc"
        /\ tk[of[t]].dthr = t /\ tk[of[t]].num = 0
    BY LastThread DEF TaskFree, Ending
  <2>2. Closed(of[t])
    BY <2>1 DEF Closed, AtStage
  <2>3. TaskOf(of[t])
    BY <2>1 DEF IInv, TaskInv
  <2> QED BY <2>1, <2>2, <2>3 DEF TaskOf
<1>2. PICK S \in SUBSET Tasks : S = Dead(k)
  <2>1. Dead(k) \in SUBSET Tasks
    BY DeadAreTasks DEF IInv, Dead
  <2> QED BY <2>1
<1>3. /\ pc[t] = "v_free" /\ Goto(t, "v_find")
      /\ mini' = [j \in Tasks |-> IF j \in S THEN "freed" ELSE mini[j]]
      /\ mem' = FinalMem(tk[k].dtask) /\ tcb' = FinalTcb(tk[k].dtask)
      /\ tk' = [tk EXCEPT ![k].vm = FALSE, ![k].dead = <<>>, ![k].dtask = None]
      /\ UNCHANGED <<of, listed, listLock, thrlist, ptr>>
  BY <1>1, <1>2 DEF TaskFree, Dead
<1>4. /\ mini' \in [Tasks -> Memory]
      /\ \A j \in Tasks : (j \in S => mini'[j] = "freed") /\ (j \notin S => mini'[j] = mini[j])
  BY <1>3 DEF IInv, Types, Memory
<1>5. /\ tk' \in [Tasks -> TaskRec] /\ \A j \in Tasks \ {k} : tk'[j] = tk[j]
      /\ tk'[k].dead = <<>> /\ tk'[k].dtask = None
      /\ tk'[k].parent = tk[k].parent /\ tk'[k].num = tk[k].num
      /\ tk'[k].live = tk[k].live /\ tk'[k].waiters = tk[k].waiters
      /\ tk'[k].dthr = tk[k].dthr /\ tk'[k].lock = tk[k].lock
  BY <1>3, SetFree DEF IInv, Types
<1>6. ToSet(tk'[k].dead) = Dead(k) \ S /\ Distinct(tk'[k].dead)
  BY <1>2, <1>5 DEF ToSet, Distinct
<1>7. FreesOf(t, k, S, "v_find")
  BY <1>1, <1>2, <1>3, <1>4, <1>5, <1>6 DEF FreesOf
<1> QED BY <1>7, FreeMoves

LEMMA QueueTail ==
    ASSUME NEW q \in Seq(Tasks), q # <<>>, Distinct(q)
    PROVE  /\ Head(q) \in Tasks /\ Head(q) \in ToSet(q) /\ Tail(q) \in Seq(Tasks)
           /\ Distinct(Tail(q)) /\ ToSet(Tail(q)) = ToSet(q) \ {Head(q)}
<1>1. /\ Len(q) \in Nat /\ Len(q) # 0 /\ DOMAIN q = 1 .. Len(q)
      /\ Head(q) = q[1] /\ Tail(q) \in Seq(Tasks)
      /\ Len(Tail(q)) = Len(q) - 1 /\ DOMAIN Tail(q) = 1 .. Len(q) - 1
      /\ \A i \in 1 .. Len(q) - 1 : Tail(q)[i] = q[i + 1]
  OBVIOUS
<1>2. Distinct(Tail(q))
  <2>1. ASSUME NEW i \in 1 .. Len(q) - 1, NEW j \in 1 .. Len(q) - 1, Tail(q)[i] = Tail(q)[j]
        PROVE  i = j
    <3>1. q[i + 1] = q[j + 1] /\ i + 1 \in DOMAIN q /\ j + 1 \in DOMAIN q
      BY <1>1, <2>1
    <3>2. i + 1 = j + 1
      BY <3>1 DEF Distinct
    <3> QED BY <1>1, <3>2
  <2> QED BY <1>1, <2>1 DEF Distinct
<1>3. ASSUME NEW x PROVE x \in ToSet(Tail(q)) <=> x \in ToSet(q) /\ x # Head(q)
  <2>1. ASSUME NEW i \in 1 .. Len(q) - 1, Tail(q)[i] = x
        PROVE  x \in ToSet(q) /\ x # Head(q)
    <3>1. i + 1 \in DOMAIN q /\ 1 \in DOMAIN q /\ q[i + 1] = x /\ i + 1 # 1
      BY <1>1, <2>1
    <3> QED BY <1>1, <3>1 DEF ToSet, Distinct
  <2>2. ASSUME NEW i \in DOMAIN q, q[i] = x, x # Head(q)
        PROVE  \E j \in 1 .. Len(q) - 1 : Tail(q)[j] = x
    <3>1. i # 1 /\ i - 1 \in 1 .. Len(q) - 1
      BY <1>1, <2>2
    <3>2. Tail(q)[i - 1] = x
      BY <1>1, <2>2, <3>1
    <3> QED BY <3>1, <3>2
  <2> QED BY <1>1, <2>1, <2>2 DEF ToSet
<1>4. ToSet(Tail(q)) = ToSet(q) \ {Head(q)}
  BY <1>3
<1>5. Head(q) \in ToSet(q) /\ Head(q) \in Tasks
  BY <1>1 DEF ToSet
<1> QED BY <1>1, <1>2, <1>4, <1>5

LEMMA QueueAppend ==
    ASSUME NEW q \in Seq(Tasks), NEW k \in Tasks, k \notin ToSet(q), Distinct(q)
    PROVE  Distinct(Append(q, k)) /\ ToSet(Append(q, k)) = ToSet(q) \cup {k}
<1>1. /\ Len(q) \in Nat /\ DOMAIN q = 1 .. Len(q)
      /\ DOMAIN Append(q, k) = 1 .. Len(q) + 1
      /\ Append(q, k)[Len(q) + 1] = k
      /\ \A i \in 1 .. Len(q) : Append(q, k)[i] = q[i]
  OBVIOUS
<1>2. \A i \in 1 .. Len(q) : q[i] # k
  BY <1>1 DEF ToSet
<1>3. 1 .. Len(q) + 1 = (1 .. Len(q)) \cup {Len(q) + 1} /\ Len(q) + 1 \notin 1 .. Len(q)
  BY <1>1
<1>4. Distinct(Append(q, k))
  BY <1>1, <1>2, <1>3 DEF Distinct
<1>5. ToSet(Append(q, k)) = ToSet(q) \cup {k}
  BY <1>1, <1>3 DEF ToSet
<1> QED BY <1>4, <1>5

LEMMA ReapKeeps ==
    ASSUME IInv, NEW t \in Threads, Reap(t)
    PROVE  IInv'
<1>1. PICK k \in Tasks, h \in Tasks :
         /\ of[t] = k /\ mem[k] = "alloc" /\ tk[k].lock = None
         /\ tk[k].dead # <<>> /\ h = Head(tk[k].dead)
  <2>1. /\ pc[t] \in {"user", "w_lock"} /\ tk[of[t]].lock = None
        /\ tk[of[t]].dead # <<>>
    BY DEF Reap, AtReap, OwnLockFree
  <2>2. of[t] \in Tasks /\ mem[of[t]] = "alloc"
    BY <2>1, RunningCounts DEF Uncounted, Dying, Ending
  <2>3. Head(tk[of[t]].dead) \in Tasks
    <3>1. tk[of[t]].dead \in Seq(Tasks)
      BY <2>2, FieldTypes DEF IInv
    <3> QED BY <2>1, <3>1
  <2> QED BY <2>1, <2>2, <2>3
<1>2. /\ pc[t] \in {"user", "w_lock"} /\ Goto(t, "user")
      /\ mini' = [mini EXCEPT ![h] = "freed"]
      /\ mem' = FinalMem(tk[k].dtask) /\ tcb' = FinalTcb(tk[k].dtask)
      /\ tk' = [tk EXCEPT ![k].dead = Tail(@), ![k].dtask = None]
      /\ UNCHANGED <<of, listed, listLock, thrlist, ptr>>
  BY <1>1 DEF Reap, AtReap
<1>3. tk[k].dead \in Seq(Tasks) /\ Distinct(tk[k].dead)
  BY <1>1, FieldTypes DEF IInv, MiniInv
<1>4. PICK q \in Seq(Tasks) : q = tk[k].dead /\ q # <<>> /\ Distinct(q) /\ h = Head(q)
  BY <1>1, <1>3
<1>5. h \in Tasks /\ h \in Dead(k) /\ Distinct(Tail(q)) /\ ToSet(Tail(q)) = Dead(k) \ {h}
  BY <1>4, QueueTail DEF Dead
<1>6. /\ mini' \in [Tasks -> Memory]
      /\ \A j \in Tasks : /\ j \in {h} => mini'[j] = "freed"
                          /\ j \notin {h} => mini'[j] = mini[j]
  BY <1>2, <1>5 DEF IInv, Types, Memory
<1>7. /\ tk' \in [Tasks -> TaskRec] /\ \A j \in Tasks \ {k} : tk'[j] = tk[j]
      /\ tk'[k].dead = Tail(tk[k].dead) /\ tk'[k].dtask = None
      /\ tk'[k].parent = tk[k].parent /\ tk'[k].num = tk[k].num
      /\ tk'[k].live = tk[k].live /\ tk'[k].waiters = tk[k].waiters
      /\ tk'[k].dthr = tk[k].dthr /\ tk'[k].lock = tk[k].lock
  BY <1>1, <1>2, SetReap DEF IInv, Types
<1>8. ToSet(tk'[k].dead) = Dead(k) \ {h} /\ Distinct(tk'[k].dead) /\ {h} \subseteq Dead(k)
  BY <1>4, <1>5, <1>7
<1>9. FreesOf(t, k, {h}, "user")
  BY <1>1, <1>2, <1>6, <1>7, <1>8 DEF FreesOf
<1> QED BY <1>9, FreeMoves

-----------------------------------------------------------------------------
(* A task reports its death to the one that will reap it. *)

LEMMA ReportKeeps ==
    ASSUME IInv, NEW t \in Threads, DelChild(t)
    PROVE  IInv'
<1>1. PICK k \in Tasks, p \in Tasks :
         /\ of[t] = k /\ ptr[t] = p /\ mem[k] = "alloc" /\ k # InitTask
         /\ tk[k].dthr = t /\ tk[k].num = 0 /\ tcb[t] = "alloc" /\ mini[k] = "alloc"
  <2>1. pc[t] = "v_child" /\ ptr[t] \in Tasks
    BY DEF DelChild, IInv, LockInv
  <2>2. of[t] \in Tasks /\ mini[of[t]] = "alloc"
    BY <2>1, LastThread DEF IInv, ThreadInv, ThreadOf, Ending
  <2> QED BY <2>1, <2>2, LastThread DEF Ending
<1>2. /\ pc[t] = "v_child" /\ tk[p].lock = t /\ mem[p] = "alloc" /\ k # p
      /\ tk[k].parent # p => p = InitTask /\ tk[k].parent \notin listed
      /\ \A u \in Threads : pc[u] \in {"v_child", "v_block"} /\ ptr[u] = p => u = t
  <2>1. pc[t] = "v_child" /\ LockOf(p, t) /\ \A u \in Threads : LockOf(p, u)
    BY DEF DelChild, IInv, LockInv
  <2> QED BY <1>1, <2>1 DEF LockOf
<1>3. PICK c \in Tasks \cup {None}, own \in BOOLEAN, W \in SUBSET Threads :
         tk[p].dtask = c /\ own = (p = tk[k].parent) /\ W = tk[p].waiters
  <2>1. tk[p].dtask \in Tasks \cup {None} /\ tk[p].waiters \in SUBSET Threads
    BY FieldTypes DEF IInv
  <2>2. (p = tk[k].parent) \in BOOLEAN
    OBVIOUS
  <2> QED BY <2>1, <2>2
<1>4. /\ mem' = FinalMem(tk[p].dtask) /\ tcb' = FinalTcb(tk[p].dtask)
      /\ mini' = mini /\ of' = of /\ listed' = listed /\ listLock' = listLock
      /\ thrlist' = thrlist /\ ptr' = ptr
  BY <1>1 DEF DelChild
<1>5. /\ \A u \in Threads :
            \/ u = t /\ pc[u] = "v_child" /\ pc'[u] = "v_block"
            \/ u \in W /\ pc[u] = "w_asleep" /\ of[u] = p /\ pc'[u] = "w_lock"
            \/ u # t /\ u \notin W /\ pc'[u] = pc[u]
      /\ pc' \in [Threads -> PCs]
  <2>1. pc' = [u \in Threads |->
                 IF u = t THEN "v_block" ELSE IF u \in W THEN "w_lock" ELSE pc[u]]
    BY <1>1, <1>3 DEF DelChild
  <2>2. \A u \in W : pc[u] = "w_asleep" /\ of[u] = p
    BY <1>3 DEF IInv, WaitInv
  <2> QED BY <1>2, <2>1, <2>2 DEF IInv, Types, PCs
<1>6. \A u \in Threads : u # t /\ pc[u] = "v_block" => ptr[u] # p
  BY <1>2
<1>7. c \in Tasks =>
         /\ mem[c] = "alloc" /\ c # p /\ c # InitTask /\ c \notin listed
         /\ tk[c].num = 0 /\ tk[c].dead = <<>> /\ tk[c].dtask = None
         /\ \A u \in Threads : of[u] = c => pc[u] = "dead"
         /\ Reported(c)
         /\ \A q \in Tasks : mem[q] = "alloc" /\ tk[q].dtask = c => q = p
         /\ \A u \in Threads : pc[u] \in {"v_child", "v_block"} => ptr[u] # c
         /\ c # k
  BY <1>1, <1>2, <1>3, <1>6, FinalFacts
<1>8. /\ mem' \in [Tasks -> Memory] /\ tcb' \in [Threads -> Memory]
      /\ c \in Tasks => mem'[c] = "freed"
      /\ \A j \in Tasks : j # c => mem'[j] = mem[j]
      /\ \A w \in Threads : \/ tcb'[w] = tcb[w]
                            \/ c \in Tasks /\ of[w] = c /\ pc[w] = "dead"
                               /\ tcb[w] = "alloc" /\ tcb'[w] = "freed"
  BY <1>2, <1>3, <1>4, <1>6, FinalFrees
<1>9. /\ \A j \in Tasks : mem'[j] = "alloc" => mem[j] = "alloc" /\ j # c
      /\ \A j \in Tasks : mem[j] = "alloc" /\ j # c => mem'[j] = "alloc"
      /\ \A j \in Tasks : mem'[j] = "unused" <=> mem[j] = "unused"
      /\ mem'[k] = "alloc" /\ mem'[p] = "alloc"
  BY <1>1, <1>2, <1>7, <1>8
<1>10. /\ k \in Expected(tk[k].parent) /\ Counted(k) /\ ~Reported(k)
       /\ own => tk[p].live # 0 /\ k \in Expected(p)
  <2>1. Counted(k)
    <3>1. ASSUME NEW u \in Threads, pc[u] \in Building, ptr[u] = k PROVE FALSE
      BY <1>1, <3>1 DEF IInv, BuildInv, BuildOf
    <3> QED BY <3>1 DEF Counted, Building
  <2>2. ~Reported(k)
    BY <1>1, <1>2 DEF Reported
  <2>3. ASSUME own PROVE tk[p].live # 0 /\ k \in Expected(p)
    <3>1. k \in Expected(p) /\ Expected(p) \subseteq Tasks
      BY <1>1, <1>3, <2>1, <2>2, <2>3 DEF Expected
    <3>2. IsFiniteSet(Expected(p)) /\ Cardinality(Expected(p)) \in Nat
          /\ Cardinality(Expected(p)) # 0
      BY <3>1, Names, FS_Subset, FS_CardinalityType, FS_EmptySet
    <3>3. tk[p].live >= Cardinality(Expected(p)) /\ tk[p].live \in Nat
      BY <1>2, FieldTypes DEF IInv, LiveInv
    <3> QED BY <3>1, <3>2, <3>3
  <2> QED BY <1>1, <2>1, <2>2, <2>3 DEF Expected
<1>11. /\ tk' \in [Tasks -> TaskRec] /\ \A j \in Tasks \ {p} : tk'[j] = tk[j]
       /\ tk'[p].dtask = k /\ tk'[p].live = (IF own THEN tk[p].live - 1 ELSE tk[p].live)
       /\ tk'[p].dead = Append(tk[p].dead, k) /\ tk'[p].waiters = {}
       /\ tk'[p].parent = tk[p].parent /\ tk'[p].num = tk[p].num
       /\ tk'[p].dthr = tk[p].dthr /\ tk'[p].lock = tk[p].lock
  <2>1. tk' = [tk EXCEPT ![p].dtask = k, ![p].live = IF own THEN @ - 1 ELSE @,
                         ![p].dead = Append(@, k), ![p].waiters = {}]
    BY <1>1, <1>3 DEF DelChild
  <2> DEFINE n == IF own THEN tk[p].live - 1 ELSE tk[p].live
             d == Append(tk[p].dead, k)
  <2>2. tk \in [Tasks -> TaskRec] /\ (own => tk[p].live # 0)
    BY <1>10 DEF IInv, Types
  <2>3. tk[p] \in TaskRec
    BY <2>2
  <2>4. n \in Nat /\ d \in Seq(Tasks)
    BY <2>2, <2>3 DEF TaskRec
  <2>5. tk' = [tk EXCEPT ![p].dtask = k, ![p].live = n, ![p].dead = d, ![p].waiters = {}]
    BY <2>1, <2>2, <2>3 DEF TaskRec
  <2> HIDE DEF n, d
  <2>6. tk'[p] \in TaskRec
    BY <2>2, <2>3, <2>4, <2>5 DEF TaskRec
  <2>7. /\ tk'[p].dtask = k /\ tk'[p].live = n /\ tk'[p].dead = d /\ tk'[p].waiters = {}
        /\ tk'[p].parent = tk[p].parent /\ tk'[p].num = tk[p].num
        /\ tk'[p].dthr = tk[p].dthr /\ tk'[p].lock = tk[p].lock
    BY <2>2, <2>3, <2>5 DEF TaskRec
  <2>8. tk' \in [Tasks -> TaskRec] /\ \A j \in Tasks \ {p} : tk'[j] = tk[j]
    BY <2>2, <2>5, <2>6
  <2> QED BY <2>7, <2>8 DEF n, d
<1>12. \A j \in Tasks :
          /\ tk'[j].parent = tk[j].parent /\ tk'[j].num = tk[j].num
          /\ tk'[j].dthr = tk[j].dthr /\ tk'[j].lock = tk[j].lock
          /\ j # p => /\ tk'[j].dead = tk[j].dead /\ tk'[j].dtask = tk[j].dtask
                      /\ tk'[j].live = tk[j].live /\ tk'[j].waiters = tk[j].waiters
  BY <1>11
<1>13. \A j \in Tasks :
         /\ tk[j].dthr \in Threads \cup {None} /\ tk[j].dtask \in Tasks \cup {None}
         /\ tk[j].waiters \subseteq Threads /\ Dead(j) \subseteq Tasks
         /\ tk[j].dead \in Seq(Tasks) /\ tk[j].live \in Nat
  BY FieldTypes, DeadAreTasks DEF IInv, Dead
<1>14. \A u \in Threads : pc[u] \in {"v_block", "dead"} => pc'[u] = pc[u] /\ u # t
  BY <1>5
<1>15. \A q \in Tasks : mem[q] = "alloc" => k \notin Dead(q) /\ tk[q].dtask # k
  <2>1. ASSUME NEW q \in Tasks, mem[q] = "alloc" PROVE k \notin Dead(q)
    BY <1>1, <1>2, <2>1 DEF IInv, MiniInv
  <2>2. ASSUME NEW q \in Tasks, mem[q] = "alloc", tk[q].dtask = k PROVE FALSE
    <3>1. Ended(k)
      BY <2>2 DEF IInv, HeirInv, HeirOf
    <3> QED BY <1>1, <1>2, <3>1 DEF Ended, AtStage
  <2> QED BY <2>1, <2>2
<1>16. Types'
  BY <1>4, <1>5, <1>8, <1>11 DEF IInv, Types
<1>17. ThreadInv'
  <2>1. ASSUME NEW u \in Threads, of[u] = c, c \in Tasks PROVE ThreadOf(u)'
    <3>1. ThreadOf(u) /\ pc[u] = "dead" /\ pc'[u] = "dead" /\ mem[c] = "alloc"
      BY <1>7, <1>14, <2>1 DEF IInv, ThreadInv
    <3>2. tk[c].dthr = u => tcb'[u] = "freed"
      <4>1. tcb' = [tcb EXCEPT ![tk[c].dthr] = "freed"]
        BY <1>3, <1>4, <2>1, Names DEF FinalTcb
      <4> QED BY <4>1 DEF IInv, Types
    <3>3. tcb'[u] # "alloc" /\ tcb'[u] # "unused"
      BY <1>8, <2>1, <3>1, <3>2 DEF ThreadOf
    <3> QED BY <1>4, <2>1, <3>1, <3>3 DEF ThreadOf, Gone, Dying, Ending
  <2>2. ASSUME NEW u \in Threads, of[u] \notin Tasks \/ of[u] # c PROVE ThreadOf(u)'
    <3>1. ThreadOf(u) /\ of[u] \in Tasks \cup {None}
      BY DEF IInv, ThreadInv, Types
    <3>2. tcb'[u] = tcb[u] /\ (of[u] \in Tasks => mem'[of[u]] = mem[of[u]])
      BY <1>8, <2>2
    <3>3. CASE u = t
      BY <1>1, <1>4, <1>5, <1>9, <1>12, <3>1, <3>2, <3>3, Names
      DEF ThreadOf, Gone, Dying, Ending
    <3>4. CASE u # t
      BY <1>4, <1>5, <1>12, <3>1, <3>2, <3>4, Names DEF ThreadOf, Gone, Dying, Ending
    <3> QED BY <3>3, <3>4
  <2> QED BY <2>1, <2>2 DEF ThreadInv
<1>18. BuildInv'
  <2>1. ASSUME NEW u \in Threads, pc'[u] \in Building
        PROVE  /\ pc'[u] = pc[u] /\ pc[u] \in Building /\ ptr[u] \in Tasks
               /\ ptr[u] # p /\ ptr[u] # c
    <3>1. pc'[u] = pc[u] /\ pc[u] \in Building /\ ptr[u] \in Tasks
      BY <1>5, <2>1 DEF IInv, BuildInv, Building
    <3>2. ptr[u] # p
      <4>1. BuildOf(u, ptr[u])
        BY <3>1 DEF IInv, BuildInv
      <4> QED BY <1>1, <1>2, <4>1 DEF BuildOf
    <3>3. ptr[u] # c
      BY <1>7, <3>1 DEF IInv, BuildInv, BuildOf
    <3> QED BY <3>1, <3>2, <3>3
  <2>2. ASSUME NEW u \in Threads, pc'[u] \in Building, NEW j \in Tasks, ptr[u] = j
        PROVE  BuildOf(u, j)'
    <3>1. BuildOf(u, j) /\ j # p /\ mem'[j] = mem[j] /\ pc'[u] = pc[u]
      BY <1>8, <2>1, <2>2 DEF IInv, BuildInv
    <3>2. /\ \A w \in Threads : pc'[w] \in Building => pc[w] \in Building
          /\ \A w \in Threads : pc[w] = "nascent" => pc'[w] = "nascent"
      BY <1>5, <2>1
    <3> QED BY <1>4, <1>12, <3>1, <3>2 DEF BuildOf
  <2> QED BY <1>4, <2>1, <2>2 DEF BuildInv
<1>19. ForkInv'
  <2>1. /\ \A w \in Threads : pc'[w] \in {"t_count", "t_launch"} =>
              pc[w] \in {"t_count", "t_launch"}
        /\ \A w \in Threads : pc[w] = "nascent" => pc'[w] = "nascent"
    BY <1>5
  <2> QED BY <1>4, <2>1 DEF IInv, ForkInv
<1>20. \A j \in Tasks :
          /\ Off(j)' <=> Off(j)
          /\ Closed(j)' <=> Closed(j)
          /\ Bare(j)' <=> Bare(j)
          /\ j # k => (Ended(j)' <=> Ended(j))
          /\ ForkUndone(j)' <=> ForkUndone(j)
          /\ j # k => (InEnding(j)' <=> InEnding(j))
  BY <1>1, <1>4, <1>5, <1>12
  DEF Off, Closed, Bare, Ended, AtStage, ForkUndone, InEnding, Ending
<1>21. /\ pc'[t] = "v_block" /\ of'[t] = k /\ tk'[k].dthr = t /\ tk'[k].num = 0
       /\ Ended(k)' /\ Reported(k)'
  <2>1. pc'[t] = "v_block"
    <3>1. t \notin W
      BY <1>2, <1>3 DEF IInv, WaitInv
    <3> QED BY <1>2, <1>5, <3>1
  <2>2. of'[t] = k /\ tk'[k].dthr = t /\ tk'[k].num = 0
    BY <1>1, <1>4, <1>12
  <2> QED BY <2>1, <2>2 DEF Ended, AtStage, Reported
<1>22. TaskInv'
  <2>1. ASSUME NEW j \in Tasks, j # c PROVE TaskOf(j)'
    <3>1. TaskOf(j)
      BY DEF IInv, TaskInv
    <3>2. mem[j] = "alloc" /\ tk[j].dthr # None =>
             /\ tk[j].dthr \in Threads /\ of[tk[j].dthr] = j
             /\ tcb'[tk[j].dthr] = "alloc" /\ pc'[tk[j].dthr] \in Dying \cup {"dead"}
      BY <1>5, <1>8, <1>13, <2>1, <3>1 DEF TaskOf, Dying, Ending
    <3>3. j = p => ~Bare(j)
      <4>1. Closed(p) => tk[p].lock = None
        BY <1>2 DEF IInv, TaskInv, TaskOf
      <4>2. Bare(p) => Closed(p)
        BY DEF Bare, Closed, AtStage
      <4> QED BY <1>2, <4>1, <4>2, Names
    <3>4. mem[j] = "alloc" /\ Bare(j)' => tk'[j].dead = <<>> /\ tk'[j].dtask = None
      BY <1>12, <1>20, <3>1, <3>3 DEF TaskOf
    <3> QED BY <1>4, <1>8, <1>12, <1>20, <2>1, <3>1, <3>2, <3>4 DEF TaskOf
  <2>2. ASSUME c \in Tasks PROVE TaskOf(c)'
    BY <1>4, <1>7, <1>8, <2>2 DEF TaskOf
  <2> QED BY <1>3, <1>4, <2>1, <2>2 DEF IInv, TaskInv
<1>23. LockInv'
  <2>1. ASSUME NEW j \in Tasks, NEW u \in Threads, u # t PROVE LockOf(j, u)'
    <3>1. LockOf(j, u) /\ (of[u] \in Tasks \/ pc[u] = "unused")
      BY DEF IInv, LockInv, Types, ThreadInv, ThreadOf
    <3>2. /\ pc'[u] \in {"v_child", "v_block"} <=> pc[u] \in {"v_child", "v_block"}
          /\ pc[u] \in {"v_child", "v_block"} => pc'[u] = pc[u]
      BY <1>5, <2>1
    <3>3. pc[u] \in {"v_child", "v_block"} /\ ptr[u] = j => j # c /\ j # p
      BY <1>2, <1>7, <2>1
    <3> QED BY <1>4, <1>8, <1>12, <3>1, <3>2, <3>3 DEF LockOf
  <2>2. ASSUME NEW j \in Tasks PROVE LockOf(j, t)'
    <3>1. LockOf(j, t) /\ pc'[t] = "v_block"
      BY <1>2, <1>5 DEF IInv, LockInv
    <3>2. CASE j = p
      BY <1>1, <1>2, <1>4, <1>9, <1>11, <1>12, <3>1, <3>2 DEF LockOf
    <3>3. CASE j # p
      BY <1>1, <1>2, <1>4, <1>12, <3>1, <3>3 DEF LockOf
    <3> QED BY <3>2, <3>3
  <2>3. \A u \in Threads : ListLockOf(u)'
    BY <1>4, <1>5 DEF IInv, LockInv, ListLockOf
  <2>4. \A u \in Threads : pc'[u] \in {"v_child", "v_block"} => ptr'[u] \in Tasks
    BY <1>1, <1>4, <1>5 DEF IInv, LockInv
  <2> QED BY <2>1, <2>2, <2>3, <2>4 DEF LockInv
<1>24. HeirInv'
  <2>1. HeirOf(p, k)'
    <3>1. \A w \in Threads : of[w] = k /\ pc'[w] = "v_block" => w = t
      <4>1. ASSUME NEW w \in Threads, of[w] = k, pc'[w] = "v_block", w # t PROVE FALSE
        <5>1. pc[w] = "v_block"
          BY <1>5, <4>1
        <5> QED BY <1>1, <4>1, <5>1, NobodyCounted
      <4> QED BY <4>1
    <3>2. \A x \in Tasks : mem'[x] = "alloc" /\ tk'[x].dtask = k => x = p
      BY <1>9, <1>12, <1>15
    <3> QED BY <1>1, <1>2, <1>4, <1>9, <1>21, <3>1, <3>2 DEF HeirOf
  <2>2. ASSUME NEW q \in Tasks, NEW d \in Tasks, mem'[q] = "alloc", tk'[q].dtask = d, q # p
        PROVE  HeirOf(q, d)'
    <3>1. mem[q] = "alloc" /\ tk[q].dtask = d /\ d # c /\ d # k
      BY <1>3, <1>7, <1>9, <1>12, <1>15, <2>2
    <3>2. HeirOf(q, d)
      BY DEF IInv, HeirInv
    <3>3. \A w \in Threads : of[w] = d /\ pc'[w] = "v_block" => pc[w] = "v_block"
      BY <1>1, <1>5, <3>1
    <3>4. \A x \in Tasks : mem'[x] = "alloc" /\ tk'[x].dtask = d => x = q
      BY <1>9, <1>11, <1>12, <3>1, <3>2 DEF HeirOf
    <3> QED BY <1>4, <1>9, <1>20, <3>1, <3>2, <3>3, <3>4 DEF HeirOf
  <2>3. \A q, d \in Tasks : HeirOf(q, d)'
    BY <1>11, <2>1, <2>2 DEF HeirOf
  <2>4. ASSUME NEW j \in Tasks, mem'[j] = "alloc", tk'[j].num = 0
        PROVE  InEnding(j)' \/ HasHeir(j)'
    <3>1. mem[j] = "alloc" /\ j # c /\ tk[j].num = 0
      BY <1>9, <1>12, <2>4
    <3>2. CASE j = k
      BY <1>9, <1>11, <3>2 DEF HasHeir
    <3>3. CASE j # k /\ InEnding(j)
      BY <1>20, <3>3
    <3>4. CASE HasHeir(j)
      <4>1. PICK q \in Tasks : mem[q] = "alloc" /\ tk[q].dtask = j
        BY <3>4 DEF HasHeir
      <4>2. q # c /\ q # p
        BY <1>3, <1>7, <3>1, <4>1, Names
      <4> QED BY <1>9, <1>12, <4>1, <4>2 DEF HasHeir
    <3> QED BY <3>1, <3>2, <3>3, <3>4 DEF IInv, HeirInv
  <2> QED BY <2>3, <2>4 DEF HeirInv
<1>25. MiniInv'
  <2>1. Distinct(tk'[p].dead) /\ ToSet(tk'[p].dead) = Dead(p) \cup {k}
    <3>1. tk[p].dead \in Seq(Tasks) /\ k \notin ToSet(tk[p].dead) /\ Distinct(tk[p].dead)
      BY <1>2, <1>13, <1>15 DEF Dead, IInv, MiniInv
    <3> QED BY <1>11, <3>1, QueueAppend DEF Dead
  <2>2. /\ Dead(p)' = Dead(p) \cup {k}
        /\ \A j \in Tasks \ {p} : Dead(j)' = Dead(j)
    BY <1>12, <2>1 DEF Dead
  <2>3. ASSUME NEW q \in Tasks, mem'[q] = "alloc" PROVE Distinct(tk'[q].dead)
    BY <1>9, <1>12, <2>1, <2>3 DEF IInv, MiniInv
  <2>4. ASSUME NEW q \in Tasks, NEW d \in Tasks, mem'[q] = "alloc", d \in Dead(q)'
        PROVE  /\ mini[d] = "alloc"
               /\ \A w \in Threads : of[w] = d => pc'[w] \in {"v_block", "dead"}
               /\ \A x \in Tasks : mem'[x] = "alloc" /\ d \in Dead(x)' => x = q
    <3>1. CASE d = k
      <4>1. \A w \in Threads : of[w] = k => pc'[w] \in {"v_block", "dead"}
        <5>1. ASSUME NEW w \in Threads, of[w] = k, w # t PROVE pc[w] = "dead"
          BY <1>1, <5>1, NobodyCounted
        <5>2. ASSUME NEW w \in Threads, of[w] = k PROVE pc'[w] \in {"v_block", "dead"}
          BY <1>14, <1>21, <5>1, <5>2
        <5> QED BY <5>2
      <4>2. \A x \in Tasks : mem'[x] = "alloc" /\ k \in Dead(x)' => x = p
        BY <1>9, <1>15, <2>2
      <4> QED BY <1>1, <2>4, <3>1, <4>1, <4>2
    <3>2. CASE d # k
      <4>1. mem[q] = "alloc" /\ d \in Dead(q)
        BY <1>9, <2>2, <2>4, <3>2
      <4>2. /\ mini[d] = "alloc"
            /\ \A w \in Threads : of[w] = d => pc[w] \in {"v_block", "dead"}
            /\ \A x \in Tasks : mem[x] = "alloc" /\ d \in Dead(x) => x = q
        BY <4>1 DEF IInv, MiniInv
      <4> QED BY <1>9, <1>14, <2>2, <3>2, <4>2
    <3> QED BY <3>1, <3>2
  <2>5. ASSUME NEW j \in Tasks, mini[j] = "alloc"
        PROVE  (mem'[j] = "alloc" /\ tk'[j].num # 0) \/ InEnding(j)' \/ InQueue(j)'
    <3>1. CASE j = k
      BY <1>9, <2>2, <3>1 DEF InQueue
    <3>2. CASE mem[j] = "alloc" /\ tk[j].num # 0
      BY <1>7, <1>9, <1>12, <3>2
    <3>3. CASE j # k /\ InEnding(j)
      BY <1>20, <3>3
    <3>4. CASE InQueue(j)
      <4>1. PICK q \in Tasks : mem[q] = "alloc" /\ j \in Dead(q)
        BY <3>4 DEF InQueue
      <4>2. q # c
        BY <1>7, <4>1 DEF Dead, ToSet
      <4>3. mem'[q] = "alloc" /\ j \in Dead(q)'
        BY <1>9, <2>2, <4>1, <4>2
      <4> QED BY <4>3 DEF InQueue
    <3> QED BY <2>5, <3>1, <3>2, <3>3, <3>4 DEF IInv, MiniInv
  <2> QED BY <1>4, <2>3, <2>4, <2>5 DEF MiniInv
<1>26. NumInv'
  <2>1. \A u \in Threads : Pending(u)' <=> Pending(u)
    BY <1>4, <1>5 DEF Pending
  <2>2. \A j \in Tasks : Members(j)' = Members(j)
    BY <1>4, <1>5, <2>1 DEF Members, Uncounted, Dying, Ending
  <2> QED BY <1>9, <1>12, <2>2 DEF IInv, NumInv
<1>27. LiveInv'
  <2>1. \A j \in Tasks : (Counted(j)' <=> Counted(j)) /\ (j # k => (Reported(j)' <=> Reported(j)))
    BY <1>1, <1>4, <1>5, <1>12 DEF Counted, Reported
  <2>2. Reported(k)'
    BY <1>21
  <2>3. ASSUME NEW j \in Tasks PROVE Children(j)' = Children(j) /\ Expected(j)' = Expected(j) \ {k}
    <3>1. Children(j)' = Children(j)
      BY <1>9, <1>12, <2>1 DEF Children
    <3>2. \A d \in Tasks : d \in Expected(j)' <=> d \in Expected(j) /\ d # k
      BY <1>7, <1>9, <1>12, <2>1, <2>2 DEF Expected
    <3>3. Expected(j) \subseteq Tasks /\ Expected(j)' \subseteq Tasks
      BY DEF Expected
    <3> QED BY <3>1, <3>2, <3>3
  <2>4. ASSUME NEW j \in Tasks
        PROVE  /\ IsFiniteSet(Expected(j)) /\ Cardinality(Expected(j)) \in Nat
               /\ Cardinality(Children(j)) \in Nat
               /\ Cardinality(Expected(j) \ {k}) \in Nat
               /\ Cardinality(Expected(j) \ {k}) <= Cardinality(Expected(j))
               /\ k \in Expected(j) =>
                     Cardinality(Expected(j) \ {k}) = Cardinality(Expected(j)) - 1
               /\ k \notin Expected(j) => Expected(j) \ {k} = Expected(j)
    <3>1. Expected(j) \subseteq Tasks /\ Children(j) \subseteq Tasks
      BY DEF Expected, Children
    <3>2. IsFiniteSet(Expected(j)) /\ IsFiniteSet(Children(j))
      BY <3>1, Names, FS_Subset
    <3>3. k \in Expected(j) => Cardinality(Expected(j) \ {k}) = Cardinality(Expected(j)) - 1
      BY <3>2, FS_RemoveElement
    <3>4. Cardinality(Expected(j)) \in Nat /\ Cardinality(Children(j)) \in Nat
      BY <3>2, FS_CardinalityType
    <3>5. Expected(j) \ {k} \subseteq Expected(j)
      OBVIOUS
    <3>6. /\ IsFiniteSet(Expected(j) \ {k})
          /\ Cardinality(Expected(j) \ {k}) <= Cardinality(Expected(j))
      BY <3>2, <3>5, FS_Subset
    <3>7. Cardinality(Expected(j) \ {k}) \in Nat
      BY <3>6, FS_CardinalityType
    <3> QED BY <3>2, <3>3, <3>4, <3>6, <3>7
  <2>5. ASSUME NEW j \in Tasks, j # p PROVE
           /\ tk'[j].live <= Cardinality(Children(j)')
           /\ mem'[j] = "alloc" => tk'[j].live >= Cardinality(Expected(j)')
           /\ j \in listed => tk'[j].live = Cardinality(Expected(j)')
    <3>1. j \in listed => k \notin Expected(j)
      BY <1>2, <2>5 DEF Expected
    <3>2. /\ tk[j].live <= Cardinality(Children(j))
          /\ mem[j] = "alloc" => tk[j].live >= Cardinality(Expected(j))
          /\ j \in listed => tk[j].live = Cardinality(Expected(j))
      BY DEF IInv, LiveInv
    <3>3. /\ tk'[j].live = tk[j].live /\ tk[j].live \in Nat
          /\ Children(j)' = Children(j) /\ Expected(j)' = Expected(j) \ {k}
          /\ mem'[j] = "alloc" => mem[j] = "alloc"
      BY <1>9, <1>12, <1>13, <2>3, <2>5
    <3>4. /\ Cardinality(Expected(j)) \in Nat /\ Cardinality(Expected(j) \ {k}) \in Nat
          /\ Cardinality(Expected(j) \ {k}) <= Cardinality(Expected(j))
          /\ k \notin Expected(j) => Expected(j) \ {k} = Expected(j)
      BY <2>4
    <3>5. tk'[j].live <= Cardinality(Children(j)')
      BY <3>2, <3>3
    <3>6. mem'[j] = "alloc" => tk'[j].live >= Cardinality(Expected(j)')
      BY <3>2, <3>3, <3>4
    <3>7. j \in listed => tk'[j].live = Cardinality(Expected(j)')
      BY <3>1, <3>2, <3>3, <3>4
    <3> QED BY <3>5, <3>6, <3>7
  <2>6. /\ tk'[p].live <= Cardinality(Children(p)')
        /\ mem'[p] = "alloc" => tk'[p].live >= Cardinality(Expected(p)')
        /\ p \in listed => tk'[p].live = Cardinality(Expected(p)')
    <3>1. /\ tk[p].live <= Cardinality(Children(p))
          /\ mem[p] = "alloc" => tk[p].live >= Cardinality(Expected(p))
          /\ p \in listed => tk[p].live = Cardinality(Expected(p))
      BY DEF IInv, LiveInv
    <3>2. CASE own
      <4>1. k \in Expected(p) /\ tk'[p].live = tk[p].live - 1
        BY <1>10, <1>11, <3>2
      <4> QED BY <1>2, <1>13, <2>3, <2>4, <3>1, <4>1
    <3>3. CASE ~own
      <4>1. k \notin Expected(p) /\ tk'[p].live = tk[p].live
        BY <1>3, <1>11, <3>3 DEF Expected
      <4> QED BY <1>2, <1>13, <2>3, <2>4, <3>1, <4>1
    <3> QED BY <3>2, <3>3
  <2>7. \A j \in Tasks : /\ Cardinality(Children(j)') = Cardinality(Children(j))'
                         /\ Cardinality(Expected(j)') = Cardinality(Expected(j))'
    OBVIOUS
  <2> QED BY <1>4, <2>5, <2>6, <2>7 DEF LiveInv
<1>28. WaitInv'
  <2>1. ASSUME NEW j \in Tasks, NEW w \in tk'[j].waiters
        PROVE  pc'[w] = "w_asleep" /\ of[w] = j
    <3>1. j # p /\ w \in tk[j].waiters /\ w \in Threads
      BY <1>11, <1>12, <1>13, <2>1
    <3>2. pc[w] = "w_asleep" /\ of[w] = j
      BY <3>1 DEF IInv, WaitInv
    <3> QED BY <1>5, <3>1, <3>2
  <2>2. ASSUME NEW j \in Tasks, mem'[j] = "alloc", tk'[j].waiters # {}
        PROVE  tk'[j].dead = <<>> /\ tk'[j].live # 0
    <3>1. j # p
      BY <1>11, <2>2
    <3> QED BY <1>9, <1>12, <2>2, <3>1 DEF IInv, WaitInv
  <2> QED BY <1>4, <2>1, <2>2 DEF WaitInv
<1> QED
  BY <1>16, <1>17, <1>18, <1>19, <1>22, <1>23, <1>24, <1>25, <1>26, <1>27, <1>28 DEF IInv

-----------------------------------------------------------------------------
(* The invariant holds at the start and is kept by every step. *)

LEMMA InitIInv == Init => IInv
<1> SUFFICES ASSUME Init PROVE IInv
  OBVIOUS
<1>1. /\ \A k \in Tasks : /\ mem[k] = "alloc" <=> k = InitTask
                          /\ mem[k] = "unused" <=> k # InitTask
      /\ mini = mem
  BY DEF Init
<1>2. \A k \in Tasks :
         /\ tk[k].parent = None /\ tk[k].num = 1 /\ tk[k].live = 0 /\ tk[k].dead = <<>>
         /\ tk[k].waiters = {} /\ tk[k].dtask = None /\ tk[k].dthr = None
         /\ tk[k].lock = None
  BY DEF Init, NewTask
<1>3. /\ \A t \in Threads :
            \/ t = InitThread /\ tcb[t] = "alloc" /\ of[t] = InitTask /\ pc[t] = "user"
            \/ t # InitThread /\ tcb[t] = "unused" /\ of[t] = None /\ pc[t] = "unused"
      /\ listed = {InitTask} /\ listLock = None
  BY DEF Init
<1>4. Types
  <2>1. NewTask(None) \in TaskRec
    BY DEF NewTask, TaskRec
  <2> QED BY <2>1, Names DEF Init, Types, Memory, PCs
<1>5. ThreadInv
  BY <1>1, <1>3, Names DEF ThreadInv, ThreadOf, Gone, Dying, Ending
<1>6. BuildInv /\ ForkInv
  BY <1>3 DEF BuildInv, Building, ForkInv
<1>7. TaskInv
  <2>1. \A k \in Tasks : ~Off(k) /\ ~Closed(k) /\ ~Bare(k)
    BY <1>2 DEF Off, Closed, Bare, AtStage
  <2>2. \A k \in Tasks, t \in Threads : k # InitTask => of[t] # k
    BY <1>3, Names
  <2>3. \A k \in Tasks : tk[k].parent \notin Tasks
    BY <1>2, Names
  <2> QED BY <1>1, <1>2, <1>3, <2>1, <2>2, <2>3 DEF TaskInv, TaskOf
<1>8. LockInv
  BY <1>2, <1>3, Names DEF LockInv, LockOf, ListLockOf
<1>9. HeirInv
  BY <1>2, Names DEF HeirInv, HeirOf
<1>10. MiniInv
  <2>1. \A k \in Tasks : Dead(k) = {} /\ Distinct(tk[k].dead)
    BY <1>2 DEF Dead, ToSet, Distinct
  <2> QED BY <1>1, <1>2, <2>1 DEF MiniInv
<1>11. NumInv
  <2>1. Members(InitTask) = {InitThread}
    <3>1. \A u \in Threads : ~Pending(u)
      BY <1>3 DEF Pending
    <3> QED BY <1>3, <3>1, Names DEF Members, Uncounted, Dying, Ending
  <2>2. Cardinality(Members(InitTask)) = 1
    BY <2>1, FS_Singleton
  <2>3. 1 <= Cardinality(Threads)
    BY <2>2, MembersFinite
  <2> QED BY <1>1, <1>2, <2>2, <2>3 DEF NumInv
<1>12. LiveInv
  <2>1. \A k \in Tasks : Children(k) = {} /\ Expected(k) = {}
    BY <1>2, Names DEF Children, Expected
  <2>2. Cardinality({}) = 0
    BY FS_EmptySet
  <2>3. \A k \in Tasks : Cardinality(Children(k)) = 0 /\ Cardinality(Expected(k)) = 0
    BY <2>1, <2>2
  <2> QED BY <1>2, <2>3 DEF LiveInv
<1>13. WaitInv
  BY <1>2 DEF WaitInv
<1> QED
  BY <1>4, <1>5, <1>6, <1>7, <1>8, <1>9, <1>10, <1>11, <1>12, <1>13 DEF IInv

LEMMA StutterKeeps ==
    ASSUME IInv, UNCHANGED vars
    PROVE  IInv'
<1>1. /\ mem' = mem /\ mini' = mini /\ tcb' = tcb /\ tk' = tk /\ of' = of
      /\ listed' = listed /\ listLock' = listLock /\ thrlist' = thrlist
      /\ pc' = pc /\ ptr' = ptr
  BY DEF vars, memVars
<1>2. \A k \in Tasks :
         /\ Off(k)' <=> Off(k)
         /\ Closed(k)' <=> Closed(k)
         /\ Bare(k)' <=> Bare(k)
         /\ Ended(k)' <=> Ended(k)
         /\ ForkUndone(k)' <=> ForkUndone(k)
  BY <1>1 DEF Off, Closed, Bare, Ended, AtStage, ForkUndone
<1>3. Types' /\ ThreadInv'
  BY <1>1 DEF IInv, Types, ThreadInv, ThreadOf
<1>4. BuildInv' /\ ForkInv'
  BY <1>1 DEF IInv, BuildInv, BuildOf, ForkInv
<1>5. TaskInv' /\ LockInv'
  BY <1>1, <1>2 DEF IInv, TaskInv, TaskOf, LockInv, LockOf, ListLockOf
<1>6. HeirInv'
  BY <1>1, <1>2 DEF IInv, HeirInv, HeirOf, InEnding, HasHeir
<1>7. MiniInv' /\ WaitInv'
  BY <1>1 DEF IInv, MiniInv, WaitInv, Dead, InQueue, InEnding
<1>8. NumInv' /\ LiveInv'
  <2>1. \A k \in Tasks : Members(k)' = Members(k)
    BY <1>1 DEF Members, Pending
  <2>2. \A k \in Tasks : Children(k)' = Children(k) /\ Expected(k)' = Expected(k)
    BY <1>1 DEF Children, Expected, Counted, Reported
  <2> QED BY <1>1, <2>1, <2>2 DEF IInv, NumInv, LiveInv
<1> QED BY <1>3, <1>4, <1>5, <1>6, <1>7, <1>8 DEF IInv

LEMMA StepKeeps == IInv /\ [Next]_vars => IInv'
<1> SUFFICES ASSUME IInv, [Next]_vars PROVE IInv'
  OBVIOUS
<1>1. CASE UNCHANGED vars
  BY <1>1, StutterKeeps
<1>2. CASE Next
  <2>1. PICK t \in Threads : UserStep(t) \/ InKernel(t)
    BY <1>2 DEF Next
  <2>2. CASE UserStep(t)
    BY <2>2, PlainSteps, ThreadInitKeeps DEF UserStep
  <2>3. CASE ForkStep(t)
    BY <2>3, TaskInitKeeps, TaskInitFailsKeeps, BuildSteps, AddChildKeeps, LaunchKeeps
    DEF ForkStep
  <2>4. CASE ThreadForkStep(t)
    BY <2>4, AddThreadKeeps, ThreadLaunchKeeps DEF ThreadForkStep
  <2>5. CASE VanishStep(t)
    BY <2>5, DelThreadKeeps, EndingSteps, FreeingKeeps, LockParentKeeps, ReportKeeps,
       UnlockKeeps DEF VanishStep
  <2>6. CASE ExecLoad(t) \/ WaitStep(t)
    BY <2>6, PlainSteps, ReapKeeps DEF WaitStep
  <2> QED BY <2>1, <2>2, <2>3, <2>4, <2>5, <2>6 DEF InKernel
<1> QED BY <1>1, <1>2

LEMMA Inductive == Spec => []IInv
  BY InitIInv, StepKeeps, PTL DEF Spec

-----------------------------------------------------------------------------
(* What the invariant says *)

LEMMA IInvTypes == IInv => TypeOK
<1> SUFFICES ASSUME IInv PROVE TypeOK
  OBVIOUS
<1>1. ASSUME NEW k \in Tasks
      PROVE  /\ tk[k] \in TaskRec
             /\ tk[k].num \in 0 .. Cardinality(Threads)
             /\ tk[k].live \in 0 .. Cardinality(Tasks)
  <2>1. tk[k] \in TaskRec /\ tk[k].num \in Nat /\ tk[k].live \in Nat
    BY FieldTypes DEF IInv, Types
  <2>2. /\ tk[k].num <= Cardinality(Threads) /\ tk[k].live <= Cardinality(Children(k))
    BY DEF IInv, NumInv, LiveInv
  <2>3. Children(k) \subseteq Tasks
    BY DEF Children
  <2>4. /\ Cardinality(Children(k)) \in Nat /\ Cardinality(Tasks) \in Nat
        /\ Cardinality(Children(k)) <= Cardinality(Tasks) /\ Cardinality(Threads) \in Nat
    BY <2>3, Names, FS_Subset, FS_CardinalityType
  <2> QED BY <2>1, <2>2, <2>4
<1>2. ASSUME NEW k \in Tasks
      PROVE  /\ tk[k].parent \in Tasks \cup {None} /\ tk[k].dead \in Seq(Tasks)
             /\ tk[k].waiters \subseteq Threads /\ tk[k].dtask \in Tasks \cup {None}
             /\ tk[k].dthr \in Threads \cup {None} /\ tk[k].lock \in Threads \cup {None}
             /\ tk[k].vm \in BOOLEAN
  BY <1>1 DEF TaskRec
<1> QED BY <1>1, <1>2 DEF TypeOK, IInv, Types

LEMMA IInvCounts == IInv => CountsExact
<1> SUFFICES ASSUME IInv, NEW k \in listed
             PROVE  /\ tk[k].live = Cardinality(Expected(k))
                    /\ tk[k].num =
                         Cardinality({t \in Threads :
                            /\ of[t] = k /\ pc[t] \notin {"dead", "v_unlist", "v_drain", "v_block"}
                            /\ ~Pending(t)})
  BY DEF CountsExact, Expected, Pending
<1>1. k \in Tasks /\ mem[k] = "alloc" /\ ~Off(k)
  BY DEF IInv, Types, TaskInv, TaskOf
<1>2. ASSUME NEW t \in Threads, of[t] = k
      PROVE  pc[t] \in Uncounted => pc[t] \in {"dead", "v_unlist", "v_drain", "v_block"}
  <2>1. pc[t] # "unused"
    BY <1>1, <1>2, Names DEF IInv, ThreadInv, ThreadOf
  <2>2. pc[t] \notin {"v_free", "v_find", "v_parent", "v_child"}
    <3>1. ASSUME pc[t] \in {"v_free", "v_find", "v_parent", "v_child"} PROVE FALSE
      <4>1. tk[k].dthr = t /\ tk[k].num = 0
        BY <1>2, <3>1, LastThread DEF Ending
      <4> QED BY <1>1, <1>2, <3>1, <4>1 DEF Off, AtStage
    <3> QED BY <3>1
  <2> QED BY <2>1, <2>2 DEF Uncounted, Dying, Ending
<1>3. Members(k) = {t \in Threads :
                      /\ of[t] = k /\ pc[t] \notin {"dead", "v_unlist", "v_drain", "v_block"}
                      /\ ~Pending(t)}
  BY <1>2 DEF Members, Uncounted, Dying, Ending
<1> QED BY <1>1, <1>3 DEF IInv, NumInv, LiveInv

LEMMA IInvTeardown == IInv => TeardownAsserts
<1> SUFFICES ASSUME IInv PROVE TeardownAsserts
  OBVIOUS
<1>1. ASSUME NEW t \in Threads, pc[t] = "v_free"
      PROVE  /\ tk[of[t]].lock = None
             /\ \A u \in Threads \ {t} : of[u] = of[t] => pc[u] = "dead"
  <2>1. PICK k \in Tasks : of[t] = k /\ mem[k] = "alloc" /\ tk[k].dthr = t /\ tk[k].num = 0
    BY <1>1, LastThread DEF Ending
  <2>2. Closed(k)
    BY <1>1, <2>1 DEF Closed, AtStage
  <2> QED BY <2>1, <2>2, NobodyCounted DEF IInv, TaskInv, TaskOf
<1>2. ASSUME NEW t \in Threads, Frees(t), Freed(t) # None
      PROVE  tk[Freed(t)].dtask = None /\ tk[Freed(t)].dthr # None
  <2>1. PICK p \in Tasks :
           /\ Freed(t) = tk[p].dtask /\ mem[p] = "alloc"
           /\ \A u \in Threads : ~(pc[u] = "v_block" /\ ptr[u] = p)
    <3>1. CASE pc[t] = "v_free"
      <4>1. PICK k \in Tasks : of[t] = k /\ mem[k] = "alloc"
        BY <3>1, LastThread DEF Ending
      <4>2. tk[k].lock = None
        BY <1>1, <3>1, <4>1
      <4>3. \A u \in Threads : ~(pc[u] = "v_block" /\ ptr[u] = k)
        BY <4>2, Names DEF IInv, LockInv, LockOf
      <4> QED BY <3>1, <4>1, <4>3 DEF Freed
    <3>2. CASE pc[t] = "v_child"
      <4>1. PICK p \in Tasks : ptr[t] = p
        BY <3>2 DEF IInv, LockInv
      <4>2. mem[p] = "alloc" /\ \A u \in Threads : ~(pc[u] = "v_block" /\ ptr[u] = p)
        BY <3>2, <4>1 DEF IInv, LockInv, LockOf
      <4> QED BY <3>2, <4>1, <4>2 DEF Freed
    <3> QED BY <1>2, <3>1, <3>2 DEF Frees
  <2>2. PICK c \in Tasks : Freed(t) = c
    BY <1>2, <2>1, FieldTypes DEF IInv
  <2>3. tk[p].dtask = c /\ mem[p] = "alloc" /\ \A u \in Threads : ~(pc[u] = "v_block" /\ ptr[u] = p)
    BY <2>1, <2>2
  <2>4. tk[c].dtask = None /\ tk[c].dthr \in Threads
    BY <2>3, FinalFacts
  <2> QED BY <2>2, <2>4, Names
<1> QED BY <1>1, <1>2 DEF TeardownAsserts

LEMMA IInvFreed == IInv => NoUseAfterFree
<1> SUFFICES ASSUME IInv PROVE NoUseAfterFree
  OBVIOUS
<1>1. \A t \in Threads : Running(t) => tcb[t] = "alloc" /\ Live(of[t])
  BY DEF IInv, ThreadInv, ThreadOf, Running, Live
<1>2. \A k \in listed : Live(k) /\ (mini[k] = "alloc" \/ ForkUndone(k))
  BY DEF IInv, Types, TaskInv, TaskOf, Live
<1>3. \A t \in thrlist : of[t] # None => tcb[t] = "alloc"
  BY DEF IInv, Types, ThreadInv, ThreadOf, Gone
<1>4. ASSUME NEW k \in Tasks, Live(k)
      PROVE  /\ tk[k].dtask # None => Live(tk[k].dtask)
             /\ tk[k].dthr # None => tcb[tk[k].dthr] = "alloc"
             /\ \A i \in DOMAIN tk[k].dead : mini[tk[k].dead[i]] = "alloc"
             /\ \A w \in tk[k].waiters : pc[w] = "w_asleep"
  <2>1. /\ tk[k].dtask \in Tasks \cup {None} /\ tk[k].dead \in Seq(Tasks)
    BY FieldTypes DEF IInv
  <2>2. tk[k].dtask # None => Live(tk[k].dtask)
    BY <1>4, <2>1 DEF IInv, HeirInv, HeirOf, Live
  <2>3. tk[k].dthr # None => tcb[tk[k].dthr] = "alloc"
    BY <1>4 DEF IInv, TaskInv, TaskOf, Live
  <2>4. ASSUME NEW i \in DOMAIN tk[k].dead PROVE mini[tk[k].dead[i]] = "alloc"
    <3>1. tk[k].dead[i] \in Tasks /\ tk[k].dead[i] \in Dead(k)
      BY <2>1 DEF Dead, ToSet
    <3> QED BY <1>4, <3>1 DEF IInv, MiniInv, Live
  <2> QED BY <2>2, <2>3, <2>4 DEF IInv, WaitInv
<1>5. \A t \in Threads : pc[t] \in {"v_child", "v_block"} => Live(ptr[t])
  BY DEF IInv, LockInv, LockOf, Live
<1> QED BY <1>1, <1>2, <1>3, <1>4, <1>5 DEF NoUseAfterFree

LEMMA IInvLeaks == IInv => NothingLeaks
<1> SUFFICES ASSUME IInv PROVE NothingLeaks
  OBVIOUS
<1>1. ASSUME NEW t \in Threads, pc[t] = "dead", tcb[t] = "alloc"
      PROVE  tk[of[t]].dthr = t /\ Live(of[t])
  BY <1>1 DEF IInv, ThreadInv, ThreadOf, Live
<1>2. ASSUME NEW k \in Tasks, \A t \in Threads : of[t] = k => pc[t] = "dead"
      PROVE  ~InEnding(k) /\ ~(mem[k] = "alloc" /\ tk[k].num # 0)
  BY <1>2, OneThread DEF InEnding, Ending, Uncounted
<1>3. ASSUME NEW k \in Tasks, Live(k), \A t \in Threads : of[t] = k => pc[t] = "dead"
      PROVE  \E p \in Tasks : Live(p) /\ tk[p].dtask = k
  BY <1>2, <1>3 DEF IInv, HeirInv, HasHeir, Live
<1>4. ASSUME NEW k \in Tasks, mini[k] = "alloc",
             \A t \in Threads : of[t] = k => pc[t] = "dead"
      PROVE  Cardinality({p \in Tasks : Live(p) /\ k \in ToSet(tk[p].dead)}) = 1
  <2>1. InQueue(k)
    BY <1>2, <1>4 DEF IInv, MiniInv
  <2>2. PICK p \in Tasks : mem[p] = "alloc" /\ k \in Dead(p)
    BY <2>1 DEF InQueue
  <2>3. \A q \in Tasks : mem[q] = "alloc" /\ k \in Dead(q) => q = p
    BY <2>2 DEF IInv, MiniInv
  <2>4. {q \in Tasks : Live(q) /\ k \in ToSet(tk[q].dead)} = {p}
    BY <2>2, <2>3 DEF Live, Dead
  <2> QED BY <2>4, FS_Singleton
<1> QED BY <1>1, <1>3, <1>4 DEF NothingLeaks

(* Who has a task's lock waits for nothing, who has the list lock for a     *)
(* task's lock at most.                                                     *)
LEMMA IInvLocks == IInv => NoLockCycle
<1> SUFFICES ASSUME IInv PROVE NoLockCycle
  OBVIOUS
<1>1. ASSUME NEW k \in Tasks, NEW u \in Threads, tk[k].lock = u
      PROVE  pc[u] \in {"v_child", "v_block"} /\ Blocks(u) = None
  <2>1. pc[u] \in {"v_child", "v_block"}
    BY <1>1 DEF IInv, LockInv, LockOf
  <2> QED BY <2>1 DEF Blocks
<1>2. ASSUME NEW u \in Threads, listLock = u PROVE pc[u] \in {"v_drain", "v_parent"}
  BY <1>2 DEF IInv, LockInv, ListLockOf
<1>3. ASSUME NEW t \in Threads, Blocks(t) \in Threads
      PROVE  \/ \E k \in Tasks : Blocks(t) = tk[k].lock
             \/ Blocks(t) = listLock /\ pc[t] \notin {"v_drain", "v_parent"}
  <2>1. pc[t] # "unused" => of[t] \in Tasks
    BY DEF IInv, Types, ThreadInv, ThreadOf
  <2>2. CASE pc[t] \in {"f_list", "f_undo", "v_unlist", "v_find"}
    BY <2>2 DEF Blocks
  <2>3. CASE pc[t] \in {"f_child", "t_count", "v_thread", "v_drain", "w_lock"}
    BY <2>1, <2>3 DEF Blocks
  <2>4. CASE pc[t] = "v_parent"
    <3>1. Heir(of[t]) \in Tasks
      BY Names DEF Heir, IInv, Types
    <3> QED BY <2>4, <3>1 DEF Blocks
  <2>5. CASE pc[t] \notin {"f_list", "f_undo", "v_unlist", "v_find", "f_child", "t_count",
                           "v_thread", "v_drain", "w_lock", "v_parent"}
    <3>1. Blocks(t) = None
      BY <2>5 DEF Blocks
    <3> QED BY <1>3, <3>1, Names
  <2> QED BY <2>2, <2>3, <2>4, <2>5
<1>4. ASSUME NEW S \in SUBSET Threads, NEW t \in S, \A u \in S : Blocks(u) \in S PROVE FALSE
  <2>1. ASSUME NEW u \in S PROVE Blocks(u) = listLock /\ pc[u] \notin {"v_drain", "v_parent"}
    <3>1. u \in Threads /\ Blocks(u) \in Threads /\ Blocks(u) \in S
      BY <1>4, <2>1
    <3>2. ASSUME NEW k \in Tasks, Blocks(u) = tk[k].lock PROVE FALSE
      <4>1. Blocks(Blocks(u)) = None
        BY <1>1, <3>1, <3>2
      <4> QED BY <1>4, <3>1, <4>1, Names
    <3> QED BY <1>3, <3>1, <3>2
  <2>2. listLock \in S /\ listLock \in Threads
    BY <1>4, <2>1
  <2> QED BY <1>2, <2>1, <2>2
<1>5. ASSUME NEW t \in Threads, listLock = t \/ (\E k \in listed : tk[k].lock = t)
      PROVE  pc[t] \notin {"unused", "nascent", "user", "w_asleep", "dead"}
  <2>1. listed \subseteq Tasks
    BY DEF IInv, Types
  <2> QED BY <1>1, <1>2, <1>5, <2>1
<1> QED BY <1>4, <1>5 DEF NoLockCycle

LEMMA IInvNoticed == IInv => NoDeathUnnoticed
<1> SUFFICES ASSUME IInv PROVE NoDeathUnnoticed
  OBVIOUS
<1>1. \A k \in Tasks : tk[k].live \in Nat
  BY FieldTypes DEF IInv
<1> QED BY <1>1 DEF NoDeathUnnoticed, IInv, WaitInv, Live

(* The counts of children and threads are exact, the asserts of the        *)
(* teardown hold and the variables have their types (process.c:139-183,    *)
(* 247-250), for any number of tasks and threads.                          *)
THEOREM LifeConsistent == Spec => []Consistent
<1>1. IInv => Consistent
  BY IInvTypes, IInvCounts, IInvTeardown DEF Consistent
<1> QED BY <1>1, Inductive, PTL

(* Nobody uses a struct that was freed (process.c:118-123,169-171,222-225, *)
(* 299-302).                                                               *)
THEOREM LifeNoUseAfterFree == Spec => []NoUseAfterFree
  BY IInvFreed, Inductive, PTL

(* Every struct of the dead has one who will free it (process.c:160-171,   *)
(* 293-302).                                                               *)
THEOREM LifeNothingLeaks == Spec => []NothingLeaks
  BY IInvLeaks, Inductive, PTL

(* The locks of the list and of the tasks are never waited for in a circle *)
(* (process.c:350-363,379-405).                                            *)
THEOREM LifeNoLockCycle == Spec => []NoLockCycle
  BY IInvLocks, Inductive, PTL

(* A thread asleep in wait has a child to wait for and none to reap        *)
(* (process.c:280-290).                                                    *)
THEOREM LifeNoDeathUnnoticed == Spec => []NoDeathUnnoticed
  BY IInvNoticed, Inductive, PTL
=============================================================================
