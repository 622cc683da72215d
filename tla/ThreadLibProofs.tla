-------------------------- MODULE ThreadLibProofs --------------------------
(***************************************************************************)
(* No TCB is used after it has been freed, the asserts of the library      *)
(* hold, and no two threads have one stack, for any number of threads.     *)
(*                                                                         *)
(* The inductive invariant says who works on whom.  A thread is another's  *)
(* business once at a time: its creator's until thr_create returns, its    *)
(* joiner's from then on.  A joiner has either not been posted, and then   *)
(* the exit that will post it is still to come, or has been, and then the  *)
(* exit is through with the TCB.  That is IInv, which stands by itself; on *)
(* it rest who has written a TID, which TCBs the list names, who may want  *)
(* a TCB's lock, and whose each stack is.                                  *)
(***************************************************************************)
EXTENDS ThreadLib, SequenceTheorems, WellFoundedInduction, TLAPS

Unstarted == {"unborn", "reserved", "unforked"}
Creating == {"new_tcb", "fork", "set_tid", "set_state"}
Joining == {"join", "join_wait", "take", "final"}

(* The thread is through with its TCB, but for the late read of joinp. *)
Gone == {"wake", "entry", "remove", "give", "gone", "killed"}

Labels == Unstarted \cup Creating \cup Joining \cup Gone
              \cup {"born", "child_state", "run", "exit", "post"}

Types ==
    /\ mem \in [Threads -> {"none", "live", "freed"}]
    /\ state \in [Threads -> {"NASCENT", "ACTIVE", "EXITED"}]
    /\ joinp \in [Threads -> Threads \cup {None}]
    /\ reject \in [Threads -> Threads \cup {None}]
    /\ pc \in [Threads -> Labels]
    /\ other \in [Threads -> Threads \cup {None}]

(* Nobody is created or joined by two threads, nor by itself. *)
Roles ==
    /\ \A t \in Threads : (other[t] # None) <=> (pc[t] \in Creating \cup Joining)
    /\ \A t, u \in Threads : other[t] = other[u] /\ other[t] # None => t = u
    /\ \A t \in Threads : other[t] # t

Creators ==
    /\ \A t \in Threads : pc[t] \in {"new_tcb", "fork"} => pc[other[t]] = "reserved"
    /\ \A t \in Threads : pc[t] = "fork" => mem[other[t]] = "live"
    /\ \A t \in Threads : pc[t] \in {"set_tid", "set_state"} =>
           pc[other[t]] \notin Unstarted /\ mem[other[t]] = "live" /\ other[t] \notin claimed

Joiners ==
    /\ \A t \in Threads : pc[t] \in Joining =>
           pc[other[t]] \notin Unstarted /\ mem[other[t]] = "live" /\ other[t] \in claimed
    /\ \A u \in Threads : u \in claimed => pc[u] \notin Unstarted

(* A TCB is freed when its thread is gone and its joiner has left. *)
Memory ==
    \A u \in Threads : pc[u] \notin Unstarted /\ mem[u] # "live" =>
        /\ pc[u] \in Gone /\ u \in claimed
        /\ \A t \in Threads : other[t] # u

Exits ==
    /\ \A u \in Threads : state[u] = "EXITED" => pc[u] \in Gone \cup {"post"}
    /\ \A u \in Threads : pc[u] = "post" => state[u] = "EXITED"

(* Until it is posted, the joiner waits for the exit. *)
Posts ==
    /\ \A u \in Threads : u \notin claimed => joinp[u] = None
    /\ \A u \in Threads : pc[u] = "post" => joinp[u] # None
    /\ \A u \in Threads : pc[u] \notin Gone /\ joinp[u] # None =>
           /\ pc[joinp[u]] = "join_wait" /\ other[joinp[u]] = u
           /\ reject[joinp[u]] = None

Waits ==
    /\ \A t \in Threads : pc[t] = "join" => joinp[other[t]] = None
    /\ \A t \in Threads : pc[t] = "join_wait" =>
           /\ joinp[other[t]] = t
           /\ \/ reject[t] = None /\ (state[other[t]] # "EXITED" \/ pc[other[t]] = "post")
              \/ /\ reject[t] = other[t]
                 /\ state[other[t]] = "EXITED" /\ pc[other[t]] # "post"
    /\ \A t \in Threads : pc[t] \in {"take", "final"} =>
           state[other[t]] = "EXITED" /\ pc[other[t]] # "post"

IInv == Types /\ Roles /\ Creators /\ Joiners /\ Memory /\ Exits /\ Posts /\ Waits

-----------------------------------------------------------------------------
LEMMA InitInv == Init => IInv
  BY ThreadLibAssumption, Z3 DEF Init, IInv, Types, Roles, Creators, Joiners, Memory, Exits, Posts,
     Waits, Labels, Unstarted, Creating, Joining, Gone, Children, Unlocked

LEMMA InvSafe == IInv => NoUseAfterFree
<1> SUFFICES ASSUME IInv, NEW t \in Threads
             PROVE  /\ \A u \in Touches(t) : mem[u] = "live"
                    /\ pc[t] \in {"take", "final"} => state[other[t]] = "EXITED"
  BY DEF NoUseAfterFree
<1>1. pc[t] \in {"take", "final"} => state[other[t]] = "EXITED"
  BY DEF IInv, Waits
<1>2. pc[t] \in {"born", "child_state", "run", "exit", "post"} => mem[t] = "live"
  BY DEF IInv, Memory, Unstarted, Gone
<1>3. pc[t] \in {"set_tid", "set_state", "join", "join_wait", "take", "final"}
          => mem[other[t]] = "live"
  BY DEF IInv, Creators, Joiners, Joining
<1>4. ASSUME pc[t] = "post"
      PROVE  mem[joinp[t]] = "live"
  <2>1. joinp[t] \in Threads /\ pc[joinp[t]] = "join_wait"
    BY <1>4 DEF IInv, Types, Posts, Gone
  <2> QED
    BY <2>1 DEF IInv, Memory, Unstarted, Gone
<1> QED
  BY <1>1, <1>2, <1>3, <1>4 DEF Touches

-----------------------------------------------------------------------------
(* What the proof of a step needs to see of it. *)
shown == <<mem, state, joinp, reject, pc, other, claimed>>

(* Who has exited is all that counts of the states. *)
SameExits ==
    /\ state' \in [Threads -> {"NASCENT", "ACTIVE", "EXITED"}]
    /\ \A u \in Threads : (state'[u] = "EXITED") <=> (state[u] = "EXITED")

LEMMA SameState ==
    ASSUME IInv, UNCHANGED state
    PROVE  SameExits
  BY DEF IInv, Types, SameExits

LEMMA ActivateExits ==
    ASSUME IInv, NEW c \in Threads, Activate(c)
    PROVE  SameExits
<1>1. \A u \in Threads :
          state'[u] = IF u = c /\ state[u] = "NASCENT" THEN "ACTIVE" ELSE state[u]
  BY DEF IInv, Types, Activate
<1>2. state' \in [Threads -> {"NASCENT", "ACTIVE", "EXITED"}]
  BY DEF IInv, Types, Activate
<1> QED
  BY <1>1, <1>2 DEF SameExits

LEMMA Unseen ==
    ASSUME IInv, UNCHANGED shown
    PROVE  IInv'
  BY DEF shown, IInv, Types, Roles, Creators, Joiners, Memory, Exits, Posts, Waits

(* A thread goes on by itself. *)
LEMMA QuietKeeps ==
    ASSUME IInv, NEW t \in Threads, NEW label \in Gone \cup {"child_state", "run", "exit"},
           pc[t] \in Gone \cup {"born", "child_state", "run", "exit"},
           pc[t] \in Gone => label \in Gone,
           Goto(t, label), SameExits,
           UNCHANGED <<mem, joinp, reject, other, claimed>>
    PROVE  IInv'
<1>1. pc' \in [Threads -> Labels]
  BY DEF IInv, Types, Goto, Labels
<1>2. pc'[t] = label /\ \A u \in Threads : u # t => pc'[u] = pc[u]
  BY DEF IInv, Types, Goto
<1>3. Types'
  BY <1>1 DEF IInv, Types, SameExits
<1>4. Roles'
  BY <1>2 DEF IInv, Roles, Gone, Creating, Joining
<1>5. other[t] = None /\ \A u \in Threads : other[u] # None => u # t
  BY DEF IInv, Roles, Gone, Creating, Joining
<1>6. Creators'
  BY <1>2, <1>5 DEF IInv, Types, Roles, Creators, Gone, Creating, Unstarted
<1>7. Joiners'
  BY <1>2, <1>5 DEF IInv, Types, Roles, Joiners, Gone, Joining, Unstarted
<1>8. Memory'
  BY <1>2 DEF IInv, Memory, Gone, Unstarted
<1>9. Exits'
  BY <1>2 DEF IInv, Exits, Gone, SameExits
<1>10. Posts'
  BY <1>2 DEF IInv, Types, Posts, Gone
<1>11. Waits'
  BY <1>2 DEF IInv, Types, Roles, Waits, Exits, Gone, Joining, SameExits
<1> QED
  BY <1>3, <1>4, <1>6, <1>7, <1>8, <1>9, <1>10, <1>11 DEF IInv

(* Whoever is created or joined has been begun. *)
LEMMA OthersBegun ==
    ASSUME IInv, NEW u \in Threads, other[u] # None
    PROVE  /\ other[u] \in Threads /\ pc[other[u]] # "unborn"
           /\ pc[u] \in Creating \cup Joining
  BY DEF IInv, Types, Roles, Creators, Joiners, Creating, Joining, Unstarted

LEMMA CreateStackKeeps ==
    ASSUME IInv, NEW t \in Threads, CreateStack(t)
    PROVE  IInv'
<1>1. UNCHANGED <<mem, state, joinp, reject, claimed>>
  BY DEF CreateStack, tcbVars
<1>2. CASE UNCHANGED <<pc, other>>
  BY <1>1, <1>2, Unseen DEF shown
<1>3. ASSUME NEW c \in Children, pc[c] = "unborn",
             pc' = [pc EXCEPT ![t] = "new_tcb", ![c] = "reserved"],
             other' = [other EXCEPT ![t] = c]
      PROVE  IInv'
  <2>1. pc[t] = "run" /\ c \in Threads /\ c # t /\ c # None
    BY <1>3, ThreadLibAssumption DEF CreateStack, At, Children
  <2>2. /\ pc'[t] = "new_tcb" /\ pc'[c] = "reserved"
        /\ \A u \in Threads : u # t /\ u # c => pc'[u] = pc[u]
    BY <1>3, <2>1 DEF IInv, Types
  <2>3. other'[t] = c /\ \A u \in Threads : u # t => other'[u] = other[u]
    BY <1>3 DEF IInv, Types
  <2>4. \A u \in Threads : other[u] # c
    BY <1>3, <2>1, OthersBegun
  <2>5. Types'
    BY <1>1, <1>3, <2>1 DEF IInv, Types, Labels, Unstarted, Creating
  <2>6. \A u \in Threads : other[u] # t \/ pc[u] \notin {"new_tcb", "fork"}
    BY <2>1 DEF IInv, Creators
  <2>7. Roles'
    BY <1>3, <2>1, <2>2, <2>3, <2>4 DEF IInv, Types, Roles, Creating, Joining
  <2>8. Creators'
    BY <1>1, <1>3, <2>1, <2>2, <2>3, <2>4, <2>6 DEF IInv, Types, Roles, Creators, Creating, Unstarted
  <2>9. Joiners'
    BY <1>1, <1>3, <2>1, <2>2, <2>3, <2>4 DEF IInv, Types, Roles, Joiners, Joining, Unstarted
  <2>10. Memory'
    <3>1. mem[t] = "live"
      BY <2>1 DEF IInv, Memory, Unstarted, Gone
    <3> QED
      BY <1>1, <3>1, <2>1, <2>2, <2>3 DEF IInv, Memory, Unstarted
  <2>11. Exits'
    BY <1>1, <1>3, <2>1, <2>2 DEF IInv, Exits, Gone
  <2>12. Posts'
    BY <1>1, <1>3, <2>1, <2>2, <2>3, <2>4 DEF IInv, Types, Posts, Gone
  <2>13. Waits'
    BY <1>1, <1>3, <2>1, <2>2, <2>3, <2>4 DEF IInv, Types, Roles, Waits, Joining
  <2> QED
    BY <2>5, <2>7, <2>8, <2>9, <2>10, <2>11, <2>12, <2>13 DEF IInv
<1> QED
  BY <1>2, <1>3 DEF CreateStack

LEMMA CreateTcbKeeps ==
    ASSUME IInv, NEW t \in Threads, CreateTcb(t)
    PROVE  IInv'
<1> DEFINE c == other[t]
<1>1. /\ pc[t] = "new_tcb" /\ pc' = [pc EXCEPT ![t] = "fork"]
      /\ mem' = [mem EXCEPT ![c] = "live"]
      /\ UNCHANGED <<state, joinp, reject, other, claimed>>
  BY DEF CreateTcb, At, Goto, callVars
<1>2. c # None /\ c \in Threads /\ c # t /\ pc[c] = "reserved"
  BY <1>1 DEF IInv, Types, Roles, Creators, Creating
<1> HIDE DEF c
<1>3. pc'[t] = "fork" /\ \A u \in Threads : u # t => pc'[u] = pc[u]
  BY <1>1 DEF IInv, Types
<1>4. mem'[c] = "live" /\ \A u \in Threads : mem'[u] # mem[u] => mem'[u] = "live"
  BY <1>1, <1>2 DEF IInv, Types
<1>5. Types'
  BY <1>1 DEF IInv, Types, Labels, Creating
<1>6. Roles'
  BY <1>1, <1>3 DEF IInv, Roles, Creating, Joining
<1>7. Creators'
  BY <1>1, <1>2, <1>3, <1>4 DEF IInv, Types, Roles, Creators, Creating, Unstarted, c
<1>8. Joiners'
  BY <1>1, <1>3, <1>4 DEF IInv, Types, Roles, Joiners, Joining, Unstarted
<1>9. Memory'
  BY <1>1, <1>3, <1>4 DEF IInv, Memory, Unstarted, Gone
<1>10. Exits'
  BY <1>1, <1>3 DEF IInv, Exits, Gone
<1>11. Posts'
  BY <1>1, <1>3 DEF IInv, Types, Posts, Gone
<1>12. Waits'
  BY <1>1, <1>3 DEF IInv, Types, Roles, Waits, Joining
<1> QED
  BY <1>5, <1>6, <1>7, <1>8, <1>9, <1>10, <1>11, <1>12 DEF IInv

(* The creation is given up before the fork: nobody has seen the child. *)
LEMMA GiveUpKeeps ==
    ASSUME IInv, NEW t \in Threads, NEW label \in {"unborn", "unforked"},
           pc[t] \in {"new_tcb", "fork"}, GiveUp(t, label),
           \/ UNCHANGED mem
           \/ mem' = [mem EXCEPT ![other[t]] = "freed"]
    PROVE  IInv'
<1> DEFINE c == other[t]
<1>1. /\ pc' = [pc EXCEPT ![t] = "run", ![c] = label]
      /\ other' = [other EXCEPT ![t] = None]
      /\ UNCHANGED <<state, joinp, reject, claimed>>
  BY DEF GiveUp
<1>2. c # None /\ c \in Threads /\ c # t /\ pc[c] = "reserved"
  BY DEF IInv, Types, Roles, Creators, Creating
<1>3. \A u \in Threads : u # t => other[u] # c
  BY <1>2 DEF IInv, Roles
<1>4. \A u \in Threads : u # c => mem'[u] = mem[u]
  BY DEF IInv, Types
<1>5. mem' \in [Threads -> {"none", "live", "freed"}]
  BY DEF IInv, Types
<1> HIDE DEF c
<1>6. /\ pc'[t] = "run" /\ pc'[c] = label
      /\ \A u \in Threads : u # t /\ u # c => pc'[u] = pc[u]
  BY <1>1, <1>2 DEF IInv, Types
<1>7. other'[t] = None /\ \A u \in Threads : u # t => other'[u] = other[u]
  BY <1>1 DEF IInv, Types
<1>8. \A u \in Threads : other'[u] # c
  BY <1>2, <1>3, <1>7
<1>9. Types'
  BY <1>1, <1>2, <1>5 DEF IInv, Types, Labels, Unstarted
<1>10. Roles'
  BY <1>2, <1>6, <1>7, ThreadLibAssumption DEF IInv, Types, Roles, Creating, Joining
<1>11. \A u \in Threads : other'[u] = t => pc[u] \notin {"new_tcb", "fork"}
  BY <1>7, ThreadLibAssumption DEF IInv, Creators
<1>12. Creators'
  BY <1>1, <1>2, <1>4, <1>6, <1>7, <1>8, <1>11 DEF IInv, Types, Roles, Creators, Creating, Unstarted
<1>13. Joiners'
  BY <1>1, <1>2, <1>4, <1>6, <1>7, <1>8 DEF IInv, Types, Roles, Joiners, Joining, Unstarted
<1>14. Memory'
  <2>1. mem[t] = "live" /\ None \notin Threads
    BY ThreadLibAssumption DEF IInv, Memory, Unstarted, Gone
  <2>2. pc'[c] \in Unstarted
    BY <1>6 DEF Unstarted
  <2>3. ASSUME NEW u \in Threads, u # c, u # t,
               pc'[u] \notin Unstarted, mem'[u] # "live"
        PROVE  /\ pc'[u] \in Gone /\ u \in claimed'
               /\ \A v \in Threads : other'[v] # u
    <3>1. pc'[u] = pc[u] /\ mem'[u] = mem[u]
      BY <1>4, <1>6, <2>3
    <3>2. pc[u] \in Gone /\ u \in claimed /\ \A v \in Threads : other[v] # u
      BY <2>3, <3>1 DEF IInv, Memory
    <3>3. \A v \in Threads : other'[v] # u
      BY <1>7, <2>1, <3>2
    <3> QED
      BY <1>1, <3>1, <3>2, <3>3
  <2> QED
    BY <1>2, <1>4, <2>1, <2>2, <2>3 DEF Memory
<1>15. Exits'
  BY <1>1, <1>2, <1>6 DEF IInv, Exits, Gone
<1>16. Posts'
  BY <1>1, <1>2, <1>6, <1>7 DEF IInv, Types, Posts, Gone
<1>17. Waits'
  BY <1>1, <1>2, <1>6, <1>7, <1>8 DEF IInv, Types, Roles, Waits, Joining
<1> QED
  BY <1>9, <1>10, <1>12, <1>13, <1>14, <1>15, <1>16, <1>17 DEF IInv

LEMMA CreateForkKeeps ==
    ASSUME IInv, NEW t \in Threads, CreateFork(t)
    PROVE  IInv'
<1> DEFINE c == other[t]
<1>1. /\ pc[t] = "fork" /\ pc' = [pc EXCEPT ![t] = "set_tid", ![c] = "born"]
      /\ UNCHANGED <<mem, state, joinp, reject, other, claimed>>
  BY DEF CreateFork, At, tcbVars, callVars
<1>2. /\ c # None /\ c \in Threads /\ c # t /\ pc[c] = "reserved"
      /\ mem[c] = "live"
  BY <1>1 DEF IInv, Types, Roles, Creators, Creating
<1>3. \A u \in Threads : other[u] = c => u = t
  BY <1>2 DEF IInv, Roles
<1>4. c \notin claimed
  BY <1>2 DEF IInv, Joiners, Unstarted
<1> HIDE DEF c
<1>5. /\ pc'[t] = "set_tid" /\ pc'[c] = "born"
      /\ \A u \in Threads : u # t /\ u # c => pc'[u] = pc[u]
  BY <1>1, <1>2 DEF IInv, Types
<1>6. Types'
  BY <1>1, <1>2 DEF IInv, Types, Labels, Creating
<1>7. Roles'
  BY <1>1, <1>2, <1>5 DEF IInv, Roles, Creating, Joining
<1>8. Creators'
  BY <1>1, <1>2, <1>3, <1>4, <1>5 DEF IInv, Types, Roles, Creators, Creating, Unstarted, c
<1>9. Joiners'
  BY <1>1, <1>2, <1>3, <1>5 DEF IInv, Types, Roles, Joiners, Joining, Unstarted
<1>10. Memory'
  BY <1>1, <1>2, <1>5 DEF IInv, Memory, Unstarted, Gone
<1>11. Exits'
  BY <1>1, <1>2, <1>5 DEF IInv, Exits, Gone
<1>12. Posts'
  BY <1>1, <1>2, <1>5 DEF IInv, Types, Posts, Gone
<1>13. Waits'
  BY <1>1, <1>2, <1>3, <1>5 DEF IInv, Types, Roles, Waits, Joining
<1> QED
  BY <1>6, <1>7, <1>8, <1>9, <1>10, <1>11, <1>12, <1>13 DEF IInv

LEMMA CreateTidKeeps ==
    ASSUME IInv, NEW t \in Threads, CreateTid(t)
    PROVE  IInv'
<1>1. /\ pc[t] = "set_tid" /\ pc' = [pc EXCEPT ![t] = "set_state"]
      /\ UNCHANGED <<mem, state, joinp, reject, other, claimed>>
  BY DEF CreateTid, SetTid, At, Goto, callVars
<1>2. pc'[t] = "set_state" /\ \A u \in Threads : u # t => pc'[u] = pc[u]
  BY <1>1 DEF IInv, Types
<1>3. other[t] # None /\ other[t] \in Threads /\ other[t] # t
  BY <1>1 DEF IInv, Types, Roles, Creating
<1>4. Types'
  BY <1>1 DEF IInv, Types, Labels, Creating
<1>5. Roles'
  BY <1>1, <1>2 DEF IInv, Roles, Creating, Joining
<1>6. Creators'
  BY <1>1, <1>2, <1>3 DEF IInv, Types, Roles, Creators, Creating, Unstarted
<1>7. Joiners'
  BY <1>1, <1>2 DEF IInv, Types, Roles, Joiners, Joining, Unstarted
<1>8. Memory' /\ Exits' /\ Posts'
  BY <1>1, <1>2 DEF IInv, Types, Memory, Exits, Posts, Unstarted, Gone
<1>9. Waits'
  BY <1>1, <1>2 DEF IInv, Types, Roles, Waits, Joining
<1> QED
  BY <1>4, <1>5, <1>6, <1>7, <1>8, <1>9 DEF IInv

(* thr_create returns: the child is anybody's to join. *)
LEMMA CreateReturnKeeps ==
    ASSUME IInv, NEW t \in Threads, CreateReturn(t)
    PROVE  IInv'
<1>1. /\ pc[t] = "set_state" /\ pc' = [pc EXCEPT ![t] = "run"]
      /\ other' = [other EXCEPT ![t] = None]
      /\ UNCHANGED <<mem, joinp, reject, claimed>>
  BY DEF CreateReturn, At, Goto
<1>2. pc'[t] = "run" /\ \A u \in Threads : u # t => pc'[u] = pc[u]
  BY <1>1 DEF IInv, Types
<1>3. other'[t] = None /\ \A u \in Threads : u # t => other'[u] = other[u]
  BY <1>1 DEF IInv, Types
<1>4. SameExits
  <2>1. other[t] \in Threads
    BY <1>1 DEF IInv, Types, Roles, Creating
  <2> QED
    BY <2>1, ActivateExits DEF CreateReturn
<1>5. None \notin Threads
  BY ThreadLibAssumption
<1>6. Types'
  BY <1>1, <1>4 DEF IInv, Types, SameExits, Labels
<1>7. Roles'
  BY <1>2, <1>3, <1>5 DEF IInv, Roles, Creating, Joining
<1>8. Creators'
  BY <1>1, <1>2, <1>3 DEF IInv, Types, Roles, Creators, Creating, Unstarted
<1>9. Joiners'
  BY <1>1, <1>2, <1>3 DEF IInv, Types, Roles, Joiners, Joining, Unstarted
<1>10. Memory'
  BY <1>1, <1>2, <1>3, <1>5 DEF IInv, Memory, Unstarted, Gone
<1>11. Exits'
  BY <1>1, <1>2, <1>4 DEF IInv, Exits, SameExits, Gone
<1>12. Posts'
  BY <1>1, <1>2, <1>3 DEF IInv, Types, Posts, Gone
<1>13. Waits'
  BY <1>1, <1>2, <1>3, <1>4 DEF IInv, Types, Roles, Waits, SameExits, Joining
<1> QED
  BY <1>6, <1>7, <1>8, <1>9, <1>10, <1>11, <1>12, <1>13 DEF IInv

LEMMA ChildKeeps ==
    ASSUME IInv, NEW t \in Threads, ChildTid(t) \/ ChildState(t)
    PROVE  IInv'
<1>1. CASE ChildTid(t)
  <2>1. /\ pc[t] = "born" /\ Goto(t, "child_state")
        /\ UNCHANGED <<mem, state, joinp, reject, other, claimed>>
    BY <1>1 DEF ChildTid, SetTid, At, tcbVars, callVars
  <2> QED
    BY <2>1, SameState, QuietKeeps DEF Gone
<1>2. CASE ChildState(t)
  <2>1. /\ pc[t] = "child_state" /\ Goto(t, "run") /\ Activate(t)
        /\ UNCHANGED <<mem, joinp, reject, other, claimed>>
    BY <1>2 DEF ChildState, At, callVars
  <2> QED
    BY <2>1, ActivateExits, QuietKeeps DEF Gone
<1> QED
  BY <1>1, <1>2

(* An exit that is posted or that nobody waits for goes on by itself. *)
LEMMA ExitTailKeeps ==
    ASSUME IInv, NEW t \in Threads,
           ExitWake(t) \/ ExitEntry(t) \/ ExitRemove(t) \/ ExitGive(t)
    PROVE  IInv'
<1>1. /\ pc[t] \in Gone
      /\ \E label \in Gone : Goto(t, label)
      /\ UNCHANGED <<mem, state, joinp, reject, other, claimed>>
  <2>1. CASE ExitWake(t)
    BY <2>1 DEF ExitWake, Killed, At, Gone, tcbVars, callVars
  <2>2. CASE ExitEntry(t)
    BY <2>2 DEF ExitEntry, At, Gone, tcbVars, callVars
  <2>3. CASE ExitRemove(t)
    BY <2>3 DEF ExitRemove, At, Gone, tcbVars, callVars
  <2>4. CASE ExitGive(t)
    BY <2>4 DEF ExitGive, At, Gone, tcbVars, callVars
  <2> QED
    BY <2>1, <2>2, <2>3, <2>4
<1> QED
  BY <1>1, SameState, QuietKeeps

(* The exit meets the lock: if there is a joiner, it waits, and is posted. *)
LEMMA ExitSectionKeeps ==
    ASSUME IInv, NEW t \in Threads, ExitSection(t)
    PROVE  IInv'
<1> DEFINE label == IF joinp[t] # None THEN "post" ELSE "entry"
<1>1. /\ pc[t] = "exit" /\ pc' = [pc EXCEPT ![t] = label]
      /\ state' = [state EXCEPT ![t] = "EXITED"]
      /\ UNCHANGED <<mem, joinp, reject, other, claimed>>
  BY DEF ExitSection, Holds, At, Goto, callVars
<1>2. pc'[t] = label /\ \A u \in Threads : u # t => pc'[u] = pc[u]
  BY <1>1 DEF IInv, Types
<1>3. state'[t] = "EXITED" /\ \A u \in Threads : u # t => state'[u] = state[u]
  BY <1>1 DEF IInv, Types
<1>4. other[t] = None /\ state[t] # "EXITED"
  BY <1>1 DEF IInv, Roles, Exits, Creating, Joining, Gone
<1>5. /\ label \in {"post", "entry"}
      /\ (label = "post") <=> (joinp[t] # None)
  OBVIOUS
<1>6. joinp[t] # None => joinp[t] \in Threads /\ joinp[t] # t
  BY <1>1 DEF IInv, Types, Posts, Gone
<1>7. \A u \in Threads : u # t /\ other[u] = t /\ pc[u] \in Joining => joinp[t] # None \/ pc[u] = "join"
  BY <1>4, ThreadLibAssumption DEF IInv, Waits, Joining
<1> HIDE DEF label
<1>8. Types'
  BY <1>1, <1>5 DEF IInv, Types, Labels, Gone
<1>9. Roles'
  BY <1>1, <1>2, <1>5 DEF IInv, Roles, Creating, Joining
<1>10. Creators' /\ Joiners'
  BY <1>1, <1>2, <1>5 DEF IInv, Types, Roles, Creators, Joiners, Creating, Joining, Unstarted
<1>11. Memory' /\ Exits'
  BY <1>1, <1>2, <1>3, <1>5 DEF IInv, Memory, Exits, Unstarted, Gone
<1>12. Posts'
  BY <1>1, <1>2, <1>5, <1>6 DEF IInv, Types, Posts, Gone
<1>13. Waits'
  BY <1>1, <1>2, <1>3, <1>4, <1>5, <1>7, ThreadLibAssumption DEF IInv, Types, Roles, Waits, Joining
<1> QED
  BY <1>8, <1>9, <1>10, <1>11, <1>12, <1>13 DEF IInv

(* tcb->joinp->reject = tcb->tid *)
LEMMA ExitPostKeeps ==
    ASSUME IInv, NEW t \in Threads, ExitPost(t)
    PROVE  IInv'
<1> DEFINE j == joinp[t]
<1>1. /\ pc[t] = "post" /\ pc' = [pc EXCEPT ![t] = "wake"]
      /\ reject' = [reject EXCEPT ![j] = t]
      /\ UNCHANGED <<mem, state, joinp, other, claimed>>
  BY DEF ExitPost, At, Goto, callVars
<1>2. /\ j \in Threads /\ j # None /\ pc[j] = "join_wait" /\ other[j] = t
      /\ reject[j] = None /\ j # t
  BY <1>1 DEF IInv, Types, Posts, Gone
<1>3. state[t] = "EXITED" /\ other[t] = None
  BY <1>1 DEF IInv, Exits, Roles, Creating, Joining
<1> HIDE DEF j
<1>4. pc'[t] = "wake" /\ \A u \in Threads : u # t => pc'[u] = pc[u]
  BY <1>1 DEF IInv, Types
<1>5. reject'[j] = t /\ \A u \in Threads : u # j => reject'[u] = reject[u]
  BY <1>1, <1>2 DEF IInv, Types
<1>6. \A u \in Threads : u # j => other[u] # t
  BY <1>2, ThreadLibAssumption DEF IInv, Roles
<1>7. Types'
  BY <1>1, <1>2 DEF IInv, Types, Labels, Gone
<1>8. Roles'
  BY <1>1, <1>4 DEF IInv, Roles, Creating, Joining
<1>9. Creators' /\ Joiners'
  BY <1>1, <1>4 DEF IInv, Types, Roles, Creators, Joiners, Creating, Joining, Unstarted
<1>10. Memory' /\ Exits'
  BY <1>1, <1>4 DEF IInv, Memory, Exits, Unstarted, Gone
<1>11. Posts'
  <2>1. ASSUME NEW u \in Threads, u # t, joinp[u] = j, pc[u] \notin Gone
        PROVE  FALSE
    BY <1>2, <2>1 DEF IInv, Posts
  <2> QED
    BY <1>1, <1>2, <1>4, <1>5, <2>1 DEF IInv, Types, Posts, Gone
<1>12. Waits'
  BY <1>1, <1>2, <1>3, <1>4, <1>5, <1>6 DEF IInv, Types, Roles, Waits, Joining
<1> QED
  BY <1>7, <1>8, <1>9, <1>10, <1>11, <1>12 DEF IInv

LEMMA CallJoinKeeps ==
    ASSUME IInv, NEW t \in Threads, CallJoin(t)
    PROVE  IInv'
<1>1. PICK c \in Joinable \ {t} :
          other' = [other EXCEPT ![t] = c] /\ claimed' = claimed \cup {c}
  BY DEF CallJoin
<1>2. /\ pc[t] = "run" /\ pc' = [pc EXCEPT ![t] = "join"]
      /\ UNCHANGED <<mem, state, joinp, reject>>
  BY DEF CallJoin, At, Goto
<1>3. /\ c \in Threads /\ c # t /\ c # None /\ c \notin claimed
      /\ pc[c] \notin Unstarted
      /\ \A u \in Threads : other[u] = c => pc[u] \notin {"set_tid", "set_state"}
  BY <1>1, ThreadLibAssumption DEF Joinable, Children, Unstarted
<1>4. \A u \in Threads : other[u] # c
  BY <1>3 DEF IInv, Roles, Creators, Joiners, Creating, Unstarted
<1>5. mem[c] = "live" /\ joinp[c] = None
  BY <1>3 DEF IInv, Memory, Posts
<1>6. pc'[t] = "join" /\ \A u \in Threads : u # t => pc'[u] = pc[u]
  BY <1>2 DEF IInv, Types
<1>7. other'[t] = c /\ \A u \in Threads : u # t => other'[u] = other[u]
  BY <1>1 DEF IInv, Types
<1>8. Types'
  BY <1>1, <1>2, <1>3 DEF IInv, Types, Labels, Joining
<1>9. Roles'
  BY <1>3, <1>4, <1>6, <1>7 DEF IInv, Roles, Creating, Joining
<1>10. Creators'
  BY <1>1, <1>2, <1>3, <1>4, <1>6, <1>7 DEF IInv, Types, Roles, Creators, Creating, Unstarted
<1>11. Joiners'
  BY <1>1, <1>2, <1>3, <1>5, <1>6, <1>7 DEF IInv, Types, Roles, Joiners, Joining, Unstarted
<1>12. Memory'
  BY <1>1, <1>2, <1>5, <1>6, <1>7 DEF IInv, Memory, Unstarted, Gone
<1>13. Exits'
  BY <1>2, <1>6 DEF IInv, Exits, Gone
<1>14. Posts'
  BY <1>1, <1>2, <1>6, <1>7 DEF IInv, Types, Posts, Gone
<1>15. Waits'
  BY <1>1, <1>2, <1>3, <1>4, <1>5, <1>6, <1>7 DEF IInv, Types, Roles, Waits, Joining
<1> QED
  BY <1>8, <1>9, <1>10, <1>11, <1>12, <1>13, <1>14, <1>15 DEF IInv

(* A joiner that has seen the exit goes on. *)
LEMMA JoinTailKeeps ==
    ASSUME IInv, NEW t \in Threads, JoinExited(t) \/ JoinWoken(t) \/ JoinTake(t)
    PROVE  IInv'
<1>1. PICK label \in {"take", "final"} : Goto(t, label)
  BY DEF JoinExited, JoinWoken, JoinTake
<1>2. UNCHANGED <<mem, state, joinp, reject, other, claimed>>
  BY DEF JoinExited, JoinWoken, JoinTake, tcbVars, callVars
<1>3. pc[t] \in Joining
  BY DEF JoinExited, JoinWoken, JoinTake, Holds, At, Joining
<1>4. other[t] # None /\ other[t] \in Threads /\ other[t] # t
  BY <1>3 DEF IInv, Types, Roles
<1>5. state[other[t]] = "EXITED" /\ pc[other[t]] # "post"
  <2>1. CASE JoinExited(t)
    <3>1. joinp[other[t]] = None
      BY <2>1 DEF JoinExited, Holds, At, IInv, Waits
    <3> QED
      BY <1>4, <2>1, <3>1 DEF JoinExited, IInv, Posts
  <2>2. CASE JoinWoken(t)
    BY <1>4, <2>2 DEF JoinWoken, At, IInv, Waits
  <2>3. CASE JoinTake(t)
    BY <2>3 DEF JoinTake, Holds, At, IInv, Waits
  <2> QED
    BY <2>1, <2>2, <2>3
<1>6. \A u \in Threads : u # other[t] /\ pc[u] \notin Gone => joinp[u] # t
  BY <1>4, ThreadLibAssumption DEF IInv, Posts
<1>7. pc[other[t]] \in Gone
  BY <1>4, <1>5 DEF IInv, Exits
<1>8. pc'[t] = label /\ \A u \in Threads : u # t => pc'[u] = pc[u]
  BY <1>1 DEF IInv, Types, Goto
<1>9. Types'
  BY <1>1, <1>2 DEF IInv, Types, Goto, Labels, Joining
<1>10. Roles'
  BY <1>2, <1>3, <1>8 DEF IInv, Roles, Creating, Joining
<1>11. Creators'
  BY <1>2, <1>3, <1>8 DEF IInv, Types, Roles, Creators, Creating, Joining, Unstarted
<1>12. Joiners'
  BY <1>2, <1>3, <1>8 DEF IInv, Types, Roles, Joiners, Joining, Unstarted
<1>13. Memory'
  BY <1>2, <1>3, <1>8 DEF IInv, Memory, Unstarted, Joining, Gone
<1>14. Exits'
  BY <1>2, <1>3, <1>8 DEF IInv, Exits, Joining, Gone
<1>15. Posts'
  BY <1>2, <1>3, <1>6, <1>7, <1>8 DEF IInv, Types, Posts, Joining, Gone
<1>16. Waits'
  BY <1>2, <1>3, <1>4, <1>5, <1>8 DEF IInv, Types, Roles, Waits, Joining
<1> QED
  BY <1>9, <1>10, <1>11, <1>12, <1>13, <1>14, <1>15, <1>16 DEF IInv

LEMMA JoinBlockKeeps ==
    ASSUME IInv, NEW t \in Threads, JoinBlock(t)
    PROVE  IInv'
<1> DEFINE c == other[t]
<1>1. /\ pc[t] = "join" /\ pc' = [pc EXCEPT ![t] = "join_wait"]
      /\ joinp' = [joinp EXCEPT ![c] = t]
      /\ reject' = [reject EXCEPT ![t] = None]
      /\ state[c] # "EXITED"
      /\ UNCHANGED <<mem, state, other, claimed>>
  BY DEF JoinBlock, Holds, At, Goto, callVars
<1>2. c \in Threads /\ c # None /\ c # t /\ c \in claimed
  BY <1>1 DEF IInv, Types, Roles, Joiners, Joining
<1>3. \A u \in Threads : other[u] = c => u = t
  BY <1>2 DEF IInv, Roles
<1>4. other[t] = c
  OBVIOUS
<1> HIDE DEF c
<1>5. pc'[t] = "join_wait" /\ \A u \in Threads : u # t => pc'[u] = pc[u]
  BY <1>1 DEF IInv, Types
<1>6. reject'[t] = None /\ \A u \in Threads : u # t => reject'[u] = reject[u]
  BY <1>1 DEF IInv, Types
<1>7. joinp'[c] = t /\ \A u \in Threads : u # c => joinp'[u] = joinp[u]
  BY <1>1, <1>2 DEF IInv, Types
<1>8. Types'
  BY <1>1, <1>2 DEF IInv, Types, Labels, Joining
<1>9. Roles'
  BY <1>1, <1>5 DEF IInv, Roles, Creating, Joining
<1>10. Creators'
  BY <1>1, <1>5 DEF IInv, Types, Roles, Creators, Creating, Unstarted
<1>11. Joiners'
  BY <1>1, <1>5 DEF IInv, Types, Roles, Joiners, Joining, Unstarted
<1>12. Memory' /\ Exits'
  BY <1>1, <1>5 DEF IInv, Memory, Exits, Unstarted, Gone
<1>13. Posts'
  <2>1. \A u \in Threads : u # c /\ pc[u] \notin Gone => joinp[u] # t
    BY <1>1, <1>2, ThreadLibAssumption DEF IInv, Posts
  <2>2. t \notin {None} /\ pc[t] # "post"
    BY <1>1, ThreadLibAssumption
  <2> QED
    BY <1>1, <1>2, <1>4, <1>5, <1>6, <1>7, <2>1, <2>2 DEF IInv, Types, Posts, Gone
<1>14. Waits'
  BY <1>1, <1>2, <1>3, <1>4, <1>5, <1>6, <1>7 DEF IInv, Types, Roles, Waits, Joining
<1> QED
  BY <1>8, <1>9, <1>10, <1>11, <1>12, <1>13, <1>14 DEF IInv

(* free(tcb), after the exit and with no one else on the TCB *)
LEMMA JoinFreeKeeps ==
    ASSUME IInv, NEW t \in Threads, JoinFree(t)
    PROVE  IInv'
<1> DEFINE c == other[t]
<1>1. /\ pc[t] = "final" /\ pc' = [pc EXCEPT ![t] = "run"]
      /\ mem' = [mem EXCEPT ![c] = "freed"]
      /\ other' = [other EXCEPT ![t] = None]
      /\ UNCHANGED <<state, joinp, reject, claimed>>
  BY DEF JoinFree, At, Goto
<1>2. c \in Threads /\ c # None /\ c # t /\ c \in claimed /\ pc[c] \in Gone
  BY <1>1 DEF IInv, Types, Roles, Joiners, Waits, Exits, Joining
<1>3. \A u \in Threads : u # t => other[u] # c
  BY <1>2 DEF IInv, Roles
<1>4. None \notin Threads
  BY ThreadLibAssumption
<1> HIDE DEF c
<1>5. pc'[t] = "run" /\ \A u \in Threads : u # t => pc'[u] = pc[u]
  BY <1>1 DEF IInv, Types
<1>6. other'[t] = None /\ \A u \in Threads : u # t => other'[u] = other[u]
  BY <1>1 DEF IInv, Types
<1>7. \A u \in Threads : u # c => mem'[u] = mem[u]
  BY <1>1 DEF IInv, Types
<1>8. Types'
  BY <1>1 DEF IInv, Types, Labels
<1>9. Roles'
  BY <1>4, <1>5, <1>6 DEF IInv, Roles, Creating, Joining
<1>10. Creators'
  BY <1>1, <1>3, <1>5, <1>6, <1>7 DEF IInv, Types, Roles, Creators, Creating, Unstarted
<1>11. Joiners'
  BY <1>1, <1>3, <1>5, <1>6, <1>7 DEF IInv, Types, Roles, Joiners, Joining, Unstarted
<1>12. Memory'
  <2>1. pc'[c] \in Gone /\ c \in claimed' /\ \A u \in Threads : other'[u] # c
    BY <1>1, <1>2, <1>3, <1>5, <1>6
  <2>2. mem[t] = "live"
    BY <1>1 DEF IInv, Memory, Unstarted, Gone
  <2> QED
    BY <1>1, <1>2, <1>4, <1>5, <1>6, <1>7, <2>1, <2>2 DEF IInv, Memory, Unstarted
<1>13. Exits'
  BY <1>1, <1>5 DEF IInv, Exits, Gone
<1>14. Posts'
  BY <1>1, <1>5, <1>6 DEF IInv, Types, Posts, Gone
<1>15. Waits'
  BY <1>1, <1>5, <1>6 DEF IInv, Types, Roles, Waits, Joining
<1> QED
  BY <1>8, <1>9, <1>10, <1>11, <1>12, <1>13, <1>14, <1>15 DEF IInv

LEMMA StepKeeps ==
    ASSUME IInv, NEW t \in Threads, Step(t)
    PROVE  IInv'
<1>1. CASE CreateNoTcb(t) \/ CreateNoFork(t)
  <2>1. pc[t] \in {"new_tcb", "fork"}
    BY <1>1 DEF CreateNoTcb, CreateNoFork, At
  <2> QED
    BY <1>1, <2>1, GiveUpKeeps DEF CreateNoTcb, CreateNoFork
<1>2. CASE JoinSleep(t)
  BY <1>2, Unseen DEF JoinSleep, shown, tcbVars
<1> QED
  BY <1>1, <1>2, CreateTcbKeeps, CreateForkKeeps, CreateTidKeeps, CreateReturnKeeps,
     ChildKeeps, ExitSectionKeeps, ExitPostKeeps, ExitTailKeeps, JoinTailKeeps,
     JoinBlockKeeps, JoinFreeKeeps DEF Step

LEMMA CallerKeeps ==
    ASSUME IInv, NEW t \in Threads, CallerStep(t)
    PROVE  IInv'
<1>1. CASE CallExit(t) \/ Crash(t)
  <2>1. /\ pc[t] = "run" /\ \E label \in {"exit", "killed"} : Goto(t, label)
        /\ UNCHANGED <<mem, state, joinp, reject, other, claimed>>
    BY <1>1 DEF CallExit, Crash, Killed, At, tcbVars, callVars
  <2> QED
    BY <2>1, SameState, QuietKeeps DEF Gone
<1> QED
  BY <1>1, CreateStackKeeps, CallJoinKeeps DEF CallerStep

-----------------------------------------------------------------------------
(* What the asserts of the library need (see Consistent).                  *)

(* The TID is in the TCB when anyone may look: the creator writes it before *)
(* thr_create returns, and so does the child before it runs.               *)
Tids ==
    /\ tidset \in [Threads -> BOOLEAN]
    /\ \A u \in Threads : pc[u] \notin Unstarted \cup {"born"} => tidset[u]
    /\ \A u \in Threads : state[u] # "NASCENT" => tidset[u]
    /\ \A t \in Threads : pc[t] = "set_state" => tidset[other[t]]
    /\ \A u \in Threads : pc[u] = "born" /\ ~tidset[u] =>
           \E t \in Threads : other[t] = u /\ pc[t] = "set_tid"

(* A TCB is on the list from its creation until its joiner takes it off. *)
Lists ==
    /\ \A u \in Threads : pc[u] \notin Unstarted /\ u \notin claimed => u \in thrlist
    /\ \A t \in Threads : pc[t] \in {"fork", "join", "join_wait", "take"} =>
           other[t] \in thrlist
    /\ \A t \in Threads : pc[t] = "final" => other[t] \notin thrlist
    /\ \A u \in thrlist : u \in Threads
    /\ \A u \in thrlist : mem[u] = "live" \/ pc[u] = "unforked"

(* z holds u's lock or waits for it. *)
Wants(z, u) ==
    \/ z = u /\ pc[z] = "exit"
    \/ other[z] = u /\ pc[z] \in {"join", "take"}

(* Nobody but its own exit and its one joiner ever asks for a TCB's lock. *)
LockOf(u) ==
    \/ lock[u] = Unlocked /\ \A z \in Threads : ~Wants(z, u)
    \/ \E x \in Threads :
           /\ lock[u] = [owner |-> x, queue |-> <<>>]
           /\ \A z \in Threads : Wants(z, u) <=> z = x
    \/ \E x, y \in Threads :
           /\ x # y /\ lock[u] = [owner |-> x, queue |-> <<y>>]
           /\ \A z \in Threads : Wants(z, u) <=> z \in {x, y}

Locks ==
    /\ lock \in [Threads -> [owner : Threads \cup {None}, queue : Seq(Threads)]]
    /\ \A u \in Threads : LockOf(u)

(* A stack is a thread's from its creation until the thread gives it back. *)
Has(t) == t # Main /\ pc[t] \notin {"unborn", "unforked", "gone"}

NoTwice(q) ==
    /\ q \in Seq(Threads)
    /\ \A i, j \in 1..Len(q) : q[i] = q[j] => i = j

StackTypes ==
    /\ spindex \in Nat
    /\ stack \in [Threads -> Nat] /\ stack[Main] = 0
    /\ sbase \in [Threads -> Nat]
    /\ \A t \in Threads : stack[t] < spindex /\ sbase[t] < spindex
    /\ mapped \subseteq 1..(spindex - 1)
    /\ NoTwice(slist)

Holders ==
    /\ \A t \in Threads : OnStack(t) => stack[t] \in mapped
    /\ \A t \in Threads : pc[t] = "give" => t # Main /\ stack[t] \notin mapped
    /\ \A t, u \in Threads : Has(t) /\ Has(u) /\ t # u => stack[t] # stack[u]

(* What an entry names has been given back, and to this entry alone. *)
Entries ==
    /\ \A e \in Threads : e \in ToSet(slist) => pc[e] \in {"remove", "give", "gone"}
    /\ \A e \in Threads : sbase[e] # 0 =>
           /\ e \in ToSet(slist) /\ pc[e] = "gone" /\ sbase[e] \notin mapped
           /\ \A d \in Threads : d # e => sbase[d] # sbase[e]
           /\ \A t \in Threads : Has(t) => stack[t] # sbase[e]

TInv == IInv /\ Tids /\ Lists /\ Locks /\ StackTypes /\ Holders /\ Entries

-----------------------------------------------------------------------------
(* The free list *)

LEMMA ListFacts ==
    ASSUME NEW q, NoTwice(q)
    PROVE  /\ q \in Seq(Threads) /\ Len(q) \in Nat /\ DOMAIN q = 1 .. Len(q)
           /\ \A i \in 1 .. Len(q) : q[i] \in Threads /\ q[i] \in ToSet(q)
           /\ \A u \in ToSet(q) : u \in Threads /\ \E i \in 1 .. Len(q) : q[i] = u
           /\ q = <<>> <=> ToSet(q) = {}
           /\ q = <<>> <=> Len(q) = 0
<1>1. q \in Seq(Threads) /\ Len(q) \in Nat /\ DOMAIN q = 1 .. Len(q)
  BY DEF NoTwice
<1>2. /\ \A i \in 1 .. Len(q) : q[i] \in Threads /\ q[i] \in ToSet(q)
      /\ \A u \in ToSet(q) : u \in Threads /\ \E i \in 1 .. Len(q) : q[i] = u
  BY <1>1 DEF ToSet
<1>3. q = <<>> <=> Len(q) = 0
  BY <1>1
<1>4. ToSet(q) = {} <=> Len(q) = 0
  <2>1. Len(q) = 0 => ToSet(q) = {}
    BY <1>1 DEF ToSet
  <2>2. Len(q) # 0 => q[1] \in ToSet(q)
    BY <1>1, <1>2
  <2> QED BY <2>1, <2>2
<1> QED BY <1>1, <1>2, <1>3, <1>4

LEMMA EmptyTwice == NoTwice(<<>>) /\ ToSet(<<>>) = {}
<1>1. NoTwice(<<>>)
  BY DEF NoTwice
<1> QED BY <1>1, ListFacts

(* stack_create_entry puts an entry in front. *)
LEMMA PrependLemma ==
    ASSUME NEW q, NoTwice(q), NEW t \in Threads, t \notin ToSet(q)
    PROVE  NoTwice(<<t>> \o q) /\ ToSet(<<t>> \o q) = ToSet(q) \cup {t}
<1> DEFINE r == <<t>> \o q
<1>1. /\ q \in Seq(Threads) /\ Len(q) \in Nat /\ DOMAIN q = 1 .. Len(q)
      /\ \A i \in 1 .. Len(q) : q[i] \in ToSet(q) /\ q[i] # t
  BY ListFacts
<1>2. /\ r \in Seq(Threads) /\ Len(r) = Len(q) + 1
      /\ DOMAIN r = 1 .. Len(q) + 1
      /\ r[1] = t /\ \A i \in 1 .. Len(q) : r[i + 1] = q[i]
  BY <1>1
<1> HIDE DEF r
<1>3. \A i \in 1 .. Len(q) + 1 : i = 1 \/ (i - 1 \in 1 .. Len(q) /\ r[i] = q[i - 1])
  <2> SUFFICES ASSUME NEW i \in 1 .. Len(q) + 1, i # 1
               PROVE  i - 1 \in 1 .. Len(q) /\ r[i] = q[i - 1]
    OBVIOUS
  <2>1. i - 1 \in 1 .. Len(q) /\ (i - 1) + 1 = i
    BY <1>1
  <2> QED BY <1>2, <2>1
<1>4. NoTwice(r)
  <2> SUFFICES ASSUME NEW i \in 1 .. Len(r), NEW j \in 1 .. Len(r), r[i] = r[j]
               PROVE  i = j
    BY <1>2 DEF NoTwice
  <2>1. i \in 1 .. Len(q) + 1 /\ j \in 1 .. Len(q) + 1
    BY <1>2
  <2>2. i # 1 /\ j # 1 => i - 1 = j - 1
    BY <1>3, <2>1 DEF NoTwice
  <2> QED BY <1>1, <1>2, <1>3, <2>1, <2>2
<1>5. ToSet(r) = ToSet(q) \cup {t}
  <2>1. ASSUME NEW u \in ToSet(r) PROVE u \in ToSet(q) \cup {t}
    <3>1. PICK i \in 1 .. Len(q) + 1 : r[i] = u
      BY <1>2 DEF ToSet
    <3> QED BY <1>1, <1>2, <1>3, <3>1
  <2>2. ASSUME NEW u \in ToSet(q) PROVE u \in ToSet(r)
    <3>1. PICK i \in 1 .. Len(q) : q[i] = u
      BY ListFacts
    <3>2. i + 1 \in DOMAIN r /\ r[i + 1] = u
      BY <1>1, <1>2, <3>1
    <3> QED BY <3>2 DEF ToSet
  <2>3. 1 \in DOMAIN r
    BY <1>1, <1>2
  <2> QED BY <1>2, <2>1, <2>2, <2>3 DEF ToSet
<1> QED BY <1>4, <1>5 DEF r

(* RemoveFirst closes the gap. *)
LEMMA RemovePresent ==
    ASSUME NEW q, NoTwice(q), NEW t, NEW k \in 1 .. Len(q), q[k] = t
    PROVE  /\ RemoveFirst(q, t) \in Seq(Threads)
           /\ Len(RemoveFirst(q, t)) = Len(q) - 1
           /\ DOMAIN RemoveFirst(q, t) = 1 .. Len(q) - 1
           /\ \A i \in 1 .. Len(q) - 1 :
                 RemoveFirst(q, t)[i] = IF i < k THEN q[i] ELSE q[i + 1]
<1>1. /\ q \in Seq(Threads) /\ Len(q) \in Nat /\ DOMAIN q = 1 .. Len(q)
      /\ \A i \in 1 .. Len(q) : q[i] \in ToSet(q)
  BY ListFacts
<1>2. {i \in 1 .. Len(q) : q[i] = t} = {k}
  BY DEF NoTwice
<1>3. SelectInSeq(q, LAMBDA v : v = t) = k
  BY <1>2 DEF SelectInSeq, Min
<1>4. RemoveFirst(q, t) = RemoveAt(q, k)
  BY <1>3 DEF RemoveFirst
<1> DEFINE a == SubSeq(q, 1, k - 1)
           b == SubSeq(q, k + 1, Len(q))
           r == a \o b
           n == Len(q)
<1>5. n \in Nat /\ k \in 1 .. n
  BY <1>1
<1>6. /\ a \in Seq(Threads) /\ Len(a) = k - 1
      /\ \A i \in 1 .. k - 1 : a[i] = q[i]
  BY <1>1, <1>5
<1>7. /\ b \in Seq(Threads) /\ Len(b) = n - k
      /\ \A i \in 1 .. n - k : b[i] = q[i + k]
  <2>1. \A i \in k + 1 .. n : q[i] \in Threads
    BY <1>1, <1>5
  <2> HIDE DEF b
  <2>2. /\ b \in Seq(Threads)
        /\ Len(b) = IF k + 1 <= n THEN n - (k + 1) + 1 ELSE 0
        /\ \A i \in 1 .. n - (k + 1) + 1 : b[i] = q[k + 1 + i - 1]
    BY <1>5, <2>1, SubSeqProperties DEF b
  <2> HIDE DEF n
  <2>3. Len(b) = n - k
    BY <1>5, <2>2
  <2>4. \A i \in 1 .. n - k : i \in 1 .. n - (k + 1) + 1 /\ k + 1 + i - 1 = i + k
    BY <1>5
  <2> QED BY <2>2, <2>3, <2>4
<1> HIDE DEF a, b
<1>8. /\ r \in Seq(Threads) /\ Len(r) = Len(a) + Len(b)
      /\ \A i \in 1 .. Len(a) + Len(b) :
            r[i] = IF i <= Len(a) THEN a[i] ELSE b[i - Len(a)]
  BY <1>6, <1>7, ConcatProperties
<1> HIDE DEF n
<1>9. Len(a) + Len(b) = n - 1
  BY <1>5, <1>6, <1>7
<1>10. ASSUME NEW i \in 1 .. n - 1
       PROVE  r[i] = IF i < k THEN q[i] ELSE q[i + 1]
  <2>1. r[i] = IF i <= k - 1 THEN a[i] ELSE b[i - (k - 1)]
    BY <1>6, <1>8, <1>9
  <2>2. CASE i < k
    <3>1. i \in 1 .. k - 1 /\ i <= k - 1
      BY <1>5, <2>2
    <3> QED BY <1>6, <2>1, <2>2, <3>1
  <2>3. CASE ~(i < k)
    <3>1. ~(i <= k - 1) /\ i - (k - 1) \in 1 .. n - k /\ (i - (k - 1)) + k = i + 1
      BY <1>5, <2>3
    <3> QED BY <1>7, <2>1, <2>3, <3>1
  <2> QED BY <2>2, <2>3
<1>11. /\ r \in Seq(Threads) /\ Len(r) = Len(q) - 1
       /\ DOMAIN r = 1 .. Len(q) - 1
       /\ \A i \in 1 .. Len(q) - 1 : r[i] = IF i < k THEN q[i] ELSE q[i + 1]
  <2>1. Len(r) = n - 1 /\ DOMAIN r = 1 .. n - 1
    BY <1>8, <1>9
  <2>2. r \in Seq(Threads)
    BY <1>8
  <2>3. \A i \in 1 .. n - 1 : r[i] = IF i < k THEN q[i] ELSE q[i + 1]
    BY <1>10
  <2> QED BY <2>1, <2>2, <2>3 DEF n
<1>12. RemoveAt(q, k) = r
  BY DEF RemoveAt, r, a, b
<1> HIDE DEF r
<1> QED BY <1>4, <1>11, <1>12

LEMMA RemoveFirstLemma ==
    ASSUME NEW q, NoTwice(q), NEW t
    PROVE  /\ NoTwice(RemoveFirst(q, t)) /\ ToSet(RemoveFirst(q, t)) = ToSet(q) \ {t}
<1>1. /\ q \in Seq(Threads) /\ Len(q) \in Nat /\ DOMAIN q = 1 .. Len(q)
      /\ \A i \in 1 .. Len(q) : q[i] \in ToSet(q)
      /\ \A u \in ToSet(q) : \E i \in 1 .. Len(q) : q[i] = u
  BY ListFacts
<1>2. CASE t \notin ToSet(q)
  <2>1. RemoveFirst(q, t) = q
    BY <1>1, <1>2 DEF RemoveFirst
  <2> QED BY <1>2, <2>1
<1>3. CASE t \in ToSet(q)
  <2>1. PICK k \in 1 .. Len(q) : q[k] = t
    BY <1>1, <1>3
  <2> DEFINE r == RemoveFirst(q, t)
  <2>2. /\ r \in Seq(Threads) /\ Len(r) = Len(q) - 1
        /\ DOMAIN r = 1 .. Len(q) - 1
        /\ \A i \in 1 .. Len(q) - 1 : r[i] = IF i < k THEN q[i] ELSE q[i + 1]
    BY <2>1, RemovePresent
  <2> HIDE DEF r
  <2>3. NoTwice(r)
    <3> SUFFICES ASSUME NEW i \in 1 .. Len(r), NEW j \in 1 .. Len(r), r[i] = r[j]
                 PROVE  i = j
      BY <2>2 DEF NoTwice
    <3>1. i \in 1 .. Len(q) /\ i + 1 \in 1 .. Len(q) /\ j \in 1 .. Len(q) /\ j + 1 \in 1 .. Len(q)
      BY <1>1, <2>2
    <3> QED BY <1>1, <2>1, <2>2, <3>1 DEF NoTwice
  <2>4. ASSUME NEW u \in ToSet(r) PROVE u \in ToSet(q) \ {t}
    <3>1. PICK i \in 1 .. Len(q) - 1 : r[i] = u
      BY <2>2 DEF ToSet
    <3>2. /\ i \in 1 .. Len(q) /\ i + 1 \in 1 .. Len(q)
          /\ i < k => i # k
          /\ ~(i < k) => i + 1 # k
      BY <1>1, <2>1
    <3> QED BY <1>1, <2>1, <2>2, <3>1, <3>2 DEF NoTwice
  <2>5. ASSUME NEW u \in ToSet(q), u # t PROVE u \in ToSet(r)
    <3>1. PICK i \in 1 .. Len(q) : q[i] = u
      BY <1>1
    <3>2. CASE i < k
      <4>1. i \in DOMAIN r /\ r[i] = u
        BY <1>1, <2>1, <2>2, <3>1, <3>2
      <4> QED BY <4>1 DEF ToSet
    <3>3. CASE i > k
      <4>1. i - 1 \in DOMAIN r /\ ~(i - 1 < k) /\ (i - 1) + 1 = i
        BY <1>1, <2>1, <2>2, <3>1, <3>3
      <4>2. r[i - 1] = u
        BY <2>2, <3>1, <4>1
      <4> QED BY <4>1, <4>2 DEF ToSet
    <3> QED BY <1>1, <2>1, <2>5, <3>1, <3>2, <3>3
  <2> QED BY <2>3, <2>4, <2>5 DEF r
<1> QED BY <1>2, <1>3

Less == {ss \in Nat \X Nat : ss[1] < ss[2]}

LEMMA LessWellFounded == IsWellFoundedOn(Less, Nat)
  BY NatLessThanWellFounded DEF OpToRel, Less

LEMMA MinLemma ==
    ASSUME NEW S, S \subseteq Nat, S # {}
    PROVE  Min(S) \in S
<1>1. PICK i \in S : \A j \in S : <<j, i>> \notin Less
  BY LessWellFounded, WFMin, Zenon
<1>2. ASSUME NEW j \in S PROVE i <= j
  <2>1. i \in Nat /\ j \in Nat
    OBVIOUS
  <2>2. ASSUME j < i PROVE FALSE
    <3>1. <<j, i>> \in {ss \in Nat \X Nat : ss[1] < ss[2]}
      BY <2>1, <2>2
    <3> QED BY <1>1, <3>1 DEF Less
  <2> QED BY <2>1, <2>2
<1> QED BY <1>2 DEF Min

(* alloc_from_list finds an entry whose stack has been given back. *)
LEMMA FirstUsableLemma ==
    ASSUME NoTwice(slist), Usable # {}
    PROVE  FirstUsable \in Usable
<1> DEFINE S == {i \in DOMAIN slist : slist[i] \in Usable}
<1>1. S \subseteq Nat /\ DOMAIN slist = 1 .. Len(slist)
  BY ListFacts
<1>2. PICK e \in ToSet(slist) : e \in Usable
  BY DEF Usable
<1>3. S # {}
  BY <1>2 DEF ToSet
<1>4. Min(S) \in S
  BY <1>1, <1>3, MinLemma
<1> QED BY <1>4 DEF FirstUsable

-----------------------------------------------------------------------------
(* Steps of threads that have nothing to do with a creation *)

Early == Unstarted \cup Creating \cup {"born", "child_state"}

Later(t) ==
    \/ CallExit(t) \/ Crash(t) \/ ExitSection(t) \/ ExitPost(t) \/ ExitWake(t)
    \/ ExitEntry(t) \/ ExitRemove(t) \/ ExitGive(t)
    \/ CallJoin(t) \/ JoinExited(t) \/ JoinBlock(t) \/ JoinSleep(t)
    \/ JoinWoken(t) \/ JoinTake(t) \/ JoinFree(t)

LEMMA LaterFacts ==
    ASSUME IInv, NEW t \in Threads, Later(t)
    PROVE  /\ pc[t] \notin Early /\ pc'[t] \notin Early
           /\ \A u \in Threads : u # t => pc'[u] = pc[u] /\ other'[u] = other[u]
           /\ tidset' = tidset
           /\ \A u \in Threads : state'[u] = state[u] \/ u = t
<1> USE DEF IInv, Types, Goto, At, Holds, callVars, tcbVars, stackVars
<1>1. CASE CallExit(t) \/ Crash(t) \/ CallJoin(t)
  <2>1. /\ pc[t] = "run" /\ UNCHANGED <<tidset, state>>
        /\ \E label \in {"exit", "killed", "join"} : pc' = [pc EXCEPT ![t] = label]
        /\ other' = other \/ \E u : other' = [other EXCEPT ![t] = u]
    BY <1>1 DEF CallExit, Crash, Killed, CallJoin
  <2> QED BY <2>1 DEF Early, Unstarted, Creating
<1>2. CASE ExitSection(t) \/ ExitPost(t) \/ ExitWake(t) \/ ExitEntry(t)
  <2>1. /\ pc[t] \in {"exit", "post", "wake", "entry"} /\ UNCHANGED <<tidset, other>>
        /\ state' = state \/ state' = [state EXCEPT ![t] = "EXITED"]
        /\ \E label \in {"post", "entry", "wake", "killed", "remove"} :
               pc' = [pc EXCEPT ![t] = label]
    BY <1>2 DEF ExitSection, ExitPost, ExitWake, ExitEntry, Killed
  <2> QED BY <2>1 DEF Early, Unstarted, Creating
<1>3. CASE ExitRemove(t) \/ ExitGive(t)
  <2>1. /\ pc[t] \in {"remove", "give"} /\ UNCHANGED <<tidset, state, other>>
        /\ \E label \in {"give", "gone"} : pc' = [pc EXCEPT ![t] = label]
    BY <1>3 DEF ExitRemove, ExitGive
  <2> QED BY <2>1 DEF Early, Unstarted, Creating
<1>4. CASE JoinExited(t) \/ JoinBlock(t) \/ JoinWoken(t) \/ JoinTake(t) \/ JoinFree(t)
  <2>1. /\ pc[t] \in {"join", "join_wait", "take", "final"} /\ UNCHANGED <<tidset, state>>
        /\ \E label \in {"take", "join_wait", "final", "run"} :
               pc' = [pc EXCEPT ![t] = label]
        /\ other' = other \/ other' = [other EXCEPT ![t] = None]
    BY <1>4 DEF JoinExited, JoinBlock, JoinWoken, JoinTake, JoinFree
  <2> QED BY <2>1 DEF Early, Unstarted, Creating
<1>5. CASE JoinSleep(t)
  BY <1>5 DEF JoinSleep, Early, Unstarted, Creating
<1> QED BY <1>1, <1>2, <1>3, <1>4, <1>5 DEF Later

-----------------------------------------------------------------------------
(* Tids *)

(* A thread is created once at a time, and not by itself. *)
LEMMA Child ==
    ASSUME IInv, NEW t \in Threads, pc[t] \in Creating
    PROVE  /\ other[t] \in Threads /\ other[t] # t /\ other[t] # None
           /\ \A u \in Threads : u # t => other[u] # other[t]
  BY DEF IInv, Types, Roles

LEMMA CreateStackTids ==
    ASSUME IInv, Tids, NEW t \in Threads, CreateStack(t)
    PROVE  Tids'
<1>1. pc[t] = "run" /\ UNCHANGED <<state, tidset>>
  BY DEF CreateStack, At, tcbVars
<1>2. CASE UNCHANGED <<pc, other>>
  BY <1>1, <1>2 DEF Tids
<1>3. ASSUME NEW c \in Children, pc[c] = "unborn",
             pc' = [pc EXCEPT ![t] = "new_tcb", ![c] = "reserved"],
             other' = [other EXCEPT ![t] = c]
      PROVE  Tids'
  BY <1>1, <1>3 DEF Tids, IInv, Types, Unstarted, Children
<1> QED BY <1>2, <1>3 DEF CreateStack

LEMMA CreateTcbTids ==
    ASSUME IInv, Tids, NEW t \in Threads, CreateTcb(t)
    PROVE  Tids'
<1>1. /\ pc[t] = "new_tcb" /\ pc' = [pc EXCEPT ![t] = "fork"]
      /\ UNCHANGED <<state, tidset, other>>
  BY DEF CreateTcb, At, Goto, callVars
<1> QED BY <1>1 DEF Tids, IInv, Types, Unstarted

LEMMA GiveUpTids ==
    ASSUME IInv, Tids, NEW t \in Threads, NEW label \in {"unborn", "unforked"},
           pc[t] \in {"new_tcb", "fork"}, GiveUp(t, label)
    PROVE  Tids'
<1>1. /\ pc' = [pc EXCEPT ![t] = "run", ![other[t]] = label]
      /\ other' = [other EXCEPT ![t] = None]
      /\ UNCHANGED <<state, tidset>>
  BY DEF GiveUp
<1>2. other[t] \in Threads /\ other[t] # t /\ pc[other[t]] = "reserved"
  BY Child DEF Creating, IInv, Creators
<1>3. /\ pc'[t] = "run" /\ pc'[other[t]] = label
      /\ \A u \in Threads : u # t /\ u # other[t] => pc'[u] = pc[u]
      /\ \A u \in Threads : u # t => other'[u] = other[u]
  BY <1>1, <1>2 DEF IInv, Types
<1>4. \A v \in Threads : pc[v] \in {"set_tid", "set_state"} =>
          v # t /\ pc'[v] = pc[v] /\ other'[v] = other[v]
  BY <1>1, <1>2, <1>3
<1>5. \A u \in Threads : pc'[u] \notin Unstarted \cup {"born"} => tidset[u]
  BY <1>1, <1>2, <1>3 DEF Tids, Unstarted
<1>6. \A v \in Threads : pc'[v] = "set_state" => tidset[other'[v]]
  BY <1>1, <1>2, <1>3, <1>4 DEF Tids
<1>7. ASSUME NEW u \in Threads, pc'[u] = "born", ~tidset[u]
      PROVE  \E v \in Threads : other'[v] = u /\ pc'[v] = "set_tid"
  <2>1. u # other[t] /\ u # t
    BY <1>1, <1>2, <1>3, <1>7
  <2>2. pc[u] = "born"
    BY <1>3, <1>7, <2>1
  <2>3. PICK v \in Threads : other[v] = u /\ pc[v] = "set_tid"
    BY <1>7, <2>2 DEF Tids
  <2> QED BY <1>1, <1>4, <2>3
<1> QED BY <1>1, <1>5, <1>6, <1>7 DEF Tids

LEMMA CreateForkTids ==
    ASSUME IInv, Tids, NEW t \in Threads, CreateFork(t)
    PROVE  Tids'
<1>1. /\ pc[t] = "fork" /\ pc' = [pc EXCEPT ![t] = "set_tid", ![other[t]] = "born"]
      /\ UNCHANGED <<state, tidset, other>>
  BY DEF CreateFork, At, tcbVars, callVars
<1>2. other[t] \in Threads /\ other[t] # t /\ pc[other[t]] = "reserved"
  BY <1>1, Child DEF Creating, IInv, Creators
<1>3. /\ pc'[t] = "set_tid" /\ pc'[other[t]] = "born"
      /\ \A u \in Threads : u # t /\ u # other[t] => pc'[u] = pc[u]
  BY <1>1, <1>2 DEF IInv, Types
<1>4. \A v \in Threads : pc[v] \in {"set_tid", "set_state"} =>
          v # t /\ pc'[v] = pc[v] /\ other'[v] = other[v]
  BY <1>1, <1>2, <1>3
<1>5. \A u \in Threads : pc'[u] \notin Unstarted \cup {"born"} => tidset[u]
  BY <1>1, <1>2, <1>3 DEF Tids, Unstarted
<1>6. \A v \in Threads : pc'[v] = "set_state" => tidset[other'[v]]
  BY <1>1, <1>2, <1>3, <1>4 DEF Tids
<1>7. ASSUME NEW u \in Threads, pc'[u] = "born", ~tidset[u]
      PROVE  \E v \in Threads : other'[v] = u /\ pc'[v] = "set_tid"
  <2>1. CASE u = other[t]
    BY <1>1, <1>3, <2>1
  <2>2. CASE u # other[t]
    <3>1. pc[u] = "born"
      BY <1>3, <1>7, <2>2
    <3>2. PICK v \in Threads : other[v] = u /\ pc[v] = "set_tid"
      BY <1>7, <3>1 DEF Tids
    <3> QED BY <1>4, <3>2
  <2> QED BY <2>1, <2>2
<1> QED BY <1>1, <1>5, <1>6, <1>7 DEF Tids

LEMMA CreateTidTids ==
    ASSUME IInv, Tids, NEW t \in Threads, CreateTid(t)
    PROVE  Tids'
<1>1. /\ pc[t] = "set_tid" /\ pc' = [pc EXCEPT ![t] = "set_state"]
      /\ tidset' = [tidset EXCEPT ![other[t]] = TRUE]
      /\ UNCHANGED <<state, other>>
  BY DEF CreateTid, SetTid, At, Goto, callVars
<1>2. /\ other[t] \in Threads /\ other[t] # t
      /\ \A u \in Threads : u # t => other[u] # other[t]
  BY <1>1, Child DEF Creating
<1>3. pc'[t] = "set_state" /\ \A u \in Threads : u # t => pc'[u] = pc[u]
  BY <1>1 DEF IInv, Types
<1>4. /\ tidset' \in [Threads -> BOOLEAN] /\ tidset'[other[t]]
      /\ \A u \in Threads : u # other[t] => tidset'[u] = tidset[u]
  BY <1>1, <1>2 DEF Tids
<1> QED BY <1>1, <1>2, <1>3, <1>4 DEF Tids, Unstarted

LEMMA CreateReturnTids ==
    ASSUME IInv, Tids, NEW t \in Threads, CreateReturn(t)
    PROVE  Tids'
<1>1. /\ pc[t] = "set_state" /\ pc' = [pc EXCEPT ![t] = "run"]
      /\ other' = [other EXCEPT ![t] = None] /\ tidset' = tidset
      /\ state' = [state EXCEPT ![other[t]] = IF @ = "NASCENT" THEN "ACTIVE" ELSE @]
  BY DEF CreateReturn, Activate, At, Goto
<1>2. other[t] \in Threads /\ tidset[other[t]]
  BY <1>1, Child DEF Creating, Tids
<1>3. pc'[t] = "run" /\ \A u \in Threads : u # t => pc'[u] = pc[u] /\ other'[u] = other[u]
  BY <1>1 DEF IInv, Types
<1>4. \A u \in Threads : u # other[t] => state'[u] = state[u]
  BY <1>1 DEF IInv, Types
<1> QED BY <1>1, <1>2, <1>3, <1>4 DEF Tids, Unstarted

LEMMA ChildTids ==
    ASSUME IInv, Tids, NEW t \in Threads, ChildTid(t) \/ ChildState(t)
    PROVE  Tids'
<1>1. CASE ChildTid(t)
  <2>1. /\ pc[t] = "born" /\ pc' = [pc EXCEPT ![t] = "child_state"]
        /\ UNCHANGED <<state, other>>
        /\ \/ tidset' = tidset /\ state[t] # "NASCENT"
           \/ tidset' = [tidset EXCEPT ![t] = TRUE]
    BY <1>1 DEF ChildTid, SetTid, At, Goto, tcbVars, callVars
  <2>2. pc'[t] = "child_state" /\ \A u \in Threads : u # t => pc'[u] = pc[u]
    BY <2>1 DEF IInv, Types
  <2>3. /\ tidset' \in [Threads -> BOOLEAN] /\ tidset'[t]
        /\ \A u \in Threads : u # t => tidset'[u] = tidset[u]
    <3>1. tidset \in [Threads -> BOOLEAN] /\ (state[t] # "NASCENT" => tidset[t])
      BY DEF Tids
    <3>2. CASE tidset' = tidset /\ state[t] # "NASCENT"
      BY <3>1, <3>2
    <3>3. CASE tidset' = [tidset EXCEPT ![t] = TRUE]
      BY <3>1, <3>3
    <3> QED BY <2>1, <3>2, <3>3
  <2>4. \A u \in Threads : pc[u] = "set_state" => other[u] \in Threads
    BY Child DEF Creating
  <2> QED BY <2>1, <2>2, <2>3, <2>4 DEF Tids, Unstarted
<1>2. CASE ChildState(t)
  <2>1. /\ pc[t] = "child_state" /\ pc' = [pc EXCEPT ![t] = "run"]
        /\ UNCHANGED <<tidset, other>>
        /\ \A u \in Threads : u # t => state'[u] = state[u]
    BY <1>2 DEF ChildState, Activate, At, Goto, callVars, IInv, Types
  <2>2. pc'[t] = "run" /\ \A u \in Threads : u # t => pc'[u] = pc[u]
    BY <2>1 DEF IInv, Types
  <2> QED BY <2>1, <2>2 DEF Tids, Unstarted
<1> QED BY <1>1, <1>2

LEMMA LaterTids ==
    ASSUME IInv, Tids, NEW t \in Threads, Later(t)
    PROVE  Tids'
<1>1. /\ pc[t] \notin Early /\ pc'[t] \notin Early
      /\ \A u \in Threads : u # t => pc'[u] = pc[u] /\ other'[u] = other[u]
      /\ tidset' = tidset
      /\ \A u \in Threads : state'[u] = state[u] \/ u = t
  BY LaterFacts
<1> QED BY <1>1 DEF Tids, Early, Unstarted, Creating

LEMMA StepTids ==
    ASSUME IInv, Tids, NEW t \in Threads, Step(t) \/ CallerStep(t)
    PROVE  Tids'
<1>1. CASE CreateNoTcb(t) \/ CreateNoFork(t)
  <2>1. pc[t] \in {"new_tcb", "fork"}
    BY <1>1 DEF CreateNoTcb, CreateNoFork, At
  <2> QED BY <1>1, <2>1, GiveUpTids DEF CreateNoTcb, CreateNoFork
<1> QED
  BY <1>1, CreateStackTids, CreateTcbTids, CreateForkTids, CreateTidTids, CreateReturnTids,
     ChildTids, LaterTids DEF Later, Step, CallerStep

-----------------------------------------------------------------------------
(* Lists *)

(* Steps that leave the list, and who is created or joined, alone *)
Steady(t) ==
    \/ CreateTid(t) \/ CreateReturn(t) \/ ChildTid(t) \/ ChildState(t)
    \/ CallExit(t) \/ Crash(t) \/ ExitSection(t) \/ ExitPost(t) \/ ExitWake(t)
    \/ ExitEntry(t) \/ ExitRemove(t) \/ ExitGive(t)
    \/ JoinExited(t) \/ JoinBlock(t) \/ JoinSleep(t) \/ JoinWoken(t)

LEMMA SteadyFacts ==
    ASSUME IInv, NEW t \in Threads, Steady(t)
    PROVE  /\ UNCHANGED <<thrlist, mem, claimed>>
           /\ pc[t] \notin Unstarted
           /\ \A u \in Threads : u # t => pc'[u] = pc[u] /\ other'[u] = other[u]
           /\ pc'[t] \in {"new_tcb", "fork", "join", "join_wait", "take", "final"} =>
                  /\ pc[t] \in {"join", "join_wait"} /\ pc'[t] \in {"join_wait", "take"}
                  /\ other'[t] = other[t]
<1> USE DEF IInv, Types, Goto, At, Holds, callVars, tcbVars, stackVars
<1>1. CASE CreateTid(t) \/ ChildTid(t) \/ ChildState(t) \/ CreateReturn(t)
  <2>1. /\ pc[t] \in {"set_tid", "born", "child_state", "set_state"}
        /\ UNCHANGED <<thrlist, mem, claimed>>
        /\ \E label \in {"set_state", "child_state", "run"} :
               pc' = [pc EXCEPT ![t] = label]
        /\ other' = other \/ other' = [other EXCEPT ![t] = None]
    BY <1>1 DEF CreateTid, CreateReturn, ChildTid, ChildState, SetTid
  <2> QED BY <2>1 DEF Unstarted
<1>2. CASE CallExit(t) \/ Crash(t) \/ ExitSection(t) \/ ExitPost(t) \/ ExitWake(t)
  <2>1. /\ pc[t] \in {"run", "exit", "post", "wake"}
        /\ UNCHANGED <<thrlist, mem, claimed, other>>
        /\ \E label \in {"exit", "killed", "post", "entry", "wake"} :
               pc' = [pc EXCEPT ![t] = label]
    BY <1>2 DEF CallExit, Crash, ExitSection, ExitPost, ExitWake, Killed
  <2> QED BY <2>1 DEF Unstarted
<1>3. CASE ExitEntry(t) \/ ExitRemove(t) \/ ExitGive(t)
  <2>1. /\ pc[t] \in {"entry", "remove", "give"}
        /\ UNCHANGED <<thrlist, mem, claimed, other>>
        /\ \E label \in {"remove", "give", "gone"} : pc' = [pc EXCEPT ![t] = label]
    BY <1>3 DEF ExitEntry, ExitRemove, ExitGive
  <2> QED BY <2>1 DEF Unstarted
<1>4. CASE JoinExited(t) \/ JoinBlock(t) \/ JoinWoken(t)
  <2>1. /\ pc[t] \in {"join", "join_wait"}
        /\ UNCHANGED <<thrlist, mem, claimed, other>>
        /\ \E label \in {"take", "join_wait"} : pc' = [pc EXCEPT ![t] = label]
    BY <1>4 DEF JoinExited, JoinBlock, JoinWoken
  <2> QED BY <2>1 DEF Unstarted
<1>5. CASE JoinSleep(t)
  BY <1>5 DEF JoinSleep, Unstarted
<1> QED BY <1>1, <1>2, <1>3, <1>4, <1>5 DEF Steady

LEMMA SteadyLists ==
    ASSUME IInv, Lists, NEW t \in Threads, Steady(t)
    PROVE  Lists'
  BY SteadyFacts DEF Lists, Unstarted

LEMMA CreateStackLists ==
    ASSUME IInv, Lists, NEW t \in Threads, CreateStack(t)
    PROVE  Lists'
<1>1. pc[t] = "run" /\ UNCHANGED <<thrlist, mem, claimed>>
  BY DEF CreateStack, At, tcbVars
<1>2. CASE UNCHANGED <<pc, other>>
  BY <1>1, <1>2 DEF Lists
<1>3. ASSUME NEW c \in Children, pc[c] = "unborn",
             pc' = [pc EXCEPT ![t] = "new_tcb", ![c] = "reserved"],
             other' = [other EXCEPT ![t] = c]
      PROVE  Lists'
  <2>1. c \in Threads /\ c # t
    BY <1>1, <1>3 DEF Children
  <2>2. /\ pc'[t] = "new_tcb" /\ pc'[c] = "reserved"
        /\ \A u \in Threads : u # t /\ u # c => pc'[u] = pc[u]
        /\ \A u \in Threads : u # t => other'[u] = other[u]
    BY <1>3, <2>1 DEF IInv, Types
  <2>3. \A u \in Threads : pc'[u] \notin Unstarted =>
            pc[u] \notin Unstarted /\ (u = t \/ (pc'[u] = pc[u] /\ other'[u] = other[u]))
    BY <1>1, <1>3, <2>1, <2>2 DEF Unstarted
  <2>4. \A u \in thrlist : mem[u] = "live" \/ pc'[u] = "unforked"
    BY <1>1, <1>3, <2>1, <2>2 DEF Lists
  <2> QED BY <1>1, <2>2, <2>3, <2>4 DEF Lists, Unstarted
<1> QED BY <1>2, <1>3 DEF CreateStack

LEMMA CreateTcbLists ==
    ASSUME IInv, Lists, NEW t \in Threads, CreateTcb(t)
    PROVE  Lists'
<1>1. /\ pc[t] = "new_tcb" /\ pc' = [pc EXCEPT ![t] = "fork"]
      /\ mem' = [mem EXCEPT ![other[t]] = "live"]
      /\ thrlist' = thrlist \cup {other[t]}
      /\ UNCHANGED <<claimed, other>>
  BY DEF CreateTcb, At, Goto, callVars
<1>2. /\ other[t] \in Threads /\ \A u \in Threads : u # t => other[u] # other[t]
  BY <1>1, Child DEF Creating
<1>3. pc'[t] = "fork" /\ \A u \in Threads : u # t => pc'[u] = pc[u]
  BY <1>1 DEF IInv, Types
<1>4. mem'[other[t]] = "live" /\ \A u \in Threads : u # other[t] => mem'[u] = mem[u]
  BY <1>1, <1>2 DEF IInv, Types
<1> QED BY <1>1, <1>2, <1>3, <1>4 DEF Lists, Unstarted

LEMMA GiveUpLists ==
    ASSUME IInv, Lists, NEW t \in Threads, CreateNoTcb(t) \/ CreateNoFork(t)
    PROVE  Lists'
<1> DEFINE c == other[t]
<1>1. PICK label \in {"unborn", "unforked"} :
          /\ pc' = [pc EXCEPT ![t] = "run", ![c] = label]
          /\ label = "unforked" \/ mem' = mem
  BY DEF CreateNoTcb, CreateNoFork, GiveUp
<1>2. /\ pc[t] \in {"new_tcb", "fork"} /\ UNCHANGED <<thrlist, claimed>>
      /\ other' = [other EXCEPT ![t] = None]
      /\ mem' = mem \/ mem' = [mem EXCEPT ![c] = "freed"]
  BY DEF CreateNoTcb, CreateNoFork, GiveUp, At
<1>3. c \in Threads /\ c # t /\ pc[c] = "reserved"
  BY <1>2, Child DEF Creating, IInv, Creators
<1> HIDE DEF c
<1>4. /\ pc'[t] = "run" /\ pc'[c] = label
      /\ \A u \in Threads : u # t /\ u # c => pc'[u] = pc[u]
      /\ \A u \in Threads : u # t => other'[u] = other[u]
      /\ \A u \in Threads : u # c => mem'[u] = mem[u]
  BY <1>1, <1>2, <1>3 DEF IInv, Types
<1>5. \A u \in Threads : pc'[u] \notin Unstarted =>
          pc[u] \notin Unstarted /\ (u = t \/ (pc'[u] = pc[u] /\ other'[u] = other[u]))
  BY <1>1, <1>2, <1>3, <1>4 DEF Unstarted
<1>6. \A u \in thrlist : mem'[u] = "live" \/ pc'[u] = "unforked"
  BY <1>1, <1>2, <1>3, <1>4 DEF Lists
<1> QED BY <1>2, <1>4, <1>5, <1>6 DEF Lists, Unstarted

LEMMA CreateForkLists ==
    ASSUME IInv, Lists, NEW t \in Threads, CreateFork(t)
    PROVE  Lists'
<1> DEFINE c == other[t]
<1>1. /\ pc[t] = "fork" /\ pc' = [pc EXCEPT ![t] = "set_tid", ![c] = "born"]
      /\ UNCHANGED <<thrlist, mem, claimed, other>>
  BY DEF CreateFork, At, tcbVars, callVars
<1>2. c \in Threads /\ c # t /\ pc[c] = "reserved" /\ c \in thrlist
  BY <1>1, Child DEF Creating, IInv, Creators, Lists
<1> HIDE DEF c
<1>3. /\ pc'[t] = "set_tid" /\ pc'[c] = "born"
      /\ \A u \in Threads : u # t /\ u # c => pc'[u] = pc[u]
  BY <1>1, <1>2 DEF IInv, Types
<1> QED BY <1>1, <1>2, <1>3 DEF Lists, Unstarted

LEMMA CallJoinLists ==
    ASSUME IInv, Lists, NEW t \in Threads, CallJoin(t)
    PROVE  Lists'
<1>1. PICK c \in Joinable \ {t} :
          other' = [other EXCEPT ![t] = c] /\ claimed' = claimed \cup {c}
  BY DEF CallJoin
<1>2. /\ pc[t] = "run" /\ pc' = [pc EXCEPT ![t] = "join"]
      /\ UNCHANGED <<mem, thrlist>>
  BY DEF CallJoin, At, Goto
<1>3. c \in thrlist
  BY <1>1 DEF Joinable, Children, Lists, Unstarted
<1>4. /\ pc'[t] = "join" /\ other'[t] = c
      /\ \A u \in Threads : u # t => pc'[u] = pc[u] /\ other'[u] = other[u]
  BY <1>1, <1>2 DEF IInv, Types
<1> QED BY <1>1, <1>2, <1>3, <1>4 DEF Lists, Unstarted

LEMMA JoinTakeLists ==
    ASSUME IInv, Lists, NEW t \in Threads, JoinTake(t)
    PROVE  Lists'
<1>1. /\ pc[t] = "take" /\ pc' = [pc EXCEPT ![t] = "final"]
      /\ thrlist' = thrlist \ {other[t]}
      /\ UNCHANGED <<mem, other, claimed>>
  BY DEF JoinTake, Holds, At, Goto, callVars
<1>2. /\ other[t] \in claimed
      /\ \A u \in Threads : u # t => other[u] # other[t]
  BY <1>1 DEF IInv, Roles, Joiners, Joining
<1>3. pc'[t] = "final" /\ \A u \in Threads : u # t => pc'[u] = pc[u]
  BY <1>1 DEF IInv, Types
<1> QED BY <1>1, <1>2, <1>3 DEF Lists, Unstarted

LEMMA JoinFreeLists ==
    ASSUME IInv, Lists, NEW t \in Threads, JoinFree(t)
    PROVE  Lists'
<1>1. /\ pc[t] = "final" /\ pc' = [pc EXCEPT ![t] = "run"]
      /\ mem' = [mem EXCEPT ![other[t]] = "freed"]
      /\ other' = [other EXCEPT ![t] = None]
      /\ UNCHANGED <<thrlist, claimed>>
  BY DEF JoinFree, At, Goto
<1>2. other[t] \notin thrlist
  BY <1>1 DEF Lists
<1>3. /\ pc'[t] = "run"
      /\ \A u \in Threads : u # t => pc'[u] = pc[u] /\ other'[u] = other[u]
      /\ \A u \in Threads : u # other[t] => mem'[u] = mem[u]
  BY <1>1 DEF IInv, Types
<1> QED BY <1>1, <1>2, <1>3 DEF Lists, Unstarted

LEMMA StepLists ==
    ASSUME IInv, Lists, NEW t \in Threads, Step(t) \/ CallerStep(t)
    PROVE  Lists'
  BY SteadyLists, CreateStackLists, CreateTcbLists, GiveUpLists, CreateForkLists,
     CallJoinLists, JoinTakeLists, JoinFreeLists DEF Steady, Step, CallerStep

-----------------------------------------------------------------------------
(* Locks *)

Asking == {"exit", "join", "take"}

LEMMA SameWants ==
    ASSUME \A z \in Threads :
               \/ pc'[z] = pc[z] /\ other'[z] = other[z]
               \/ pc[z] \notin Asking /\ pc'[z] \notin Asking
               \/ pc[z] = "join" /\ pc'[z] = "take" /\ other'[z] = other[z]
    PROVE  \A z, v \in Threads : Wants(z, v)' <=> Wants(z, v)
  BY DEF Wants, Asking

LEMMA SameLockOf ==
    ASSUME NEW v \in Threads, LockOf(v), lock'[v] = lock[v],
           \A z \in Threads : Wants(z, v)' <=> Wants(z, v)
    PROVE  LockOf(v)'
<1>1. CASE lock[v] = Unlocked /\ \A z \in Threads : ~Wants(z, v)
  <2>1. lock'[v] = Unlocked /\ \A z \in Threads : ~Wants(z, v)'
    BY <1>1
  <2> QED BY <2>1 DEF LockOf, Unlocked
<1>2. ASSUME NEW x \in Threads, lock[v] = [owner |-> x, queue |-> <<>>],
             \A z \in Threads : Wants(z, v) <=> z = x
      PROVE  LockOf(v)'
  <2>1. /\ lock'[v] = [owner |-> x, queue |-> <<>>]
        /\ \A z \in Threads : Wants(z, v)' <=> z = x
    BY <1>2
  <2> QED BY <2>1 DEF LockOf
<1>3. ASSUME NEW x \in Threads, NEW y \in Threads,
             x # y, lock[v] = [owner |-> x, queue |-> <<y>>],
             \A z \in Threads : Wants(z, v) <=> z \in {x, y}
      PROVE  LockOf(v)'
  <2>1. /\ lock'[v] = [owner |-> x, queue |-> <<y>>]
        /\ \A z \in Threads : Wants(z, v)' <=> z \in {x, y}
    BY <1>3
  <2> QED BY <2>1, <1>3 DEF LockOf
<1> QED BY <1>1, <1>2, <1>3 DEF LockOf

LEMMA SameLocks ==
    ASSUME Locks, UNCHANGED lock,
           \A z, v \in Threads : Wants(z, v)' <=> Wants(z, v)
    PROVE  Locks'
<1>1. ASSUME NEW u \in Threads PROVE LockOf(u)'
  BY SameLockOf DEF Locks
<1> QED BY <1>1 DEF Locks

(* mutex_lock by a thread that does not want the lock yet *)
LEMMA AskKeeps ==
    ASSUME Locks, NEW t \in Threads, NEW u \in Threads, TcbLock(t, u), ~Wants(t, u),
           \A x, y \in Threads : Wants(x, u) /\ Wants(y, u) => x = y,
           \A z, v \in Threads : Wants(z, v)' <=> (Wants(z, v) \/ (z = t /\ v = u))
    PROVE  Locks'
<1>1. /\ lock[u] \in [owner : Threads \cup {None}, queue : Seq(Threads)]
      /\ lock'[u] = IF lock[u].owner = None
                    THEN [owner |-> t, queue |-> lock[u].queue]
                    ELSE [owner |-> lock[u].owner, queue |-> Append(lock[u].queue, t)]
      /\ \A v \in Threads : v # u => lock'[v] = lock[v]
  BY DEF Locks, TcbLock
<1>2. lock' \in [Threads -> [owner : Threads \cup {None}, queue : Seq(Threads)]]
  <2>1. lock'[u] \in [owner : Threads \cup {None}, queue : Seq(Threads)]
    BY <1>1
  <2>2. \A v \in Threads : lock'[v] \in [owner : Threads \cup {None}, queue : Seq(Threads)]
    BY <1>1, <2>1 DEF Locks
  <2> QED BY <2>2 DEF Locks, TcbLock
<1>3. ASSUME NEW v \in Threads, v # u PROVE LockOf(v)'
  <2>1. LockOf(v) /\ lock'[v] = lock[v] /\ \A z \in Threads : Wants(z, v)' <=> Wants(z, v)
    BY <1>1, <1>3 DEF Locks
  <2> QED BY <2>1, SameLockOf
<1>4. LockOf(u)'
  <2>1. \A z \in Threads : Wants(z, u)' <=> (Wants(z, u) \/ z = t)
    OBVIOUS
  <2>2. CASE lock[u] = Unlocked /\ \A z \in Threads : ~Wants(z, u)
    <3>1. lock'[u] = [owner |-> t, queue |-> <<>>]
      BY <1>1, <2>2 DEF Unlocked
    <3> QED BY <2>1, <2>2, <3>1 DEF LockOf
  <2>3. ASSUME NEW x \in Threads, lock[u] = [owner |-> x, queue |-> <<>>],
               \A z \in Threads : Wants(z, u) <=> z = x
        PROVE  LockOf(u)'
    <3>1. x # None /\ x # t
      BY <2>3, ThreadLibAssumption
    <3>2. lock'[u] = [owner |-> x, queue |-> <<t>>]
      BY <1>1, <2>3, <3>1
    <3>3. \A z \in Threads : Wants(z, u)' <=> z \in {x, t}
      BY <2>1, <2>3
    <3> QED BY <3>1, <3>2, <3>3 DEF LockOf
  <2>4. ASSUME NEW x \in Threads, NEW y \in Threads, x # y,
               \A z \in Threads : Wants(z, u) <=> z \in {x, y}
        PROVE  FALSE
    BY <2>4
  <2>5. \/ lock[u] = Unlocked /\ \A z \in Threads : ~Wants(z, u)
        \/ \E x \in Threads :
               /\ lock[u] = [owner |-> x, queue |-> <<>>]
               /\ \A z \in Threads : Wants(z, u) <=> z = x
        \/ \E x, y \in Threads :
               /\ x # y /\ lock[u] = [owner |-> x, queue |-> <<y>>]
               /\ \A z \in Threads : Wants(z, u) <=> z \in {x, y}
    BY DEF Locks, LockOf
  <2> QED BY <2>2, <2>3, <2>4, <2>5
<1> QED BY <1>2, <1>3, <1>4 DEF Locks

(* mutex_unlock by the owner *)
LEMMA GiveKeeps ==
    ASSUME Locks, NEW t \in Threads, NEW u \in Threads, TcbUnlock(u), lock[u].owner = t,
           \A z, v \in Threads : Wants(z, v)' <=> (Wants(z, v) /\ ~(z = t /\ v = u))
    PROVE  Locks'
<1>1. /\ lock[u] \in [owner : Threads \cup {None}, queue : Seq(Threads)]
      /\ lock'[u] = IF lock[u].queue = <<>> THEN Unlocked
                    ELSE [owner |-> Head(lock[u].queue), queue |-> Tail(lock[u].queue)]
      /\ \A v \in Threads : v # u => lock'[v] = lock[v]
  BY DEF Locks, TcbUnlock
<1>2. lock' \in [Threads -> [owner : Threads \cup {None}, queue : Seq(Threads)]]
  <2>1. lock'[u] \in [owner : Threads \cup {None}, queue : Seq(Threads)]
    BY <1>1 DEF Unlocked
  <2> QED BY <2>1 DEF Locks, TcbUnlock
<1>3. ASSUME NEW v \in Threads, v # u PROVE LockOf(v)'
  <2>1. LockOf(v) /\ lock'[v] = lock[v] /\ \A z \in Threads : Wants(z, v)' <=> Wants(z, v)
    BY <1>1, <1>3 DEF Locks
  <2> QED BY <2>1, SameLockOf
<1>4. LockOf(u)'
  <2>1. \A z \in Threads : Wants(z, u)' <=> (Wants(z, u) /\ z # t)
    OBVIOUS
  <2>2. CASE lock[u] = Unlocked
    BY <2>2, ThreadLibAssumption DEF Unlocked
  <2>3. ASSUME NEW x \in Threads, lock[u] = [owner |-> x, queue |-> <<>>],
               \A z \in Threads : Wants(z, u) <=> z = x
        PROVE  LockOf(u)'
    <3>1. lock'[u] = Unlocked /\ x = t
      BY <1>1, <2>3
    <3> QED BY <2>1, <2>3, <3>1 DEF LockOf
  <2>4. ASSUME NEW x \in Threads, NEW y \in Threads, x # y,
               lock[u] = [owner |-> x, queue |-> <<y>>],
               \A z \in Threads : Wants(z, u) <=> z \in {x, y}
        PROVE  LockOf(u)'
    <3>1. lock'[u] = [owner |-> y, queue |-> <<>>] /\ x = t
      BY <1>1, <2>4
    <3>2. \A z \in Threads : Wants(z, u)' <=> z = y
      BY <2>1, <2>4, <3>1
    <3> QED BY <3>1, <3>2 DEF LockOf
  <2>5. \/ lock[u] = Unlocked /\ \A z \in Threads : ~Wants(z, u)
        \/ \E x \in Threads :
               /\ lock[u] = [owner |-> x, queue |-> <<>>]
               /\ \A z \in Threads : Wants(z, u) <=> z = x
        \/ \E x, y \in Threads :
               /\ x # y /\ lock[u] = [owner |-> x, queue |-> <<y>>]
               /\ \A z \in Threads : Wants(z, u) <=> z \in {x, y}
    BY DEF Locks, LockOf
  <2> QED BY <2>2, <2>3, <2>4, <2>5
<1> QED BY <1>2, <1>3, <1>4 DEF Locks

LEMMA CreationLocks ==
    ASSUME IInv, Locks, NEW t \in Threads,
           \/ CreateStack(t) \/ CreateTcb(t) \/ CreateNoTcb(t) \/ CreateFork(t)
           \/ CreateNoFork(t) \/ CreateTid(t) \/ CreateReturn(t) \/ ChildTid(t)
           \/ ChildState(t) \/ Crash(t) \/ JoinFree(t)
    PROVE  Locks'
<1> SUFFICES /\ lock' = lock
             /\ \A z \in Threads :
                    \/ pc'[z] = pc[z] /\ other'[z] = other[z]
                    \/ pc[z] \notin Asking /\ pc'[z] \notin Asking
  BY SameWants, SameLocks
<1> USE DEF At, Goto, Asking, IInv, Types
<1>1. CASE CreateStack(t)
  <2>1. pc[t] = "run" /\ lock' = lock
    BY <1>1 DEF CreateStack, tcbVars
  <2>2. CASE UNCHANGED <<pc, other>>
    BY <2>1, <2>2
  <2>3. ASSUME NEW c \in Children, pc[c] = "unborn",
               pc' = [pc EXCEPT ![t] = "new_tcb", ![c] = "reserved"],
               other' = [other EXCEPT ![t] = c]
        PROVE  \A z \in Threads :
                   \/ pc'[z] = pc[z] /\ other'[z] = other[z]
                   \/ pc[z] \notin Asking /\ pc'[z] \notin Asking
    BY <2>1, <2>3 DEF Children
  <2> QED BY <1>1, <2>1, <2>2, <2>3 DEF CreateStack
<1>2. CASE CreateNoTcb(t) \/ CreateNoFork(t) \/ CreateFork(t)
  <2>1. /\ pc[t] \in {"new_tcb", "fork"} /\ lock' = lock
        /\ other' = other \/ other' = [other EXCEPT ![t] = None]
        /\ \E a \in {"run", "set_tid"}, b \in {"unborn", "unforked", "born"} :
               pc' = [pc EXCEPT ![t] = a, ![other[t]] = b]
    BY <1>2 DEF CreateNoTcb, CreateNoFork, CreateFork, GiveUp, tcbVars, callVars
  <2>2. other[t] \in Threads /\ pc[other[t]] = "reserved"
    BY <2>1, Child DEF Creating, Creators
  <2> QED BY <2>1, <2>2
<1>3. CASE CreateTcb(t) \/ CreateTid(t) \/ CreateReturn(t)
  <2>1. /\ pc[t] \in {"new_tcb", "set_tid", "set_state"} /\ lock' = lock
        /\ other' = other \/ other' = [other EXCEPT ![t] = None]
        /\ \E a \in {"fork", "set_state", "run"} : pc' = [pc EXCEPT ![t] = a]
    BY <1>3 DEF CreateTcb, CreateTid, SetTid, CreateReturn, callVars
  <2> QED BY <2>1
<1>4. CASE ChildTid(t) \/ ChildState(t) \/ Crash(t) \/ JoinFree(t)
  <2>1. /\ pc[t] \in {"born", "child_state", "run", "final"} /\ lock' = lock
        /\ other' = other \/ other' = [other EXCEPT ![t] = None]
        /\ \E a \in {"child_state", "run", "killed"} : pc' = [pc EXCEPT ![t] = a]
    BY <1>4 DEF ChildTid, ChildState, SetTid, Crash, Killed, JoinFree, tcbVars, callVars
  <2> QED BY <2>1
<1> QED BY <1>1, <1>2, <1>3, <1>4

LEMMA ExitLocks ==
    ASSUME IInv, Locks, NEW t \in Threads,
           CallExit(t) \/ ExitSection(t) \/ ExitPost(t) \/ ExitWake(t)
               \/ ExitEntry(t) \/ ExitRemove(t) \/ ExitGive(t)
    PROVE  Locks'
<1>1. CASE CallExit(t)
  <2>1. /\ pc[t] = "run" /\ TcbLock(t, t) /\ other' = other
        /\ pc'[t] = "exit" /\ \A z \in Threads : z # t => pc'[z] = pc[z]
    BY <1>1 DEF CallExit, At, Goto, callVars, IInv, Types
  <2>2. \A z, v \in Threads : Wants(z, v)' <=> (Wants(z, v) \/ (z = t /\ v = t))
    BY <2>1 DEF Wants
  <2>3. \A x, y \in Threads : Wants(x, t) /\ Wants(y, t) => x = y
    BY <2>1, ThreadLibAssumption DEF Wants, IInv, Roles
  <2>4. ~Wants(t, t)
    BY <2>1 DEF Wants
  <2> QED BY <2>1, <2>2, <2>3, <2>4, AskKeeps
<1>2. CASE ExitSection(t)
  <2>1. /\ pc[t] = "exit" /\ TcbUnlock(t) /\ lock[t].owner = t /\ other' = other
        /\ pc'[t] \in {"post", "entry"} /\ \A z \in Threads : z # t => pc'[z] = pc[z]
    BY <1>2 DEF ExitSection, Holds, At, Goto, callVars, IInv, Types
  <2>2. \A z, v \in Threads : Wants(z, v)' <=> (Wants(z, v) /\ ~(z = t /\ v = t))
    BY <2>1 DEF Wants
  <2> QED BY <2>1, <2>2, GiveKeeps
<1>3. CASE ExitPost(t) \/ ExitWake(t) \/ ExitEntry(t) \/ ExitRemove(t) \/ ExitGive(t)
  <2>1. /\ pc[t] \in {"post", "wake", "entry", "remove", "give"} /\ lock' = lock
        /\ other' = other
        /\ \E a \in {"wake", "entry", "remove", "give", "gone", "killed"} :
               pc' = [pc EXCEPT ![t] = a]
    BY <1>3 DEF ExitPost, ExitWake, ExitEntry, ExitRemove, ExitGive, Killed, At, Goto,
         tcbVars, callVars
  <2>2. \A z \in Threads :
            \/ pc'[z] = pc[z] /\ other'[z] = other[z]
            \/ pc[z] \notin Asking /\ pc'[z] \notin Asking
    BY <2>1 DEF Asking, IInv, Types
  <2> QED BY <2>1, <2>2, SameWants, SameLocks
<1> QED BY <1>1, <1>2, <1>3

LEMMA JoinLocks ==
    ASSUME IInv, Locks, NEW t \in Threads,
           CallJoin(t) \/ JoinExited(t) \/ JoinBlock(t) \/ JoinSleep(t)
               \/ JoinWoken(t) \/ JoinTake(t)
    PROVE  Locks'
<1>1. CASE CallJoin(t)
  <2>1. PICK c \in Joinable \ {t} : TcbLock(t, c) /\ other' = [other EXCEPT ![t] = c]
    BY <1>1 DEF CallJoin
  <2>2. /\ c \in Threads /\ c # None /\ pc[c] \notin Unstarted /\ c \notin claimed
        /\ \A z \in Threads : other[z] = c => pc[z] \notin {"set_tid", "set_state"}
    BY <2>1, ThreadLibAssumption DEF Joinable, Children, Unstarted
  <2>3. /\ pc[t] = "run" /\ pc'[t] = "join" /\ other'[t] = c /\ c # t
        /\ \A z \in Threads : z # t => pc'[z] = pc[z] /\ other'[z] = other[z]
    BY <1>1, <2>1 DEF CallJoin, At, Goto, IInv, Types
  <2>4. \A z \in Threads : other[z] # c
    BY <2>2 DEF IInv, Roles, Creators, Joiners, Creating, Unstarted
  <2>5. \A z, v \in Threads : Wants(z, v)' <=> (Wants(z, v) \/ (z = t /\ v = c))
    BY <2>3 DEF Wants
  <2>6. \A x, y \in Threads : Wants(x, c) /\ Wants(y, c) => x = y
    BY <2>4 DEF Wants
  <2>7. ~Wants(t, c)
    BY <2>3 DEF Wants
  <2> QED BY <2>1, <2>2, <2>5, <2>6, <2>7, AskKeeps
<1>2. CASE JoinBlock(t) \/ JoinTake(t)
  <2>1. /\ pc[t] \in {"join", "take"} /\ TcbUnlock(other[t]) /\ lock[other[t]].owner = t
        /\ other' = other
        /\ pc'[t] \in {"join_wait", "final"} /\ \A z \in Threads : z # t => pc'[z] = pc[z]
    BY <1>2 DEF JoinBlock, JoinTake, Holds, At, Goto, callVars, IInv, Types
  <2>2. other[t] \in Threads /\ other[t] # t
    BY <2>1 DEF IInv, Types, Roles, Joining
  <2>3. \A z, v \in Threads : Wants(z, v)' <=> (Wants(z, v) /\ ~(z = t /\ v = other[t]))
    BY <2>1, <2>2 DEF Wants
  <2> QED BY <2>1, <2>2, <2>3, GiveKeeps
<1>3. CASE JoinWoken(t)
  <2>1. /\ pc[t] = "join_wait" /\ TcbLock(t, other[t]) /\ other' = other
        /\ pc'[t] = "take" /\ \A z \in Threads : z # t => pc'[z] = pc[z]
    BY <1>3 DEF JoinWoken, At, Goto, callVars, IInv, Types
  <2>2. /\ other[t] \in Threads /\ other[t] # t
        /\ \A z \in Threads : other[z] = other[t] => z = t
    BY <2>1 DEF IInv, Types, Roles, Joining
  <2>3. \A z, v \in Threads : Wants(z, v)' <=> (Wants(z, v) \/ (z = t /\ v = other[t]))
    BY <2>1, <2>2 DEF Wants
  <2>4. \A x, y \in Threads : Wants(x, other[t]) /\ Wants(y, other[t]) => x = y
    BY <2>1, <2>2 DEF Wants
  <2>5. ~Wants(t, other[t])
    BY <2>1, <2>2 DEF Wants
  <2> QED BY <2>1, <2>2, <2>3, <2>4, <2>5, AskKeeps
<1>4. CASE JoinExited(t) \/ JoinSleep(t)
  <2>1. /\ lock' = lock /\ other' = other
        /\ pc' = pc \/ (pc[t] = "join" /\ pc' = [pc EXCEPT ![t] = "take"])
    BY <1>4 DEF JoinExited, JoinSleep, Holds, At, Goto, tcbVars, callVars
  <2>2. \A z \in Threads :
            \/ pc'[z] = pc[z] /\ other'[z] = other[z]
            \/ pc[z] = "join" /\ pc'[z] = "take" /\ other'[z] = other[z]
    BY <2>1 DEF IInv, Types
  <2> QED BY <2>1, <2>2, SameWants, SameLocks
<1> QED BY <1>1, <1>2, <1>3, <1>4

LEMMA StepLocks ==
    ASSUME IInv, Locks, NEW t \in Threads, Step(t) \/ CallerStep(t)
    PROVE  Locks'
  BY CreationLocks, ExitLocks, JoinLocks DEF Step, CallerStep

-----------------------------------------------------------------------------
(* Stacks *)

(* Who is here has given no stack back and has none to give. *)
Ending == {"unborn", "unforked", "remove", "give", "gone"}

LEMMA SameStacks ==
    ASSUME StackTypes, Holders, Entries, UNCHANGED stackVars,
           \A u \in Threads : \/ pc'[u] = pc[u]
                              \/ pc[u] \notin Ending /\ pc'[u] \notin Ending
    PROVE  StackTypes' /\ Holders' /\ Entries'
<1>1. /\ UNCHANGED <<stack, mapped, slist, sbase, spindex>>
      /\ \A u \in Threads : Has(u)' <=> Has(u)
      /\ \A u \in Threads : OnStack(u)' <=> OnStack(u)
      /\ \A u \in Threads : pc'[u] \in {"remove", "give", "gone"}
             <=> pc[u] \in {"remove", "give", "gone"}
      /\ \A u \in Threads : pc'[u] = "give" <=> pc[u] = "give"
      /\ \A u \in Threads : pc'[u] = "gone" <=> pc[u] = "gone"
  BY DEF stackVars, Has, OnStack, Ending
<1>2. StackTypes'
  BY <1>1 DEF StackTypes, NoTwice
<1>3. Holders'
  BY <1>1 DEF Holders
<1>4. Entries'
  BY <1>1 DEF Entries
<1> QED BY <1>2, <1>3, <1>4

(* What a search of the free list may leave of it. *)
Fewer ==
    /\ NoTwice(slist)'
    /\ sbase' \in [Threads -> Nat]
    /\ \A u \in Threads : sbase'[u] = 0 \/ sbase'[u] = sbase[u]
    /\ \A u \in Threads : u \in ToSet(slist') => u \in ToSet(slist)
    /\ \A u \in Threads : sbase'[u] # 0 => u \in ToSet(slist')

LEMMA ExtractFewer ==
    ASSUME StackTypes, Entries, NEW e \in Threads, Extract(e)
    PROVE  Fewer /\ sbase'[e] = 0
<1>1. /\ slist' = RemoveFirst(slist, e) /\ sbase' = [sbase EXCEPT ![e] = 0]
      /\ NoTwice(slist) /\ sbase \in [Threads -> Nat]
  BY DEF Extract, StackTypes
<1>2. NoTwice(slist') /\ ToSet(slist') = ToSet(slist) \ {e}
  BY <1>1, RemoveFirstLemma
<1>3. /\ sbase' \in [Threads -> Nat] /\ sbase'[e] = 0
      /\ \A u \in Threads : u # e => sbase'[u] = sbase[u]
  BY <1>1
<1>4. NoTwice(slist)'
  BY <1>2 DEF NoTwice
<1> QED BY <1>2, <1>3, <1>4 DEF Fewer, Entries

LEMMA UsableFacts ==
    ASSUME StackTypes, Usable # {}
    PROVE  /\ FirstUsable \in Threads /\ FirstUsable \in ToSet(slist)
           /\ sbase[FirstUsable] # 0
<1>1. NoTwice(slist)
  BY DEF StackTypes
<1>2. FirstUsable \in Usable
  BY <1>1, FirstUsableLemma
<1> QED BY <1>1, <1>2, ListFacts DEF Usable

LEMMA NotFromListFewer ==
    ASSUME StackTypes, Entries, NotFromList
    PROVE  Fewer
<1>1. CASE UNCHANGED <<slist, sbase>>
  BY <1>1 DEF Fewer, StackTypes, Entries, NoTwice
<1>2. CASE Usable # {} /\ Extract(FirstUsable)
  BY <1>2, UsableFacts, ExtractFewer
<1> QED BY <1>1, <1>2 DEF NotFromList

(* A stack nobody has is given to a thread that has none. *)
LEMMA TakeKeeps ==
    ASSUME StackTypes, Holders, Entries, Fewer, NEW c \in Threads, NEW b \in Nat,
           b # 0, b \notin mapped, b < spindex', spindex <= spindex', spindex' \in Nat,
           \A d \in Threads : sbase'[d] # b,
           \A u \in Threads : Has(u) => stack[u] # b,
           stack' = [stack EXCEPT ![c] = b], mapped' = mapped \cup {b},
           c # Main, pc[c] = "unborn", pc'[c] = "reserved",
           \A u \in Threads : u # c => \/ pc'[u] = pc[u]
                                       \/ pc[u] = "run" /\ pc'[u] = "new_tcb"
    PROVE  StackTypes' /\ Holders' /\ Entries'
<1>1. /\ stack' \in [Threads -> Nat] /\ stack'[c] = b
      /\ \A u \in Threads : u # c => stack'[u] = stack[u]
  BY DEF StackTypes
<1>2. /\ \A u \in Threads : u # c => (Has(u)' <=> Has(u))
      /\ \A u \in Threads : u # c => (OnStack(u)' <=> OnStack(u))
      /\ \A u \in Threads : OnStack(u) => Has(u)
      /\ \A u \in Threads : pc[u] \in {"remove", "give", "gone"} => pc'[u] = pc[u]
      /\ \A u \in Threads : pc'[u] = "give" => pc[u] = "give" /\ u # c
  BY DEF Has, OnStack
<1>3. c \notin ToSet(slist)
  BY DEF Entries
<1>4. StackTypes'
  <2>1. \A u \in Threads : stack'[u] < spindex' /\ sbase'[u] < spindex'
    <3>1. \A u \in Threads : stack[u] < spindex /\ stack[u] \in Nat /\ sbase[u] < spindex
                             /\ sbase[u] \in Nat /\ spindex \in Nat
      BY DEF StackTypes
    <3>2. \A u \in Threads : stack'[u] < spindex'
      BY <1>1, <3>1
    <3> QED BY <3>1, <3>2 DEF Fewer
  <2>2. mapped' \subseteq 1..(spindex' - 1)
    BY DEF StackTypes
  <2>3. stack'[Main] = 0
    BY <1>1, ThreadLibAssumption DEF StackTypes
  <2> QED BY <1>1, <2>1, <2>2, <2>3 DEF StackTypes, Fewer
<1>5. Holders'
  <2>1. \A u \in Threads : OnStack(u)' => stack'[u] \in mapped'
    BY <1>1, <1>2 DEF Holders
  <2>2. \A u \in Threads : pc'[u] = "give" => u # Main /\ stack'[u] \notin mapped'
    BY <1>1, <1>2 DEF Holders, Has
  <2>3. \A u, v \in Threads : Has(u)' /\ Has(v)' /\ u # v => stack'[u] # stack'[v]
    BY <1>1, <1>2 DEF Holders
  <2> QED BY <2>1, <2>2, <2>3 DEF Holders
<1>6. Entries'
  <2>1. \A e \in Threads : e \in ToSet(slist') => pc'[e] \in {"remove", "give", "gone"}
    BY <1>2 DEF Fewer, Entries
  <2>2. ASSUME NEW e \in Threads, sbase'[e] # 0
        PROVE  /\ e \in ToSet(slist') /\ pc'[e] = "gone" /\ sbase'[e] \notin mapped'
               /\ \A d \in Threads : d # e => sbase'[d] # sbase'[e]
               /\ \A t \in Threads : Has(t)' => stack'[t] # sbase'[e]
    <3>1. sbase'[e] = sbase[e] /\ e \in ToSet(slist') /\ pc[e] = "gone"
      BY <2>2 DEF Fewer, Entries
    <3>2. /\ sbase[e] \notin mapped
          /\ \A d \in Threads : d # e => sbase[d] # sbase[e]
          /\ \A t \in Threads : Has(t) => stack[t] # sbase[e]
      BY <2>2, <3>1 DEF Entries
    <3>3. \A d \in Threads : d # e => sbase'[d] # sbase'[e]
      BY <2>2, <3>1, <3>2 DEF Fewer
    <3> QED BY <1>1, <1>2, <2>2, <3>1, <3>2, <3>3
  <2> QED BY <2>1, <2>2 DEF Entries
<1> QED BY <1>4, <1>5, <1>6

LEMMA CreateStackStacks ==
    ASSUME IInv, StackTypes, Holders, Entries, NEW t \in Threads, CreateStack(t)
    PROVE  StackTypes' /\ Holders' /\ Entries'
<1>1. CASE AllocFails /\ UNCHANGED pc
  <2>1. Fewer /\ UNCHANGED <<stack, mapped, spindex, pc>>
    BY <1>1, NotFromListFewer DEF AllocFails
  <2>2. StackTypes'
    <3>1. \A u \in Threads : sbase'[u] < spindex
      BY <2>1 DEF Fewer, StackTypes
    <3> QED BY <2>1, <3>1 DEF Fewer, StackTypes
  <2>3. Holders'
    BY <2>1 DEF Holders, OnStack, Has
  <2>4. Entries'
    BY <2>1 DEF Fewer, Entries, Has
  <2> QED BY <2>2, <2>3, <2>4
<1>2. ASSUME NEW c \in Children, pc[c] = "unborn", AllocStack(c),
             pc' = [pc EXCEPT ![t] = "new_tcb", ![c] = "reserved"]
      PROVE  StackTypes' /\ Holders' /\ Entries'
  <2>1. pc[t] = "run" /\ c \in Threads /\ c # Main /\ c # t
    BY <1>2 DEF CreateStack, At, Children
  <2>2. /\ pc'[c] = "reserved"
        /\ \A u \in Threads : u # c => \/ pc'[u] = pc[u]
                                       \/ pc[u] = "run" /\ pc'[u] = "new_tcb"
    BY <1>2, <2>1 DEF IInv, Types
  <2>3. spindex \in Nat /\ mapped \subseteq 1..(spindex - 1)
    BY DEF StackTypes
  <2>4. CASE FromList(c)
    <3>1. PICK e \in Threads : e = FirstUsable /\ e \in ToSet(slist) /\ sbase[e] # 0
      BY <2>4, UsableFacts DEF FromList
    <3>2. /\ stack' = [stack EXCEPT ![c] = sbase[e]] /\ mapped' = mapped \cup {sbase[e]}
          /\ Extract(e) /\ spindex' = spindex
      BY <2>4, <3>1 DEF FromList
    <3>3. Fewer /\ sbase'[e] = 0
      BY <3>2, ExtractFewer
    <3>4. sbase[e] \in Nat /\ sbase[e] < spindex
      BY DEF StackTypes
    <3>5. /\ sbase[e] \notin mapped
          /\ \A d \in Threads : d # e => sbase[d] # sbase[e]
          /\ \A u \in Threads : Has(u) => stack[u] # sbase[e]
      BY <3>1 DEF Entries
    <3>6. \A d \in Threads : sbase'[d] # sbase[e]
      BY <3>1, <3>3, <3>5 DEF Fewer
    <3>7. sbase[e] < spindex' /\ spindex <= spindex' /\ spindex' \in Nat
      BY <2>3, <3>2, <3>4
    <3> QED BY <1>2, <2>1, <2>2, <3>1, <3>2, <3>3, <3>4, <3>5, <3>6, <3>7, TakeKeeps
  <2>5. CASE NotFromList /\ NewStack(c)
    <3>1. Fewer
      BY <2>5, NotFromListFewer
    <3>2. /\ stack' = [stack EXCEPT ![c] = spindex] /\ mapped' = mapped \cup {spindex}
          /\ spindex' = spindex + 1
      BY <2>5 DEF NewStack
    <3>3. \A u \in Threads : /\ stack[u] \in Nat /\ stack[u] < spindex
                             /\ sbase[u] \in Nat /\ sbase[u] < spindex
      BY DEF StackTypes
    <3>4. spindex # 0 /\ spindex \notin mapped
      BY <2>3, <3>3, ThreadLibAssumption
    <3>5. \A d \in Threads : sbase'[d] # spindex
      BY <3>1, <3>3, <3>4 DEF Fewer
    <3>6. \A u \in Threads : Has(u) => stack[u] # spindex
      BY <3>3
    <3>7. spindex < spindex' /\ spindex <= spindex' /\ spindex' \in Nat
      BY <2>3, <3>2
    <3> QED BY <1>2, <2>1, <2>2, <2>3, <3>1, <3>2, <3>4, <3>5, <3>6, <3>7, TakeKeeps
  <2> QED BY <1>2, <2>4, <2>5 DEF AllocStack
<1> QED BY <1>1, <1>2 DEF CreateStack

LEMMA GiveUpStacks ==
    ASSUME IInv, StackTypes, Holders, Entries, NEW t \in Threads,
           NEW label \in {"unborn", "unforked"},
           pc[t] \in {"new_tcb", "fork"}, GiveUp(t, label)
    PROVE  StackTypes' /\ Holders' /\ Entries'
<1> DEFINE c == other[t]
<1>1. /\ mapped' = mapped \ {stack[c]} /\ stack' = [stack EXCEPT ![c] = 0]
      /\ pc' = [pc EXCEPT ![t] = "run", ![c] = label]
      /\ UNCHANGED <<slist, sbase, spindex>>
  BY DEF GiveUp
<1>2. c \in Threads /\ c # t /\ pc[c] = "reserved"
  BY Child DEF Creating, IInv, Creators
<1> HIDE DEF c
<1>3. /\ stack' \in [Threads -> Nat] /\ stack'[c] = 0
      /\ \A u \in Threads : u # c => stack'[u] = stack[u]
  BY <1>1, <1>2 DEF StackTypes
<1>4. /\ pc'[t] = "run" /\ pc'[c] = label
      /\ \A u \in Threads : u # t /\ u # c => pc'[u] = pc[u]
  BY <1>1, <1>2 DEF IInv, Types
<1>5. c # Main => Has(c)
  BY <1>2 DEF Has
<1>6. /\ \A u \in Threads : u = c => ~Has(u)' /\ ~OnStack(u)'
      /\ \A u \in Threads : u # c => (Has(u)' <=> Has(u))
      /\ \A u \in Threads : u # c => (OnStack(u)' <=> OnStack(u))
      /\ \A u \in Threads : OnStack(u) => Has(u)
      /\ \A u \in Threads : pc[u] \in {"remove", "give", "gone"} => pc'[u] = pc[u]
      /\ \A u \in Threads : pc'[u] = "give" => pc[u] = "give" /\ u # c
  BY <1>2, <1>4 DEF Has, OnStack
<1>7. StackTypes'
  <2>1. \A u \in Threads : /\ stack[u] < spindex /\ stack[u] \in Nat
                           /\ spindex \in Nat
    BY DEF StackTypes
  <2>2. \A u \in Threads : stack'[u] < spindex
    BY <1>3, <2>1
  <2>3. stack'[Main] = 0
    BY <1>3, ThreadLibAssumption DEF StackTypes
  <2>4. mapped' \subseteq 1 .. (spindex' - 1) /\ NoTwice(slist')
    <3>1. mapped \subseteq 1 .. (spindex - 1) /\ NoTwice(slist)
      BY DEF StackTypes
    <3> QED BY <1>1, <3>1
  <2>5. /\ spindex' \in Nat /\ sbase' \in [Threads -> Nat]
        /\ \A u \in Threads : sbase'[u] < spindex'
    BY <1>1 DEF StackTypes
  <2>6. \A u \in Threads : stack'[u] < spindex'
    BY <1>1, <2>2
  <2> QED BY <1>3, <2>3, <2>4, <2>5, <2>6 DEF StackTypes
<1>8. Holders'
  <2>1. ASSUME NEW u \in Threads, OnStack(u)' PROVE stack'[u] \in mapped'
    <3>1. u # c /\ OnStack(u) /\ Has(u) /\ stack[u] \in mapped /\ stack'[u] = stack[u]
      BY <1>3, <1>6, <2>1 DEF Holders
    <3>2. stack[u] # stack[c]
      <4>1. CASE c = Main
        <5>1. stack[c] \notin mapped
          BY <4>1 DEF StackTypes
        <5> QED BY <3>1, <5>1
      <4> QED BY <1>2, <1>5, <3>1, <4>1 DEF Holders
    <3> QED BY <1>1, <3>1, <3>2
  <2>2. \A u \in Threads : pc'[u] = "give" => u # Main /\ stack'[u] \notin mapped'
    BY <1>1, <1>3, <1>6 DEF Holders
  <2>3. \A u, v \in Threads : Has(u)' /\ Has(v)' /\ u # v => stack'[u] # stack'[v]
    BY <1>3, <1>6 DEF Holders
  <2> QED BY <2>1, <2>2, <2>3 DEF Holders
<1>9. Entries'
  <2>1. \A u \in Threads : Has(u)' => Has(u) /\ stack'[u] = stack[u]
    BY <1>3, <1>6
  <2>2. \A e \in Threads : e \in ToSet(slist') => pc'[e] \in {"remove", "give", "gone"}
    BY <1>1, <1>6 DEF Entries
  <2>3. ASSUME NEW e \in Threads, sbase'[e] # 0
        PROVE  /\ e \in ToSet(slist') /\ pc'[e] = "gone" /\ sbase'[e] \notin mapped'
               /\ \A d \in Threads : d # e => sbase'[d] # sbase'[e]
               /\ \A u \in Threads : Has(u)' => stack'[u] # sbase'[e]
    <3>1. sbase' = sbase /\ slist' = slist /\ mapped' \subseteq mapped
      BY <1>1
    <3>2. /\ e \in ToSet(slist) /\ pc[e] = "gone" /\ sbase[e] \notin mapped
          /\ \A d \in Threads : d # e => sbase[d] # sbase[e]
          /\ \A u \in Threads : Has(u) => stack[u] # sbase[e]
      BY <2>3, <3>1 DEF Entries
    <3>3. pc'[e] = "gone"
      BY <1>6, <3>2
    <3>4. \A u \in Threads : Has(u)' => stack'[u] # sbase[e]
      BY <2>1, <3>2
    <3> QED BY <3>1, <3>2, <3>3, <3>4
  <2> QED BY <2>2, <2>3 DEF Entries
<1> QED BY <1>7, <1>8, <1>9

(* The steps of an exit that have to do with its stack *)
LEMMA ExitEntryStacks ==
    ASSUME IInv, StackTypes, Holders, Entries, NEW t \in Threads, ExitEntry(t)
    PROVE  StackTypes' /\ Holders' /\ Entries'
<1>1. /\ pc[t] = "entry" /\ pc'[t] = "remove"
      /\ \A u \in Threads : u # t => pc'[u] = pc[u]
      /\ UNCHANGED <<stack, mapped, sbase, spindex>>
      /\ slist' = slist \/ slist' = <<t>> \o slist
  BY DEF ExitEntry, At, Goto, IInv, Types
<1>2. /\ \A u \in Threads : Has(u)' <=> Has(u)
      /\ \A u \in Threads : OnStack(u)' <=> OnStack(u)
      /\ \A u \in Threads : pc'[u] = "give" <=> pc[u] = "give"
  BY <1>1 DEF Has, OnStack
<1>3. t \notin ToSet(slist) /\ NoTwice(slist)
  BY <1>1 DEF Entries, StackTypes
<1>4. NoTwice(slist') /\ ToSet(slist) \subseteq ToSet(slist')
      /\ ToSet(slist') \subseteq ToSet(slist) \cup {t}
  BY <1>1, <1>3, PrependLemma
<1>5. StackTypes'
  BY <1>1, <1>4 DEF StackTypes, NoTwice
<1>6. Holders'
  BY <1>1, <1>2 DEF Holders
<1>7. Entries'
  BY <1>1, <1>2, <1>4 DEF Entries
<1> QED BY <1>5, <1>6, <1>7

LEMMA ExitRemoveStacks ==
    ASSUME IInv, StackTypes, Holders, Entries, NEW t \in Threads, ExitRemove(t)
    PROVE  StackTypes' /\ Holders' /\ Entries'
<1>1. /\ pc[t] = "remove" /\ pc'[t] = IF t = Main THEN "gone" ELSE "give"
      /\ \A u \in Threads : u # t => pc'[u] = pc[u]
      /\ UNCHANGED <<stack, slist, sbase, spindex>>
      /\ mapped' = mapped \ {stack[t]}
  BY DEF ExitRemove, At, Goto, IInv, Types
<1>2. /\ \A u \in Threads : Has(u)' <=> Has(u)
      /\ \A u \in Threads : OnStack(u)' <=> OnStack(u) /\ u # t
      /\ \A u \in Threads : OnStack(u) => Has(u)
      /\ \A u \in Threads : pc'[u] = "give" => u = t \/ pc[u] = "give"
  BY <1>1 DEF Has, OnStack
<1>3. StackTypes'
  BY <1>1 DEF StackTypes, NoTwice
<1>4. Holders'
  <2>1. ASSUME NEW u \in Threads, OnStack(u)' PROVE stack'[u] \in mapped'
    <3>1. u # t /\ Has(u) /\ stack[u] \in mapped
      BY <1>2, <2>1 DEF Holders
    <3>2. stack[u] # stack[t]
      <4>1. CASE t = Main
        <5>1. stack[t] \notin mapped
          BY <4>1 DEF StackTypes
        <5> QED BY <3>1, <5>1
      <4>2. CASE t # Main
        <5>1. Has(t)
          BY <1>1, <4>2 DEF Has
        <5> QED BY <3>1, <5>1 DEF Holders
      <4> QED BY <4>1, <4>2
    <3> QED BY <1>1, <3>1, <3>2
  <2>2. \A u \in Threads : pc'[u] = "give" => u # Main /\ stack'[u] \notin mapped'
    BY <1>1, <1>2 DEF Holders
  <2> QED BY <1>1, <1>2, <2>1, <2>2 DEF Holders
<1>5. Entries'
  BY <1>1, <1>2 DEF Entries
<1> QED BY <1>3, <1>4, <1>5

LEMMA ExitGiveStacks ==
    ASSUME IInv, StackTypes, Holders, Entries, NEW t \in Threads, ExitGive(t)
    PROVE  StackTypes' /\ Holders' /\ Entries'
<1>1. /\ pc[t] = "give" /\ pc'[t] = "gone"
      /\ \A u \in Threads : u # t => pc'[u] = pc[u]
      /\ UNCHANGED <<stack, mapped, slist, spindex>>
      /\ sbase' = [sbase EXCEPT ![t] = IF t \in ToSet(slist) THEN stack[t] ELSE 0]
  BY DEF ExitGive, At, Goto, IInv, Types
<1>2. t # Main /\ stack[t] \notin mapped /\ sbase[t] = 0
  BY <1>1 DEF Holders, Entries
<1>3. Has(t) /\ ~Has(t)'
  BY <1>1, <1>2 DEF Has
<1>4. /\ \A u \in Threads : Has(u)' <=> Has(u) /\ u # t
      /\ \A u \in Threads : OnStack(u)' <=> OnStack(u)
      /\ \A u \in Threads : pc'[u] = "give" <=> pc[u] = "give" /\ u # t
  BY <1>1, <1>3 DEF Has, OnStack
<1>5. /\ sbase' \in [Threads -> Nat] /\ sbase'[t] \in {0, stack[t]}
      /\ sbase'[t] # 0 => t \in ToSet(slist) /\ sbase'[t] = stack[t]
      /\ \A u \in Threads : u # t => sbase'[u] = sbase[u]
  BY <1>1 DEF StackTypes
<1>6. StackTypes'
  <2>1. \A u \in Threads : /\ stack[u] < spindex /\ stack[u] \in Nat
                           /\ sbase[u] < spindex /\ spindex \in Nat
    BY DEF StackTypes
  <2>2. 0 < spindex
    BY <2>1
  <2>3. \A u \in Threads : sbase'[u] < spindex
    BY <1>5, <2>1, <2>2
  <2> QED BY <1>1, <1>5, <2>3 DEF StackTypes, NoTwice
<1>7. Holders'
  BY <1>1, <1>4 DEF Holders
<1>8. Entries'
  <2>1. \A e \in Threads : e \in ToSet(slist') => pc'[e] \in {"remove", "give", "gone"}
    BY <1>1 DEF Entries
  <2>2. \A e \in Threads : sbase'[e] # 0 =>
            e \in ToSet(slist') /\ pc'[e] = "gone" /\ sbase'[e] \notin mapped'
    BY <1>1, <1>2, <1>5 DEF Entries
  <2>3. \A e \in Threads : e # t /\ sbase[e] # 0 => sbase[e] # stack[t]
    BY <1>3 DEF Entries
  <2>4. \A e, d \in Threads : sbase'[e] # 0 /\ d # e => sbase'[d] # sbase'[e]
    BY <1>5, <2>3 DEF Entries
  <2>5. \A e, u \in Threads : sbase'[e] # 0 /\ Has(u)' => stack'[u] # sbase'[e]
    BY <1>1, <1>3, <1>4, <1>5 DEF Entries, Holders
  <2> QED BY <2>1, <2>2, <2>4, <2>5 DEF Entries
<1> QED BY <1>6, <1>7, <1>8

LEMMA OtherStacks ==
    ASSUME IInv, StackTypes, Holders, Entries, NEW t \in Threads,
           \/ CreateTcb(t) \/ CreateFork(t) \/ CreateTid(t) \/ CreateReturn(t)
           \/ ChildTid(t) \/ ChildState(t) \/ CallExit(t) \/ Crash(t)
           \/ ExitSection(t) \/ ExitPost(t) \/ ExitWake(t)
           \/ CallJoin(t) \/ JoinExited(t) \/ JoinBlock(t) \/ JoinSleep(t)
           \/ JoinWoken(t) \/ JoinTake(t) \/ JoinFree(t)
    PROVE  StackTypes' /\ Holders' /\ Entries'
<1> SUFFICES /\ UNCHANGED stackVars
             /\ \A u \in Threads : \/ pc'[u] = pc[u]
                                   \/ pc[u] \notin Ending /\ pc'[u] \notin Ending
  BY SameStacks
<1> USE DEF At, Holds, Goto, stackVars, Ending, IInv, Types
<1>1. CASE CreateFork(t)
  <2>1. pc[t] = "fork" /\ pc' = [pc EXCEPT ![t] = "set_tid", ![other[t]] = "born"]
    BY <1>1 DEF CreateFork
  <2>2. other[t] \in Threads /\ pc[other[t]] = "reserved"
    BY <2>1, Child DEF Creating, Creators
  <2> QED BY <1>1, <2>1, <2>2 DEF CreateFork
<1>2. CASE CreateTcb(t) \/ CreateTid(t) \/ CreateReturn(t) \/ ChildTid(t) \/ ChildState(t)
  <2>1. /\ pc[t] \in {"new_tcb", "set_tid", "set_state", "born", "child_state"}
        /\ UNCHANGED stackVars
        /\ \E a \in {"fork", "set_state", "run", "child_state"} : pc' = [pc EXCEPT ![t] = a]
    BY <1>2 DEF CreateTcb, CreateTid, SetTid, CreateReturn, ChildTid, ChildState
  <2> QED BY <2>1
<1>3. CASE CallExit(t) \/ Crash(t) \/ ExitSection(t) \/ ExitPost(t) \/ ExitWake(t)
  <2>1. /\ pc[t] \in {"run", "exit", "post", "wake"}
        /\ UNCHANGED stackVars
        /\ \E a \in {"exit", "killed", "post", "entry", "wake"} : pc' = [pc EXCEPT ![t] = a]
    BY <1>3 DEF CallExit, Crash, Killed, ExitSection, ExitPost, ExitWake
  <2> QED BY <2>1
<1>4. CASE CallJoin(t) \/ JoinExited(t) \/ JoinBlock(t) \/ JoinWoken(t)
  <2>1. /\ pc[t] \in {"run", "join", "join_wait"}
        /\ UNCHANGED stackVars
        /\ \E a \in {"join", "take", "join_wait"} : pc' = [pc EXCEPT ![t] = a]
    BY <1>4 DEF CallJoin, JoinExited, JoinBlock, JoinWoken
  <2> QED BY <2>1
<1>5. CASE JoinTake(t) \/ JoinFree(t)
  <2>1. /\ pc[t] \in {"take", "final"}
        /\ UNCHANGED stackVars
        /\ \E a \in {"final", "run"} : pc' = [pc EXCEPT ![t] = a]
    BY <1>5 DEF JoinTake, JoinFree
  <2> QED BY <2>1
<1>6. CASE JoinSleep(t)
  BY <1>6 DEF JoinSleep
<1> QED BY <1>1, <1>2, <1>3, <1>4, <1>5, <1>6

LEMMA StepStacks ==
    ASSUME IInv, StackTypes, Holders, Entries, NEW t \in Threads, Step(t) \/ CallerStep(t)
    PROVE  StackTypes' /\ Holders' /\ Entries'
<1>1. CASE CreateNoTcb(t) \/ CreateNoFork(t)
  <2>1. pc[t] \in {"new_tcb", "fork"}
    BY <1>1 DEF CreateNoTcb, CreateNoFork, At
  <2> QED BY <1>1, <2>1, GiveUpStacks DEF CreateNoTcb, CreateNoFork
<1> QED
  BY <1>1, CreateStackStacks, ExitEntryStacks, ExitRemoveStacks, ExitGiveStacks, OtherStacks
     DEF Step, CallerStep

-----------------------------------------------------------------------------
LEMMA InitTInv == Init => TInv
<1> SUFFICES ASSUME Init PROVE TInv
  OBVIOUS
<1>1. IInv
  BY InitInv
<1>2. /\ pc = [t \in Threads |-> IF t = Main THEN "run" ELSE "unborn"]
      /\ other = [t \in Threads |-> None]
      /\ Main \in Threads /\ None \notin Threads
  BY ThreadLibAssumption DEF Init
<1>3. Tids
  BY <1>2 DEF Init, Tids, Unstarted
<1>4. Lists
  BY <1>2 DEF Init, Lists, Unstarted
<1>5. Locks
  BY <1>2 DEF Init, Locks, LockOf, Wants, Unlocked
<1>6. NoTwice(slist) /\ ToSet(slist) = {}
  BY EmptyTwice DEF Init
<1>7. StackTypes /\ Holders /\ Entries
  BY <1>2, <1>6 DEF Init, StackTypes, Holders, Entries, OnStack, Has
<1> QED BY <1>1, <1>3, <1>4, <1>5, <1>7 DEF TInv

LEMMA NextTInv == TInv /\ [Next]_vars => TInv'
<1> SUFFICES ASSUME TInv, [Next]_vars PROVE TInv'
  OBVIOUS
<1>1. ASSUME NEW t \in Threads, Step(t) \/ CallerStep(t)
      PROVE  TInv'
  BY <1>1, StepKeeps, CallerKeeps, StepTids, StepLists, StepLocks, StepStacks DEF TInv
<1>2. CASE UNCHANGED vars
  <2>1. UNCHANGED <<pc, other, claimed, tcbVars, stackVars>>
    BY <1>2 DEF vars, callVars
  <2>2. IInv'
    BY <2>1, Unseen DEF TInv, shown, tcbVars
  <2>3. Tids' /\ Lists'
    BY <2>1 DEF TInv, Tids, Lists, tcbVars
  <2>4. Locks'
    <3>1. \A z, v \in Threads : Wants(z, v)' <=> Wants(z, v)
      BY <2>1 DEF Wants
    <3> QED BY <2>1, <3>1, SameLocks DEF TInv, tcbVars
  <2>5. StackTypes' /\ Holders' /\ Entries'
    BY <2>1, SameStacks DEF TInv
  <2> QED BY <2>2, <2>3, <2>4, <2>5 DEF TInv
<1> QED BY <1>1, <1>2 DEF Next

LEMMA Inductive == Spec => []TInv
<1>1. Init => TInv
  BY InitTInv
<1>2. TInv /\ [Next]_vars => TInv'
  BY NextTInv
<1> QED BY <1>1, <1>2, PTL DEF Spec

(* Whatever the threads of a task do to each other, and whichever calls    *)
(* fail, nobody but the exit that reads joinp too late uses a TCB that     *)
(* thr_join has freed (thread.c:128, 162-168, 193-219).                    *)
THEOREM TcbsUsedLive == Spec => []NoUseAfterFree
<1>1. TInv => NoUseAfterFree
  BY InvSafe DEF TInv
<1> QED BY <1>1, Inductive, PTL

(* The asserts of the library hold: who runs finds its own TCB, who joins  *)
(* finds the TCB it may join, and a TCB's lock is free when it is          *)
(* destroyed (thread.c:151, 193, tcb.c:147, mutex.c:122-123).              *)
THEOREM AssertsHold == Spec => []Consistent
<1>1. TInv => Consistent
  <2> SUFFICES ASSUME TInv PROVE Consistent
    OBVIOUS
  <2> USE DEF TInv
  <2>1. TypeOK
    <3>1. NoTwice(slist) /\ DOMAIN slist = 1 .. Len(slist)
      BY ListFacts DEF StackTypes
    <3>2. IsInjective(slist)
      BY <3>1 DEF IsInjective, NoTwice
    <3>3. mapped \subseteq 1..(spindex - 1)
      BY DEF StackTypes
    <3> QED BY <3>2, <3>3 DEF TypeOK, IInv, Types
  <2>2. \A t \in Threads : pc[t] \in {"run", "exit"} => tidset[t]
    BY DEF Tids, Unstarted
  <2>3. ASSUME NEW u \in Joinable PROVE u \in thrlist /\ tidset[u]
    <3>1. /\ u \in Threads /\ pc[u] \notin Unstarted /\ u \notin claimed
          /\ \A t \in Threads : other[t] = u => pc[t] # "set_tid"
      BY DEF Joinable, Children, Unstarted
    <3>2. u \in thrlist
      BY <3>1 DEF Lists
    <3>3. tidset[u]
      BY <3>1 DEF Tids
    <3> QED BY <3>2, <3>3
  <2>4. \A t \in Threads : pc[t] = "take" => other[t] \in thrlist
    BY DEF Lists
  <2>5. ASSUME NEW t \in Threads, pc[t] = "final" PROVE lock[other[t]] = Unlocked
    <3>1. other[t] \in Threads /\ state[other[t]] = "EXITED"
      BY <2>5 DEF IInv, Types, Roles, Waits, Joining
    <3>2. pc[other[t]] # "exit"
      BY <3>1 DEF IInv, Exits, Gone
    <3>3. \A z \in Threads : other[z] = other[t] => z = t
      BY <3>1, ThreadLibAssumption DEF IInv, Roles
    <3>4. \A z \in Threads : ~Wants(z, other[t])
      BY <2>5, <3>2, <3>3 DEF Wants
    <3>5. LockOf(other[t])
      BY <3>1 DEF Locks
    <3> QED BY <3>4, <3>5 DEF LockOf
  <2>6. \A u \in thrlist : mem[u] = "live" \/ pc[u] = "unforked"
    BY DEF Lists
  <2> QED BY <2>1, <2>2, <2>3, <2>4, <2>5, <2>6 DEF Consistent
<1> QED BY <1>1, Inductive, PTL

(* However stacks are created, given back and used again, and whichever    *)
(* calls fail in between, no two threads run on one, and none is handed    *)
(* out whose pages are still there (stack_alloc.c:60-93, asm_thr.S:76-88). *)
THEOREM StacksNeverShared == Spec => []StacksExclusive
<1>1. TInv => StacksExclusive
  <2> SUFFICES ASSUME TInv PROVE StacksExclusive
    OBVIOUS
  <2>1. \A t \in Threads : OnStack(t) => stack[t] \in mapped /\ Has(t)
    BY DEF TInv, Holders, OnStack, Has
  <2>2. \A t, u \in Threads : OnStack(t) /\ OnStack(u) /\ t # u => stack[t] # stack[u]
    BY <2>1 DEF TInv, Holders
  <2>3. ToSet(slist) \subseteq Threads
    BY ListFacts DEF TInv, StackTypes
  <2>4. \A e \in ToSet(slist) : sbase[e] # 0 =>
            /\ sbase[e] \notin mapped
            /\ \A d \in ToSet(slist) \ {e} : sbase[d] # sbase[e]
    BY <2>3 DEF TInv, Entries
  <2>5. \A t \in Threads : stack[t] < spindex
    BY DEF TInv, StackTypes
  <2> QED BY <2>1, <2>2, <2>4, <2>5 DEF StacksExclusive
<1> QED BY <1>1, Inductive, PTL
=============================================================================
