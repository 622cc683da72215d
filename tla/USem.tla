-------------------------------- MODULE USem --------------------------------
(***************************************************************************)
(* The semaphore of the user library (synch/sem.c).  Its callers use it to *)
(* guard Permits units of something: sem_wait before, sem_signal after.    *)
(***************************************************************************)
EXTENDS USync

CONSTANT Permits        \* the count given to sem_init

ASSUME PermitsAssumption == Permits \in Nat

VARIABLES count, semq

semVars == <<count, semq>>

SemInit == count = Permits /\ semq = <<>>

CallSemWait(t) ==
    /\ At(t, "out")
    /\ Call(t, "sem", "sw_spin", "s_in")
    /\ UNCHANGED semVars

SemWaitSection(t) ==
    /\ At(t, "sw_spin") /\ Turn(t, "sem")
    /\ \/ /\ count > 0
          /\ count' = count - 1
          /\ Goto(t, "s_in")
          /\ UNCHANGED <<semq, reject>>
       \/ /\ count = 0
          /\ semq' = Append(semq, t)
          /\ reject' = [reject EXCEPT ![t] = FALSE]
          /\ Goto(t, "s_wait")
          /\ UNCHANGED count
    /\ SpinUnlock("sem")
    /\ UNCHANGED <<asleep, target, home>>

SemLoop(t) == Waits(t, "s_wait", "s_in") /\ UNCHANGED semVars

CallSemSignal(t) ==
    /\ At(t, "s_in")
    /\ Call(t, "sem", "ss_spin", "out")
    /\ UNCHANGED semVars

SemSignalSection(t) ==
    /\ At(t, "ss_spin") /\ Turn(t, "sem")
    /\ \/ /\ semq # <<>>
          /\ target' = [target EXCEPT ![t] = Head(semq)]
          /\ semq' = Tail(semq)
          /\ Goto(t, "post")
          /\ UNCHANGED count
       \/ /\ semq = <<>>
          /\ count' = count + 1
          /\ Goto(t, "out")
          /\ UNCHANGED <<semq, target>>
    /\ SpinUnlock("sem")
    /\ UNCHANGED <<asleep, reject, home>>

SemStep(t) == SemWaitSection(t) \/ SemLoop(t) \/ SemSignalSection(t)

SemCall(t) == CallSemWait(t) \/ CallSemSignal(t)

(* The threads that have a permit: those inside, on their way out, or      *)
(* dequeued by a signal.                                                   *)
Permitted ==
    {t \in Threads : \/ pc[t] \in {"s_in", "ss_spin"}
                     \/ pc[t] = "s_wait" /\ t \notin ToSet(semq)}
=============================================================================
