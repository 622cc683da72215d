------------------------------ MODULE CondVar ------------------------------
(***************************************************************************)
(* What a Pebbles kernel condition variable promises, without scheduler,   *)
(* spinlock or queues: waiting gives up the world mutex and joins the      *)
(* waiters in one step; each call of signal, at one moment between its     *)
(* start and its end, takes the oldest waiter if there is one, and each    *)
(* call of broadcast takes all of them; a waiter that was taken goes on    *)
(* once it has the mutex again, and a waiter nobody took does not.         *)
(***************************************************************************)
EXTENDS Sequences

CONSTANTS Threads, None

VARIABLES holder,       \* the thread that has the world mutex, or None
          waiting,      \* the waiters, oldest first
          taken,        \* waiters that were taken and have no mutex yet
          calling       \* the signal or broadcast a thread has in progress

vars == <<holder, waiting, taken, calling>>

Calls == {"none", "signal", "broadcast"}

Waiting == {waiting[i] : i \in DOMAIN waiting}

Asleep == Waiting \cup taken

Init ==
    /\ holder = None /\ waiting = <<>> /\ taken = {}
    /\ calling = [t \in Threads |-> "none"]

(* The mutex goes to a thread that does not wait, to a waiter that was     *)
(* taken, or to nobody.                                                    *)
Passes ==
    /\ \/ holder' = None
       \/ holder' \in Threads \ (Asleep \cup {holder})
       \/ holder' \in taken
    /\ taken' = taken \ {holder'}

Pass == Passes /\ UNCHANGED <<waiting, calling>>

Wait(t) ==
    /\ holder = t
    /\ waiting' = Append(waiting, t)
    /\ Passes
    /\ UNCHANGED calling

Call(t, c) ==
    /\ calling[t] = "none" /\ t \notin Asleep
    /\ calling' = [calling EXCEPT ![t] = c]
    /\ UNCHANGED <<holder, waiting, taken>>

Done(t) == calling' = [calling EXCEPT ![t] = "none"] /\ UNCHANGED holder

SignalOne(t) ==
    /\ calling[t] = "signal" /\ waiting # <<>>
    /\ waiting' = Tail(waiting)
    /\ taken' = taken \cup {Head(waiting)}
    /\ Done(t)

SignalNobody(t) ==
    /\ calling[t] = "signal" /\ waiting = <<>>
    /\ Done(t)
    /\ UNCHANGED <<waiting, taken>>

Broadcast(t) ==
    /\ calling[t] = "broadcast"
    /\ waiting' = <<>>
    /\ taken' = taken \cup Waiting
    /\ Done(t)

Next ==
    \/ Pass
    \/ \E t \in Threads :
          \/ Wait(t) \/ SignalOne(t) \/ SignalNobody(t) \/ Broadcast(t)
          \/ \E c \in Calls \ {"none"} : Call(t, c)

Spec == Init /\ [][Next]_vars
=============================================================================
