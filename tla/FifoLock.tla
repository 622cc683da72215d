------------------------------ MODULE FifoLock ------------------------------
(***************************************************************************)
(* What a Pebbles kernel mutex promises its callers, with no scheduler,    *)
(* spinlock or wait queue in sight: requests stand in one line, the lock   *)
(* is granted in the order of the line and to one thread at a time, and a  *)
(* release with somebody in line may hand the lock over directly.          *)
(***************************************************************************)
EXTENDS Sequences

CONSTANTS Threads, None

VARIABLES owner,    \* the thread that has the lock, or None
          line      \* the threads whose requests wait, oldest first

vars == <<owner, line>>

Init == owner = None /\ line = <<>>

InLine(t) == \E i \in DOMAIN line : line[i] = t

Request(t) ==
    /\ owner # t /\ ~InLine(t)
    /\ line' = Append(line, t)
    /\ UNCHANGED owner

Acquire ==
    /\ owner = None /\ line # <<>>
    /\ owner' = Head(line)
    /\ line' = Tail(line)

Release ==
    /\ owner # None
    /\ owner' = None
    /\ UNCHANGED line

HandOff ==
    /\ owner # None /\ line # <<>>
    /\ owner' = Head(line)
    /\ line' = Tail(line)

Next == (\E t \in Threads : Request(t)) \/ Acquire \/ Release \/ HandOff

Spec == Init /\ [][Next]_vars
=============================================================================
