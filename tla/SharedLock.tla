----------------------------- MODULE SharedLock -----------------------------
(***************************************************************************)
(* What the readers/writer lock of the user library promises, with neither *)
(* spinlock nor lists: one writer or any number of readers; writers are    *)
(* served in the order in which they came to wait; a reader that comes     *)
(* while a writer waits does not get in before it; all waiting readers get *)
(* in together, when the lock is free and no writer wants it, or when the  *)
(* writer turns itself into a reader.                                      *)
(***************************************************************************)
EXTENDS Sequences

CONSTANTS Threads, None

VARIABLES writer, readers,      \* who holds the lock
          wline, rwait          \* who waits to write, in order, and to read

vars == <<writer, readers, wline, rwait>>

Init == writer = None /\ readers = {} /\ wline = <<>> /\ rwait = {}

InLine(t) == \E i \in DOMAIN wline : wline[i] = t

Away(t) == writer # t /\ t \notin readers /\ t \notin rwait /\ ~InLine(t)

Free == writer = None /\ readers = {}

Read(t) ==
    /\ Away(t) /\ writer = None /\ wline = <<>>
    /\ readers' = readers \cup {t}
    /\ UNCHANGED <<writer, wline, rwait>>

WaitToRead(t) ==
    /\ Away(t)
    /\ writer # None \/ wline # <<>>
    /\ rwait' = rwait \cup {t}
    /\ UNCHANGED <<writer, readers, wline>>

Write(t) ==
    /\ Away(t) /\ Free
    /\ writer' = t
    /\ UNCHANGED <<readers, wline, rwait>>

WaitToWrite(t) ==
    /\ Away(t) /\ ~Free
    /\ wline' = Append(wline, t)
    /\ UNCHANGED <<writer, readers, rwait>>

LeaveReading(t) ==
    /\ t \in readers /\ readers # {t}
    /\ readers' = readers \ {t}
    /\ UNCHANGED <<writer, wline, rwait>>

(* The last holder leaves. *)
Release(t) ==
    /\ writer = t \/ readers = {t}
    /\ \/ /\ wline # <<>>
          /\ writer' = Head(wline)
          /\ wline' = Tail(wline)
          /\ readers' = {}
          /\ UNCHANGED rwait
       \/ /\ wline = <<>>
          /\ writer' = None
          /\ readers' = rwait
          /\ rwait' = {}
          /\ UNCHANGED wline

Downgrade(t) ==
    /\ writer = t
    /\ writer' = None
    /\ readers' = rwait \cup {t}
    /\ rwait' = {}
    /\ UNCHANGED wline

Next ==
    \E t \in Threads :
        \/ Read(t) \/ WaitToRead(t) \/ Write(t) \/ WaitToWrite(t)
        \/ LeaveReading(t) \/ Release(t) \/ Downgrade(t)

Spec == Init /\ [][Next]_vars
=============================================================================
