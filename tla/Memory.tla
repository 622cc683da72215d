------------------------------- MODULE Memory -------------------------------
(***************************************************************************)
(* What virtual memory promises to programs: every address space is a      *)
(* function from pages to contents of its own.  New pages read as zero, a  *)
(* write changes the page written and no other, fork copies, and nothing   *)
(* else ever changes what a program sees.                                  *)
(***************************************************************************)
EXTENDS Integers

CONSTANTS Spaces, Pages, Values, Unmapped

VARIABLE mem

Contents == Values \cup {0, Unmapped}

Init == mem \in [Spaces -> [Pages -> Contents]]

Blank == [p \in Pages |-> Unmapped]

NewPages(s, P) ==
    /\ \A p \in P : mem[s][p] = Unmapped
    /\ mem' = [mem EXCEPT ![s] = [p \in Pages |-> IF p \in P THEN 0 ELSE @[p]]]

RemovePages(s, P) ==
    mem' = [mem EXCEPT ![s] = [p \in Pages |-> IF p \in P THEN Unmapped ELSE @[p]]]

Write(s, p, v) ==
    /\ mem[s][p] # Unmapped
    /\ mem' = [mem EXCEPT ![s][p] = v]

Fork(s, c) ==
    /\ mem[c] = Blank
    /\ mem' = [mem EXCEPT ![c] = mem[s]]

Next ==
    \E s \in Spaces :
        \/ \E P \in SUBSET Pages : NewPages(s, P) \/ RemovePages(s, P)
        \/ \E p \in Pages, v \in Values : Write(s, p, v)
        \/ \E c \in Spaces : Fork(s, c)

Spec == Init /\ [][Next]_mem
=============================================================================
