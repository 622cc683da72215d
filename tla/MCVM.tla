-------------------------------- MODULE MCVM --------------------------------
(* Instances of VM for TLC. *)
EXTENDS VM, TLC

Symmetry == Permutations(Spaces) \cup Permutations(Users) \cup Permutations(Frames)

(* Two regions: one shares a tome with the program, the other has a tome of *)
(* its own.  Neither crosses from one tome into the next.                  *)
WithinTome ==
    {[start |-> 1, end |-> 2, new |-> TRUE], [start |-> 2, end |-> 4, new |-> TRUE]}

(* Everything that new_pages accepts.                                      *)
AnyRegion ==
    {r \in [start : Pages, end : 0 .. NumPages, new : {TRUE}] : r.start <= r.end}
=============================================================================
