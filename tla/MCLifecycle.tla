---------------------------- MODULE MCLifecycle ----------------------------
(* Lifecycle with a few tasks and threads, for TLC. *)
EXTENDS Lifecycle

Symmetry ==
    Permutations(Tasks \ {InitTask}) \cup Permutations(Threads \ {InitThread})
=============================================================================
