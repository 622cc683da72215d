------------------------------ MODULE MCKCvar ------------------------------
(* KCvar with a few threads, for TLC. *)
EXTENDS KCvar

Symmetry == Permutations(Threads)
=============================================================================
