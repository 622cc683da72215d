------------------------------ MODULE MCKMutex ------------------------------
(* KMutex with a few threads, for TLC. *)
EXTENDS KMutex

Symmetry == Permutations(Threads)
=============================================================================
