---------------------------- MODULE MCThreadMgmt ----------------------------
(* ThreadMgmt with a few threads and TIDs, for TLC. *)
EXTENDS ThreadMgmt

Symmetry == Permutations(Threads)
=============================================================================
