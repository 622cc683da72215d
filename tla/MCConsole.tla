----------------------------- MODULE MCConsole -----------------------------
(* Console with a screen of a few cells, for TLC. *)
EXTENDS Console, TLC

Symmetry == Permutations(Callers)
=============================================================================
