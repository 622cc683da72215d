----------------------------- MODULE MCUserSync -----------------------------
(* UserSync with a few threads, for TLC. *)
EXTENDS UserSync
=============================================================================
