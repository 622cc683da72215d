----------------------------- MODULE MCKeyboard -----------------------------
(* Keyboard with a few threads and keys, for TLC. *)
EXTENDS Keyboard, TLC

Symmetry == Permutations(Readers)
=============================================================================
