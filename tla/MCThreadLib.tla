---------------------------- MODULE MCThreadLib ----------------------------
(* ThreadLib with a few threads, for TLC. *)
EXTENDS ThreadLib
=============================================================================
