---------------------------- MODULE MCSleepTimer ----------------------------
(* SleepTimer with a few threads and a narrow tick counter, for TLC. *)
EXTENDS SleepTimer

Args == 1 .. 2
=============================================================================
