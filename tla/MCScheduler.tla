----------------------------- MODULE MCScheduler -----------------------------
(* The instance of Scheduler for TLC. Safety and liveness are checked in   *)
(* one run, so coroutines, functions and sessions, though interchangeable, *)
(* are not declared symmetric.                                             *)
EXTENDS Scheduler, TLC
=============================================================================
