------------------------------- MODULE MCTimer -------------------------------
(* The instance of Timer for TLC. Safety and liveness are checked in one   *)
(* run, so userdata and coroutines are not declared symmetric.             *)
EXTENDS Timer, TLC
=============================================================================
