------------------------------ MODULE MCEvBuffer -----------------------------
(* Instances of EvBuffer for TLC.                                          *)
EXTENDS EvBuffer, TLC
=============================================================================
