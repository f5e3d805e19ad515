----------------------------- MODULE MCSkipList ------------------------------
(* An instance of SkipList for TLC: as many addresses as values, and one   *)
(* score that the head's cannot be told from.                              *)
EXTENDS SkipList

MCScore == {0, 1}
MCLoops == {<<1, 2>>, <<2, 3>>}
=============================================================================
