----------------------------- MODULE MCServices ------------------------------
(* Instances of Services for TLC.                                          *)
EXTENDS Services, TLC

(* Names of one kind are interchangeable.                                  *)
Symmetry == Permutations(Conn) \cup Permutations(Listener) \cup Permutations(Request)
=============================================================================
