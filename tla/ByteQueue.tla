------------------------------ MODULE ByteQueue ------------------------------
(***************************************************************************)
(* What one direction of a session promises: the bytes come out in the     *)
(* order they went in, each once, and none before it was put in. Bytes are *)
(* numbered in the order they are put. The queue may start afresh.         *)
(***************************************************************************)
EXTENDS Integers, Sequences

VARIABLES
  put,    (* how many bytes were put                                       *)
  taken   (* the bytes taken, in the order they came out                   *)

vars == <<put, taken>>

Init == put = 0 /\ taken = <<>>

Put == put' = put + 1 /\ UNCHANGED taken

Take ==
  \E n \in 1..(put - Len(taken)) :
    taken' = taken \o [i \in 1..n |-> Len(taken) + i] /\ UNCHANGED put

StartAfresh == put' = 0 /\ taken' = <<>>

Spec == Init /\ [][Put \/ Take \/ StartAfresh]_vars
=============================================================================
