------------------------------ MODULE MCChannel ------------------------------
(* Instances of Channel for TLC: A asks twice, B once.                    *)
EXTENDS Channel, TLC

TwoAndOne == A :> 2 @@ B :> 1
OneEach == A :> 1 @@ B :> 1
=============================================================================
