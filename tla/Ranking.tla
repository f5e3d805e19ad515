------------------------------- MODULE Ranking -------------------------------
(***************************************************************************)
(* What a skip list stands for: values with scores, ranked. Values of the  *)
(* same score keep some order until one of them is moved. A value may be   *)
(* lost: it keeps its place in the Lua tables and has no rank any more.    *)
(***************************************************************************)
EXTENDS Integers, Sequences, SequencesExt

CONSTANTS Value, Score

VARIABLES
  descending,  (* the direction of the ranking, chosen when it is made      *)
  ranked,      (* pairs of a value and its score, by rank                   *)
  lost         (* the values lost                                           *)

vars == <<descending, ranked, lost>>

Ranked(v) == \E i \in DOMAIN ranked : ranked[i][1] = v
Rank(v) == CHOOSE i \in DOMAIN ranked : ranked[i][1] = v
Without(v) == IF Ranked(v) THEN RemoveAt(ranked, Rank(v)) ELSE ranked

InOrder(r) ==
  \A i, j \in DOMAIN r :
    i < j => IF descending THEN r[i][2] >= r[j][2] ELSE r[i][2] <= r[j][2]

Init == descending \in BOOLEAN /\ ranked = <<>> /\ lost = {}

(* A value comes in, or gets another score: it is put where the order      *)
(* allows it.                                                              *)
Put(v, s) ==
  /\ v \notin lost
  /\ \E i \in DOMAIN ranked' : ranked'[i] = <<v, s>> /\ RemoveAt(ranked', i) = Without(v)
  /\ InOrder(ranked')
  /\ UNCHANGED <<descending, lost>>

Leave(v) ==
  /\ Ranked(v)
  /\ ranked' = Without(v)
  /\ UNCHANGED <<descending, lost>>

RemoveRanks(lo, hi) ==
  /\ ranked' = SubSeq(ranked, 1, lo - 1) \o SubSeq(ranked, hi + 1, Len(ranked))
  /\ UNCHANGED <<descending, lost>>

(* The comparison failed half-way.                                         *)
Lose(v) ==
  /\ ranked' = Without(v)
  /\ lost' = lost \cup {v}
  /\ UNCHANGED descending

(* The list is collected, and another is used.                             *)
Clear ==
  /\ ranked' = <<>> /\ lost' = {}
  /\ UNCHANGED descending

Next ==
  \/ Clear
  \/ \E v \in Value : Leave(v) \/ Lose(v) \/ \E s \in Score : Put(v, s)
  \/ \E lo \in 1 .. Len(ranked) : \E hi \in lo .. Len(ranked) : RemoveRanks(lo, hi)

Spec == Init /\ [][Next]_vars
=============================================================================
