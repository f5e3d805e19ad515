------------------------------ MODULE RemoteCall -----------------------------
(***************************************************************************)
(* What a channel of event.lua promises to a program: remote calls that    *)
(* run at most once and answer what they computed, or are cut off. A call  *)
(* that was cut off may have run, or may still run.                        *)
(***************************************************************************)
CONSTANTS Peer, Request
VARIABLES
  call,   (* call[p][r]: what p knows of its request r                     *)
  exec    (* exec[p][r]: what the other side has made of it                *)

vars == <<call, exec>>

Init ==
  /\ call = [p \in Peer |-> [r \in Request |-> "new"]]
  /\ exec = [p \in Peer |-> [r \in Request |-> "none"]]

(* p knows something new of r, and of nothing else. (The second conjunct   *)
(* follows from the third; TLC tells by it which steps are not this one.)  *)
Become(p, r, from, to) ==
  /\ call[p][r] = from /\ call'[p][r] = to
  /\ call' = [call EXCEPT ![p][r] = to]
Runs(p, r, from, to) == exec[p][r] = from /\ exec' = [exec EXCEPT ![p][r] = to]

(* A one-way message is "sent", a call is waited for, or it raises: before *)
(* the request is written, or after it, then its result goes "unheard".    *)
Place(p, r) == \E to \in {"sent", "waiting", "raised", "unheard"} : Become(p, r, "new", to)

Begin(p, r) == call[p][r] \notin {"new", "raised"} /\ Runs(p, r, "none", "running")

(* "mute": there is a result, or an error, and it cannot be sent.          *)
End(p, r) == \E to \in {"ok", "error", "mute"} : Runs(p, r, "running", to)

Answer(p, r) == exec[p][r] \in {"ok", "error"} /\ Become(p, r, "waiting", exec[p][r])

Cut(p, r) == Become(p, r, "waiting", "closed")

(* The caller learns something, or the other side does something.          *)
Next ==
  \/ exec' = exec /\ \E p \in Peer, r \in Request : Place(p, r) \/ Answer(p, r) \/ Cut(p, r)
  \/ call' = call /\ \E p \in Peer, r \in Request : Begin(p, r) \/ End(p, r)

Spec == Init /\ [][Next]_vars
=============================================================================
