------------------------------ MODULE BufferLife -----------------------------
(***************************************************************************)
(* What event.lua relies on about a connection: which events Lua gets, in  *)
(* which order, and that a connection does not disappear without EV_ERROR  *)
(* unless the program closed it immediately. channel:disconnect, which     *)
(* answers the pending calls of a connection, hangs on that one event.     *)
(***************************************************************************)
CONSTANT Buf
VARIABLES
  life,   (* per connection: what the program may do with it              *)
  told    (* per connection: the last event given to Lua                  *)

vars == <<life, told>>

Set(b, l, e) == life' = [life EXCEPT ![b] = l] /\ told' = [told EXCEPT ![b] = e]

Init ==
  /\ life = [b \in Buf |-> "unused"]
  /\ told = [b \in Buf |-> "nothing"]

(* A connect, an accepted or a bound socket; or a connect that fails with  *)
(* no event, or with one, before it returns.                               *)
Create(b) ==
  /\ life[b] = "unused"
  /\ \/ \E l \in {"connecting", "open", "gone"} : Set(b, l, "nothing")
     \/ Set(b, "gone", "refused")

Connected(b) == life[b] = "connecting" /\ Set(b, "open", "connected")
Refused(b) == life[b] = "connecting" /\ Set(b, "gone", "refused")

Data(b) == life[b] = "open" /\ told[b] # "error" /\ Set(b, "open", "data")

Error(b) ==
  /\ life[b] \in {"open", "lingering"}
  /\ told[b] # "error"
  /\ Set(b, life[b], "error")

Close(b) ==
  /\ life[b] = "open"
  /\ \E l \in {"lingering", "gone"} : Set(b, l, told[b])

End(b) ==
  /\ life[b] \in {"open", "lingering"}
  /\ told[b] = "error"
  /\ Set(b, "gone", "error")

(* The identities of connections that are gone are used again.             *)
Recycle ==
  \E D \in SUBSET {b \in Buf : life[b] = "gone"} :
    /\ life' = [b \in Buf |-> IF b \in D THEN "unused" ELSE life[b]]
    /\ told' = [b \in Buf |-> IF b \in D THEN "nothing" ELSE told[b]]

Next ==
  \/ Recycle
  \/ \E b \in Buf : \/ Create(b) \/ Connected(b) \/ Refused(b) \/ Data(b)
                    \/ Error(b) \/ Close(b) \/ End(b)

Spec == Init /\ [][Next]_vars
=============================================================================
