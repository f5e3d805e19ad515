------------------------------ MODULE Registry -------------------------------
(***************************************************************************)
(* The reference table of the Lua auxiliary library (luaL_ref, luaL_unref) *)
(* by which event.c names the userdata it hands to Lua callbacks. Released *)
(* slots form a list threaded through the table itself: a slot holds an    *)
(* object, or the number of the next released slot.                        *)
(***************************************************************************)
EXTENDS Naturals, Sequences

EmptyRegistry == [slot |-> <<>>, free |-> 0]

(* Only a number heads the list: lua_tointeger of anything else is 0.      *)
HasFree(r) == r.free \in DOMAIN r.slot

(* The reference luaL_ref returns, and the table after it.                 *)
NextRef(r) == IF HasFree(r) THEN r.free ELSE Len(r.slot) + 1
Take(r, x) ==
  IF HasFree(r)
    THEN [slot |-> [r.slot EXCEPT ![r.free] = x], free |-> r.slot[r.free]]
    ELSE [r EXCEPT !.slot = Append(@, x)]

(* luaL_unref. Nothing tells a slot that has been released already.        *)
Give(r, ref) == [slot |-> [r.slot EXCEPT ![ref] = r.free], free |-> ref]
=============================================================================
