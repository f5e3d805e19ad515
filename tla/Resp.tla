--------------------------------- MODULE Resp ---------------------------------
(***************************************************************************)
(* The reply protocol of redis as the reader of src/redis takes it: what a *)
(* server writes, and which values the items of a stream stand for. It is  *)
(* the reference the reader is held against.                               *)
(*                                                                         *)
(* A stream is a sequence of symbols. The type byte, CR and LF are symbols *)
(* of their own and a number is one symbol, for a line is taken as a whole *)
(* or not at all; a payload may hold CR and LF as data.                    *)
(***************************************************************************)
EXTENDS Integers, Sequences, TLC

CR == "\r"
LF == "\n"

(* The type bytes, and the numbers string2ll makes something of.           *)
Kind == "-" :> "error" @@ "+" :> "status" @@ ":" :> "integer" @@ "," :> "double"
     @@ "_" :> "nil" @@ "$" :> "string" @@ "*" :> "array" @@ "%" :> "map"
     @@ "~" :> "set" @@ "#" :> "bool"
Number == "-2" :> -2 @@ "-1" :> -1 @@ "0" :> 0 @@ "1" :> 1 @@ "2" :> 2 @@ "3" :> 3
Lines == {"error", "status", "integer", "double", "nil", "bool"}
Aggregates == {"array", "map", "set"}

IsNumber(line) == Len(line) = 1 /\ line[1] \in DOMAIN Number
NumberOf(line) == Number[line[1]]
ElementsOf(kind, n) == IF kind = "map" THEN 2 * n ELSE n

Bad == [type |-> "bad"]
Nil == [type |-> "nil", val |-> <<>>]

(* What a typed line stands for.                                           *)
LineValue(kind, line) ==
  CASE kind \in {"integer", "double"} ->
         IF IsNumber(line) THEN [type |-> kind, val |-> line] ELSE Bad
    [] kind = "nil" -> Nil
    [] kind = "bool" ->
         [type |-> kind, val |-> <<line # <<>> /\ line[1] \in {"t", "T"}>>]
    [] OTHER -> [type |-> kind, val |-> line]

(* An item: its type byte, the line after it, the payload of a bulk string *)
(* and the elements of an aggregate.                                       *)
RECURSIVE Encode(_)
Encode(item) ==
  LET Elements[i \in 0 .. Len(item.kids)] ==
        IF i = 0 THEN <<>> ELSE Elements[i - 1] \o Encode(item.kids[i])
      payload == IF item.t = "$" /\ item.line \notin {<<"-1">>, <<"-2">>}
                   THEN item.body \o <<CR, LF>> ELSE <<>>
  IN <<item.t>> \o item.line \o <<CR, LF>> \o payload \o Elements[Len(item.kids)]

(* The value of an item that lies in depth aggregates, or Bad.             *)
RECURSIVE Meaning(_, _, _)
Meaning(item, depth, limit) ==
  IF item.t \notin DOMAIN Kind THEN Bad ELSE
  LET kind == Kind[item.t]
      counted == kind = "string" \/ kind \in Aggregates
      kids == [i \in DOMAIN item.kids |-> Meaning(item.kids[i], depth + 1, limit)]
  IN CASE kind \in Lines -> LineValue(kind, item.line)
       [] kind \in Aggregates /\ depth = limit -> Bad
       [] counted /\ (~IsNumber(item.line) \/ NumberOf(item.line) < -1) -> Bad
       [] counted /\ NumberOf(item.line) = -1 -> Nil
       [] kind = "string" -> [type |-> kind, val |-> item.body]
       [] OTHER -> IF \E i \in DOMAIN kids : kids[i] = Bad THEN Bad
                   ELSE [type |-> kind, val |-> kids]
=============================================================================
