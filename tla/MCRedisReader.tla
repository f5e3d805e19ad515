---------------------------- MODULE MCRedisReader ----------------------------
(* Streams for TLC: every pair of items of each kind, nested, empty, null, *)
(* malformed or too deep.                                                  *)
EXTENDS RedisReader

Item(t, line, body, kids) == [t |-> t, line |-> line, body |-> body, kids |-> kids]
Simple(t, line) == Item(t, line, <<>>, <<>>)
Bulk(n, body) == Item("$", <<n>>, body, <<>>)
Agg(t, n, kids) == Item(t, <<n>>, <<>>, kids)

OK == Simple("+", <<"x", CR>>)
One == Simple(":", <<"1">>)
Tricky == Bulk("3", <<CR, LF, "*">>)
Nested == Agg("*", "2", <<One, Agg("*", "1", <<Tricky>>)>>)

Items == {
  OK, One, Tricky, Nested,
  Simple("-", <<>>), Simple("_", <<>>), Simple("#", <<"t">>), Simple(",", <<"0">>),
  Bulk("-1", <<>>), Bulk("0", <<>>),
  Agg("*", "2", <<Agg("*", "0", <<>>), Agg("*", "-1", <<>>)>>),
  Agg("*", "2", <<Tricky, OK>>), Agg("*", "1", <<Agg("%", "1", <<One, One>>)>>),
  Agg("%", "1", <<One, OK>>), Agg("~", "1", <<Bulk("-1", <<>>)>>)}
Faulty == {
  Agg("*", "1", <<Agg("*", "1", <<Agg("*", "0", <<>>)>>)>>),
  Agg("*", "2", <<Tricky, Simple(":", <<"y">>)>>),
  Agg("*", "2", <<OK, Bulk("-2", <<>>)>>),
  Simple("?", <<>>), Agg("*", "-2", <<>>)}

Sent == {<<a, b>> : a \in Items, b \in Items \cup Faulty} \cup {<<a, One>> : a \in Faulty}
=============================================================================
