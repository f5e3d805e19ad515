------------------------------ MODULE SkipList -------------------------------
(***************************************************************************)
(* skiplist/: a list with levels, spans and back links (skiplist.c) and    *)
(* the Lua userdata around it (lskiplist.c), with its tables from values   *)
(* to nodes and back.                                                      *)
(*                                                                         *)
(* Everything is one userdata and one thread. What can come between two    *)
(* steps of one operation is the comparison by a Lua function, which may   *)
(* raise; and a loop over rank_pairs leaves the list to the program after  *)
(* each pair.                                                              *)
(*                                                                         *)
(* Scores are those that comparisons tell apart: two of them differ by     *)
(* more than EPSILON. The score of the head, DBL_MIN, does not differ from *)
(* 0 by that much.                                                         *)
(***************************************************************************)
EXTENDS Integers, Sequences, SequencesExt, FiniteSetsExt, Functions

CONSTANTS
  Addr,      (* addresses malloc may return (a bound)                      *)
  Value,     (* the values of the program                                  *)
  Score,     (* scores                                                     *)
  MaxLevel,  (* SKIPLIST_MAXLEVEL (a bound)                                *)
  Loops,     (* the ranks that loops are made between (a bound)            *)
  Nil        (* NULL, and nil                                              *)

ASSUME SkipListAssumption ==
  /\ Addr \subseteq Nat \ {0} /\ IsFiniteSet(Addr)
  /\ Value \subseteq Int /\ Score \subseteq Int
  /\ MaxLevel \in Nat \ {0}
  /\ Nil \notin Addr \cup Value \cup {0}

VARIABLES
  order,     (* how nodes are compared: "asc", "desc", or by a "lua" function *)
  sl,        (* the list: see Empty                                        *)
  it,        (* the loop over rank_pairs, or NoLoop                        *)
  crashed    (* what memory was misused for, or ""                         *)

vars == <<order, sl, it, crashed>>

SlHead == 0
Node(s, h) ==
  [score |-> s, prev |-> Nil, levelSize |-> h,
   next |-> [l \in 1..h |-> Nil], span |-> [l \in 1..h |-> 0]]

(* mem holds the nodes allocated and the head; value_map and node_map are  *)
(* the tables of lua__new.                                                 *)
Empty ==
  [mem |-> [p \in {SlHead} |-> Node(0, MaxLevel)], level |-> 1, size |-> 0, tail |-> Nil,
   node_map |-> [v \in Value |-> Nil], value_map |-> [a \in Addr |-> Nil]]

NoLoop == [at |-> Nil, last |-> 0, max |-> 0, gone |-> 0, tame |-> FALSE]

Init ==
  /\ order \in {"asc", "desc", "lua"}
  /\ sl = Empty
  /\ it = NoLoop
  /\ crashed = ""
-----------------------------------------------------------------------------
(* Comparison of nodes.                                                    *)
Sign(d) == IF d < 0 THEN -1 ELSE IF d > 0 THEN 1 ELSE 0

(* Mutant: the direction of the list is ignored.                           *)
CompByScoreAscending(s, a, b) ==
  LET d == s.mem[a].score - s.mem[b].score IN IF d = 0 THEN Sign(a - b) ELSE Sign(d)

(* compByScore: the address decides among equal scores.                    *)
CompByScore(s, a, b) ==
  LET d == s.mem[a].score - s.mem[b].score
  IN IF d = 0 THEN Sign(a - b) ELSE IF order = "desc" THEN Sign(-d) ELSE Sign(d)

(* compInLua with the function of benchmark.lua: the value decides among   *)
(* equal scores. That of the head differs from 0, but by so little that    *)
(* the result counts as a tie.                                             *)
CompInLua(s, a, b) ==
  LET d == s.mem[a].score - s.mem[b].score
  IN IF a = b \/ (d = 0 /\ SlHead \in {a, b}) THEN 0
     ELSE IF d = 0 THEN Sign(s.value_map[a] - s.value_map[b]) ELSE Sign(d)

Comp(s, a, b) == IF order = "lua" THEN CompInLua(s, a, b) ELSE CompByScore(s, a, b)

(* f, n times, from x on.                                                  *)
Iterate(f, x, n) ==
  LET value[i \in Nat] == IF i = 0 THEN x ELSE f[value[i - 1]] IN value[n]

(* A place in the list: a node and its rank by the spans passed. The way   *)
(* down from the head leads along each level on to the next place while it *)
(* is one of ahead (no walk passes more nodes than there are); Path[l] is  *)
(* where level l was left.                                                 *)
Place == [at : Addr, rank : Nat]
Onward(s, x, l) == [at |-> s.mem[x.at].next[l], rank |-> x.rank + s.mem[x.at].span[l]]

Along(s, x, l, ahead) ==
  LET step == [y \in [at : DOMAIN s.mem, rank : Nat] |->
                IF Onward(s, y, l) \in ahead THEN Onward(s, y, l) ELSE y]
  IN Iterate(step, x, Cardinality(DOMAIN s.mem))

Path(s, ahead) ==
  LET start(above) == IF above = <<>> THEN [at |-> SlHead, rank |-> 0] ELSE above[1]
      step == [above \in Seq([at : DOMAIN s.mem, rank : Nat]) |->
                <<Along(s, start(above), s.level - Len(above), ahead)>> \o above]
  IN Iterate(step, <<>>, s.level)

Before(s, a) == Path(s, {x \in Place : Comp(s, x.at, a) < 0})

(* update[l] of slInsertNode and its span. Levels the list has not had     *)
(* begin at the head, with a span of the whole list.                       *)
LeftAt(s, path, l) == IF l <= s.level THEN path[l].at ELSE SlHead
(* Mutant: the span a level was left with is used again.                   *)
SpanLeft(s, path, l) == s.mem[LeftAt(s, path, l)].span[l]
Span(s, path, l) == IF l <= s.level THEN s.mem[path[l].at].span[l] ELSE s.size

(* The nodes, linked anew.                                                 *)
Linked(s, prev(_), next(_, _), span(_, _)) ==
  [p \in DOMAIN s.mem |->
     [score |-> s.mem[p].score, prev |-> prev(p), levelSize |-> s.mem[p].levelSize,
      next |-> [l \in 1..s.mem[p].levelSize |-> next(p, l)],
      span |-> [l \in 1..s.mem[p].levelSize |-> span(p, l)]]]

(* slInsertNode: on levels up to its height the node goes in and divides   *)
(* the span it interrupts, on those above the span grows.                  *)
SlInsertNode(s, a) ==
  LET path == Before(s, a)
      h == s.mem[a].levelSize
      level == IF h > s.level THEN h ELSE s.level
      update(l) == LeftAt(s, path, l)
      passed(l) == path[1].rank - (IF l <= s.level THEN path[l].rank ELSE 0)
      next == s.mem[update(1)].next[1]
      prev(p) ==
        IF p = a THEN (IF update(1) = SlHead THEN Nil ELSE update(1))
        ELSE IF p = next THEN a ELSE s.mem[p].prev
      nextOn(p, l) ==
        IF p = a THEN s.mem[update(l)].next[l]
        ELSE IF l <= h /\ update(l) = p THEN a ELSE s.mem[p].next[l]
      spanOn(p, l) ==
        IF p = a THEN Span(s, path, l) - passed(l)
        ELSE IF l > level \/ update(l) # p THEN s.mem[p].span[l]
        ELSE IF l <= h THEN passed(l) + 1 ELSE s.mem[p].span[l] + 1
  IN [s EXCEPT !.mem = Linked(s, prev, nextOn, spanOn), !.level = level,
               !.size = @ + 1, !.tail = IF next = Nil THEN a ELSE @]

(* Whether slDeleteNode finds the node: it returns -1 otherwise.           *)
Finds(s, a) == s.mem[Before(s, a)[1].at].next[1] = a

(* The span of p on a level where the search for a passed it, without a.   *)
Joined(s, a, p, l) ==
  s.mem[p].span[l] - 1 + IF s.mem[p].next[l] = a THEN s.mem[a].span[l] ELSE 0

(* slDeleteNode and slDeleteNodeUpdate.                                    *)
SlDeleteNode(s, a) ==
  LET path == Before(s, a)
      gone == s.mem[a]
      On(l, p) == l <= s.level /\ path[l].at = p
      prev(p) == IF p = gone.next[1] THEN gone.prev ELSE s.mem[p].prev
      nextOn(p, l) == IF On(l, p) /\ s.mem[p].next[l] = a THEN gone.next[l] ELSE s.mem[p].next[l]
      spanOn(p, l) == IF On(l, p) THEN Joined(s, a, p, l) ELSE s.mem[p].span[l]
  IN [s EXCEPT !.mem = Linked(s, prev, nextOn, spanOn),
               !.tail = IF gone.next[1] = Nil THEN gone.prev ELSE @,
               !.level = Max({1} \cup {l \in 1..s.level : nextOn(SlHead, l) # Nil}),
               !.size = @ - 1]

SlGetNodeByRank(s, rank) ==
  LET path == Path(s, {x \in Place : x.rank <= rank})
      hits == {l \in DOMAIN path : path[l].rank = rank}
  IN IF hits = {} THEN Nil ELSE path[Max(hits)].at

SlGetRank(s, a) ==
  LET path == Path(s, {x \in Place : Comp(s, x.at, a) <= 0})
      hits == {l \in DOMAIN path : Comp(s, path[l].at, a) = 0}
  IN IF a = Nil \/ hits = {} THEN 0 ELSE path[Max(hits)].rank

(* Mutant: the first of the score itself is passed too.                    *)
SlFirstGThan(s, score) ==
  s.mem[Path(s, {x \in Place : s.mem[x.at].score <= score})[1].at].next[1]
SlFirstGEThan(s, score) ==
  s.mem[Path(s, {x \in Place : s.mem[x.at].score < score})[1].at].next[1]

SlLastLEThan(s, score) == Path(s, {x \in Place : s.mem[x.at].score <= score})[1].at

(* SL_NEXT from p on, up to and without stop. If stop is not met the code  *)
(* goes on from NULL.                                                      *)
From(s, p, stop) ==
  LET next(nodes) == IF nodes = <<>> THEN p ELSE s.mem[Last(nodes)].next[1]
      step == [nodes \in Seq(Addr) |->
                IF next(nodes) \in {stop, Nil} THEN nodes ELSE Append(nodes, next(nodes))]
  IN Iterate(step, <<>>, Cardinality(DOMAIN s.mem))
Line(s) == From(s, s.mem[SlHead].next[1], Nil)
-----------------------------------------------------------------------------
(* The userdata.                                                           *)

Whole == Range(Line(sl)) = DOMAIN sl.mem \ {SlHead}
Listed(v) == sl.node_map[v] # Nil /\ Finds(sl, sl.node_map[v])

(* slCreateNode and both table entries: before the list knows the node.    *)
Created(s, a, v, score, h) ==
  [s EXCEPT !.mem = [p \in DOMAIN @ \cup {a} |-> IF p = a THEN Node(score, h) ELSE @[p]],
            !.node_map[v] = a, !.value_map[a] = v]

Scored(s, a, score) == [s EXCEPT !.mem[a].score = score]

(* Mutant: the value stays in node_map.                                    *)
FreedHalf(s, a, v) == [s EXCEPT !.mem = Restrict(@, DOMAIN @ \ {a}), !.value_map[a] = Nil]

(* slFreeNode, and both table entries.                                     *)
Freed(s, a, v) ==
  [s EXCEPT !.mem = Restrict(@, DOMAIN @ \ {a}), !.node_map[v] = Nil, !.value_map[a] = Nil]

Deleted(s, a, v) == Freed(SlDeleteNode(s, a), a, v)

(* What the loop is told of it: nothing. It stays in tune with the list if *)
(* only pairs it has been given are deleted.                               *)
Disturbed == [it EXCEPT !.tame = FALSE, !.gone = 0]
LoopWithout(ranks) ==
  IF it.tame /\ \A r \in ranks : r < it.last - it.gone
  THEN [it EXCEPT !.gone = @ + Cardinality(ranks)] ELSE Disturbed
RankIn(a) == CHOOSE r \in DOMAIN Line(sl) : Line(sl)[r] = a

(* insert, and update of a value that is not there.                        *)
Insert(v, score) ==
  /\ crashed = "" /\ sl.node_map[v] = Nil
  /\ \E a \in Addr \ DOMAIN sl.mem, h \in 1..MaxLevel :
       sl' = SlInsertNode(Created(sl, a, v, score, h), a)
  /\ it' = Disturbed
  /\ UNCHANGED <<order, crashed>>

(* The same, and the Lua function raises in the search for the place: the  *)
(* node stays in the tables, without being in the list. The error ends a   *)
(* loop that is in progress. One node at a time may be lost (a bound).     *)
InsertRaises(v, score) ==
  /\ crashed = "" /\ order = "lua" /\ Whole /\ sl.size > 0 /\ sl.node_map[v] = Nil
  /\ \E a \in Addr \ DOMAIN sl.mem, h \in 1..MaxLevel : sl' = Created(sl, a, v, score, h)
  /\ it' = NoLoop
  /\ UNCHANGED <<order, crashed>>

(* update of a value that is there. If the node is not found it raises.    *)
Update(v, score) ==
  /\ crashed = "" /\ Listed(v)
  /\ LET a == sl.node_map[v]
     IN sl' = SlInsertNode(Scored(SlDeleteNode(sl, a), a, score), a)
  /\ it' = Disturbed
  /\ UNCHANGED <<order, crashed>>

(* The same, and the Lua function raises in the second search.             *)
UpdateRaises(v, score) ==
  /\ crashed = "" /\ order = "lua" /\ Whole /\ sl.size > 1 /\ Listed(v)
  /\ LET a == sl.node_map[v] IN sl' = Scored(SlDeleteNode(sl, a), a, score)
  /\ it' = NoLoop
  /\ UNCHANGED <<order, crashed>>

(* delete, and update to nil.                                              *)
Delete(v) ==
  /\ crashed = "" /\ Listed(v)
  /\ sl' = Deleted(sl, sl.node_map[v], v)
  /\ it' = LoopWithout({RankIn(sl.node_map[v])})
  /\ UNCHANGED <<order, crashed>>

GetByRank(s, rank) ==
  IF rank = 1 THEN s.mem[SlHead].next[1]
  ELSE IF rank = s.size THEN s.tail ELSE SlGetNodeByRank(s, rank)

DelByRank(rank) ==
  /\ crashed = ""
  /\ LET a == GetByRank(sl, rank)
     IN /\ a # Nil /\ Finds(sl, a)
        /\ sl' = Deleted(sl, a, sl.value_map[a])
        /\ it' = LoopWithout({RankIn(a)})
  /\ UNCHANGED <<order, crashed>>

(* The nodes that slDeleteByRankRange deletes one by one.                  *)
Victims(lo, hi) ==
  LET last == Path(sl, {x \in Place : x.rank < lo})[1]
  IN SubSeq(From(sl, sl.mem[last.at].next[1], Nil), 1, hi - last.rank)

DeletedAll(s, nodes) ==
  LET after[n \in Nat] ==
        IF n = 0 THEN s
        ELSE LET t == after[n - 1] IN Deleted(t, nodes[n], t.value_map[nodes[n]])
  IN after[Len(nodes)]

(* del_by_rank_range. The comparison gets a null context: compByScore does *)
(* not use it, compInLua takes it for a Lua state.                         *)
DelRankRange(lo, hi) ==
  /\ crashed = ""
  /\ IF order = "lua"
     THEN crashed' = "comparison" /\ UNCHANGED <<sl, it>>
     ELSE /\ sl' = DeletedAll(sl, Victims(lo, hi))
          /\ it' = LoopWithout(lo..hi)
          /\ UNCHANGED crashed
  /\ UNCHANGED order

(* rank_pairs, and one call of its iterator, which keeps the next node.    *)
(* Loops are made over lists that have lost nothing (a bound).             *)
RankPairs(lo, hi) ==
  /\ crashed = "" /\ it.max = 0 /\ Whole
  /\ it' = [at |-> SlGetNodeByRank(sl, lo), last |-> lo, max |-> hi, gone |-> 0, tame |-> TRUE]
  /\ UNCHANGED <<order, sl, crashed>>

(* Mutant: it reads the next node only when it is called again.            *)
RankIteratorLate ==
  /\ crashed = "" /\ it.max > 0
  /\ IF it.last > it.max \/ it.at = Nil THEN it' = NoLoop /\ UNCHANGED crashed
     ELSE IF it.at \in DOMAIN sl.mem
     THEN it' = [it EXCEPT !.last = @ + 1] /\ UNCHANGED crashed
     ELSE crashed' = "loop" /\ UNCHANGED it
  /\ UNCHANGED <<order, sl>>
RankIterator ==
  /\ crashed = "" /\ it.max > 0
  /\ IF it.last > it.max \/ it.at = Nil THEN it' = NoLoop /\ UNCHANGED crashed
     ELSE IF it.at \in DOMAIN sl.mem
     THEN it' = [it EXCEPT !.at = sl.mem[it.at].next[1], !.last = @ + 1] /\ UNCHANGED crashed
     ELSE crashed' = "loop" /\ UNCHANGED it
  /\ UNCHANGED <<order, sl>>

(* lua__skiplist_gc, and another list. A loop keeps its list from it.      *)
Gc ==
  /\ crashed = "" /\ it.max = 0
  /\ sl' = Empty
  /\ UNCHANGED <<order, it, crashed>>

Stopped == crashed # "" /\ UNCHANGED vars

Ranges == {r \in (1..sl.size) \X (1..sl.size) : r[1] <= r[2]}

Next ==
  \/ \E v \in Value, score \in Score :
       \/ Insert(v, score) \/ InsertRaises(v, score)
       \/ Update(v, score) \/ UpdateRaises(v, score)
  \/ \E v \in Value : Delete(v)
  \/ \E rank \in 1..sl.size : DelByRank(rank)
  \/ \E r \in Ranges : DelRankRange(r[1], r[2])
  \/ \E r \in Ranges \cap Loops : RankPairs(r[1], r[2])
  \/ RankIterator \/ Gc \/ Stopped

Spec == Init /\ [][Next]_vars
-----------------------------------------------------------------------------
(* What the queries of the userdata return: values, by their nodes.        *)
RankOf(v) == SlGetRank(sl, sl.node_map[v])

RankRange(lo, hi) ==
  LET nodes == From(sl, SlGetNodeByRank(sl, lo), Nil)
  IN SubSeq(nodes, 1, Min({hi - lo + 1, Len(nodes)}))

ScoreRange(min, max) ==
  LET first == SlFirstGEThan(sl, min)
      nodes == From(sl, first, sl.mem[SlLastLEThan(sl, max)].next[1])
      rank == SlGetRank(sl, first)
  IN [nodes |-> nodes, first |-> rank, last |-> rank + Len(nodes) - 1]
-----------------------------------------------------------------------------
(* The values of the variables.                                            *)
TypeOK ==
  /\ order \in {"asc", "desc", "lua"} /\ crashed \in {"", "comparison", "loop"}
  /\ sl.level \in 1..MaxLevel /\ sl.size \in 0..Cardinality(Addr)
  /\ sl.tail \in Addr \cup {Nil}
  /\ DOMAIN sl.mem \subseteq Addr \cup {SlHead} /\ SlHead \in DOMAIN sl.mem
  /\ \A p \in DOMAIN sl.mem :
       /\ sl.mem[p].score \in Score \cup {0}
       /\ Range(sl.mem[p].next) \subseteq Addr \cup {Nil}
       /\ Range(sl.mem[p].span) \subseteq Nat
       /\ sl.mem[p].prev \in Addr \cup {Nil}
  /\ sl.node_map \in [Value -> Addr \cup {Nil}] /\ sl.value_map \in [Addr -> Value \cup {Nil}]
  /\ it.at \in Addr \cup {Nil} /\ {it.last, it.max, it.gone} \subseteq Nat

(* The list is what all its operations rely on. Nodes are in order; each   *)
(* level links those that are high enough; a span is the number of nodes   *)
(* from here to the next on this level, or to the end; back links and tail *)
(* mirror the lowest level. Spans are kept by relative changes on the way  *)
(* of one search, and those of a level come back into use after it was     *)
(* given up: any that is wrong shows in the ranks of other values, later.  *)
ListSound ==
  LET line == Line(sl)
      node(i) == IF i = 0 THEN SlHead ELSE line[i]
      High(l) == {i \in DOMAIN line : sl.mem[line[i]].levelSize >= l}
  IN /\ sl.size = Len(line)
     /\ \A i \in 1 .. Len(line) - 1 : Comp(sl, line[i], line[i + 1]) < 0
     /\ sl.level = Max({1} \cup {sl.mem[a].levelSize : a \in Range(line)})
     /\ \A l \in 1..sl.level : \A i \in {0} \cup High(l) :
          LET later == {j \in High(l) : j > i}
              this == sl.mem[node(i)]
          IN /\ this.next[l] = IF later = {} THEN Nil ELSE line[Min(later)]
             /\ this.span[l] = (IF later = {} THEN Len(line) ELSE Min(later)) - i
     /\ \A l \in sl.level + 1 .. MaxLevel : sl.mem[SlHead].next[l] = Nil
     /\ \A i \in DOMAIN line : sl.mem[line[i]].prev = IF i = 1 THEN Nil ELSE line[i - 1]
     /\ sl.tail = IF line = <<>> THEN Nil ELSE Last(line)

(* The two tables mirror one another, every node that is allocated belongs *)
(* to a value, and every value with a node is in the list, unless a Lua    *)
(* function has raised.                                                    *)
TablesMatch ==
  /\ \A v \in Value, a \in Addr : sl.node_map[v] = a <=> sl.value_map[a] = v
  /\ DOMAIN sl.mem \ {SlHead} = {a \in Addr : sl.value_map[a] # Nil}
  /\ order # "lua" => Whole

(* The answers agree with the order of the list. Two exceptions: the rank  *)
(* of a value of score 0 by a Lua function, which may find the head equal  *)
(* to it and answer 0; and scores searched for along a descending list.    *)
QueriesRight ==
  LET line == Line(sl)
      ZeroTie(a) == order = "lua" /\ sl.mem[a].score = 0
  IN /\ \A r \in DOMAIN line :
          /\ GetByRank(sl, r) = line[r]
          /\ RankOf(sl.value_map[line[r]]) \in {r} \cup IF ZeroTie(line[r]) THEN {0} ELSE {}
          /\ \A hi \in r .. Len(line) : RankRange(r, hi) = SubSeq(line, r, hi)
     /\ \A min \in Score, max \in {x + 1 : x \in Score} :
          order # "desc" /\ min < max =>
            LET found == ScoreRange(min, max)
            IN \E lo \in 1 .. Len(line) + 1, hi \in 0 .. Len(line) :
                 /\ \A i \in DOMAIN line : sl.mem[line[i]].score \in min..max <=> i \in lo..hi
                 /\ found.nodes = SubSeq(line, lo, hi)
                 /\ lo <= hi /\ ~ZeroTie(line[lo]) => found.first = lo /\ found.last = hi

(* A loop over rank_pairs whose body deletes pairs it has been given goes  *)
(* on with the next one, and none is left out or freed under it.           *)
LoopRight ==
  /\ it.tame => LET at == it.last - it.gone
                    line == Line(sl)
                IN it.at = IF at \in DOMAIN line THEN line[at] ELSE Nil
  /\ crashed = "loop" => ~it.tame

(* The values of nodes and their scores.                                   *)
Entries(s) ==
  [nodes \in Seq(Addr) |->
     [i \in DOMAIN nodes |-> <<s.value_map[nodes[i]], s.mem[nodes[i]].score>>]]

(* The list implements a ranking: every operation changes the rank and the *)
(* score of its own value only, and an operation that fails half-way loses *)
(* no other value.                                                         *)
Board ==
  INSTANCE Ranking WITH
    descending <- (order = "desc"),
    ranked <- Entries(sl)[Line(sl)],
    lost <- {sl.value_map[a] : a \in (DOMAIN sl.mem \ {SlHead}) \ Range(Line(sl))}
RanksKept == Board!Spec
=============================================================================
