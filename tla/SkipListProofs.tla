--------------------------- MODULE SkipListProofs ----------------------------
(***************************************************************************)
(* Proofs about the skip list, for any addresses, values, scores, loops    *)
(* and number of levels: the values of the variables, that the list is     *)
(* sound, its tables right, its queries and loops too, and that it         *)
(* implements Ranking.                                                     *)
(*                                                                         *)
(* The argument goes by a sequence of nodes L that the list is said to     *)
(* hold, the same that Line finds:                                         *)
(*   Listing(s, L)    L is linked on all levels, with right spans, back    *)
(*                    links and tail, also on the levels of the head that  *)
(*                    the list has not got (LinkedTo);                     *)
(*   Core(o, s, L)    moreover L is in the order o, by score and, among    *)
(*                    equal ones, by address or value, and the tables of   *)
(*                    lskiplist.c mirror one another;                      *)
(*   IInv             there is such an L; no node is lost unless a Lua     *)
(*                    function compares; a loop in tune knows its place.   *)
(* A search goes along places that make up a beginning of L (IsCut), so    *)
(* that on each level it ends at the last high node of it (PathEnds). What *)
(* an operation does to the links follows from where its search ends, and  *)
(* L grows by one node (With) or gets shorter by some (Cutout).            *)
(*                                                                         *)
(* Iteration is a recursive function. The facts about it are proved by     *)
(* induction over sets of naturals, from WFMin of the library.             *)
(***************************************************************************)
EXTENDS SkipList, WellFoundedInduction, SequenceTheorems, FiniteSetTheorems, TLAPS

(* The least-number principle, for sets.                                   *)
LEMMA LeastOf ==
  ASSUME NEW S \in SUBSET Nat, S # {}
  PROVE  \E x \in S : \A y \in S : x <= y
<1> DEFINE R == OpToRel(<, Nat)
<1>1. IsWellFoundedOn(R, Nat)
  BY NatLessThanWellFounded
<1>2. \A x, y \in Nat : y < x => <<y, x>> \in R
  BY DEF OpToRel
<1> HIDE DEF R
<1>3. \E x \in S : \A y \in S : ~ (<<y, x>> \in R)
  BY <1>1, WFMin
<1>4. PICK x \in S : \A y \in S : ~ (<<y, x>> \in R)
  BY <1>3
<1>5. ASSUME NEW y \in S PROVE x <= y
  <2>1. x \in Nat /\ y \in Nat
    OBVIOUS
  <2>2. ~(<<y, x>> \in R)
    BY <1>4
  <2>3. ~(y < x)
    BY <1>2, <2>1, <2>2
  <2>4. QED
    BY <2>1, <2>3
<1>6. QED
  BY <1>5

(* Induction over the natural numbers, for sets.                           *)
LEMMA NatSet ==
  ASSUME NEW S \in SUBSET Nat, 0 \in S, \A n \in S : n + 1 \in S
  PROVE  S = Nat
<1> SUFFICES ASSUME S # Nat PROVE FALSE
  OBVIOUS
<1> DEFINE T == Nat \ S
<1>1. T \in SUBSET Nat /\ T # {}
  OBVIOUS
<1> HIDE DEF T
<1>2. PICK x \in T : \A y \in T : x <= y
  BY <1>1, LeastOf
<1>3. x \in Nat /\ x \notin S /\ \A y \in Nat \ S : x <= y
  BY <1>1, <1>2 DEF T
<1>4. x - 1 \in S
  BY <1>3
<1>5. QED
  BY <1>3, <1>4

-----------------------------------------------------------------------------
(* Iterate is a recursive function; g has its values up to n.              *)
IteratesTo(f, x, n, g) == g[0] = x /\ \A i \in 1..n : g[i] = f[g[i - 1]]

LEMMA IterateExists ==
  ASSUME NEW f, NEW x, NEW n \in Nat
  PROVE  \E g : IteratesTo(f, x, n, g)
<1> DEFINE N == {m \in Nat : \E g : IteratesTo(f, x, m, g)}
<1>1. 0 \in N
  <2>1. IteratesTo(f, x, 0, [i \in 0..0 |-> x])
    BY DEF IteratesTo
  <2>2. QED
    BY <2>1
<1>2. ASSUME NEW m \in N PROVE m + 1 \in N
  <2>1. PICK g : IteratesTo(f, x, m, g)
    OBVIOUS
  <2> DEFINE e == f[g[m]]
             h == [i \in 0..(m + 1) |-> IF i = m + 1 THEN e ELSE g[i]]
  <2> HIDE DEF e
  <2>2. m \in Nat
    OBVIOUS
  <2>3. h[0] = x
    BY <2>1, <2>2 DEF IteratesTo
  <2>4. ASSUME NEW i \in 1..(m + 1) PROVE h[i] = f[h[i - 1]]
    <3>1. h[i - 1] = g[i - 1]
      BY <2>2
    <3>2. CASE i = m + 1
      <4>1. h[i] = e /\ i - 1 = m
        BY <2>2, <3>2
      <4>2. QED
        BY <3>1, <4>1 DEF e
    <3>3. CASE i # m + 1
      <4>1. i \in 1..m /\ h[i] = g[i]
        BY <2>2, <3>3
      <4>2. g[i] = f[g[i - 1]]
        BY <2>1, <4>1 DEF IteratesTo
      <4>3. QED
        BY <3>1, <4>1, <4>2
    <3>4. QED
      BY <3>2, <3>3
  <2>5. IteratesTo(f, x, m + 1, h)
    <3> HIDE DEF h
    <3>1. QED
      BY <2>3, <2>4 DEF IteratesTo
  <2>6. QED
    BY <2>2, <2>5
<1> HIDE DEF N
<1>3. N = Nat
  <2>1. N \in SUBSET Nat
    BY DEF N
  <2>2. QED
    BY <1>1, <1>2, <2>1, NatSet
<1>4. QED
  BY <1>3 DEF N

LEMMA IterateUnique ==
  ASSUME NEW f, NEW x, NEW m \in Nat, NEW n \in Nat, m <= n,
         NEW g, IteratesTo(f, x, m, g), NEW h, IteratesTo(f, x, n, h)
  PROVE  g[m] = h[m]
<1> DEFINE N == {k \in Nat : k <= m => g[k] = h[k]}
<1>1. 0 \in N
  BY DEF IteratesTo
<1>2. ASSUME NEW k \in N PROVE k + 1 \in N
  <2> SUFFICES ASSUME k + 1 <= m PROVE g[k + 1] = h[k + 1]
    OBVIOUS
  <2>1. k \in Nat /\ g[k] = h[k] /\ k + 1 \in 1..m /\ k + 1 \in 1..n /\ (k + 1) - 1 = k
    OBVIOUS
  <2>2. g[k + 1] = f[g[k]] /\ h[k + 1] = f[h[k]]
    BY <2>1 DEF IteratesTo
  <2>3. QED
    BY <2>1, <2>2
<1> HIDE DEF N
<1>3. N = Nat
  <2>1. N \in SUBSET Nat
    BY DEF N
  <2>2. QED
    BY <1>1, <1>2, <2>1, NatSet
<1>4. m \in N
  BY <1>3
<1>5. QED
  BY <1>4 DEF N

(* The first value is x, and each of the others f of the one before.       *)
LEMMA IterateIs ==
  ASSUME NEW f, NEW x
  PROVE  /\ Iterate(f, x, 0) = x
         /\ \A n \in Nat : Iterate(f, x, n + 1) = f[Iterate(f, x, n)]
<1> DEFINE G(n) == CHOOSE g : IteratesTo(f, x, n, g)
           v == [n \in Nat |-> G(n)[n]]
<1>1. \A n \in Nat : IteratesTo(f, x, n, G(n))
  BY IterateExists
<1> HIDE DEF G
<1>2. ASSUME NEW n \in Nat PROVE v[n] = IF n = 0 THEN x ELSE f[v[n - 1]]
  <2>1. CASE n = 0
    BY <1>1, <2>1 DEF IteratesTo
  <2>2. CASE n # 0
    <3>1. n \in 1..n /\ n - 1 \in Nat /\ n - 1 <= n
      BY <2>2
    <3>2. G(n)[n] = f[G(n)[n - 1]]
      BY <1>1, <3>1 DEF IteratesTo
    <3>3. G(n - 1)[n - 1] = G(n)[n - 1]
      BY <1>1, <3>1, IterateUnique
    <3>4. QED
      BY <2>2, <3>1, <3>2, <3>3
  <2>3. QED
    BY <2>1, <2>2
<1> DEFINE value == CHOOSE w : w = [i \in Nat |-> IF i = 0 THEN x ELSE f[w[i - 1]]]
<1>3. v = [i \in Nat |-> IF i = 0 THEN x ELSE f[v[i - 1]]]
  <2>1. v = [n \in Nat |-> v[n]]
    OBVIOUS
  <2> HIDE DEF v
  <2>2. QED
    BY <1>2, <2>1
<1> HIDE DEF v
<1>4. value = [i \in Nat |-> IF i = 0 THEN x ELSE f[value[i - 1]]]
  BY <1>3
<1>5. \A n : Iterate(f, x, n) = value[n]
  BY DEF Iterate
<1> HIDE DEF value
<1>6. \A i \in Nat : value[i] = IF i = 0 THEN x ELSE f[value[i - 1]]
  BY <1>4
<1>7. value[0] = x
  BY <1>6
<1>8. ASSUME NEW n \in Nat PROVE value[n + 1] = f[value[n]]
  <2>1. n + 1 \in Nat /\ n + 1 # 0 /\ (n + 1) - 1 = n
    OBVIOUS
  <2>2. value[n + 1] = f[value[(n + 1) - 1]]
    BY <1>6, <2>1
  <2>3. QED
    BY <2>1, <2>2
<1>9. QED
  BY <1>5, <1>7, <1>8

-----------------------------------------------------------------------------
(* Minima and maxima of bounded sets.                                      *)
LEMMA MaxOf ==
  ASSUME NEW n \in Int, NEW S \in SUBSET Int, S # {}, \A x \in S : x <= n
  PROVE  Max(S) \in S /\ \A x \in S : x <= Max(S)
<1> DEFINE T == {n - x : x \in S}
<1>1. T \in SUBSET Nat /\ T # {}
  <2>1. \A x \in S : n - x \in Nat
    OBVIOUS
  <2>2. PICK x \in S : TRUE
    OBVIOUS
  <2>3. n - x \in T
    OBVIOUS
  <2>4. QED
    BY <2>1, <2>3
<1>2. PICK t \in T : \A y \in T : t <= y
  BY <1>1, LeastOf
<1>3. PICK m \in S : t = n - m
  BY <1>2
<1>4. ASSUME NEW x \in S PROVE x <= m
  <2>1. n - x \in T
    OBVIOUS
  <2>2. n - m <= n - x
    BY <1>2, <1>3, <2>1
  <2>3. QED
    BY <2>2
<1>5. \E q \in S : \A x \in S : q >= x
  BY <1>4
<1>6. Max(S) \in S /\ \A x \in S : Max(S) >= x
  BY <1>5 DEF Max
<1>7. QED
  BY <1>6

LEMMA MinOf ==
  ASSUME NEW S \in SUBSET Nat, S # {}
  PROVE  Min(S) \in S /\ \A x \in S : Min(S) <= x
<1>1. \E q \in S : \A x \in S : q <= x
  BY LeastOf
<1>2. QED
  BY <1>1 DEF Min

(* The part of a list before the first element that is not in T.           *)
LEMMA CutExists ==
  ASSUME NEW n \in Nat, NEW T \in SUBSET (1..n),
         \A i \in T, j \in 1..n : j < i => j \in T
  PROVE  \E k \in 0..n : \A j \in 1..n : j \in T <=> j <= k
<1> DEFINE S == {0} \cup T
           k == Max(S)
<1>1. k \in S /\ \A x \in S : x <= k
  <2>1. S \in SUBSET Int /\ S # {} /\ (\A x \in S : x <= n) /\ n \in Int
    OBVIOUS
  <2> HIDE DEF S
  <2>2. QED
    BY <2>1, MaxOf
<1> HIDE DEF k
<1>2. k \in 0..n
  BY <1>1
<1>3. ASSUME NEW j \in 1..n PROVE j \in T <=> j <= k
  BY <1>1
<1>4. QED
  BY <1>2, <1>3

-----------------------------------------------------------------------------
(* The values of the list.                                                 *)
Link == Addr \cup {Nil}
Nodes(h) ==
  [score : Score \cup {0}, prev : Link, levelSize : {h},
   next : [1..h -> Link], span : [1..h -> Nat]]
AnyNode == UNION {Nodes(h) : h \in 1..MaxLevel}
Lists ==
  [mem : UNION {[D \cup {SlHead} -> AnyNode] : D \in SUBSET Addr},
   level : 1..MaxLevel, size : Nat, tail : Link,
   node_map : [Value -> Link], value_map : [Addr -> Value \cup {Nil}]]

Typed(s) == s \in Lists /\ s.mem[SlHead].levelSize = MaxLevel /\ s.mem[SlHead].score = 0

LEMMA Constants ==
  /\ Addr \subseteq Nat \ {0} /\ SlHead \notin Addr /\ SlHead = 0
  /\ Nil \notin Addr /\ Nil # SlHead /\ Nil \notin Value /\ MaxLevel \in Nat \ {0}
  /\ Value \subseteq Int /\ Score \subseteq Int
BY SkipListAssumption DEF SlHead

LEMMA NodeIs ==
  ASSUME NEW r \in AnyNode
  PROVE  /\ r.levelSize \in 1..MaxLevel /\ r.score \in Score \cup {0} /\ r.score \in Int
         /\ r.prev \in Link
         /\ r.next \in [1..r.levelSize -> Link] /\ r.span \in [1..r.levelSize -> Nat]
<1>1. PICK h \in 1..MaxLevel : r \in Nodes(h)
  BY DEF AnyNode
<1>2. r.levelSize = h
  BY <1>1 DEF Nodes
<1>3. r.score \in Score \cup {0} /\ r.prev \in Link
      /\ r.next \in [1..h -> Link] /\ r.span \in [1..h -> Nat]
  BY <1>1 DEF Nodes
<1>4. r.score \in Int
  <2>1. \A x \in Score \cup {0} : x \in Int
    BY Constants
  <2>2. QED
    BY <1>3, <2>1
<1>5. QED
  BY <1>2, <1>3, <1>4

LEMMA NodeMake ==
  ASSUME NEW score \in Score \cup {0}, NEW prev \in Link, NEW h \in 1..MaxLevel,
         NEW next \in [1..h -> Link], NEW span \in [1..h -> Nat],
         NEW r, r = [score |-> score, prev |-> prev, levelSize |-> h,
                     next |-> next, span |-> span]
  PROVE  r \in AnyNode
<1>1. r \in Nodes(h)
  BY DEF Nodes
<1>2. QED
  BY <1>1 DEF AnyNode

LEMMA TypedIs ==
  ASSUME NEW s, Typed(s)
  PROVE  /\ SlHead \in DOMAIN s.mem /\ DOMAIN s.mem \subseteq Addr \cup {SlHead}
         /\ s.mem = [p \in DOMAIN s.mem |-> s.mem[p]]
         /\ \A p \in DOMAIN s.mem : s.mem[p] \in AnyNode
         /\ s.mem[SlHead].levelSize = MaxLevel /\ s.mem[SlHead].score = 0
         /\ s.level \in 1..MaxLevel /\ s.size \in Nat /\ s.tail \in Link
         /\ s.node_map \in [Value -> Link] /\ s.value_map \in [Addr -> Value \cup {Nil}]
<1>1. s \in Lists /\ s.mem[SlHead].levelSize = MaxLevel /\ s.mem[SlHead].score = 0
  BY DEF Typed
<1>2. /\ s.mem \in UNION {[D \cup {SlHead} -> AnyNode] : D \in SUBSET Addr}
      /\ s.level \in 1..MaxLevel /\ s.size \in Nat /\ s.tail \in Link
      /\ s.node_map \in [Value -> Link] /\ s.value_map \in [Addr -> Value \cup {Nil}]
  BY <1>1 DEF Lists
<1>3. PICK D \in SUBSET Addr : s.mem \in [D \cup {SlHead} -> AnyNode]
  BY <1>2
<1> DEFINE m == s.mem
           E == D \cup {SlHead}
<1>4. DOMAIN m = E /\ m = [p \in DOMAIN m |-> m[p]] /\ \A p \in DOMAIN m : m[p] \in AnyNode
  <2>1. m \in [E -> AnyNode]
    BY <1>3
  <2> HIDE DEF m, E
  <2>2. QED
    BY <2>1
<1>5. QED
  BY <1>1, <1>2, <1>4

LEMMA TypedMake ==
  ASSUME NEW t, NEW D \in SUBSET (Addr \cup {SlHead}), SlHead \in D,
         t = [mem |-> t.mem, level |-> t.level, size |-> t.size, tail |-> t.tail,
              node_map |-> t.node_map, value_map |-> t.value_map],
         t.mem \in [D -> AnyNode],
         t.level \in 1..MaxLevel, t.size \in Nat, t.tail \in Link,
         t.node_map \in [Value -> Link], t.value_map \in [Addr -> Value \cup {Nil}],
         t.mem[SlHead].levelSize = MaxLevel, t.mem[SlHead].score = 0
  PROVE  Typed(t)
<1> DEFINE m == t.mem
           E == D \ {SlHead}
           MS == UNION {[F \cup {SlHead} -> AnyNode] : F \in SUBSET Addr}
<1>1. m \in MS
  <2>1. E \in SUBSET Addr /\ E \cup {SlHead} = D
    OBVIOUS
  <2>2. m \in [E \cup {SlHead} -> AnyNode]
    BY <2>1
  <2> HIDE DEF m, E
  <2>3. QED
    BY <2>1, <2>2
<1> HIDE DEF m, E, MS
<1>2. t = [mem |-> m, level |-> t.level, size |-> t.size, tail |-> t.tail,
           node_map |-> t.node_map, value_map |-> t.value_map]
  BY DEF m
<1>3. t \in [mem : MS, level : 1..MaxLevel, size : Nat, tail : Link,
             node_map : [Value -> Link], value_map : [Addr -> Value \cup {Nil}]]
  <2> DEFINE NM == [Value -> Link]
             VM == [Addr -> Value \cup {Nil}]
  <2>1. t.node_map \in NM /\ t.value_map \in VM
    OBVIOUS
  <2> HIDE DEF NM, VM
  <2>2. t \in [mem : MS, level : 1..MaxLevel, size : Nat, tail : Link,
               node_map : NM, value_map : VM]
    BY <1>1, <1>2, <2>1
  <2>3. QED
    BY <2>2 DEF NM, VM
<1>4. t \in Lists
  BY <1>3 DEF Lists, MS
<1>5. QED
  BY <1>4 DEF Typed

-----------------------------------------------------------------------------
(* What the list looks like when its nodes are those of L, in this order:  *)
(* each level links those that are high enough. Place 0 is the head; after *)
(* the last place comes the end.                                           *)
At(L, i) == IF i = 0 THEN SlHead ELSE L[i]
Spot(L, i) == [at |-> At(L, i), rank |-> i]
Entry(L, j) == IF j > Len(L) THEN Nil ELSE L[j]
Index(L, j) == IF j > Len(L) THEN Len(L) ELSE j
High(s, L, i, l) == s.mem[At(L, i)].levelSize >= l

NextHigh(s, L, l, i, j) ==
  /\ j \in i + 1 .. Len(L) + 1
  /\ j <= Len(L) => High(s, L, j, l)
  /\ \A k \in i + 1 .. j - 1 : ~High(s, L, k, l)

LastHigh(s, L, l, k, u) ==
  /\ u \in 0..k
  /\ High(s, L, u, l)
  /\ \A i \in u + 1 .. k : ~High(s, L, i, l)

LinkedTo(s, L, l, i, j) ==
  /\ NextHigh(s, L, l, i, j)
  /\ s.mem[At(L, i)].next[l] = Entry(L, j)
  /\ l <= s.level => s.mem[At(L, i)].span[l] = Index(L, j) - i

NodesOf(s, L) ==
  /\ L \in Seq(Addr) /\ Len(L) \in Nat
  /\ \A i \in 1..Len(L) : L[i] \in DOMAIN s.mem
  /\ \A i, j \in 1..Len(L) : L[i] = L[j] => i = j

Links(s, L) ==
  \A l \in 1..MaxLevel : \A i \in 0..Len(L) :
    High(s, L, i, l) => \E j \in 1 .. Len(L) + 1 : LinkedTo(s, L, l, i, j)

Levels(s, L) ==
  /\ \A i \in 1..Len(L) : s.mem[L[i]].levelSize <= s.level
  /\ s.level = 1 \/ \E i \in 1..Len(L) : s.mem[L[i]].levelSize = s.level

BackLinks(s, L) ==
  /\ \A i \in 1..Len(L) : s.mem[L[i]].prev = IF i = 1 THEN Nil ELSE L[i - 1]
  /\ s.tail = IF Len(L) = 0 THEN Nil ELSE L[Len(L)]

Listing(s, L) ==
  /\ NodesOf(s, L) /\ Links(s, L) /\ Levels(s, L) /\ BackLinks(s, L)
  /\ s.size = Len(L)

LEMMA AtIs ==
  ASSUME NEW s, Typed(s), NEW L, NodesOf(s, L)
  PROVE  /\ \A i \in 0..Len(L) : At(L, i) \in DOMAIN s.mem
         /\ \A i \in 1..Len(L) : At(L, i) = L[i] /\ L[i] \in Addr /\ L[i] # SlHead
         /\ At(L, 0) = SlHead
         /\ \A i, j \in 0..Len(L) : At(L, i) = At(L, j) => i = j
         /\ \A l \in 1..MaxLevel : High(s, L, 0, l)
<1>1. Len(L) \in Nat /\ \A i \in 1..Len(L) : L[i] \in Addr /\ L[i] \in DOMAIN s.mem
  BY DEF NodesOf
<1>2. SlHead \in DOMAIN s.mem /\ s.mem[SlHead].levelSize = MaxLevel
  BY TypedIs
<1>3. \A i \in 1..Len(L) : At(L, i) = L[i] /\ L[i] \in Addr /\ L[i] # SlHead
  BY <1>1, Constants DEF At
<1>4. At(L, 0) = SlHead
  BY DEF At
<1>5. \A i \in 0..Len(L) : i = 0 \/ i \in 1..Len(L)
  BY <1>1
<1>6. \A i \in 0..Len(L) : At(L, i) \in DOMAIN s.mem
  BY <1>1, <1>2, <1>3, <1>4, <1>5
<1>7. ASSUME NEW i \in 0..Len(L), NEW j \in 0..Len(L), At(L, i) = At(L, j) PROVE i = j
  BY <1>3, <1>4, <1>5, <1>7 DEF NodesOf
<1>8. \A l \in 1..MaxLevel : High(s, L, 0, l)
  BY <1>2, <1>4, Constants DEF High
<1>9. QED
  BY <1>3, <1>4, <1>6, <1>7, <1>8

(* No more nodes are listed than there are.                                *)
LEMMA NodesEnough ==
  ASSUME NEW s, Typed(s), NEW L, NodesOf(s, L)
  PROVE  Cardinality(DOMAIN s.mem) \in Nat /\ Len(L) < Cardinality(DOMAIN s.mem)
<1> DEFINE D == DOMAIN s.mem
           n == Len(L)
           f == [i \in 0..n |-> At(L, i)]
<1>1. n \in Nat
  BY DEF NodesOf
<1>2. IsFiniteSet(D)
  <2>1. IsFiniteSet(Addr \cup {SlHead})
    BY SkipListAssumption, FS_AddElement
  <2>2. D \subseteq Addr \cup {SlHead}
    BY TypedIs
  <2>3. QED
    BY <2>1, <2>2, FS_Subset
<1>3. \A i \in 0..n : At(L, i) \in D
  BY AtIs
<1>4. \A i, j \in 0..n : At(L, i) = At(L, j) => i = j
  BY AtIs
<1> HIDE DEF D, n
<1>5. f \in Injection(0..n, D)
  BY <1>3, <1>4 DEF Injection, IsInjective
<1>6. IsFiniteSet(0..n) /\ Cardinality(0..n) = n + 1
  BY <1>1, FS_Interval
<1>7. Cardinality(D) \in Nat
  BY <1>2, FS_CardinalityType
<1>8. Cardinality(0..n) <= Cardinality(D)
  BY <1>2, <1>5, <1>6, FS_Injection
<1>9. QED
  BY <1>1, <1>6, <1>7, <1>8 DEF D, n

-----------------------------------------------------------------------------
(* The way down: a set of places that begins the list is passed, level by  *)
(* level, up to its last node that is high enough.                         *)
IsCut(L, ahead, k) ==
  /\ k \in 0..Len(L)
  /\ ahead \subseteq Place
  /\ \A j \in 1..Len(L) : Spot(L, j) \in ahead <=> j <= k

LEMMA OnwardIs ==
  ASSUME NEW s, Typed(s), NEW L, Listing(s, L), NEW l \in 1..MaxLevel, l <= s.level,
         NEW i \in 0..Len(L), High(s, L, i, l)
  PROVE  \E j \in i + 1 .. Len(L) + 1 :
           /\ NextHigh(s, L, l, i, j)
           /\ j <= Len(L) => Onward(s, Spot(L, i), l) = Spot(L, j)
           /\ j > Len(L) => Onward(s, Spot(L, i), l).at = Nil
<1>1. NodesOf(s, L) /\ Links(s, L) /\ Len(L) \in Nat
  BY DEF Listing, NodesOf
<1>2. PICK j \in 1 .. Len(L) + 1 : LinkedTo(s, L, l, i, j)
  BY <1>1 DEF Links
<1>3. NextHigh(s, L, l, i, j) /\ j \in i + 1 .. Len(L) + 1
  BY <1>2 DEF LinkedTo, NextHigh
<1>4. s.mem[At(L, i)].next[l] = Entry(L, j) /\ s.mem[At(L, i)].span[l] = Index(L, j) - i
  BY <1>2 DEF LinkedTo
<1>5. Onward(s, Spot(L, i), l) = [at |-> Entry(L, j), rank |-> i + (Index(L, j) - i)]
  BY <1>4 DEF Onward, Spot
<1>6. CASE j <= Len(L)
  <2>1. Entry(L, j) = At(L, j) /\ i + (Index(L, j) - i) = j
    BY <1>1, <1>3, <1>6 DEF Entry, Index, At
  <2>2. Onward(s, Spot(L, i), l) = Spot(L, j)
    BY <1>5, <2>1 DEF Spot
  <2>3. QED
    BY <1>1, <1>3, <1>6, <2>2
<1>7. CASE j > Len(L)
  <2>1. Entry(L, j) = Nil
    BY <1>7 DEF Entry
  <2>2. Onward(s, Spot(L, i), l).at = Nil
    BY <1>5, <2>1
  <2>3. QED
    BY <1>1, <1>3, <1>7, <2>2
<1>8. QED
  BY <1>1, <1>3, <1>6, <1>7

LEMMA AlongIs ==
  ASSUME NEW s, Typed(s), NEW L, Listing(s, L), NEW l \in 1..MaxLevel, l <= s.level,
         NEW ahead, NEW k, IsCut(L, ahead, k),
         NEW i \in 0..k, High(s, L, i, l)
  PROVE  \E u \in i..k : LastHigh(s, L, l, k, u) /\ Along(s, Spot(L, i), l, ahead) = Spot(L, u)
<1> DEFINE D == [at : DOMAIN s.mem, rank : Nat]
           step == [y \in D |-> IF Onward(s, y, l) \in ahead THEN Onward(s, y, l) ELSE y]
           v(m) == Iterate(step, Spot(L, i), m)
           n == Len(L)
           c == Cardinality(DOMAIN s.mem)
           Ends(u) == \A q \in u + 1 .. k : ~High(s, L, q, l)
           N == {m \in Nat : \E u \in i..k :
                   /\ v(m) = Spot(L, u) /\ High(s, L, u, l)
                   /\ u >= i + m \/ Ends(u)}
<1>1. NodesOf(s, L) /\ n \in Nat /\ k \in 0..n /\ k \in Nat /\ i \in Nat
  BY DEF Listing, NodesOf, IsCut
<1>2. v(0) = Spot(L, i) /\ \A m \in Nat : v(m + 1) = step[v(m)]
  BY IterateIs
<1>3. c \in Nat /\ n < c
  BY <1>1, NodesEnough
<1>4. Along(s, Spot(L, i), l, ahead) = v(c)
  BY DEF Along
<1>5. ASSUME NEW u \in 0..k, High(s, L, u, l)
      PROVE  \E w \in u..k : /\ step[Spot(L, u)] = Spot(L, w) /\ High(s, L, w, l)
                             /\ w > u \/ (w = u /\ Ends(u))
  <2>1. u \in 0..n
    BY <1>1
  <2>2. PICK j \in u + 1 .. n + 1 :
          /\ NextHigh(s, L, l, u, j)
          /\ j <= n => Onward(s, Spot(L, u), l) = Spot(L, j)
          /\ j > n => Onward(s, Spot(L, u), l).at = Nil
    BY <1>5, <2>1, OnwardIs
  <2>3. Spot(L, u) \in D
    <3>1. At(L, u) \in DOMAIN s.mem
      BY <1>1, <2>1, AtIs
    <3>2. QED
      BY <2>1, <3>1 DEF Spot
  <2>4. step[Spot(L, u)] = IF Onward(s, Spot(L, u), l) \in ahead
                           THEN Onward(s, Spot(L, u), l) ELSE Spot(L, u)
    BY <2>3
  <2> HIDE DEF step, D, v
  <2>5. CASE j <= k
    <3>1. j \in 1..n /\ j <= n
      BY <1>1, <2>5
    <3>2. Spot(L, j) \in ahead
      BY <2>5, <3>1 DEF IsCut
    <3>3. step[Spot(L, u)] = Spot(L, j) /\ High(s, L, j, l)
      BY <2>2, <2>4, <3>1, <3>2 DEF NextHigh
    <3>4. QED
      BY <1>1, <2>5, <3>1, <3>3
  <2>6. CASE j > k
    <3>1. Ends(u)
      BY <1>1, <2>2, <2>6 DEF NextHigh
    <3>2. Onward(s, Spot(L, u), l) \notin ahead
      <4>1. CASE j <= n
        <5>1. j \in 1..n /\ ~(j <= k)
          BY <1>1, <2>6, <4>1
        <5>2. QED
          BY <2>2, <4>1, <5>1 DEF IsCut
      <4>2. CASE j > n
        <5>1. \A x \in Place : x.at \in Addr
          BY DEF Place
        <5>2. QED
          BY <2>2, <4>2, <5>1, Constants DEF IsCut
      <4>3. QED
        BY <1>1, <4>1, <4>2
    <3>3. step[Spot(L, u)] = Spot(L, u)
      BY <2>4, <3>2
    <3>4. QED
      BY <1>1, <1>5, <3>1, <3>3
  <2>7. QED
    BY <1>1, <2>5, <2>6
<1> HIDE DEF step, D, v, c
<1>6. 0 \in N
  <2>1. i \in i..k /\ i >= i + 0
    BY <1>1
  <2>2. v(0) = Spot(L, i) /\ High(s, L, i, l)
    BY <1>2
  <2>3. QED
    BY <2>1, <2>2
<1>7. ASSUME NEW m \in N PROVE m + 1 \in N
  <2>1. PICK u \in i..k : /\ v(m) = Spot(L, u) /\ High(s, L, u, l)
                          /\ u >= i + m \/ Ends(u)
    BY <1>7
  <2>2. m \in Nat /\ u \in 0..k
    BY <1>1, <1>7
  <2>3. PICK w \in u..k : /\ step[Spot(L, u)] = Spot(L, w) /\ High(s, L, w, l)
                          /\ w > u \/ (w = u /\ Ends(u))
    BY <1>5, <2>1, <2>2
  <2>4. v(m + 1) = Spot(L, w)
    BY <1>2, <2>1, <2>2, <2>3
  <2>5. w >= i + (m + 1) \/ Ends(w)
    <3>1. CASE w = u /\ Ends(u)
      BY <3>1
    <3>2. CASE w > u
      <4>1. CASE u >= i + m
        BY <1>1, <2>2, <3>2, <4>1
      <4>2. CASE Ends(u)
        <5>1. w \in u + 1 .. k
          BY <1>1, <2>2, <3>2
        <5>2. QED
          BY <2>3, <4>2, <5>1
      <4>3. QED
        BY <2>1, <4>1, <4>2
    <3>3. QED
      BY <2>3, <3>1, <3>2
  <2>6. w \in i..k
    BY <1>1, <2>2
  <2>7. QED
    BY <2>2, <2>3, <2>4, <2>5, <2>6
<1>8. N = Nat
  <2>1. N \in SUBSET Nat
    OBVIOUS
  <2> HIDE DEF N
  <2>2. QED
    BY <1>6, <1>7, <2>1, NatSet
<1>9. PICK u \in i..k : /\ v(c) = Spot(L, u) /\ High(s, L, u, l)
                        /\ u >= i + c \/ Ends(u)
  BY <1>3, <1>8
<1>10. Ends(u) /\ u \in 0..k
  BY <1>1, <1>3, <1>9
<1>11. QED
  BY <1>4, <1>9, <1>10 DEF LastHigh

(* Where the way down leaves level l: at its last place up to k.           *)
LeftAtCut(s, L, l, k, x) == LastHigh(s, L, l, k, x.rank) /\ x = Spot(L, x.rank)

LEMMA PathIs ==
  ASSUME NEW s, Typed(s), NEW L, Listing(s, L), NEW ahead, NEW k, IsCut(L, ahead, k)
  PROVE  /\ Path(s, ahead) \in Seq([at : DOMAIN s.mem, rank : Nat])
         /\ Len(Path(s, ahead)) = s.level
         /\ \A l \in 1..s.level : LeftAtCut(s, L, l, k, Path(s, ahead)[l])
<1> DEFINE D == [at : DOMAIN s.mem, rank : Nat]
           start(above) == IF above = <<>> THEN [at |-> SlHead, rank |-> 0] ELSE above[1]
           walk(above) == Along(s, start(above), s.level - Len(above), ahead)
           step == [above \in Seq(D) |-> <<walk(above)>> \o above]
           v(m) == Iterate(step, <<>>, m)
           top == s.level
           Good(m) == /\ v(m) \in Seq(D) /\ Len(v(m)) = m
                      /\ \A q \in 1..m : LeftAtCut(s, L, (top - m) + q, k, v(m)[q])
           N == {m \in Nat : m <= top => Good(m)}
<1> HIDE DEF D, walk, step
<1>1. /\ NodesOf(s, L) /\ Len(L) \in Nat /\ k \in 0..Len(L) /\ k \in Nat
      /\ MaxLevel \in Nat /\ top \in Nat /\ top <= MaxLevel
  <2>1. NodesOf(s, L) /\ Len(L) \in Nat /\ k \in 0..Len(L)
    BY DEF Listing, NodesOf, IsCut
  <2>2. top \in 1..MaxLevel
    BY TypedIs
  <2>3. QED
    BY <2>1, <2>2, Constants
<1>2. v(0) = <<>> /\ \A m \in Nat : v(m + 1) = step[v(m)]
  BY IterateIs
<1> HIDE DEF v
<1>3. Path(s, ahead) = v(top)
  BY DEF Path, v, step, walk, D
<1>4. ASSUME NEW u \in 0..k PROVE Spot(L, u) \in D /\ Spot(L, u).rank = u
  <2>1. At(L, u) \in DOMAIN s.mem
    BY <1>1, AtIs
  <2>2. QED
    BY <1>1, <2>1 DEF Spot, D
<1>5. 0 \in N
  <2>1. <<>> \in Seq(D) /\ Len(<<>>) = 0
    OBVIOUS
  <2> DEFINE z == v(0)
  <2>2. z = <<>>
    BY <1>2
  <2> HIDE DEF z
  <2>3. z \in Seq(D) /\ Len(z) = 0
    BY <2>1, <2>2
  <2>4. Good(0)
    BY <2>3 DEF z
  <2>5. QED
    BY <2>4
<1>6. ASSUME NEW m \in N, m + 1 <= top PROVE Good(m + 1)
  <2> DEFINE a == v(m)
             l == top - m
  <2>1. m \in Nat /\ Good(m) /\ m <= top
    <3>1. m \in Nat /\ m <= top
      BY <1>1, <1>6
    <3>2. QED
      BY <1>6, <3>1
  <2> HIDE DEF a
  <2>2. l \in 1..MaxLevel /\ l <= s.level /\ l \in Int
    BY <1>1, <1>6, <2>1
  <2>3. \E i \in 0..k : start(a) = Spot(L, i) /\ High(s, L, i, l)
    <3>1. CASE m = 0
      <4>1. start(a) = Spot(L, 0)
        BY <1>2, <3>1 DEF Spot, At, a
      <4>2. High(s, L, 0, l)
        BY <1>1, <2>2, AtIs
      <4>3. 0 \in 0..k
        BY <1>1
      <4>4. QED
        BY <4>1, <4>2, <4>3
    <3>2. CASE m # 0
      <4>1. a # <<>> /\ start(a) = a[1] /\ 1 \in 1..m
        BY <2>1, <3>2 DEF a
      <4>2. LeftAtCut(s, L, (top - m) + 1, k, a[1])
        BY <2>1, <4>1 DEF a
      <4> DEFINE i == a[1].rank
      <4>3. LastHigh(s, L, l + 1, k, i) /\ a[1] = Spot(L, i)
        BY <4>2 DEF LeftAtCut
      <4>4. i \in 0..k /\ High(s, L, i, l + 1)
        BY <4>3 DEF LastHigh
      <4>5. High(s, L, i, l)
        <5>1. i \in 0..Len(L)
          BY <1>1, <4>4
        <5>2. At(L, i) \in DOMAIN s.mem
          BY <1>1, <5>1, AtIs
        <5>3. s.mem[At(L, i)] \in AnyNode
          BY <5>2, TypedIs
        <5>4. s.mem[At(L, i)].levelSize \in 1..MaxLevel
          BY <5>3, NodeIs
        <5>5. s.mem[At(L, i)].levelSize >= l + 1
          BY <4>4 DEF High
        <5> DEFINE d == s.mem[At(L, i)].levelSize
        <5>6. d \in Int /\ d >= l + 1
          BY <5>4, <5>5
        <5> HIDE DEF d, l
        <5>7. l \in Int
          BY <2>2
        <5>8. d >= l
          BY <5>6, <5>7
        <5>9. QED
          BY <5>8 DEF High, d
      <4>6. QED
        BY <4>1, <4>3, <4>4, <4>5
    <3>3. QED
      BY <3>1, <3>2
  <2>4. PICK i \in 0..k : start(a) = Spot(L, i) /\ High(s, L, i, l)
    BY <2>3
  <2>5. Len(a) = m /\ a \in Seq(D)
    BY <2>1 DEF a
  <2>6. walk(a) = Along(s, Spot(L, i), l, ahead)
    BY <2>4, <2>5 DEF walk
  <2>7. PICK u \in i..k : LastHigh(s, L, l, k, u) /\ walk(a) = Spot(L, u)
    <3>1. \E u \in i..k : LastHigh(s, L, l, k, u) /\ Along(s, Spot(L, i), l, ahead) = Spot(L, u)
      <4> HIDE DEF l
      <4>1. QED
        BY <2>2, <2>4, AlongIs
    <3>2. QED
      BY <2>6, <3>1
  <2>8. v(m + 1) = <<walk(a)>> \o a
    <3>1. v(m + 1) = step[a]
      BY <1>2, <2>1 DEF a
    <3>2. QED
      BY <2>5, <3>1 DEF step
  <2> DEFINE x == walk(a)
  <2>9. x \in D /\ x = Spot(L, x.rank) /\ LastHigh(s, L, l, k, x.rank)
    <3>1. u \in 0..k
      BY <1>1
    <3>2. QED
      BY <1>4, <2>7, <3>1
  <2>10. LeftAtCut(s, L, l, k, x)
    BY <2>9 DEF LeftAtCut
  <2> DEFINE b == <<x>> \o a
  <2> HIDE DEF x
  <2>11. b \in Seq(D) /\ Len(b) = m + 1 /\ b[1] = x /\ \A q \in 1..m : b[q + 1] = a[q]
    <3>1. <<x>> \in Seq(D) /\ Len(<<x>>) = 1 /\ <<x>>[1] = x
      BY <2>9
    <3> DEFINE o == <<x>>
    <3> HIDE DEF o, a
    <3>2. b \in Seq(D) /\ Len(b) = 1 + m
      BY <2>1, <2>5, <3>1, ConcatProperties DEF o
    <3>3. b[1] = o[1]
      BY <2>1, <2>5, <3>1, ConcatProperties DEF o
    <3>4. \A q \in 1..m : b[q + 1] = a[q]
      <4> SUFFICES ASSUME NEW q \in 1..m PROVE b[q + 1] = a[q]
        OBVIOUS
      <4>1. q + 1 \in 1 .. (Len(o) + Len(a)) /\ q + 1 > Len(o) /\ (q + 1) - Len(o) = q
        BY <2>1, <2>5, <3>1 DEF o
      <4>2. QED
        BY <2>5, <3>1, <4>1, ConcatProperties DEF o
    <3>5. QED
      BY <2>1, <3>1, <3>2, <3>3, <3>4 DEF o
  <2>12. v(m + 1) = b
    BY <2>8 DEF x
  <2>13. ASSUME NEW q \in 1..(m + 1)
         PROVE  LeftAtCut(s, L, (top - (m + 1)) + q, k, b[q])
    <3>1. CASE q = 1
      <4>1. (top - (m + 1)) + q = l
        BY <1>1, <2>1, <3>1
      <4>2. QED
        BY <2>10, <2>11, <3>1, <4>1
    <3>2. CASE q # 1
      <4>1. q - 1 \in 1..m /\ (top - (m + 1)) + q = (top - m) + (q - 1) /\ (q - 1) + 1 = q
        <5>1. m \in Nat /\ top \in Nat /\ q \in Int
          BY <1>1, <2>1
        <5> HIDE DEF top
        <5>2. q - 1 \in 1..m /\ (q - 1) + 1 = q
          BY <3>2, <5>1
        <5>3. (top - (m + 1)) + q = (top - m) + (q - 1)
          BY <5>1
        <5>4. QED
          BY <5>2, <5>3
      <4>2. b[q] = a[q - 1]
        BY <2>11, <4>1
      <4>3. LeftAtCut(s, L, (top - m) + (q - 1), k, a[q - 1])
        BY <2>1, <4>1 DEF a
      <4>4. QED
        BY <4>1, <4>2, <4>3
    <3>3. QED
      BY <3>1, <3>2
  <2>14. QED
    BY <2>11, <2>12, <2>13
<1> HIDE DEF Good
<1>7. N = Nat
  <2>1. N \in SUBSET Nat
    OBVIOUS
  <2>2. \A m \in N : m + 1 \in N
    BY <1>6
  <2> HIDE DEF N
  <2>3. QED
    BY <1>5, <2>1, <2>2, NatSet
<1>8. Good(top)
  BY <1>1, <1>7
<1>9. ASSUME NEW q \in 1..top PROVE LeftAtCut(s, L, q, k, v(top)[q])
  <2>1. (top - top) + q = q
    BY <1>1
  <2>2. QED
    BY <1>8, <2>1 DEF Good
<1>10. QED
  BY <1>3, <1>8, <1>9 DEF Good, D

-----------------------------------------------------------------------------
(* Walks along the lowest level.                                           *)
LEMMA SubSeqIs ==
  ASSUME NEW S, NEW q \in Seq(S), NEW i \in 1 .. Len(q) + 1, NEW e \in i - 1 .. Len(q)
  PROVE  /\ SubSeq(q, i, e) \in Seq(S)
         /\ Len(SubSeq(q, i, e)) = (e - i) + 1
         /\ \A r \in 1 .. (e - i) + 1 : SubSeq(q, i, e)[r] = q[(i + r) - 1]
<1>1. Len(q) \in Nat /\ i \in Nat /\ e \in Nat /\ i >= 1 /\ e <= Len(q) /\ e >= i - 1
  OBVIOUS
<1>2. \A r \in i..e : q[r] \in S
  BY <1>1
<1>3. SubSeq(q, i, e) \in Seq(S) /\ Len(SubSeq(q, i, e)) = (e - i) + 1
  BY <1>1, <1>2
<1>4. \A r \in 1 .. (e - i) + 1 : SubSeq(q, i, e)[r] = q[(i + r) - 1]
  BY <1>1
<1>5. QED
  BY <1>3, <1>4

LEMMA SubSeqNext ==
  ASSUME NEW S, NEW q \in Seq(S), NEW i \in 1 .. Len(q), NEW e \in i - 1 .. Len(q) - 1
  PROVE  Append(SubSeq(q, i, e), q[e + 1]) = SubSeq(q, i, e + 1)
<1>1. Len(q) \in Nat /\ i \in Nat /\ e \in Int /\ i >= 1 /\ e <= Len(q) - 1 /\ e >= i - 1
  OBVIOUS
<1> DEFINE a == SubSeq(q, i, e)
           b == SubSeq(q, i, e + 1)
           n == (e - i) + 1
<1>2. a \in Seq(S) /\ Len(a) = n /\ \A r \in 1..n : a[r] = q[(i + r) - 1]
  BY <1>1, SubSeqIs
<1>3. b \in Seq(S) /\ Len(b) = n + 1 /\ \A r \in 1..(n + 1) : b[r] = q[(i + r) - 1]
  <2>1. e + 1 \in i - 1 .. Len(q) /\ ((e + 1) - i) + 1 = n + 1 /\ i \in 1 .. Len(q) + 1
    BY <1>1
  <2>2. QED
    BY <2>1, SubSeqIs
<1>4. q[e + 1] \in S /\ n \in Nat /\ (i + (n + 1)) - 1 = e + 1
  BY <1>1
<1> HIDE DEF a, b, n
<1> DEFINE x == q[e + 1]
<1>5. b[n + 1] = x
  BY <1>3, <1>4
<1> HIDE DEF x
<1>6. Append(a, x) \in Seq(S) /\ Len(Append(a, x)) = n + 1
      /\ Append(a, x)[n + 1] = x /\ \A r \in 1..n : Append(a, x)[r] = a[r]
  BY <1>2, <1>4 DEF x
<1>7. \A r \in 1..(n + 1) : Append(a, x)[r] = b[r]
  <2> SUFFICES ASSUME NEW r \in 1..(n + 1) PROVE Append(a, x)[r] = b[r]
    OBVIOUS
  <2>1. r = n + 1 \/ r \in 1..n
    BY <1>4
  <2>2. QED
    BY <1>2, <1>3, <1>5, <1>6, <2>1
<1>8. Append(a, x) = b
  BY <1>3, <1>6, <1>7, SeqEqual
<1>9. QED
  BY <1>8 DEF a, b, x

LEMMA NextOne ==
  ASSUME NEW s, Typed(s), NEW L, Listing(s, L), NEW i \in 0..Len(L)
  PROVE  s.mem[At(L, i)].next[1] = Entry(L, i + 1)
<1>1. NodesOf(s, L) /\ Len(L) \in Nat /\ Links(s, L)
  BY DEF Listing, NodesOf
<1>2. \A j \in 0..Len(L) : High(s, L, j, 1)
  <2> SUFFICES ASSUME NEW j \in 0..Len(L) PROVE High(s, L, j, 1)
    OBVIOUS
  <2>1. s.mem[At(L, j)] \in AnyNode
    BY <1>1, AtIs, TypedIs
  <2>2. s.mem[At(L, j)].levelSize \in 1..MaxLevel
    BY <2>1, NodeIs
  <2>3. QED
    BY <2>2 DEF High
<1>3. 1 \in 1..MaxLevel
  BY Constants
<1>4. PICK j \in 1 .. Len(L) + 1 : LinkedTo(s, L, 1, i, j)
  BY <1>1, <1>2, <1>3 DEF Links
<1>5. NextHigh(s, L, 1, i, j)
  BY <1>4 DEF LinkedTo
<1>6. j = i + 1
  <2>1. j \in i + 1 .. Len(L) + 1 /\ \A k \in i + 1 .. j - 1 : ~High(s, L, k, 1)
    BY <1>5 DEF NextHigh
  <2>2. j > i + 1 => i + 1 \in i + 1 .. j - 1 /\ i + 1 \in 0..Len(L)
    BY <1>1, <2>1
  <2>3. ~(j > i + 1)
    BY <1>2, <2>1, <2>2
  <2>4. QED
    BY <1>1, <2>1, <2>3
<1>7. QED
  BY <1>4, <1>6 DEF LinkedTo

LEMMA FromIs ==
  ASSUME NEW s, Typed(s), NEW L, Listing(s, L),
         NEW i \in 1 .. Len(L) + 1, NEW j \in i .. Len(L) + 1
  PROVE  From(s, Entry(L, i), Entry(L, j)) = SubSeq(L, i, j - 1)
<1> DEFINE p == Entry(L, i)
           stop == Entry(L, j)
           next(nodes) == IF nodes = <<>> THEN p ELSE s.mem[Last(nodes)].next[1]
           step == [nodes \in Seq(Addr) |->
                     IF next(nodes) \in {stop, Nil} THEN nodes ELSE Append(nodes, next(nodes))]
           v(m) == Iterate(step, <<>>, m)
           c == Cardinality(DOMAIN s.mem)
           n == Len(L)
           End(m) == IF (i + m) - 1 <= j - 1 THEN (i + m) - 1 ELSE j - 1
           N == {m \in Nat : v(m) = SubSeq(L, i, End(m))}
<1> HIDE DEF step
<1>1. /\ NodesOf(s, L) /\ n \in Nat /\ L \in Seq(Addr) /\ i \in Nat /\ j \in Nat
      /\ 1 <= i /\ i <= j /\ j <= n + 1
  BY DEF Listing, NodesOf
<1>2. v(0) = <<>> /\ \A m \in Nat : v(m + 1) = step[v(m)]
  BY IterateIs
<1>3. c \in Nat /\ n < c
  BY <1>1, NodesEnough
<1>4. From(s, p, stop) = v(c)
  BY DEF From, step
<1> HIDE DEF v, c
<1>5. 0 \in N
  <2>1. End(0) = i - 1
    BY <1>1
  <2>2. SubSeq(L, i, i - 1) = <<>>
    <3>1. SubSeq(L, i, i - 1) \in Seq(Addr) /\ Len(SubSeq(L, i, i - 1)) = ((i - 1) - i) + 1
      <4>1. i - 1 \in i - 1 .. Len(L)
        BY <1>1
      <4>2. QED
        BY <1>1, <4>1, SubSeqIs
    <3>2. ((i - 1) - i) + 1 = 0
      BY <1>1
    <3> DEFINE z == SubSeq(L, i, i - 1)
    <3>3. z \in Seq(Addr) /\ Len(z) = 0
      BY <3>1, <3>2
    <3> HIDE DEF z
    <3>4. z = <<>>
      BY <3>3, EmptySeq
    <3>5. QED
      BY <3>4 DEF z
  <2>3. QED
    BY <1>2, <2>1, <2>2
<1>6. ASSUME NEW m \in N PROVE m + 1 \in N
  <2> DEFINE e == End(m)
             a == SubSeq(L, i, e)
  <2>1. m \in Nat /\ v(m) = a
    BY <1>6
  <2>2. e \in Int /\ e >= i - 1 /\ e <= j - 1 /\ e <= n
        /\ e = IF (i + m) - 1 <= j - 1 THEN (i + m) - 1 ELSE j - 1
    BY <1>1, <2>1
  <2> HIDE DEF e
  <2>3. a \in Seq(Addr) /\ Len(a) = (e - i) + 1
        /\ \A r \in 1 .. (e - i) + 1 : a[r] = L[(i + r) - 1]
    <3>1. e \in i - 1 .. Len(L)
      BY <1>1, <2>2
    <3>2. QED
      BY <1>1, <3>1, SubSeqIs
  <2> HIDE DEF a
  <2>4. next(a) = Entry(L, e + 1)
    <3>1. CASE e = i - 1
      <4>1. Len(a) = 0
        BY <1>1, <2>3, <3>1
      <4>2. a = <<>>
        BY <2>3, <4>1, EmptySeq
      <4>3. e + 1 = i
        BY <1>1, <3>1
      <4>4. QED
        BY <4>2, <4>3
    <3>2. CASE e # i - 1
      <4>1. Len(a) > 0 /\ Len(a) \in 1 .. (e - i) + 1 /\ (i + Len(a)) - 1 = e /\ e \in 1..n
        BY <1>1, <2>2, <2>3, <3>2
      <4>2. a # <<>>
        BY <4>1
      <4>3. Last(a) = L[e]
        BY <2>3, <4>1 DEF Last
      <4>4. Last(a) = At(L, e) /\ e \in 0..Len(L)
        BY <1>1, <4>1, <4>3 DEF At
      <4>5. QED
        BY <4>2, <4>4, NextOne
    <3>3. QED
      BY <3>1, <3>2
  <2>5. step[a] = IF next(a) \in {stop, Nil} THEN a ELSE Append(a, next(a))
    BY <2>3 DEF step
  <2> HIDE DEF next
  <2>6. CASE e = j - 1
    <3>1. next(a) = stop
      BY <1>1, <2>4, <2>6
    <3>2. v(m + 1) = a
      BY <1>2, <2>1, <2>5, <3>1
    <3>3. End(m + 1) = e
      BY <1>1, <2>1, <2>2, <2>6
    <3>4. QED
      BY <2>1, <3>2, <3>3 DEF a
  <2>7. CASE e # j - 1
    <3>1. e + 1 \in 1..n /\ e + 1 < j /\ i \in 1..n /\ e \in i - 1 .. Len(L) - 1
      BY <1>1, <2>2, <2>7
    <3>2. Entry(L, e + 1) = L[e + 1]
      BY <1>1, <3>1 DEF Entry
    <3>3. L[e + 1] \in Addr /\ L[e + 1] # Nil
      BY <1>1, <3>1, Constants
    <3>4. L[e + 1] # stop
      <4>1. CASE j > n
        BY <3>3, <4>1 DEF Entry
      <4>2. CASE j <= n
        <5>1. j \in 1..n /\ stop = L[j] /\ j # e + 1
          BY <1>1, <3>1, <4>2 DEF Entry
        <5>2. QED
          BY <1>1, <3>1, <5>1 DEF NodesOf
      <4>3. QED
        BY <1>1, <4>1, <4>2
    <3>5. next(a) = L[e + 1] /\ next(a) \notin {stop, Nil}
      BY <2>4, <3>2, <3>3, <3>4
    <3>6. v(m + 1) = Append(a, L[e + 1])
      BY <1>2, <2>1, <2>5, <3>5
    <3>7. Append(SubSeq(L, i, e), L[e + 1]) = SubSeq(L, i, e + 1)
      BY <1>1, <3>1, SubSeqNext
    <3>8. End(m + 1) = e + 1
      BY <1>1, <2>1, <2>2, <2>7
    <3>9. QED
      BY <2>1, <3>6, <3>7, <3>8 DEF a
  <2>8. QED
    BY <2>6, <2>7
<1>7. N = Nat
  <2>1. N \in SUBSET Nat
    OBVIOUS
  <2> HIDE DEF N
  <2>2. QED
    BY <1>5, <1>6, <2>1, NatSet
<1>8. v(c) = SubSeq(L, i, End(c))
  BY <1>3, <1>7
<1>9. End(c) = j - 1
  BY <1>1, <1>3
<1>10. QED
  BY <1>4, <1>8, <1>9

LEMMA LineIs ==
  ASSUME NEW s, Typed(s), NEW L, Listing(s, L)
  PROVE  Line(s) = L
<1>1. L \in Seq(Addr) /\ Len(L) \in Nat
  BY DEF Listing, NodesOf
<1>2. s.mem[SlHead].next[1] = Entry(L, 1)
  <2>1. 0 \in 0..Len(L) /\ At(L, 0) = SlHead /\ 0 + 1 = 1
    BY <1>1 DEF At
  <2>2. QED
    BY <2>1, NextOne
<1>3. Nil = Entry(L, Len(L) + 1)
  BY <1>1 DEF Entry
<1>4. 1 \in 1 .. Len(L) + 1 /\ Len(L) + 1 \in 1 .. Len(L) + 1 /\ (Len(L) + 1) - 1 = Len(L)
  BY <1>1
<1>5. From(s, Entry(L, 1), Entry(L, Len(L) + 1)) = SubSeq(L, 1, (Len(L) + 1) - 1)
  BY <1>4, FromIs
<1>6. Line(s) = SubSeq(L, 1, Len(L))
  BY <1>2, <1>3, <1>4, <1>5 DEF Line
<1>7. QED
  BY <1>1, <1>6, SubSeqFull

-----------------------------------------------------------------------------
(* What is done to nodes that are not listed leaves the list alone.        *)
LEMMA ListingFrame ==
  ASSUME NEW s, Typed(s), NEW L, Listing(s, L),
         NEW t, t.level = s.level, t.size = s.size, t.tail = s.tail,
         \A i \in 0..Len(L) :
           LET q == t.mem[At(L, i)]
               r == s.mem[At(L, i)]
           IN /\ At(L, i) \in DOMAIN t.mem
              /\ q.levelSize = r.levelSize /\ q.prev = r.prev
              /\ q.next = r.next /\ q.span = r.span
  PROVE  Listing(t, L)
<1> DEFINE n == Len(L)
<1>1. NodesOf(s, L) /\ n \in Nat /\ Links(s, L) /\ Levels(s, L) /\ BackLinks(s, L) /\ s.size = n
  BY DEF Listing, NodesOf
<1>2. \A i \in 0..n : /\ t.mem[At(L, i)].levelSize = s.mem[At(L, i)].levelSize
                      /\ t.mem[At(L, i)].next = s.mem[At(L, i)].next
                      /\ t.mem[At(L, i)].span = s.mem[At(L, i)].span
  OBVIOUS
<1>3. \A i \in 1..n : /\ i \in 0..n /\ L[i] = At(L, i)
                      /\ L[i] \in DOMAIN t.mem
                      /\ t.mem[L[i]].levelSize = s.mem[L[i]].levelSize
                      /\ t.mem[L[i]].prev = s.mem[L[i]].prev
  <2>1. \A i \in 1..n : i \in 0..n /\ L[i] = At(L, i)
    BY <1>1, AtIs
  <2>2. QED
    BY <2>1
<1>4. \A i \in 0..n : \A l : High(t, L, i, l) <=> High(s, L, i, l)
  BY <1>2 DEF High
<1>5. NodesOf(t, L)
  BY <1>1, <1>3 DEF NodesOf
<1>6. Links(t, L)
  <2> SUFFICES ASSUME NEW l \in 1..MaxLevel, NEW i \in 0..n, High(t, L, i, l)
               PROVE  \E j \in 1 .. n + 1 : LinkedTo(t, L, l, i, j)
    BY DEF Links
  <2>1. High(s, L, i, l)
    BY <1>4
  <2>2. PICK j \in 1 .. n + 1 : LinkedTo(s, L, l, i, j)
    BY <1>1, <2>1 DEF Links
  <2>3. NextHigh(t, L, l, i, j)
    <3>1. NextHigh(s, L, l, i, j)
      BY <2>2 DEF LinkedTo
    <3>2. \A k \in i + 1 .. j - 1 : k \in 0..n
      BY <1>1
    <3>3. j <= n => j \in 0..n
      BY <1>1
    <3>4. QED
      BY <1>4, <3>1, <3>2, <3>3 DEF NextHigh
  <2>4. LinkedTo(t, L, l, i, j)
    BY <1>2, <2>2, <2>3 DEF LinkedTo
  <2>5. QED
    BY <2>4
<1>7. Levels(t, L)
  BY <1>1, <1>3 DEF Levels
<1>8. BackLinks(t, L)
  BY <1>1, <1>3 DEF BackLinks
<1>9. QED
  BY <1>1, <1>5, <1>6, <1>7, <1>8 DEF Listing

-----------------------------------------------------------------------------
(* M is L with a after its first k nodes.                                  *)
With(L, k, a, M) ==
  /\ M \in Seq(Addr) /\ Len(M) = Len(L) + 1
  /\ \A i \in 1..k : M[i] = L[i]
  /\ M[k + 1] = a
  /\ \A i \in k + 1 .. Len(L) : M[i + 1] = L[i]

(* Nodes are linked anew, each with the height and the score it has.       *)
Renewed(s, t, p) ==
  LET h == s.mem[p].levelSize
  IN /\ t.mem[p].levelSize = h /\ t.mem[p].score = s.mem[p].score
     /\ t.mem[p] = [score |-> t.mem[p].score, prev |-> t.mem[p].prev, levelSize |-> h,
                    next |-> t.mem[p].next, span |-> t.mem[p].span]
     /\ t.mem[p].next = [l \in 1..h |-> t.mem[p].next[l]]
     /\ t.mem[p].span = [l \in 1..h |-> t.mem[p].span[l]]

(* What an insertion writes, place by place.                               *)
Inserted(s, L, k, a, u, t) ==
  LET h == s.mem[a].levelSize
      n == Len(L)
  IN /\ t = [mem |-> t.mem, level |-> t.level, size |-> t.size, tail |-> t.tail,
             node_map |-> s.node_map, value_map |-> s.value_map]
     /\ t.level = IF h > s.level THEN h ELSE s.level
     /\ t.size = s.size + 1
     /\ t.tail = IF k = n THEN a ELSE s.tail
     /\ DOMAIN t.mem = DOMAIN s.mem /\ t.mem = [p \in DOMAIN s.mem |-> t.mem[p]]
     /\ \A p \in DOMAIN s.mem : Renewed(s, t, p)
     /\ \A p \in DOMAIN s.mem : (p \notin {SlHead, a} /\ \A i \in 1..n : L[i] # p) =>
          /\ t.mem[p].prev = s.mem[p].prev
          /\ t.mem[p].next = s.mem[p].next /\ t.mem[p].span = s.mem[p].span
     /\ t.mem[SlHead].prev = s.mem[SlHead].prev
     /\ t.mem[a].prev = IF k = 0 THEN Nil ELSE L[k]
     /\ \A l \in 1..h :
          /\ t.mem[a].next[l] = s.mem[At(L, u[l])].next[l]
          /\ t.mem[a].span[l] =
               (IF l <= s.level THEN s.mem[At(L, u[l])].span[l] ELSE s.size) - (k - u[l])
     /\ \A i \in 1..n : t.mem[L[i]].prev = IF i = k + 1 THEN a ELSE s.mem[L[i]].prev
     /\ \A i \in 0..n : \A l \in 1..s.mem[At(L, i)].levelSize :
          /\ t.mem[At(L, i)].next[l] =
               IF l <= h /\ i = u[l] THEN a ELSE s.mem[At(L, i)].next[l]
          /\ t.mem[At(L, i)].span[l] =
               IF l > t.level \/ i # u[l] THEN s.mem[At(L, i)].span[l]
               ELSE IF l <= h THEN (k - u[l]) + 1 ELSE s.mem[At(L, i)].span[l] + 1

LEMMA InsertWrites ==
  ASSUME NEW s, Typed(s), NEW L, Listing(s, L), NEW k,
         NEW a \in DOMAIN s.mem \cap Addr, \A i \in 1..Len(L) : L[i] # a,
         IsCut(L, {x \in Place : Comp(s, x.at, a) < 0}, k)
  PROVE  \E u \in [1..MaxLevel -> 0..k] :
           /\ \A l \in 1..MaxLevel : LastHigh(s, L, l, k, u[l])
           /\ Inserted(s, L, k, a, u, SlInsertNode(s, a))
<1> DEFINE path == Before(s, a)
           h == s.mem[a].levelSize
           level == IF h > s.level THEN h ELSE s.level
           n == Len(L)
           u == [l \in 1..MaxLevel |-> IF l <= s.level THEN path[l].rank ELSE 0]
           update(l) == LeftAt(s, path, l)
           passed(l) == path[1].rank - (IF l <= s.level THEN path[l].rank ELSE 0)
           next == s.mem[update(1)].next[1]
           prev(p) ==
             IF p = a THEN (IF update(1) = SlHead THEN Nil ELSE update(1))
             ELSE IF p = next THEN a ELSE s.mem[p].prev
           nextOn(p, l) ==
             IF p = a THEN s.mem[update(l)].next[l]
             ELSE IF l <= h /\ update(l) = p THEN a ELSE s.mem[p].next[l]
           spanOn(p, l) ==
             IF p = a THEN Span(s, path, l) - passed(l)
             ELSE IF l > level \/ update(l) # p THEN s.mem[p].span[l]
             ELSE IF l <= h THEN passed(l) + 1 ELSE s.mem[p].span[l] + 1
           m == [p \in DOMAIN s.mem |->
                  [score |-> s.mem[p].score, prev |-> prev(p), levelSize |-> s.mem[p].levelSize,
                   next |-> [l \in 1..s.mem[p].levelSize |-> nextOn(p, l)],
                   span |-> [l \in 1..s.mem[p].levelSize |-> spanOn(p, l)]]]
           t == SlInsertNode(s, a)
<1>1. t = [s EXCEPT !.mem = m, !.level = level, !.size = @ + 1,
                    !.tail = IF next = Nil THEN a ELSE @]
  BY DEF SlInsertNode, Linked
<1> HIDE DEF path, u, m, level, next, prev, nextOn, spanOn, update, passed, t
<1>2. /\ NodesOf(s, L) /\ n \in Nat /\ k \in 0..n /\ k \in Nat
      /\ Levels(s, L) /\ BackLinks(s, L) /\ s.size = n
      /\ s.level \in 1..MaxLevel /\ MaxLevel \in Nat /\ 1 \in 1..MaxLevel
      /\ h \in 1..MaxLevel /\ SlHead \notin Addr /\ Nil \notin Addr
  <2>1. NodesOf(s, L) /\ n \in Nat /\ Levels(s, L) /\ BackLinks(s, L) /\ s.size = n
    BY DEF Listing, NodesOf
  <2>2. k \in 0..n
    BY DEF IsCut
  <2>3. s.level \in 1..MaxLevel /\ s.mem[a] \in AnyNode
    BY TypedIs
  <2>4. h \in 1..MaxLevel
    BY <2>3, NodeIs
  <2>5. QED
    BY <2>1, <2>2, <2>3, <2>4, Constants
<1>3. /\ t.mem = m /\ t.level = level /\ t.size = s.size + 1
      /\ t.tail = IF next = Nil THEN a ELSE s.tail
      /\ t = [mem |-> t.mem, level |-> t.level, size |-> t.size, tail |-> t.tail,
              node_map |-> s.node_map, value_map |-> s.value_map]
  <2> DEFINE NM == [Value -> Link]
             VM == [Addr -> Value \cup {Nil}]
             MS == UNION {[D \cup {SlHead} -> AnyNode] : D \in SUBSET Addr}
  <2>1. s \in [mem : MS, level : 1..MaxLevel, size : Nat, tail : Link,
               node_map : NM, value_map : VM]
    BY DEF Typed, Lists
  <2> HIDE DEF NM, VM, MS
  <2>2. QED
    BY <1>1, <2>1
<1>4. \A l \in 1..s.level : LeftAtCut(s, L, l, k, path[l])
  BY PathIs DEF path, Before
<1>5. ASSUME NEW l \in 1..MaxLevel
      PROVE  LastHigh(s, L, l, k, u[l]) /\ u[l] \in 0..k /\ update(l) = At(L, u[l])
  <2>1. CASE l <= s.level
    <3>1. LeftAtCut(s, L, l, k, path[l]) /\ u[l] = path[l].rank
      BY <1>2, <1>4, <2>1 DEF u
    <3>2. path[l].at = At(L, u[l])
      BY <3>1 DEF LeftAtCut, Spot
    <3>3. update(l) = path[l].at
      BY <2>1 DEF update, LeftAt
    <3>4. QED
      BY <3>1, <3>2, <3>3 DEF LeftAtCut, LastHigh
  <2>2. CASE ~(l <= s.level)
    <3>1. u[l] = 0 /\ update(l) = SlHead
      BY <2>2 DEF u, update, LeftAt
    <3>2. High(s, L, 0, l) /\ At(L, 0) = SlHead
      BY <1>2, AtIs
    <3>3. ASSUME NEW i \in 1..k PROVE ~High(s, L, i, l)
      <4>1. i \in 1..n /\ At(L, i) = L[i] /\ s.mem[L[i]].levelSize <= s.level
        BY <1>2, AtIs DEF Levels
      <4>2. s.mem[L[i]].levelSize \in Int
        <5>1. s.mem[L[i]] \in AnyNode
          BY <1>2, <4>1, TypedIs DEF NodesOf
        <5>2. QED
          BY <5>1, NodeIs
      <4> DEFINE d == s.mem[L[i]].levelSize
      <4>3. d \in Int /\ d <= s.level /\ s.level \in Int /\ l \in Int
        BY <1>2, <4>1, <4>2
      <4> HIDE DEF d
      <4>4. ~(d >= l)
        BY <2>2, <4>3
      <4>5. QED
        BY <4>1, <4>4 DEF High, d
    <3>4. QED
      BY <1>2, <3>1, <3>2, <3>3 DEF LastHigh
  <2>3. QED
    BY <2>1, <2>2
<1>6. u \in [1..MaxLevel -> 0..k]
  BY <1>5 DEF u
<1>7. u[1] = k
  <2>1. LastHigh(s, L, 1, k, u[1]) /\ u[1] \in 0..k
    BY <1>2, <1>5
  <2>2. High(s, L, k, 1)
    <3>1. s.mem[At(L, k)] \in AnyNode
      BY <1>2, AtIs, TypedIs
    <3>2. s.mem[At(L, k)].levelSize \in 1..MaxLevel
      BY <3>1, NodeIs
    <3>3. QED
      BY <3>2 DEF High
  <2>3. u[1] # k => k \in u[1] + 1 .. k
    BY <1>2, <2>1
  <2>4. QED
    BY <2>1, <2>2, <2>3 DEF LastHigh
<1>8. ASSUME NEW l \in 1..MaxLevel
      PROVE  /\ passed(l) = k - u[l]
             /\ Span(s, path, l) = IF l <= s.level THEN s.mem[At(L, u[l])].span[l] ELSE s.size
  <2>1. path[1].rank = k
    BY <1>2, <1>7 DEF u
  <2>2. u[l] = IF l <= s.level THEN path[l].rank ELSE 0
    BY DEF u
  <2>3. passed(l) = k - u[l]
    BY <2>1, <2>2 DEF passed
  <2>4. l <= s.level => path[l].at = At(L, u[l])
    BY <1>5 DEF update, LeftAt
  <2>5. QED
    BY <2>3, <2>4 DEF Span
<1>9. next = Entry(L, k + 1) /\ update(1) = At(L, k)
  <2>1. update(1) = At(L, k)
    BY <1>2, <1>5, <1>7
  <2>2. QED
    BY <1>2, <2>1, NextOne DEF next
<1>10. ASSUME NEW p \in DOMAIN s.mem
       PROVE  /\ Renewed(s, t, p)
              /\ t.mem[p].prev = prev(p)
              /\ \A l \in 1..s.mem[p].levelSize :
                   t.mem[p].next[l] = nextOn(p, l) /\ t.mem[p].span[l] = spanOn(p, l)
  <2>1. t.mem[p] = [score |-> s.mem[p].score, prev |-> prev(p),
                    levelSize |-> s.mem[p].levelSize,
                    next |-> [l \in 1..s.mem[p].levelSize |-> nextOn(p, l)],
                    span |-> [l \in 1..s.mem[p].levelSize |-> spanOn(p, l)]]
    BY <1>3 DEF m
  <2>2. QED
    BY <2>1 DEF Renewed
<1>11. DOMAIN t.mem = DOMAIN s.mem /\ t.mem = [p \in DOMAIN s.mem |-> t.mem[p]]
  BY <1>3 DEF m
<1>12. t.tail = IF k = n THEN a ELSE s.tail
  <2>1. k = n => next = Nil
    BY <1>2, <1>9 DEF Entry
  <2>2. k # n => next = L[k + 1] /\ L[k + 1] # Nil
    <3>1. k # n => k + 1 \in 1..n /\ ~(k + 1 > n)
      BY <1>2
    <3>2. QED
      BY <1>2, <1>9, <3>1, AtIs DEF Entry
  <2>3. QED
    BY <1>3, <2>1, <2>2
<1>13. t.mem[a].prev = IF k = 0 THEN Nil ELSE L[k]
  <2>1. t.mem[a].prev = IF update(1) = SlHead THEN Nil ELSE update(1)
    BY <1>10 DEF prev
  <2>2. CASE k = 0
    BY <1>9, <2>1, <2>2 DEF At
  <2>3. CASE k # 0
    <3>1. k \in 1..n
      BY <1>2, <2>3
    <3>2. At(L, k) = L[k] /\ L[k] # SlHead
      BY <1>2, <3>1, AtIs
    <3>3. QED
      BY <1>9, <2>1, <2>3, <3>2
  <2>4. QED
    BY <2>2, <2>3
<1>14. ASSUME NEW l \in 1..h
       PROVE  /\ t.mem[a].next[l] = s.mem[At(L, u[l])].next[l]
              /\ t.mem[a].span[l] =
                   (IF l <= s.level THEN s.mem[At(L, u[l])].span[l] ELSE s.size) - (k - u[l])
  <2>1. l \in 1..MaxLevel
    BY <1>2
  <2>2. t.mem[a].next[l] = s.mem[update(l)].next[l]
    BY <1>10 DEF nextOn
  <2>3. t.mem[a].span[l] = Span(s, path, l) - passed(l)
    BY <1>10 DEF spanOn
  <2>4. QED
    BY <1>5, <1>8, <2>1, <2>2, <2>3
<1>15. ASSUME NEW i \in 1..n
       PROVE  t.mem[L[i]].prev = IF i = k + 1 THEN a ELSE s.mem[L[i]].prev
  <2>1. L[i] \in DOMAIN s.mem /\ L[i] # a /\ L[i] # Nil
    BY <1>2, AtIs DEF NodesOf
  <2>2. t.mem[L[i]].prev = IF L[i] = next THEN a ELSE s.mem[L[i]].prev
    BY <1>10, <2>1 DEF prev
  <2>3. L[i] = next <=> i = k + 1
    <3>1. CASE k = n
      BY <1>2, <1>9, <2>1, <3>1 DEF Entry
    <3>2. CASE k # n
      <4>1. k + 1 \in 1..n /\ ~(k + 1 > n)
        BY <1>2, <3>2
      <4>2. next = L[k + 1]
        BY <1>9, <4>1 DEF Entry
      <4>3. QED
        BY <1>2, <4>1, <4>2 DEF NodesOf
    <3>3. QED
      BY <3>1, <3>2
  <2>4. QED
    BY <2>2, <2>3
<1>16. ASSUME NEW i \in 0..n, NEW l \in 1..s.mem[At(L, i)].levelSize
       PROVE  /\ t.mem[At(L, i)].next[l] =
                   IF l <= h /\ i = u[l] THEN a ELSE s.mem[At(L, i)].next[l]
              /\ t.mem[At(L, i)].span[l] =
                   IF l > t.level \/ i # u[l] THEN s.mem[At(L, i)].span[l]
                   ELSE IF l <= h THEN (k - u[l]) + 1 ELSE s.mem[At(L, i)].span[l] + 1
  <2> DEFINE p == At(L, i)
  <2>1. p \in DOMAIN s.mem
    BY <1>2, AtIs
  <2>2. p # a
    BY <1>2, AtIs
  <2>3. l \in 1..MaxLevel
    <3>1. s.mem[p] \in AnyNode
      BY <2>1, TypedIs
    <3>2. s.mem[p].levelSize \in 1..MaxLevel
      BY <3>1, NodeIs
    <3>3. QED
      BY <1>2, <3>2
  <2>4. update(l) = p <=> i = u[l]
    <3>1. update(l) = At(L, u[l]) /\ u[l] \in 0..n
      BY <1>2, <1>5, <2>3
    <3>2. QED
      BY <1>2, <3>1, AtIs
  <2>5. t.mem[p].next[l] = nextOn(p, l) /\ t.mem[p].span[l] = spanOn(p, l)
    BY <1>10, <2>1
  <2>6. nextOn(p, l) = IF l <= h /\ i = u[l] THEN a ELSE s.mem[p].next[l]
    BY <2>2, <2>4 DEF nextOn
  <2>7. spanOn(p, l) =
          IF l > level \/ i # u[l] THEN s.mem[p].span[l]
          ELSE IF l <= h THEN (k - u[l]) + 1 ELSE s.mem[p].span[l] + 1
    BY <1>8, <2>2, <2>3, <2>4 DEF spanOn
  <2>8. QED
    BY <1>3, <2>5, <2>6, <2>7
<1>19. ASSUME NEW p \in DOMAIN s.mem, p \notin {SlHead, a}, \A i \in 1..n : L[i] # p
       PROVE  /\ t.mem[p].prev = s.mem[p].prev
              /\ t.mem[p].next = s.mem[p].next /\ t.mem[p].span = s.mem[p].span
  <2> DEFINE hp == s.mem[p].levelSize
  <2>1. s.mem[p] \in AnyNode
    BY TypedIs
  <2>2. /\ hp \in 1..MaxLevel
        /\ s.mem[p].next \in [1..hp -> Link] /\ s.mem[p].span \in [1..hp -> Nat]
    BY <2>1, NodeIs
  <2>3. \A i \in 0..n : At(L, i) # p
    BY <1>2, <1>19, AtIs DEF At
  <2>4. next # p
    <3>1. CASE k = n
      <4>1. next = Nil
        BY <1>2, <1>9, <3>1 DEF Entry
      <4>2. DOMAIN s.mem \subseteq Addr \cup {SlHead}
        BY TypedIs
      <4>3. p # Nil
        BY <4>2, Constants
      <4>4. QED
        BY <4>1, <4>3
    <3>2. CASE k # n
      <4>1. k + 1 \in 1..n /\ ~(k + 1 > n)
        BY <1>2, <3>2
      <4>2. QED
        BY <1>9, <1>19, <4>1 DEF Entry
    <3>3. QED
      BY <3>1, <3>2
  <2>5. t.mem[p].prev = s.mem[p].prev
    BY <1>10, <1>19, <2>4 DEF prev
  <2>6. \A l \in 1..hp : l \in 1..MaxLevel /\ update(l) # p
    <3>1. \A l \in 1..hp : l \in 1..MaxLevel
      BY <1>2, <2>2
    <3>2. \A l \in 1..MaxLevel : update(l) = At(L, u[l]) /\ u[l] \in 0..n
      BY <1>2, <1>5
    <3>3. QED
      BY <2>3, <3>1, <3>2
  <2>7. \A l \in 1..hp : nextOn(p, l) = s.mem[p].next[l] /\ spanOn(p, l) = s.mem[p].span[l]
    BY <1>19, <2>6 DEF nextOn, spanOn
  <2>8. /\ t.mem[p].next = [l \in 1..hp |-> t.mem[p].next[l]]
        /\ t.mem[p].span = [l \in 1..hp |-> t.mem[p].span[l]]
        /\ \A l \in 1..hp : /\ t.mem[p].next[l] = s.mem[p].next[l]
                            /\ t.mem[p].span[l] = s.mem[p].span[l]
    BY <1>10, <2>7 DEF Renewed
  <2> DEFINE b == t.mem[p].next
             c == t.mem[p].span
             d == s.mem[p].next
             e == s.mem[p].span
  <2> HIDE DEF b, c, d, e, hp
  <2>9. b = [l \in 1..hp |-> d[l]] /\ c = [l \in 1..hp |-> e[l]]
    BY <2>8 DEF b, c, d, e
  <2>10. d = [l \in 1..hp |-> d[l]] /\ e = [l \in 1..hp |-> e[l]]
    BY <2>2 DEF d, e
  <2>11. QED
    BY <2>5, <2>9, <2>10 DEF b, c, d, e
<1>20. t.mem[SlHead].prev = s.mem[SlHead].prev
  <2>1. SlHead \in DOMAIN s.mem /\ SlHead # a
    BY <1>2, TypedIs
  <2>2. next # SlHead
    <3>1. CASE k = n
      <4>1. next = Nil
        BY <1>2, <1>9, <3>1 DEF Entry
      <4>2. QED
        BY <4>1, Constants
    <3>2. CASE k # n
      <4>1. k + 1 \in 1..n /\ ~(k + 1 > n)
        BY <1>2, <3>2
      <4>2. next = L[k + 1]
        BY <1>9, <4>1 DEF Entry
      <4>3. QED
        BY <1>2, <4>1, <4>2, AtIs
    <3>3. QED
      BY <3>1, <3>2
  <2>3. QED
    BY <1>10, <2>1, <2>2 DEF prev
<1>17. Inserted(s, L, k, a, u, t)
  <2>1. t.level = IF h > s.level THEN h ELSE s.level
    BY <1>3 DEF level
  <2>2. QED
    BY <1>3, <1>10, <1>11, <1>12, <1>13, <1>14, <1>15, <1>16, <1>19, <1>20, <2>1
       DEF Inserted
<1>18. QED
  BY <1>5, <1>6, <1>17 DEF t

(* The list that it makes.                                                 *)
LEMMA WithIs ==
  ASSUME NEW L \in Seq(Addr), NEW k \in 0..Len(L), NEW a, NEW M, With(L, k, a, M)
  PROVE  /\ Len(L) \in Nat /\ Len(M) = Len(L) + 1 /\ M \in Seq(Addr)
         /\ \A i \in 0..k : At(M, i) = At(L, i)
         /\ At(M, k + 1) = a
         /\ \A i \in k + 2 .. Len(L) + 1 : At(M, i) = At(L, i - 1)
         /\ \A j \in 1..k : Entry(M, j) = Entry(L, j)
         /\ Entry(M, k + 1) = a
         /\ \A j \in k + 1 .. Len(L) + 1 : Entry(M, j + 1) = Entry(L, j)
<1>1. /\ Len(L) \in Nat /\ Len(M) = Len(L) + 1 /\ M \in Seq(Addr) /\ k \in Nat /\ k <= Len(L)
      /\ \A i \in 1..k : M[i] = L[i]
      /\ M[k + 1] = a
      /\ \A i \in k + 1 .. Len(L) : M[i + 1] = L[i]
  BY DEF With
<1>2. \A i \in k + 2 .. Len(L) + 1 : M[i] = L[i - 1]
  <2> SUFFICES ASSUME NEW i \in k + 2 .. Len(L) + 1 PROVE M[i] = L[i - 1]
    OBVIOUS
  <2>1. i - 1 \in k + 1 .. Len(L) /\ (i - 1) + 1 = i
    BY <1>1
  <2>2. QED
    BY <1>1, <2>1
<1>3. \A i \in 0..k : At(M, i) = At(L, i)
  BY <1>1 DEF At
<1>4. At(M, k + 1) = a
  BY <1>1 DEF At
<1>5. \A i \in k + 2 .. Len(L) + 1 : At(M, i) = At(L, i - 1)
  BY <1>1, <1>2 DEF At
<1>6. \A j \in 1..k : Entry(M, j) = Entry(L, j)
  BY <1>1 DEF Entry
<1>7. Entry(M, k + 1) = a
  BY <1>1 DEF Entry
<1>8. \A j \in k + 1 .. Len(L) + 1 : Entry(M, j + 1) = Entry(L, j)
  BY <1>1 DEF Entry
<1>9. QED
  BY <1>1, <1>3, <1>4, <1>5, <1>6, <1>7, <1>8

LEMMA InsertLinks ==
  ASSUME NEW s, Typed(s), NEW L, Listing(s, L), NEW k \in 0..Len(L),
         NEW a \in DOMAIN s.mem \cap Addr, \A i \in 1..Len(L) : L[i] # a,
         NEW u \in [1..MaxLevel -> 0..k], \A l \in 1..MaxLevel : LastHigh(s, L, l, k, u[l]),
         NEW t, Inserted(s, L, k, a, u, t), NEW M, With(L, k, a, M)
  PROVE  Links(t, M)
<1> DEFINE n == Len(L)
           h == s.mem[a].levelSize
<1>1. /\ NodesOf(s, L) /\ n \in Nat /\ k \in Nat /\ k <= n /\ L \in Seq(Addr)
      /\ Links(s, L) /\ Levels(s, L) /\ s.size = n
      /\ s.level \in 1..MaxLevel /\ MaxLevel \in Nat
      /\ h \in 1..MaxLevel
  <2>1. NodesOf(s, L) /\ n \in Nat /\ L \in Seq(Addr) /\ Links(s, L) /\ Levels(s, L) /\ s.size = n
    BY DEF Listing, NodesOf
  <2>2. s.level \in 1..MaxLevel /\ s.mem[a] \in AnyNode
    BY TypedIs
  <2>3. h \in 1..MaxLevel
    BY <2>2, NodeIs
  <2>4. QED
    BY <2>1, <2>2, <2>3, Constants
<1>2. /\ Len(M) = n + 1
      /\ \A i \in 0..k : At(M, i) = At(L, i)
      /\ At(M, k + 1) = a
      /\ \A i \in k + 2 .. n + 1 : At(M, i) = At(L, i - 1)
      /\ \A j \in 1..k : Entry(M, j) = Entry(L, j)
      /\ Entry(M, k + 1) = a
      /\ \A j \in k + 1 .. n + 1 : Entry(M, j + 1) = Entry(L, j)
  BY <1>1, WithIs
<1>3. \A i \in 0..n : /\ At(L, i) \in DOMAIN s.mem
                      /\ t.mem[At(L, i)].levelSize = s.mem[At(L, i)].levelSize
                      /\ s.mem[At(L, i)].levelSize \in 1..MaxLevel
  <2>1. \A i \in 0..n : At(L, i) \in DOMAIN s.mem
    BY <1>1, AtIs
  <2>2. \A i \in 0..n : s.mem[At(L, i)] \in AnyNode
    BY <2>1, TypedIs
  <2>3. QED
    BY <2>1, <2>2, NodeIs DEF Inserted, Renewed
<1>4. t.mem[a].levelSize = h /\ t.level = IF h > s.level THEN h ELSE s.level
  BY DEF Inserted, Renewed
<1> SUFFICES ASSUME NEW l \in 1..MaxLevel, NEW i \in 0 .. n + 1, High(t, M, i, l)
             PROVE  \E j \in 1 .. Len(M) + 1 : LinkedTo(t, M, l, i, j)
  BY <1>2 DEF Links
<1> DEFINE P(q) == High(s, L, q, l)
           Q(q) == High(t, M, q, l)
           o == u[l]
<1>5. /\ \A q \in 0..k : Q(q) <=> P(q)
      /\ Q(k + 1) <=> h >= l
      /\ \A q \in k + 2 .. n + 1 : Q(q) <=> P(q - 1)
  <2>1. \A q \in 0..k : q \in 0..n
    BY <1>1
  <2>2. \A q \in 0..k : Q(q) <=> P(q)
    BY <1>2, <1>3, <2>1 DEF High
  <2>3. Q(k + 1) <=> h >= l
    BY ONLY <1>2, <1>4 DEF High
  <2>4. \A q \in k + 2 .. n + 1 : q - 1 \in 0..n
    BY <1>1
  <2>5. \A q \in k + 2 .. n + 1 : Q(q) <=> P(q - 1)
    BY <1>2, <1>3, <2>4 DEF High
  <2>6. QED
    BY <2>2, <2>3, <2>5
<1>6. o \in 0..k /\ P(o) /\ \A q \in o + 1 .. k : ~P(q)
  BY DEF LastHigh
<1>7. ASSUME NEW q \in 0..n, P(q)
      PROVE  \E j \in q + 1 .. n + 1 :
               /\ j <= n => P(j)
               /\ \A r \in q + 1 .. j - 1 : ~P(r)
               /\ s.mem[At(L, q)].next[l] = Entry(L, j)
               /\ l <= s.level => s.mem[At(L, q)].span[l] = Index(L, j) - q
  <2>1. PICK j \in 1 .. n + 1 : LinkedTo(s, L, l, q, j)
    BY <1>1, <1>7 DEF Links
  <2>2. NextHigh(s, L, l, q, j)
    BY <2>1 DEF LinkedTo
  <2>3. QED
    BY <2>1, <2>2 DEF LinkedTo, NextHigh
<1>8. ASSUME NEW q \in 1..n, P(q) PROVE l <= s.level
  <2> DEFINE d == s.mem[At(L, q)].levelSize
  <2>1. q \in 0..n /\ At(L, q) = L[q]
    BY <1>1, AtIs
  <2>2. d <= s.level /\ d >= l
    BY <1>1, <1>7, <1>8, <2>1 DEF Levels, High
  <2>3. d \in Int
    BY <1>3, <2>1
  <2> HIDE DEF d
  <2>4. QED
    BY <1>1, <2>2, <2>3
<1>9. \A q \in 0..n : P(q) => /\ t.mem[At(L, q)].next[l] =
                                   IF l <= h /\ q = o THEN a ELSE s.mem[At(L, q)].next[l]
                              /\ t.mem[At(L, q)].span[l] =
                                   IF l > t.level \/ q # o THEN s.mem[At(L, q)].span[l]
                                   ELSE IF l <= h THEN (k - o) + 1
                                   ELSE s.mem[At(L, q)].span[l] + 1
  <2> SUFFICES ASSUME NEW q \in 0..n, P(q)
               PROVE  /\ t.mem[At(L, q)].next[l] =
                           IF l <= h /\ q = o THEN a ELSE s.mem[At(L, q)].next[l]
                      /\ t.mem[At(L, q)].span[l] =
                           IF l > t.level \/ q # o THEN s.mem[At(L, q)].span[l]
                           ELSE IF l <= h THEN (k - o) + 1
                           ELSE s.mem[At(L, q)].span[l] + 1
    OBVIOUS
  <2>1. l \in 1..s.mem[At(L, q)].levelSize
    BY <1>3 DEF High
  <2>2. QED
    BY <2>1 DEF Inserted
<1>10. l <= h => /\ t.mem[a].next[l] = s.mem[At(L, o)].next[l]
                 /\ t.mem[a].span[l] =
                      (IF l <= s.level THEN s.mem[At(L, o)].span[l] ELSE s.size) - (k - o)
  BY DEF Inserted
<1>11. PICK w \in o + 1 .. n + 1 :
         /\ w <= n => P(w)
         /\ \A r \in o + 1 .. w - 1 : ~P(r)
         /\ s.mem[At(L, o)].next[l] = Entry(L, w)
         /\ l <= s.level => s.mem[At(L, o)].span[l] = Index(L, w) - o
  <2>1. o \in 0..n
    BY <1>1, <1>6
  <2>2. QED
    BY <1>6, <1>7, <2>1
<1>12. w > k
  BY <1>1, <1>6, <1>11
<1> HIDE DEF P, o, h
<1>13. CASE i <= k /\ i # o
  <2>1. P(i) /\ i \in 0..n /\ i < o
    <3>1. i \in 0..k /\ i \in 0..n
      BY <1>1, <1>13
    <3>2. P(i)
      BY <1>5, <3>1 DEF Q
    <3>3. QED
      BY <1>1, <1>6, <1>13, <3>1, <3>2
  <2>2. PICK j \in i + 1 .. n + 1 :
               /\ j <= n => P(j)
               /\ \A r \in i + 1 .. j - 1 : ~P(r)
               /\ s.mem[At(L, i)].next[l] = Entry(L, j)
               /\ l <= s.level => s.mem[At(L, i)].span[l] = Index(L, j) - i
    BY <1>7, <2>1
  <2>3. j <= o
    BY <1>1, <1>6, <2>1, <2>2
  <2>4. j \in 1..k /\ j \in 0..k /\ j <= n /\ j \in i + 1 .. Len(M) + 1
    BY <1>1, <1>2, <1>6, <2>2, <2>3
  <2>5. ASSUME NEW r \in i + 1 .. j - 1 PROVE ~Q(r)
    <3>1. r \in 0..k
      BY <1>1, <2>1, <2>4
    <3>2. QED
      BY <1>5, <2>2, <3>1
  <2>6. NextHigh(t, M, l, i, j)
    BY <1>5, <2>2, <2>4, <2>5 DEF NextHigh
  <2>7. t.mem[At(M, i)].next[l] = Entry(M, j)
    BY <1>2, <1>9, <1>13, <2>1, <2>2, <2>4
  <2>8. t.mem[At(M, i)].span[l] = Index(M, j) - i
    <3>1. o \in 1..n
      BY <1>1, <1>6, <2>1
    <3>2. l <= s.level
      BY <1>6, <1>8, <3>1
    <3>3. Index(L, j) = j /\ Index(M, j) = j
      BY <1>1, <1>2, <2>4 DEF Index
    <3>4. At(M, i) = At(L, i)
      <4>1. i \in 0..k
        BY <1>1, <1>13, <2>1
      <4>2. QED
        BY <1>2, <4>1
    <3>5. t.mem[At(L, i)].span[l] = s.mem[At(L, i)].span[l]
      BY <1>9, <1>13, <2>1
    <3>6. QED
      BY <2>2, <3>2, <3>3, <3>4, <3>5
  <2>9. LinkedTo(t, M, l, i, j)
    BY <2>6, <2>7, <2>8 DEF LinkedTo
  <2>10. QED
    BY <1>1, <2>4, <2>9
<1>14. CASE i = o /\ l <= h
  <2>1. i \in 0..n /\ i \in 0..k /\ k + 1 \in i + 1 .. Len(M) + 1 /\ k + 1 <= Len(M)
    BY <1>1, <1>2, <1>6, <1>14
  <2>2. ASSUME NEW r \in i + 1 .. (k + 1) - 1 PROVE ~Q(r)
    <3>1. r \in 0..k /\ r \in o + 1 .. k
      BY <1>1, <1>14, <2>1
    <3>2. QED
      BY <1>5, <1>6, <3>1
  <2>3. NextHigh(t, M, l, i, k + 1)
    BY <1>1, <1>5, <1>14, <2>1, <2>2 DEF NextHigh
  <2>4. t.mem[At(M, i)].next[l] = Entry(M, k + 1)
    BY <1>2, <1>6, <1>9, <1>14, <2>1
  <2>5. t.mem[At(M, i)].span[l] = Index(M, k + 1) - i
    <3>1. ~(l > t.level)
      BY <1>1, <1>4, <1>14
    <3>2. Index(M, k + 1) = k + 1
      BY <1>1, <1>2 DEF Index
    <3>3. t.mem[At(L, i)].span[l] = (k - o) + 1
      BY <1>6, <1>9, <1>14, <2>1, <3>1
    <3>4. At(M, i) = At(L, i)
      BY <1>2, <2>1
    <3>5. (k - o) + 1 = (k + 1) - i
      BY <1>1, <1>6, <1>14
    <3>6. QED
      BY <3>2, <3>3, <3>4, <3>5
  <2>6. LinkedTo(t, M, l, i, k + 1)
    BY <2>3, <2>4, <2>5 DEF LinkedTo
  <2>7. QED
    BY <1>1, <2>1, <2>6
<1>15. ASSUME i = k + 1 \/ (i = o /\ ~(l <= h)) PROVE NextHigh(t, M, l, i, w + 1)
  <2>1. w + 1 \in i + 1 .. Len(M) + 1
    BY <1>1, <1>2, <1>6, <1>11, <1>12, <1>15
  <2>2. w + 1 <= Len(M) => Q(w + 1)
    <3> SUFFICES ASSUME w + 1 <= Len(M) PROVE Q(w + 1)
      OBVIOUS
    <3>1. w <= n /\ w + 1 \in k + 2 .. n + 1 /\ (w + 1) - 1 = w
      BY <1>1, <1>2, <1>11, <1>12
    <3>2. QED
      BY <1>5, <1>11, <3>1
  <2>3. ASSUME NEW r \in i + 1 .. (w + 1) - 1 PROVE ~Q(r)
    <3>1. CASE r <= k
      <4>1. r \in 0..k /\ r \in o + 1 .. k
        BY <1>1, <1>6, <1>15, <3>1
      <4>2. QED
        BY <1>5, <1>6, <4>1
    <3>2. CASE r = k + 1
      <4>1. i = o /\ ~(l <= h)
        BY <1>1, <1>15, <3>2
      <4>2. ~(h >= l)
        BY <1>1, <4>1
      <4>3. QED
        BY <1>5, <3>2, <4>2
    <3>3. CASE r > k + 1
      <4>1. r \in k + 2 .. n + 1 /\ r - 1 \in o + 1 .. w - 1
        BY <1>1, <1>6, <1>11, <1>12, <3>3
      <4>2. QED
        BY <1>5, <1>11, <4>1
    <3>4. QED
      BY <1>1, <3>1, <3>2, <3>3
  <2>4. QED
    BY <2>1, <2>2, <2>3 DEF NextHigh
<1>16. /\ Entry(M, w + 1) = Entry(L, w) /\ w + 1 \in 1 .. Len(M) + 1
       /\ Index(M, w + 1) = Index(L, w) + 1 /\ Index(L, w) \in Int
  <2>1. w \in k + 1 .. n + 1 /\ w + 1 \in 1 .. Len(M) + 1
    BY <1>1, <1>2, <1>11, <1>12
  <2>2. Index(M, w + 1) = Index(L, w) + 1 /\ Index(L, w) \in Int
    BY <1>1, <1>2, <2>1 DEF Index
  <2>3. QED
    BY <1>2, <2>1, <2>2
<1>17. CASE i = o /\ ~(l <= h)
  <2>1. i \in 0..n /\ i \in 0..k
    BY <1>1, <1>6, <1>17
  <2>2. t.mem[At(M, i)].next[l] = Entry(M, w + 1)
    BY <1>2, <1>6, <1>9, <1>11, <1>16, <1>17, <2>1
  <2>3. l <= t.level => t.mem[At(M, i)].span[l] = Index(M, w + 1) - i
    <3> SUFFICES ASSUME l <= t.level PROVE t.mem[At(M, i)].span[l] = Index(M, w + 1) - i
      OBVIOUS
    <3>1. l <= s.level /\ ~(l > t.level)
      BY <1>1, <1>4, <1>17
    <3>2. t.mem[At(L, i)].span[l] = s.mem[At(L, i)].span[l] + 1
      BY <1>6, <1>9, <1>17, <2>1, <3>1
    <3>3. s.mem[At(L, i)].span[l] = Index(L, w) - i
      BY <1>11, <1>17, <3>1
    <3>4. At(M, i) = At(L, i)
      BY <1>2, <2>1
    <3>5. QED
      BY <1>16, <2>1, <3>2, <3>3, <3>4
  <2>4. LinkedTo(t, M, l, i, w + 1)
    BY <1>15, <1>17, <2>2, <2>3 DEF LinkedTo
  <2>5. QED
    BY <1>16, <2>4
<1>18. CASE i = k + 1
  <2>1. l <= h
    BY <1>1, <1>5, <1>18
  <2>2. t.mem[At(M, i)].next[l] = Entry(M, w + 1)
    BY <1>2, <1>10, <1>11, <1>16, <1>18, <2>1
  <2>3. t.mem[At(M, i)].span[l] = Index(M, w + 1) - i
    <3>1. t.mem[a].span[l] = Index(L, w) - k
      <4>1. CASE l <= s.level
        <5>1. t.mem[a].span[l] = (Index(L, w) - o) - (k - o)
          BY <1>10, <1>11, <2>1, <4>1
        <5>2. QED
          BY <1>1, <1>6, <1>16, <5>1
      <4>2. CASE ~(l <= s.level)
        <5>1. o = 0
          <6>1. o # 0 => o \in 1..n
            BY <1>1, <1>6
          <6>2. QED
            BY <1>6, <1>8, <4>2, <6>1
        <5>2. w = n + 1
          <6>1. w <= n => w \in 1..n
            BY <1>1, <1>6, <1>11
          <6>2. ~(w <= n)
            BY <1>8, <1>11, <4>2, <6>1
          <6>3. QED
            BY <1>1, <1>11, <6>2
        <5>3. Index(L, w) = n
          BY <1>1, <5>2 DEF Index
        <5>4. t.mem[a].span[l] = n - (k - 0)
          BY <1>1, <1>10, <2>1, <4>2, <5>1
        <5>5. QED
          BY <1>1, <5>3, <5>4
      <4>3. QED
        BY <4>1, <4>2
    <3>2. QED
      BY <1>1, <1>2, <1>16, <1>18, <3>1
  <2>4. LinkedTo(t, M, l, i, w + 1)
    BY <1>15, <1>18, <2>2, <2>3 DEF LinkedTo
  <2>5. QED
    BY <1>16, <2>4
<1>19. CASE i > k + 1
  <2> DEFINE b == i - 1
  <2>1. b \in 0..n /\ b \in 1..n /\ b > k /\ i = b + 1 /\ b # o /\ P(b)
        /\ At(M, i) = At(L, b)
    <3>1. i \in k + 2 .. n + 1
      BY <1>1, <1>19
    <3>2. P(b) /\ At(M, i) = At(L, b)
      BY <1>2, <1>5, <3>1 DEF Q
    <3>3. QED
      BY <1>1, <1>6, <3>1, <3>2
  <2> HIDE DEF b
  <2>2. PICK j \in b + 1 .. n + 1 :
               /\ j <= n => P(j)
               /\ \A r \in b + 1 .. j - 1 : ~P(r)
               /\ s.mem[At(L, b)].next[l] = Entry(L, j)
               /\ l <= s.level => s.mem[At(L, b)].span[l] = Index(L, j) - b
    BY <1>7, <2>1
  <2>3. j \in k + 1 .. n + 1 /\ j + 1 \in i + 1 .. Len(M) + 1 /\ j + 1 \in 1 .. Len(M) + 1
    BY <1>1, <1>2, <2>1
  <2>4. j + 1 <= Len(M) => Q(j + 1)
    <3> SUFFICES ASSUME j + 1 <= Len(M) PROVE Q(j + 1)
      OBVIOUS
    <3>1. j <= n /\ j + 1 \in k + 2 .. n + 1 /\ (j + 1) - 1 = j
      BY <1>1, <1>2, <2>3
    <3>2. QED
      BY <1>5, <2>2, <3>1
  <2>5. ASSUME NEW r \in i + 1 .. (j + 1) - 1 PROVE ~Q(r)
    <3>1. r \in k + 2 .. n + 1 /\ r - 1 \in b + 1 .. j - 1
      <4>1. /\ b \in Int /\ j \in Int /\ k \in Int /\ n \in Int
            /\ i = b + 1 /\ b > k /\ j <= n + 1
        BY <1>1, <2>1, <2>3
      <4>2. r \in Int /\ r >= b + 2 /\ r <= j
        BY <4>1
      <4> HIDE DEF n
      <4>3. r >= k + 2 /\ r <= n + 1
        BY ONLY <4>1, <4>2
      <4>4. r - 1 \in Int /\ r - 1 >= b + 1 /\ r - 1 <= j - 1
        BY ONLY <4>1, <4>2
      <4>5. QED
        BY ONLY <4>1, <4>2, <4>3, <4>4
    <3>2. QED
      BY <1>5, <2>2, <3>1
  <2>6. NextHigh(t, M, l, i, j + 1)
    BY <2>3, <2>4, <2>5 DEF NextHigh
  <2>7. t.mem[At(M, i)].next[l] = Entry(M, j + 1)
    BY <1>2, <1>9, <2>1, <2>2, <2>3
  <2>8. t.mem[At(M, i)].span[l] = Index(M, j + 1) - i
    <3>1. l <= s.level
      BY <1>8, <2>1
    <3>2. t.mem[At(L, b)].span[l] = s.mem[At(L, b)].span[l]
      BY <1>9, <2>1
    <3>3. Index(M, j + 1) = Index(L, j) + 1 /\ Index(L, j) \in Int
      BY <1>1, <1>2, <2>3 DEF Index
    <3>4. t.mem[At(M, i)].span[l] = Index(L, j) - b
      BY <2>1, <2>2, <3>1, <3>2
    <3>5. QED
      BY <2>1, <3>3, <3>4
  <2>9. LinkedTo(t, M, l, i, j + 1)
    BY <2>6, <2>7, <2>8 DEF LinkedTo
  <2>10. QED
    BY <2>3, <2>9
<1>20. QED
  BY <1>1, <1>13, <1>14, <1>17, <1>18, <1>19

LEMMA InsertLists ==
  ASSUME NEW s, Typed(s), NEW L, Listing(s, L), NEW k \in 0..Len(L),
         NEW a \in DOMAIN s.mem \cap Addr, \A i \in 1..Len(L) : L[i] # a,
         NEW u \in [1..MaxLevel -> 0..k], \A l \in 1..MaxLevel : LastHigh(s, L, l, k, u[l]),
         NEW t, Inserted(s, L, k, a, u, t), NEW M, With(L, k, a, M)
  PROVE  Listing(t, M)
<1> DEFINE n == Len(L)
           h == s.mem[a].levelSize
<1>1. /\ NodesOf(s, L) /\ n \in Nat /\ k \in Nat /\ k <= n /\ L \in Seq(Addr)
      /\ Levels(s, L) /\ BackLinks(s, L) /\ s.size = n
      /\ s.level \in 1..MaxLevel /\ MaxLevel \in Nat /\ h \in 1..MaxLevel
  <2>1. NodesOf(s, L) /\ n \in Nat /\ L \in Seq(Addr) /\ Levels(s, L) /\ BackLinks(s, L) /\ s.size = n
    BY DEF Listing, NodesOf
  <2>2. s.level \in 1..MaxLevel /\ s.mem[a] \in AnyNode
    BY TypedIs
  <2>3. h \in 1..MaxLevel
    BY <2>2, NodeIs
  <2>4. QED
    BY <2>1, <2>2, <2>3, Constants
<1>2. /\ Len(M) = n + 1 /\ M \in Seq(Addr)
      /\ \A i \in 1..k : M[i] = L[i]
      /\ M[k + 1] = a
      /\ \A i \in k + 1 .. n : M[i + 1] = L[i]
  BY DEF With
<1>3. ASSUME NEW i \in 1 .. n + 1
      PROVE  \/ i <= k /\ i \in 1..n /\ M[i] = L[i]
             \/ i = k + 1 /\ M[i] = a
             \/ i > k + 1 /\ i - 1 \in 1..n /\ M[i] = L[i - 1]
  <2>1. CASE i <= k
    BY <1>1, <1>2, <2>1
  <2>2. CASE i = k + 1
    BY <1>2, <2>2
  <2>3. CASE i > k + 1
    <3>1. i - 1 \in k + 1 .. n /\ i - 1 \in 1..n /\ (i - 1) + 1 = i
      BY <1>1, <2>3
    <3>2. QED
      BY <1>2, <2>3, <3>1
  <2>4. QED
    BY <1>1, <2>1, <2>2, <2>3
<1>4. \A i \in 1..n : L[i] \in DOMAIN s.mem /\ L[i] # a
  BY <1>1 DEF NodesOf
<1>5. /\ DOMAIN t.mem = DOMAIN s.mem
      /\ \A p \in DOMAIN s.mem : t.mem[p].levelSize = s.mem[p].levelSize
      /\ t.level = IF h > s.level THEN h ELSE s.level
      /\ t.size = n + 1
      /\ t.tail = IF k = n THEN a ELSE s.tail
      /\ t.mem[a].prev = IF k = 0 THEN Nil ELSE L[k]
      /\ \A i \in 1..n : t.mem[L[i]].prev = IF i = k + 1 THEN a ELSE s.mem[L[i]].prev
  BY <1>1 DEF Inserted, Renewed
<1>6. NodesOf(t, M)
  <2>1. \A i \in 1..Len(M) : M[i] \in DOMAIN t.mem
    BY <1>2, <1>3, <1>4, <1>5
  <2>2. ASSUME NEW i \in 1..Len(M), NEW j \in 1..Len(M), M[i] = M[j] PROVE i = j
    <3>1. /\ \/ i <= k /\ i \in 1..n /\ M[i] = L[i]
             \/ i = k + 1 /\ M[i] = a
             \/ i > k + 1 /\ i - 1 \in 1..n /\ M[i] = L[i - 1]
          /\ \/ j <= k /\ j \in 1..n /\ M[j] = L[j]
             \/ j = k + 1 /\ M[j] = a
             \/ j > k + 1 /\ j - 1 \in 1..n /\ M[j] = L[j - 1]
      BY <1>2, <1>3
    <3>2. \A q, r \in 1..n : L[q] = L[r] => q = r
      BY <1>1 DEF NodesOf
    <3>3. i \in Int /\ j \in Int
      OBVIOUS
    <3>4. CASE i <= k /\ i \in 1..n /\ M[i] = L[i]
      BY <1>1, <1>4, <2>2, <3>1, <3>2, <3>3, <3>4
    <3>5. CASE i = k + 1 /\ M[i] = a
      <4>1. \A r \in 1..n : M[j] # L[r]
        BY <1>4, <2>2, <3>5
      <4>2. QED
        BY <3>1, <3>5, <4>1
    <3>6. CASE i > k + 1 /\ i - 1 \in 1..n /\ M[i] = L[i - 1]
      <4>1. CASE j <= k /\ j \in 1..n /\ M[j] = L[j]
        <5>1. i - 1 = j
          BY <2>2, <3>2, <3>6, <4>1
        <5>2. QED
          BY <1>1, <3>3, <3>6, <4>1, <5>1
      <4>2. CASE j = k + 1 /\ M[j] = a
        BY <1>4, <2>2, <3>6, <4>2
      <4>3. CASE j > k + 1 /\ j - 1 \in 1..n /\ M[j] = L[j - 1]
        <5>1. i - 1 = j - 1
          BY <2>2, <3>2, <3>6, <4>3
        <5>2. QED
          BY <3>3, <5>1
      <4>4. QED
        BY <3>1, <4>1, <4>2, <4>3
    <3>7. QED
      BY <3>1, <3>4, <3>5, <3>6
  <2>3. QED
    BY <1>1, <1>2, <2>1, <2>2 DEF NodesOf
<1>7. Links(t, M)
  BY InsertLinks
<1>8. Levels(t, M)
  <2> DEFINE H(p) == t.mem[p].levelSize
  <2>1. /\ \A i \in 1..n : /\ H(L[i]) \in Int /\ H(L[i]) <= s.level
                           /\ H(L[i]) = s.mem[L[i]].levelSize
        /\ H(a) = h /\ h \in Int /\ s.level \in Int
    <3>1. \A i \in 1..n : s.mem[L[i]] \in AnyNode
      BY <1>4, TypedIs
    <3>2. \A i \in 1..n : s.mem[L[i]].levelSize \in 1..MaxLevel
      BY <3>1, NodeIs
    <3>3. H(a) = h /\ h \in Int /\ s.level \in Int
      BY <1>1, <1>5
    <3>4. \A i \in 1..n : H(L[i]) = s.mem[L[i]].levelSize
      BY <1>4, <1>5
    <3>5. \A i \in 1..n : s.mem[L[i]].levelSize <= s.level
      BY <1>1 DEF Levels
    <3> HIDE DEF H
    <3>6. \A i \in 1..n : H(L[i]) \in Int
      BY <3>2, <3>4
    <3>7. QED
      BY <3>3, <3>4, <3>5, <3>6
  <2>2. s.level = 1 \/ \E i \in 1..n : H(L[i]) = s.level
    BY <1>1, <2>1 DEF Levels
  <2> HIDE DEF H, h
  <2>3. \A i \in 1..Len(M) : H(M[i]) <= t.level
    <3> SUFFICES ASSUME NEW i \in 1..Len(M) PROVE H(M[i]) <= t.level
      OBVIOUS
    <3>1. CASE M[i] = a
      BY <1>5, <2>1, <3>1
    <3>2. CASE \E j \in 1..n : M[i] = L[j]
      BY <1>5, <2>1, <3>2
    <3>3. QED
      BY <1>2, <1>3, <3>1, <3>2
  <2>4. t.level = 1 \/ \E i \in 1..Len(M) : H(M[i]) = t.level
    <3>1. CASE h > s.level
      <4>1. k + 1 \in 1..Len(M) /\ H(M[k + 1]) = t.level
        BY <1>1, <1>2, <1>5, <2>1, <3>1
      <4>2. QED
        BY <4>1
    <3>2. CASE ~(h > s.level)
      <4>1. t.level = s.level
        BY <1>5, <3>2
      <4>2. \A j \in 1..n : \E i \in 1..Len(M) : M[i] = L[j]
        <5> SUFFICES ASSUME NEW j \in 1..n PROVE \E i \in 1..Len(M) : M[i] = L[j]
          OBVIOUS
        <5>1. CASE j <= k
          BY <1>1, <1>2, <5>1
        <5>2. CASE ~(j <= k)
          <6>1. j \in k + 1 .. n /\ j + 1 \in 1..Len(M)
            BY <1>1, <1>2, <5>2
          <6>2. QED
            BY <1>2, <6>1
        <5>3. QED
          BY <5>1, <5>2
      <4>3. QED
        BY <2>2, <4>1, <4>2
    <3>3. QED
      BY <3>1, <3>2
  <2>5. QED
    BY <2>3, <2>4 DEF Levels, H
<1>9. BackLinks(t, M)
  <2>1. ASSUME NEW i \in 1..Len(M)
        PROVE  t.mem[M[i]].prev = IF i = 1 THEN Nil ELSE M[i - 1]
    <3>1. CASE i <= k
      <4>1. i \in 1..n /\ M[i] = L[i] /\ i # k + 1
        BY <1>1, <1>2, <3>1
      <4>2. t.mem[M[i]].prev = IF i = 1 THEN Nil ELSE L[i - 1]
        BY <1>1, <1>5, <4>1 DEF BackLinks
      <4>3. i # 1 => i - 1 \in 1..k
        BY <1>1, <3>1
      <4>4. QED
        BY <1>2, <4>2, <4>3
    <3>2. CASE i = k + 1
      <4>1. t.mem[M[i]].prev = IF k = 0 THEN Nil ELSE L[k]
        BY <1>2, <1>5, <3>2
      <4>2. k # 0 => k \in 1..k /\ i - 1 = k /\ i # 1
        BY <1>1, <3>2
      <4>3. k = 0 => i = 1
        BY <3>2
      <4>4. QED
        BY <1>2, <4>1, <4>2, <4>3
    <3>3. CASE i > k + 1
      <4> DEFINE b == i - 1
      <4>1. b \in k + 1 .. n /\ b \in 1..n /\ b + 1 = i /\ i # 1 /\ b \in Int
        BY <1>1, <1>2, <3>3
      <4> HIDE DEF b
      <4>2. M[i] = L[b] /\ i - 1 = b
        BY <1>2, <4>1
      <4>3. CASE b = k + 1
        BY <1>2, <1>5, <4>1, <4>2, <4>3
      <4>4. CASE b # k + 1
        <5>1. b - 1 \in k + 1 .. n /\ (b - 1) + 1 = b /\ b # 1
          BY <1>1, <4>1, <4>4
        <5>2. M[b] = L[b - 1]
          BY <1>2, <5>1
        <5>3. t.mem[L[b]].prev = L[b - 1]
          BY <1>1, <1>5, <4>1, <4>4, <5>1 DEF BackLinks
        <5>4. QED
          BY <4>1, <4>2, <5>2, <5>3
      <4>5. QED
        BY <4>3, <4>4
    <3>4. QED
      BY <1>1, <1>2, <3>1, <3>2, <3>3
  <2>2. t.tail = M[Len(M)]
    <3>1. CASE k = n
      BY <1>2, <1>5, <3>1
    <3>2. CASE k # n
      <4>1. n \in k + 1 .. n /\ n # 0
        BY <1>1, <3>2
      <4>2. QED
        BY <1>1, <1>2, <1>5, <3>2, <4>1 DEF BackLinks
    <3>3. QED
      BY <3>1, <3>2
  <2>3. Len(M) # 0
    BY <1>1, <1>2
  <2>4. QED
    BY <2>1, <2>2, <2>3 DEF BackLinks
<1>10. QED
  BY <1>2, <1>5, <1>6, <1>7, <1>8, <1>9 DEF Listing

LEMMA InsertTyped ==
  ASSUME NEW s, Typed(s), NEW L, Listing(s, L), NEW k \in 0..Len(L),
         NEW a \in DOMAIN s.mem \cap Addr, \A i \in 1..Len(L) : L[i] # a,
         NEW u \in [1..MaxLevel -> 0..k], \A l \in 1..MaxLevel : LastHigh(s, L, l, k, u[l]),
         NEW t, Inserted(s, L, k, a, u, t), NEW M, With(L, k, a, M)
  PROVE  Typed(t)
<1> DEFINE n == Len(L)
           h == s.mem[a].levelSize
           D == DOMAIN s.mem
<1>1. /\ NodesOf(s, L) /\ n \in Nat /\ k \in Nat /\ k <= n /\ L \in Seq(Addr) /\ s.size = n
      /\ BackLinks(s, L)
      /\ s.level \in 1..MaxLevel /\ MaxLevel \in Nat /\ h \in 1..MaxLevel
  <2>1. NodesOf(s, L) /\ n \in Nat /\ L \in Seq(Addr) /\ s.size = n /\ BackLinks(s, L)
    BY DEF Listing, NodesOf
  <2>2. s.level \in 1..MaxLevel /\ s.mem[a] \in AnyNode
    BY TypedIs
  <2>3. h \in 1..MaxLevel
    BY <2>2, NodeIs
  <2>4. QED
    BY <2>1, <2>2, <2>3, Constants
<1>2. /\ SlHead \in D /\ D \subseteq Addr \cup {SlHead}
      /\ \A p \in D : s.mem[p] \in AnyNode
      /\ s.mem[SlHead].levelSize = MaxLevel /\ s.mem[SlHead].score = 0
      /\ s.tail \in Link
      /\ s.node_map \in [Value -> Link] /\ s.value_map \in [Addr -> Value \cup {Nil}]
  BY TypedIs
<1>3. /\ t = [mem |-> t.mem, level |-> t.level, size |-> t.size, tail |-> t.tail,
              node_map |-> s.node_map, value_map |-> s.value_map]
      /\ DOMAIN t.mem = D /\ \A p \in D : Renewed(s, t, p)
      /\ t.level = IF h > s.level THEN h ELSE s.level
      /\ t.size = s.size + 1
      /\ t.tail = IF k = n THEN a ELSE s.tail
      /\ t.mem[a].prev = IF k = 0 THEN Nil ELSE L[k]
      /\ \A i \in 1..n : t.mem[L[i]].prev = IF i = k + 1 THEN a ELSE s.mem[L[i]].prev
  BY DEF Inserted
<1>4. \A i \in 0..n : u[1] \in 0..n
  BY <1>1
<1>5. Listing(t, M)
  BY InsertLists
<1>6. ASSUME NEW i \in 0..n
      PROVE  /\ At(L, i) \in D
             /\ s.mem[At(L, i)].levelSize \in 1..MaxLevel
             /\ \A l \in 1..s.mem[At(L, i)].levelSize :
                  s.mem[At(L, i)].next[l] \in Link /\ s.mem[At(L, i)].span[l] \in Nat
             /\ s.mem[At(L, i)].prev \in Link
  <2>1. At(L, i) \in D
    BY <1>1, AtIs
  <2>2. s.mem[At(L, i)] \in AnyNode
    BY <1>2, <2>1
  <2>3. QED
    BY <2>1, <2>2, NodeIs
<1>6a. ASSUME NEW i \in 0..n, NEW l \in 1..s.mem[At(L, i)].levelSize
      PROVE  /\ t.mem[At(L, i)].next[l] =
                  IF l <= h /\ i = u[l] THEN a ELSE s.mem[At(L, i)].next[l]
             /\ t.mem[At(L, i)].span[l] =
                  IF l > t.level \/ i # u[l] THEN s.mem[At(L, i)].span[l]
                  ELSE IF l <= h THEN (k - u[l]) + 1 ELSE s.mem[At(L, i)].span[l] + 1
  BY DEF Inserted
<1>7. ASSUME NEW p \in D
      PROVE  /\ t.mem[p].prev \in Link
             /\ \A l \in 1..s.mem[p].levelSize : t.mem[p].next[l] \in Link /\ t.mem[p].span[l] \in Nat
  <2>1. CASE p = a
    <3>1. t.mem[p].prev \in Link
      <4>1. k # 0 => k \in 1..n
        BY <1>1
      <4>2. QED
        BY <1>1, <1>3, <2>1, <4>1 DEF Link
    <3>2. ASSUME NEW l \in 1..h PROVE t.mem[a].next[l] \in Link /\ t.mem[a].span[l] \in Nat
      <4>1. l \in 1..MaxLevel
        BY <1>1
      <4>2. Len(M) = n + 1 /\ At(M, k + 1) = a /\ k + 1 \in 0..Len(M)
        <5>1. Len(M) = n + 1 /\ At(M, k + 1) = a
          BY <1>1, WithIs
        <5>2. QED
          BY <1>1, <5>1
      <4>3. High(t, M, k + 1, l)
        <5>1. t.mem[a].levelSize = h
          BY <1>3 DEF Renewed
        <5>2. h >= l
          BY <1>1
        <5>3. QED
          BY <4>2, <5>1, <5>2 DEF High
      <4>4. PICK j \in 1 .. Len(M) + 1 : LinkedTo(t, M, l, k + 1, j)
        BY <1>5, <4>1, <4>2, <4>3 DEF Listing, Links
      <4>5. t.mem[a].next[l] = Entry(M, j) /\ (l <= t.level => t.mem[a].span[l] = Index(M, j) - (k + 1))
        BY <4>2, <4>4 DEF LinkedTo
      <4>6. l <= t.level
        BY <1>1, <1>3
      <4>7. j \in k + 2 .. n + 2
        BY <1>1, <4>2, <4>4 DEF LinkedTo, NextHigh
      <4>8. Index(M, j) - (k + 1) \in Nat
        BY <1>1, <4>2, <4>7 DEF Index
      <4>9. Entry(M, j) \in Link
        <5>1. M \in Seq(Addr)
          BY DEF With
        <5>2. j <= Len(M) => j \in 1..Len(M)
          BY <1>1, <4>7
        <5>3. QED
          BY <4>2, <4>7, <5>1, <5>2 DEF Entry, Link
      <4>10. QED
        BY <4>5, <4>6, <4>8, <4>9
    <3>3. QED
      BY <2>1, <3>1, <3>2
  <2>2. CASE p # a /\ \E i \in 0..n : p = At(L, i)
    <3>1. PICK i \in 0..n : p = At(L, i)
      BY <2>2
    <3>2. ASSUME NEW l \in 1..s.mem[p].levelSize
          PROVE  t.mem[p].next[l] \in Link /\ t.mem[p].span[l] \in Nat
      <4>1. l \in 1..MaxLevel
        BY <1>1, <1>6, <3>1
      <4>2. u[l] \in Nat /\ u[l] <= k
        BY <1>1, <4>1
      <4>3. /\ t.mem[p].next[l] = IF l <= h /\ i = u[l] THEN a ELSE s.mem[p].next[l]
            /\ t.mem[p].span[l] =
                 IF l > t.level \/ i # u[l] THEN s.mem[p].span[l]
                 ELSE IF l <= h THEN (k - u[l]) + 1 ELSE s.mem[p].span[l] + 1
        BY <1>6a, <3>1
      <4>4. s.mem[p].next[l] \in Link /\ s.mem[p].span[l] \in Nat
        BY <1>6, <3>1
      <4>5. (k - u[l]) + 1 \in Nat
        BY <1>1, <4>2
      <4>6. t.mem[p].next[l] \in Link
        BY <4>3, <4>4 DEF Link
      <4>7. s.mem[p].span[l] + 1 \in Nat
        BY <4>4
      <4>8. QED
        BY <4>3, <4>4, <4>5, <4>6, <4>7
    <3>3. t.mem[p].prev \in Link
      <4>1. CASE i = 0
        <5>1. p = SlHead
          BY <3>1, <4>1 DEF At
        <5>2. t.mem[p].prev = s.mem[p].prev
          BY <5>1 DEF Inserted
        <5>3. QED
          BY <1>6, <3>1, <5>2
      <4>2. CASE i # 0
        <5>1. i \in 1..n /\ p = L[i]
          BY <1>1, <3>1, <4>2 DEF At
        <5>2. s.mem[p].prev \in Link /\ a \in Link
          BY <1>6, <3>1 DEF Link
        <5>3. t.mem[p].prev = IF i = k + 1 THEN a ELSE s.mem[p].prev
          BY <1>3, <5>1
        <5>4. QED
          BY <5>2, <5>3
      <4>3. QED
        BY <4>1, <4>2
    <3>4. QED
      BY <3>2, <3>3
  <2>3. CASE p # a /\ ~\E i \in 0..n : p = At(L, i)
    <3>1. p # SlHead /\ \A i \in 1..n : L[i] # p
      BY <1>1, <2>3 DEF At
    <3>2. t.mem[p].prev = s.mem[p].prev /\ t.mem[p].next = s.mem[p].next
          /\ t.mem[p].span = s.mem[p].span
      BY <2>3, <3>1 DEF Inserted
    <3>3. QED
      BY <1>2, <3>2, NodeIs
  <2>4. QED
    BY <2>1, <2>2, <2>3
<1>8. ASSUME NEW p \in D PROVE t.mem[p] \in AnyNode
  <2> DEFINE r == t.mem[p]
             hp == s.mem[p].levelSize
  <2>1. Renewed(s, t, p) /\ s.mem[p] \in AnyNode
    BY <1>2, <1>3
  <2>2. hp \in 1..MaxLevel /\ s.mem[p].score \in Score \cup {0}
    BY <2>1, NodeIs
  <2>3. /\ r = [score |-> r.score, prev |-> r.prev, levelSize |-> hp,
                next |-> r.next, span |-> r.span]
        /\ r.score = s.mem[p].score
        /\ r.next = [l \in 1..hp |-> r.next[l]] /\ r.span = [l \in 1..hp |-> r.span[l]]
    BY <2>1 DEF Renewed
  <2>4. r.prev \in Link /\ \A l \in 1..hp : r.next[l] \in Link /\ r.span[l] \in Nat
    BY <1>7
  <2> HIDE DEF r, hp
  <2>5. r.next \in [1..hp -> Link] /\ r.span \in [1..hp -> Nat]
    BY <2>3, <2>4
  <2>6. r.score \in Score \cup {0}
    BY <2>2, <2>3
  <2> DEFINE x == r.score
             y == r.prev
             z == r.next
             w == r.span
  <2>7. /\ x \in Score \cup {0} /\ y \in Link /\ z \in [1..hp -> Link] /\ w \in [1..hp -> Nat]
        /\ r = [score |-> x, prev |-> y, levelSize |-> hp, next |-> z, span |-> w]
    BY <2>3, <2>4, <2>5, <2>6
  <2> HIDE DEF x, y, z, w
  <2>9. r \in AnyNode
    BY <2>2, <2>7, NodeMake
  <2>10. QED
    BY <2>9 DEF r
<1>9. t.mem \in [D -> AnyNode]
  <2> DEFINE m == t.mem
  <2>1. m = [p \in D |-> m[p]]
    BY <1>3 DEF Inserted
  <2>2. \A p \in D : m[p] \in AnyNode
    BY <1>8
  <2> HIDE DEF m, D
  <2>3. m \in [D -> AnyNode]
    BY <2>1, <2>2
  <2>4. QED
    BY <2>3 DEF m
<1>10. t.mem[SlHead].levelSize = MaxLevel /\ t.mem[SlHead].score = 0
  BY <1>2, <1>3 DEF Renewed
<1>11. t.level \in 1..MaxLevel /\ t.size \in Nat /\ t.tail \in Link
  BY <1>1, <1>2, <1>3 DEF Link
<1>12. t.node_map = s.node_map /\ t.value_map = s.value_map
  BY <1>3
<1>13. D \in SUBSET (Addr \cup {SlHead}) /\ SlHead \in D
  BY <1>2
<1> HIDE DEF D
<1>14. t = [mem |-> t.mem, level |-> t.level, size |-> t.size, tail |-> t.tail,
            node_map |-> t.node_map, value_map |-> t.value_map]
  BY <1>3, <1>12
<1>15. QED
  BY <1>2, <1>9, <1>10, <1>11, <1>12, <1>13, <1>14, TypedMake

-----------------------------------------------------------------------------
(* What a deletion writes, place by place: a is the node at place k + 1.   *)
Removed(s, M, k, a, u, t) ==
  LET n == Len(M)
  IN /\ t = [mem |-> t.mem, level |-> t.level, size |-> t.size, tail |-> t.tail,
             node_map |-> s.node_map, value_map |-> s.value_map]
     /\ t.level = Max({1} \cup {l \in 1..s.level : t.mem[SlHead].next[l] # Nil})
     /\ t.size = s.size - 1
     /\ t.tail = IF k + 1 = n THEN s.mem[a].prev ELSE s.tail
     /\ DOMAIN t.mem = DOMAIN s.mem /\ t.mem = [p \in DOMAIN s.mem |-> t.mem[p]]
     /\ \A p \in DOMAIN s.mem : Renewed(s, t, p)
     /\ \A p \in DOMAIN s.mem : (p # SlHead /\ \A i \in 1..n : M[i] = p => i = k + 1) =>
          /\ t.mem[p].prev = s.mem[p].prev
          /\ t.mem[p].next = s.mem[p].next /\ t.mem[p].span = s.mem[p].span
     /\ t.mem[SlHead].prev = s.mem[SlHead].prev
     /\ \A i \in 1..n : t.mem[M[i]].prev = IF i = k + 2 THEN s.mem[a].prev ELSE s.mem[M[i]].prev
     /\ \A i \in 0..n : \A l \in 1..s.mem[At(M, i)].levelSize :
          LET r == s.mem[At(M, i)]
          IN /\ t.mem[At(M, i)].next[l] =
                  IF l <= s.level /\ i = u[l] /\ r.next[l] = a THEN s.mem[a].next[l]
                  ELSE r.next[l]
             /\ t.mem[At(M, i)].span[l] =
                  IF l <= s.level /\ i = u[l]
                  THEN r.span[l] - 1 + IF r.next[l] = a THEN s.mem[a].span[l] ELSE 0
                  ELSE r.span[l]

LEMMA DeleteWrites ==
  ASSUME NEW s, Typed(s), NEW M, Listing(s, M), NEW k \in 0 .. Len(M) - 1,
         NEW a, a = M[k + 1],
         IsCut(M, {x \in Place : Comp(s, x.at, a) < 0}, k)
  PROVE  \E u \in [1..MaxLevel -> 0..k] :
           /\ \A l \in 1..MaxLevel : LastHigh(s, M, l, k, u[l])
           /\ Removed(s, M, k, a, u, SlDeleteNode(s, a))
<1> DEFINE path == Before(s, a)
           gone == s.mem[a]
           n == Len(M)
           u == [l \in 1..MaxLevel |-> IF l <= s.level THEN path[l].rank ELSE 0]
           On(l, p) == l <= s.level /\ path[l].at = p
           prev(p) == IF p = gone.next[1] THEN gone.prev ELSE s.mem[p].prev
           nextOn(p, l) ==
             IF On(l, p) /\ s.mem[p].next[l] = a THEN gone.next[l] ELSE s.mem[p].next[l]
           spanOn(p, l) == IF On(l, p) THEN Joined(s, a, p, l) ELSE s.mem[p].span[l]
           m == [p \in DOMAIN s.mem |->
                  [score |-> s.mem[p].score, prev |-> prev(p), levelSize |-> s.mem[p].levelSize,
                   next |-> [l \in 1..s.mem[p].levelSize |-> nextOn(p, l)],
                   span |-> [l \in 1..s.mem[p].levelSize |-> spanOn(p, l)]]]
           level == Max({1} \cup {l \in 1..s.level : nextOn(SlHead, l) # Nil})
           t == SlDeleteNode(s, a)
<1>1. t = [s EXCEPT !.mem = m, !.tail = IF gone.next[1] = Nil THEN gone.prev ELSE @,
                    !.level = level, !.size = @ - 1]
  BY DEF SlDeleteNode, Linked
<1> HIDE DEF path, u, m, level, prev, nextOn, spanOn, On, t
<1>2. /\ NodesOf(s, M) /\ n \in Nat /\ k \in 0..n /\ k \in Nat /\ k + 1 \in 1..n
      /\ k + 1 \in 0..n
      /\ Levels(s, M) /\ BackLinks(s, M) /\ s.size = n
      /\ s.level \in 1..MaxLevel /\ MaxLevel \in Nat /\ 1 \in 1..MaxLevel
      /\ SlHead \notin Addr /\ Nil \notin Addr
      /\ a \in DOMAIN s.mem /\ a \in Addr /\ At(M, k + 1) = a
  <2>1. NodesOf(s, M) /\ n \in Nat /\ Levels(s, M) /\ BackLinks(s, M) /\ s.size = n
    BY DEF Listing, NodesOf
  <2>2. s.level \in 1..MaxLevel
    BY TypedIs
  <2>3. k \in Nat /\ k \in 0..n /\ k + 1 \in 1..n /\ k + 1 \in 0..n
    BY <2>1
  <2>4. a \in DOMAIN s.mem /\ a \in Addr /\ At(M, k + 1) = a
    BY <2>1, <2>3, AtIs
  <2>5. QED
    BY <2>1, <2>2, <2>3, <2>4, Constants
<1>3. /\ t.mem = m /\ t.level = level /\ t.size = s.size - 1
      /\ t.tail = IF gone.next[1] = Nil THEN gone.prev ELSE s.tail
      /\ t = [mem |-> t.mem, level |-> t.level, size |-> t.size, tail |-> t.tail,
              node_map |-> s.node_map, value_map |-> s.value_map]
  <2> DEFINE NM == [Value -> Link]
             VM == [Addr -> Value \cup {Nil}]
             MS == UNION {[D \cup {SlHead} -> AnyNode] : D \in SUBSET Addr}
             g == gone
  <2>1. s \in [mem : MS, level : 1..MaxLevel, size : Nat, tail : Link,
               node_map : NM, value_map : VM]
    BY DEF Typed, Lists
  <2> HIDE DEF NM, VM, MS
  <2>2. QED
    BY <1>1, <2>1
<1>4. \A l \in 1..s.level : LeftAtCut(s, M, l, k, path[l])
  BY PathIs DEF path, Before
<1>5. ASSUME NEW l \in 1..MaxLevel
      PROVE  /\ LastHigh(s, M, l, k, u[l]) /\ u[l] \in 0..k
             /\ l <= s.level => path[l].at = At(M, u[l])
  <2>1. CASE l <= s.level
    <3>1. LeftAtCut(s, M, l, k, path[l]) /\ u[l] = path[l].rank
      BY <1>2, <1>4, <2>1 DEF u
    <3>2. path[l].at = At(M, u[l])
      BY <3>1 DEF LeftAtCut, Spot
    <3>3. QED
      BY <3>1, <3>2 DEF LeftAtCut, LastHigh
  <2>2. CASE ~(l <= s.level)
    <3>1. u[l] = 0
      BY <2>2 DEF u
    <3>2. High(s, M, 0, l)
      BY <1>2, AtIs
    <3>3. ASSUME NEW i \in 1..k PROVE ~High(s, M, i, l)
      <4>1. i \in 1..n /\ At(M, i) = M[i] /\ s.mem[M[i]].levelSize <= s.level
        BY <1>2, AtIs DEF Levels
      <4>2. s.mem[M[i]].levelSize \in Int
        <5>1. s.mem[M[i]] \in AnyNode
          BY <1>2, <4>1, TypedIs DEF NodesOf
        <5>2. QED
          BY <5>1, NodeIs
      <4> DEFINE d == s.mem[M[i]].levelSize
      <4>3. d \in Int /\ d <= s.level /\ s.level \in Int /\ l \in Int
        BY <1>2, <4>1, <4>2
      <4> HIDE DEF d
      <4>4. ~(d >= l)
        BY <2>2, <4>3
      <4>5. QED
        BY <4>1, <4>4 DEF High, d
    <3>4. QED
      BY <1>2, <2>2, <3>1, <3>2, <3>3 DEF LastHigh
  <2>3. QED
    BY <2>1, <2>2
<1>6. u \in [1..MaxLevel -> 0..k]
  BY <1>5 DEF u
<1>7. ASSUME NEW i \in 0..n, NEW l \in 1..MaxLevel
      PROVE  On(l, At(M, i)) <=> l <= s.level /\ i = u[l]
  <2>1. u[l] \in 0..n /\ (l <= s.level => path[l].at = At(M, u[l]))
    BY <1>2, <1>5
  <2>2. At(M, u[l]) = At(M, i) <=> i = u[l]
    BY <1>2, <2>1, AtIs
  <2>3. QED
    BY <2>1, <2>2 DEF On
<1>8. gone.next[1] = Entry(M, k + 2)
  <2>1. s.mem[At(M, k + 1)].next[1] = Entry(M, (k + 1) + 1)
    BY <1>2, NextOne
  <2>2. (k + 1) + 1 = k + 2
    BY <1>2
  <2>3. QED
    BY <1>2, <2>1, <2>2
<1>9. ASSUME NEW i \in 1..n
      PROVE  /\ M[i] = gone.next[1] <=> i = k + 2
             /\ gone.next[1] # SlHead /\ M[i] # Nil
             /\ M[i] \in DOMAIN s.mem /\ M[i] = At(M, i)
  <2>1. M[i] # Nil /\ M[i] \in DOMAIN s.mem /\ M[i] = At(M, i)
    BY <1>2, AtIs
  <2>2. CASE k + 1 = n
    <3>1. Entry(M, k + 2) = Nil
      BY <1>2, <2>2 DEF Entry
    <3>2. i # k + 2
      BY <1>2, <2>2
    <3>3. QED
      BY <1>8, <2>1, <3>1, <3>2, Constants
  <2>3. CASE k + 1 # n
    <3>1. k + 2 \in 1..n /\ ~(k + 2 > n)
      BY <1>2, <2>3
    <3>2. gone.next[1] = M[k + 2] /\ M[k + 2] # SlHead
      BY <1>2, <1>8, <3>1, AtIs DEF Entry
    <3>3. QED
      BY <1>2, <2>1, <3>1, <3>2 DEF NodesOf
  <2>4. QED
    BY <2>2, <2>3
<1>10. ASSUME NEW p \in DOMAIN s.mem
       PROVE  /\ Renewed(s, t, p)
              /\ t.mem[p].prev = prev(p)
              /\ \A l \in 1..s.mem[p].levelSize :
                   t.mem[p].next[l] = nextOn(p, l) /\ t.mem[p].span[l] = spanOn(p, l)
  <2>1. t.mem[p] = [score |-> s.mem[p].score, prev |-> prev(p),
                    levelSize |-> s.mem[p].levelSize,
                    next |-> [l \in 1..s.mem[p].levelSize |-> nextOn(p, l)],
                    span |-> [l \in 1..s.mem[p].levelSize |-> spanOn(p, l)]]
    BY <1>3 DEF m
  <2>2. QED
    BY <2>1 DEF Renewed
<1>11. DOMAIN t.mem = DOMAIN s.mem /\ t.mem = [p \in DOMAIN s.mem |-> t.mem[p]]
  BY <1>3 DEF m
<1>12. t.tail = IF k + 1 = n THEN gone.prev ELSE s.tail
  <2>1. k + 1 = n => gone.next[1] = Nil
    BY <1>2, <1>8 DEF Entry
  <2>2. k + 1 # n => gone.next[1] # Nil
    <3>1. k + 1 # n => k + 2 \in 1..n
      BY <1>2
    <3>2. QED
      BY <1>9, <3>1
  <2>3. QED
    BY <1>3, <2>1, <2>2
<1>13. t.level = Max({1} \cup {l \in 1..s.level : t.mem[SlHead].next[l] # Nil})
  <2>1. SlHead \in DOMAIN s.mem /\ s.mem[SlHead].levelSize = MaxLevel
    BY TypedIs
  <2>2. \A l \in 1..s.level : l \in 1..MaxLevel
    BY <1>2
  <2>3. \A l \in 1..s.level : t.mem[SlHead].next[l] = nextOn(SlHead, l)
    BY <1>10, <2>1, <2>2
  <2>4. {l \in 1..s.level : t.mem[SlHead].next[l] # Nil}
          = {l \in 1..s.level : nextOn(SlHead, l) # Nil}
    BY <2>3
  <2>5. QED
    BY <1>3, <2>4 DEF level
<1>14. ASSUME NEW i \in 1..n
       PROVE  t.mem[M[i]].prev = IF i = k + 2 THEN gone.prev ELSE s.mem[M[i]].prev
  BY <1>9, <1>10 DEF prev
<1>15. ASSUME NEW i \in 0..n, NEW l \in 1..s.mem[At(M, i)].levelSize
       PROVE  LET r == s.mem[At(M, i)]
              IN /\ t.mem[At(M, i)].next[l] =
                      IF l <= s.level /\ i = u[l] /\ r.next[l] = a THEN s.mem[a].next[l]
                      ELSE r.next[l]
                 /\ t.mem[At(M, i)].span[l] =
                      IF l <= s.level /\ i = u[l]
                      THEN r.span[l] - 1 + IF r.next[l] = a THEN s.mem[a].span[l] ELSE 0
                      ELSE r.span[l]
  <2> DEFINE p == At(M, i)
  <2>1. p \in DOMAIN s.mem
    BY <1>2, AtIs
  <2>2. l \in 1..MaxLevel
    <3>1. s.mem[p] \in AnyNode
      BY <2>1, TypedIs
    <3> DEFINE d == s.mem[p].levelSize
    <3>2. d \in 1..MaxLevel /\ l \in 1..d
      BY <3>1, NodeIs
    <3> HIDE DEF d
    <3>3. QED
      BY <1>2, <3>2
  <2>3. On(l, p) <=> l <= s.level /\ i = u[l]
    BY <1>7, <2>2
  <2>4. t.mem[p].next[l] = nextOn(p, l) /\ t.mem[p].span[l] = spanOn(p, l)
    BY <1>10, <2>1
  <2>5. nextOn(p, l) = IF l <= s.level /\ i = u[l] /\ s.mem[p].next[l] = a
                       THEN s.mem[a].next[l] ELSE s.mem[p].next[l]
    BY <2>3 DEF nextOn
  <2>6. spanOn(p, l) = IF l <= s.level /\ i = u[l]
                       THEN s.mem[p].span[l] - 1 +
                              IF s.mem[p].next[l] = a THEN s.mem[a].span[l] ELSE 0
                       ELSE s.mem[p].span[l]
    BY <2>3 DEF spanOn, Joined
  <2>7. QED
    BY <2>4, <2>5, <2>6
<1>16. ASSUME NEW p \in DOMAIN s.mem, p # SlHead, \A i \in 1..n : M[i] = p => i = k + 1
       PROVE  /\ t.mem[p].prev = s.mem[p].prev
              /\ t.mem[p].next = s.mem[p].next /\ t.mem[p].span = s.mem[p].span
  <2> DEFINE hp == s.mem[p].levelSize
  <2>1. s.mem[p] \in AnyNode
    BY TypedIs
  <2>2. /\ hp \in 1..MaxLevel
        /\ s.mem[p].next \in [1..hp -> Link] /\ s.mem[p].span \in [1..hp -> Nat]
    BY <2>1, NodeIs
  <2>3. \A i \in 0..n : At(M, i) = p => i = k + 1
    BY <1>2, <1>16, AtIs DEF At
  <2>4. gone.next[1] # p
    <3>1. CASE k + 1 = n
      <4>1. gone.next[1] = Nil
        BY <1>2, <1>8, <3>1 DEF Entry
      <4>2. DOMAIN s.mem \subseteq Addr \cup {SlHead}
        BY TypedIs
      <4>3. p # Nil
        BY <4>2, Constants
      <4>4. QED
        BY <4>1, <4>3
    <3>2. CASE k + 1 # n
      <4>1. k + 2 \in 1..n /\ k + 2 # k + 1
        BY <1>2, <3>2
      <4>2. QED
        BY <1>9, <1>16, <4>1
    <3>3. QED
      BY <3>1, <3>2
  <2>5. t.mem[p].prev = s.mem[p].prev
    BY <1>10, <1>16, <2>4 DEF prev
  <2>6. \A l \in 1..hp : ~On(l, p)
    <3> SUFFICES ASSUME NEW l \in 1..hp, On(l, p) PROVE FALSE
      OBVIOUS
    <3>1. l \in 1..MaxLevel
      BY <1>2, <2>2
    <3>2. p = At(M, u[l]) /\ u[l] \in 0..k /\ u[l] \in 0..n
      BY <1>2, <1>5, <3>1 DEF On
    <3>3. u[l] = k + 1
      BY <2>3, <3>2
    <3>4. QED
      BY <1>2, <3>2, <3>3
  <2>7. \A l \in 1..hp : nextOn(p, l) = s.mem[p].next[l] /\ spanOn(p, l) = s.mem[p].span[l]
    BY <2>6 DEF nextOn, spanOn
  <2>8. /\ t.mem[p].next = [l \in 1..hp |-> t.mem[p].next[l]]
        /\ t.mem[p].span = [l \in 1..hp |-> t.mem[p].span[l]]
        /\ \A l \in 1..hp : /\ t.mem[p].next[l] = s.mem[p].next[l]
                            /\ t.mem[p].span[l] = s.mem[p].span[l]
    BY <1>10, <2>7 DEF Renewed
  <2> DEFINE b == t.mem[p].next
             c == t.mem[p].span
             d == s.mem[p].next
             e == s.mem[p].span
  <2> HIDE DEF b, c, d, e, hp
  <2>9. b = [l \in 1..hp |-> d[l]] /\ c = [l \in 1..hp |-> e[l]]
    BY <2>8 DEF b, c, d, e
  <2>10. d = [l \in 1..hp |-> d[l]] /\ e = [l \in 1..hp |-> e[l]]
    BY <2>2 DEF d, e
  <2>11. QED
    BY <2>5, <2>9, <2>10 DEF b, c, d, e
<1>17. t.mem[SlHead].prev = s.mem[SlHead].prev
  <2>1. SlHead \in DOMAIN s.mem
    BY TypedIs
  <2>2. gone.next[1] # SlHead
    BY <1>2, <1>9
  <2>3. QED
    BY <1>10, <2>1, <2>2 DEF prev
<1>18. Removed(s, M, k, a, u, t)
  BY <1>3, <1>10, <1>11, <1>12, <1>13, <1>14, <1>15, <1>16, <1>17 DEF Removed
<1>19. QED
  BY <1>5, <1>6, <1>18 DEF t

(* The list that it leaves: L, without a.                                  *)
LEMMA WithoutIs ==
  ASSUME NEW L \in Seq(Addr), NEW k \in 0..Len(L), NEW a, NEW M, With(L, k, a, M)
  PROVE  /\ Len(L) \in Nat /\ Len(M) = Len(L) + 1 /\ k \in 0 .. Len(M) - 1 /\ k \in Nat
         /\ a = M[k + 1]
         /\ \A i \in 0..k : At(L, i) = At(M, i)
         /\ \A i \in k + 1 .. Len(L) : At(L, i) = At(M, i + 1)
         /\ \A j \in 1..k : Entry(L, j) = Entry(M, j)
         /\ \A j \in k + 2 .. Len(M) + 1 : Entry(L, j - 1) = Entry(M, j)
<1>1. /\ Len(L) \in Nat /\ Len(M) = Len(L) + 1 /\ k \in Nat /\ k <= Len(L) /\ a = M[k + 1]
      /\ k \in 0 .. Len(M) - 1
  BY DEF With
<1>2. /\ \A i \in 0..k : At(M, i) = At(L, i)
      /\ \A i \in k + 2 .. Len(L) + 1 : At(M, i) = At(L, i - 1)
      /\ \A j \in 1..k : Entry(M, j) = Entry(L, j)
      /\ \A j \in k + 1 .. Len(L) + 1 : Entry(M, j + 1) = Entry(L, j)
  BY WithIs
<1>3. ASSUME NEW i \in k + 1 .. Len(L) PROVE At(L, i) = At(M, i + 1)
  <2>1. i + 1 \in k + 2 .. Len(L) + 1 /\ (i + 1) - 1 = i
    BY <1>1
  <2>2. QED
    BY <1>2, <2>1
<1>4. ASSUME NEW j \in k + 2 .. Len(M) + 1 PROVE Entry(L, j - 1) = Entry(M, j)
  <2>1. j - 1 \in k + 1 .. Len(L) + 1 /\ (j - 1) + 1 = j
    BY <1>1
  <2>2. QED
    BY <1>2, <2>1
<1>5. QED
  BY <1>1, <1>2, <1>3, <1>4

(* The level of the list does not grow.                                    *)
LEMMA LevelLeft ==
  ASSUME NEW s, Typed(s), NEW M, NEW k, NEW a, NEW u, NEW t, Removed(s, M, k, a, u, t)
  PROVE  /\ t.level \in 1..MaxLevel /\ t.level <= s.level
         /\ t.level = 1 \/ t.mem[SlHead].next[t.level] # Nil
         /\ \A l \in 1..s.level : t.mem[SlHead].next[l] # Nil => l <= t.level
<1> DEFINE S == {1} \cup {l \in 1..s.level : t.mem[SlHead].next[l] # Nil}
<1>1. s.level \in 1..MaxLevel /\ MaxLevel \in Nat
  BY TypedIs, Constants
<1>2. S \in SUBSET Int /\ S # {} /\ (\A x \in S : x <= s.level) /\ s.level \in Int
  BY <1>1
<1>3. t.level = Max(S)
  BY DEF Removed
<1>4. Max(S) \in S /\ \A x \in S : x <= Max(S)
  <2> HIDE DEF S
  <2>1. QED
    BY <1>2, MaxOf
<1>5. QED
  BY <1>1, <1>2, <1>3, <1>4

LEMMA DeleteLinks ==
  ASSUME NEW s, Typed(s), NEW M, Listing(s, M), NEW L \in Seq(Addr), NEW k \in 0..Len(L),
         NEW a, With(L, k, a, M),
         NEW u \in [1..MaxLevel -> 0..k], \A l \in 1..MaxLevel : LastHigh(s, M, l, k, u[l]),
         NEW t, Removed(s, M, k, a, u, t)
  PROVE  Links(t, L)
<1> DEFINE n == Len(L)
           h == s.mem[a].levelSize
<1>1. /\ n \in Nat /\ Len(M) = n + 1 /\ k \in Nat /\ k <= n
      /\ \A i \in 0..k : At(L, i) = At(M, i)
      /\ \A i \in k + 1 .. n : At(L, i) = At(M, i + 1)
      /\ \A j \in 1..k : Entry(L, j) = Entry(M, j)
      /\ \A j \in k + 2 .. n + 2 : Entry(L, j - 1) = Entry(M, j)
      /\ k + 1 \in 1 .. n + 1 /\ k + 1 \in 0 .. n + 1
  BY WithoutIs
<1>2. /\ NodesOf(s, M) /\ Links(s, M) /\ Levels(s, M) /\ s.size = n + 1
      /\ s.level \in 1..MaxLevel /\ MaxLevel \in Nat
      /\ At(M, k + 1) = a /\ a \in Addr /\ a # Nil
      /\ \A i \in 0 .. n + 1 : At(M, i) = a => i = k + 1
  <2>1. NodesOf(s, M) /\ Links(s, M) /\ Levels(s, M) /\ s.size = n + 1
    BY <1>1 DEF Listing
  <2>2. s.level \in 1..MaxLevel
    BY TypedIs
  <2>3. a = M[k + 1]
    BY WithoutIs
  <2>4. At(M, k + 1) = a /\ a \in Addr /\ \A i \in 0 .. n + 1 : At(M, i) = a => i = k + 1
    BY <1>1, <2>1, <2>3, AtIs
  <2>5. QED
    BY <2>1, <2>2, <2>4, Constants
<1>3. \A i \in 0 .. n + 1 : /\ At(M, i) \in DOMAIN s.mem
                            /\ t.mem[At(M, i)].levelSize = s.mem[At(M, i)].levelSize
                            /\ s.mem[At(M, i)].levelSize \in 1..MaxLevel
                            /\ \A l \in 1..s.mem[At(M, i)].levelSize :
                                 s.mem[At(M, i)].span[l] \in Nat
  <2>1. \A i \in 0 .. n + 1 : At(M, i) \in DOMAIN s.mem
    BY <1>1, <1>2, AtIs
  <2>2. \A i \in 0 .. n + 1 : s.mem[At(M, i)] \in AnyNode
    BY <2>1, TypedIs
  <2>3. \A i \in 0 .. n + 1 : t.mem[At(M, i)].levelSize = s.mem[At(M, i)].levelSize
    BY <2>1 DEF Removed, Renewed
  <2>4. \A i \in 0 .. n + 1 : s.mem[At(M, i)].levelSize \in 1..MaxLevel
    BY <2>2, NodeIs
  <2>5. ASSUME NEW i \in 0 .. n + 1, NEW l \in 1..s.mem[At(M, i)].levelSize
        PROVE  s.mem[At(M, i)].span[l] \in Nat
    BY <2>2, NodeIs
  <2>6. QED
    BY <2>1, <2>3, <2>4, <2>5
<1>4. \A l \in 1..MaxLevel : l \in Int /\ (l <= t.level => l <= s.level)
  <2>1. t.level <= s.level /\ t.level \in 1..MaxLevel
    BY LevelLeft
  <2> DEFINE d == t.level
             e == s.level
  <2>2. d \in Int /\ e \in Int /\ MaxLevel \in Int /\ d <= e
    BY <1>2, <2>1
  <2> HIDE DEF d, e
  <2>3. \A l \in 1..MaxLevel : l \in Int /\ (l <= d => l <= e)
    BY <2>2
  <2>4. QED
    BY <2>3 DEF d, e
<1> SUFFICES ASSUME NEW l \in 1..MaxLevel, NEW i \in 0..n, High(t, L, i, l)
             PROVE  \E j \in 1 .. n + 1 : LinkedTo(t, L, l, i, j)
  BY DEF Links
<1> DEFINE P(q) == High(s, M, q, l)
           Q(q) == High(t, L, q, l)
           o == u[l]
<1>5. /\ \A q \in 0..k : Q(q) <=> P(q)
      /\ \A q \in k + 1 .. n : Q(q) <=> P(q + 1)
      /\ P(k + 1) <=> h >= l
  <2>1. \A q \in 0..k : q \in 0 .. n + 1
    BY <1>1
  <2>2. \A q \in 0..k : Q(q) <=> P(q)
    BY <1>1, <1>3, <2>1 DEF High
  <2>3. P(k + 1) <=> h >= l
    BY <1>2 DEF High
  <2>4. \A q \in k + 1 .. n : q + 1 \in 0 .. n + 1
    BY <1>1
  <2>5. \A q \in k + 1 .. n : Q(q) <=> P(q + 1)
    BY <1>1, <1>3, <2>4 DEF High
  <2>6. QED
    BY <2>2, <2>3, <2>5
<1>6. o \in 0..k /\ P(o) /\ (\A q \in o + 1 .. k : ~P(q)) /\ o \in 0 .. n + 1
  BY <1>1 DEF LastHigh
<1>7. ASSUME NEW q \in 0 .. n + 1, P(q)
      PROVE  \E j \in q + 1 .. n + 2 :
               /\ j <= n + 1 => P(j)
               /\ \A r \in q + 1 .. j - 1 : ~P(r)
               /\ s.mem[At(M, q)].next[l] = Entry(M, j)
               /\ l <= s.level => s.mem[At(M, q)].span[l] = Index(M, j) - q
  <2>1. PICK j \in 1 .. Len(M) + 1 : LinkedTo(s, M, l, q, j)
    BY <1>1, <1>2, <1>7 DEF Links
  <2>2. NextHigh(s, M, l, q, j)
    BY <2>1 DEF LinkedTo
  <2>3. (n + 1) + 1 = n + 2
    BY <1>1
  <2>4. QED
    BY <1>1, <2>1, <2>2, <2>3 DEF LinkedTo, NextHigh
<1>8. \A q \in 0 .. n + 1 : P(q) =>
        /\ t.mem[At(M, q)].next[l] =
             IF l <= s.level /\ q = o /\ s.mem[At(M, q)].next[l] = a THEN s.mem[a].next[l]
             ELSE s.mem[At(M, q)].next[l]
        /\ t.mem[At(M, q)].span[l] =
             IF l <= s.level /\ q = o
             THEN s.mem[At(M, q)].span[l] - 1 +
                    IF s.mem[At(M, q)].next[l] = a THEN s.mem[a].span[l] ELSE 0
             ELSE s.mem[At(M, q)].span[l]
  <2> SUFFICES ASSUME NEW q \in 0 .. n + 1, P(q)
               PROVE  /\ t.mem[At(M, q)].next[l] =
                           IF l <= s.level /\ q = o /\ s.mem[At(M, q)].next[l] = a
                           THEN s.mem[a].next[l] ELSE s.mem[At(M, q)].next[l]
                      /\ t.mem[At(M, q)].span[l] =
                           IF l <= s.level /\ q = o
                           THEN s.mem[At(M, q)].span[l] - 1 +
                                  IF s.mem[At(M, q)].next[l] = a THEN s.mem[a].span[l] ELSE 0
                           ELSE s.mem[At(M, q)].span[l]
    OBVIOUS
  <2>1. l \in 1..s.mem[At(M, q)].levelSize
    BY <1>3 DEF High
  <2>2. q \in 0..Len(M)
    BY <1>1
  <2>3. QED
    BY <2>1, <2>2 DEF Removed
<1>9. PICK w \in o + 1 .. n + 2 :
         /\ w <= n + 1 => P(w)
         /\ \A r \in o + 1 .. w - 1 : ~P(r)
         /\ s.mem[At(M, o)].next[l] = Entry(M, w)
         /\ l <= s.level => s.mem[At(M, o)].span[l] = Index(M, w) - o
  BY <1>6, <1>7
<1>10. w > k
  BY <1>1, <1>6, <1>9
<1>11. ASSUME NEW j \in 1 .. n + 2
       PROVE  Entry(M, j) = a <=> j = k + 1
  <2>1. CASE j = n + 2
    BY <1>1, <1>2, <2>1 DEF Entry
  <2>2. CASE j # n + 2
    <3>1. j \in 1 .. n + 1 /\ j \in 0 .. n + 1 /\ ~(j > Len(M))
      BY <1>1, <2>2
    <3>2. Entry(M, j) = At(M, j)
      BY <3>1 DEF Entry, At
    <3>3. QED
      BY <1>2, <3>1, <3>2
  <2>3. QED
    BY <2>1, <2>2
<1> HIDE DEF P, Q, o, h
<1>12. ASSUME NEW j \in k + 2 .. n + 2
       PROVE  /\ j - 1 \in 1 .. n + 1 /\ Entry(L, j - 1) = Entry(M, j)
              /\ Index(L, j - 1) = Index(M, j) - 1 /\ Index(M, j) \in Int
              /\ (j <= n + 1 => P(j)) => (j - 1 <= n => Q(j - 1))
  <2>1. j - 1 \in 1 .. n + 1 /\ Entry(L, j - 1) = Entry(M, j)
    BY <1>1
  <2>2. Index(L, j - 1) = Index(M, j) - 1 /\ Index(M, j) \in Int
    BY <1>1 DEF Index
  <2>3. j <= n + 1 => j - 1 \in k + 1 .. n /\ (j - 1) + 1 = j
    BY <1>1
  <2>4. j - 1 <= n => j <= n + 1
    BY <1>1
  <2>5. QED
    BY <1>5, <2>1, <2>2, <2>3, <2>4
<1>13. CASE i <= k /\ i # o
  <2>1. P(i) /\ i \in 0 .. n + 1 /\ i < o /\ i \in 0..k
    BY <1>1, <1>5, <1>6, <1>13 DEF Q
  <2>2. PICK j \in i + 1 .. n + 2 :
               /\ j <= n + 1 => P(j)
               /\ \A r \in i + 1 .. j - 1 : ~P(r)
               /\ s.mem[At(M, i)].next[l] = Entry(M, j)
               /\ l <= s.level => s.mem[At(M, i)].span[l] = Index(M, j) - i
    BY <1>7, <2>1
  <2>3. j <= o
    BY <1>1, <1>6, <2>1, <2>2
  <2>4. j \in 1..k /\ j \in 0..k /\ j <= n + 1 /\ j \in i + 1 .. n + 1 /\ j \in 1 .. n + 1
    BY <1>1, <1>6, <2>2, <2>3
  <2>5. ASSUME NEW r \in i + 1 .. j - 1 PROVE ~Q(r)
    <3>1. r \in 0..k
      BY <1>1, <2>1, <2>4
    <3>2. QED
      BY <1>5, <2>2, <3>1
  <2>6. NextHigh(t, L, l, i, j)
    BY <1>5, <2>2, <2>4, <2>5 DEF NextHigh, Q
  <2>7. t.mem[At(L, i)].next[l] = Entry(L, j)
    BY <1>1, <1>8, <1>13, <2>1, <2>2, <2>4
  <2>8. l <= t.level => t.mem[At(L, i)].span[l] = Index(L, j) - i
    <3> SUFFICES ASSUME l <= t.level PROVE t.mem[At(L, i)].span[l] = Index(L, j) - i
      OBVIOUS
    <3>1. l <= s.level
      BY <1>4
    <3>2. Index(L, j) = j /\ Index(M, j) = j
      BY <1>1, <2>4 DEF Index
    <3>3. At(L, i) = At(M, i)
      BY <1>1, <2>1
    <3>4. t.mem[At(M, i)].span[l] = s.mem[At(M, i)].span[l]
      BY <1>8, <1>13, <2>1
    <3>5. QED
      BY <2>2, <3>1, <3>2, <3>3, <3>4
  <2>9. LinkedTo(t, L, l, i, j)
    BY <2>6, <2>7, <2>8 DEF LinkedTo
  <2>10. QED
    BY <2>4, <2>9
<1>14. CASE i = o /\ ~(l <= h)
  <2>1. i \in 0 .. n + 1 /\ i \in 0..k /\ P(i)
    BY <1>1, <1>6, <1>14
  <2>2. ~P(k + 1) /\ w # k + 1 /\ w \in k + 2 .. n + 2
    <3>1. l \in Int /\ h \in Int
      BY <1>1, <1>2, <1>3 DEF h
    <3>2. ~P(k + 1)
      BY <1>5, <1>14, <3>1
    <3>3. w # k + 1
      BY <1>1, <1>9, <3>2
    <3>4. QED
      BY <1>1, <1>6, <1>9, <1>10, <3>2, <3>3
  <2>3. ASSUME NEW r \in i + 1 .. (w - 1) - 1 PROVE ~Q(r)
    <3>1. CASE r <= k
      <4>1. r \in 0..k /\ r \in o + 1 .. k
        BY <1>1, <1>14, <2>1, <3>1
      <4>2. QED
        BY <1>5, <1>6, <4>1
    <3>2. CASE r > k
      <4>1. r \in k + 1 .. n /\ r + 1 \in o + 1 .. w - 1
        BY <1>1, <1>6, <1>9, <1>14, <2>1, <2>2, <3>2
      <4>2. QED
        BY <1>5, <1>9, <4>1
    <3>3. QED
      BY <1>1, <2>1, <3>1, <3>2
  <2>4. NextHigh(t, L, l, i, w - 1)
    <3>1. w - 1 \in i + 1 .. n + 1
      BY <1>1, <2>1, <2>2
    <3>2. w - 1 <= n => Q(w - 1)
      BY <1>9, <1>12, <2>2
    <3>3. QED
      BY <2>3, <3>1, <3>2 DEF NextHigh, Q
  <2>5. s.mem[At(M, i)].next[l] = Entry(M, w) /\ s.mem[At(M, i)].next[l] # a
    <3>1. w \in 1 .. n + 2
      BY <1>1, <2>2
    <3>2. QED
      BY <1>9, <1>11, <1>14, <2>2, <3>1
  <2>6. t.mem[At(L, i)].next[l] = Entry(L, w - 1)
    BY <1>1, <1>8, <1>12, <2>1, <2>2, <2>5
  <2>7. l <= t.level => t.mem[At(L, i)].span[l] = Index(L, w - 1) - i
    <3> SUFFICES ASSUME l <= t.level PROVE t.mem[At(L, i)].span[l] = Index(L, w - 1) - i
      OBVIOUS
    <3>1. l <= s.level
      BY <1>4
    <3>2. t.mem[At(M, i)].span[l] = s.mem[At(M, i)].span[l] - 1 + 0
      BY <1>8, <1>14, <2>1, <2>5, <3>1
    <3>3. s.mem[At(M, i)].span[l] = Index(M, w) - i
      BY <1>9, <1>14, <3>1
    <3>4. At(L, i) = At(M, i)
      BY <1>1, <2>1
    <3>5. Index(L, w - 1) = Index(M, w) - 1 /\ Index(M, w) \in Int
      BY <1>12, <2>2
    <3>6. i \in Int
      BY <1>1, <2>1
    <3>7. QED
      BY <3>2, <3>3, <3>4, <3>5, <3>6
  <2>8. LinkedTo(t, L, l, i, w - 1)
    BY <2>4, <2>6, <2>7 DEF LinkedTo
  <2>9. QED
    BY <1>12, <2>2, <2>8
<1>15. CASE i = o /\ l <= h
  <2>1. i \in 0 .. n + 1 /\ i \in 0..k /\ P(i)
    BY <1>1, <1>6, <1>15
  <2>2. P(k + 1) /\ w = k + 1 /\ l <= s.level
    <3>1. l \in Int /\ h \in Int
      BY <1>1, <1>2, <1>3 DEF h
    <3>2. P(k + 1)
      BY <1>5, <1>15, <3>1
    <3>3. k + 1 \notin o + 1 .. w - 1
      BY <1>9, <3>2
    <3>4. w = k + 1
      BY <1>1, <1>6, <1>9, <1>10, <3>3
    <3>5. h <= s.level
      <4>1. M[k + 1] = a
        BY WithoutIs
      <4>2. QED
        BY <1>1, <1>2, <4>1 DEF Levels, h
    <3>6. s.level \in Int
      BY <1>2
    <3>7. l <= s.level
      BY <1>15, <3>1, <3>5, <3>6
    <3>8. QED
      BY <3>2, <3>4, <3>7
  <2>3. PICK v \in (k + 1) + 1 .. n + 2 :
               /\ v <= n + 1 => P(v)
               /\ \A r \in (k + 1) + 1 .. v - 1 : ~P(r)
               /\ s.mem[At(M, k + 1)].next[l] = Entry(M, v)
               /\ l <= s.level => s.mem[At(M, k + 1)].span[l] = Index(M, v) - (k + 1)
    BY <1>1, <1>7, <2>2
  <2>4. v \in k + 2 .. n + 2 /\ v \in Int
    BY <1>1, <2>3
  <2>5. ASSUME NEW r \in i + 1 .. (v - 1) - 1 PROVE ~Q(r)
    <3>1. CASE r <= k
      <4>1. r \in 0..k /\ r \in o + 1 .. k
        BY <1>1, <1>15, <2>1, <3>1
      <4>2. QED
        BY <1>5, <1>6, <4>1
    <3>2. CASE r > k
      <4>1. r \in k + 1 .. n /\ r + 1 \in (k + 1) + 1 .. v - 1
        BY <1>1, <2>1, <2>4, <3>2
      <4>2. QED
        BY <1>5, <2>3, <4>1
    <3>3. QED
      BY <1>1, <2>1, <3>1, <3>2
  <2>6. NextHigh(t, L, l, i, v - 1)
    <3>1. v - 1 \in i + 1 .. n + 1
      BY <1>1, <2>1, <2>4
    <3>2. v - 1 <= n => Q(v - 1)
      BY <1>12, <2>3, <2>4
    <3>3. QED
      BY <2>5, <3>1, <3>2 DEF NextHigh, Q
  <2>7. s.mem[At(M, i)].next[l] = a
    <3>1. w \in 1 .. n + 2
      BY <1>1, <2>2
    <3>2. QED
      BY <1>9, <1>11, <1>15, <2>2, <3>1
  <2>8. t.mem[At(L, i)].next[l] = Entry(L, v - 1)
    <3>1. t.mem[At(M, i)].next[l] = s.mem[a].next[l]
      BY <1>8, <1>15, <2>1, <2>2, <2>7
    <3>2. s.mem[a].next[l] = Entry(M, v)
      BY <1>2, <2>3
    <3>3. QED
      BY <1>1, <1>12, <2>1, <2>4, <3>1, <3>2
  <2>9. t.mem[At(L, i)].span[l] = Index(L, v - 1) - i
    <3>1. t.mem[At(M, i)].span[l] = s.mem[At(M, i)].span[l] - 1 + s.mem[a].span[l]
      BY <1>8, <1>15, <2>1, <2>2, <2>7
    <3>2. s.mem[At(M, i)].span[l] = (k + 1) - i
      <4>1. Index(M, k + 1) = k + 1
        BY <1>1 DEF Index
      <4>2. QED
        BY <1>9, <1>15, <2>2, <4>1
    <3>3. s.mem[a].span[l] = Index(M, v) - (k + 1)
      BY <1>2, <2>2, <2>3
    <3>4. At(L, i) = At(M, i)
      BY <1>1, <2>1
    <3>5. Index(L, v - 1) = Index(M, v) - 1 /\ Index(M, v) \in Int
      BY <1>12, <2>4
    <3>6. QED
      BY <1>1, <2>1, <3>1, <3>2, <3>3, <3>4, <3>5
  <2>10. LinkedTo(t, L, l, i, v - 1)
    BY <2>6, <2>8, <2>9 DEF LinkedTo
  <2>11. QED
    BY <1>12, <2>4, <2>10
<1>16. CASE i > k
  <2> DEFINE b == i + 1
  <2>1. b \in 0 .. n + 1 /\ b \in 1 .. n + 1 /\ b > k + 1 /\ b # o /\ P(b)
        /\ At(L, i) = At(M, b) /\ i = b - 1 /\ i \in Int
    <3>1. i \in k + 1 .. n
      BY <1>1, <1>16
    <3>2. P(b) /\ At(L, i) = At(M, b)
      BY <1>1, <1>5, <3>1 DEF Q
    <3>3. QED
      BY <1>1, <1>6, <3>1, <3>2
  <2> HIDE DEF b
  <2>2. PICK j \in b + 1 .. n + 2 :
               /\ j <= n + 1 => P(j)
               /\ \A r \in b + 1 .. j - 1 : ~P(r)
               /\ s.mem[At(M, b)].next[l] = Entry(M, j)
               /\ l <= s.level => s.mem[At(M, b)].span[l] = Index(M, j) - b
    BY <1>7, <2>1
  <2>3. j \in k + 2 .. n + 2 /\ j \in Int /\ b \in Int
    BY <1>1, <2>1
  <2>4. ASSUME NEW r \in i + 1 .. (j - 1) - 1 PROVE ~Q(r)
    <3>1. r \in k + 1 .. n /\ r + 1 \in b + 1 .. j - 1
      <4>1. r \in Int /\ r >= b /\ r <= j - 2
        BY <2>1, <2>3
      <4>2. QED
        BY <1>1, <2>1, <2>3, <4>1
    <3>2. QED
      BY <1>5, <2>2, <3>1
  <2>5. NextHigh(t, L, l, i, j - 1)
    <3>1. j - 1 \in i + 1 .. n + 1
      BY <1>1, <2>1, <2>2, <2>3
    <3>2. j - 1 <= n => Q(j - 1)
      BY <1>12, <2>2, <2>3
    <3>3. QED
      BY <2>4, <3>1, <3>2 DEF NextHigh, Q
  <2>6. t.mem[At(L, i)].next[l] = Entry(L, j - 1)
    BY <1>8, <1>12, <2>1, <2>2, <2>3
  <2>7. l <= t.level => t.mem[At(L, i)].span[l] = Index(L, j - 1) - i
    <3> SUFFICES ASSUME l <= t.level PROVE t.mem[At(L, i)].span[l] = Index(L, j - 1) - i
      OBVIOUS
    <3>1. l <= s.level
      BY <1>4
    <3>2. t.mem[At(M, b)].span[l] = s.mem[At(M, b)].span[l]
      BY <1>8, <2>1
    <3>3. Index(L, j - 1) = Index(M, j) - 1 /\ Index(M, j) \in Int
      BY <1>12, <2>3
    <3>4. QED
      BY <2>1, <2>2, <2>3, <3>1, <3>2, <3>3
  <2>8. LinkedTo(t, L, l, i, j - 1)
    BY <2>5, <2>6, <2>7 DEF LinkedTo
  <2>9. QED
    BY <1>12, <2>3, <2>8
<1>17. QED
  BY <1>1, <1>13, <1>14, <1>15, <1>16

LEMMA DeleteLists ==
  ASSUME NEW s, Typed(s), NEW M, Listing(s, M), NEW L \in Seq(Addr), NEW k \in 0..Len(L),
         NEW a, With(L, k, a, M),
         NEW u \in [1..MaxLevel -> 0..k], \A l \in 1..MaxLevel : LastHigh(s, M, l, k, u[l]),
         NEW t, Removed(s, M, k, a, u, t)
  PROVE  Listing(t, L)
<1> DEFINE n == Len(L)
           H(p) == t.mem[p].levelSize
<1>1. /\ n \in Nat /\ Len(M) = n + 1 /\ k \in Nat /\ k <= n /\ k + 1 \in 1 .. n + 1
      /\ \A i \in 1..k : M[i] = L[i]
      /\ M[k + 1] = a
      /\ \A i \in k + 1 .. n : M[i + 1] = L[i]
  BY DEF With
<1>2. /\ NodesOf(s, M) /\ Levels(s, M) /\ BackLinks(s, M) /\ s.size = n + 1
      /\ s.level \in 1..MaxLevel /\ MaxLevel \in Nat /\ 1 \in 1..MaxLevel
  <2>1. NodesOf(s, M) /\ Levels(s, M) /\ BackLinks(s, M) /\ s.size = n + 1
    BY <1>1 DEF Listing
  <2>2. s.level \in 1..MaxLevel
    BY TypedIs
  <2>3. QED
    BY <2>1, <2>2, Constants
<1>3. ASSUME NEW i \in 1..n
      PROVE  \/ i <= k /\ i \in 1 .. n + 1 /\ L[i] = M[i]
             \/ i > k /\ i + 1 \in 1 .. n + 1 /\ L[i] = M[i + 1]
  <2>1. CASE i <= k
    BY <1>1, <2>1
  <2>2. CASE i > k
    <3>1. i \in k + 1 .. n /\ i + 1 \in 1 .. n + 1
      BY <1>1, <2>2
    <3>2. QED
      BY <1>1, <2>2, <3>1
  <2>3. QED
    BY <1>1, <2>1, <2>2
<1>4. /\ DOMAIN t.mem = DOMAIN s.mem
      /\ \A p \in DOMAIN s.mem : t.mem[p].levelSize = s.mem[p].levelSize
      /\ t.size = n
      /\ t.tail = IF k = n THEN s.mem[a].prev ELSE s.tail
      /\ \A i \in 1 .. n + 1 :
           t.mem[M[i]].prev = IF i = k + 2 THEN s.mem[a].prev ELSE s.mem[M[i]].prev
  <2>1. k + 1 = n + 1 <=> k = n
    BY <1>1
  <2>2. s.size - 1 = n
    BY <1>1, <1>2
  <2>3. QED
    BY <1>1, <2>1, <2>2 DEF Removed, Renewed
<1>5. \A i \in 1 .. n + 1 : /\ M[i] \in DOMAIN s.mem
                            /\ s.mem[M[i]].prev = IF i = 1 THEN Nil ELSE M[i - 1]
                            /\ s.mem[M[i]].levelSize <= s.level
                            /\ \A j \in 1 .. n + 1 : M[i] = M[j] => i = j
  BY <1>1, <1>2 DEF NodesOf, Levels, BackLinks
<1>6. NodesOf(t, L)
  <2>1. \A i \in 1..n : L[i] \in DOMAIN t.mem
    BY <1>3, <1>4, <1>5
  <2>2. ASSUME NEW i \in 1..n, NEW j \in 1..n, L[i] = L[j] PROVE i = j
    <3>1. i \in Int /\ j \in Int
      OBVIOUS
    <3>2. /\ \/ i <= k /\ i \in 1 .. n + 1 /\ L[i] = M[i]
             \/ i > k /\ i + 1 \in 1 .. n + 1 /\ L[i] = M[i + 1]
          /\ \/ j <= k /\ j \in 1 .. n + 1 /\ L[j] = M[j]
             \/ j > k /\ j + 1 \in 1 .. n + 1 /\ L[j] = M[j + 1]
      BY <1>3
    <3>3. CASE i <= k /\ i \in 1 .. n + 1 /\ L[i] = M[i]
      BY <1>1, <1>5, <2>2, <3>1, <3>2, <3>3
    <3>4. CASE i > k /\ i + 1 \in 1 .. n + 1 /\ L[i] = M[i + 1]
      BY <1>1, <1>5, <2>2, <3>1, <3>2, <3>4
    <3>5. QED
      BY <3>2, <3>3, <3>4
  <2>3. QED
    BY <1>1, <2>1, <2>2 DEF NodesOf
<1>7. Links(t, L)
  BY DeleteLinks
<1>8. Levels(t, L)
  <2>1. /\ t.level \in 1..MaxLevel
        /\ t.level = 1 \/ t.mem[SlHead].next[t.level] # Nil
        /\ \A l \in 1..s.level : t.mem[SlHead].next[l] # Nil => l <= t.level
    BY LevelLeft
  <2>2. ASSUME NEW i \in 1..n
        PROVE  H(L[i]) \in 1..MaxLevel /\ H(L[i]) \in 1..s.level /\ High(t, L, i, H(L[i]))
    <3>1. L[i] \in DOMAIN s.mem /\ H(L[i]) = s.mem[L[i]].levelSize
      BY <1>3, <1>4, <1>5
    <3>2. s.mem[L[i]] \in AnyNode
      BY <3>1, TypedIs
    <3>3. H(L[i]) \in 1..MaxLevel
      <4>1. s.mem[L[i]].levelSize \in 1..MaxLevel
        BY <3>2, NodeIs
      <4>2. QED
        BY <3>1, <4>1
    <3>4. H(L[i]) <= s.level
      <4>1. PICK j \in 1 .. n + 1 : L[i] = M[j]
        BY <1>3
      <4>2. s.mem[M[j]].levelSize <= s.level
        BY <1>5
      <4>3. QED
        BY <3>1, <4>1, <4>2
    <3>5. At(L, i) = L[i]
      BY <1>1 DEF At
    <3> HIDE DEF H
    <3>6. H(L[i]) \in 1..s.level /\ H(L[i]) >= H(L[i])
      BY <1>2, <3>3, <3>4
    <3>7. QED
      BY <3>3, <3>5, <3>6 DEF High, H
  <2>3. ASSUME NEW l \in 1..MaxLevel
        PROVE  \E j \in 1 .. n + 1 : LinkedTo(t, L, l, 0, j)
    <3>1. 0 \in 0..n /\ At(L, 0) = SlHead
      BY <1>1 DEF At
    <3>2. SlHead \in DOMAIN s.mem /\ s.mem[SlHead].levelSize = MaxLevel
      BY TypedIs
    <3>3. High(t, L, 0, l)
      BY <1>2, <1>4, <3>1, <3>2 DEF High
    <3>4. QED
      BY <1>7, <3>1, <3>3 DEF Links
  <2>4. At(L, 0) = SlHead /\ \A i \in 1..n : At(L, i) = L[i] /\ L[i] # Nil
    <3>1. \A i \in 1..n : At(L, i) = L[i] /\ L[i] \in Addr
      BY <1>1 DEF At
    <3>2. QED
      BY <3>1, Constants DEF At
  <2>5. ASSUME NEW i \in 1..n PROVE H(L[i]) <= t.level
    <3> DEFINE l == H(L[i])
    <3>1. l \in 1..MaxLevel /\ l \in 1..s.level /\ High(t, L, i, l)
      BY <2>2
    <3> HIDE DEF l, H
    <3>2. PICK j \in 1 .. n + 1 : LinkedTo(t, L, l, 0, j)
      BY <2>3, <3>1
    <3>3. \A r \in 0 + 1 .. j - 1 : ~High(t, L, r, l)
      BY <3>2 DEF LinkedTo, NextHigh
    <3>4. j <= i
      <4>1. j > i => i \in 0 + 1 .. j - 1
        BY <1>1
      <4>2. ~(j > i)
        BY <3>1, <3>3, <4>1
      <4>3. QED
        BY <1>1, <4>2
    <3>5. j \in 1..n /\ ~(j > n)
      BY <1>1, <3>4
    <3>6. t.mem[SlHead].next[l] = L[j] /\ L[j] # Nil
      BY <2>4, <3>2, <3>5 DEF LinkedTo, Entry
    <3>7. QED
      BY <2>1, <3>1, <3>6 DEF l
  <2>6. t.level = 1 \/ \E i \in 1..n : H(L[i]) = t.level
    <3> SUFFICES ASSUME t.level # 1 PROVE \E i \in 1..n : H(L[i]) = t.level
      OBVIOUS
    <3>1. t.mem[SlHead].next[t.level] # Nil
      BY <2>1
    <3>2. PICK j \in 1 .. n + 1 : LinkedTo(t, L, t.level, 0, j)
      BY <2>1, <2>3
    <3>3. j <= n
      <4>1. t.mem[SlHead].next[t.level] = Entry(L, j)
        BY <2>4, <3>2 DEF LinkedTo
      <4>2. ~(j > n)
        BY <3>1, <4>1 DEF Entry
      <4>3. QED
        BY <1>1, <4>2
    <3>4. j \in 1..n /\ High(t, L, j, t.level)
      BY <1>1, <3>2, <3>3 DEF LinkedTo, NextHigh
    <3>5. H(L[j]) >= t.level
      BY <2>4, <3>4 DEF High
    <3>6. H(L[j]) <= t.level /\ H(L[j]) \in 1..MaxLevel
      BY <2>2, <2>5, <3>4
    <3> DEFINE x == H(L[j])
               y == t.level
    <3>7. x \in Int /\ y \in Int /\ x <= y /\ x >= y
      BY <2>1, <3>5, <3>6
    <3> HIDE DEF x, y
    <3>8. x = y
      BY <3>7
    <3>9. QED
      BY <3>4, <3>8 DEF x, y
  <2>7. QED
    BY <2>5, <2>6 DEF Levels
<1>9. BackLinks(t, L)
  <2>1. s.mem[a].prev = IF k = 0 THEN Nil ELSE L[k]
    <3>1. s.mem[a].prev = IF k + 1 = 1 THEN Nil ELSE M[(k + 1) - 1]
      BY <1>1, <1>5
    <3>2. k # 0 => k \in 1..k /\ (k + 1) - 1 = k /\ k + 1 # 1
      BY <1>1
    <3>3. QED
      BY <1>1, <3>1, <3>2
  <2>2. ASSUME NEW i \in 1..n
        PROVE  t.mem[L[i]].prev = IF i = 1 THEN Nil ELSE L[i - 1]
    <3>1. CASE i <= k
      <4>1. i \in 1 .. n + 1 /\ L[i] = M[i] /\ i # k + 2 /\ (i # 1 => i - 1 \in 1..k)
        BY <1>1, <3>1
      <4>2. t.mem[L[i]].prev = s.mem[M[i]].prev
        BY <1>4, <4>1
      <4>3. QED
        BY <1>1, <1>5, <4>1, <4>2
    <3>2. CASE i = k + 1
      <4>1. i + 1 = k + 2 /\ i + 1 \in 1 .. n + 1 /\ L[i] = M[i + 1]
        BY <1>1, <3>2
      <4>2. t.mem[L[i]].prev = s.mem[a].prev
        BY <1>4, <4>1
      <4>3. i = 1 <=> k = 0
        BY <1>1, <3>2
      <4>4. i - 1 = k
        BY <1>1, <3>2
      <4>5. QED
        BY <2>1, <4>2, <4>3, <4>4
    <3>3. CASE i > k + 1
      <4>1. i \in k + 1 .. n /\ i + 1 # k + 2 /\ i + 1 \in 1 .. n + 1 /\ L[i] = M[i + 1] /\ i # 1
            /\ i + 1 # 1 /\ (i + 1) - 1 = i /\ i - 1 \in k + 1 .. n /\ (i - 1) + 1 = i
        BY <1>1, <3>3
      <4>2. t.mem[L[i]].prev = s.mem[M[i + 1]].prev
        BY <1>4, <4>1
      <4>3. s.mem[M[i + 1]].prev = M[i]
        BY <1>5, <4>1
      <4>4. M[i] = L[i - 1]
        BY <1>1, <4>1
      <4>5. QED
        BY <4>1, <4>2, <4>3, <4>4
    <3>4. QED
      BY <1>1, <3>1, <3>2, <3>3
  <2>3. t.tail = IF n = 0 THEN Nil ELSE L[n]
    <3>1. CASE k = n
      BY <1>4, <2>1, <3>1
    <3>2. CASE k # n
      <4>1. n \in k + 1 .. n /\ n # 0 /\ n + 1 # 0
        BY <1>1, <3>2
      <4>2. s.tail = M[n + 1]
        BY <1>1, <1>2, <4>1 DEF BackLinks
      <4>3. QED
        BY <1>1, <1>4, <3>2, <4>1, <4>2
    <3>3. QED
      BY <3>1, <3>2
  <2>4. QED
    BY <2>2, <2>3 DEF BackLinks
<1>10. QED
  BY <1>4, <1>6, <1>7, <1>8, <1>9 DEF Listing

LEMMA DeleteTyped ==
  ASSUME NEW s, Typed(s), NEW M, Listing(s, M), NEW L \in Seq(Addr), NEW k \in 0..Len(L),
         NEW a, With(L, k, a, M),
         NEW u \in [1..MaxLevel -> 0..k], \A l \in 1..MaxLevel : LastHigh(s, M, l, k, u[l]),
         NEW t, Removed(s, M, k, a, u, t)
  PROVE  Typed(t)
<1> DEFINE n == Len(M)
           D == DOMAIN s.mem
           h == s.mem[a].levelSize
<1>1. /\ n \in Nat /\ k \in 0 .. n - 1 /\ k \in Nat /\ a = M[k + 1]
      /\ k + 1 \in 1..n
  BY WithoutIs
<1>2. /\ NodesOf(s, M) /\ s.size = n /\ Levels(s, M)
      /\ s.level \in 1..MaxLevel /\ MaxLevel \in Nat
      /\ SlHead \in D /\ D \subseteq Addr \cup {SlHead}
      /\ \A p \in D : s.mem[p] \in AnyNode
      /\ s.mem[SlHead].levelSize = MaxLevel /\ s.mem[SlHead].score = 0
      /\ s.tail \in Link
      /\ s.node_map \in [Value -> Link] /\ s.value_map \in [Addr -> Value \cup {Nil}]
  <2>1. NodesOf(s, M) /\ s.size = n /\ Levels(s, M)
    BY DEF Listing
  <2>2. QED
    BY <2>1, TypedIs, Constants
<1>3. /\ t = [mem |-> t.mem, level |-> t.level, size |-> t.size, tail |-> t.tail,
              node_map |-> s.node_map, value_map |-> s.value_map]
      /\ DOMAIN t.mem = D /\ t.mem = [p \in D |-> t.mem[p]]
      /\ \A p \in D : Renewed(s, t, p)
      /\ t.size = s.size - 1
      /\ t.tail = IF k + 1 = n THEN s.mem[a].prev ELSE s.tail
  BY DEF Removed
<1>16. \A i \in 0..n : \A l \in 1..s.mem[At(M, i)].levelSize :
         /\ t.mem[At(M, i)].next[l] =
              IF l <= s.level /\ i = u[l] /\ s.mem[At(M, i)].next[l] = a THEN s.mem[a].next[l]
              ELSE s.mem[At(M, i)].next[l]
         /\ t.mem[At(M, i)].span[l] =
              IF l <= s.level /\ i = u[l]
              THEN s.mem[At(M, i)].span[l] - 1 +
                     IF s.mem[At(M, i)].next[l] = a THEN s.mem[a].span[l] ELSE 0
              ELSE s.mem[At(M, i)].span[l]
  BY DEF Removed
<1>4. Listing(t, L) /\ NodesOf(t, L) /\ Links(t, L)
  <2>1. Listing(t, L)
    BY DeleteLists
  <2>2. QED
    BY <2>1 DEF Listing
<1>5. ASSUME NEW p \in D
      PROVE  /\ s.mem[p].prev \in Link
             /\ s.mem[p].levelSize \in 1..MaxLevel
             /\ \A l \in 1..s.mem[p].levelSize :
                  s.mem[p].next[l] \in Link /\ s.mem[p].span[l] \in Nat
  <2>1. s.mem[p] \in AnyNode
    BY <1>2
  <2>2. s.mem[p].prev \in Link /\ s.mem[p].levelSize \in 1..MaxLevel
        /\ s.mem[p].next \in [1..s.mem[p].levelSize -> Link]
        /\ s.mem[p].span \in [1..s.mem[p].levelSize -> Nat]
    BY <2>1, NodeIs
  <2>3. QED
    BY <2>2
<1>6. a \in D /\ a \in Addr /\ At(M, k + 1) = a
  BY <1>1, <1>2, AtIs
<1>7. ASSUME NEW p \in D
      PROVE  /\ t.mem[p].prev \in Link
             /\ \A l \in 1..s.mem[p].levelSize : t.mem[p].next[l] \in Link /\ t.mem[p].span[l] \in Nat
  <2>1. CASE p # SlHead /\ \A i \in 1..n : M[i] = p => i = k + 1
    <3>1. t.mem[p].prev = s.mem[p].prev
          /\ t.mem[p].next = s.mem[p].next /\ t.mem[p].span = s.mem[p].span
      BY <2>1 DEF Removed
    <3>2. QED
      BY <1>5, <3>1
  <2>2. CASE \E i \in 0..n : i # k + 1 /\ p = At(M, i)
    <3>1. PICK i \in 0..n : i # k + 1 /\ p = At(M, i)
      BY <2>2
    <3>2. t.mem[p].prev \in Link
      <4>1. CASE i = 0
        <5>1. p = SlHead
          BY <3>1, <4>1 DEF At
        <5>2. t.mem[p].prev = s.mem[p].prev
          BY <5>1 DEF Removed
        <5>3. QED
          BY <1>5, <5>2
      <4>2. CASE i # 0
        <5>1. i \in 1..n /\ p = M[i]
          BY <1>1, <3>1, <4>2 DEF At
        <5>2. t.mem[p].prev = IF i = k + 2 THEN s.mem[a].prev ELSE s.mem[p].prev
          BY <5>1 DEF Removed
        <5>3. QED
          BY <1>5, <1>6, <5>2
      <4>3. QED
        BY <4>1, <4>2
    <3>3. ASSUME NEW l \in 1..s.mem[p].levelSize
          PROVE  t.mem[p].next[l] \in Link /\ t.mem[p].span[l] \in Nat
      <4> DEFINE x == s.mem[p].next[l]
                 y == s.mem[p].span[l]
      <4>1. l \in 1..MaxLevel /\ x \in Link /\ y \in Nat
        BY <1>2, <1>5
      <4>2. /\ t.mem[p].next[l] = IF l <= s.level /\ i = u[l] /\ x = a THEN s.mem[a].next[l] ELSE x
            /\ t.mem[p].span[l] =
                 IF l <= s.level /\ i = u[l]
                 THEN y - 1 + IF x = a THEN s.mem[a].span[l] ELSE 0
                 ELSE y
        <5>1. s.mem[p].next[l] = x /\ s.mem[p].span[l] = y
          OBVIOUS
        <5> HIDE DEF x, y
        <5>2. /\ t.mem[p].next[l] =
                   IF l <= s.level /\ i = u[l] /\ s.mem[p].next[l] = a THEN s.mem[a].next[l]
                   ELSE s.mem[p].next[l]
              /\ t.mem[p].span[l] =
                   IF l <= s.level /\ i = u[l]
                   THEN s.mem[p].span[l] - 1 +
                          IF s.mem[p].next[l] = a THEN s.mem[a].span[l] ELSE 0
                   ELSE s.mem[p].span[l]
          BY <1>16, <3>1
        <5>3. QED
          BY <5>1, <5>2
      <4>3. High(s, M, i, l)
        <5> DEFINE d == s.mem[p].levelSize
        <5>1. d \in 1..MaxLevel /\ l \in 1..d
          BY <1>5
        <5> HIDE DEF d
        <5>2. d >= l
          BY <1>2, <5>1
        <5>3. QED
          BY <3>1, <5>2 DEF d, High
      <4>4. PICK j \in 1 .. n + 1 : LinkedTo(s, M, l, i, j)
        BY <4>1, <4>3 DEF Listing, Links
      <4>5. x = Entry(M, j) /\ j \in i + 1 .. n + 1
            /\ (l <= s.level => y = Index(M, j) - i) /\ (j <= n => High(s, M, j, l))
        BY <3>1, <4>4 DEF LinkedTo, NextHigh
      <4>6. CASE x = a
        <5>1. j = k + 1
          <6>1. j <= n
            <7>1. ~(j > n)
              BY <1>6, <4>5, <4>6, Constants DEF Entry
            <7>2. QED
              BY <1>1, <7>1
          <6>2. j \in 0..n /\ k + 1 \in 0..n /\ At(M, j) = a
            <7>1. j \in 0..n /\ k + 1 \in 0..n /\ ~(j > n) /\ j # 0
              BY <1>1, <6>1
            <7>2. QED
              BY <4>5, <4>6, <7>1 DEF Entry, At
          <6>3. QED
            BY <1>2, <1>6, <6>2, AtIs
        <5>2. h >= l
          <6>1. j <= n
            BY <1>1, <5>1
          <6>2. QED
            BY <1>6, <4>5, <5>1, <6>1 DEF High
        <5>3. l \in 1..h
          <6>1. h \in 1..MaxLevel
            BY <1>5, <1>6
          <6> HIDE DEF h
          <6>2. QED
            BY <1>2, <4>1, <5>2, <6>1
        <5>4. s.mem[a].next[l] \in Link /\ s.mem[a].span[l] \in Nat
          BY <1>5, <1>6, <5>3
        <5> DEFINE z == s.mem[a].span[l]
        <5>5. l <= s.level => y >= 1
          BY <1>1, <4>5, <5>1 DEF Index
        <5> HIDE DEF x, y, z
        <5>6. t.mem[p].span[l] \in Nat
          <6>1. z \in Nat
            BY <5>4 DEF z
          <6>2. t.mem[p].span[l] = IF l <= s.level /\ i = u[l] THEN y - 1 + z ELSE y
            BY <4>2, <4>6 DEF z
          <6>3. QED
            BY <4>1, <5>5, <6>1, <6>2
        <5>7. QED
          BY <4>1, <4>2, <5>4, <5>6
      <4>7. CASE x # a
        <5>1. l <= s.level /\ i = u[l] => y >= 1
          <6> SUFFICES ASSUME l <= s.level, i = u[l] PROVE y >= 1
            OBVIOUS
          <6>1. j # i
            BY <1>1, <4>5
          <6>2. i <= k
            BY <1>1, <4>1
          <6>3. Index(M, j) >= i + 1
            BY <1>1, <4>5, <6>2 DEF Index
          <6>4. Index(M, j) \in Int
            BY <1>1 DEF Index
          <6>5. y = Index(M, j) - i
            BY <4>5
          <6>6. i \in Int
            BY <1>1
          <6> DEFINE d == Index(M, j)
          <6>7. d \in Int /\ d >= i + 1 /\ y = d - i
            BY <6>3, <6>4, <6>5
          <6> HIDE DEF d
          <6>8. d - i >= 1
            BY <6>6, <6>7
          <6>9. QED
            BY <6>7, <6>8
        <5> HIDE DEF x, y
        <5>2. t.mem[p].next[l] = x
          BY <4>2, <4>7
        <5>3. t.mem[p].span[l] = IF l <= s.level /\ i = u[l] THEN y - 1 ELSE y
          BY <4>1, <4>2, <4>7
        <5>4. QED
          BY <4>1, <5>1, <5>2, <5>3
      <4>8. QED
        BY <4>6, <4>7
    <3>4. QED
      BY <3>2, <3>3
  <2>3. QED
    <3>1. p = SlHead => p = At(M, 0) /\ 0 \in 0..n /\ 0 # k + 1
      BY <1>1 DEF At
    <3>2. \A i \in 1..n : i \in 0..n /\ M[i] = At(M, i)
      BY <1>1 DEF At
    <3>3. QED
      BY <2>1, <2>2, <3>1, <3>2
<1>8. ASSUME NEW p \in D PROVE t.mem[p] \in AnyNode
  <2> DEFINE r == t.mem[p]
             hp == s.mem[p].levelSize
  <2>1. Renewed(s, t, p) /\ s.mem[p] \in AnyNode
    BY <1>2, <1>3
  <2>2. hp \in 1..MaxLevel /\ s.mem[p].score \in Score \cup {0}
    BY <2>1, NodeIs
  <2>3. /\ r = [score |-> r.score, prev |-> r.prev, levelSize |-> hp,
                next |-> r.next, span |-> r.span]
        /\ r.score = s.mem[p].score
        /\ r.next = [l \in 1..hp |-> r.next[l]] /\ r.span = [l \in 1..hp |-> r.span[l]]
    BY <2>1 DEF Renewed
  <2>4. r.prev \in Link /\ \A l \in 1..hp : r.next[l] \in Link /\ r.span[l] \in Nat
    BY <1>7
  <2> HIDE DEF r, hp
  <2>5. r.next \in [1..hp -> Link] /\ r.span \in [1..hp -> Nat]
    BY <2>3, <2>4
  <2>6. r.score \in Score \cup {0}
    BY <2>2, <2>3
  <2> DEFINE x == r.score
             y == r.prev
             z == r.next
             w == r.span
  <2>7. /\ x \in Score \cup {0} /\ y \in Link /\ z \in [1..hp -> Link] /\ w \in [1..hp -> Nat]
        /\ r = [score |-> x, prev |-> y, levelSize |-> hp, next |-> z, span |-> w]
    BY <2>3, <2>4, <2>5, <2>6
  <2> HIDE DEF x, y, z, w
  <2>8. r \in AnyNode
    BY <2>2, <2>7, NodeMake
  <2>9. QED
    BY <2>8 DEF r
<1>9. t.mem \in [D -> AnyNode]
  <2> DEFINE m == t.mem
  <2>1. m = [p \in D |-> m[p]]
    BY <1>3
  <2>2. \A p \in D : m[p] \in AnyNode
    BY <1>8
  <2> HIDE DEF m, D
  <2>3. m \in [D -> AnyNode]
    BY <2>1, <2>2
  <2>4. QED
    BY <2>3 DEF m
<1>10. t.mem[SlHead].levelSize = MaxLevel /\ t.mem[SlHead].score = 0
  BY <1>2, <1>3 DEF Renewed
<1>11. t.level \in 1..MaxLevel /\ t.size \in Nat /\ t.tail \in Link
  <2>1. t.level \in 1..MaxLevel
    BY LevelLeft
  <2>2. t.size \in Nat
    BY <1>1, <1>2, <1>3
  <2>3. t.tail \in Link
    BY <1>2, <1>3, <1>5, <1>6
  <2>4. QED
    BY <2>1, <2>2, <2>3
<1>12. t.node_map = s.node_map /\ t.value_map = s.value_map
  BY <1>3
<1>13. D \in SUBSET (Addr \cup {SlHead}) /\ SlHead \in D
  BY <1>2
<1> HIDE DEF D
<1>14. t = [mem |-> t.mem, level |-> t.level, size |-> t.size, tail |-> t.tail,
            node_map |-> t.node_map, value_map |-> t.value_map]
  BY <1>3, <1>12
<1>15. QED
  BY <1>2, <1>9, <1>10, <1>11, <1>12, <1>13, <1>14, TypedMake

-----------------------------------------------------------------------------
(* The order of nodes. o is how they are compared.                         *)
Key(o, s, a) == IF o = "desc" THEN 0 - s.mem[a].score ELSE s.mem[a].score
Tie(o, s, a) == IF o = "lua" THEN s.value_map[a] ELSE a
Lower(x, p, y, q) == x < y \/ (x = y /\ p < q)
Earlier(o, s, a, b) == Lower(Key(o, s, a), Tie(o, s, a), Key(o, s, b), Tie(o, s, b))

Rising(o, s, L) == \A i, j \in 1..Len(L) : i < j => Earlier(o, s, L[i], L[j])

Held(s) == DOMAIN s.mem \ {SlHead}
Tables(s) ==
  /\ \A v \in Value, a \in Addr : s.node_map[v] = a <=> s.value_map[a] = v
  /\ Held(s) = {a \in Addr : s.value_map[a] # Nil}

Orders == {"asc", "desc", "lua"}

LEMMA HeldIs ==
  ASSUME NEW s, Typed(s), Tables(s), NEW a \in Held(s)
  PROVE  /\ a \in Addr /\ a \in DOMAIN s.mem /\ a # SlHead /\ a \in Int /\ a # Nil
         /\ s.mem[a] \in AnyNode /\ s.mem[a].score \in Int
         /\ s.value_map[a] \in Value /\ s.value_map[a] \in Int
         /\ s.node_map[s.value_map[a]] = a
<1>1. a \in Addr /\ a \in DOMAIN s.mem /\ a # SlHead /\ s.value_map[a] # Nil
  BY DEF Tables, Held
<1>2. s.mem[a] \in AnyNode /\ s.value_map \in [Addr -> Value \cup {Nil}]
  BY <1>1, TypedIs
<1>3. s.mem[a].score \in Int
  BY <1>2, NodeIs
<1>4. s.value_map[a] \in Value
  BY <1>1, <1>2
<1>5. s.node_map[s.value_map[a]] = a
  BY <1>1, <1>4 DEF Tables
<1>6. /\ \A b \in Addr : b \in Int /\ b # Nil
      /\ \A v \in Value : v \in Int
  BY Constants
<1>7. QED
  BY <1>1, <1>2, <1>3, <1>4, <1>5, <1>6

LEMMA TieIs ==
  ASSUME NEW o \in Orders, NEW s, Typed(s), Tables(s), NEW a \in Held(s)
  PROVE  /\ Key(o, s, a) \in Int /\ Tie(o, s, a) \in Int
         /\ \A b \in Held(s) : Tie(o, s, a) = Tie(o, s, b) => a = b
<1>1. Key(o, s, a) \in Int
  <2>1. s.mem[a].score \in Int
    BY HeldIs
  <2>2. QED
    BY <2>1 DEF Key
<1>2. Tie(o, s, a) \in Int
  BY HeldIs DEF Tie
<1>3. ASSUME NEW b \in Held(s), Tie(o, s, a) = Tie(o, s, b) PROVE a = b
  <2>1. s.node_map[s.value_map[a]] = a /\ s.node_map[s.value_map[b]] = b
    BY HeldIs
  <2>2. QED
    BY <1>3, <2>1 DEF Tie
<1>4. QED
  BY <1>1, <1>2, <1>3

LEMMA SignIs ==
  ASSUME NEW x \in Int, NEW y \in Int
  PROVE  /\ Sign(x - y) \in {-1, 0, 1} /\ Sign(-(x - y)) \in {-1, 0, 1}
         /\ Sign(x - y) < 0 <=> x < y
         /\ Sign(x - y) = 0 <=> x = y
         /\ Sign(-(x - y)) < 0 <=> 0 - x < 0 - y
         /\ Sign(-(x - y)) = 0 <=> x = y
         /\ x - y = 0 <=> x = y
         /\ 0 - x = 0 - y <=> x = y
<1>1. x - y = 0 <=> x = y
  OBVIOUS
<1>2. 0 - x = 0 - y <=> x = y
  OBVIOUS
<1>3. /\ Sign(x - y) \in {-1, 0, 1}
      /\ Sign(x - y) < 0 <=> x < y
      /\ Sign(x - y) = 0 <=> x = y
  BY DEF Sign
<1>4. /\ Sign(-(x - y)) \in {-1, 0, 1}
      /\ Sign(-(x - y)) < 0 <=> 0 - x < 0 - y
      /\ Sign(-(x - y)) = 0 <=> x = y
  BY DEF Sign
<1>5. QED
  BY <1>1, <1>2, <1>3, <1>4

(* Comp tells which of two nodes comes first.                              *)
LEMMA CompIs ==
  ASSUME order \in Orders, NEW s, Typed(s), Tables(s), NEW a \in Held(s), NEW b \in Held(s)
  PROVE  /\ Comp(s, a, b) \in {-1, 0, 1}
         /\ Comp(s, a, b) < 0 <=> Earlier(order, s, a, b)
         /\ Comp(s, a, b) = 0 <=> a = b
<1> DEFINE x == s.mem[a].score
           y == s.mem[b].score
           p == s.value_map[a]
           q == s.value_map[b]
<1>1. /\ x \in Int /\ y \in Int /\ p \in Int /\ q \in Int /\ a \in Int /\ b \in Int
      /\ a # SlHead /\ b # SlHead
      /\ s.node_map[p] = a /\ s.node_map[q] = b
  BY HeldIs
<1>2. p = q => a = b
  BY <1>1
<1>3. /\ Comp(s, a, b) = IF order = "lua" THEN CompInLua(s, a, b) ELSE CompByScore(s, a, b)
      /\ CompInLua(s, a, b) = IF a = b \/ (x - y = 0 /\ SlHead \in {a, b}) THEN 0
                              ELSE IF x - y = 0 THEN Sign(p - q) ELSE Sign(x - y)
      /\ CompByScore(s, a, b) = IF x - y = 0 THEN Sign(a - b)
                                ELSE IF order = "desc" THEN Sign(-(x - y)) ELSE Sign(x - y)
  BY DEF Comp, CompInLua, CompByScore
<1>4. /\ Key(order, s, a) = IF order = "desc" THEN 0 - x ELSE x
      /\ Key(order, s, b) = IF order = "desc" THEN 0 - y ELSE y
      /\ Tie(order, s, a) = IF order = "lua" THEN p ELSE a
      /\ Tie(order, s, b) = IF order = "lua" THEN q ELSE b
  BY DEF Key, Tie
<1>5. a = b => x = y /\ p = q
  OBVIOUS
<1> HIDE DEF x, y, p, q
<1>6. /\ Earlier(order, s, a, b) <=>
           IF order = "lua" THEN Lower(x, p, y, q)
           ELSE IF order = "desc" THEN Lower(0 - x, a, 0 - y, b) ELSE Lower(x, a, y, b)
      /\ order = "lua" => order # "desc"
  BY <1>4 DEF Earlier
<1>7. SlHead \notin {a, b}
  BY <1>1
<1>8. CASE order = "lua"
  <2>1. Comp(s, a, b) = IF a = b THEN 0 ELSE IF x - y = 0 THEN Sign(p - q) ELSE Sign(x - y)
    BY <1>3, <1>7, <1>8
  <2>2. Earlier(order, s, a, b) <=> Lower(x, p, y, q)
    BY <1>6, <1>8
  <2>3. CASE a = b
    BY <1>1, <1>5, <2>1, <2>2, <2>3 DEF Lower
  <2>4. CASE a # b /\ x = y
    <3>1. Comp(s, a, b) = Sign(p - q)
      BY <1>1, <2>1, <2>4, SignIs
    <3>2. Lower(x, p, y, q) <=> p < q
      BY <1>1, <2>4 DEF Lower
    <3>3. p # q
      BY <1>2, <2>4
    <3>4. QED
      BY <1>1, <2>2, <2>4, <3>1, <3>2, <3>3, SignIs
  <2>5. CASE a # b /\ x # y
    <3>1. Comp(s, a, b) = Sign(x - y)
      BY <1>1, <2>1, <2>5, SignIs
    <3>2. Lower(x, p, y, q) <=> x < y
      BY <1>1, <2>5 DEF Lower
    <3>3. QED
      BY <1>1, <2>2, <2>5, <3>1, <3>2, SignIs
  <2>6. QED
    BY <2>3, <2>4, <2>5
<1>9. CASE order = "desc"
  <2>1. Comp(s, a, b) = IF x - y = 0 THEN Sign(a - b) ELSE Sign(-(x - y))
    BY <1>3, <1>9
  <2>2. Earlier(order, s, a, b) <=> Lower(0 - x, a, 0 - y, b)
    BY <1>6, <1>9
  <2>3. CASE x = y
    <3>1. Comp(s, a, b) = Sign(a - b)
      BY <1>1, <2>1, <2>3, SignIs
    <3>2. Lower(0 - x, a, 0 - y, b) <=> a < b
      BY <1>1, <2>3 DEF Lower
    <3>3. QED
      BY <1>1, <2>2, <3>1, <3>2, SignIs
  <2>4. CASE x # y
    <3>1. Comp(s, a, b) = Sign(-(x - y))
      BY <1>1, <2>1, <2>4, SignIs
    <3>2. Lower(0 - x, a, 0 - y, b) <=> 0 - x < 0 - y
      BY <1>1, <2>4, SignIs DEF Lower
    <3>3. QED
      BY <1>1, <1>5, <2>2, <2>4, <3>1, <3>2, SignIs
  <2>5. QED
    BY <2>3, <2>4
<1>10. CASE order = "asc"
  <2>1. Comp(s, a, b) = IF x - y = 0 THEN Sign(a - b) ELSE Sign(x - y)
    BY <1>3, <1>10
  <2>2. Earlier(order, s, a, b) <=> Lower(x, a, y, b)
    BY <1>6, <1>10
  <2>3. CASE x = y
    <3>1. Comp(s, a, b) = Sign(a - b)
      BY <1>1, <2>1, <2>3, SignIs
    <3>2. Lower(x, a, y, b) <=> a < b
      BY <1>1, <2>3 DEF Lower
    <3>3. QED
      BY <1>1, <2>2, <3>1, <3>2, SignIs
  <2>4. CASE x # y
    <3>1. Comp(s, a, b) = Sign(x - y)
      BY <1>1, <2>1, <2>4, SignIs
    <3>2. Lower(x, a, y, b) <=> x < y
      BY <1>1, <2>4 DEF Lower
    <3>3. QED
      BY <1>1, <1>5, <2>2, <2>4, <3>1, <3>2, SignIs
  <2>5. QED
    BY <2>3, <2>4
<1>11. QED
  BY <1>8, <1>9, <1>10 DEF Orders

(* It is a strict order, and a total one.                                  *)
LEMMA EarlierOrders ==
  ASSUME NEW o \in Orders, NEW s, Typed(s), Tables(s),
         NEW a \in Held(s), NEW b \in Held(s)
  PROVE  /\ ~Earlier(o, s, a, a)
         /\ a # b => Earlier(o, s, a, b) \/ Earlier(o, s, b, a)
         /\ ~(Earlier(o, s, a, b) /\ Earlier(o, s, b, a))
         /\ \A c \in Held(s) :
              Earlier(o, s, a, b) /\ Earlier(o, s, b, c) => Earlier(o, s, a, c)
<1> DEFINE K(c) == Key(o, s, c)
           T(c) == Tie(o, s, c)
<1>1. \A c \in Held(s) : K(c) \in Int /\ T(c) \in Int
  BY TieIs
<1>2. T(a) = T(b) => a = b
  BY TieIs
<1>3. \A c, d : Earlier(o, s, c, d) <=> Lower(K(c), T(c), K(d), T(d))
  BY DEF Earlier
<1> HIDE DEF K, T
<1>4. ~Earlier(o, s, a, a)
  BY <1>1, <1>3 DEF Lower
<1>5. a # b => Earlier(o, s, a, b) \/ Earlier(o, s, b, a)
  BY <1>1, <1>2, <1>3 DEF Lower
<1>6. ~(Earlier(o, s, a, b) /\ Earlier(o, s, b, a))
  BY <1>1, <1>3 DEF Lower
<1>7. \A c \in Held(s) : Earlier(o, s, a, b) /\ Earlier(o, s, b, c) => Earlier(o, s, a, c)
  BY <1>1, <1>3 DEF Lower
<1>8. QED
  BY <1>4, <1>5, <1>6, <1>7

-----------------------------------------------------------------------------
(* A sound list: its nodes are those of L, in order, and the tables agree  *)
(* with what is allocated.                                                 *)
Core(o, s, L) ==
  /\ o \in Orders /\ Typed(s) /\ Listing(s, L) /\ Tables(s) /\ Rising(o, s, L)

LEMMA CoreIs ==
  ASSUME NEW o, NEW s, NEW L, Core(o, s, L)
  PROVE  /\ L \in Seq(Addr) /\ Len(L) \in Nat /\ s.size = Len(L)
         /\ \A i \in 1..Len(L) : L[i] \in Held(s) /\ L[i] \in Addr /\ L[i] # Nil
         /\ \A i, j \in 1..Len(L) : L[i] = L[j] => i = j
         /\ \A i, j \in 1..Len(L) : i < j => Earlier(o, s, L[i], L[j])
         /\ Line(s) = L
<1>1. Typed(s) /\ Listing(s, L) /\ NodesOf(s, L) /\ s.size = Len(L)
  BY DEF Core, Listing
<1>2. L \in Seq(Addr) /\ Len(L) \in Nat /\ \A i, j \in 1..Len(L) : L[i] = L[j] => i = j
  BY <1>1 DEF NodesOf
<1>3. \A i \in 1..Len(L) : L[i] \in Held(s) /\ L[i] \in Addr /\ L[i] # Nil
  BY <1>1, AtIs, Constants DEF NodesOf, Held
<1>4. \A i, j \in 1..Len(L) : i < j => Earlier(o, s, L[i], L[j])
  BY DEF Core, Rising
<1>5. QED
  BY <1>1, <1>2, <1>3, <1>4, LineIs

(* The places that come before a node are the first ones.                  *)
LEMMA CutBefore ==
  ASSUME NEW L, NEW s, Core(order, s, L), NEW a \in Held(s)
  PROVE  \E k \in 0..Len(L) :
           /\ IsCut(L, {x \in Place : Comp(s, x.at, a) < 0}, k)
           /\ \A j \in 1..Len(L) : Earlier(order, s, L[j], a) <=> j <= k
<1> DEFINE n == Len(L)
           T == {j \in 1..n : Earlier(order, s, L[j], a)}
<1>1. /\ order \in Orders /\ Typed(s) /\ Tables(s) /\ n \in Nat
      /\ \A i \in 1..n : L[i] \in Held(s) /\ L[i] \in Addr
      /\ \A i, j \in 1..n : i < j => Earlier(order, s, L[i], L[j])
  BY CoreIs DEF Core
<1>2. T \in SUBSET (1..n)
  OBVIOUS
<1>3. ASSUME NEW i \in T, NEW j \in 1..n, j < i PROVE j \in T
  BY <1>1, <1>3, EarlierOrders
<1>4. \E k \in 0..n : \A j \in 1..n : j \in T <=> j <= k
  <2> HIDE DEF T, n
  <2>1. QED
    BY <1>1, <1>2, <1>3, CutExists
<1>5. PICK k \in 0..n : \A j \in 1..n : j \in T <=> j <= k
  BY <1>4
<1>6. \A j \in 1..n : Earlier(order, s, L[j], a) <=> j <= k
  BY <1>5
<1>7. ASSUME NEW j \in 1..n
      PROVE  Spot(L, j) \in {x \in Place : Comp(s, x.at, a) < 0} <=> j <= k
  <2>1. Spot(L, j) = [at |-> L[j], rank |-> j]
    BY <1>1 DEF Spot, At
  <2>2. Spot(L, j) \in Place /\ Spot(L, j).at = L[j]
    BY <1>1, <2>1 DEF Place
  <2>3. Comp(s, L[j], a) < 0 <=> Earlier(order, s, L[j], a)
    BY <1>1, CompIs
  <2>4. QED
    BY <1>6, <2>2, <2>3
<1>8. IsCut(L, {x \in Place : Comp(s, x.at, a) < 0}, k)
  BY <1>7 DEF IsCut
<1>9. QED
  BY <1>6, <1>8

(* A listed node is found where its place ends the way, others nowhere.    *)
LEMMA CutAt ==
  ASSUME NEW L, NEW s, Core(order, s, L), NEW m \in 1..Len(L)
  PROVE  /\ m - 1 \in 0 .. Len(L) - 1 /\ m - 1 \in 0..Len(L)
         /\ IsCut(L, {x \in Place : Comp(s, x.at, L[m]) < 0}, m - 1)
<1> DEFINE a == L[m]
           n == Len(L)
           ahead == {x \in Place : Comp(s, x.at, a) < 0}
<1>1. /\ order \in Orders /\ Typed(s) /\ Tables(s) /\ n \in Nat
      /\ \A i \in 1..n : L[i] \in Held(s) /\ L[i] \in Addr
      /\ \A i, j \in 1..n : i < j => Earlier(order, s, L[i], L[j])
  BY CoreIs DEF Core
<1>2. PICK k \in 0..n : /\ IsCut(L, ahead, k)
                        /\ \A j \in 1..n : Earlier(order, s, L[j], a) <=> j <= k
  BY <1>1, CutBefore
<1>3. ~(m <= k)
  BY <1>1, <1>2, EarlierOrders
<1>4. m # 1 => m - 1 <= k
  <2> SUFFICES ASSUME m # 1 PROVE m - 1 <= k
    OBVIOUS
  <2>1. m - 1 \in 1..n /\ m - 1 < m
    BY <1>1
  <2>2. QED
    BY <1>1, <1>2, <2>1
<1>5. m - 1 = k
  BY <1>1, <1>3, <1>4
<1>6. QED
  BY <1>1, <1>2, <1>5

LEMMA FindsIs ==
  ASSUME NEW L, NEW s, Core(order, s, L), NEW a \in Held(s)
  PROVE  Finds(s, a) <=> \E m \in 1..Len(L) : a = L[m]
<1> DEFINE n == Len(L)
<1>1. /\ order \in Orders /\ Typed(s) /\ Tables(s) /\ Listing(s, L) /\ n \in Nat
      /\ \A i \in 1..n : L[i] \in Held(s) /\ L[i] \in Addr
      /\ 1 \in 1..s.level /\ a # Nil
  <2>1. s.level \in 1..MaxLevel
    BY TypedIs DEF Core
  <2>2. 1 \in 1..s.level
    BY <2>1, Constants
  <2>3. QED
    BY <2>2, CoreIs, HeldIs DEF Core
<1>2. ASSUME NEW k \in 0..n, IsCut(L, {x \in Place : Comp(s, x.at, a) < 0}, k)
      PROVE  s.mem[Before(s, a)[1].at].next[1] = Entry(L, k + 1)
  <2>1. LeftAtCut(s, L, 1, k, Before(s, a)[1])
    BY <1>1, <1>2, PathIs DEF Before
  <2> DEFINE x == Before(s, a)[1]
  <2>2. x.rank \in 0..k /\ x.at = At(L, x.rank) /\ \A i \in x.rank + 1 .. k : ~High(s, L, i, 1)
    BY <2>1 DEF LeftAtCut, LastHigh, Spot
  <2> HIDE DEF x
  <2>3. High(s, L, k, 1)
    <3>1. s.mem[At(L, k)] \in AnyNode
      BY <1>1, AtIs, TypedIs DEF Listing
    <3>2. s.mem[At(L, k)].levelSize \in 1..MaxLevel
      BY <3>1, NodeIs
    <3>3. QED
      BY <3>2 DEF High
  <2>4. x.rank = k
    <3>1. x.rank # k => k \in x.rank + 1 .. k
      BY <1>1, <2>2
    <3>2. QED
      BY <2>2, <2>3, <3>1
  <2>5. s.mem[x.at].next[1] = Entry(L, k + 1)
    BY <1>1, <2>2, <2>4, NextOne
  <2>6. QED
    BY <2>5 DEF x
<1>3. ASSUME NEW m \in 1..n, a = L[m] PROVE Finds(s, a)
  <2>1. m - 1 \in 0..n /\ IsCut(L, {x \in Place : Comp(s, x.at, L[m]) < 0}, m - 1)
    BY <1>1, CutAt
  <2>2. s.mem[Before(s, a)[1].at].next[1] = Entry(L, (m - 1) + 1)
    BY <1>2, <1>3, <2>1
  <2>3. (m - 1) + 1 = m /\ ~(m > n)
    BY <1>1
  <2>4. QED
    BY <1>3, <2>2, <2>3 DEF Finds, Entry
<1>4. ASSUME Finds(s, a) PROVE \E m \in 1..n : a = L[m]
  <2>1. PICK k \in 0..n : IsCut(L, {x \in Place : Comp(s, x.at, a) < 0}, k)
    BY CutBefore
  <2>2. a = Entry(L, k + 1)
    BY <1>2, <1>4, <2>1 DEF Finds
  <2>3. k + 1 <= n
    <3>1. ~(k + 1 > n)
      BY <1>1, <2>2 DEF Entry
    <3>2. QED
      BY <1>1, <3>1
  <2>4. k + 1 \in 1..n /\ a = L[k + 1]
    BY <1>1, <2>2, <2>3 DEF Entry
  <2>5. QED
    BY <2>4
<1>5. QED
  BY <1>3, <1>4

-----------------------------------------------------------------------------
(* Operations on a sound list.                                             *)
LEMMA SeqMake ==
  ASSUME NEW S, NEW n \in Nat, NEW f \in [1..n -> S]
  PROVE  f \in Seq(S) /\ Len(f) = n
<1>1. f \in Seq(S)
  BY SeqDef
<1>2. DOMAIN f = 1..n /\ DOMAIN f = 1..Len(f) /\ Len(f) \in Nat
  BY <1>1, LenProperties
<1>3. QED
  BY <1>1, <1>2

LEMMA WithExists ==
  ASSUME NEW L \in Seq(Addr), NEW k \in 0..Len(L), NEW a \in Addr
  PROVE  \E M : With(L, k, a, M)
<1> DEFINE n == Len(L)
           M == [i \in 1 .. n + 1 |-> IF i <= k THEN L[i] ELSE IF i = k + 1 THEN a ELSE L[i - 1]]
<1>1. n \in Nat /\ k \in Nat /\ k <= n /\ \A i \in 1..n : L[i] \in Addr
  OBVIOUS
<1>2. ASSUME NEW i \in 1 .. n + 1
      PROVE  (IF i <= k THEN L[i] ELSE IF i = k + 1 THEN a ELSE L[i - 1]) \in Addr
  <2>1. i <= k => i \in 1..n
    BY <1>1
  <2>2. ~(i <= k) /\ i # k + 1 => i - 1 \in 1..n
    BY <1>1
  <2>3. QED
    BY <1>1, <2>1, <2>2
<1>3. M \in [1 .. n + 1 -> Addr]
  BY <1>2
<1>4. M \in Seq(Addr) /\ Len(M) = n + 1
  <2> HIDE DEF M, n
  <2>1. QED
    BY <1>1, <1>3, SeqMake
<1>5. \A i \in 1 .. n + 1 : M[i] = IF i <= k THEN L[i] ELSE IF i = k + 1 THEN a ELSE L[i - 1]
  OBVIOUS
<1> HIDE DEF M
<1>6. \A i \in 1..k : M[i] = L[i]
  BY <1>1, <1>5
<1>7. M[k + 1] = a
  BY <1>1, <1>5
<1>8. ASSUME NEW i \in k + 1 .. n PROVE M[i + 1] = L[i]
  <2>1. i + 1 \in 1 .. n + 1 /\ ~(i + 1 <= k) /\ i + 1 # k + 1 /\ (i + 1) - 1 = i
    BY <1>1
  <2>2. QED
    BY <1>5, <2>1
<1>9. With(L, k, a, M)
  BY <1>4, <1>6, <1>7, <1>8 DEF With
<1>10. QED
  BY <1>9

LEMMA WithoutExists ==
  ASSUME NEW M \in Seq(Addr), NEW m \in 1..Len(M)
  PROVE  \E L \in Seq(Addr) : m - 1 \in 0..Len(L) /\ With(L, m - 1, M[m], M)
<1> DEFINE n == Len(M) - 1
           L == [i \in 1..n |-> IF i < m THEN M[i] ELSE M[i + 1]]
<1>1. n \in Nat /\ Len(M) = n + 1 /\ m \in Nat /\ m >= 1 /\ m <= n + 1
      /\ \A i \in 1 .. n + 1 : M[i] \in Addr
  OBVIOUS
<1> HIDE DEF n
<1>2. ASSUME NEW i \in 1..n PROVE (IF i < m THEN M[i] ELSE M[i + 1]) \in Addr
  <2>1. i \in 1 .. n + 1 /\ i + 1 \in 1 .. n + 1
    BY <1>1
  <2>2. QED
    BY <1>1, <2>1
<1>3. L \in [1..n -> Addr]
  BY <1>2
<1>4. L \in Seq(Addr) /\ Len(L) = n
  <2> HIDE DEF L
  <2>1. QED
    BY <1>1, <1>3, SeqMake
<1>5. \A i \in 1..n : L[i] = IF i < m THEN M[i] ELSE M[i + 1]
  OBVIOUS
<1> HIDE DEF L
<1>6. \A i \in 1 .. m - 1 : M[i] = L[i]
  BY <1>1, <1>5
<1>7. \A i \in (m - 1) + 1 .. n : M[i + 1] = L[i]
  BY <1>1, <1>5
<1>8. (m - 1) + 1 = m /\ m - 1 \in 0..n
  BY <1>1
<1>9. With(L, m - 1, M[m], M)
  BY <1>1, <1>4, <1>6, <1>7, <1>8 DEF With
<1>10. QED
  BY <1>4, <1>8, <1>9

(* What linking leaves alone.                                              *)
Kept(s, t) ==
  /\ DOMAIN t.mem = DOMAIN s.mem
  /\ \A p \in DOMAIN s.mem : t.mem[p].score = s.mem[p].score
  /\ t.node_map = s.node_map /\ t.value_map = s.value_map

LEMMA KeptIs ==
  ASSUME NEW s, NEW t, Kept(s, t)
  PROVE  /\ Held(t) = Held(s) /\ (Tables(t) <=> Tables(s))
         /\ \A o : \A a, b \in DOMAIN s.mem : Earlier(o, t, a, b) <=> Earlier(o, s, a, b)
<1>1. Held(t) = Held(s)
  BY DEF Held, Kept
<1>2. Tables(t) <=> Tables(s)
  BY <1>1 DEF Tables, Kept
<1>3. ASSUME NEW o, NEW a \in DOMAIN s.mem
      PROVE  Key(o, t, a) = Key(o, s, a) /\ Tie(o, t, a) = Tie(o, s, a)
  BY DEF Key, Tie, Kept
<1>4. \A o : \A a, b \in DOMAIN s.mem : Earlier(o, t, a, b) <=> Earlier(o, s, a, b)
  BY <1>3 DEF Earlier
<1>5. QED
  BY <1>1, <1>2, <1>4

LEMMA InsertCore ==
  ASSUME NEW L, NEW s, Core(order, s, L), NEW a \in Held(s), \A i \in 1..Len(L) : L[i] # a
  PROVE  \E M : \E k \in 0..Len(L) :
           /\ With(L, k, a, M)
           /\ Core(order, SlInsertNode(s, a), M)
           /\ Kept(s, SlInsertNode(s, a))
<1> DEFINE n == Len(L)
           t == SlInsertNode(s, a)
<1>1. /\ order \in Orders /\ Typed(s) /\ Tables(s) /\ Listing(s, L) /\ n \in Nat
      /\ L \in Seq(Addr)
      /\ \A i \in 1..n : L[i] \in Held(s) /\ L[i] \in DOMAIN s.mem
      /\ \A i, j \in 1..n : i < j => Earlier(order, s, L[i], L[j])
      /\ a \in Addr /\ a \in DOMAIN s.mem
  BY CoreIs, HeldIs DEF Core
<1>2. PICK k \in 0..n :
        /\ IsCut(L, {x \in Place : Comp(s, x.at, a) < 0}, k)
        /\ \A j \in 1..n : Earlier(order, s, L[j], a) <=> j <= k
  BY CutBefore
<1>3. PICK u \in [1..MaxLevel -> 0..k] :
        /\ \A l \in 1..MaxLevel : LastHigh(s, L, l, k, u[l])
        /\ Inserted(s, L, k, a, u, t)
  BY <1>1, <1>2, InsertWrites
<1>4. PICK M : With(L, k, a, M)
  BY <1>1, WithExists
<1> HIDE DEF t
<1>5. Listing(t, M) /\ Typed(t)
  BY <1>1, <1>3, <1>4, InsertLists, InsertTyped
<1>6. Kept(s, t)
  <2>1. t.node_map = s.node_map /\ t.value_map = s.value_map
    <3>1. t = [mem |-> t.mem, level |-> t.level, size |-> t.size, tail |-> t.tail,
               node_map |-> s.node_map, value_map |-> s.value_map]
      BY <1>3 DEF Inserted
    <3>2. QED
      BY <3>1
  <2>2. DOMAIN t.mem = DOMAIN s.mem /\ \A p \in DOMAIN s.mem : t.mem[p].score = s.mem[p].score
    BY <1>3 DEF Inserted, Renewed
  <2>3. QED
    BY <2>1, <2>2 DEF Kept
<1>7. Tables(t) /\ \A b, c \in DOMAIN s.mem : Earlier(order, t, b, c) <=> Earlier(order, s, b, c)
  BY <1>1, <1>6, KeptIs
<1>8. \A j \in 1..n : j > k => Earlier(order, s, a, L[j])
  <2> SUFFICES ASSUME NEW j \in 1..n, j > k PROVE Earlier(order, s, a, L[j])
    OBVIOUS
  <2>1. ~Earlier(order, s, L[j], a)
    BY <1>2
  <2>2. QED
    BY <1>1, <2>1, EarlierOrders
<1>9. /\ Len(M) = n + 1
      /\ \A i \in 1..k : M[i] = L[i]
      /\ M[k + 1] = a
      /\ \A i \in k + 1 .. n : M[i + 1] = L[i]
  BY <1>4 DEF With
<1>10. ASSUME NEW i \in 1..Len(M)
       PROVE  \/ i <= k /\ i \in 1..n /\ M[i] = L[i]
              \/ i = k + 1 /\ M[i] = a
              \/ i > k + 1 /\ i - 1 \in 1..n /\ M[i] = L[i - 1]
  <2>1. CASE i <= k
    BY <1>1, <1>9, <2>1
  <2>2. CASE i = k + 1
    BY <1>9, <2>2
  <2>3. CASE i > k + 1
    <3>1. i - 1 \in k + 1 .. n /\ i - 1 \in 1..n /\ (i - 1) + 1 = i
      BY <1>1, <1>9, <2>3
    <3>2. QED
      BY <1>9, <2>3, <3>1
  <2>4. QED
    BY <1>1, <2>1, <2>2, <2>3
<1>11. ASSUME NEW i \in 1..Len(M), NEW j \in 1..Len(M), i < j
       PROVE  Earlier(order, t, M[i], M[j])
  <2>1. /\ \/ i <= k /\ i \in 1..n /\ M[i] = L[i]
           \/ i = k + 1 /\ M[i] = a
           \/ i > k + 1 /\ i - 1 \in 1..n /\ M[i] = L[i - 1]
        /\ \/ j <= k /\ j \in 1..n /\ M[j] = L[j]
           \/ j = k + 1 /\ M[j] = a
           \/ j > k + 1 /\ j - 1 \in 1..n /\ M[j] = L[j - 1]
    BY <1>10
  <2>2. i \in Int /\ j \in Int /\ k \in Int
    BY <1>1
  <2>3. M[i] \in DOMAIN s.mem /\ M[j] \in DOMAIN s.mem
    BY <1>1, <2>1
  <2>4. CASE i <= k /\ i \in 1..n /\ M[i] = L[i]
    <3>1. Earlier(order, s, L[i], a)
      BY <1>2, <2>4
    <3>2. j > k + 1 => i < j - 1
      BY <2>2, <2>4
    <3>3. QED
      BY <1>1, <1>7, <1>11, <2>1, <2>3, <2>4, <3>1, <3>2
  <2>5. CASE i = k + 1 /\ M[i] = a
    <3>1. j > k + 1 /\ j - 1 > k
      BY <1>11, <2>2, <2>5
    <3>2. j - 1 \in 1..n /\ M[j] = L[j - 1]
      BY <2>1, <2>2, <3>1
    <3>3. QED
      BY <1>7, <1>8, <2>3, <2>5, <3>1, <3>2
  <2>6. CASE i > k + 1 /\ i - 1 \in 1..n /\ M[i] = L[i - 1]
    <3>1. j > k + 1 /\ i - 1 < j - 1
      BY <1>11, <2>2, <2>6
    <3>2. j - 1 \in 1..n /\ M[j] = L[j - 1]
      BY <2>1, <2>2, <3>1
    <3>3. QED
      BY <1>1, <1>7, <2>3, <2>6, <3>1, <3>2
  <2>7. QED
    BY <2>1, <2>4, <2>5, <2>6
<1>12. Core(order, t, M)
  BY <1>1, <1>5, <1>7, <1>11 DEF Core, Rising
<1>13. QED
  BY <1>4, <1>6, <1>12 DEF t

LEMMA DeleteCore ==
  ASSUME NEW M, NEW s, Core(order, s, M), NEW L \in Seq(Addr), NEW k \in 0..Len(L),
         NEW a, With(L, k, a, M)
  PROVE  Core(order, SlDeleteNode(s, a), L) /\ Kept(s, SlDeleteNode(s, a))
<1> DEFINE n == Len(L)
           t == SlDeleteNode(s, a)
<1>1. /\ order \in Orders /\ Typed(s) /\ Tables(s) /\ Listing(s, M)
      /\ \A i, j \in 1..Len(M) : i < j => Earlier(order, s, M[i], M[j])
      /\ \A i \in 1..Len(M) : M[i] \in DOMAIN s.mem
  BY CoreIs DEF Core, Held
<1>2. /\ n \in Nat /\ Len(M) = n + 1 /\ k \in 0 .. Len(M) - 1 /\ k \in Nat /\ a = M[k + 1]
      /\ k + 1 \in 1..Len(M) /\ (k + 1) - 1 = k
  BY WithoutIs
<1>3. IsCut(M, {x \in Place : Comp(s, x.at, a) < 0}, k)
  BY <1>2, CutAt
<1>4. PICK u \in [1..MaxLevel -> 0..k] :
        /\ \A l \in 1..MaxLevel : LastHigh(s, M, l, k, u[l])
        /\ Removed(s, M, k, a, u, t)
  BY <1>1, <1>2, <1>3, DeleteWrites
<1> HIDE DEF t
<1>5. Listing(t, L) /\ Typed(t)
  BY <1>1, <1>4, DeleteLists, DeleteTyped
<1>6. Kept(s, t)
  <2>1. t.node_map = s.node_map /\ t.value_map = s.value_map
    <3>1. t = [mem |-> t.mem, level |-> t.level, size |-> t.size, tail |-> t.tail,
               node_map |-> s.node_map, value_map |-> s.value_map]
      BY <1>4 DEF Removed
    <3>2. QED
      BY <3>1
  <2>2. DOMAIN t.mem = DOMAIN s.mem /\ \A p \in DOMAIN s.mem : t.mem[p].score = s.mem[p].score
    BY <1>4 DEF Removed, Renewed
  <2>3. QED
    BY <2>1, <2>2 DEF Kept
<1>7. Tables(t) /\ \A b, c \in DOMAIN s.mem : Earlier(order, t, b, c) <=> Earlier(order, s, b, c)
  BY <1>1, <1>6, KeptIs
<1>8. /\ \A i \in 1..k : M[i] = L[i]
      /\ \A i \in k + 1 .. n : M[i + 1] = L[i]
  BY DEF With
<1>9. ASSUME NEW i \in 1..n
      PROVE  \/ i <= k /\ i \in 1..Len(M) /\ L[i] = M[i]
             \/ i > k /\ i + 1 \in 1..Len(M) /\ L[i] = M[i + 1]
  <2>1. CASE i <= k
    BY <1>2, <1>8, <2>1
  <2>2. CASE i > k
    <3>1. i \in k + 1 .. n /\ i + 1 \in 1..Len(M)
      BY <1>2, <2>2
    <3>2. QED
      BY <1>8, <2>2, <3>1
  <2>3. QED
    BY <1>2, <2>1, <2>2
<1>10. ASSUME NEW i \in 1..n, NEW j \in 1..n, i < j
       PROVE  Earlier(order, t, L[i], L[j])
  <2>1. \E p, q \in 1..Len(M) : L[i] = M[p] /\ L[j] = M[q] /\ p < q
    <3>1. i \in Int /\ j \in Int /\ k \in Int
      BY <1>2
    <3>2. CASE j <= k
      <4>1. i <= k
        BY <1>10, <3>1, <3>2
      <4>2. QED
        BY <1>9, <1>10, <3>1, <3>2, <4>1
    <3>3. CASE j > k
      <4>1. i < j + 1 /\ i + 1 < j + 1
        BY <1>10, <3>1
      <4>2. j + 1 \in 1..Len(M) /\ L[j] = M[j + 1]
        BY <1>9, <3>1, <3>3
      <4>3. QED
        BY <1>9, <4>1, <4>2
    <3>4. QED
      BY <3>1, <3>2, <3>3
  <2>2. QED
    BY <1>1, <1>7, <2>1
<1>11. Core(order, t, L)
  BY <1>1, <1>5, <1>7, <1>10 DEF Core, Rising
<1>12. QED
  BY <1>6, <1>11 DEF t

(* What is done to nodes that are not listed leaves the list alone.        *)
LEMMA CoreFrame ==
  ASSUME NEW o, NEW s, NEW L, Core(o, s, L), NEW t, Typed(t), Tables(t),
         t.level = s.level, t.size = s.size, t.tail = s.tail,
         \A i \in 0..Len(L) : At(L, i) \in DOMAIN t.mem /\ t.mem[At(L, i)] = s.mem[At(L, i)],
         \A i \in 1..Len(L) : t.value_map[L[i]] = s.value_map[L[i]]
  PROVE  Core(o, t, L)
<1>1. o \in Orders /\ Typed(s) /\ Listing(s, L) /\ Rising(o, s, L) /\ Len(L) \in Nat
  BY CoreIs DEF Core
<1>2. Listing(t, L)
  <2>1. \A i \in 0..Len(L) :
          LET q == t.mem[At(L, i)]
              r == s.mem[At(L, i)]
          IN /\ At(L, i) \in DOMAIN t.mem
             /\ q.levelSize = r.levelSize /\ q.prev = r.prev
             /\ q.next = r.next /\ q.span = r.span
    OBVIOUS
  <2>2. QED
    BY <1>1, <2>1, ListingFrame
<1>3. \A i \in 1..Len(L) : Key(o, t, L[i]) = Key(o, s, L[i]) /\ Tie(o, t, L[i]) = Tie(o, s, L[i])
  <2> SUFFICES ASSUME NEW i \in 1..Len(L)
               PROVE  Key(o, t, L[i]) = Key(o, s, L[i]) /\ Tie(o, t, L[i]) = Tie(o, s, L[i])
    OBVIOUS
  <2>1. i \in 0..Len(L) /\ At(L, i) = L[i]
    BY <1>1 DEF At
  <2>2. t.mem[L[i]] = s.mem[L[i]] /\ t.value_map[L[i]] = s.value_map[L[i]]
    BY <2>1
  <2>3. QED
    BY <2>2 DEF Key, Tie
<1>4. Rising(o, t, L)
  BY <1>1, <1>3 DEF Rising, Earlier
<1>5. QED
  BY <1>1, <1>2, <1>4 DEF Core

LEMMA RecordIs ==
  ASSUME NEW s, Typed(s)
  PROVE  s = [mem |-> s.mem, level |-> s.level, size |-> s.size, tail |-> s.tail,
              node_map |-> s.node_map, value_map |-> s.value_map]
<1> DEFINE NM == [Value -> Link]
           VM == [Addr -> Value \cup {Nil}]
           MS == UNION {[D \cup {SlHead} -> AnyNode] : D \in SUBSET Addr}
<1>1. s \in [mem : MS, level : 1..MaxLevel, size : Nat, tail : Link,
             node_map : NM, value_map : VM]
  BY DEF Typed, Lists
<1> HIDE DEF NM, VM, MS
<1>2. QED
  BY <1>1

LEMMA CreatedCore ==
  ASSUME NEW o, NEW s, NEW L, Core(o, s, L), NEW a \in Addr \ DOMAIN s.mem,
         NEW v \in Value, s.node_map[v] = Nil, NEW score \in Score, NEW h \in 1..MaxLevel,
         NEW t, t = Created(s, a, v, score, h)
  PROVE  /\ Core(o, t, L)
         /\ a \in Held(t) /\ Held(t) = Held(s) \cup {a} /\ \A i \in 1..Len(L) : L[i] # a
         /\ t.mem[a].score = score /\ t.value_map[a] = v /\ t.node_map[v] = a
         /\ \A p \in Held(s) : /\ t.mem[p].score = s.mem[p].score
                               /\ t.value_map[p] = s.value_map[p]
<1> DEFINE D == DOMAIN s.mem \cup {a}
           m == [p \in D |-> IF p = a THEN Node(score, h) ELSE s.mem[p]]
           nm == [s.node_map EXCEPT ![v] = a]
           vm == [s.value_map EXCEPT ![a] = v]
<1>1. /\ Typed(s) /\ Tables(s) /\ Len(L) \in Nat
      /\ \A i \in 1..Len(L) : L[i] \in Held(s) /\ L[i] \in DOMAIN s.mem /\ L[i] # a
  BY CoreIs DEF Core, Held
<1>2. /\ t.mem = m /\ t.level = s.level /\ t.size = s.size /\ t.tail = s.tail
      /\ t.node_map = nm /\ t.value_map = vm
      /\ t = [mem |-> t.mem, level |-> t.level, size |-> t.size, tail |-> t.tail,
              node_map |-> t.node_map, value_map |-> t.value_map]
  <2>1. t = [s EXCEPT !.mem = m, !.node_map = nm, !.value_map = vm]
    BY DEF Created
  <2> HIDE DEF m, nm, vm
  <2>2. s = [mem |-> s.mem, level |-> s.level, size |-> s.size, tail |-> s.tail,
              node_map |-> s.node_map, value_map |-> s.value_map]
    BY <1>1, RecordIs
  <2>3. QED
    BY <2>1, <2>2
<1>3. /\ SlHead \in DOMAIN s.mem /\ DOMAIN s.mem \subseteq Addr \cup {SlHead}
      /\ \A p \in DOMAIN s.mem : s.mem[p] \in AnyNode
      /\ s.mem[SlHead].levelSize = MaxLevel /\ s.mem[SlHead].score = 0
      /\ s.level \in 1..MaxLevel /\ s.size \in Nat /\ s.tail \in Link
      /\ s.node_map \in [Value -> Link] /\ s.value_map \in [Addr -> Value \cup {Nil}]
      /\ SlHead # a /\ a # Nil /\ v # Nil
  <2>1. SlHead # a /\ a # Nil /\ v # Nil
    BY Constants
  <2>2. QED
    BY <1>1, <2>1, TypedIs
<1>4. Node(score, h) \in AnyNode /\ Node(score, h).score = score
  <2> DEFINE next == [l \in 1..h |-> Nil]
             span == [l \in 1..h |-> 0]
  <2>1. next \in [1..h -> Link] /\ span \in [1..h -> Nat]
    BY DEF Link
  <2>2. Node(score, h) = [score |-> score, prev |-> Nil, levelSize |-> h, next |-> next, span |-> span]
    BY DEF Node
  <2> HIDE DEF next, span
  <2>3. Nil \in Link /\ score \in Score \cup {0}
    BY DEF Link
  <2> DEFINE r == Node(score, h)
  <2>4. r = [score |-> score, prev |-> Nil, levelSize |-> h, next |-> next, span |-> span]
    BY <2>2
  <2> HIDE DEF r
  <2>5. r \in AnyNode
    BY <2>1, <2>3, <2>4, NodeMake
  <2>6. r.score = score
    BY <2>4
  <2>7. QED
    BY <2>5, <2>6 DEF r
<1>5. m \in [D -> AnyNode] /\ m[SlHead] = s.mem[SlHead] /\ m[a] = Node(score, h)
      /\ \A p \in DOMAIN s.mem : m[p] = s.mem[p]
  <2> DEFINE q(p) == s.mem[p]
             w == Node(score, h)
  <2>1. w \in AnyNode /\ \A p \in DOMAIN s.mem : q(p) \in AnyNode
    BY <1>3, <1>4
  <2> HIDE DEF q, w
  <2>2. m = [p \in D |-> IF p = a THEN w ELSE q(p)]
    BY DEF q, w
  <2>3. m \in [D -> AnyNode] /\ m[a] = w /\ \A p \in DOMAIN s.mem : m[p] = q(p)
    BY <2>1, <2>2
  <2>4. QED
    BY <1>3, <2>3 DEF q, w
<1>6. nm \in [Value -> Link] /\ vm \in [Addr -> Value \cup {Nil}]
  BY <1>3 DEF Link
<1>7. Typed(t)
  <2>1. D \in SUBSET (Addr \cup {SlHead}) /\ SlHead \in D
    BY <1>3
  <2> HIDE DEF D, m, nm, vm
  <2>2. t.mem \in [D -> AnyNode] /\ t.mem[SlHead].levelSize = MaxLevel /\ t.mem[SlHead].score = 0
    BY <1>2, <1>3, <1>5
  <2>3. QED
    BY <1>2, <1>3, <1>6, <2>1, <2>2, TypedMake
<1>8. Held(t) = Held(s) \cup {a}
  <2>1. DOMAIN m = D
    OBVIOUS
  <2> HIDE DEF m
  <2>2. QED
    BY <1>2, <1>3, <2>1 DEF Held
<1>9. Tables(t)
  <2>1. s.value_map[a] = Nil /\ s.value_map \in [Addr -> Value \cup {Nil}]
        /\ s.node_map \in [Value -> Link]
    BY <1>1, <1>3 DEF Tables, Held
  <2>2. ASSUME NEW x \in Value, NEW b \in Addr
        PROVE  t.node_map[x] = b <=> t.value_map[b] = x
    <3>1. s.node_map[x] = b <=> s.value_map[b] = x
      BY <1>1 DEF Tables
    <3>2. t.node_map[x] = IF x = v THEN a ELSE s.node_map[x]
      BY <1>2, <2>1
    <3>3. t.value_map[b] = IF b = a THEN v ELSE s.value_map[b]
      BY <1>2, <2>1
    <3>4. b # Nil /\ x # Nil
      BY Constants
    <3>5. QED
      BY <2>1, <3>1, <3>2, <3>3, <3>4
  <2>3. Held(t) = {b \in Addr : t.value_map[b] # Nil}
    <3>1. Held(s) = {b \in Addr : s.value_map[b] # Nil}
      BY <1>1 DEF Tables
    <3>2. \A b \in Addr : t.value_map[b] = IF b = a THEN v ELSE s.value_map[b]
      BY <1>2, <2>1
    <3>3. QED
      BY <1>3, <1>8, <3>1, <3>2
  <2>4. QED
    BY <2>2, <2>3 DEF Tables
<1>10. ASSUME NEW p \in Held(s)
       PROVE  /\ p # a /\ t.mem[p] = s.mem[p] /\ t.value_map[p] = s.value_map[p]
  <2>1. p \in DOMAIN s.mem /\ p # a /\ p \in Addr
    BY <1>3 DEF Held
  <2>2. t.mem[p] = s.mem[p]
    BY <1>2, <1>5, <2>1
  <2>3. t.value_map[p] = s.value_map[p]
    BY <1>2, <1>3, <2>1
  <2>4. QED
    BY <2>1, <2>2, <2>3
<1>11. t.mem[a].score = score /\ t.value_map[a] = v /\ t.node_map[v] = a
  BY <1>2, <1>3, <1>4, <1>5
<1>12. ASSUME NEW i \in 0..Len(L) PROVE At(L, i) \in DOMAIN t.mem /\ t.mem[At(L, i)] = s.mem[At(L, i)]
  <2>1. At(L, i) \in DOMAIN s.mem
    BY <1>1, <1>3 DEF At
  <2>2. QED
    BY <1>2, <1>5, <2>1
<1>13. Core(o, t, L)
  <2>1. \A i \in 1..Len(L) : t.value_map[L[i]] = s.value_map[L[i]]
    BY <1>1, <1>10
  <2>2. t.level = s.level /\ t.size = s.size /\ t.tail = s.tail
    BY <1>2
  <2>3. QED
    BY <1>7, <1>9, <1>12, <2>1, <2>2, CoreFrame
<1>14. QED
  BY <1>1, <1>8, <1>10, <1>11, <1>13

LEMMA ScoredCore ==
  ASSUME NEW o, NEW s, NEW L, Core(o, s, L), NEW a \in Held(s), \A i \in 1..Len(L) : L[i] # a,
         NEW score \in Score, NEW t, t = Scored(s, a, score)
  PROVE  /\ Core(o, t, L) /\ Held(t) = Held(s)
         /\ t.value_map = s.value_map /\ t.node_map = s.node_map
         /\ t.mem[a].score = score
         /\ \A p \in Held(s) \ {a} : t.mem[p].score = s.mem[p].score
<1> DEFINE D == DOMAIN s.mem
           m == [s.mem EXCEPT ![a].score = score]
<1>1. /\ Typed(s) /\ Tables(s) /\ Len(L) \in Nat
      /\ \A i \in 1..Len(L) : L[i] \in D /\ L[i] # a
      /\ a \in D /\ a # SlHead /\ s.mem[a] \in AnyNode
  BY CoreIs, HeldIs DEF Core, Held
<1>2. /\ t.mem = m /\ t.level = s.level /\ t.size = s.size /\ t.tail = s.tail
      /\ t.node_map = s.node_map /\ t.value_map = s.value_map
      /\ t = [mem |-> t.mem, level |-> t.level, size |-> t.size, tail |-> t.tail,
              node_map |-> t.node_map, value_map |-> t.value_map]
  <2>1. t = [s EXCEPT !.mem = m]
    BY DEF Scored
  <2> HIDE DEF m
  <2>2. s = [mem |-> s.mem, level |-> s.level, size |-> s.size, tail |-> s.tail,
              node_map |-> s.node_map, value_map |-> s.value_map]
    BY <1>1, RecordIs
  <2>3. QED
    BY <2>1, <2>2
<1>3. /\ SlHead \in D /\ D \subseteq Addr \cup {SlHead}
      /\ s.mem = [p \in D |-> s.mem[p]]
      /\ \A p \in D : s.mem[p] \in AnyNode
      /\ s.mem[SlHead].levelSize = MaxLevel /\ s.mem[SlHead].score = 0
      /\ s.level \in 1..MaxLevel /\ s.size \in Nat /\ s.tail \in Link
      /\ s.node_map \in [Value -> Link] /\ s.value_map \in [Addr -> Value \cup {Nil}]
  BY <1>1, TypedIs
<1>4. /\ DOMAIN m = D /\ m = [p \in D |-> m[p]] /\ \A p \in D \ {a} : m[p] = s.mem[p]
      /\ m[a] = [s.mem[a] EXCEPT !.score = score]
  BY <1>1, <1>3
<1>5. m[a] \in AnyNode /\ m[a].score = score
  <2> DEFINE r == s.mem[a]
             h == r.levelSize
             x == r.prev
             y == r.next
             z == r.span
  <2>1. h \in 1..MaxLevel /\ x \in Link /\ y \in [1..h -> Link] /\ z \in [1..h -> Nat]
    BY <1>1, NodeIs
  <2>2. r = [score |-> r.score, prev |-> x, levelSize |-> h, next |-> y, span |-> z]
    <3>1. PICK g \in 1..MaxLevel : r \in Nodes(g)
      BY <1>1 DEF AnyNode
    <3> HIDE DEF r
    <3>2. QED
      BY <3>1 DEF Nodes, x, y, z, h
  <2>3. [r EXCEPT !.score = score] =
          [score |-> score, prev |-> x, levelSize |-> h, next |-> y, span |-> z]
    <3> HIDE DEF x, y, z, h, r
    <3>1. QED
      BY <2>2
  <2>4. score \in Score \cup {0}
    OBVIOUS
  <2> HIDE DEF x, y, z, h, m
  <2> DEFINE q == [r EXCEPT !.score = score]
  <2>5. q = [score |-> score, prev |-> x, levelSize |-> h, next |-> y, span |-> z]
    BY <2>3
  <2>6. m[a] = q
    BY <1>4
  <2> HIDE DEF q
  <2>7. q \in AnyNode /\ q.score = score
    BY <2>1, <2>4, <2>5, NodeMake
  <2>8. QED
    BY <2>6, <2>7
<1> HIDE DEF m
<1>6. m \in [D -> AnyNode]
  BY <1>3, <1>4, <1>5
<1>7. Typed(t)
  <2>1. D \in SUBSET (Addr \cup {SlHead}) /\ SlHead \in D
    BY <1>3
  <2> HIDE DEF D
  <2>2. t.mem \in [D -> AnyNode] /\ t.mem[SlHead].levelSize = MaxLevel /\ t.mem[SlHead].score = 0
    BY <1>1, <1>2, <1>3, <1>4, <1>6
  <2>3. QED
    BY <1>2, <1>3, <2>1, <2>2, TypedMake
<1>8. Held(t) = Held(s)
  BY <1>2, <1>4 DEF Held
<1>9. Tables(t)
  BY <1>1, <1>2, <1>8 DEF Tables
<1>10. ASSUME NEW i \in 0..Len(L) PROVE At(L, i) \in DOMAIN t.mem /\ t.mem[At(L, i)] = s.mem[At(L, i)]
  <2>1. At(L, i) \in D \ {a}
    BY <1>1, <1>3 DEF At
  <2>2. QED
    BY <1>2, <1>4, <2>1
<1>11. Core(o, t, L)
  BY <1>2, <1>7, <1>9, <1>10, CoreFrame
<1>12. \A p \in Held(s) \ {a} : t.mem[p].score = s.mem[p].score
  BY <1>2, <1>4 DEF Held
<1>13. QED
  BY <1>2, <1>5, <1>8, <1>11, <1>12

LEMMA FreedCore ==
  ASSUME NEW o, NEW s, NEW L, Core(o, s, L), NEW a \in Held(s), \A i \in 1..Len(L) : L[i] # a,
         NEW t, t = Freed(s, a, s.value_map[a])
  PROVE  /\ Core(o, t, L) /\ Held(t) = Held(s) \ {a}
         /\ \A p \in Held(s) \ {a} : /\ t.mem[p].score = s.mem[p].score
                                     /\ t.value_map[p] = s.value_map[p]
<1> DEFINE D == DOMAIN s.mem
           v == s.value_map[a]
           m == Restrict(s.mem, D \ {a})
           nm == [s.node_map EXCEPT ![v] = Nil]
           vm == [s.value_map EXCEPT ![a] = Nil]
<1>1. /\ Typed(s) /\ Tables(s) /\ Len(L) \in Nat
      /\ \A i \in 1..Len(L) : L[i] \in D /\ L[i] # a /\ L[i] \in Addr
      /\ a \in D /\ a # SlHead /\ a \in Addr /\ v \in Value /\ a # Nil
      /\ s.node_map[v] = a
  BY CoreIs, HeldIs DEF Core, Held
<1>2. /\ t.mem = m /\ t.level = s.level /\ t.size = s.size /\ t.tail = s.tail
      /\ t.node_map = nm /\ t.value_map = vm
      /\ t = [mem |-> t.mem, level |-> t.level, size |-> t.size, tail |-> t.tail,
              node_map |-> t.node_map, value_map |-> t.value_map]
  <2>1. t = [s EXCEPT !.mem = m, !.node_map = nm, !.value_map = vm]
    BY DEF Freed
  <2> HIDE DEF m, nm, vm
  <2>2. s = [mem |-> s.mem, level |-> s.level, size |-> s.size, tail |-> s.tail,
              node_map |-> s.node_map, value_map |-> s.value_map]
    BY <1>1, RecordIs
  <2>3. QED
    BY <2>1, <2>2
<1>3. /\ SlHead \in D /\ D \subseteq Addr \cup {SlHead}
      /\ \A p \in D : s.mem[p] \in AnyNode
      /\ s.mem[SlHead].levelSize = MaxLevel /\ s.mem[SlHead].score = 0
      /\ s.level \in 1..MaxLevel /\ s.size \in Nat /\ s.tail \in Link
      /\ s.node_map \in [Value -> Link] /\ s.value_map \in [Addr -> Value \cup {Nil}]
  BY <1>1, TypedIs
<1>4. /\ DOMAIN m = D \ {a} /\ m = [p \in D \ {a} |-> m[p]]
      /\ \A p \in D \ {a} : m[p] = s.mem[p]
  BY DEF Restrict
<1> HIDE DEF m
<1>5. m \in [D \ {a} -> AnyNode]
  BY <1>3, <1>4
<1>6. nm \in [Value -> Link] /\ vm \in [Addr -> Value \cup {Nil}]
  BY <1>3 DEF Link
<1>7. Typed(t)
  <2> DEFINE E == D \ {a}
  <2>1. E \in SUBSET (Addr \cup {SlHead}) /\ SlHead \in E
    BY <1>1, <1>3
  <2>2. m \in [E -> AnyNode] /\ m[SlHead] = s.mem[SlHead]
    BY <1>4, <1>5, <2>1
  <2> HIDE DEF D, E, nm, vm
  <2>3. t.mem \in [E -> AnyNode] /\ t.mem[SlHead].levelSize = MaxLevel /\ t.mem[SlHead].score = 0
    BY <1>2, <1>3, <2>2
  <2>4. QED
    BY <1>2, <1>3, <1>6, <2>1, <2>3, TypedMake
<1>8. Held(t) = Held(s) \ {a}
  BY <1>2, <1>4 DEF Held
<1>9. Tables(t)
  <2>1. ASSUME NEW x \in Value, NEW b \in Addr
        PROVE  t.node_map[x] = b <=> t.value_map[b] = x
    <3>1. s.node_map[x] = b <=> s.value_map[b] = x
      BY <1>1 DEF Tables
    <3>2. t.node_map[x] = IF x = v THEN Nil ELSE s.node_map[x]
      BY <1>2, <1>3
    <3>3. t.value_map[b] = IF b = a THEN Nil ELSE s.value_map[b]
      BY <1>2, <1>3
    <3>4. b # Nil /\ x # Nil
      BY Constants
    <3>5. QED
      BY <1>1, <3>1, <3>2, <3>3, <3>4
  <2>2. Held(t) = {b \in Addr : t.value_map[b] # Nil}
    <3>1. Held(s) = {b \in Addr : s.value_map[b] # Nil}
      BY <1>1 DEF Tables
    <3>2. \A b \in Addr : t.value_map[b] = IF b = a THEN Nil ELSE s.value_map[b]
      BY <1>2, <1>3
    <3>3. QED
      BY <1>8, <3>1, <3>2
  <2>3. QED
    BY <2>1, <2>2 DEF Tables
<1>10. ASSUME NEW p \in Addr, p # a PROVE t.value_map[p] = s.value_map[p]
  BY <1>2, <1>3, <1>10
<1>11. ASSUME NEW i \in 0..Len(L) PROVE At(L, i) \in DOMAIN t.mem /\ t.mem[At(L, i)] = s.mem[At(L, i)]
  <2>1. At(L, i) \in D \ {a}
    BY <1>1, <1>3 DEF At
  <2>2. QED
    BY <1>2, <1>4, <2>1
<1>12. Core(o, t, L)
  <2>1. \A i \in 1..Len(L) : t.value_map[L[i]] = s.value_map[L[i]]
    BY <1>1, <1>10
  <2>2. t.level = s.level /\ t.size = s.size /\ t.tail = s.tail
    BY <1>2
  <2>3. QED
    BY <1>7, <1>9, <1>11, <2>1, <2>2, CoreFrame
<1>13. ASSUME NEW p \in Held(s) \ {a}
       PROVE  t.mem[p].score = s.mem[p].score /\ t.value_map[p] = s.value_map[p]
  <2>1. p \in D \ {a} /\ p \in Addr
    BY <1>3 DEF Held
  <2>2. QED
    BY <1>2, <1>4, <1>10, <2>1
<1>14. QED
  BY <1>8, <1>12, <1>13

-----------------------------------------------------------------------------
(* Deletions. M is L without j places from lo on.                          *)
Cutout(L, lo, j, M) ==
  /\ M \in Seq(Addr) /\ Len(M) = Len(L) - j
  /\ \A i \in 1 .. lo - 1 : M[i] = L[i]
  /\ \A i \in lo .. Len(L) - j : M[i] = L[i + j]

(* The nodes that stay keep their values and scores.                       *)
Same(s, t, S) ==
  \A p \in S : t.mem[p].score = s.mem[p].score /\ t.value_map[p] = s.value_map[p]

LEMMA DeletedCore ==
  ASSUME NEW L, NEW s, Core(order, s, L), NEW m \in 1..Len(L),
         NEW t, t = Deleted(s, L[m], s.value_map[L[m]])
  PROVE  \E M : /\ Cutout(L, m, 1, M) /\ Core(order, t, M)
                /\ Held(t) = Held(s) \ {L[m]} /\ Same(s, t, Held(t))
<1> DEFINE a == L[m]
           r == SlDeleteNode(s, a)
<1>1. /\ L \in Seq(Addr) /\ Len(L) \in Nat
      /\ \A i \in 1..Len(L) : L[i] \in Held(s)
      /\ \A i, j \in 1..Len(L) : L[i] = L[j] => i = j
  BY CoreIs
<1>2. PICK M \in Seq(Addr) : m - 1 \in 0..Len(M) /\ With(M, m - 1, a, L)
  BY <1>1, WithoutExists
<1>3. Core(order, r, M) /\ Kept(s, r)
  BY <1>2, DeleteCore
<1>4. Held(r) = Held(s)
  BY <1>3, KeptIs
<1>5. t = Freed(r, a, r.value_map[a])
  BY <1>3 DEF Deleted, Kept
<1> HIDE DEF r, a
<1>6. /\ Len(L) = Len(M) + 1 /\ Len(M) \in Nat
      /\ \A i \in 1 .. m - 1 : L[i] = M[i]
      /\ \A i \in (m - 1) + 1 .. Len(M) : L[i + 1] = M[i]
  BY <1>1, <1>2 DEF With
<1>7. Cutout(L, m, 1, M)
  <2>1. (m - 1) + 1 = m /\ Len(L) - 1 = Len(M)
    BY <1>1, <1>6
  <2>2. QED
    BY <1>2, <1>6, <2>1 DEF Cutout
<1>8. ASSUME NEW i \in 1..Len(M) PROVE M[i] # a
  <2>1. CASE i < m
    <3>1. i \in 1 .. m - 1 /\ i \in 1..Len(L) /\ i # m
      BY <1>1, <1>6, <2>1
    <3>2. QED
      BY <1>1, <1>6, <3>1 DEF a
  <2>2. CASE ~(i < m)
    <3>1. i \in (m - 1) + 1 .. Len(M) /\ i + 1 \in 1..Len(L) /\ i + 1 # m
      BY <1>1, <1>6, <2>2
    <3>2. QED
      BY <1>1, <1>6, <3>1 DEF a
  <2>3. QED
    BY <2>1, <2>2
<1>9. a \in Held(r)
  BY <1>1, <1>4 DEF a
<1>10. /\ Core(order, t, M) /\ Held(t) = Held(r) \ {a}
       /\ \A p \in Held(r) \ {a} : /\ t.mem[p].score = r.mem[p].score
                                   /\ t.value_map[p] = r.value_map[p]
  BY <1>3, <1>5, <1>8, <1>9, FreedCore
<1>11. Same(s, t, Held(t))
  <2>1. \A p \in Held(s) : r.mem[p].score = s.mem[p].score /\ r.value_map[p] = s.value_map[p]
    BY <1>3 DEF Kept, Held
  <2>2. QED
    BY <1>4, <1>10, <2>1 DEF Same
<1>12. QED
  BY <1>4, <1>7, <1>10, <1>11 DEF a

(* DeletedAll is a recursive function; g has its values up to n.           *)
DeletesTo(s, nodes, n, g) ==
  /\ g[0] = s
  /\ \A i \in 1..n : g[i] = Deleted(g[i - 1], nodes[i], g[i - 1].value_map[nodes[i]])

LEMMA DeletesExist ==
  ASSUME NEW s, NEW nodes, NEW n \in Nat
  PROVE  \E g : DeletesTo(s, nodes, n, g)
<1> DEFINE N == {m \in Nat : \E g : DeletesTo(s, nodes, m, g)}
<1>1. 0 \in N
  <2>1. DeletesTo(s, nodes, 0, [i \in 0..0 |-> s])
    BY DEF DeletesTo
  <2>2. QED
    BY <2>1
<1>2. ASSUME NEW m \in N PROVE m + 1 \in N
  <2>1. PICK g : DeletesTo(s, nodes, m, g)
    OBVIOUS
  <2> DEFINE e == Deleted(g[m], nodes[m + 1], g[m].value_map[nodes[m + 1]])
             h == [i \in 0..(m + 1) |-> IF i = m + 1 THEN e ELSE g[i]]
  <2> HIDE DEF e
  <2>2. m \in Nat
    OBVIOUS
  <2>3. h[0] = s
    BY <2>1, <2>2 DEF DeletesTo
  <2>4. ASSUME NEW i \in 1..(m + 1)
        PROVE  h[i] = Deleted(h[i - 1], nodes[i], h[i - 1].value_map[nodes[i]])
    <3>1. h[i - 1] = g[i - 1]
      BY <2>2
    <3>2. CASE i = m + 1
      <4>1. h[i] = e /\ i - 1 = m
        BY <2>2, <3>2
      <4>2. QED
        BY <3>1, <3>2, <4>1 DEF e
    <3>3. CASE i # m + 1
      <4>1. i \in 1..m /\ h[i] = g[i]
        BY <2>2, <3>3
      <4>2. g[i] = Deleted(g[i - 1], nodes[i], g[i - 1].value_map[nodes[i]])
        BY <2>1, <4>1 DEF DeletesTo
      <4>3. QED
        BY <3>1, <4>1, <4>2
    <3>4. QED
      BY <3>2, <3>3
  <2>5. DeletesTo(s, nodes, m + 1, h)
    <3> HIDE DEF h
    <3>1. QED
      BY <2>3, <2>4 DEF DeletesTo
  <2>6. QED
    BY <2>2, <2>5
<1> HIDE DEF N
<1>3. N = Nat
  <2>1. N \in SUBSET Nat
    BY DEF N
  <2>2. QED
    BY <1>1, <1>2, <2>1, NatSet
<1>4. QED
  BY <1>3 DEF N

LEMMA DeletesUnique ==
  ASSUME NEW s, NEW nodes, NEW m \in Nat, NEW n \in Nat, m <= n,
         NEW g, DeletesTo(s, nodes, m, g), NEW h, DeletesTo(s, nodes, n, h)
  PROVE  g[m] = h[m]
<1> DEFINE N == {k \in Nat : k <= m => g[k] = h[k]}
<1>1. 0 \in N
  BY DEF DeletesTo
<1>2. ASSUME NEW k \in N PROVE k + 1 \in N
  <2> SUFFICES ASSUME k + 1 <= m PROVE g[k + 1] = h[k + 1]
    OBVIOUS
  <2>1. k \in Nat /\ g[k] = h[k] /\ k + 1 \in 1..m /\ k + 1 \in 1..n /\ (k + 1) - 1 = k
    OBVIOUS
  <2>2. /\ g[k + 1] = Deleted(g[k], nodes[k + 1], g[k].value_map[nodes[k + 1]])
        /\ h[k + 1] = Deleted(h[k], nodes[k + 1], h[k].value_map[nodes[k + 1]])
    BY <2>1 DEF DeletesTo
  <2>3. QED
    BY <2>1, <2>2
<1> HIDE DEF N
<1>3. N = Nat
  <2>1. N \in SUBSET Nat
    BY DEF N
  <2>2. QED
    BY <1>1, <1>2, <2>1, NatSet
<1>4. m \in N
  BY <1>3
<1>5. QED
  BY <1>4 DEF N

LEMMA DeletedAllIs ==
  ASSUME NEW s, NEW nodes, Len(nodes) \in Nat
  PROVE  \E g : DeletesTo(s, nodes, Len(nodes), g) /\ DeletedAll(s, nodes) = g[Len(nodes)]
<1> DEFINE G(n) == CHOOSE g : DeletesTo(s, nodes, n, g)
           v == [n \in Nat |-> G(n)[n]]
<1>1. \A n \in Nat : DeletesTo(s, nodes, n, G(n))
  BY DeletesExist
<1> HIDE DEF G
<1>2. ASSUME NEW n \in Nat
      PROVE  v[n] = IF n = 0 THEN s
                    ELSE Deleted(v[n - 1], nodes[n], v[n - 1].value_map[nodes[n]])
  <2>1. CASE n = 0
    BY <1>1, <2>1 DEF DeletesTo
  <2>2. CASE n # 0
    <3>1. n \in 1..n /\ n - 1 \in Nat /\ n - 1 <= n
      BY <2>2
    <3>2. G(n)[n] = Deleted(G(n)[n - 1], nodes[n], G(n)[n - 1].value_map[nodes[n]])
      BY <1>1, <3>1 DEF DeletesTo
    <3>3. G(n - 1)[n - 1] = G(n)[n - 1]
      BY <1>1, <3>1, DeletesUnique
    <3>4. v[n] = G(n)[n] /\ v[n - 1] = G(n - 1)[n - 1]
      BY <3>1
    <3>5. QED
      BY <2>2, <3>2, <3>3, <3>4
  <2>3. QED
    BY <2>1, <2>2
<1> DEFINE F(w, n) ==
             IF n = 0 THEN s ELSE Deleted(w[n - 1], nodes[n], w[n - 1].value_map[nodes[n]])
           after == CHOOSE w : w = [n \in Nat |-> F(w, n)]
<1>3. v = [n \in Nat |-> F(v, n)]
  <2>1. v = [n \in Nat |-> v[n]]
    OBVIOUS
  <2>2. \A n \in Nat : v[n] = F(v, n)
    BY <1>2
  <2> HIDE DEF v, F
  <2>3. QED
    BY <2>1, <2>2
<1>4. after = [n \in Nat |-> F(after, n)]
  <2> HIDE DEF v, F
  <2>1. QED
    BY <1>3
<1>5. DeletedAll(s, nodes) = after[Len(nodes)]
  BY DEF DeletedAll
<1> HIDE DEF after, v
<1>6. \A n \in Nat : after[n] = F(after, n)
  <2> HIDE DEF F
  <2>1. QED
    BY <1>4
<1>7. DeletesTo(s, nodes, Len(nodes), after)
  <2>1. after[0] = s
    BY <1>6
  <2>2. ASSUME NEW i \in 1..Len(nodes)
        PROVE  after[i] = Deleted(after[i - 1], nodes[i], after[i - 1].value_map[nodes[i]])
    <3>1. i \in Nat /\ i # 0
      OBVIOUS
    <3>2. QED
      BY <1>6, <3>1
  <2>3. QED
    BY <2>1, <2>2 DEF DeletesTo
<1>8. QED
  BY <1>5, <1>7

(* The deletion of some places that follow one another.                    *)
LEMMA DeletedAllCore ==
  ASSUME NEW L, NEW s, Core(order, s, L), NEW lo \in 1..Len(L), NEW hi \in lo..Len(L),
         NEW t, t = DeletedAll(s, SubSeq(L, lo, hi))
  PROVE  \E M : /\ Cutout(L, lo, (hi - lo) + 1, M) /\ Core(order, t, M)
                /\ Held(t) = Held(s) \ {L[i] : i \in lo..hi} /\ Same(s, t, Held(t))
<1> DEFINE nodes == SubSeq(L, lo, hi)
           n == Len(L)
           c == (hi - lo) + 1
<1>1. /\ L \in Seq(Addr) /\ n \in Nat /\ lo \in Nat /\ hi \in Nat /\ 1 <= lo /\ lo <= hi
      /\ hi <= n /\ c \in Nat
  BY CoreIs
<1>2. Len(nodes) = c /\ \A r \in 1..c : nodes[r] = L[(lo + r) - 1]
  <2>1. lo \in 1 .. Len(L) + 1 /\ hi \in lo - 1 .. Len(L)
    BY <1>1
  <2>2. QED
    BY <1>1, <2>1, SubSeqIs
<1> HIDE DEF nodes, c
<1>3. PICK g : DeletesTo(s, nodes, c, g) /\ t = g[c]
  BY <1>1, <1>2, DeletedAllIs DEF nodes
<1> DEFINE Good(j, M) == /\ Cutout(L, lo, j, M) /\ Core(order, g[j], M)
                         /\ Held(g[j]) = Held(s) \ {L[i] : i \in lo .. (lo + j) - 1}
                         /\ Same(s, g[j], Held(g[j]))
           N == {j \in Nat : j <= c => \E M : Good(j, M)}
<1>4. 0 \in N
  <2>1. g[0] = s
    BY <1>3 DEF DeletesTo
  <2>2. Cutout(L, lo, 0, L)
    BY <1>1 DEF Cutout
  <2>3. {L[i] : i \in lo .. (lo + 0) - 1} = {}
    BY <1>1
  <2>4. Same(s, s, Held(s))
    BY DEF Same
  <2>5. Good(0, L)
    BY <2>1, <2>2, <2>3, <2>4
  <2>6. QED
    BY <2>5
<1>5. ASSUME NEW j \in N PROVE j + 1 \in N
  <2> SUFFICES ASSUME j + 1 <= c PROVE \E M : Good(j + 1, M)
    OBVIOUS
  <2>1. j \in Nat /\ j <= c
    BY <1>1
  <2>2. PICK M : Good(j, M)
    BY <2>1
  <2> DEFINE r == g[j]
             q == g[j + 1]
  <2>3. /\ M \in Seq(Addr) /\ Len(M) = n - j
        /\ \A i \in 1 .. lo - 1 : M[i] = L[i]
        /\ \A i \in lo .. n - j : M[i] = L[i + j]
    BY <2>2 DEF Cutout
  <2>4. lo \in 1..Len(M) /\ lo \in lo .. n - j /\ (lo + j) + 1 <= n + 1
    BY <1>1, <2>1, <2>3 DEF c
  <2>5. nodes[j + 1] = M[lo] /\ M[lo] = L[lo + j]
    <3>1. j + 1 \in 1..c /\ (lo + (j + 1)) - 1 = lo + j
      BY <1>1, <2>1
    <3>2. QED
      BY <1>2, <2>3, <2>4, <3>1
  <2>6. q = Deleted(r, M[lo], r.value_map[M[lo]])
    <3>1. j + 1 \in 1..c /\ (j + 1) - 1 = j
      BY <1>1, <2>1
    <3>2. QED
      BY <1>3, <2>5, <3>1 DEF DeletesTo
  <2>7. Core(order, r, M) /\ Held(r) = Held(s) \ {L[i] : i \in lo .. (lo + j) - 1}
        /\ Same(s, r, Held(r))
    BY <2>2
  <2> HIDE DEF r, q
  <2>8. PICK K : /\ Cutout(M, lo, 1, K) /\ Core(order, q, K)
                 /\ Held(q) = Held(r) \ {M[lo]} /\ Same(r, q, Held(q))
    BY <2>4, <2>6, <2>7, DeletedCore
  <2>9. Cutout(L, lo, j + 1, K)
    <3>1. /\ K \in Seq(Addr) /\ Len(K) = Len(M) - 1
          /\ \A i \in 1 .. lo - 1 : K[i] = M[i]
          /\ \A i \in lo .. Len(M) - 1 : K[i] = M[i + 1]
      BY <2>8 DEF Cutout
    <3>2. Len(K) = n - (j + 1)
      BY <1>1, <2>1, <2>3, <3>1
    <3>3. ASSUME NEW i \in lo .. n - (j + 1) PROVE K[i] = L[i + (j + 1)]
      <4>1. i \in lo .. Len(M) - 1 /\ i + 1 \in lo .. n - j /\ (i + 1) + j = i + (j + 1)
        BY <1>1, <2>1, <2>3
      <4>2. QED
        BY <2>3, <3>1, <4>1
    <3>4. QED
      BY <2>3, <3>1, <3>2, <3>3 DEF Cutout
  <2>10. Held(q) = Held(s) \ {L[i] : i \in lo .. (lo + (j + 1)) - 1}
    <3>1. \A i : i \in lo .. (lo + (j + 1)) - 1 <=> i \in lo .. (lo + j) - 1 \/ i = lo + j
      BY <1>1, <2>1
    <3>2. {L[i] : i \in lo .. (lo + (j + 1)) - 1} = {L[i] : i \in lo .. (lo + j) - 1} \cup {L[lo + j]}
      BY <3>1
    <3>3. QED
      BY <2>5, <2>7, <2>8, <3>2
  <2>11. Same(s, q, Held(q))
    BY <2>7, <2>8 DEF Same
  <2>12. Good(j + 1, K)
    BY <2>8, <2>9, <2>10, <2>11 DEF q
  <2>13. QED
    BY <2>12
<1> HIDE DEF N
<1>6. c \in N
  <2>1. N \in SUBSET Nat
    BY DEF N
  <2>2. N = Nat
    BY <1>4, <1>5, <2>1, NatSet
  <2>3. QED
    BY <1>1, <2>2
<1>7. PICK M : Good(c, M)
  BY <1>1, <1>6 DEF N
<1>8. (lo + c) - 1 = hi
  BY <1>1 DEF c
<1>9. QED
  BY <1>3, <1>7, <1>8 DEF c

-----------------------------------------------------------------------------
(* Queries. The way down ends at the last place before the cut.            *)
LEMMA PathEnds ==
  ASSUME NEW s, Typed(s), NEW L, Listing(s, L), NEW ahead, NEW k, IsCut(L, ahead, k)
  PROVE  /\ Path(s, ahead)[1] = Spot(L, k) /\ 1 \in DOMAIN Path(s, ahead)
         /\ DOMAIN Path(s, ahead) = 1..s.level /\ s.level \in Nat
         /\ \A l \in 1..s.level : /\ Path(s, ahead)[l].rank \in 0..k
                                  /\ Path(s, ahead)[l].at = At(L, Path(s, ahead)[l].rank)
         /\ k \in 0..Len(L) /\ Len(L) \in Nat
<1> DEFINE path == Path(s, ahead)
           n == Len(L)
<1>1. s.level \in 1..MaxLevel /\ MaxLevel \in Nat /\ NodesOf(s, L) /\ n \in Nat
  BY TypedIs, Constants DEF Listing, NodesOf
<1>2. k \in 0..n
  BY DEF IsCut
<1>3. path \in Seq([at : DOMAIN s.mem, rank : Nat]) /\ Len(path) = s.level
      /\ \A l \in 1..s.level : LeftAtCut(s, L, l, k, path[l])
  BY PathIs
<1>4. DOMAIN path = 1..s.level
  BY <1>3
<1> HIDE DEF path
<1>5. ASSUME NEW l \in 1..s.level
      PROVE  path[l].rank \in 0..k /\ path[l].at = At(L, path[l].rank)
             /\ path[l] = Spot(L, path[l].rank)
             /\ \A i \in path[l].rank + 1 .. k : ~High(s, L, i, l)
  BY <1>3 DEF LeftAtCut, LastHigh, Spot
<1>6. High(s, L, k, 1)
  <2>1. s.mem[At(L, k)] \in AnyNode
    BY <1>1, <1>2, AtIs, TypedIs
  <2>2. s.mem[At(L, k)].levelSize \in 1..MaxLevel
    BY <2>1, NodeIs
  <2>3. QED
    BY <2>2 DEF High
<1>7. 1 \in 1..s.level
  BY <1>1
<1>8. path[1].rank = k
  <2>1. path[1].rank \in 0..k /\ \A i \in path[1].rank + 1 .. k : ~High(s, L, i, 1)
    BY <1>5, <1>7
  <2>2. path[1].rank # k => k \in path[1].rank + 1 .. k
    BY <1>1, <1>2, <2>1
  <2>3. QED
    BY <1>6, <2>1, <2>2
<1>9. QED
  BY <1>1, <1>2, <1>4, <1>5, <1>7, <1>8 DEF path

(* The first r places, by their ranks.                                     *)
LEMMA RankCut ==
  ASSUME NEW L \in Seq(Addr), NEW r \in 0..Len(L)
  PROVE  /\ IsCut(L, {x \in Place : x.rank <= r}, r)
         /\ IsCut(L, {x \in Place : x.rank < r + 1}, r)
<1>1. Len(L) \in Nat /\ \A j \in 1..Len(L) : L[j] \in Addr
  OBVIOUS
<1>2. ASSUME NEW j \in 1..Len(L)
      PROVE  Spot(L, j) \in Place /\ Spot(L, j).rank = j
  <2>1. Spot(L, j) = [at |-> L[j], rank |-> j]
    BY <1>1 DEF Spot, At
  <2>2. QED
    BY <1>1, <2>1 DEF Place
<1>3. IsCut(L, {x \in Place : x.rank <= r}, r)
  BY <1>2 DEF IsCut
<1>4. ASSUME NEW j \in 1..Len(L)
      PROVE  Spot(L, j) \in {x \in Place : x.rank < r + 1} <=> j <= r
  <2>1. j < r + 1 <=> j <= r
    BY <1>1
  <2>2. QED
    BY <1>2, <2>1
<1>5. IsCut(L, {x \in Place : x.rank < r + 1}, r)
  BY <1>4 DEF IsCut
<1>6. QED
  BY <1>3, <1>5

LEMMA NodeByRank ==
  ASSUME NEW s, Typed(s), NEW L, Listing(s, L), NEW r \in 1..Len(L)
  PROVE  SlGetNodeByRank(s, r) = L[r]
<1> DEFINE ahead == {x \in Place : x.rank <= r}
           path == Path(s, ahead)
           hits == {l \in DOMAIN path : path[l].rank = r}
<1>1. L \in Seq(Addr) /\ Len(L) \in Nat
  BY DEF Listing, NodesOf
<1>2. IsCut(L, ahead, r)
  <2>1. r \in 0..Len(L)
    BY <1>1
  <2>2. QED
    BY <1>1, <2>1, RankCut
<1>3. SlGetNodeByRank(s, r) = IF hits = {} THEN Nil ELSE path[Max(hits)].at
  BY DEF SlGetNodeByRank
<1> HIDE DEF ahead
<1>4. /\ path[1] = Spot(L, r) /\ 1 \in DOMAIN path /\ DOMAIN path = 1..s.level /\ s.level \in Nat
      /\ \A l \in 1..s.level : path[l].at = At(L, path[l].rank)
  BY <1>2, PathEnds
<1> HIDE DEF path
<1>5. 1 \in hits /\ hits \in SUBSET Int /\ \A l \in hits : l <= s.level
  <2>1. path[1].rank = r
    BY <1>4 DEF Spot
  <2>2. QED
    BY <1>4, <2>1
<1> HIDE DEF hits
<1>6. Max(hits) \in hits
  <2>1. s.level \in Int /\ hits # {}
    BY <1>4, <1>5
  <2>2. QED
    BY <1>5, <2>1, MaxOf
<1>7. path[Max(hits)].at = At(L, r)
  BY <1>4, <1>6 DEF hits
<1>8. QED
  BY <1>1, <1>3, <1>5, <1>7 DEF At

LEMMA GetByRankIs ==
  ASSUME NEW s, Typed(s), NEW L, Listing(s, L), NEW r \in 1..Len(L)
  PROVE  GetByRank(s, r) = L[r]
<1>1. L \in Seq(Addr) /\ Len(L) \in Nat /\ s.size = Len(L) /\ BackLinks(s, L) /\ NodesOf(s, L)
  BY DEF Listing, NodesOf
<1>2. s.mem[SlHead].next[1] = L[1]
  <2>1. 0 \in 0..Len(L) /\ At(L, 0) = SlHead /\ 0 + 1 = 1 /\ ~(1 > Len(L))
    BY <1>1 DEF At
  <2>2. s.mem[At(L, 0)].next[1] = Entry(L, 0 + 1)
    BY <2>1, NextOne
  <2>3. QED
    BY <2>1, <2>2 DEF Entry
<1>3. s.tail = L[Len(L)]
  BY <1>1 DEF BackLinks
<1>4. QED
  BY <1>1, <1>2, <1>3, NodeByRank DEF GetByRank

(* A part of a part of a sequence.                                         *)
LEMMA SubSeqPart ==
  ASSUME NEW S, NEW q \in Seq(S), NEW i \in 1 .. Len(q), NEW e \in i .. Len(q)
  PROVE  SubSeq(SubSeq(q, i, Len(q)), 1, (e - i) + 1) = SubSeq(q, i, e)
<1> DEFINE n == Len(q)
           m == (n - i) + 1
           c == (e - i) + 1
           a == SubSeq(q, i, n)
           b == SubSeq(a, 1, c)
           d == SubSeq(q, i, e)
<1>1. n \in Nat /\ i \in Nat /\ e \in Nat /\ i >= 1 /\ i <= e /\ e <= n
      /\ m \in Nat /\ c \in Nat /\ c <= m /\ c >= 1
  OBVIOUS
<1>2. a \in Seq(S) /\ Len(a) = m /\ \A r \in 1..m : a[r] = q[(i + r) - 1]
  <2>1. i \in 1 .. n + 1 /\ n \in i - 1 .. n
    BY <1>1
  <2>2. QED
    BY <2>1, SubSeqIs
<1>3. d \in Seq(S) /\ Len(d) = c /\ \A r \in 1..c : d[r] = q[(i + r) - 1]
  <2>1. i \in 1 .. n + 1 /\ e \in i - 1 .. n
    BY <1>1
  <2>2. QED
    BY <2>1, SubSeqIs
<1> HIDE DEF m, c, a, d
<1>4. b \in Seq(S) /\ Len(b) = c /\ \A r \in 1..c : b[r] = a[r]
  <2>1. 1 \in 1 .. Len(a) + 1 /\ c \in 1 - 1 .. Len(a) /\ (c - 1) + 1 = c
    BY <1>1, <1>2
  <2>2. b \in Seq(S) /\ Len(b) = (c - 1) + 1 /\ \A r \in 1..(c - 1) + 1 : b[r] = a[(1 + r) - 1]
    BY <1>2, <2>1, SubSeqIs
  <2>3. \A r \in 1..c : (1 + r) - 1 = r
    BY <1>1
  <2>4. QED
    BY <2>1, <2>2, <2>3
<1> HIDE DEF b
<1>5. ASSUME NEW r \in 1..c PROVE b[r] = d[r]
  <2>1. r \in 1..m
    BY <1>1
  <2>2. QED
    BY <1>2, <1>3, <1>4, <2>1
<1>6. b = d
  BY <1>3, <1>4, <1>5, SeqEqual
<1>7. QED
  BY <1>6 DEF a, b, c, d

LEMMA RankRangeIs ==
  ASSUME Typed(sl), NEW L, Listing(sl, L), NEW lo \in 1..Len(L), NEW hi \in lo..Len(L)
  PROVE  RankRange(lo, hi) = SubSeq(L, lo, hi)
<1> DEFINE n == Len(L)
           nodes == From(sl, SlGetNodeByRank(sl, lo), Nil)
           c == (hi - lo) + 1
<1>1. L \in Seq(Addr) /\ n \in Nat /\ lo \in Nat /\ hi \in Nat /\ lo >= 1 /\ lo <= hi /\ hi <= n
  BY DEF Listing, NodesOf
<1>2. nodes = SubSeq(L, lo, n)
  <2>1. Entry(L, lo) = L[lo] /\ Entry(L, n + 1) = Nil /\ lo \in 1 .. n + 1
        /\ n + 1 \in lo .. n + 1 /\ (n + 1) - 1 = n
    BY <1>1 DEF Entry
  <2>2. From(sl, Entry(L, lo), Entry(L, n + 1)) = SubSeq(L, lo, (n + 1) - 1)
    BY <2>1, FromIs
  <2>3. QED
    BY <2>1, <2>2, NodeByRank
<1>3. Len(nodes) = (n - lo) + 1
  <2>1. lo \in 1 .. n + 1 /\ n \in lo - 1 .. n
    BY <1>1
  <2>2. QED
    BY <1>1, <1>2, <2>1, SubSeqIs
<1>4. Min({hi - lo + 1, Len(nodes)}) = c
  <2> DEFINE S == {hi - lo + 1, Len(nodes)}
  <2>1. c \in S /\ S \in SUBSET Nat /\ \A x \in S : c <= x
    BY <1>1, <1>3
  <2> HIDE DEF S, c
  <2>2. Min(S) \in S /\ \A x \in S : Min(S) <= x
    BY <2>1, MinOf
  <2>3. Min(S) \in Nat /\ c \in Nat /\ Min(S) <= c /\ c <= Min(S)
    BY <2>1, <2>2
  <2> HIDE DEF nodes
  <2>4. Min(S) = c
    BY <2>3
  <2>5. QED
    BY <2>4 DEF S
<1>5. RankRange(lo, hi) = SubSeq(nodes, 1, c)
  BY <1>4 DEF RankRange
<1>6. QED
  BY <1>1, <1>2, <1>5, SubSeqPart

(* The nodes of a range of ranks, that slDeleteByRankRange deletes.        *)
LEMMA VictimsIs ==
  ASSUME Typed(sl), NEW L, Listing(sl, L), NEW lo \in 1..Len(L), NEW hi \in lo..Len(L)
  PROVE  Victims(lo, hi) = SubSeq(L, lo, hi)
<1> DEFINE n == Len(L)
           last == Path(sl, {x \in Place : x.rank < lo})[1]
           nodes == From(sl, sl.mem[last.at].next[1], Nil)
<1>1. L \in Seq(Addr) /\ n \in Nat /\ lo \in Nat /\ hi \in Nat /\ lo >= 1 /\ lo <= hi /\ hi <= n
  BY DEF Listing, NodesOf
<1>2. lo - 1 \in 0..n /\ (lo - 1) + 1 = lo
  BY <1>1
<1>3. last = Spot(L, lo - 1)
  <2>1. IsCut(L, {x \in Place : x.rank < (lo - 1) + 1}, lo - 1)
    BY <1>1, <1>2, RankCut
  <2>2. IsCut(L, {x \in Place : x.rank < lo}, lo - 1)
    BY <1>2, <2>1
  <2>3. QED
    BY <2>2, PathEnds
<1>4. last.at = At(L, lo - 1) /\ last.rank = lo - 1
  BY <1>3 DEF Spot
<1>5. Victims(lo, hi) = SubSeq(nodes, 1, hi - last.rank)
  BY DEF Victims
<1> HIDE DEF last
<1>6. sl.mem[last.at].next[1] = Entry(L, lo)
  BY <1>2, <1>4, NextOne
<1>7. nodes = SubSeq(L, lo, n)
  <2>1. Entry(L, n + 1) = Nil /\ lo \in 1 .. n + 1 /\ n + 1 \in lo .. n + 1 /\ (n + 1) - 1 = n
    BY <1>1 DEF Entry
  <2>2. From(sl, Entry(L, lo), Entry(L, n + 1)) = SubSeq(L, lo, (n + 1) - 1)
    BY <2>1, FromIs
  <2>3. QED
    BY <1>6, <2>1, <2>2
<1>8. hi - last.rank = (hi - lo) + 1
  BY <1>1, <1>4
<1>9. QED
  BY <1>1, <1>5, <1>7, <1>8, SubSeqPart

LEMMA RankInIs ==
  ASSUME NEW L, Core(order, sl, L), NEW m \in 1..Len(L)
  PROVE  RankIn(L[m]) = m
<1>1. L \in Seq(Addr) /\ Line(sl) = L /\ \A i, j \in 1..Len(L) : L[i] = L[j] => i = j
  BY CoreIs
<1>2. DOMAIN L = 1..Len(L)
  BY <1>1
<1>3. RankIn(L[m]) = CHOOSE r \in 1..Len(L) : L[r] = L[m]
  BY <1>1, <1>2 DEF RankIn
<1>4. QED
  BY <1>1, <1>3

(* Only by a Lua function, and only a node of score 0 equals the head.     *)
LEMMA CompHead ==
  ASSUME order \in Orders, NEW s, Typed(s), Tables(s), NEW a \in Held(s),
         Comp(s, SlHead, a) = 0
  PROVE  order = "lua" /\ s.mem[a].score = 0
<1> DEFINE y == s.mem[a].score
           q == s.value_map[a]
           p == s.value_map[SlHead]
<1>1. y \in Int /\ a \in Nat \ {0} /\ SlHead = 0 /\ a # SlHead /\ s.mem[SlHead].score = 0
  BY HeldIs, TypedIs, Constants
<1>2. /\ Comp(s, SlHead, a) = IF order = "lua" THEN CompInLua(s, SlHead, a)
                              ELSE CompByScore(s, SlHead, a)
      /\ CompInLua(s, SlHead, a) = IF SlHead = a \/ (0 - y = 0 /\ SlHead \in {SlHead, a}) THEN 0
                                   ELSE IF 0 - y = 0 THEN Sign(p - q) ELSE Sign(0 - y)
      /\ CompByScore(s, SlHead, a) = IF 0 - y = 0 THEN Sign(0 - a)
                                     ELSE IF order = "desc" THEN Sign(-(0 - y)) ELSE Sign(0 - y)
  BY <1>1 DEF Comp, CompInLua, CompByScore
<1> HIDE DEF y, q, p
<1>3. /\ Sign(0 - y) = 0 <=> 0 = y
      /\ Sign(-(0 - y)) = 0 <=> 0 = y
      /\ 0 - y = 0 <=> 0 = y
      /\ Sign(0 - a) # 0
  BY <1>1, SignIs
<1>4. CASE order = "lua"
  BY <1>1, <1>2, <1>3, <1>4 DEF y
<1>5. CASE order # "lua"
  BY <1>1, <1>2, <1>3, <1>5
<1>6. QED
  BY <1>4, <1>5

(* The rank of a listed node is its place; that of one that ties with the  *)
(* head may be 0.                                                          *)
LEMMA RankIs ==
  ASSUME NEW L, NEW s, Core(order, s, L), NEW m \in 1..Len(L)
  PROVE  /\ SlGetRank(s, L[m]) \in {0, m}
         /\ SlGetRank(s, L[m]) = 0 => order = "lua" /\ s.mem[L[m]].score = 0
<1> DEFINE a == L[m]
           n == Len(L)
           ahead == {x \in Place : Comp(s, x.at, a) <= 0}
           path == Path(s, ahead)
           hits == {l \in DOMAIN path : Comp(s, path[l].at, a) = 0}
<1>1. /\ order \in Orders /\ Typed(s) /\ Tables(s) /\ Listing(s, L) /\ n \in Nat /\ m \in 1..n
      /\ \A i \in 1..n : L[i] \in Held(s) /\ L[i] \in Addr
      /\ \A i, j \in 1..n : i < j => Earlier(order, s, L[i], L[j])
      /\ \A i, j \in 1..n : L[i] = L[j] => i = j
      /\ a # Nil /\ a \in Held(s)
  BY CoreIs DEF Core
<1>2. ASSUME NEW j \in 1..n PROVE Comp(s, L[j], a) <= 0 <=> j <= m
  <2>1. /\ Comp(s, L[j], a) \in {-1, 0, 1}
        /\ Comp(s, L[j], a) < 0 <=> Earlier(order, s, L[j], a)
        /\ Comp(s, L[j], a) = 0 <=> L[j] = a
    BY <1>1, CompIs
  <2>2. Earlier(order, s, L[j], a) <=> j < m
    BY <1>1, EarlierOrders
  <2>3. L[j] = a <=> j = m
    BY <1>1
  <2> DEFINE c == Comp(s, L[j], a)
  <2> HIDE DEF c, a
  <2>4. c \in {-1, 0, 1} /\ (c < 0 <=> j < m) /\ (c = 0 <=> j = m)
    BY <2>1, <2>2, <2>3 DEF c
  <2>5. c <= 0 <=> j <= m
    BY <1>1, <2>4
  <2>6. QED
    BY <2>5 DEF c
<1>3. ASSUME NEW j \in 1..n PROVE Spot(L, j) \in ahead <=> j <= m
  <2>1. Spot(L, j) = [at |-> L[j], rank |-> j]
    BY <1>1 DEF Spot, At
  <2>2. Spot(L, j) \in Place /\ Spot(L, j).at = L[j]
    BY <1>1, <2>1 DEF Place
  <2>3. QED
    BY <1>2, <2>2
<1>4. IsCut(L, ahead, m)
  BY <1>1, <1>3 DEF IsCut
<1>5. SlGetRank(s, a) = IF hits = {} THEN 0 ELSE path[Max(hits)].rank
  BY <1>1 DEF SlGetRank
<1> HIDE DEF ahead
<1>6. /\ path[1] = Spot(L, m) /\ 1 \in DOMAIN path /\ DOMAIN path = 1..s.level /\ s.level \in Nat
      /\ \A l \in 1..s.level : path[l].rank \in 0..m /\ path[l].at = At(L, path[l].rank)
  BY <1>1, <1>4, PathEnds
<1> HIDE DEF path
<1>7. Comp(s, path[1].at, a) = 0
  <2>1. path[1].at = a
    BY <1>1, <1>6 DEF Spot, At
  <2>2. QED
    BY <1>1, <2>1, CompIs
<1>8. 1 \in hits /\ hits \in SUBSET Int /\ \A l \in hits : l <= s.level
  BY <1>6, <1>7
<1>9. ASSUME NEW l \in hits
      PROVE  path[l].rank = m \/ (path[l].rank = 0 /\ order = "lua" /\ s.mem[a].score = 0)
  <2>1. l \in 1..s.level /\ Comp(s, path[l].at, a) = 0
    BY <1>6
  <2> DEFINE r == path[l].rank
  <2>2. r \in 0..m /\ Comp(s, At(L, r), a) = 0
    BY <1>6, <2>1
  <2> HIDE DEF r
  <2>3. CASE r = 0
    BY <1>1, <2>2, <2>3, CompHead DEF At, r
  <2>4. CASE r # 0
    <3>1. r \in 1..n /\ At(L, r) = L[r]
      BY <1>1, <2>2, <2>4 DEF At
    <3>2. L[r] = a
      BY <1>1, <2>2, <3>1, CompIs
    <3>3. r = m
      BY <1>1, <3>1, <3>2
    <3>4. QED
      BY <3>3 DEF r
  <2>5. QED
    BY <2>3, <2>4
<1> HIDE DEF hits
<1>10. Max(hits) \in hits
  <2>1. s.level \in Int /\ hits # {}
    BY <1>6, <1>8
  <2>2. QED
    BY <1>8, <2>1, MaxOf
<1>11. SlGetRank(s, a) = path[Max(hits)].rank
  BY <1>5, <1>8
<1> DEFINE top == path[Max(hits)].rank
<1>12. top = m \/ (top = 0 /\ order = "lua" /\ s.mem[a].score = 0)
  BY <1>9, <1>10
<1> HIDE DEF top, a
<1>13. SlGetRank(s, a) = top /\ m # 0
  BY <1>1, <1>11 DEF top
<1>14. QED
  BY <1>12, <1>13 DEF a

(* The places of a list that is not descending whose scores are below one, *)
(* or not above one, are the first ones.                                   *)
LEMMA ScoreCuts ==
  ASSUME NEW L, NEW s, Core(order, s, L), order # "desc", NEW z \in Int
  PROVE  \E k \in 0..Len(L) :
           /\ IsCut(L, {x \in Place : s.mem[x.at].score < z}, k)
           /\ \A j \in 1..Len(L) : s.mem[L[j]].score < z <=> j <= k
<1> DEFINE n == Len(L)
           T == {j \in 1..n : s.mem[L[j]].score < z}
<1>1. /\ order \in Orders /\ Typed(s) /\ Tables(s) /\ n \in Nat
      /\ \A i \in 1..n : L[i] \in Held(s) /\ L[i] \in Addr
      /\ \A i, j \in 1..n : i < j => Earlier(order, s, L[i], L[j])
  BY CoreIs DEF Core
<1>2. \A i \in 1..n : s.mem[L[i]].score \in Int
  BY <1>1, HeldIs
<1>3. ASSUME NEW i \in 1..n, NEW j \in 1..n, j < i
      PROVE  s.mem[L[j]].score <= s.mem[L[i]].score
  <2>1. Earlier(order, s, L[j], L[i])
    BY <1>1, <1>3
  <2> DEFINE x == s.mem[L[j]].score
             y == s.mem[L[i]].score
  <2>2. x \in Int /\ y \in Int
    BY <1>2
  <2>3. x < y \/ x = y
    BY <2>1 DEF Earlier, Lower, Key
  <2> HIDE DEF x, y
  <2>4. x <= y
    BY <2>2, <2>3
  <2>5. QED
    BY <2>4 DEF x, y
<1>4. T \in SUBSET (1..n)
  OBVIOUS
<1>5. ASSUME NEW i \in T, NEW j \in 1..n, j < i PROVE j \in T
  <2> DEFINE x == s.mem[L[j]].score
             y == s.mem[L[i]].score
  <2>1. i \in 1..n /\ y < z
    OBVIOUS
  <2>2. x \in Int /\ y \in Int /\ x <= y
    BY <1>2, <1>3, <1>5, <2>1
  <2> HIDE DEF x, y
  <2>3. x < z
    BY <2>1, <2>2
  <2>4. QED
    BY <2>3 DEF x
<1>6. \E k \in 0..n : \A j \in 1..n : j \in T <=> j <= k
  <2> HIDE DEF T, n
  <2>1. QED
    BY <1>1, <1>4, <1>5, CutExists
<1>7. PICK k \in 0..n : \A j \in 1..n : j \in T <=> j <= k
  BY <1>6
<1>8. \A j \in 1..n : s.mem[L[j]].score < z <=> j <= k
  BY <1>7
<1>9. ASSUME NEW j \in 1..n
      PROVE  Spot(L, j) \in {x \in Place : s.mem[x.at].score < z} <=> j <= k
  <2>1. Spot(L, j) = [at |-> L[j], rank |-> j]
    BY <1>1 DEF Spot, At
  <2>2. Spot(L, j) \in Place /\ Spot(L, j).at = L[j]
    BY <1>1, <2>1 DEF Place
  <2>3. QED
    BY <1>8, <2>2
<1>10. IsCut(L, {x \in Place : s.mem[x.at].score < z}, k)
  BY <1>9 DEF IsCut
<1>11. QED
  BY <1>8, <1>10

LEMMA ScoreRangeIs ==
  ASSUME NEW L, Core(order, sl, L), order # "desc",
         NEW min \in Int, NEW max \in Int, min <= max
  PROVE  \E lo \in 1 .. Len(L) + 1, hi \in 0 .. Len(L) :
           /\ \A i \in 1..Len(L) : sl.mem[L[i]].score \in min..max <=> i \in lo..hi
           /\ ScoreRange(min, max).nodes = SubSeq(L, lo, hi)
           /\ lo <= hi => /\ ScoreRange(min, max).first = SlGetRank(sl, L[lo])
                          /\ ScoreRange(min, max).last
                               = SlGetRank(sl, L[lo]) + ((hi - lo) + 1) - 1
<1> DEFINE n == Len(L)
           score(j) == sl.mem[L[j]].score
           under == {x \in Place : sl.mem[x.at].score < min}
           upto == {x \in Place : sl.mem[x.at].score <= max}
<1>1. /\ order \in Orders /\ Typed(sl) /\ Tables(sl) /\ Listing(sl, L) /\ n \in Nat
      /\ L \in Seq(Addr) /\ \A i \in 1..n : L[i] \in Held(sl) /\ L[i] \in Addr
      /\ \A i, j \in 1..n : i < j => Earlier(order, sl, L[i], L[j])
  BY CoreIs DEF Core
<1>2. \A i \in 1..n : score(i) \in Int
  BY <1>1, HeldIs
<1>3. PICK k \in 0..n : IsCut(L, under, k) /\ \A j \in 1..n : score(j) < min <=> j <= k
  BY ScoreCuts
<1>4. max + 1 \in Int
  OBVIOUS
<1>5. PICK h \in 0..n : /\ IsCut(L, {x \in Place : sl.mem[x.at].score < max + 1}, h)
                        /\ \A j \in 1..n : score(j) < max + 1 <=> j <= h
  BY <1>4, ScoreCuts
<1>6. \A j \in 1..n : score(j) <= max <=> j <= h
  <2> SUFFICES ASSUME NEW j \in 1..n PROVE score(j) <= max <=> j <= h
    OBVIOUS
  <2>1. score(j) \in Int /\ (score(j) < max + 1 <=> j <= h)
    BY <1>2, <1>5
  <2> HIDE DEF score
  <2>2. score(j) < max + 1 <=> score(j) <= max
    BY <2>1
  <2>3. QED
    BY <2>1, <2>2
<1>7. ASSUME NEW j \in 1..n PROVE Spot(L, j) \in upto <=> j <= h
  <2>1. Spot(L, j) = [at |-> L[j], rank |-> j]
    BY <1>1 DEF Spot, At
  <2>2. Spot(L, j) \in Place /\ Spot(L, j).at = L[j]
    BY <1>1, <2>1 DEF Place
  <2>3. QED
    BY <1>6, <2>2
<1>8. IsCut(L, upto, h)
  BY <1>7 DEF IsCut
<1>9. k <= h
  <2> SUFFICES ASSUME ~(k <= h) PROVE FALSE
    OBVIOUS
  <2>1. k \in 1..n /\ k <= k
    BY <1>1
  <2>2. score(k) < min /\ ~(score(k) <= max) /\ score(k) \in Int
    BY <1>2, <1>3, <1>6, <2>1
  <2> HIDE DEF score
  <2>3. QED
    BY <2>2
<1>10. ASSUME NEW i \in 1..n PROVE score(i) \in min..max <=> i \in k + 1 .. h
  <2>1. /\ score(i) \in Int /\ (score(i) < min <=> i <= k) /\ (score(i) <= max <=> i <= h)
        /\ k \in Int /\ h \in Int /\ i \in Int
    BY <1>1, <1>2, <1>3, <1>6
  <2> HIDE DEF score
  <2>2. QED
    BY <2>1
<1> DEFINE first == SlFirstGEThan(sl, min)
           nodes == From(sl, first, sl.mem[SlLastLEThan(sl, max)].next[1])
           rank == SlGetRank(sl, first)
<1>11. ScoreRange(min, max) = [nodes |-> nodes, first |-> rank, last |-> rank + Len(nodes) - 1]
  BY DEF ScoreRange
<1>12. first = Entry(L, k + 1)
  <2>1. Path(sl, under)[1] = Spot(L, k)
    BY <1>1, <1>3, PathEnds
  <2>2. Path(sl, under)[1].at = At(L, k)
    BY <2>1 DEF Spot
  <2>3. first = sl.mem[At(L, k)].next[1]
    BY <2>2 DEF SlFirstGEThan
  <2>4. QED
    BY <1>1, <2>3, NextOne
<1>13. sl.mem[SlLastLEThan(sl, max)].next[1] = Entry(L, h + 1)
  <2>1. Path(sl, upto)[1] = Spot(L, h)
    BY <1>1, <1>8, PathEnds
  <2>2. Path(sl, upto)[1].at = At(L, h)
    BY <2>1 DEF Spot
  <2>3. SlLastLEThan(sl, max) = At(L, h)
    BY <2>2 DEF SlLastLEThan
  <2>4. QED
    BY <1>1, <2>3, NextOne
<1>14. nodes = SubSeq(L, k + 1, h)
  <2>1. k + 1 \in 1 .. n + 1 /\ h + 1 \in k + 1 .. n + 1 /\ (h + 1) - 1 = h
    BY <1>1, <1>9
  <2>2. From(sl, Entry(L, k + 1), Entry(L, h + 1)) = SubSeq(L, k + 1, (h + 1) - 1)
    BY <1>1, <2>1, FromIs
  <2>3. QED
    BY <1>12, <1>13, <2>1, <2>2
<1>15. Len(nodes) = (h - (k + 1)) + 1
  <2>1. k + 1 \in 1 .. n + 1 /\ h \in (k + 1) - 1 .. n
    BY <1>1, <1>9
  <2>2. QED
    BY <1>1, <1>14, <2>1, SubSeqIs
<1>16. k + 1 <= h => first = L[k + 1]
  BY <1>1, <1>12 DEF Entry
<1> HIDE DEF nodes, first
<1>17. /\ ScoreRange(min, max).nodes = SubSeq(L, k + 1, h)
       /\ ScoreRange(min, max).first = SlGetRank(sl, first)
       /\ ScoreRange(min, max).last = SlGetRank(sl, first) + ((h - (k + 1)) + 1) - 1
  BY <1>11, <1>14, <1>15
<1>18. k + 1 \in 1 .. n + 1 /\ h \in 0..n
  BY <1>1
<1>19. QED
  BY <1>10, <1>16, <1>17, <1>18

-----------------------------------------------------------------------------
(* What the operations of the userdata make of a sound list.               *)
LEMMA InsertedCore ==
  ASSUME NEW L, NEW s, Core(order, s, L), NEW a \in Addr \ DOMAIN s.mem,
         NEW v \in Value, s.node_map[v] = Nil, NEW score \in Score, NEW h \in 1..MaxLevel,
         NEW t, t = SlInsertNode(Created(s, a, v, score, h), a)
  PROVE  \E M : \E k \in 0..Len(L) :
           /\ With(L, k, a, M) /\ Core(order, t, M)
           /\ Held(t) = Held(s) \cup {a} /\ a \notin Held(s) /\ Same(s, t, Held(s))
           /\ t.mem[a].score = score /\ t.value_map[a] = v
<1> DEFINE q == Created(s, a, v, score, h)
<1>1. /\ Core(order, q, L)
      /\ a \in Held(q) /\ Held(q) = Held(s) \cup {a} /\ \A i \in 1..Len(L) : L[i] # a
      /\ q.mem[a].score = score /\ q.value_map[a] = v
      /\ \A p \in Held(s) : /\ q.mem[p].score = s.mem[p].score
                            /\ q.value_map[p] = s.value_map[p]
  BY CreatedCore
<1> HIDE DEF q
<1>2. PICK M : \E k \in 0..Len(L) :
           /\ With(L, k, a, M)
           /\ Core(order, SlInsertNode(q, a), M)
           /\ Kept(q, SlInsertNode(q, a))
  BY <1>1, InsertCore
<1>3. t = SlInsertNode(q, a)
  BY DEF q
<1>4. Kept(q, t)
  BY <1>2, <1>3
<1>5. Held(t) = Held(s) \cup {a} /\ a \notin Held(s)
  BY <1>1, <1>4, KeptIs DEF Held
<1>6. \A p \in Held(q) : t.mem[p].score = q.mem[p].score /\ t.value_map[p] = q.value_map[p]
  BY <1>4 DEF Kept, Held
<1>7. Same(s, t, Held(s)) /\ t.mem[a].score = score /\ t.value_map[a] = v
  BY <1>1, <1>6 DEF Same
<1>8. QED
  BY <1>2, <1>3, <1>5, <1>7

(* A node is taken out and gets another score.                             *)
LEMMA TakenCore ==
  ASSUME NEW L, NEW s, Core(order, s, L), NEW m \in 1..Len(L), NEW score \in Score,
         NEW t, t = Scored(SlDeleteNode(s, L[m]), L[m], score)
  PROVE  \E N : /\ Cutout(L, m, 1, N) /\ Core(order, t, N)
                /\ L[m] \in Held(t) /\ \A i \in 1..Len(N) : N[i] # L[m]
                /\ Held(t) = Held(s) /\ t.mem[L[m]].score = score
                /\ t.value_map = s.value_map
                /\ \A p \in Held(s) \ {L[m]} : t.mem[p].score = s.mem[p].score
<1> DEFINE a == L[m]
           n == Len(L)
           q == SlDeleteNode(s, a)
<1>1. /\ L \in Seq(Addr) /\ n \in Nat /\ a \in Held(s)
      /\ \A i, j \in 1..n : L[i] = L[j] => i = j
  BY CoreIs
<1>2. PICK N \in Seq(Addr) : m - 1 \in 0..Len(N) /\ With(N, m - 1, a, L)
  BY <1>1, WithoutExists
<1>3. Core(order, q, N) /\ Kept(s, q)
  BY <1>2, DeleteCore
<1>4. /\ n = Len(N) + 1 /\ \A i \in 1 .. m - 1 : L[i] = N[i]
      /\ \A i \in (m - 1) + 1 .. Len(N) : L[i + 1] = N[i]
  BY <1>2 DEF With
<1>5. Len(N) \in Nat
  BY <1>2
<1>6. Cutout(L, m, 1, N)
  <2>1. Len(N) = n - 1 /\ (m - 1) + 1 = m
    BY <1>1, <1>4, <1>5
  <2>2. QED
    BY <1>2, <1>4, <2>1 DEF Cutout
<1>7. \A i \in 1..Len(N) : N[i] # a
  <2> SUFFICES ASSUME NEW i \in 1..Len(N) PROVE N[i] # a
    OBVIOUS
  <2>1. CASE i < m
    <3>1. i \in 1 .. m - 1 /\ i \in 1..n /\ i # m
      BY <1>1, <2>1
    <3>2. QED
      BY <1>1, <1>4, <3>1
  <2>2. CASE ~(i < m)
    <3>1. i \in (m - 1) + 1 .. Len(N) /\ i + 1 \in 1..n /\ i + 1 # m
      BY <1>1, <1>4, <1>5, <2>2
    <3>2. QED
      BY <1>1, <1>4, <3>1
  <2>3. QED
    BY <2>1, <2>2
<1> HIDE DEF a, q
<1>8. Held(q) = Held(s)
  BY <1>3, KeptIs
<1>9. t = Scored(q, a, score)
  BY DEF a, q
<1>10. /\ Core(order, t, N) /\ Held(t) = Held(q) /\ t.value_map = q.value_map
       /\ t.mem[a].score = score
       /\ \A p \in Held(q) \ {a} : t.mem[p].score = q.mem[p].score
  BY <1>1, <1>3, <1>7, <1>8, <1>9, ScoredCore
<1>11. q.value_map = s.value_map /\ \A p \in Held(s) : q.mem[p].score = s.mem[p].score
  BY <1>3 DEF Kept, Held
<1>12. QED
  BY <1>1, <1>6, <1>7, <1>8, <1>10, <1>11 DEF a

LEMMA UpdatedCore ==
  ASSUME NEW L, NEW s, Core(order, s, L), NEW m \in 1..Len(L), NEW score \in Score,
         NEW t, t = SlInsertNode(Scored(SlDeleteNode(s, L[m]), L[m], score), L[m])
  PROVE  \E N, M : \E k \in 0..Len(N) :
           /\ Cutout(L, m, 1, N) /\ With(N, k, L[m], M) /\ Core(order, t, M)
           /\ Held(t) = Held(s) /\ t.mem[L[m]].score = score
           /\ t.value_map = s.value_map
           /\ \A p \in Held(s) \ {L[m]} : t.mem[p].score = s.mem[p].score
<1> DEFINE a == L[m]
           q == Scored(SlDeleteNode(s, a), a, score)
<1>1. PICK N : /\ Cutout(L, m, 1, N) /\ Core(order, q, N)
               /\ a \in Held(q) /\ \A i \in 1..Len(N) : N[i] # a
               /\ Held(q) = Held(s) /\ q.mem[a].score = score
               /\ q.value_map = s.value_map
               /\ \A p \in Held(s) \ {a} : q.mem[p].score = s.mem[p].score
  BY TakenCore
<1>2. t = SlInsertNode(q, a)
  OBVIOUS
<1> HIDE DEF q, a
<1>3. PICK M : \E k \in 0..Len(N) : With(N, k, a, M) /\ Core(order, t, M) /\ Kept(q, t)
  BY <1>1, <1>2, InsertCore
<1>4. Kept(q, t)
  BY <1>3
<1>5. Held(t) = Held(q)
  BY <1>4, KeptIs
<1>6. t.value_map = q.value_map /\ \A p \in Held(q) : t.mem[p].score = q.mem[p].score
  BY <1>4 DEF Kept, Held
<1>7. QED
  BY <1>1, <1>3, <1>5, <1>6 DEF a

-----------------------------------------------------------------------------
(* The inductive invariant: the list is sound, for some L; unless a Lua    *)
(* function compares, no node is lost; and a loop that is in tune with the *)
(* list is at the place after the pairs it has been given and that still   *)
(* are there.                                                              *)
Unlost(o, s, L) == o # "lua" => \A p \in Held(s) : \E i \in 1..Len(L) : p = L[i]

LoopSound(i, L) ==
  /\ i \in [at : Link, last : Nat, max : Nat, gone : Nat, tame : BOOLEAN]
  /\ i.tame => i.max > 0 /\ i.last > i.gone /\ i.at = Entry(L, i.last - i.gone)

Sound(o, s, i, L) == Core(o, s, L) /\ Unlost(o, s, L) /\ LoopSound(i, L)

Crashes == /\ crashed \in {"", "comparison", "loop"}
           /\ crashed = "loop" => ~it.tame

IInv == Crashes /\ \E L : Sound(order, sl, it, L)

LEMMA EmptyCore ==
  ASSUME NEW o \in Orders
  PROVE  Core(o, Empty, <<>>) /\ Held(Empty) = {}
<1> DEFINE t == Empty
           r == Node(0, MaxLevel)
           D == {SlHead}
<1>1. /\ t = [mem |-> t.mem, level |-> t.level, size |-> t.size, tail |-> t.tail,
              node_map |-> t.node_map, value_map |-> t.value_map]
      /\ t.mem = [p \in D |-> r] /\ t.level = 1 /\ t.size = 0 /\ t.tail = Nil
      /\ t.node_map = [v \in Value |-> Nil] /\ t.value_map = [a \in Addr |-> Nil]
  BY DEF Empty
<1> HIDE DEF t
<1>2. MaxLevel \in Nat /\ MaxLevel # 0 /\ MaxLevel \in 1..MaxLevel /\ 1 \in 1..MaxLevel
  BY Constants
<1>3. r = [score |-> 0, prev |-> Nil, levelSize |-> MaxLevel,
           next |-> [l \in 1..MaxLevel |-> Nil], span |-> [l \in 1..MaxLevel |-> 0]]
  BY DEF Node
<1> HIDE DEF r
<1>4. /\ r.score = 0 /\ r.levelSize = MaxLevel
      /\ r.next = [l \in 1..MaxLevel |-> Nil] /\ r.span = [l \in 1..MaxLevel |-> 0]
  BY <1>3
<1>5. r \in AnyNode
  <2>1. 0 \in Score \cup {0} /\ Nil \in Link
    BY DEF Link
  <2>2. [l \in 1..MaxLevel |-> Nil] \in [1..MaxLevel -> Link]
    BY <2>1
  <2>3. [l \in 1..MaxLevel |-> 0] \in [1..MaxLevel -> Nat]
    OBVIOUS
  <2>4. QED
    BY <1>2, <1>3, <2>1, <2>2, <2>3, NodeMake
<1>6. t.mem[SlHead] = r /\ DOMAIN t.mem = D /\ t.mem \in [D -> AnyNode]
  BY <1>1, <1>5
<1>7. Typed(t)
  <2>1. D \in SUBSET (Addr \cup {SlHead}) /\ SlHead \in D
    OBVIOUS
  <2>2. t.level \in 1..MaxLevel /\ t.size \in Nat /\ t.tail \in Link
    BY <1>1, <1>2 DEF Link
  <2>3. t.node_map \in [Value -> Link] /\ t.value_map \in [Addr -> Value \cup {Nil}]
    BY <1>1 DEF Link
  <2>4. t.mem[SlHead].levelSize = MaxLevel /\ t.mem[SlHead].score = 0
    BY <1>4, <1>6
  <2> HIDE DEF D
  <2>5. QED
    BY <1>1, <1>6, <2>1, <2>2, <2>3, <2>4, TypedMake
<1>8. Held(t) = {}
  BY <1>6 DEF Held
<1>9. Tables(t)
  BY <1>1, <1>8, Constants DEF Tables
<1>10. NodesOf(t, <<>>)
  BY DEF NodesOf
<1>11. Links(t, <<>>)
  <2> SUFFICES ASSUME NEW l \in 1..MaxLevel, NEW i \in 0..Len(<<>>)
               PROVE  LinkedTo(t, <<>>, l, i, 1)
    BY DEF Links
  <2>1. i = 0 /\ Len(<<>>) = 0 /\ At(<<>>, i) = SlHead
    BY DEF At
  <2>2. NextHigh(t, <<>>, l, i, 1)
    BY <2>1 DEF NextHigh
  <2>3. t.mem[SlHead].next[l] = Nil /\ t.mem[SlHead].span[l] = 0
    BY <1>4, <1>6
  <2>4. Entry(<<>>, 1) = Nil /\ Index(<<>>, 1) - i = 0
    BY <2>1 DEF Entry, Index
  <2>5. QED
    BY <2>1, <2>2, <2>3, <2>4 DEF LinkedTo
<1>12. Levels(t, <<>>) /\ BackLinks(t, <<>>)
  BY <1>1 DEF Levels, BackLinks
<1>13. Listing(t, <<>>)
  BY <1>1, <1>10, <1>11, <1>12 DEF Listing
<1>14. Rising(o, t, <<>>)
  BY DEF Rising
<1>15. QED
  BY <1>7, <1>8, <1>9, <1>13, <1>14 DEF Core, t

LEMMA InitSound ==
  ASSUME Init
  PROVE  IInv
<1>1. order \in Orders /\ sl = Empty /\ it = NoLoop /\ crashed = ""
  BY DEF Init, Orders
<1>2. Core(order, sl, <<>>) /\ Held(sl) = {}
  BY <1>1, EmptyCore
<1>3. Unlost(order, sl, <<>>)
  BY <1>2 DEF Unlost
<1>4. LoopSound(it, <<>>)
  BY <1>1 DEF LoopSound, NoLoop, Link
<1>5. QED
  BY <1>1, <1>2, <1>3, <1>4 DEF IInv, Crashes, Sound

(* A loop that is told nothing, or is over, promises nothing.              *)
LEMMA Untuned ==
  ASSUME NEW L, LoopSound(it, L), NEW M
  PROVE  LoopSound(Disturbed, M) /\ LoopSound(NoLoop, M) /\ ~Disturbed.tame /\ ~NoLoop.tame
<1>1. it \in [at : Link, last : Nat, max : Nat, gone : Nat, tame : BOOLEAN]
  BY DEF LoopSound
<1>2. Disturbed = [it EXCEPT !.tame = FALSE, !.gone = 0]
  BY DEF Disturbed
<1>3. /\ Disturbed \in [at : Link, last : Nat, max : Nat, gone : Nat, tame : BOOLEAN]
      /\ Disturbed.tame = FALSE
  BY <1>1, <1>2
<1>4. /\ NoLoop \in [at : Link, last : Nat, max : Nat, gone : Nat, tame : BOOLEAN]
      /\ NoLoop.tame = FALSE
  BY DEF NoLoop, Link
<1>5. QED
  BY <1>3, <1>4 DEF LoopSound

(* It stays in tune when ranks before its place are deleted.               *)
LEMMA Tuned ==
  ASSUME NEW L \in Seq(Addr), LoopSound(it, L),
         NEW lo \in 1..Len(L), NEW hi \in lo..Len(L), NEW M, Cutout(L, lo, (hi - lo) + 1, M)
  PROVE  LoopSound(LoopWithout(lo..hi), M)
<1> DEFINE c == (hi - lo) + 1
           n == Len(L)
           k == it.last - it.gone
<1>1. n \in Nat /\ lo \in Nat /\ hi \in Nat /\ lo >= 1 /\ lo <= hi /\ hi <= n /\ c \in Nat
  OBVIOUS
<1>2. Cardinality(lo..hi) = c
  BY <1>1, FS_Interval
<1>3. CASE it.tame /\ \A r \in lo..hi : r < it.last - it.gone
  <2>1. it \in [at : Link, last : Nat, max : Nat, gone : Nat, tame : BOOLEAN]
        /\ it.tame /\ it.max > 0 /\ it.last > it.gone /\ it.at = Entry(L, k)
    BY <1>3 DEF LoopSound
  <2>2. LoopWithout(lo..hi) = [it EXCEPT !.gone = @ + c]
    BY <1>2, <1>3 DEF LoopWithout
  <2> DEFINE i == LoopWithout(lo..hi)
  <2>3. hi < k
    BY <1>1, <1>3
  <2>4. /\ i \in [at : Link, last : Nat, max : Nat, gone : Nat, tame : BOOLEAN]
        /\ i.at = it.at /\ i.max = it.max /\ i.last = it.last /\ i.gone = it.gone + c
    BY <1>1, <2>1, <2>2
  <2> HIDE DEF i
  <2>5. i.last > i.gone /\ i.last - i.gone = k - c /\ k \in Int /\ k - c >= lo
    <3>1. it.last \in Int /\ it.gone \in Int /\ c \in Int
      BY <1>1, <2>1
    <3>2. k \in Int /\ k - c = it.last - (it.gone + c)
      BY <3>1
    <3>3. hi \in Int /\ lo \in Int /\ c = (hi - lo) + 1
      OBVIOUS
    <3> HIDE DEF k, c
    <3>4. k - c >= lo
      BY <2>3, <3>1, <3>2, <3>3
    <3>5. i.last - i.gone = k - c
      BY <2>4, <3>2
    <3>6. it.last - (it.gone + c) > 0
      BY <1>1, <3>1, <3>2, <3>3, <3>4
    <3>7. it.last > it.gone + c
      BY <3>1, <3>6
    <3>8. QED
      BY <2>4, <3>2, <3>4, <3>5, <3>7
  <2>6. Entry(M, k - c) = Entry(L, k)
    <3>1. Len(M) = n - c /\ \A j \in lo .. n - c : M[j] = L[j + c]
      BY DEF Cutout
    <3>2. CASE k > n
      <4>1. k - c > Len(M)
        BY <1>1, <2>5, <3>1, <3>2
      <4>2. QED
        BY <3>2, <4>1 DEF Entry
    <3>3. CASE ~(k > n)
      <4>1. k - c \in lo .. n - c /\ ~(k - c > Len(M)) /\ (k - c) + c = k
        BY <1>1, <2>5, <3>1, <3>3
      <4>2. M[k - c] = L[k]
        BY <3>1, <4>1
      <4>3. QED
        BY <3>3, <4>1, <4>2 DEF Entry
    <3>4. QED
      BY <3>2, <3>3
  <2>7. LoopSound(i, M)
    BY <2>1, <2>4, <2>5, <2>6 DEF LoopSound
  <2>8. QED
    BY <2>7 DEF i
<1>4. CASE ~(it.tame /\ \A r \in lo..hi : r < it.last - it.gone)
  <2>1. LoopWithout(lo..hi) = Disturbed
    BY <1>4 DEF LoopWithout
  <2>2. QED
    BY <2>1, Untuned
<1>5. QED
  BY <1>3, <1>4

(* The list without some of its places holds the nodes that are left.      *)
LEMMA CutoutUnlost ==
  ASSUME NEW o, NEW s, NEW t, NEW L \in Seq(Addr), NEW lo \in 1..Len(L), NEW hi \in lo..Len(L),
         NEW M, Cutout(L, lo, (hi - lo) + 1, M), Unlost(o, s, L),
         Held(t) = Held(s) \ {L[i] : i \in lo..hi}
  PROVE  Unlost(o, t, M)
<1> SUFFICES ASSUME o # "lua", NEW p \in Held(t) PROVE \E i \in 1..Len(M) : p = M[i]
  BY DEF Unlost
<1>1. Len(L) \in Nat /\ lo \in Nat /\ hi \in Nat /\ lo >= 1 /\ lo <= hi /\ hi <= Len(L)
  OBVIOUS
<1>2. PICK i \in 1..Len(L) : p = L[i]
  BY DEF Unlost
<1>3. i \notin lo..hi
  BY <1>2
<1>4. /\ Len(M) = Len(L) - ((hi - lo) + 1)
      /\ \A j \in 1 .. lo - 1 : M[j] = L[j]
      /\ \A j \in lo .. Len(L) - ((hi - lo) + 1) : M[j] = L[j + ((hi - lo) + 1)]
  BY DEF Cutout
<1>5. CASE i < lo
  <2>1. i \in 1 .. lo - 1 /\ i \in 1..Len(M)
    BY <1>1, <1>4, <1>5
  <2>2. QED
    BY <1>2, <1>4, <2>1
<1>6. CASE i > hi
  <2> DEFINE j == i - ((hi - lo) + 1)
  <2>1. /\ j \in lo .. Len(L) - ((hi - lo) + 1) /\ j \in 1..Len(M)
        /\ j + ((hi - lo) + 1) = i
    BY <1>1, <1>4, <1>6
  <2> HIDE DEF j
  <2>2. QED
    BY <1>2, <1>4, <2>1
<1>7. QED
  BY <1>1, <1>3, <1>5, <1>6

LEMMA WithUnlost ==
  ASSUME NEW o, NEW s, NEW t, NEW N, Len(N) \in Nat, NEW k \in 0..Len(N), NEW a,
         NEW M, With(N, k, a, M),
         o # "lua" => \A p \in Held(t) : p = a \/ \E i \in 1..Len(N) : p = N[i]
  PROVE  Unlost(o, t, M)
<1> SUFFICES ASSUME o # "lua", NEW p \in Held(t) PROVE \E i \in 1..Len(M) : p = M[i]
  BY DEF Unlost
<1>1. /\ Len(M) = Len(N) + 1 /\ \A i \in 1..k : M[i] = N[i]
      /\ M[k + 1] = a /\ \A i \in k + 1 .. Len(N) : M[i + 1] = N[i]
  BY DEF With
<1>2. CASE p = a
  <2>1. k + 1 \in 1..Len(M)
    BY <1>1
  <2>2. QED
    BY <1>1, <1>2, <2>1
<1>3. CASE p # a
  <2>1. PICK i \in 1..Len(N) : p = N[i]
    BY <1>3
  <2>2. CASE i <= k
    <3>1. i \in 1..k /\ i \in 1..Len(M)
      BY <1>1, <2>2
    <3>2. QED
      BY <1>1, <2>1, <3>1
  <2>3. CASE ~(i <= k)
    <3>1. i \in k + 1 .. Len(N) /\ i + 1 \in 1..Len(M)
      BY <1>1, <2>3
    <3>2. QED
      BY <1>1, <2>1, <3>1
  <2>4. QED
    BY <2>2, <2>3
<1>4. QED
  BY <1>2, <1>3

LEMMA InsertSound ==
  ASSUME IInv, NEW v \in Value, NEW score \in Score, Insert(v, score)
  PROVE  IInv'
<1>1. PICK L : Sound(order, sl, it, L)
  BY DEF IInv
<1>2. PICK a \in Addr \ DOMAIN sl.mem, h \in 1..MaxLevel :
        sl' = SlInsertNode(Created(sl, a, v, score, h), a)
  BY DEF Insert
<1>3. sl.node_map[v] = Nil /\ it' = Disturbed /\ order' = order /\ crashed' = crashed
  BY DEF Insert
<1>4. Core(order, sl, L) /\ Unlost(order, sl, L) /\ LoopSound(it, L)
  BY <1>1 DEF Sound
<1>5. PICK M : \E k \in 0..Len(L) :
           /\ With(L, k, a, M) /\ Core(order, sl', M) /\ Held(sl') = Held(sl) \cup {a}
  BY <1>2, <1>3, <1>4, InsertedCore
<1>6. PICK k \in 0..Len(L) : With(L, k, a, M)
  BY <1>5
<1>7. order # "lua" => \A p \in Held(sl') : p = a \/ \E i \in 1..Len(L) : p = L[i]
  BY <1>4, <1>5 DEF Unlost
<1>8. Len(L) \in Nat
  BY <1>4, CoreIs
<1>9. Unlost(order, sl', M)
  BY <1>6, <1>7, <1>8, WithUnlost
<1>10. LoopSound(it', M) /\ ~it'.tame
  BY <1>3, <1>4, Untuned
<1>11. Sound(order', sl', it', M)
  BY <1>3, <1>5, <1>9, <1>10 DEF Sound
<1>12. Crashes'
  BY <1>3, <1>10 DEF IInv, Crashes
<1>13. QED
  BY <1>11, <1>12 DEF IInv

LEMMA InsertRaisesSound ==
  ASSUME IInv, NEW v \in Value, NEW score \in Score, InsertRaises(v, score)
  PROVE  IInv'
<1>1. PICK L : Sound(order, sl, it, L)
  BY DEF IInv
<1>2. PICK a \in Addr \ DOMAIN sl.mem, h \in 1..MaxLevel : sl' = Created(sl, a, v, score, h)
  BY DEF InsertRaises
<1>3. /\ sl.node_map[v] = Nil /\ it' = NoLoop /\ order' = order /\ crashed' = crashed
      /\ order = "lua"
  BY DEF InsertRaises
<1>4. Core(order, sl, L) /\ LoopSound(it, L)
  BY <1>1 DEF Sound
<1>5. Core(order, sl', L)
  BY <1>2, <1>3, <1>4, CreatedCore
<1>6. Unlost(order, sl', L)
  BY <1>3 DEF Unlost
<1>7. LoopSound(it', L) /\ ~it'.tame
  BY <1>3, <1>4, Untuned
<1>8. Sound(order', sl', it', L)
  BY <1>3, <1>5, <1>6, <1>7 DEF Sound
<1>9. Crashes'
  BY <1>3, <1>7 DEF IInv, Crashes
<1>10. QED
  BY <1>8, <1>9 DEF IInv

(* A value that is listed has its place.                                   *)
LEMMA ListedIs ==
  ASSUME NEW L, Core(order, sl, L), NEW v \in Value, Listed(v)
  PROVE  \E m \in 1..Len(L) : sl.node_map[v] = L[m] /\ sl.value_map[L[m]] = v
<1> DEFINE a == sl.node_map[v]
<1>1. a # Nil /\ Finds(sl, a)
  BY DEF Listed
<1>2. Typed(sl) /\ Tables(sl)
  BY DEF Core
<1>3. a \in Addr
  <2>1. sl.node_map \in [Value -> Link]
    BY <1>2, TypedIs
  <2>2. a \in Link
    BY <2>1
  <2>3. QED
    BY <1>1, <2>2 DEF Link
<1>4. sl.value_map[a] = v /\ v # Nil
  BY <1>2, <1>3, Constants DEF Tables
<1>5. a \in Held(sl)
  BY <1>2, <1>3, <1>4 DEF Tables
<1>6. QED
  BY <1>1, <1>4, <1>5, FindsIs

LEMMA UpdateSound ==
  ASSUME IInv, NEW v \in Value, NEW score \in Score, Update(v, score)
  PROVE  IInv'
<1>1. PICK L : Sound(order, sl, it, L)
  BY DEF IInv
<1>2. Core(order, sl, L) /\ Unlost(order, sl, L) /\ LoopSound(it, L)
  BY <1>1 DEF Sound
<1>3. PICK m \in 1..Len(L) : sl.node_map[v] = L[m]
  BY <1>2, ListedIs DEF Update
<1>4. /\ sl' = SlInsertNode(Scored(SlDeleteNode(sl, L[m]), L[m], score), L[m])
      /\ it' = Disturbed /\ order' = order /\ crashed' = crashed
  BY <1>3 DEF Update
<1>5. PICK N, M : \E k \in 0..Len(N) :
           /\ Cutout(L, m, 1, N) /\ With(N, k, L[m], M) /\ Core(order, sl', M)
           /\ Held(sl') = Held(sl)
  BY <1>2, <1>4, UpdatedCore
<1>6. PICK k \in 0..Len(N) : With(N, k, L[m], M)
  BY <1>5
<1>7. L \in Seq(Addr) /\ Len(L) \in Nat /\ m \in m..Len(L) /\ (m - m) + 1 = 1 /\ m..m = {m}
  BY <1>2, CoreIs
<1>8. Len(N) \in Nat
  <2>1. N \in Seq(Addr)
    BY <1>5 DEF Cutout
  <2>2. QED
    BY <2>1
<1>9. order # "lua" => \A p \in Held(sl') : p = L[m] \/ \E i \in 1..Len(N) : p = N[i]
  <2> SUFFICES ASSUME order # "lua", NEW p \in Held(sl), p # L[m]
               PROVE  \E i \in 1..Len(N) : p = N[i]
    BY <1>5
  <2>1. PICK i \in 1..Len(L) : p = L[i]
    BY <1>2 DEF Unlost
  <2>2. i # m
    BY <2>1
  <2>3. /\ Len(N) = Len(L) - 1
        /\ \A j \in 1 .. m - 1 : N[j] = L[j]
        /\ \A j \in m .. Len(L) - 1 : N[j] = L[j + 1]
    BY <1>5 DEF Cutout
  <2>4. CASE i < m
    <3>1. i \in 1 .. m - 1 /\ i \in 1..Len(N)
      BY <1>7, <2>3, <2>4
    <3>2. QED
      BY <2>1, <2>3, <3>1
  <2>5. CASE i > m
    <3>1. i - 1 \in m .. Len(L) - 1 /\ i - 1 \in 1..Len(N) /\ (i - 1) + 1 = i
      BY <1>7, <2>3, <2>5
    <3>2. QED
      BY <2>1, <2>3, <3>1
  <2>6. QED
    BY <1>7, <2>2, <2>4, <2>5
<1>10. Unlost(order, sl', M)
  BY <1>6, <1>8, <1>9, WithUnlost
<1>11. LoopSound(it', M) /\ ~it'.tame
  BY <1>2, <1>4, Untuned
<1>12. Sound(order', sl', it', M)
  BY <1>4, <1>5, <1>10, <1>11 DEF Sound
<1>13. Crashes'
  BY <1>4, <1>11 DEF IInv, Crashes
<1>14. QED
  BY <1>12, <1>13 DEF IInv

LEMMA UpdateRaisesSound ==
  ASSUME IInv, NEW v \in Value, NEW score \in Score, UpdateRaises(v, score)
  PROVE  IInv'
<1>1. PICK L : Sound(order, sl, it, L)
  BY DEF IInv
<1>2. Core(order, sl, L) /\ LoopSound(it, L)
  BY <1>1 DEF Sound
<1>3. PICK m \in 1..Len(L) : sl.node_map[v] = L[m]
  BY <1>2, ListedIs DEF UpdateRaises
<1>4. /\ sl' = Scored(SlDeleteNode(sl, L[m]), L[m], score)
      /\ it' = NoLoop /\ order' = order /\ crashed' = crashed /\ order = "lua"
  BY <1>3 DEF UpdateRaises
<1>5. PICK N : Core(order, sl', N)
  BY <1>2, <1>4, TakenCore
<1>6. Unlost(order, sl', N)
  BY <1>4 DEF Unlost
<1>7. LoopSound(it', N) /\ ~it'.tame
  BY <1>2, <1>4, Untuned
<1>8. Sound(order', sl', it', N)
  BY <1>4, <1>5, <1>6, <1>7 DEF Sound
<1>9. Crashes'
  BY <1>4, <1>7 DEF IInv, Crashes
<1>10. QED
  BY <1>8, <1>9 DEF IInv

(* The deletion of one place.                                              *)
LEMMA DeletedSound ==
  ASSUME NEW L, Sound(order, sl, it, L), NEW m \in 1..Len(L),
         sl' = Deleted(sl, L[m], sl.value_map[L[m]]), it' = LoopWithout({RankIn(L[m])}),
         order' = order, Crashes'
  PROVE  IInv'
<1>1. Core(order, sl, L) /\ Unlost(order, sl, L) /\ LoopSound(it, L)
  BY DEF Sound
<1>2. L \in Seq(Addr) /\ Len(L) \in Nat /\ m \in m..Len(L) /\ (m - m) + 1 = 1 /\ m..m = {m}
  <2>1. L \in Seq(Addr) /\ Len(L) \in Nat
    BY <1>1, CoreIs
  <2>2. m \in Nat /\ m <= Len(L)
    BY <2>1
  <2>3. QED
    BY <2>1, <2>2
<1>3. it' = LoopWithout(m..m)
  BY <1>1, <1>2, RankInIs
<1>4. PICK M : /\ Cutout(L, m, 1, M) /\ Core(order, sl', M)
               /\ Held(sl') = Held(sl) \ {L[m]}
  BY <1>1, DeletedCore
<1>5. Cutout(L, m, (m - m) + 1, M)
  BY <1>2, <1>4
<1>6. LoopSound(it', M)
  BY <1>1, <1>2, <1>3, <1>5, Tuned
<1>7. {L[i] : i \in m..m} = {L[m]}
  BY <1>2
<1>8. Unlost(order, sl', M)
  BY <1>1, <1>2, <1>4, <1>5, <1>7, CutoutUnlost
<1>9. Sound(order', sl', it', M)
  BY <1>4, <1>6, <1>8 DEF Sound
<1>10. QED
  BY <1>9 DEF IInv

LEMMA DeleteSound ==
  ASSUME IInv, NEW v \in Value, Delete(v)
  PROVE  IInv'
<1>1. PICK L : Sound(order, sl, it, L)
  BY DEF IInv
<1>2. Core(order, sl, L)
  BY <1>1 DEF Sound
<1>3. PICK m \in 1..Len(L) : sl.node_map[v] = L[m] /\ sl.value_map[L[m]] = v
  BY <1>2, ListedIs DEF Delete
<1>4. /\ sl' = Deleted(sl, L[m], sl.value_map[L[m]]) /\ it' = LoopWithout({RankIn(L[m])})
      /\ order' = order
  BY <1>3 DEF Delete
<1>5. Crashes'
  BY DEF Delete, Crashes
<1>6. QED
  BY <1>1, <1>3, <1>4, <1>5, DeletedSound

LEMMA DelByRankSound ==
  ASSUME IInv, NEW rank \in 1..sl.size, DelByRank(rank)
  PROVE  IInv'
<1>1. PICK L : Sound(order, sl, it, L)
  BY DEF IInv
<1>2. Core(order, sl, L)
  BY <1>1 DEF Sound
<1>3. rank \in 1..Len(L) /\ Typed(sl) /\ Listing(sl, L)
  BY <1>2, CoreIs DEF Core
<1>4. GetByRank(sl, rank) = L[rank]
  BY <1>3, GetByRankIs
<1>5. /\ sl' = Deleted(sl, L[rank], sl.value_map[L[rank]])
      /\ it' = LoopWithout({RankIn(L[rank])})
      /\ order' = order
  BY <1>4 DEF DelByRank
<1>6. Crashes'
  BY DEF DelByRank, Crashes
<1>7. QED
  BY <1>1, <1>3, <1>5, <1>6, DeletedSound

LEMMA DelRankRangeSound ==
  ASSUME IInv, NEW lo \in 1..sl.size, NEW hi \in 1..sl.size, lo <= hi, DelRankRange(lo, hi)
  PROVE  IInv'
<1>1. PICK L : Sound(order, sl, it, L)
  BY DEF IInv
<1>2. Core(order, sl, L) /\ Unlost(order, sl, L) /\ LoopSound(it, L)
  BY <1>1 DEF Sound
<1>3. /\ L \in Seq(Addr) /\ Len(L) \in Nat /\ sl.size = Len(L)
      /\ Typed(sl) /\ Listing(sl, L)
  BY <1>2, CoreIs DEF Core
<1>4. lo \in 1..Len(L) /\ hi \in lo..Len(L)
  BY <1>3
<1>5. CASE order = "lua"
  <2>1. crashed' = "comparison" /\ sl' = sl /\ it' = it /\ order' = order
    BY <1>5 DEF DelRankRange
  <2>2. Sound(order', sl', it', L)
    BY <1>1, <2>1
  <2>3. QED
    BY <2>1, <2>2 DEF IInv, Crashes
<1>6. CASE order # "lua"
  <2>1. /\ sl' = DeletedAll(sl, Victims(lo, hi)) /\ it' = LoopWithout(lo..hi)
        /\ crashed' = "" /\ order' = order
    BY <1>6 DEF DelRankRange
  <2>2. Victims(lo, hi) = SubSeq(L, lo, hi)
    BY <1>3, <1>4, VictimsIs
  <2>3. PICK M : /\ Cutout(L, lo, (hi - lo) + 1, M) /\ Core(order, sl', M)
                 /\ Held(sl') = Held(sl) \ {L[i] : i \in lo..hi}
    BY <1>2, <1>4, <2>1, <2>2, DeletedAllCore
  <2>4. LoopSound(it', M)
    BY <1>2, <1>3, <1>4, <2>1, <2>3, Tuned
  <2>5. Unlost(order, sl', M)
    BY <1>2, <1>3, <1>4, <2>3, CutoutUnlost
  <2>6. Sound(order', sl', it', M)
    BY <2>1, <2>3, <2>4, <2>5 DEF Sound
  <2>7. QED
    BY <2>1, <2>6 DEF IInv, Crashes
<1>7. QED
  BY <1>5, <1>6

LEMMA RankPairsSound ==
  ASSUME IInv, NEW lo \in 1..sl.size, NEW hi \in 1..sl.size, lo <= hi, RankPairs(lo, hi)
  PROVE  IInv'
<1>1. PICK L : Sound(order, sl, it, L)
  BY DEF IInv
<1>2. Core(order, sl, L) /\ Unlost(order, sl, L)
  BY <1>1 DEF Sound
<1>3. /\ L \in Seq(Addr) /\ Len(L) \in Nat /\ sl.size = Len(L) /\ Typed(sl) /\ Listing(sl, L)
      /\ \A i \in 1..Len(L) : L[i] \in Addr
  BY <1>2, CoreIs DEF Core
<1>4. lo \in 1..Len(L) /\ lo \in Nat /\ hi \in Nat /\ hi > 0 /\ lo > 0 /\ lo - 0 = lo
      /\ ~(lo > Len(L))
  BY <1>3
<1>5. /\ it' = [at |-> SlGetNodeByRank(sl, lo), last |-> lo, max |-> hi, gone |-> 0, tame |-> TRUE]
      /\ crashed = "" /\ crashed' = crashed /\ order' = order /\ sl' = sl
  BY DEF RankPairs
<1>6. SlGetNodeByRank(sl, lo) = L[lo]
  BY <1>3, <1>4, NodeByRank
<1>7. /\ it' = [at |-> L[lo], last |-> lo, max |-> hi, gone |-> 0, tame |-> TRUE]
      /\ L[lo] \in Link /\ Entry(L, lo - 0) = L[lo]
  BY <1>3, <1>4, <1>5, <1>6 DEF Entry, Link
<1>8. LoopSound(it', L)
  BY <1>4, <1>7 DEF LoopSound
<1>9. Sound(order', sl', it', L)
  BY <1>2, <1>5, <1>8 DEF Sound
<1>10. Crashes'
  BY <1>5 DEF Crashes
<1>11. QED
  BY <1>9, <1>10 DEF IInv

LEMMA RankIteratorSound ==
  ASSUME IInv, RankIterator
  PROVE  IInv'
<1>1. PICK L : Sound(order, sl, it, L)
  BY DEF IInv
<1>2. Core(order, sl, L) /\ Unlost(order, sl, L) /\ LoopSound(it, L)
  BY <1>1 DEF Sound
<1>3. /\ L \in Seq(Addr) /\ Len(L) \in Nat /\ Typed(sl) /\ Listing(sl, L)
      /\ \A i \in 1..Len(L) : L[i] \in Held(sl)
  BY <1>2, CoreIs DEF Core
<1>4. it \in [at : Link, last : Nat, max : Nat, gone : Nat, tame : BOOLEAN]
  BY <1>2 DEF LoopSound
<1>5. crashed = "" /\ order' = order /\ sl' = sl /\ it.max > 0
  BY DEF RankIterator
<1>6. CASE it.last > it.max \/ it.at = Nil
  <2>1. it' = NoLoop /\ crashed' = ""
    BY <1>5, <1>6 DEF RankIterator
  <2>2. LoopSound(it', L)
    BY <1>2, <2>1, Untuned
  <2>3. Sound(order', sl', it', L)
    BY <1>2, <1>5, <2>2 DEF Sound
  <2>4. QED
    BY <2>1, <2>3 DEF IInv, Crashes
<1>7. CASE ~(it.last > it.max \/ it.at = Nil) /\ it.at \in DOMAIN sl.mem
  <2> DEFINE next == sl.mem[it.at].next[1]
  <2>1. it' = [it EXCEPT !.at = next, !.last = @ + 1] /\ crashed' = ""
    BY <1>5, <1>7 DEF RankIterator
  <2>2. next \in Link
    <3>1. sl.mem[it.at] \in AnyNode
      BY <1>3, <1>7, TypedIs
    <3>2. /\ sl.mem[it.at].levelSize \in 1..MaxLevel
          /\ sl.mem[it.at].next \in [1..sl.mem[it.at].levelSize -> Link]
      BY <3>1, NodeIs
    <3>3. 1 \in 1..sl.mem[it.at].levelSize
      BY <3>2
    <3>4. QED
      BY <3>2, <3>3
  <2>3. it.tame => /\ it.last > it.gone /\ it.last + 1 > it.gone
                   /\ next = Entry(L, (it.last + 1) - it.gone)
    <3> SUFFICES ASSUME it.tame
                 PROVE  /\ it.last > it.gone /\ it.last + 1 > it.gone
                        /\ next = Entry(L, (it.last + 1) - it.gone)
      OBVIOUS
    <3> DEFINE k == it.last - it.gone
    <3>1. it.last > it.gone /\ it.at = Entry(L, k)
      BY <1>2 DEF LoopSound
    <3>2. k \in Int /\ k >= 1 /\ (it.last + 1) - it.gone = k + 1 /\ it.last + 1 > it.gone
      BY <1>4, <3>1
    <3> HIDE DEF k
    <3>3. ~(k > Len(L)) /\ it.at = L[k]
      BY <1>7, <3>1 DEF Entry
    <3>4. k \in 0..Len(L) /\ At(L, k) = it.at
      BY <1>3, <3>2, <3>3 DEF At
    <3>5. next = Entry(L, k + 1)
      BY <1>3, <3>4, NextOne
    <3>6. QED
      BY <3>1, <3>2, <3>5
  <2> HIDE DEF next
  <2>4. /\ it' \in [at : Link, last : Nat, max : Nat, gone : Nat, tame : BOOLEAN]
        /\ it'.at = next /\ it'.last = it.last + 1 /\ it'.max = it.max /\ it'.gone = it.gone
        /\ it'.tame = it.tame
    <3>1. it = [at |-> it.at, last |-> it.last, max |-> it.max, gone |-> it.gone, tame |-> it.tame]
      BY <1>4
    <3>2. it' = [at |-> next, last |-> it.last + 1, max |-> it.max, gone |-> it.gone,
                 tame |-> it.tame]
      BY <2>1, <3>1
    <3>3. it.last + 1 \in Nat /\ it.max \in Nat /\ it.gone \in Nat /\ it.tame \in BOOLEAN
      BY <1>4
    <3>4. QED
      BY <2>2, <3>2, <3>3
  <2>5. LoopSound(it', L)
    BY <1>5, <2>3, <2>4 DEF LoopSound
  <2>6. Sound(order', sl', it', L)
    BY <1>2, <1>5, <2>5 DEF Sound
  <2>7. QED
    BY <2>1, <2>6 DEF IInv, Crashes
<1>8. CASE ~(it.last > it.max \/ it.at = Nil) /\ it.at \notin DOMAIN sl.mem
  <2>1. it' = it /\ crashed' = "loop"
    BY <1>5, <1>8 DEF RankIterator
  <2>2. ~it.tame
    <3> SUFFICES ASSUME it.tame PROVE FALSE
      OBVIOUS
    <3> DEFINE k == it.last - it.gone
    <3>1. it.last > it.gone /\ it.at = Entry(L, k)
      BY <1>2 DEF LoopSound
    <3>2. k \in Int /\ k >= 1
      BY <1>4, <3>1
    <3> HIDE DEF k
    <3>3. ~(k > Len(L)) /\ it.at = L[k]
      BY <1>8, <3>1 DEF Entry
    <3>4. k \in 1..Len(L)
      BY <1>3, <3>2, <3>3
    <3>5. QED
      BY <1>3, <1>8, <3>3, <3>4 DEF Held
  <2>3. Sound(order', sl', it', L)
    BY <1>1, <1>5, <2>1
  <2>4. QED
    BY <2>1, <2>2, <2>3 DEF IInv, Crashes
<1>9. QED
  BY <1>6, <1>7, <1>8

LEMMA GcSound ==
  ASSUME IInv, Gc
  PROVE  IInv'
<1>1. PICK L : Sound(order, sl, it, L)
  BY DEF IInv
<1>2. order \in Orders /\ LoopSound(it, L)
  BY <1>1 DEF Sound, Core
<1>3. crashed = "" /\ it.max = 0 /\ sl' = Empty /\ it' = it /\ crashed' = crashed /\ order' = order
  BY DEF Gc
<1>4. Core(order, sl', <<>>) /\ Held(sl') = {}
  BY <1>2, <1>3, EmptyCore
<1>5. Unlost(order, sl', <<>>)
  BY <1>4 DEF Unlost
<1>6. LoopSound(it', <<>>)
  <2>1. ~it.tame
    <3>1. it.tame => it.max > 0
      BY <1>2 DEF LoopSound
    <3>2. it.max = 0
      BY <1>3
    <3> DEFINE x == it.max
    <3> HIDE DEF x
    <3>3. x = 0 => ~(x > 0)
      OBVIOUS
    <3>4. QED
      BY <3>1, <3>2, <3>3 DEF x
  <2>2. ~it'.tame /\ it' \in [at : Link, last : Nat, max : Nat, gone : Nat, tame : BOOLEAN]
    BY <1>2, <1>3, <2>1 DEF LoopSound
  <2>3. QED
    BY <2>2 DEF LoopSound
<1>7. Sound(order', sl', it', <<>>)
  BY <1>3, <1>4, <1>5, <1>6 DEF Sound
<1>8. QED
  BY <1>3, <1>7 DEF IInv, Crashes

LEMMA StepSound ==
  ASSUME IInv, [Next]_vars
  PROVE  IInv'
<1>1. CASE UNCHANGED vars
  BY <1>1 DEF IInv, Crashes, vars
<1>2. CASE \E v \in Value, score \in Score :
             \/ Insert(v, score) \/ InsertRaises(v, score)
             \/ Update(v, score) \/ UpdateRaises(v, score)
  BY <1>2, InsertSound, InsertRaisesSound, UpdateSound, UpdateRaisesSound
<1>3. CASE \E v \in Value : Delete(v)
  BY <1>3, DeleteSound
<1>4. CASE \E rank \in 1..sl.size : DelByRank(rank)
  BY <1>4, DelByRankSound
<1>5. ASSUME NEW r \in Ranges PROVE r[1] \in 1..sl.size /\ r[2] \in 1..sl.size /\ r[1] <= r[2]
  BY DEF Ranges
<1>6. CASE \E r \in Ranges : DelRankRange(r[1], r[2])
  BY <1>5, <1>6, DelRankRangeSound
<1>7. CASE \E r \in Ranges \cap Loops : RankPairs(r[1], r[2])
  BY <1>5, <1>7, RankPairsSound
<1>8. CASE RankIterator \/ Gc
  BY <1>8, RankIteratorSound, GcSound
<1>9. CASE Stopped
  BY <1>1, <1>9 DEF Stopped
<1>10. QED
  BY <1>1, <1>2, <1>3, <1>4, <1>6, <1>7, <1>8, <1>9 DEF Next

(* Every state of the list is sound.                                       *)
THEOREM ListInductive == Spec => []IInv
<1>1. Init => IInv
  BY InitSound
<1>2. IInv /\ [Next]_vars => IInv'
  BY StepSound
<1>3. QED
  BY <1>1, <1>2, PTL DEF Spec

-----------------------------------------------------------------------------
LEMMA InvIs ==
  ASSUME IInv
  PROVE  LET L == Line(sl)
         IN /\ Core(order, sl, L) /\ Unlost(order, sl, L) /\ LoopSound(it, L) /\ Crashes
            /\ L \in Seq(Addr) /\ Len(L) \in Nat /\ DOMAIN L = 1..Len(L) /\ sl.size = Len(L)
            /\ \A i \in 1..Len(L) : L[i] \in Held(sl) /\ L[i] \in Addr
            /\ Range(L) = {L[i] : i \in 1..Len(L)}
<1>1. PICK L : Sound(order, sl, it, L)
  BY DEF IInv
<1>2. Core(order, sl, L) /\ Unlost(order, sl, L) /\ LoopSound(it, L)
  BY <1>1 DEF Sound
<1>3. /\ Line(sl) = L /\ L \in Seq(Addr) /\ Len(L) \in Nat /\ sl.size = Len(L)
      /\ \A i \in 1..Len(L) : L[i] \in Held(sl) /\ L[i] \in Addr
  BY <1>2, CoreIs
<1>4. DOMAIN L = 1..Len(L)
  BY <1>3
<1>5. Range(L) = {L[i] : i \in 1..Len(L)}
  BY <1>4 DEF Range
<1>6. QED
  BY <1>2, <1>3, <1>4, <1>5 DEF IInv

(* The tables mirror one another, every node that is allocated belongs to  *)
(* a value, and unless a Lua function compares every value with a node is  *)
(* in the list (lua__insert, lua__update, lua__delete).                    *)
THEOREM TablesAlwaysMatch == Spec => []TablesMatch
<1>1. IInv => TablesMatch
  <2> SUFFICES ASSUME IInv PROVE TablesMatch
    OBVIOUS
  <2> DEFINE L == Line(sl)
  <2>1. /\ Core(order, sl, L) /\ Unlost(order, sl, L)
        /\ \A i \in 1..Len(L) : L[i] \in Held(sl)
        /\ Range(L) = {L[i] : i \in 1..Len(L)}
    BY InvIs
  <2>2. Tables(sl)
    BY <2>1 DEF Core
  <2>3. ASSUME order # "lua" PROVE Range(L) = Held(sl)
    <3>1. \A p \in Held(sl) : \E i \in 1..Len(L) : p = L[i]
      BY <2>1, <2>3 DEF Unlost
    <3> HIDE DEF L
    <3>2. QED
      BY <2>1, <3>1
  <2>4. order # "lua" => Whole
    BY <2>3 DEF Whole, Held
  <2>5. QED
    BY <2>2, <2>4 DEF TablesMatch, Tables, Held
<1>2. QED
  BY <1>1, ListInductive, PTL

(* A loop over rank_pairs whose body deletes pairs it has been given goes  *)
(* on with the next one and never meets a node that is freed               *)
(* (rank_iterator).                                                        *)
THEOREM LoopAlwaysRight == Spec => []LoopRight
<1>1. IInv => LoopRight
  <2> SUFFICES ASSUME IInv PROVE LoopRight
    OBVIOUS
  <2> DEFINE L == Line(sl)
             k == it.last - it.gone
  <2>1. LoopSound(it, L) /\ Crashes /\ Len(L) \in Nat /\ DOMAIN L = 1..Len(L)
    BY InvIs
  <2>2. ASSUME it.tame PROVE it.at = IF k \in DOMAIN L THEN L[k] ELSE Nil
    <3>1. it.last \in Nat /\ it.gone \in Nat /\ it.last > it.gone /\ it.at = Entry(L, k)
      BY <2>1, <2>2 DEF LoopSound
    <3> HIDE DEF L
    <3>2. k \in DOMAIN L <=> ~(k > Len(L))
      BY <2>1, <3>1
    <3>3. QED
      BY <3>1, <3>2 DEF Entry
  <2>3. crashed = "loop" => ~it.tame
    BY <2>1 DEF Crashes
  <2>4. QED
    BY <2>2, <2>3 DEF LoopRight
<1>2. QED
  BY <1>1, ListInductive, PTL

(* The answers agree with the order of the list: get_by_rank and its       *)
(* search, rank_of, rank_range and score_range.                            *)
THEOREM QueriesAlwaysRight == Spec => []QueriesRight
<1>1. IInv => QueriesRight
  <2> SUFFICES ASSUME IInv PROVE QueriesRight
    OBVIOUS
  <2> DEFINE L == Line(sl)
             n == Len(L)
             Zero(a) == order = "lua" /\ sl.mem[a].score = 0
  <2>1. /\ Core(order, sl, L) /\ L \in Seq(Addr) /\ n \in Nat /\ DOMAIN L = 1..n
        /\ \A i \in 1..n : L[i] \in Held(sl) /\ L[i] \in Addr
    BY InvIs
  <2>2. Typed(sl) /\ Listing(sl, L) /\ Tables(sl)
    BY <2>1 DEF Core
  <2> HIDE DEF L
  <2>3. ASSUME NEW r \in 1..n
        PROVE  /\ GetByRank(sl, r) = L[r]
               /\ RankOf(sl.value_map[L[r]]) \in {r} \cup IF Zero(L[r]) THEN {0} ELSE {}
               /\ \A hi \in r..n : RankRange(r, hi) = SubSeq(L, r, hi)
    <3>1. GetByRank(sl, r) = L[r]
      BY <2>2, GetByRankIs
    <3>2. sl.node_map[sl.value_map[L[r]]] = L[r]
      BY <2>1, <2>2, HeldIs
    <3>3. RankOf(sl.value_map[L[r]]) = SlGetRank(sl, L[r])
      BY <3>2 DEF RankOf
    <3>4. /\ SlGetRank(sl, L[r]) \in {0, r}
          /\ SlGetRank(sl, L[r]) = 0 => Zero(L[r])
      BY <2>1, RankIs
    <3>5. \A hi \in r..n : RankRange(r, hi) = SubSeq(L, r, hi)
      BY <2>2, RankRangeIs
    <3> HIDE DEF Zero
    <3>6. QED
      BY <3>1, <3>3, <3>4, <3>5
  <2>4. ASSUME NEW min \in Score, NEW max \in {x + 1 : x \in Score}, order # "desc", min < max
        PROVE  LET found == ScoreRange(min, max)
               IN \E lo \in 1 .. n + 1, hi \in 0..n :
                    /\ \A i \in 1..n : sl.mem[L[i]].score \in min..max <=> i \in lo..hi
                    /\ found.nodes = SubSeq(L, lo, hi)
                    /\ lo <= hi /\ ~Zero(L[lo]) => found.first = lo /\ found.last = hi
    <3> DEFINE found == ScoreRange(min, max)
    <3>1. min \in Int /\ max \in Int /\ min <= max
      <4>1. min \in Int /\ \A x \in Score : x \in Int
        BY Constants
      <4>2. PICK x \in Score : max = x + 1
        OBVIOUS
      <4>3. QED
        BY <2>4, <4>1, <4>2
    <3>2. PICK lo \in 1 .. n + 1, hi \in 0..n :
           /\ \A i \in 1..n : sl.mem[L[i]].score \in min..max <=> i \in lo..hi
           /\ found.nodes = SubSeq(L, lo, hi)
           /\ lo <= hi => /\ found.first = SlGetRank(sl, L[lo])
                          /\ found.last = SlGetRank(sl, L[lo]) + ((hi - lo) + 1) - 1
      BY <2>1, <2>4, <3>1, ScoreRangeIs
    <3> HIDE DEF found
    <3>3. ASSUME lo <= hi, ~Zero(L[lo]) PROVE found.first = lo /\ found.last = hi
      <4>1. lo \in 1..n
        BY <2>1, <3>3
      <4>2. SlGetRank(sl, L[lo]) \in {0, lo} /\ SlGetRank(sl, L[lo]) # 0
        BY <2>1, <3>3, <4>1, RankIs
      <4>3. SlGetRank(sl, L[lo]) = lo
        BY <4>2
      <4>4. lo + ((hi - lo) + 1) - 1 = hi
        BY <2>1
      <4>5. QED
        BY <3>2, <3>3, <4>3, <4>4
    <3>4. QED
      BY <3>2, <3>3 DEF found
  <2>5. \A r \in DOMAIN L :
          /\ GetByRank(sl, r) = L[r]
          /\ RankOf(sl.value_map[L[r]]) \in {r} \cup IF Zero(L[r]) THEN {0} ELSE {}
          /\ \A hi \in r .. Len(L) : RankRange(r, hi) = SubSeq(L, r, hi)
    BY <2>1, <2>3
  <2>6. \A min \in Score, max \in {x + 1 : x \in Score} :
          order # "desc" /\ min < max =>
            LET found == ScoreRange(min, max)
            IN \E lo \in 1 .. Len(L) + 1, hi \in 0 .. Len(L) :
                 /\ \A i \in DOMAIN L : sl.mem[L[i]].score \in min..max <=> i \in lo..hi
                 /\ found.nodes = SubSeq(L, lo, hi)
                 /\ lo <= hi /\ ~Zero(L[lo]) => found.first = lo /\ found.last = hi
    <3> SUFFICES ASSUME NEW min \in Score, NEW max \in {x + 1 : x \in Score},
                        order # "desc", min < max
                 PROVE  LET found == ScoreRange(min, max)
                        IN \E lo \in 1 .. n + 1, hi \in 0..n :
                             /\ \A i \in 1..n : sl.mem[L[i]].score \in min..max <=> i \in lo..hi
                             /\ found.nodes = SubSeq(L, lo, hi)
                             /\ lo <= hi /\ ~Zero(L[lo]) => found.first = lo /\ found.last = hi
      BY <2>1
    <3>1. QED
      BY <2>4
  <2>7. QED
    BY <2>5, <2>6 DEF QueriesRight, L
<1>2. QED
  BY <1>1, ListInductive, PTL

LEMMA LevelIsMax ==
  ASSUME NEW s, Typed(s), NEW L, Listing(s, L)
  PROVE  s.level = Max({1} \cup {s.mem[a].levelSize : a \in {L[i] : i \in 1..Len(L)}})
<1> DEFINE S == {1} \cup {s.mem[a].levelSize : a \in {L[i] : i \in 1..Len(L)}}
           m == Max(S)
<1>1. Levels(s, L) /\ NodesOf(s, L) /\ s.level \in 1..MaxLevel /\ MaxLevel \in Nat
  BY TypedIs, Constants DEF Listing
<1>2. /\ \A i \in 1..Len(L) : s.mem[L[i]].levelSize <= s.level
      /\ s.level = 1 \/ \E i \in 1..Len(L) : s.mem[L[i]].levelSize = s.level
  BY <1>1 DEF Levels
<1>3. ASSUME NEW i \in 1..Len(L) PROVE s.mem[L[i]].levelSize \in Int
  <2>1. s.mem[L[i]] \in AnyNode
    BY <1>1, TypedIs DEF NodesOf
  <2>2. QED
    BY <2>1, NodeIs
<1>4. S \in SUBSET Int /\ S # {} /\ (\A x \in S : x <= s.level) /\ s.level \in Int /\ s.level \in S
  BY <1>1, <1>2, <1>3
<1> HIDE DEF S
<1>5. m \in S /\ \A x \in S : x <= m
  BY <1>4, MaxOf
<1> HIDE DEF m
<1>6. m \in Int /\ m <= s.level /\ s.level <= m
  BY <1>4, <1>5
<1>7. m = s.level
  BY <1>4, <1>6
<1>8. QED
  BY <1>7 DEF m, S

(* What a level links, by the places that are high enough.                 *)
LinksTo(s, L, l, i, later) ==
  /\ s.mem[At(L, i)].next[l] = IF later = {} THEN Nil ELSE L[Min(later)]
  /\ s.mem[At(L, i)].span[l] = (IF later = {} THEN Len(L) ELSE Min(later)) - i

LEMMA LevelLinks ==
  ASSUME NEW s, Typed(s), NEW L, Listing(s, L), NEW l \in 1..MaxLevel, l <= s.level,
         NEW i \in 0..Len(L), High(s, L, i, l),
         NEW later,
         \A j : j \in later <=> j \in 1..Len(L) /\ s.mem[L[j]].levelSize >= l /\ j > i
  PROVE  LinksTo(s, L, l, i, later)
<1> DEFINE n == Len(L)
<1>1. n \in Nat /\ Links(s, L) /\ NodesOf(s, L)
  BY DEF Listing, NodesOf
<1>2. PICK j \in 1 .. n + 1 : LinkedTo(s, L, l, i, j)
  BY <1>1 DEF Links
<1>3. /\ s.mem[At(L, i)].next[l] = Entry(L, j)
      /\ s.mem[At(L, i)].span[l] = Index(L, j) - i
      /\ j \in i + 1 .. n + 1
      /\ j <= n => High(s, L, j, l)
      /\ \A k \in i + 1 .. j - 1 : ~High(s, L, k, l)
  BY <1>2 DEF LinkedTo, NextHigh
<1>4. ASSUME NEW k \in 1..n PROVE High(s, L, k, l) <=> s.mem[L[k]].levelSize >= l
  BY <1>1, <1>4 DEF High, At
<1>5. CASE j > n
  <2>1. later = {}
    <3> SUFFICES ASSUME NEW k \in later PROVE FALSE
      OBVIOUS
    <3>1. k \in 1..n /\ k > i /\ High(s, L, k, l)
      BY <1>4
    <3>2. k \in i + 1 .. j - 1
      BY <1>1, <1>5, <3>1
    <3>3. QED
      BY <1>3, <3>1, <3>2
  <2>2. Entry(L, j) = Nil /\ Index(L, j) = n
    BY <1>5 DEF Entry, Index
  <2>3. /\ s.mem[At(L, i)].next[l] = Nil
        /\ s.mem[At(L, i)].span[l] = n - i
    BY <1>3, <2>2
  <2>4. QED
    BY <2>1, <2>3 DEF LinksTo
<1>6. CASE ~(j > n)
  <2>1. j \in 1..n /\ j <= n /\ j > i /\ High(s, L, j, l)
    BY <1>1, <1>3, <1>6
  <2>2. j \in later /\ later \in SUBSET Nat
    BY <1>4, <2>1
  <2>3. ASSUME NEW k \in later PROVE j <= k
    <3>1. k \in 1..n /\ k > i /\ High(s, L, k, l)
      BY <1>4
    <3>2. k \notin i + 1 .. j - 1
      BY <1>3, <3>1
    <3>3. QED
      BY <1>1, <2>1, <3>1, <3>2
  <2> DEFINE m == Min(later)
  <2>4. m \in later /\ \A k \in later : m <= k
    BY <2>2, MinOf
  <2> HIDE DEF m
  <2>5. m \in Nat /\ m <= j /\ j <= m
    BY <2>2, <2>3, <2>4
  <2>6. m = j
    BY <2>1, <2>5
  <2>7. Entry(L, j) = L[j] /\ Index(L, j) = j
    BY <1>6 DEF Entry, Index
  <2>8. QED
    BY <1>3, <2>2, <2>6, <2>7 DEF m, LinksTo
<1>7. QED
  BY <1>5, <1>6

(* The list is what all its operations rely on: in order, linked on every  *)
(* level, with the right spans, back links and tail (slInsertNode,         *)
(* slDeleteNodeUpdate).                                                    *)
THEOREM ListAlwaysSound == Spec => []ListSound
<1>1. IInv => ListSound
  <2> SUFFICES ASSUME IInv PROVE ListSound
    OBVIOUS
  <2> DEFINE L == Line(sl)
             n == Len(L)
             node(i) == IF i = 0 THEN SlHead ELSE L[i]
             High1(l) == {i \in DOMAIN L : sl.mem[L[i]].levelSize >= l}
  <2>1. /\ Core(order, sl, L) /\ L \in Seq(Addr) /\ n \in Nat /\ DOMAIN L = 1..n
        /\ \A i \in 1..n : L[i] \in Held(sl) /\ L[i] \in Addr
        /\ sl.size = n /\ Range(L) = {L[i] : i \in 1..n}
    BY InvIs
  <2>2. /\ order \in Orders /\ Typed(sl) /\ Listing(sl, L) /\ Tables(sl)
        /\ \A i, j \in 1..n : i < j => Earlier(order, sl, L[i], L[j])
    BY <2>1 DEF Core, Rising
  <2>3. Links(sl, L) /\ Levels(sl, L) /\ BackLinks(sl, L) /\ NodesOf(sl, L)
        /\ sl.level \in 1..MaxLevel /\ MaxLevel \in Nat
    BY <2>2, TypedIs, Constants DEF Listing
  <2> HIDE DEF L
  <2>4. ASSUME NEW i \in 1 .. n - 1 PROVE Comp(sl, L[i], L[i + 1]) < 0
    <3>1. i \in 1..n /\ i + 1 \in 1..n /\ i < i + 1
      BY <2>1
    <3>2. Earlier(order, sl, L[i], L[i + 1])
      BY <2>2, <3>1
    <3>3. QED
      BY <2>1, <2>2, <3>1, <3>2, CompIs
  <2>5. sl.level = Max({1} \cup {sl.mem[a].levelSize : a \in Range(L)})
    BY <2>1, <2>2, LevelIsMax
  <2>6. ASSUME NEW l \in 1..sl.level, NEW i \in {0} \cup High1(l)
        PROVE  LET later == {j \in High1(l) : j > i}
                   this == sl.mem[node(i)]
               IN /\ this.next[l] = IF later = {} THEN Nil ELSE L[Min(later)]
                  /\ this.span[l] = (IF later = {} THEN n ELSE Min(later)) - i
    <3> DEFINE later == {j \in High1(l) : j > i}
    <3>1. l \in 1..MaxLevel /\ l <= sl.level
      BY <2>3
    <3>2. i \in 0..n /\ High(sl, L, i, l)
      <4>1. CASE i = 0
        BY <2>1, <2>2, <2>3, <3>1, <4>1, AtIs
      <4>2. CASE i # 0
        <5>1. i \in 1..n /\ sl.mem[L[i]].levelSize >= l
          BY <2>1, <4>2
        <5>2. QED
          BY <5>1 DEF High, At
      <4>3. QED
        BY <4>1, <4>2
    <3>3. \A j : j \in later <=> j \in 1..n /\ sl.mem[L[j]].levelSize >= l /\ j > i
      BY <2>1
    <3>4. node(i) = At(L, i)
      BY DEF At
    <3> HIDE DEF later, node, High1
    <3>5. LinksTo(sl, L, l, i, later)
      <4>1. Typed(sl) /\ Listing(sl, L) /\ i \in 0..Len(L) /\ High(sl, L, i, l)
        BY <2>2, <3>2
      <4>2. QED
        BY <3>1, <3>3, <4>1, LevelLinks
    <3>6. QED
      BY <3>4, <3>5 DEF later, LinksTo
  <2>7. ASSUME NEW l \in sl.level + 1 .. MaxLevel PROVE sl.mem[SlHead].next[l] = Nil
    <3>1. l \in 1..MaxLevel /\ l > sl.level /\ 0 \in 0..n
      BY <2>1, <2>3
    <3>2. At(L, 0) = SlHead /\ High(sl, L, 0, l)
      BY <2>2, <2>3, <3>1, AtIs
    <3>3. PICK j \in 1 .. n + 1 : LinkedTo(sl, L, l, 0, j)
      BY <2>3, <3>1, <3>2 DEF Links
    <3>4. sl.mem[SlHead].next[l] = Entry(L, j) /\ (j <= n => High(sl, L, j, l))
      BY <3>2, <3>3 DEF LinkedTo, NextHigh
    <3>5. j > n
      <4> SUFFICES ASSUME ~(j > n) PROVE FALSE
        OBVIOUS
      <4>1. j \in 1..n /\ j <= n /\ At(L, j) = L[j]
        BY <2>1 DEF At
      <4>2. sl.mem[L[j]].levelSize >= l /\ sl.mem[L[j]].levelSize <= sl.level
        BY <2>3, <3>4, <4>1 DEF High, Levels
      <4> DEFINE h == sl.mem[L[j]].levelSize
      <4>3. h \in Int
        <5>1. sl.mem[L[j]] \in AnyNode
          BY <2>2, <2>3, <4>1, TypedIs DEF NodesOf
        <5>2. QED
          BY <5>1, NodeIs
      <4> HIDE DEF h
      <4>4. h >= l /\ h <= sl.level /\ l > sl.level /\ l \in Int /\ sl.level \in Int
        BY <2>3, <3>1, <4>2 DEF h
      <4>5. QED
        BY <4>3, <4>4
    <3>6. QED
      BY <3>4, <3>5 DEF Entry
  <2>8. \A i \in 1..n : sl.mem[L[i]].prev = IF i = 1 THEN Nil ELSE L[i - 1]
    BY <2>3 DEF BackLinks
  <2>9. sl.tail = IF L = <<>> THEN Nil ELSE Last(L)
    <3>1. sl.tail = IF n = 0 THEN Nil ELSE L[n]
      BY <2>3 DEF BackLinks
    <3>2. L = <<>> <=> n = 0
      BY <2>1, EmptySeq
    <3>3. Last(L) = L[n]
      BY DEF Last
    <3>4. QED
      BY <3>1, <3>2, <3>3
  <2>10. QED
    BY <2>1, <2>4, <2>5, <2>6, <2>7, <2>8, <2>9 DEF ListSound, L
<1>2. QED
  BY <1>1, ListInductive, PTL

(* The variables have their values; nodes are no more than addresses.      *)
THEOREM TypeCorrect == Spec => []TypeOK
<1>1. IInv => TypeOK
  <2> SUFFICES ASSUME IInv PROVE TypeOK
    OBVIOUS
  <2> DEFINE L == Line(sl)
  <2>1. /\ Core(order, sl, L) /\ LoopSound(it, L) /\ Crashes
        /\ sl.size = Len(L) /\ Len(L) \in Nat
    BY InvIs
  <2>2. order \in Orders /\ Typed(sl) /\ Listing(sl, L) /\ NodesOf(sl, L)
    BY <2>1 DEF Core, Listing
  <2> HIDE DEF L
  <2>3. /\ SlHead \in DOMAIN sl.mem /\ DOMAIN sl.mem \subseteq Addr \cup {SlHead}
        /\ \A p \in DOMAIN sl.mem : sl.mem[p] \in AnyNode
        /\ sl.level \in 1..MaxLevel /\ sl.tail \in Link
        /\ sl.node_map \in [Value -> Link] /\ sl.value_map \in [Addr -> Value \cup {Nil}]
    BY <2>2, TypedIs
  <2>4. sl.size \in 0..Cardinality(Addr)
    <3>1. Cardinality(DOMAIN sl.mem) \in Nat /\ Len(L) < Cardinality(DOMAIN sl.mem)
      BY <2>2, NodesEnough
    <3>2. IsFiniteSet(Addr) /\ SlHead \notin Addr
      BY Constants, SkipListAssumption
    <3>3. Cardinality(Addr) \in Nat
      BY <3>2, FS_CardinalityType
    <3>4. IsFiniteSet(Addr \cup {SlHead}) /\ Cardinality(Addr \cup {SlHead}) = Cardinality(Addr) + 1
      BY <3>2, FS_AddElement
    <3>5. Cardinality(DOMAIN sl.mem) <= Cardinality(Addr \cup {SlHead})
      BY <2>3, <3>4, FS_Subset
    <3>6. Len(L) <= Cardinality(Addr)
      BY <2>1, <3>1, <3>3, <3>4, <3>5
    <3>7. QED
      BY <2>1, <3>3, <3>6
  <2>5. ASSUME NEW p \in DOMAIN sl.mem
        PROVE  /\ sl.mem[p].score \in Score \cup {0}
               /\ Range(sl.mem[p].next) \subseteq Addr \cup {Nil}
               /\ Range(sl.mem[p].span) \subseteq Nat
               /\ sl.mem[p].prev \in Addr \cup {Nil}
    <3> DEFINE r == sl.mem[p]
               h == r.levelSize
    <3>1. r \in AnyNode
      BY <2>3
    <3> HIDE DEF r
    <3>2. /\ r.score \in Score \cup {0} /\ r.prev \in Link
          /\ r.next \in [1..h -> Link] /\ r.span \in [1..h -> Nat]
      BY <3>1, NodeIs
    <3> HIDE DEF h
    <3>3. Range(r.next) \subseteq Link /\ Range(r.span) \subseteq Nat
      BY <3>2 DEF Range
    <3>4. QED
      BY <3>2, <3>3 DEF Link, r
  <2>6. it.at \in Link /\ {it.last, it.max, it.gone} \subseteq Nat
    BY <2>1 DEF LoopSound
  <2>7. crashed \in {"", "comparison", "loop"}
    BY <2>1 DEF Crashes
  <2>8. order \in {"asc", "desc", "lua"}
    BY <2>2 DEF Orders
  <2>9. QED
    BY <2>3, <2>4, <2>5, <2>6, <2>7, <2>8 DEF TypeOK, Link
<1>2. QED
  BY <1>1, ListInductive, PTL

-----------------------------------------------------------------------------
(* What the list stands for: its values with their scores, by rank.        *)
Pair == Value \X Int
Pairs(s, L) == [i \in 1..Len(L) |-> <<s.value_map[L[i]], s.mem[L[i]].score>>]
Missing(s, L) == {s.value_map[a] : a \in Held(s) \ {L[i] : i \in 1..Len(L)}}

(* A sequence without its places lo to hi.                                 *)
LEMMA CutSeq ==
  ASSUME NEW S, NEW q \in Seq(S), NEW lo \in 1..Len(q), NEW hi \in lo..Len(q),
         NEW r \in Seq(S), Len(r) = Len(q) - ((hi - lo) + 1),
         \A j \in 1 .. lo - 1 : r[j] = q[j],
         \A j \in lo..Len(r) : r[j] = q[j + ((hi - lo) + 1)]
  PROVE  SubSeq(q, 1, lo - 1) \o SubSeq(q, hi + 1, Len(q)) = r
<1> DEFINE n == Len(q)
           c == (hi - lo) + 1
           a == SubSeq(q, 1, lo - 1)
           b == SubSeq(q, hi + 1, n)
           d == a \o b
<1>1. n \in Nat /\ lo \in Nat /\ hi \in Nat /\ 1 <= lo /\ lo <= hi /\ hi <= n /\ c \in Nat
  OBVIOUS
<1>2. a \in Seq(S) /\ Len(a) = lo - 1 /\ \A j \in 1 .. lo - 1 : a[j] = q[j]
  <2>1. 1 \in 1 .. n + 1 /\ lo - 1 \in 1 - 1 .. n /\ ((lo - 1) - 1) + 1 = lo - 1
    BY <1>1
  <2>2. /\ a \in Seq(S) /\ Len(a) = ((lo - 1) - 1) + 1
        /\ \A j \in 1 .. ((lo - 1) - 1) + 1 : a[j] = q[(1 + j) - 1]
    BY <2>1, SubSeqIs
  <2>3. \A j \in 1 .. lo - 1 : (1 + j) - 1 = j
    BY <1>1
  <2> HIDE DEF a
  <2>4. QED
    BY <2>1, <2>2, <2>3
<1>3. b \in Seq(S) /\ Len(b) = n - hi /\ \A j \in 1 .. n - hi : b[j] = q[hi + j]
  <2>1. hi + 1 \in 1 .. n + 1 /\ n \in (hi + 1) - 1 .. n /\ (n - (hi + 1)) + 1 = n - hi
    BY <1>1
  <2>2. /\ b \in Seq(S) /\ Len(b) = (n - (hi + 1)) + 1
        /\ \A j \in 1 .. (n - (hi + 1)) + 1 : b[j] = q[((hi + 1) + j) - 1]
    BY <2>1, SubSeqIs
  <2>3. \A j \in 1 .. n - hi : ((hi + 1) + j) - 1 = hi + j
    BY <1>1
  <2> HIDE DEF b
  <2>4. QED
    BY <2>1, <2>2, <2>3
<1> HIDE DEF a, b
<1>4. d \in Seq(S) /\ Len(d) = Len(a) + Len(b)
      /\ \A j \in 1 .. Len(a) + Len(b) : d[j] = IF j <= Len(a) THEN a[j] ELSE b[j - Len(a)]
  BY <1>2, <1>3, ConcatProperties
<1> HIDE DEF d
<1>5. Len(d) = Len(r)
  BY <1>1, <1>2, <1>3, <1>4 DEF c
<1>6. ASSUME NEW j \in 1..Len(d) PROVE d[j] = r[j]
  <2>1. j \in 1 .. Len(a) + Len(b) /\ Len(d) = n - c /\ Len(r) = n - c
    BY <1>1, <1>4, <1>5 DEF c
  <2>2. CASE j <= lo - 1
    <3>1. j \in 1 .. lo - 1 /\ j <= Len(a)
      BY <1>1, <1>2, <2>2
    <3>2. d[j] = a[j] /\ a[j] = q[j] /\ r[j] = q[j]
      BY <1>2, <1>4, <2>1, <3>1
    <3>3. QED
      BY <3>2
  <2>3. CASE ~(j <= lo - 1)
    <3>1. /\ j \in lo..Len(r) /\ ~(j <= Len(a)) /\ j - Len(a) \in 1 .. n - hi
          /\ hi + (j - Len(a)) = j + c
      BY <1>1, <1>2, <2>1, <2>3 DEF c
    <3>2. d[j] = b[j - Len(a)] /\ b[j - Len(a)] = q[hi + (j - Len(a))]
      BY <1>3, <1>4, <2>1, <3>1
    <3>3. r[j] = q[j + c]
      BY <3>1 DEF c
    <3>4. QED
      BY <3>1, <3>2, <3>3
  <2>4. QED
    BY <2>2, <2>3
<1>7. d = r
  BY <1>4, <1>5, <1>6, SeqEqual
<1>8. QED
  BY <1>7 DEF a, b, d

LEMMA PairsIs ==
  ASSUME NEW o, NEW s, NEW L, Core(o, s, L)
  PROVE  /\ Entries(s)[L] = Pairs(s, L)
         /\ Pairs(s, L) \in Seq(Pair) /\ Len(Pairs(s, L)) = Len(L)
         /\ DOMAIN Pairs(s, L) = 1..Len(L)
         /\ \A i \in 1..Len(L) :
              /\ Pairs(s, L)[i] = <<s.value_map[L[i]], s.mem[L[i]].score>>
              /\ Pairs(s, L)[i][1] = s.value_map[L[i]] /\ s.value_map[L[i]] \in Value
              /\ Pairs(s, L)[i][2] = s.mem[L[i]].score /\ s.mem[L[i]].score \in Int
         /\ {s.value_map[a] : a \in (DOMAIN s.mem \ {SlHead}) \ Range(L)} = Missing(s, L)
<1> DEFINE n == Len(L)
           val(i) == s.value_map[L[i]]
           sc(i) == s.mem[L[i]].score
           P == Pairs(s, L)
<1>1. /\ Typed(s) /\ Tables(s) /\ L \in Seq(Addr) /\ n \in Nat
      /\ \A i \in 1..n : L[i] \in Held(s)
  BY CoreIs DEF Core
<1>2. \A i \in 1..n : val(i) \in Value /\ sc(i) \in Int
  BY <1>1, HeldIs
<1>3. DOMAIN L = 1..n
  BY <1>1
<1>4. Entries(s)[L] = [i \in DOMAIN L |-> <<s.value_map[L[i]], s.mem[L[i]].score>>]
  BY <1>1 DEF Entries
<1>5. Entries(s)[L] = P
  BY <1>3, <1>4 DEF Pairs
<1>6. P = [i \in 1..n |-> <<val(i), sc(i)>>]
  BY DEF Pairs
<1> HIDE DEF P, val, sc
<1>7. \A i \in 1..n : <<val(i), sc(i)>> \in Pair
  BY <1>2 DEF Pair
<1>8. P \in [1..n -> Pair] /\ \A i \in 1..n : P[i] = <<val(i), sc(i)>>
  BY <1>6, <1>7
<1>9. P \in Seq(Pair) /\ Len(P) = n /\ DOMAIN P = 1..n
  BY <1>1, <1>8, SeqMake
<1>10. \A i \in 1..n : P[i][1] = val(i) /\ P[i][2] = sc(i)
  BY <1>8
<1>11. Range(L) = {L[i] : i \in 1..n}
  BY <1>3 DEF Range
<1>12. {s.value_map[a] : a \in (DOMAIN s.mem \ {SlHead}) \ Range(L)} = Missing(s, L)
  BY <1>11 DEF Missing, Held
<1>13. QED
  BY <1>2, <1>5, <1>8, <1>9, <1>10, <1>12 DEF P, val, sc

(* Scores do not fall along the list, or do not rise if it is descending.  *)
LEMMA PairsOrdered ==
  ASSUME NEW o, NEW s, NEW L, Core(o, s, L), NEW i \in 1..Len(L), NEW j \in 1..Len(L), i < j
  PROVE  IF o = "desc" THEN s.mem[L[i]].score >= s.mem[L[j]].score
         ELSE s.mem[L[i]].score <= s.mem[L[j]].score
<1> DEFINE x == s.mem[L[i]].score
           y == s.mem[L[j]].score
<1>1. /\ Typed(s) /\ Tables(s) /\ L[i] \in Held(s) /\ L[j] \in Held(s)
      /\ Earlier(o, s, L[i], L[j])
  BY CoreIs DEF Core
<1>2. x \in Int /\ y \in Int
  BY <1>1, HeldIs
<1>3. IF o = "desc" THEN 0 - x < 0 - y \/ 0 - x = 0 - y ELSE x < y \/ x = y
  BY <1>1 DEF Earlier, Lower, Key
<1> HIDE DEF x, y
<1>4. IF o = "desc" THEN x >= y ELSE x <= y
  BY <1>2, <1>3
<1>5. QED
  BY <1>4 DEF x, y

(* Values of nodes that are held are their own.                            *)
LEMMA ValuesOwn ==
  ASSUME NEW o, NEW s, NEW L, Core(o, s, L), NEW a \in Held(s), NEW b \in Held(s),
         s.value_map[a] = s.value_map[b]
  PROVE  a = b
<1>1. Typed(s) /\ Tables(s)
  BY DEF Core
<1>2. s.node_map[s.value_map[a]] = a /\ s.node_map[s.value_map[b]] = b
  BY <1>1, HeldIs
<1>3. QED
  BY <1>2

LEMMA CutPairs ==
  ASSUME NEW o, NEW s, NEW L, Core(o, s, L), NEW lo \in 1..Len(L), NEW hi \in lo..Len(L),
         NEW M, Cutout(L, lo, (hi - lo) + 1, M), NEW r \in Seq(Pair), Len(r) = Len(M),
         \A i \in 1..Len(M) : r[i] = <<s.value_map[M[i]], s.mem[M[i]].score>>
  PROVE  SubSeq(Pairs(s, L), 1, lo - 1) \o SubSeq(Pairs(s, L), hi + 1, Len(Pairs(s, L))) = r
<1> DEFINE q == Pairs(s, L)
           n == Len(L)
           c == (hi - lo) + 1
           e(a) == <<s.value_map[a], s.mem[a].score>>
<1>1. /\ q \in Seq(Pair) /\ Len(q) = n /\ \A i \in 1..n : q[i] = e(L[i])
  BY PairsIs
<1>2. n \in Nat /\ lo \in Nat /\ hi \in Nat /\ 1 <= lo /\ lo <= hi /\ hi <= n /\ c \in Nat
  BY CoreIs
<1>3. /\ Len(M) = n - c /\ \A i \in 1 .. lo - 1 : M[i] = L[i]
      /\ \A i \in lo .. n - c : M[i] = L[i + c]
  BY DEF Cutout
<1>4. \A i \in 1..Len(M) : r[i] = e(M[i])
  OBVIOUS
<1> HIDE DEF q, e, c
<1>5. c = (hi - lo) + 1
  BY DEF c
<1>6. ASSUME NEW j \in 1 .. lo - 1 PROVE r[j] = q[j]
  <2>1. j \in 1..n /\ j \in 1..Len(M)
    BY <1>2, <1>3, <1>5
  <2>2. QED
    BY <1>1, <1>3, <1>4, <2>1
<1>7. ASSUME NEW j \in lo..Len(r) PROVE r[j] = q[j + c]
  <2>1. j \in lo .. n - c /\ j \in 1..Len(M) /\ j + c \in 1..n
    BY <1>2, <1>3, <1>5
  <2>2. QED
    BY <1>1, <1>3, <1>4, <2>1
<1>8. lo \in 1..Len(q) /\ hi \in lo..Len(q) /\ Len(r) = Len(q) - c
  BY <1>1, <1>2, <1>3
<1>9. SubSeq(q, 1, lo - 1) \o SubSeq(q, hi + 1, Len(q)) = r
  BY <1>1, <1>5, <1>6, <1>7, <1>8, CutSeq
<1>10. QED
  BY <1>9 DEF q

(* One place less.                                                         *)
LEMMA RemovedPair ==
  ASSUME NEW o, NEW s, NEW L, Core(o, s, L), NEW m \in 1..Len(L),
         NEW M, Cutout(L, m, 1, M), NEW r \in Seq(Pair), Len(r) = Len(M),
         \A i \in 1..Len(M) : r[i] = <<s.value_map[M[i]], s.mem[M[i]].score>>
  PROVE  RemoveAt(Pairs(s, L), m) = r
<1>1. m \in m..Len(L) /\ (m - m) + 1 = 1
  <2>1. Len(L) \in Nat
    BY CoreIs
  <2>2. QED
    BY <2>1
<1>2. Cutout(L, m, (m - m) + 1, M)
  BY <1>1
<1>3. SubSeq(Pairs(s, L), 1, m - 1) \o SubSeq(Pairs(s, L), m + 1, Len(Pairs(s, L))) = r
  BY <1>1, <1>2, CutPairs
<1>4. QED
  BY <1>3 DEF RemoveAt

LEMMA WithCutout ==
  ASSUME NEW N \in Seq(Addr), NEW k \in 0..Len(N), NEW a, NEW M, With(N, k, a, M)
  PROVE  k + 1 \in 1..Len(M) /\ M[k + 1] = a /\ Cutout(M, k + 1, 1, N)
<1>1. /\ Len(N) \in Nat /\ Len(M) = Len(N) + 1
      /\ \A i \in 1..k : M[i] = N[i]
      /\ M[k + 1] = a
      /\ \A i \in k + 1 .. Len(N) : M[i + 1] = N[i]
  BY DEF With
<1>2. k + 1 \in 1..Len(M) /\ Len(N) = Len(M) - 1 /\ (k + 1) - 1 = k /\ Len(M) - 1 = Len(N)
  BY <1>1
<1>3. Cutout(M, k + 1, 1, N)
  BY <1>1, <1>2 DEF Cutout
<1>4. QED
  BY <1>1, <1>2, <1>3

LEMMA PairsSeq ==
  ASSUME NEW o, NEW s, NEW L, Core(o, s, L), NEW M \in Seq(Addr),
         \A i \in 1..Len(M) : M[i] \in Held(s)
  PROVE  /\ Pairs(s, M) \in Seq(Pair) /\ Len(Pairs(s, M)) = Len(M)
         /\ \A i \in 1..Len(M) : Pairs(s, M)[i] = <<s.value_map[M[i]], s.mem[M[i]].score>>
<1> DEFINE n == Len(M)
           val(i) == s.value_map[M[i]]
           sc(i) == s.mem[M[i]].score
           P == Pairs(s, M)
<1>1. Typed(s) /\ Tables(s) /\ n \in Nat
  BY DEF Core
<1>2. \A i \in 1..n : val(i) \in Value /\ sc(i) \in Int
  BY <1>1, HeldIs
<1>3. P = [i \in 1..n |-> <<val(i), sc(i)>>]
  BY DEF Pairs
<1> HIDE DEF P, val, sc
<1>4. \A i \in 1..n : <<val(i), sc(i)>> \in Pair
  BY <1>2 DEF Pair
<1>5. P \in [1..n -> Pair] /\ \A i \in 1..n : P[i] = <<val(i), sc(i)>>
  BY <1>3, <1>4
<1>6. P \in Seq(Pair) /\ Len(P) = n
  BY <1>1, <1>5, SeqMake
<1>7. QED
  BY <1>5, <1>6 DEF P, val, sc

(* The board's view of a value.                                            *)
LEMMA BoardRanked ==
  ASSUME NEW L, Core(order, sl, L), Line(sl) = L, NEW m \in 1..Len(L),
         NEW v, v = sl.value_map[L[m]]
  PROVE  Board!Ranked(v) /\ Board!Without(v) = RemoveAt(Pairs(sl, L), m)
<1> DEFINE X == Entries(sl)[Line(sl)]
           n == Len(L)
<1>1. /\ X = Pairs(sl, L) /\ DOMAIN Pairs(sl, L) = 1..n
      /\ \A i \in 1..n : Pairs(sl, L)[i][1] = sl.value_map[L[i]]
  BY PairsIs
<1>2. ASSUME NEW i \in 1..n, sl.value_map[L[i]] = v PROVE i = m
  <2>1. /\ L[i] \in Held(sl) /\ L[m] \in Held(sl)
        /\ \A j, k \in 1..n : L[j] = L[k] => j = k
    BY CoreIs
  <2>2. L[i] = L[m]
    BY <1>2, <2>1, ValuesOwn
  <2>3. QED
    BY <2>1, <2>2
<1> HIDE DEF X
<1>3. /\ DOMAIN X = 1..n /\ m \in DOMAIN X /\ X[m][1] = v
      /\ \A i \in DOMAIN X : X[i][1] = v => i = m
  BY <1>1, <1>2
<1>4. Board!Ranked(v)
  BY <1>3 DEF X, Board!Ranked
<1>5. (CHOOSE i \in DOMAIN X : X[i][1] = v) = m
  BY <1>3
<1>6. Board!Rank(v) = m
  BY <1>5 DEF X, Board!Rank
<1>7. Board!Without(v) = RemoveAt(X, m)
  BY <1>4, <1>6 DEF X, Board!Without, Board!RemoveAt, RemoveAt
<1>8. QED
  BY <1>1, <1>4, <1>7

LEMMA BoardOther ==
  ASSUME NEW L, Core(order, sl, L), Line(sl) = L,
         NEW v, \A i \in 1..Len(L) : sl.value_map[L[i]] # v
  PROVE  ~Board!Ranked(v) /\ Board!Without(v) = Pairs(sl, L)
<1> DEFINE X == Entries(sl)[Line(sl)]
           n == Len(L)
<1>1. /\ X = Pairs(sl, L) /\ DOMAIN Pairs(sl, L) = 1..n
      /\ \A i \in 1..n : Pairs(sl, L)[i][1] = sl.value_map[L[i]]
  BY PairsIs
<1> HIDE DEF X
<1>2. \A i \in DOMAIN X : X[i][1] # v
  BY <1>1
<1>3. ~Board!Ranked(v)
  BY <1>2 DEF X, Board!Ranked
<1>4. Board!Without(v) = X
  BY <1>3 DEF X, Board!Without
<1>5. QED
  BY <1>1, <1>3, <1>4

(* The ranking and the values lost, in this state and in the next.         *)
LEMMA BoardIs ==
  ASSUME NEW o, NEW s, NEW L, Core(o, s, L)
  PROVE  /\ Entries(s)[Line(s)] = Pairs(s, L)
         /\ {s.value_map[a] : a \in (DOMAIN s.mem \ {SlHead}) \ Range(Line(s))} = Missing(s, L)
<1>1. Line(s) = L
  BY CoreIs
<1>2. QED
  BY <1>1, PairsIs

LEMMA BoardPut ==
  ASSUME NEW L, Core(order, sl, L), NEW M, Core(order, sl', M), order' = order,
         NEW N \in Seq(Addr), \A i \in 1..Len(N) : N[i] \in Held(sl'),
         NEW k \in 0..Len(N), NEW a, With(N, k, a, M),
         NEW v, v = sl'.value_map[a], NEW score, score = sl'.mem[a].score,
         Pairs(sl', N) = Board!Without(v),
         v \notin Missing(sl, L), Missing(sl', M) = Missing(sl, L)
  PROVE  Board!Put(v, score)
<1> DEFINE Y == Entries(sl')[Line(sl')]
           W == {sl.value_map[b] : b \in (DOMAIN sl.mem \ {SlHead}) \ Range(Line(sl))}
           Z == {sl'.value_map[b] : b \in (DOMAIN sl'.mem \ {SlHead}) \ Range(Line(sl'))}
           d == order = "desc"
           m == k + 1
<1>1. Y = Pairs(sl', M) /\ Z = Missing(sl', M) /\ W = Missing(sl, L)
  BY BoardIs
<1>2. m \in 1..Len(M) /\ M[m] = a /\ Cutout(M, m, 1, N)
  BY WithCutout
<1>3. /\ DOMAIN Pairs(sl', M) = 1..Len(M)
      /\ Pairs(sl', M)[m] = <<sl'.value_map[M[m]], sl'.mem[M[m]].score>>
      /\ \A i \in 1..Len(M) : Pairs(sl', M)[i][2] = sl'.mem[M[i]].score
  BY <1>2, PairsIs
<1>4. RemoveAt(Pairs(sl', M), m) = Pairs(sl', N)
  <2>1. /\ Pairs(sl', N) \in Seq(Pair) /\ Len(Pairs(sl', N)) = Len(N)
        /\ \A i \in 1..Len(N) : Pairs(sl', N)[i] = <<sl'.value_map[N[i]], sl'.mem[N[i]].score>>
    BY PairsSeq
  <2>2. QED
    BY <1>2, <2>1, RemovedPair
<1> HIDE DEF Y, Z, W, m, d
<1>5. m \in DOMAIN Y /\ Y[m] = <<v, score>> /\ RemoveAt(Y, m) = Board!Without(v)
  BY <1>1, <1>2, <1>3, <1>4
<1>6. ASSUME NEW i \in DOMAIN Y, NEW j \in DOMAIN Y, i < j
      PROVE  IF d THEN Y[i][2] >= Y[j][2] ELSE Y[i][2] <= Y[j][2]
  <2>1. i \in 1..Len(M) /\ j \in 1..Len(M)
    BY <1>1, <1>3
  <2>2. IF order = "desc" THEN sl'.mem[M[i]].score >= sl'.mem[M[j]].score
        ELSE sl'.mem[M[i]].score <= sl'.mem[M[j]].score
    BY <1>6, <2>1, PairsOrdered
  <2>3. QED
    BY <1>1, <1>3, <2>1, <2>2 DEF d
<1>7. Board!InOrder(Y)
  BY <1>6 DEF d, Board!InOrder
<1>8. v \notin W /\ Z = W
  BY <1>1
<1>9. \E i \in DOMAIN Y : Y[i] = <<v, score>> /\ RemoveAt(Y, i) = Board!Without(v)
  BY <1>5
<1>10. QED
  BY <1>7, <1>8, <1>9 DEF Board!Put, Board!RemoveAt, RemoveAt, Y, Z, W

NodesIn(L) == {L[i] : i \in 1..Len(L)}

LEMMA CutoutRange ==
  ASSUME NEW L \in Seq(Addr), \A i, j \in 1..Len(L) : L[i] = L[j] => i = j,
         NEW lo \in 1..Len(L), NEW hi \in lo..Len(L), NEW M, Cutout(L, lo, (hi - lo) + 1, M)
  PROVE  NodesIn(M) = NodesIn(L) \ {L[i] : i \in lo..hi}
<1> DEFINE n == Len(L)
           c == (hi - lo) + 1
<1>1. n \in Nat /\ lo \in Nat /\ hi \in Nat /\ 1 <= lo /\ lo <= hi /\ hi <= n /\ c \in Nat
  OBVIOUS
<1>2. /\ Len(M) = n - c /\ \A i \in 1 .. lo - 1 : M[i] = L[i]
      /\ \A i \in lo .. n - c : M[i] = L[i + c]
  BY DEF Cutout
<1> HIDE DEF c
<1>3. c = (hi - lo) + 1
  BY DEF c
<1>4. ASSUME NEW i \in 1..Len(M) PROVE \E j \in 1..n : M[i] = L[j] /\ j \notin lo..hi
  <2>1. CASE i < lo
    <3>1. i \in 1 .. lo - 1 /\ i \in 1..n /\ i \notin lo..hi
      BY <1>1, <2>1
    <3>2. QED
      BY <1>2, <3>1
  <2>2. CASE ~(i < lo)
    <3>1. i \in lo .. n - c /\ i + c \in 1..n /\ i + c \notin lo..hi
      BY <1>1, <1>2, <1>3, <2>2
    <3>2. QED
      BY <1>2, <3>1
  <2>3. QED
    BY <2>1, <2>2
<1>5. ASSUME NEW j \in 1..n, j \notin lo..hi PROVE \E i \in 1..Len(M) : M[i] = L[j]
  <2>1. CASE j < lo
    <3>1. j \in 1 .. lo - 1 /\ j \in 1..Len(M)
      BY <1>1, <1>2, <1>3, <2>1
    <3>2. QED
      BY <1>2, <3>1
  <2>2. CASE j > hi
    <3>1. j - c \in lo .. n - c /\ j - c \in 1..Len(M) /\ (j - c) + c = j
      BY <1>1, <1>2, <1>3, <2>2
    <3>2. QED
      BY <1>2, <3>1
  <2>3. QED
    BY <1>1, <1>5, <2>1, <2>2
<1>6. \A p \in NodesIn(M) : p \in NodesIn(L) \ {L[i] : i \in lo..hi}
  <2> SUFFICES ASSUME NEW i \in 1..Len(M) PROVE M[i] \in NodesIn(L) \ {L[j] : j \in lo..hi}
    BY DEF NodesIn
  <2>1. PICK j \in 1..n : M[i] = L[j] /\ j \notin lo..hi
    BY <1>4
  <2>2. \A h \in lo..hi : h \in 1..n
    BY <1>1
  <2>3. \A h \in lo..hi : L[h] # L[j]
    BY <2>1, <2>2
  <2>4. QED
    BY <2>1, <2>3 DEF NodesIn
<1>7. \A p \in NodesIn(L) \ {L[i] : i \in lo..hi} : p \in NodesIn(M)
  <2> SUFFICES ASSUME NEW j \in 1..n, L[j] \notin {L[i] : i \in lo..hi} PROVE L[j] \in NodesIn(M)
    BY DEF NodesIn
  <2>1. j \notin lo..hi
    OBVIOUS
  <2>2. PICK i \in 1..Len(M) : M[i] = L[j]
    BY <1>5, <2>1
  <2>3. QED
    BY <2>2 DEF NodesIn
<1>8. QED
  BY <1>6, <1>7

LEMMA CutoutOne ==
  ASSUME NEW L \in Seq(Addr), \A i, j \in 1..Len(L) : L[i] = L[j] => i = j,
         NEW m \in 1..Len(L), NEW M, Cutout(L, m, 1, M)
  PROVE  NodesIn(M) = NodesIn(L) \ {L[m]}
<1>1. m \in Nat /\ m \in m..Len(L) /\ (m - m) + 1 = 1 /\ m..m = {m}
  OBVIOUS
<1>2. Cutout(L, m, (m - m) + 1, M)
  BY <1>1
<1>3. NodesIn(M) = NodesIn(L) \ {L[i] : i \in m..m}
  BY <1>1, <1>2, CutoutRange
<1>4. QED
  BY <1>1, <1>3

(* The other way round.                                                    *)
LEMMA WithRange ==
  ASSUME NEW o, NEW s, NEW M, Core(o, s, M), NEW N \in Seq(Addr), NEW k \in 0..Len(N),
         NEW a, With(N, k, a, M)
  PROVE  NodesIn(M) = NodesIn(N) \cup {a}
<1>1. M \in Seq(Addr) /\ \A i, j \in 1..Len(M) : M[i] = M[j] => i = j
  BY CoreIs
<1>2. k + 1 \in 1..Len(M) /\ M[k + 1] = a /\ Cutout(M, k + 1, 1, N)
  BY WithCutout
<1>3. NodesIn(N) = NodesIn(M) \ {M[k + 1]}
  BY <1>1, <1>2, CutoutOne
<1>4. a \in NodesIn(M)
  BY <1>2 DEF NodesIn
<1>5. QED
  BY <1>2, <1>3, <1>4

(* Pairs and missing values depend on the nodes that are named only.       *)
LEMMA PairsSame ==
  ASSUME NEW s, NEW t, NEW L,
         \A i \in 1..Len(L) : /\ t.value_map[L[i]] = s.value_map[L[i]]
                              /\ t.mem[L[i]].score = s.mem[L[i]].score
  PROVE  Pairs(t, L) = Pairs(s, L)
  BY DEF Pairs

LEMMA MissingSame ==
  ASSUME NEW s, NEW L, NEW t, NEW M,
         Held(t) \ NodesIn(M) = Held(s) \ NodesIn(L),
         \A p \in Held(s) \ NodesIn(L) : t.value_map[p] = s.value_map[p]
  PROVE  Missing(t, M) = Missing(s, L)
<1>1. /\ Missing(t, M) = {t.value_map[p] : p \in Held(t) \ NodesIn(M)}
      /\ Missing(s, L) = {s.value_map[p] : p \in Held(s) \ NodesIn(L)}
  BY DEF Missing, NodesIn
<1> DEFINE A == Held(s) \ NodesIn(L)
<1>2. Held(t) \ NodesIn(M) = A /\ \A p \in A : t.value_map[p] = s.value_map[p]
  OBVIOUS
<1>3. {t.value_map[p] : p \in A} = {s.value_map[p] : p \in A}
  BY <1>2
<1>4. QED
  BY <1>1, <1>2, <1>3

MissesOne(s, L, t, M, v) == Missing(t, M) = Missing(s, L) \cup {v}

LEMMA MissingOne ==
  ASSUME NEW s, NEW L, NEW t, NEW M, NEW a, NEW v, v = t.value_map[a],
         Held(t) \ NodesIn(M) = (Held(s) \ NodesIn(L)) \cup {a},
         \A p \in Held(s) \ NodesIn(L) : t.value_map[p] = s.value_map[p]
  PROVE  MissesOne(s, L, t, M, v)
<1>1. /\ Missing(t, M) = {t.value_map[p] : p \in Held(t) \ NodesIn(M)}
      /\ Missing(s, L) = {s.value_map[p] : p \in Held(s) \ NodesIn(L)}
  BY DEF Missing, NodesIn
<1> DEFINE A == Held(s) \ NodesIn(L)
           B == Held(t) \ NodesIn(M)
<1>2. B = A \cup {a} /\ \A p \in A : t.value_map[p] = s.value_map[p]
  OBVIOUS
<1> HIDE DEF A, B
<1>3. {t.value_map[p] : p \in B} = {t.value_map[p] : p \in A} \cup {t.value_map[a]}
  BY <1>2
<1>4. {t.value_map[p] : p \in A} = {s.value_map[p] : p \in A}
  BY <1>2
<1>5. QED
  BY <1>1, <1>3, <1>4 DEF A, B, MissesOne

(* The value of a node in the list is not missing.                         *)
LEMMA NotMissing ==
  ASSUME NEW o, NEW s, NEW L, Core(o, s, L), NEW m \in 1..Len(L)
  PROVE  s.value_map[L[m]] \notin Missing(s, L) /\ s.value_map[L[m]] \in Value
<1>1. L[m] \in Held(s) /\ Typed(s) /\ Tables(s)
  BY CoreIs DEF Core
<1>2. s.value_map[L[m]] \in Value
  BY <1>1, HeldIs
<1>3. ASSUME NEW p \in Held(s), s.value_map[p] = s.value_map[L[m]] PROVE p = L[m]
  BY <1>1, <1>3, ValuesOwn
<1>4. \A p \in Held(s) \ {L[i] : i \in 1..Len(L)} : s.value_map[p] # s.value_map[L[m]]
  BY <1>3
<1>5. QED
  BY <1>2, <1>4 DEF Missing

-----------------------------------------------------------------------------
(* Each operation does to the ranking what Ranking says.                   *)
LEMMA InsertPuts ==
  ASSUME IInv, NEW v \in Value, NEW score \in Score, Insert(v, score)
  PROVE  Board!Put(v, score)
<1> DEFINE L == Line(sl)
<1>1. /\ Core(order, sl, L) /\ L \in Seq(Addr) /\ Len(L) \in Nat
      /\ \A i \in 1..Len(L) : L[i] \in Held(sl)
  BY InvIs
<1> HIDE DEF L
<1>2. Typed(sl) /\ Tables(sl) /\ Line(sl) = L
  BY <1>1, CoreIs DEF Core
<1>3. PICK a \in Addr \ DOMAIN sl.mem, h \in 1..MaxLevel :
        sl' = SlInsertNode(Created(sl, a, v, score, h), a)
  BY DEF Insert
<1>4. sl.node_map[v] = Nil /\ order' = order
  BY DEF Insert
<1>5. PICK M : \E k \in 0..Len(L) :
           /\ With(L, k, a, M) /\ Core(order, sl', M)
           /\ Held(sl') = Held(sl) \cup {a} /\ a \notin Held(sl) /\ Same(sl, sl', Held(sl))
           /\ sl'.mem[a].score = score /\ sl'.value_map[a] = v
  BY <1>1, <1>3, <1>4, InsertedCore
<1>6. PICK k \in 0..Len(L) : With(L, k, a, M)
  BY <1>5
<1>7. \A p \in Held(sl) : sl'.mem[p].score = sl.mem[p].score /\ sl'.value_map[p] = sl.value_map[p]
  BY <1>5 DEF Same
<1>8. \A p \in Held(sl) : sl.value_map[p] # v
  BY <1>2, <1>4, HeldIs
<1>9. Pairs(sl', L) = Board!Without(v)
  <2>1. Pairs(sl', L) = Pairs(sl, L)
    BY <1>1, <1>7, PairsSame
  <2>2. Board!Without(v) = Pairs(sl, L)
    BY <1>1, <1>2, <1>8, BoardOther
  <2>3. QED
    BY <2>1, <2>2
<1>10. v \notin Missing(sl, L)
  BY <1>8 DEF Missing
<1>11. Missing(sl', M) = Missing(sl, L)
  <2>1. NodesIn(M) = NodesIn(L) \cup {a}
    BY <1>1, <1>5, <1>6, WithRange
  <2>2. Held(sl') \ NodesIn(M) = Held(sl) \ NodesIn(L)
    BY <1>5, <2>1
  <2>3. QED
    BY <1>7, <2>2, MissingSame
<1>12. \A i \in 1..Len(L) : L[i] \in Held(sl')
  BY <1>1, <1>5
<1>13. QED
  BY <1>1, <1>4, <1>5, <1>6, <1>9, <1>10, <1>11, <1>12, BoardPut

LEMMA InsertRaisesLoses ==
  ASSUME IInv, NEW v \in Value, NEW score \in Score, InsertRaises(v, score)
  PROVE  Board!Lose(v)
<1> DEFINE L == Line(sl)
           Y == Entries(sl')[Line(sl')]
           W == {sl.value_map[b] : b \in (DOMAIN sl.mem \ {SlHead}) \ Range(Line(sl))}
           Z == {sl'.value_map[b] : b \in (DOMAIN sl'.mem \ {SlHead}) \ Range(Line(sl'))}
           d == order = "desc"
<1>1. /\ Core(order, sl, L) /\ L \in Seq(Addr) /\ Len(L) \in Nat
      /\ \A i \in 1..Len(L) : L[i] \in Held(sl)
  BY InvIs
<1> HIDE DEF L
<1>2. Typed(sl) /\ Tables(sl) /\ Line(sl) = L
  BY <1>1, CoreIs DEF Core
<1>3. PICK a \in Addr \ DOMAIN sl.mem, h \in 1..MaxLevel : sl' = Created(sl, a, v, score, h)
  BY DEF InsertRaises
<1>4. sl.node_map[v] = Nil /\ order' = order
  BY DEF InsertRaises
<1>5. /\ Core(order, sl', L)
      /\ a \in Held(sl') /\ Held(sl') = Held(sl) \cup {a} /\ \A i \in 1..Len(L) : L[i] # a
      /\ sl'.value_map[a] = v
      /\ \A p \in Held(sl) : /\ sl'.mem[p].score = sl.mem[p].score
                             /\ sl'.value_map[p] = sl.value_map[p]
  BY <1>1, <1>3, <1>4, CreatedCore
<1>6. \A p \in Held(sl) : sl.value_map[p] # v
  BY <1>2, <1>4, HeldIs
<1>7. Y = Pairs(sl', L) /\ Z = Missing(sl', L) /\ W = Missing(sl, L)
  BY <1>1, <1>5, BoardIs
<1> HIDE DEF Y, Z, W, d
<1>8. Y = Board!Without(v)
  <2>1. Pairs(sl', L) = Pairs(sl, L)
    BY <1>1, <1>5, PairsSame
  <2>2. Board!Without(v) = Pairs(sl, L)
    BY <1>1, <1>2, <1>6, BoardOther
  <2>3. QED
    BY <1>7, <2>1, <2>2
<1>9. Z = W \cup {v}
  <2>1. a \notin NodesIn(L)
    BY <1>5 DEF NodesIn
  <2>2. Held(sl') \ NodesIn(L) = (Held(sl) \ NodesIn(L)) \cup {a}
    BY <1>5, <2>1
  <2>3. \A p \in Held(sl) \ NodesIn(L) : sl'.value_map[p] = sl.value_map[p]
    BY <1>5
  <2>4. MissesOne(sl, L, sl', L, v)
    BY <1>5, <2>2, <2>3, MissingOne
  <2>5. QED
    BY <1>7, <2>4 DEF MissesOne
<1>10. QED
  BY <1>4, <1>8, <1>9 DEF Board!Lose, Y, Z, W

(* The nodes that an update leaves where they are.                         *)
LEMMA OthersIn ==
  ASSUME NEW o, NEW s, NEW L, Core(o, s, L), NEW m \in 1..Len(L), NEW N, Cutout(L, m, 1, N)
  PROVE  /\ N \in Seq(Addr) /\ Len(N) \in Nat
         /\ NodesIn(N) = NodesIn(L) \ {L[m]}
         /\ \A i \in 1..Len(N) : N[i] \in Held(s) \ {L[m]}
         /\ RemoveAt(Pairs(s, L), m) = Pairs(s, N)
<1>1. /\ L \in Seq(Addr) /\ \A i \in 1..Len(L) : L[i] \in Held(s)
      /\ \A i, j \in 1..Len(L) : L[i] = L[j] => i = j
  BY CoreIs
<1>2. N \in Seq(Addr) /\ Len(N) \in Nat
  BY DEF Cutout
<1>3. NodesIn(N) = NodesIn(L) \ {L[m]}
  BY <1>1, CutoutOne
<1>4. ASSUME NEW i \in 1..Len(N) PROVE N[i] \in Held(s) \ {L[m]}
  <2>1. N[i] \in NodesIn(N)
    BY DEF NodesIn
  <2>2. N[i] \in NodesIn(L) \ {L[m]}
    BY <1>3, <2>1
  <2>3. QED
    BY <1>1, <2>2 DEF NodesIn
<1>5. /\ Pairs(s, N) \in Seq(Pair) /\ Len(Pairs(s, N)) = Len(N)
      /\ \A i \in 1..Len(N) : Pairs(s, N)[i] = <<s.value_map[N[i]], s.mem[N[i]].score>>
  BY <1>2, <1>4, PairsSeq
<1>6. RemoveAt(Pairs(s, L), m) = Pairs(s, N)
  BY <1>5, RemovedPair
<1>7. QED
  BY <1>2, <1>3, <1>4, <1>6

LEMMA UpdatePuts ==
  ASSUME IInv, NEW v \in Value, NEW score \in Score, Update(v, score)
  PROVE  Board!Put(v, score)
<1> DEFINE L == Line(sl)
<1>1. Core(order, sl, L) /\ Line(sl) = L
  BY InvIs
<1> HIDE DEF L
<1>2. PICK m \in 1..Len(L) : sl.node_map[v] = L[m] /\ sl.value_map[L[m]] = v
  BY <1>1, ListedIs DEF Update
<1>3. /\ sl' = SlInsertNode(Scored(SlDeleteNode(sl, L[m]), L[m], score), L[m])
      /\ order' = order
  BY <1>2 DEF Update
<1> DEFINE a == L[m]
<1>4. PICK N, M : \E k \in 0..Len(N) :
           /\ Cutout(L, m, 1, N) /\ With(N, k, a, M) /\ Core(order, sl', M)
           /\ Held(sl') = Held(sl) /\ sl'.mem[a].score = score
           /\ sl'.value_map = sl.value_map
           /\ \A p \in Held(sl) \ {a} : sl'.mem[p].score = sl.mem[p].score
  BY <1>1, <1>3, UpdatedCore
<1>5. PICK k \in 0..Len(N) : With(N, k, a, M)
  BY <1>4
<1>6. /\ N \in Seq(Addr) /\ Len(N) \in Nat
      /\ NodesIn(N) = NodesIn(L) \ {a}
      /\ \A i \in 1..Len(N) : N[i] \in Held(sl) \ {a}
      /\ RemoveAt(Pairs(sl, L), m) = Pairs(sl, N)
  BY <1>1, <1>4, OthersIn
<1>7. a \in NodesIn(L)
  BY DEF NodesIn
<1>8. v \notin Missing(sl, L) /\ sl'.value_map[a] = v
  BY <1>1, <1>2, <1>4, NotMissing
<1>9. Board!Without(v) = RemoveAt(Pairs(sl, L), m)
  BY <1>1, <1>2, BoardRanked
<1> HIDE DEF a
<1>10. Pairs(sl', N) = Board!Without(v)
  <2>1. Pairs(sl', N) = Pairs(sl, N)
    BY <1>4, <1>6, PairsSame
  <2>2. QED
    BY <1>6, <1>9, <2>1
<1>11. Missing(sl', M) = Missing(sl, L)
  <2>1. NodesIn(M) = NodesIn(N) \cup {a}
    BY <1>4, <1>5, <1>6, WithRange
  <2>2. Held(sl') \ NodesIn(M) = Held(sl) \ NodesIn(L)
    BY <1>4, <1>6, <1>7, <2>1
  <2>3. QED
    BY <1>4, <2>2, MissingSame
<1>12. \A i \in 1..Len(N) : N[i] \in Held(sl')
  BY <1>4, <1>6
<1>13. QED
  BY <1>1, <1>3, <1>4, <1>5, <1>6, <1>8, <1>10, <1>11, <1>12, BoardPut

LEMMA UpdateRaisesLoses ==
  ASSUME IInv, NEW v \in Value, NEW score \in Score, UpdateRaises(v, score)
  PROVE  Board!Lose(v)
<1> DEFINE L == Line(sl)
           Y == Entries(sl')[Line(sl')]
           W == {sl.value_map[b] : b \in (DOMAIN sl.mem \ {SlHead}) \ Range(Line(sl))}
           Z == {sl'.value_map[b] : b \in (DOMAIN sl'.mem \ {SlHead}) \ Range(Line(sl'))}
           d == order = "desc"
<1>1. Core(order, sl, L) /\ Line(sl) = L
  BY InvIs
<1> HIDE DEF L
<1>2. PICK m \in 1..Len(L) : sl.node_map[v] = L[m] /\ sl.value_map[L[m]] = v
  BY <1>1, ListedIs DEF UpdateRaises
<1> DEFINE a == L[m]
<1>3. sl' = Scored(SlDeleteNode(sl, a), a, score) /\ order' = order
  BY <1>2 DEF UpdateRaises
<1>4. PICK N : /\ Cutout(L, m, 1, N) /\ Core(order, sl', N)
               /\ Held(sl') = Held(sl)
               /\ sl'.value_map = sl.value_map
               /\ \A p \in Held(sl) \ {a} : sl'.mem[p].score = sl.mem[p].score
  BY <1>1, <1>3, TakenCore
<1>5. /\ N \in Seq(Addr) /\ Len(N) \in Nat
      /\ NodesIn(N) = NodesIn(L) \ {a}
      /\ \A i \in 1..Len(N) : N[i] \in Held(sl) \ {a}
      /\ RemoveAt(Pairs(sl, L), m) = Pairs(sl, N)
  BY <1>1, <1>4, OthersIn
<1>6. a \in NodesIn(L) /\ a \in Held(sl)
  BY <1>1, CoreIs DEF NodesIn
<1>7. Board!Without(v) = RemoveAt(Pairs(sl, L), m) /\ sl'.value_map[a] = v
  BY <1>1, <1>2, <1>4, BoardRanked
<1>8. Y = Pairs(sl', N) /\ Z = Missing(sl', N) /\ W = Missing(sl, L)
  BY <1>1, <1>4, BoardIs
<1> HIDE DEF Y, Z, W, d, a
<1>9. Y = Board!Without(v)
  <2>1. Pairs(sl', N) = Pairs(sl, N)
    BY <1>4, <1>5, PairsSame
  <2>2. QED
    BY <1>5, <1>7, <1>8, <2>1
<1>10. Z = W \cup {v}
  <2>1. Held(sl') \ NodesIn(N) = (Held(sl) \ NodesIn(L)) \cup {a}
    BY <1>4, <1>5, <1>6
  <2>2. \A p \in Held(sl) \ NodesIn(L) : sl'.value_map[p] = sl.value_map[p]
    BY <1>4
  <2>3. MissesOne(sl, L, sl', N, v)
    BY <1>7, <2>1, <2>2, MissingOne
  <2>4. QED
    BY <1>8, <2>3 DEF MissesOne
<1>11. QED
  BY <1>3, <1>9, <1>10 DEF Board!Lose, Y, Z, W

(* Nodes lo to hi are deleted, whichever operation it is.                  *)
LEMMA RanksDeleted ==
  ASSUME NEW L, Core(order, sl, L), order' = order,
         NEW lo \in 1..Len(L), NEW hi \in lo..Len(L), NEW M, Cutout(L, lo, (hi - lo) + 1, M),
         Core(order, sl', M), Held(sl') = Held(sl) \ {L[i] : i \in lo..hi},
         Same(sl, sl', Held(sl'))
  PROVE  /\ Pairs(sl', M) = SubSeq(Pairs(sl, L), 1, lo - 1)
                              \o SubSeq(Pairs(sl, L), hi + 1, Len(Pairs(sl, L)))
         /\ Missing(sl', M) = Missing(sl, L)
<1> DEFINE gone == {L[i] : i \in lo..hi}
<1>1. /\ L \in Seq(Addr) /\ Len(L) \in Nat /\ \A i \in 1..Len(L) : L[i] \in Held(sl)
      /\ \A i, j \in 1..Len(L) : L[i] = L[j] => i = j
  BY CoreIs
<1>2. M \in Seq(Addr) /\ \A i \in 1..Len(M) : M[i] \in Held(sl')
  BY CoreIs
<1>3. NodesIn(M) = NodesIn(L) \ gone
  BY <1>1, CutoutRange
<1>4. gone \subseteq NodesIn(L)
  <2>1. \A i \in lo..hi : i \in 1..Len(L)
    BY <1>1
  <2>2. QED
    BY <2>1 DEF NodesIn
<1>5. Held(sl') = Held(sl) \ gone
  OBVIOUS
<1> HIDE DEF gone
<1>6. \A p \in Held(sl') : sl'.mem[p].score = sl.mem[p].score /\ sl'.value_map[p] = sl.value_map[p]
  BY DEF Same
<1>7. Pairs(sl', M) = Pairs(sl, M)
  BY <1>2, <1>6, PairsSame
<1>8. \A i \in 1..Len(M) : M[i] \in Held(sl)
  BY <1>2, <1>5
<1>9. Typed(sl) /\ Tables(sl)
  BY DEF Core
<1>10. /\ Pairs(sl, M) \in Seq(Pair) /\ Len(Pairs(sl, M)) = Len(M)
       /\ \A i \in 1..Len(M) : Pairs(sl, M)[i] = <<sl.value_map[M[i]], sl.mem[M[i]].score>>
  BY <1>2, <1>8, <1>9, PairsSeq
<1>11. SubSeq(Pairs(sl, L), 1, lo - 1) \o SubSeq(Pairs(sl, L), hi + 1, Len(Pairs(sl, L)))
         = Pairs(sl, M)
  BY <1>10, CutPairs
<1>12. Held(sl') \ NodesIn(M) = Held(sl) \ NodesIn(L)
  BY <1>3, <1>4, <1>5
<1>13. \A p \in Held(sl) \ NodesIn(L) : sl'.value_map[p] = sl.value_map[p]
  BY <1>4, <1>5, <1>6
<1>14. Missing(sl', M) = Missing(sl, L)
  BY <1>12, <1>13, MissingSame
<1>15. QED
  BY <1>7, <1>11, <1>14

LEMMA DeletedLeaves ==
  ASSUME NEW L, Core(order, sl, L), order' = order, NEW m \in 1..Len(L),
         sl' = Deleted(sl, L[m], sl.value_map[L[m]]), NEW v, v = sl.value_map[L[m]]
  PROVE  v \in Value /\ Board!Leave(v)
<1> DEFINE X == Entries(sl)[Line(sl)]
           Y == Entries(sl')[Line(sl')]
           W == {sl.value_map[b] : b \in (DOMAIN sl.mem \ {SlHead}) \ Range(Line(sl))}
           Z == {sl'.value_map[b] : b \in (DOMAIN sl'.mem \ {SlHead}) \ Range(Line(sl'))}
           d == order = "desc"
           a == L[m]
<1>1. PICK M : /\ Cutout(L, m, 1, M) /\ Core(order, sl', M)
               /\ Held(sl') = Held(sl) \ {a} /\ Same(sl, sl', Held(sl'))
  BY DeletedCore
<1>2. Line(sl) = L /\ Len(L) \in Nat
  BY CoreIs
<1>3. m \in m..Len(L) /\ (m - m) + 1 = 1 /\ m..m = {m}
  BY <1>2
<1>4. Cutout(L, m, (m - m) + 1, M) /\ {L[i] : i \in m..m} = {a}
  BY <1>1, <1>3
<1>5. Held(sl') = Held(sl) \ {L[i] : i \in m..m}
  BY <1>1, <1>4
<1>6. /\ Pairs(sl', M) = SubSeq(Pairs(sl, L), 1, m - 1)
                           \o SubSeq(Pairs(sl, L), m + 1, Len(Pairs(sl, L)))
      /\ Missing(sl', M) = Missing(sl, L)
  BY <1>1, <1>3, <1>4, <1>5, RanksDeleted
<1>7. Pairs(sl', M) = RemoveAt(Pairs(sl, L), m)
  BY <1>6 DEF RemoveAt
<1>8. Board!Ranked(v) /\ Board!Without(v) = RemoveAt(Pairs(sl, L), m)
  BY <1>2, BoardRanked
<1>9. v \in Value
  BY NotMissing
<1>10. Y = Pairs(sl', M) /\ Z = Missing(sl', M) /\ W = Missing(sl, L)
  BY <1>1, BoardIs
<1> HIDE DEF X, Y, Z, W, d
<1>11. Y = Board!Without(v) /\ Z = W
  BY <1>6, <1>7, <1>8, <1>10
<1>12. QED
  BY <1>8, <1>9, <1>11 DEF Board!Leave, X, Y, Z, W

LEMMA DeleteLeaves ==
  ASSUME IInv, NEW v \in Value, Delete(v)
  PROVE  Board!Leave(v)
<1> DEFINE L == Line(sl)
<1>1. Core(order, sl, L)
  BY InvIs
<1> HIDE DEF L
<1>2. PICK m \in 1..Len(L) : sl.node_map[v] = L[m] /\ sl.value_map[L[m]] = v
  BY <1>1, ListedIs DEF Delete
<1>3. sl' = Deleted(sl, L[m], sl.value_map[L[m]]) /\ order' = order
  BY <1>2 DEF Delete
<1>4. QED
  BY <1>1, <1>2, <1>3, DeletedLeaves

LEMMA DelByRankLeaves ==
  ASSUME IInv, NEW rank \in 1..sl.size, DelByRank(rank)
  PROVE  \E v \in Value : Board!Leave(v)
<1> DEFINE L == Line(sl)
<1>1. Core(order, sl, L) /\ sl.size = Len(L)
  BY InvIs
<1> HIDE DEF L
<1>2. rank \in 1..Len(L) /\ Typed(sl) /\ Listing(sl, L)
  BY <1>1 DEF Core
<1>3. GetByRank(sl, rank) = L[rank]
  BY <1>2, GetByRankIs
<1>4. sl' = Deleted(sl, L[rank], sl.value_map[L[rank]]) /\ order' = order
  BY <1>3 DEF DelByRank
<1> DEFINE v == sl.value_map[L[rank]]
<1>5. v = sl.value_map[L[rank]]
  OBVIOUS
<1> HIDE DEF v
<1>6. v \in Value /\ Board!Leave(v)
  BY <1>1, <1>2, <1>4, <1>5, DeletedLeaves
<1>7. QED
  BY <1>6

LEMMA DelRankRangeRemoves ==
  ASSUME IInv, NEW lo \in 1..sl.size, NEW hi \in 1..sl.size, lo <= hi, DelRankRange(lo, hi),
         order # "lua"
  PROVE  Board!Next
<1> DEFINE L == Line(sl)
           X == Entries(sl)[Line(sl)]
           Y == Entries(sl')[Line(sl')]
           W == {sl.value_map[b] : b \in (DOMAIN sl.mem \ {SlHead}) \ Range(Line(sl))}
           Z == {sl'.value_map[b] : b \in (DOMAIN sl'.mem \ {SlHead}) \ Range(Line(sl'))}
           d == order = "desc"
<1>1. Core(order, sl, L) /\ sl.size = Len(L) /\ Len(L) \in Nat
  BY InvIs
<1> HIDE DEF L
<1>2. lo \in 1..Len(L) /\ hi \in lo..Len(L) /\ Typed(sl) /\ Listing(sl, L)
  BY <1>1 DEF Core
<1>3. sl' = DeletedAll(sl, Victims(lo, hi)) /\ order' = order
  BY DEF DelRankRange
<1>4. Victims(lo, hi) = SubSeq(L, lo, hi)
  BY <1>2, VictimsIs
<1>5. PICK M : /\ Cutout(L, lo, (hi - lo) + 1, M) /\ Core(order, sl', M)
               /\ Held(sl') = Held(sl) \ {L[i] : i \in lo..hi} /\ Same(sl, sl', Held(sl'))
  BY <1>1, <1>2, <1>3, <1>4, DeletedAllCore
<1>6. /\ Pairs(sl', M) = SubSeq(Pairs(sl, L), 1, lo - 1)
                           \o SubSeq(Pairs(sl, L), hi + 1, Len(Pairs(sl, L)))
      /\ Missing(sl', M) = Missing(sl, L)
  BY <1>1, <1>2, <1>3, <1>5, RanksDeleted
<1>7. /\ X = Pairs(sl, L) /\ Y = Pairs(sl', M)
      /\ Z = Missing(sl', M) /\ W = Missing(sl, L)
  BY <1>1, <1>5, BoardIs
<1>8. Len(Pairs(sl, L)) = Len(L)
  BY <1>1, PairsIs
<1> HIDE DEF X, Y, Z, W, d
<1>9. lo \in 1..Len(X) /\ hi \in lo..Len(X)
  BY <1>2, <1>7, <1>8
<1>10. Y = SubSeq(X, 1, lo - 1) \o SubSeq(X, hi + 1, Len(X)) /\ Z = W
  BY <1>6, <1>7
<1>11. Board!RemoveRanks(lo, hi)
  BY <1>3, <1>10 DEF Board!RemoveRanks, X, Y, Z, W
<1>12. QED
  BY <1>9, <1>11 DEF Board!Next, X

LEMMA GcClears ==
  ASSUME IInv, Gc
  PROVE  Board!Clear
<1> DEFINE Y == Entries(sl')[Line(sl')]
           Z == {sl'.value_map[b] : b \in (DOMAIN sl'.mem \ {SlHead}) \ Range(Line(sl'))}
<1>1. order \in Orders /\ sl' = Empty /\ order' = order
  BY InvIs DEF Core, Gc
<1>2. Core(order, sl', <<>>) /\ Held(sl') = {}
  BY <1>1, EmptyCore
<1>3. Y = Pairs(sl', <<>>) /\ Z = Missing(sl', <<>>)
  BY <1>2, BoardIs
<1>4. Pairs(sl', <<>>) \in Seq(Pair) /\ Len(Pairs(sl', <<>>)) = Len(<<>>)
  BY <1>2, PairsIs
<1>5. Pairs(sl', <<>>) = <<>> /\ Missing(sl', <<>>) = {}
  <2>1. Missing(sl', <<>>) = {}
    BY <1>2 DEF Missing
  <2> DEFINE q == Pairs(sl', <<>>)
  <2> HIDE DEF q
  <2>2. q \in Seq(Pair) /\ Len(q) = 0
    BY <1>4 DEF q
  <2>3. q = <<>>
    BY <2>2, EmptySeq
  <2>4. QED
    BY <2>1, <2>3 DEF q
<1> HIDE DEF Y, Z
<1>6. Y = <<>> /\ Z = {}
  BY <1>3, <1>5
<1>7. QED
  BY <1>1, <1>6 DEF Board!Clear, Y, Z

LEMMA InitRanks ==
  ASSUME Init
  PROVE  Board!Init
<1> DEFINE Y == Entries(sl)[Line(sl)]
           Z == {sl.value_map[b] : b \in (DOMAIN sl.mem \ {SlHead}) \ Range(Line(sl))}
<1>1. order \in Orders /\ sl = Empty
  BY DEF Init, Orders
<1>2. Core(order, sl, <<>>) /\ Held(sl) = {}
  BY <1>1, EmptyCore
<1>3. Y = Pairs(sl, <<>>) /\ Z = Missing(sl, <<>>)
  BY <1>2, BoardIs
<1>4. Pairs(sl, <<>>) \in Seq(Pair) /\ Len(Pairs(sl, <<>>)) = Len(<<>>)
  BY <1>2, PairsIs
<1>5. Pairs(sl, <<>>) = <<>> /\ Missing(sl, <<>>) = {}
  <2>1. Missing(sl, <<>>) = {}
    BY <1>2 DEF Missing
  <2> DEFINE q == Pairs(sl, <<>>)
  <2> HIDE DEF q
  <2>2. q \in Seq(Pair) /\ Len(q) = 0
    BY <1>4 DEF q
  <2>3. q = <<>>
    BY <2>2, EmptySeq
  <2>4. QED
    BY <2>1, <2>3 DEF q
<1> HIDE DEF Y, Z
<1>6. Y = <<>> /\ Z = {}
  BY <1>3, <1>5
<1>7. QED
  BY <1>6 DEF Board!Init, Y, Z

LEMMA StepRanks ==
  ASSUME IInv, [Next]_vars
  PROVE  [Board!Next]_(Board!vars)
<1> DEFINE R == Entries(sl)[Line(sl)]
           W == {sl.value_map[b] : b \in (DOMAIN sl.mem \ {SlHead}) \ Range(Line(sl))}
<1>1. ASSUME sl' = sl, order' = order PROVE Board!vars' = Board!vars
  <2>1. R' = R /\ W' = W
    BY <1>1
  <2> HIDE DEF R, W
  <2>2. (order = "desc")' = (order = "desc")
    BY <1>1
  <2>3. QED
    BY <2>1, <2>2 DEF Board!vars, R, W
<1>2. ASSUME NEW v \in Value, Board!Leave(v) \/ Board!Lose(v) PROVE Board!Next
  BY <1>2 DEF Board!Next
<1>3. ASSUME NEW v \in Value, NEW score \in Score, Board!Put(v, score) PROVE Board!Next
  BY <1>3 DEF Board!Next
<1>4. CASE \E v \in Value, score \in Score :
             \/ Insert(v, score) \/ InsertRaises(v, score)
             \/ Update(v, score) \/ UpdateRaises(v, score)
  BY <1>2, <1>3, <1>4, InsertPuts, InsertRaisesLoses, UpdatePuts, UpdateRaisesLoses
<1>5. CASE \E v \in Value : Delete(v)
  BY <1>2, <1>5, DeleteLeaves
<1>6. CASE \E rank \in 1..sl.size : DelByRank(rank)
  BY <1>2, <1>6, DelByRankLeaves
<1>7. ASSUME NEW lo \in 1..sl.size, NEW hi \in 1..sl.size, lo <= hi, DelRankRange(lo, hi)
      PROVE  [Board!Next]_(Board!vars)
  <2>1. CASE order = "lua"
    BY <1>1, <1>7, <2>1 DEF DelRankRange
  <2>2. CASE order # "lua"
    BY <1>7, <2>2, DelRankRangeRemoves
  <2>3. QED
    BY <2>1, <2>2
<1>8. CASE \E r \in Ranges : DelRankRange(r[1], r[2])
  BY <1>7, <1>8 DEF Ranges
<1>9. CASE Gc
  BY <1>9, GcClears DEF Board!Next
<1>10. CASE \E r \in Ranges \cap Loops : RankPairs(r[1], r[2])
  BY <1>1, <1>10 DEF RankPairs
<1>11. CASE RankIterator
  BY <1>1, <1>11 DEF RankIterator
<1>12. CASE UNCHANGED vars \/ Stopped
  BY <1>1, <1>12 DEF Stopped, vars
<1>13. QED
  BY <1>4, <1>5, <1>6, <1>8, <1>9, <1>10, <1>11, <1>12 DEF Next

(* The list implements a ranking: an operation of lskiplist.c moves or     *)
(* takes out the value it is about, to where the order of scores allows,   *)
(* and no other value changes its score or its rank among the rest; what a *)
(* failing comparison loses is the one value that was being placed.        *)
THEOREM RankingRefined == Spec => RanksKept
<1>1. Init => Board!Init
  BY InitRanks
<1>2. IInv /\ [Next]_vars => [Board!Next]_(Board!vars)
  BY StepRanks
<1>3. QED
  BY <1>1, <1>2, ListInductive, PTL DEF Spec, RanksKept, Board!Spec
=============================================================================
