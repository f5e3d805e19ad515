------------------------- MODULE SocketSessionProofs -------------------------
(***************************************************************************)
(* Proofs about the sessions of socket/, for any number of headers, any    *)
(* text, separators, sizes and limits: the values of the variables, that   *)
(* headers are in one place and totals right, that input is a queue and no *)
(* output is lost, what output waits for, why a session dies, and that the *)
(* search over the buffers finds the first separator.                      *)
(*                                                                         *)
(* What the lists hold is a recursion over their buffers. The facts about  *)
(* it are proved by the least-number principle, WFMin of the library.      *)
(***************************************************************************)
EXTENDS SocketSession, WellFoundedInduction, SequenceTheorems, FiniteSetTheorems, TLAPS


(* The least-number principle, for sets.                                   *)
LEMMA LeastOf ==
  ASSUME NEW S \in SUBSET Nat, S # {}
  PROVE  \E x \in S : \A y \in S : x <= y
<1> DEFINE R == OpToRel(<, Nat)
<1>1. IsWellFoundedOn(R, Nat)
  BY NatLessThanWellFounded
<1>2. \A x, y \in Nat : y < x => <<y, x>> \in R
  BY DEF OpToRel
<1> HIDE DEF R
<1>3. \E x \in S : \A y \in S : ~ (<<y, x>> \in R)
  BY <1>1, WFMin
<1>4. PICK x \in S : \A y \in S : ~ (<<y, x>> \in R)
  BY <1>3
<1>5. ASSUME NEW y \in S PROVE x <= y
  <2>1. x \in Nat /\ y \in Nat
    OBVIOUS
  <2>2. ~(<<y, x>> \in R)
    BY <1>4
  <2>3. ~(y < x)
    BY <1>2, <2>1, <2>2
  <2>4. QED
    BY <2>1, <2>3
<1>6. QED
  BY <1>5

(* Induction over the natural numbers, for sets.                           *)
LEMMA NatSet ==
  ASSUME NEW S \in SUBSET Nat, 0 \in S, \A n \in S : n + 1 \in S
  PROVE  S = Nat
<1> SUFFICES ASSUME S # Nat PROVE FALSE
  OBVIOUS
<1> DEFINE T == Nat \ S
<1>1. T \in SUBSET Nat /\ T # {}
  OBVIOUS
<1> HIDE DEF T
<1>2. PICK x \in T : \A y \in T : x <= y
  BY <1>1, LeastOf
<1>3. x \in Nat /\ x \notin S /\ \A y \in Nat \ S : x <= y
  BY <1>1, <1>2 DEF T
<1>4. x - 1 \in S
  BY <1>3
<1>5. QED
  BY <1>3, <1>4

-----------------------------------------------------------------------------
(* FlattenSeq is a recursive function; f has its values up to n.           *)
FlatFrom(s, n, f) ==
  \A i \in 1..n : f[i] = IF i = 1 THEN s[i] ELSE f[i - 1] \o s[i]

LEMMA FlatExists ==
  ASSUME NEW S, NEW s \in Seq(Seq(S))
  PROVE  \A n \in 0..Len(s) : \E f \in [1..n -> Seq(S)] : FlatFrom(s, n, f)
<1> DEFINE N == {n \in Nat : n <= Len(s) => \E f \in [1..n -> Seq(S)] : FlatFrom(s, n, f)}
<1>1. 0 \in N
  <2>1. [i \in 1..0 |-> <<>>] \in [1..0 -> Seq(S)]
    OBVIOUS
  <2>2. FlatFrom(s, 0, [i \in 1..0 |-> <<>>])
    BY DEF FlatFrom
  <2>3. QED
    BY <2>1, <2>2
<1>2. ASSUME NEW n \in N PROVE n + 1 \in N
  <2> SUFFICES ASSUME n + 1 <= Len(s)
               PROVE  \E f \in [1..(n + 1) -> Seq(S)] : FlatFrom(s, n + 1, f)
    OBVIOUS
  <2>1. n \in Nat /\ n <= Len(s) /\ n + 1 \in 1..Len(s)
    OBVIOUS
  <2>2. PICK f \in [1..n -> Seq(S)] : FlatFrom(s, n, f)
    BY <2>1
  <2>3. s[n + 1] \in Seq(S)
    BY <2>1
  <2> DEFINE e == IF n = 0 THEN s[n + 1] ELSE f[n] \o s[n + 1]
             g == [i \in 1..(n + 1) |-> IF i = n + 1 THEN e ELSE f[i]]
  <2>4. e \in Seq(S)
    <3>1. n # 0 => n \in 1..n
      BY <2>1
    <3>2. QED
      BY <2>3, <3>1
  <2>5. g \in [1..(n + 1) -> Seq(S)]
    <3> HIDE DEF e
    <3>1. \A i \in 1..(n + 1) : i = n + 1 \/ i \in 1..n
      BY <2>1
    <3>2. QED
      BY <2>4, <3>1
  <2>6. FlatFrom(s, n + 1, g)
    <3> SUFFICES ASSUME NEW i \in 1..(n + 1)
                 PROVE  g[i] = IF i = 1 THEN s[i] ELSE g[i - 1] \o s[i]
      BY DEF FlatFrom
    <3>1. CASE i = n + 1
      BY <2>1, <3>1
    <3>2. CASE i # n + 1
      <4>1. i \in 1..n /\ (i # 1 => i - 1 \in 1..n)
        BY <2>1, <3>2
      <4>2. f[i] = IF i = 1 THEN s[i] ELSE f[i - 1] \o s[i]
        BY <2>2, <4>1 DEF FlatFrom
      <4>3. g[i] = f[i] /\ (i # 1 => g[i - 1] = f[i - 1])
        BY <2>1, <3>2, <4>1
      <4>4. QED
        BY <4>2, <4>3
    <3>3. QED
      BY <3>1, <3>2
  <2>7. QED
    BY <2>5, <2>6
<1> HIDE DEF N
<1>3. N = Nat
  <2>1. N \in SUBSET Nat
    BY DEF N
  <2>2. QED
    BY <1>1, <1>2, <2>1, NatSet
<1>4. ASSUME NEW n \in 0..Len(s) PROVE \E f \in [1..n -> Seq(S)] : FlatFrom(s, n, f)
  <2>1. n \in N
    BY <1>3
  <2>2. QED
    BY <2>1 DEF N
<1>5. QED
  BY <1>4

LEMMA FlatUnique ==
  ASSUME NEW s, NEW t, NEW f, NEW g, NEW n \in Nat,
         FlatFrom(s, n, f), FlatFrom(t, n, g), \A i \in 1..n : s[i] = t[i]
  PROVE  \A i \in 1..n : f[i] = g[i]
<1> DEFINE N == {k \in Nat : k \in 1..n => f[k] = g[k]}
<1>1. 0 \in N
  OBVIOUS
<1>2. ASSUME NEW k \in N PROVE k + 1 \in N
  <2> SUFFICES ASSUME k + 1 \in 1..n PROVE f[k + 1] = g[k + 1]
    OBVIOUS
  <2>1. f[k + 1] = (IF k + 1 = 1 THEN s[k + 1] ELSE f[(k + 1) - 1] \o s[k + 1])
    BY DEF FlatFrom
  <2>2. g[k + 1] = (IF k + 1 = 1 THEN t[k + 1] ELSE g[(k + 1) - 1] \o t[k + 1])
    BY DEF FlatFrom
  <2>3. s[k + 1] = t[k + 1] /\ (k + 1 # 1 => k \in 1..n) /\ (k + 1) - 1 = k
    OBVIOUS
  <2>4. QED
    BY <2>1, <2>2, <2>3
<1> HIDE DEF N
<1>3. N = Nat
  <2>1. N \in SUBSET Nat
    BY DEF N
  <2>2. QED
    BY <1>1, <1>2, <2>1, NatSet
<1>4. QED
  BY <1>3 DEF N

LEMMA FlatIs ==
  ASSUME NEW S, NEW s \in Seq(Seq(S)), s # <<>>
  PROVE  \E f \in [1..Len(s) -> Seq(S)] :
           FlatFrom(s, Len(s), f) /\ FlattenSeq(s) = f[Len(s)]
<1>1. PICK f \in [1..Len(s) -> Seq(S)] : FlatFrom(s, Len(s), f)
  BY FlatExists
<1> DEFINE h == CHOOSE h : h = [i \in 1..Len(s) |-> IF i = 1 THEN s[i] ELSE h[i-1] \o s[i]]
<1>2. f = [i \in 1..Len(s) |-> IF i = 1 THEN s[i] ELSE f[i-1] \o s[i]]
  BY <1>1 DEF FlatFrom
<1>3. h = [i \in 1..Len(s) |-> IF i = 1 THEN s[i] ELSE h[i-1] \o s[i]]
  BY <1>2
<1>4. FlattenSeq(s) = h[Len(s)]
  BY DEF FlattenSeq
<1> HIDE DEF h
<1>5. FlatFrom(s, Len(s), h)
  BY <1>3 DEF FlatFrom
<1>6. \A i \in 1..Len(s) : h[i] = f[i]
  BY <1>1, <1>5, FlatUnique
<1>7. Len(s) \in 1..Len(s)
  OBVIOUS
<1>8. QED
  BY <1>1, <1>4, <1>6, <1>7

LEMMA FlatEmpty == FlattenSeq(<<>>) = <<>>
BY DEF FlattenSeq

LEMMA FlatType ==
  ASSUME NEW S, NEW s \in Seq(Seq(S))
  PROVE  FlattenSeq(s) \in Seq(S)
<1>1. CASE s = <<>>
  <2>1. FlattenSeq(s) = <<>>
    BY <1>1, FlatEmpty, Zenon
  <2>2. QED
    BY <2>1
<1>2. CASE s # <<>>
  <2>1. PICK f \in [1..Len(s) -> Seq(S)] : FlattenSeq(s) = f[Len(s)]
    BY <1>2, FlatIs
  <2>2. Len(s) \in 1..Len(s)
    BY <1>2
  <2>3. QED
    BY <2>1, <2>2
<1>3. QED
  BY <1>1, <1>2

LEMMA FlatAppend ==
  ASSUME NEW S, NEW s \in Seq(Seq(S)), NEW x \in Seq(S)
  PROVE  FlattenSeq(Append(s, x)) = FlattenSeq(s) \o x
<1> DEFINE t == Append(s, x)
           n == Len(s)
<1>1. /\ t \in Seq(Seq(S)) /\ Len(t) = n + 1 /\ n \in Nat /\ t # <<>>
      /\ t[n + 1] = x /\ \A i \in 1..n : t[i] = s[i]
  <2> DEFINE T == Seq(S)
  <2> HIDE DEF T
  <2>1. s \in Seq(T) /\ x \in T
    BY DEF T
  <2>2. t \in Seq(T) /\ Len(t) = n + 1 /\ n \in Nat /\ t # <<>>
    BY <2>1
  <2>3. t[n + 1] = x /\ \A i \in 1..n : t[i] = s[i]
    BY <2>1
  <2>4. QED
    BY <2>2, <2>3 DEF T
<1> HIDE DEF t, n
<1>2. PICK g \in [1..Len(t) -> Seq(S)] :
        FlatFrom(t, Len(t), g) /\ FlattenSeq(t) = g[Len(t)]
  BY <1>1, FlatIs
<1>3. FlattenSeq(t) = IF n = 0 THEN x ELSE g[n] \o x
  <2>1. g[n + 1] = IF n + 1 = 1 THEN t[n + 1] ELSE g[(n + 1) - 1] \o t[n + 1]
    <3>1. n + 1 \in 1..Len(t)
      BY <1>1
    <3>2. QED
      BY <1>2, <3>1 DEF FlatFrom
  <2>2. (n + 1) - 1 = n /\ (n + 1 = 1 <=> n = 0)
    BY <1>1
  <2>3. QED
    BY <1>1, <1>2, <2>1, <2>2
<1>4. CASE s = <<>>
  <2>1. n = 0
    BY <1>4 DEF n
  <2>2. FlattenSeq(t) = x /\ FlattenSeq(s) = <<>>
    BY <1>3, <1>4, <2>1, FlatEmpty
  <2>3. QED
    BY <2>2 DEF t
<1>5. CASE s # <<>>
  <2>1. PICK f \in [1..Len(s) -> Seq(S)] :
          FlatFrom(s, Len(s), f) /\ FlattenSeq(s) = f[Len(s)]
    BY <1>5, FlatIs
  <2>2. FlatFrom(t, n, g)
    <3>1. \A i \in 1..n : i \in 1..Len(t)
      BY <1>1
    <3>2. QED
      BY <1>2, <3>1 DEF FlatFrom
  <2>3. \A i \in 1..n : g[i] = f[i]
    <3>1. FlatFrom(s, n, f) /\ n \in Nat /\ \A i \in 1..n : t[i] = s[i]
      BY <1>1, <2>1 DEF n
    <3>2. QED
      BY <2>2, <3>1, FlatUnique
  <2>4. n \in 1..n
    BY <1>1, <1>5 DEF n
  <2>5. g[n] = FlattenSeq(s)
    BY <2>1, <2>3, <2>4 DEF n
  <2>6. QED
    BY <1>3, <2>4, <2>5 DEF t
<1>6. QED
  BY <1>4, <1>5

-----------------------------------------------------------------------------
(* Buffers and what lists of them hold.                                    *)
Buf == {b \in Buffers : b.rpos <= Len(b.bytes)}
Lefts(l) == [i \in DOMAIN l |-> LeftOf(l[i])]

LEMMA LeftType ==
  ASSUME NEW b \in Buf
  PROVE  /\ LeftOf(b) \in Seq(Nat)
         /\ Len(LeftOf(b)) = Len(b.bytes) - b.rpos
         /\ Len(LeftOf(b)) \in Nat
         /\ b.rpos \in Nat /\ b.bytes \in Seq(Nat) /\ b.node \in Node
         /\ \A j \in 1..Len(LeftOf(b)) : LeftOf(b)[j] = b.bytes[b.rpos + j]
<1>1. b.rpos \in Nat /\ b.bytes \in Seq(Nat) /\ b.node \in Node /\ b.rpos <= Len(b.bytes)
  BY DEF Buf, Buffers
<1>2. Len(b.bytes) \in Nat
  BY <1>1
<1> DEFINE r == b.rpos
           q == b.bytes
<1> HIDE DEF r, q
<1>3. LeftOf(b) = SubSeq(q, r + 1, Len(q))
  BY DEF LeftOf, r, q
<1>4. SubSeq(q, r + 1, Len(q)) \in Seq(Nat)
      /\ Len(SubSeq(q, r + 1, Len(q))) = Len(q) - r
      /\ \A j \in 1..(Len(q) - r) : SubSeq(q, r + 1, Len(q))[j] = q[r + j]
  <2>1. r \in Nat /\ q \in Seq(Nat) /\ r <= Len(q) /\ Len(q) \in Nat
    BY <1>1, <1>2 DEF r, q
  <2>2. SubSeq(q, r + 1, Len(q)) \in Seq(Nat)
    BY <2>1
  <2>3. Len(SubSeq(q, r + 1, Len(q))) = Len(q) - r
    BY <2>1
  <2>4. \A j \in 1..(Len(q) - r) : SubSeq(q, r + 1, Len(q))[j] = q[r + j]
    BY <2>1
  <2>5. QED
    BY <2>2, <2>3, <2>4
<1>5. QED
  BY <1>1, <1>2, <1>3, <1>4 DEF r, q

LEMMA LeftsType ==
  ASSUME NEW l \in Seq(Buf)
  PROVE  /\ Lefts(l) \in Seq(Seq(Nat)) /\ Len(Lefts(l)) = Len(l)
         /\ Contents(l) = FlattenSeq(Lefts(l))
         /\ Contents(l) \in Seq(Nat)
         /\ Len(Contents(l)) \in Nat
<1>1. \A i \in DOMAIN l : LeftOf(l[i]) \in Seq(Nat)
  BY LeftType
<1>2. Lefts(l) \in Seq(Seq(Nat)) /\ Len(Lefts(l)) = Len(l)
  BY <1>1 DEF Lefts
<1>3. Contents(l) = FlattenSeq(Lefts(l))
  BY DEF Contents, Lefts
<1>4. Contents(l) \in Seq(Nat)
  BY <1>2, <1>3, FlatType
<1>5. QED
  BY <1>2, <1>3, <1>4

LEMMA ContentsEmpty == Contents(<<>>) = <<>>
<1>1. Lefts(<<>>) = <<>>
  BY DEF Lefts
<1>2. Contents(<<>>) = FlattenSeq(Lefts(<<>>))
  BY DEF Contents, Lefts
<1>3. QED
  BY <1>1, <1>2, FlatEmpty

LEMMA ContentsAppend ==
  ASSUME NEW l \in Seq(Buf), NEW b \in Buf
  PROVE  Contents(Append(l, b)) = Contents(l) \o LeftOf(b)
<1>1. Append(l, b) \in Seq(Buf)
  OBVIOUS
<1>2. LeftOf(b) \in Seq(Nat)
  BY LeftType
<1>3. Lefts(Append(l, b)) = Append(Lefts(l), LeftOf(b))
  <2> DEFINE m == Append(l, b)
  <2>1. Len(m) = Len(l) + 1 /\ Len(l) \in Nat /\ m[Len(l) + 1] = b
        /\ \A i \in 1..Len(l) : m[i] = l[i]
    OBVIOUS
  <2>2. Lefts(m) = [i \in 1..(Len(l) + 1) |-> LeftOf(m[i])]
    BY <2>1, <1>1 DEF Lefts
  <2>3. Lefts(l) = [i \in 1..Len(l) |-> LeftOf(l[i])]
    BY DEF Lefts
  <2> DEFINE u == Lefts(l)
             v == Append(u, LeftOf(b))
  <2>4. u \in Seq(Seq(Nat)) /\ Len(u) = Len(l)
    BY LeftsType
  <2>5. /\ v \in Seq(Seq(Nat)) /\ Len(v) = Len(l) + 1 /\ v[Len(l) + 1] = LeftOf(b)
        /\ \A i \in 1..Len(l) : v[i] = u[i]
    <3> DEFINE T == Seq(Nat)
               y == LeftOf(b)
    <3> HIDE DEF T, u, y
    <3>1. u \in Seq(T) /\ y \in T
      BY <1>2, <2>4 DEF T, y
    <3>2. Append(u, y) \in Seq(T) /\ Len(Append(u, y)) = Len(l) + 1
          /\ Append(u, y)[Len(l) + 1] = y
          /\ \A i \in 1..Len(l) : Append(u, y)[i] = u[i]
      BY <3>1, <2>4
    <3>3. QED
      BY <3>2 DEF T, y
  <2>6. DOMAIN v = 1..(Len(l) + 1)
    BY <2>5
  <2>7. \A i \in 1..(Len(l) + 1) : v[i] = LeftOf(m[i])
    <3>1. \A i \in 1..Len(l) : u[i] = LeftOf(l[i])
      BY <2>3
    <3> HIDE DEF u, v, m
    <3>2. \A i \in 1..Len(l) : v[i] = LeftOf(m[i])
      BY <2>1, <2>5, <3>1
    <3>3. ASSUME NEW i \in 1..(Len(l) + 1) PROVE v[i] = LeftOf(m[i])
      <4>1. CASE i = Len(l) + 1
        BY <2>1, <2>5, <4>1
      <4>2. CASE i # Len(l) + 1
        BY <2>1, <3>2, <4>2
      <4>3. QED
        BY <4>1, <4>2
    <3>4. QED
      BY <3>3
  <2>8. v = [i \in 1..(Len(l) + 1) |-> LeftOf(m[i])]
    <3>1. v = [i \in 1..(Len(l) + 1) |-> v[i]]
      <4> HIDE DEF v
      <4>1. QED
        BY <2>5
    <3> HIDE DEF v, m
    <3>2. QED
      BY <2>7, <3>1
  <2>9. QED
    BY <2>2, <2>8
<1>4. QED
  BY <1>1, <1>2, <1>3, LeftsType, FlatAppend

LEMMA ContentsOne ==
  ASSUME NEW b \in Buf
  PROVE  Contents(<<b>>) = LeftOf(b)
<1>1. Append(<<>>, b) = <<b>> /\ <<>> \in Seq(Buf)
  OBVIOUS
<1>2. Contents(<<b>>) = Contents(<<>>) \o LeftOf(b)
  BY <1>1, ContentsAppend
<1>3. LeftOf(b) \in Seq(Nat)
  BY LeftType
<1>4. <<>> \o LeftOf(b) = LeftOf(b)
  BY <1>3, ConcatEmptySeq
<1>5. QED
  BY <1>2, <1>4, ContentsEmpty

LEMMA PartType ==
  ASSUME NEW l \in Seq(Buf), NEW i \in 1..(Len(l) + 1), NEW j \in 0..Len(l)
  PROVE  /\ SubSeq(l, i, j) \in Seq(Buf)
         /\ Len(SubSeq(l, i, j)) = IF i <= j THEN j - i + 1 ELSE 0
         /\ \A n \in 1..(j - i + 1) : SubSeq(l, i, j)[n] = l[i + n - 1]
<1>1. Len(l) \in Nat /\ i \in Int /\ j \in Int
  OBVIOUS
<1>2. \A n \in i..j : l[n] \in Buf
  OBVIOUS
<1>3. QED
  BY <1>1, <1>2, SubSeqProperties

LEMMA PartAppend ==
  ASSUME NEW l \in Seq(Buf), NEW j \in 0..(Len(l) - 1), NEW i \in 1..(j + 1)
  PROVE  SubSeq(l, i, j + 1) = Append(SubSeq(l, i, j), l[j + 1])
<1>1. j + 1 \in 1..Len(l) /\ i \in 1..Len(l) /\ j + 1 \in i..Len(l) /\ (j + 1) - 1 = j
      /\ i \in 1..(Len(l) + 1) /\ j \in 0..Len(l)
  OBVIOUS
<1>2. SubSeq(l, i, j + 1) = SubSeq(l, i, j) \o <<l[j + 1]>>
  BY <1>1, SubSeqRecursiveSecond
<1>3. SubSeq(l, i, j) \in Seq(Buf) /\ l[j + 1] \in Buf
  BY <1>1, PartType
<1>4. QED
  BY <1>2, <1>3, AppendIsConcat

LEMMA ContentsStep ==
  ASSUME NEW l \in Seq(Buf), NEW j \in 0..(Len(l) - 1), NEW i \in 1..(j + 1)
  PROVE  Contents(SubSeq(l, i, j + 1)) = Contents(SubSeq(l, i, j)) \o LeftOf(l[j + 1])
<1>1. i \in 1..(Len(l) + 1) /\ j \in 0..Len(l) /\ l[j + 1] \in Buf
  OBVIOUS
<1>2. SubSeq(l, i, j) \in Seq(Buf)
  BY <1>1, PartType
<1>3. QED
  BY <1>1, <1>2, PartAppend, ContentsAppend

LEMMA ConcatThree ==
  ASSUME NEW a \in Seq(Nat), NEW b \in Seq(Nat), NEW c \in Seq(Nat)
  PROVE  (a \o b) \o c = a \o (b \o c)
BY ConcatAssociative

(* What a list holds is what its first k buffers hold, and then the rest.  *)
LEMMA ContentsSplit ==
  ASSUME NEW l \in Seq(Buf), NEW k \in 0..Len(l)
  PROVE  Contents(l) = Contents(SubSeq(l, 1, k)) \o Contents(SubSeq(l, k + 1, Len(l)))
<1> DEFINE P(m) == Contents(SubSeq(l, 1, m))
                     = Contents(SubSeq(l, 1, k)) \o Contents(SubSeq(l, k + 1, m))
           N == {d \in Nat : k + d <= Len(l) => P(k + d)}
<1>1. k \in Nat /\ Len(l) \in Nat /\ k <= Len(l)
  OBVIOUS
<1>2. 0 \in N
  <2>1. SubSeq(l, k + 1, k) = <<>>
    BY <1>1, SubSeqEmpty
  <2>2. SubSeq(l, 1, k) \in Seq(Buf)
    BY <1>1, PartType
  <2>3. Contents(SubSeq(l, 1, k)) \in Seq(Nat)
    BY <2>2, LeftsType
  <2>4. Contents(SubSeq(l, 1, k)) \o <<>> = Contents(SubSeq(l, 1, k))
    BY <2>3, ConcatEmptySeq
  <2>5. P(k)
    BY <2>1, <2>4, ContentsEmpty
  <2>6. k + 0 = k
    BY <1>1
  <2>7. QED
    BY <2>5, <2>6
<1>3. ASSUME NEW d \in N PROVE d + 1 \in N
  <2> SUFFICES ASSUME k + (d + 1) <= Len(l) PROVE P(k + (d + 1))
    OBVIOUS
  <2> DEFINE m == k + d
  <2>1. /\ d \in Nat /\ m \in 0..(Len(l) - 1) /\ k + (d + 1) = m + 1 /\ P(m)
        /\ 1 \in 1..(m + 1) /\ k + 1 \in 1..(m + 1)
        /\ k + 1 \in 1..(Len(l) + 1) /\ m \in 0..Len(l) /\ m + 1 \in 1..Len(l)
    BY <1>1
  <2> HIDE DEF m
  <2>2. Contents(SubSeq(l, 1, m + 1)) = Contents(SubSeq(l, 1, m)) \o LeftOf(l[m + 1])
    BY <2>1, ContentsStep
  <2>3. Contents(SubSeq(l, k + 1, m + 1)) = Contents(SubSeq(l, k + 1, m)) \o LeftOf(l[m + 1])
    BY <2>1, ContentsStep
  <2>4. LeftOf(l[m + 1]) \in Seq(Nat)
    BY <2>1, LeftType
  <2>5. /\ SubSeq(l, 1, k) \in Seq(Buf) /\ SubSeq(l, k + 1, m) \in Seq(Buf)
    BY <1>1, <2>1, PartType
  <2>6. /\ Contents(SubSeq(l, 1, k)) \in Seq(Nat)
        /\ Contents(SubSeq(l, k + 1, m)) \in Seq(Nat)
    BY <2>5, LeftsType
  <2> DEFINE a == Contents(SubSeq(l, 1, k))
             b == Contents(SubSeq(l, k + 1, m))
             c == LeftOf(l[m + 1])
  <2>7. (a \o b) \o c = a \o (b \o c)
    BY <2>4, <2>6, ConcatThree
  <2>8. P(m + 1)
    BY <2>1, <2>2, <2>3, <2>7
  <2>9. QED
    BY <2>1, <2>8
<1> HIDE DEF N
<1>4. N = Nat
  <2>1. N \in SUBSET Nat
    BY DEF N
  <2>2. QED
    BY <1>2, <1>3, <2>1, NatSet
<1>5. P(Len(l))
  <2>1. Len(l) - k \in N
    BY <1>1, <1>4
  <2>2. k + (Len(l) - k) = Len(l)
    BY <1>1
  <2>3. QED
    BY <1>1, <2>1, <2>2 DEF N
<1>6. SubSeq(l, 1, Len(l)) = l
  BY SubSeqFull
<1>7. QED
  BY <1>5, <1>6

LEMMA UptoFacts ==
  ASSUME NEW l \in Seq(Buf)
  PROVE  /\ Upto(l, 0) = 0
         /\ Upto(l, Len(l)) = Len(Contents(l))
         /\ \A i \in 0..Len(l) : Upto(l, i) \in Nat
         /\ \A i \in 1..Len(l) : Upto(l, i) = Upto(l, i - 1) + Len(LeftOf(l[i]))
<1>1. Upto(l, 0) = 0
  <2>1. SubSeq(l, 1, 0) = <<>>
    BY SubSeqEmpty
  <2>2. Contents(SubSeq(l, 1, 0)) = <<>>
    BY <2>1, ContentsEmpty, Zenon
  <2>3. QED
    BY <2>2 DEF Upto
<1>2. Upto(l, Len(l)) = Len(Contents(l))
  BY SubSeqFull DEF Upto
<1>3. ASSUME NEW i \in 0..Len(l) PROVE Upto(l, i) \in Nat
  <2>1. SubSeq(l, 1, i) \in Seq(Buf)
    BY PartType
  <2>2. QED
    BY <2>1, LeftsType DEF Upto
<1>4. ASSUME NEW i \in 1..Len(l) PROVE Upto(l, i) = Upto(l, i - 1) + Len(LeftOf(l[i]))
  <2>1. i - 1 \in 0..(Len(l) - 1) /\ 1 \in 1..((i - 1) + 1) /\ (i - 1) + 1 = i
        /\ i - 1 \in 0..Len(l) /\ l[i] \in Buf
    OBVIOUS
  <2>2. Contents(SubSeq(l, 1, i)) = Contents(SubSeq(l, 1, i - 1)) \o LeftOf(l[i])
    BY <2>1, ContentsStep
  <2>3. SubSeq(l, 1, i - 1) \in Seq(Buf)
    BY <2>1, PartType
  <2>4. Contents(SubSeq(l, 1, i - 1)) \in Seq(Nat) /\ LeftOf(l[i]) \in Seq(Nat)
    BY <2>1, <2>3, LeftsType, LeftType
  <2>5. QED
    BY <2>2, <2>4, ConcatProperties DEF Upto
<1>5. QED
  BY <1>1, <1>2, <1>3, <1>4

LEMMA UptoGrows ==
  ASSUME NEW l \in Seq(Buf), NEW i \in 0..Len(l), NEW j \in 0..Len(l), i <= j
  PROVE  Upto(l, i) <= Upto(l, j)
<1> DEFINE N == {d \in Nat : i + d <= Len(l) => Upto(l, i) <= Upto(l, i + d)}
<1>1. 0 \in N
  <2>1. i + 0 = i /\ Upto(l, i) \in Nat
    BY UptoFacts
  <2>2. Upto(l, i) <= Upto(l, i + 0)
    BY <2>1
  <2>3. QED
    BY <2>2
<1>2. ASSUME NEW d \in N PROVE d + 1 \in N
  <2> SUFFICES ASSUME i + (d + 1) <= Len(l) PROVE Upto(l, i) <= Upto(l, i + (d + 1))
    OBVIOUS
  <2> DEFINE m == i + (d + 1)
  <2>1. m \in 1..Len(l) /\ m - 1 = i + d /\ i + d <= Len(l) /\ m - 1 \in 0..Len(l) /\ m \in 0..Len(l)
    OBVIOUS
  <2> HIDE DEF m
  <2>2. Upto(l, i) <= Upto(l, m - 1)
    BY <2>1
  <2>3. Upto(l, m) = Upto(l, m - 1) + Len(LeftOf(l[m]))
    BY <2>1, UptoFacts
  <2>4. Len(LeftOf(l[m])) \in Nat
    BY <2>1, LeftType
  <2>5. Upto(l, i) \in Nat /\ Upto(l, m - 1) \in Nat
    BY <2>1, UptoFacts
  <2>6. Upto(l, i) <= Upto(l, m)
    BY <2>2, <2>3, <2>4, <2>5
  <2>7. QED
    BY <2>6 DEF m
<1> HIDE DEF N
<1>3. N = Nat
  <2>1. N \in SUBSET Nat
    BY DEF N
  <2>2. QED
    BY <1>1, <1>2, <2>1, NatSet
<1>4. j - i \in N /\ i + (j - i) = j
  BY <1>3
<1>5. QED
  BY <1>4 DEF N

(* The buffers used up by n bytes are the first ones of the list.          *)
LEMMA UsedUpIs ==
  ASSUME NEW l \in Seq(Buf), NEW n \in Nat
  PROVE  /\ UsedUp(l, n) \in 0..Len(l)
         /\ \A i \in 1..Len(l) : i <= UsedUp(l, n) <=> Upto(l, i - 1) < n /\ Upto(l, i) <= n
<1> DEFINE U == {i \in DOMAIN l : Upto(l, i - 1) < n /\ Upto(l, i) <= n}
           S == {i \in 1..(Len(l) + 1) : i \notin U}
<1>1. Len(l) \in Nat /\ DOMAIN l = 1..Len(l)
  OBVIOUS
<1>2. U \subseteq 1..Len(l)
  BY <1>1
<1>3. ASSUME NEW i \in U, NEW j \in 1..Len(l), j <= i PROVE j \in U
  <2>1. i \in 1..Len(l) /\ i \in 0..Len(l) /\ i - 1 \in 0..Len(l) /\ j \in 0..Len(l)
        /\ j - 1 \in 0..Len(l) /\ j - 1 <= i - 1
    BY <1>1, <1>2, <1>3
  <2>2. Upto(l, j - 1) <= Upto(l, i - 1) /\ Upto(l, j) <= Upto(l, i)
    BY <1>3, <2>1, UptoGrows
  <2>3. Upto(l, i - 1) < n /\ Upto(l, i) <= n
    OBVIOUS
  <2>4. Upto(l, i) \in Nat /\ Upto(l, i - 1) \in Nat /\ Upto(l, j) \in Nat /\ Upto(l, j - 1) \in Nat
    BY <2>1, UptoFacts
  <2>5. Upto(l, j - 1) < n /\ Upto(l, j) <= n
    BY <2>2, <2>3, <2>4
  <2>6. QED
    BY <1>1, <2>5
<1> HIDE DEF U
<1>4. S \in SUBSET Nat /\ S # {}
  <2>1. Len(l) + 1 \in S
    BY <1>1, <1>2
  <2>2. QED
    BY <2>1, <1>1
<1> HIDE DEF S
<1>5. PICK x \in S : \A y \in S : x <= y
  BY <1>4, LeastOf
<1>6. x \in 1..(Len(l) + 1) /\ x \notin U
  BY DEF S
<1>7. U = 1..(x - 1)
  <2>1. ASSUME NEW i \in U PROVE i \in 1..(x - 1)
    <3>1. i \in 1..Len(l)
      BY <1>2
    <3>2. ~(x <= i)
      <4>1. SUFFICES ASSUME x <= i PROVE FALSE
        OBVIOUS
      <4>2. x \in 1..Len(l)
        BY <1>1, <1>6, <3>1, <4>1
      <4>3. x \in U
        BY <1>3, <4>1, <4>2
      <4>4. QED
        BY <1>6, <4>3
    <3>3. QED
      BY <1>1, <1>6, <3>1, <3>2
  <2>2. ASSUME NEW i \in 1..(x - 1) PROVE i \in U
    <3>1. i \in 1..(Len(l) + 1) /\ ~(x <= i)
      BY <1>1, <1>6
    <3>2. i \notin S
      BY <1>5, <3>1
    <3>3. QED
      BY <3>1, <3>2 DEF S
  <2>3. QED
    BY <2>1, <2>2
<1>8. UsedUp(l, n) = x - 1
  <2>1. UsedUp(l, n) = Cardinality(U)
    BY DEF UsedUp, U
  <2>2. Cardinality(1..(x - 1)) = x - 1
    <3>1. 1 \in Int /\ x \in Int /\ x - 1 \in Int /\ x >= 1
      BY <1>1, <1>6
    <3>2. Cardinality(1..(x - 1)) = IF 1 > x - 1 THEN 0 ELSE (x - 1) - 1 + 1
      BY <3>1, FS_Interval
    <3>3. QED
      BY <3>1, <3>2
  <2>3. QED
    BY <1>7, <2>1, <2>2
<1>9. UsedUp(l, n) \in 0..Len(l)
  BY <1>1, <1>6, <1>8
<1>10. ASSUME NEW i \in 1..Len(l)
       PROVE  i <= UsedUp(l, n) <=> Upto(l, i - 1) < n /\ Upto(l, i) <= n
  <2>1. i <= UsedUp(l, n) <=> i \in 1..(x - 1)
    BY <1>1, <1>6, <1>8
  <2>2. i \in U <=> Upto(l, i - 1) < n /\ Upto(l, i) <= n
    BY <1>1 DEF U
  <2>3. QED
    BY <1>7, <2>1, <2>2
<1>11. QED
  BY <1>9, <1>10

(* Where n bytes end: after the buffers used up, or inside the next one.   *)
LEMMA UsedUpEnds ==
  ASSUME NEW l \in Seq(Buf), NEW n \in 0..Len(Contents(l)), NEW k, k = UsedUp(l, n)
  PROVE  /\ k \in 0..Len(l)
         /\ Upto(l, k) \in Nat
         /\ Upto(l, k) <= n
         /\ k = Len(l) => Upto(l, k) = n
         /\ k < Len(l) => Upto(l, k) = n \/ n < Upto(l, k) + Len(LeftOf(l[k + 1]))
<1>1. n \in Nat /\ Len(l) \in Nat /\ n <= Len(Contents(l)) /\ Len(Contents(l)) \in Nat
  BY LeftsType
<1>2. /\ k \in 0..Len(l)
      /\ \A i \in 1..Len(l) : i <= k <=> Upto(l, i - 1) < n /\ Upto(l, i) <= n
  BY <1>1, UsedUpIs
<1>3. Upto(l, k) \in Nat
  BY <1>2, UptoFacts
<1>4. Upto(l, k) <= n
  <2>1. CASE k = 0
    BY <1>1, <2>1, UptoFacts
  <2>2. CASE k # 0
    <3>1. k \in 1..Len(l) /\ k <= k
      BY <1>2, <2>2
    <3>2. QED
      BY <1>2, <3>1
  <2>3. QED
    BY <2>1, <2>2
<1>5. ASSUME k = Len(l) PROVE Upto(l, k) = n
  BY <1>1, <1>3, <1>4, <1>5, UptoFacts
<1>6. ASSUME k < Len(l) PROVE Upto(l, k) = n \/ n < Upto(l, k) + Len(LeftOf(l[k + 1]))
  <2>1. k + 1 \in 1..Len(l) /\ (k + 1) - 1 = k /\ ~(k + 1 <= k)
    BY <1>1, <1>2, <1>6
  <2>2. ~(Upto(l, k) < n /\ Upto(l, k + 1) <= n)
    BY <1>2, <2>1
  <2>3. Upto(l, k + 1) = Upto(l, k) + Len(LeftOf(l[k + 1]))
    BY <2>1, UptoFacts
  <2>4. Len(LeftOf(l[k + 1])) \in Nat
    BY <2>1, LeftType
  <2>5. QED
    BY <1>1, <1>3, <1>4, <2>2, <2>3, <2>4
<1>7. QED
  BY <1>2, <1>3, <1>4, <1>5, <1>6

LEMMA PartKind ==
  ASSUME NEW S, NEW a \in Seq(S), NEW i \in 1..(Len(a) + 1), NEW j \in 0..Len(a)
  PROVE  /\ SubSeq(a, i, j) \in Seq(S)
         /\ Len(SubSeq(a, i, j)) = IF i <= j THEN j - i + 1 ELSE 0
         /\ \A n \in 1..(j - i + 1) : SubSeq(a, i, j)[n] = a[i + n - 1]
<1>1. Len(a) \in Nat /\ i \in Int /\ j \in Int
  OBVIOUS
<1>2. \A n \in i..j : a[n] \in S
  OBVIOUS
<1>3. QED
  BY <1>1, <1>2, SubSeqProperties

LEMMA DropKind ==
  ASSUME NEW S, NEW a \in Seq(S), NEW d \in 0..Len(a)
  PROVE  /\ SubSeq(a, d + 1, Len(a)) \in Seq(S)
         /\ Len(SubSeq(a, d + 1, Len(a))) = Len(a) - d
         /\ \A i \in 1..(Len(a) - d) : SubSeq(a, d + 1, Len(a))[i] = a[d + i]
<1>1. Len(a) \in Nat /\ d + 1 \in 1..(Len(a) + 1) /\ Len(a) \in 0..Len(a)
  OBVIOUS
<1>2. /\ SubSeq(a, d + 1, Len(a)) \in Seq(S)
      /\ Len(SubSeq(a, d + 1, Len(a))) = IF d + 1 <= Len(a) THEN Len(a) - (d + 1) + 1 ELSE 0
      /\ \A i \in 1..(Len(a) - (d + 1) + 1) : SubSeq(a, d + 1, Len(a))[i] = a[(d + 1) + i - 1]
  BY <1>1, PartKind
<1> DEFINE v == SubSeq(a, d + 1, Len(a))
<1> HIDE DEF v
<1>3. /\ v \in Seq(S)
      /\ Len(v) = IF d + 1 <= Len(a) THEN Len(a) - (d + 1) + 1 ELSE 0
      /\ \A i \in 1..(Len(a) - (d + 1) + 1) : v[i] = a[(d + 1) + i - 1]
  BY <1>2 DEF v
<1>4. v \in Seq(S) /\ Len(v) = Len(a) - d
  BY <1>1, <1>3
<1>5. \A i \in 1..(Len(a) - d) : v[i] = a[d + i]
  <2>1. ASSUME NEW i \in 1..(Len(a) - d) PROVE v[i] = a[d + i]
    <3>1. i \in 1..(Len(a) - (d + 1) + 1) /\ (d + 1) + i - 1 = d + i
      BY <1>1
    <3>2. QED
      BY <1>3, <3>1
  <2>2. QED
    BY <2>1
<1>6. v \in Seq(S) /\ Len(v) = Len(a) - d /\ \A i \in 1..(Len(a) - d) : v[i] = a[d + i]
  BY <1>4, <1>5
<1>7. QED
  BY <1>6, Zenon DEF v

(* What is left of a \o b when a and d elements of b are dropped, or d     *)
(* elements of a.                                                          *)
LEMMA DropSecond ==
  ASSUME NEW S, NEW a \in Seq(S), NEW b \in Seq(S), NEW d \in 0..Len(b)
  PROVE  SubSeq(a \o b, Len(a) + d + 1, Len(a \o b)) = SubSeq(b, d + 1, Len(b))
<1>1. /\ a \o b \in Seq(S) /\ Len(a \o b) = Len(a) + Len(b) /\ Len(a) \in Nat
      /\ Len(b) \in Nat
  BY ConcatProperties
<1>2. CASE d = Len(b)
  <2>1. SubSeq(a \o b, Len(a) + d + 1, Len(a \o b)) = <<>>
    BY <1>1, <1>2, SubSeqEmpty
  <2>2. SubSeq(b, d + 1, Len(b)) = <<>>
    BY <1>1, <1>2, SubSeqEmpty
  <2>3. QED
    BY <2>1, <2>2
<1>3. CASE d # Len(b)
  <2>1. /\ Len(a) + d + 1 \in Len(a) + 1 .. Len(a) + Len(b)
        /\ Len(a) + Len(b) \in Len(a) + 1 .. Len(a) + Len(b)
    BY <1>1, <1>3
  <2>2. SubSeq(a \o b, Len(a) + d + 1, Len(a) + Len(b))
          = SubSeq(b, (Len(a) + d + 1) - Len(a), (Len(a) + Len(b)) - Len(a))
    BY <2>1, SubSeqOfConcat2
  <2>3. (Len(a) + d + 1) - Len(a) = d + 1 /\ (Len(a) + Len(b)) - Len(a) = Len(b)
    BY <1>1
  <2>4. QED
    BY <1>1, <2>2, <2>3
<1>4. QED
  BY <1>2, <1>3

LEMMA DropFirst ==
  ASSUME NEW S, NEW a \in Seq(S), NEW b \in Seq(S), NEW d \in 0..Len(a)
  PROVE  SubSeq(a \o b, d + 1, Len(a \o b)) = SubSeq(a, d + 1, Len(a)) \o b
<1>1. /\ a \o b \in Seq(S) /\ Len(a \o b) = Len(a) + Len(b) /\ Len(a) \in Nat
      /\ Len(b) \in Nat
  BY ConcatProperties
<1> DEFINE u == SubSeq(a \o b, d + 1, Len(a \o b))
           v == SubSeq(a, d + 1, Len(a))
<1>2. \A i \in 1..Len(a) + Len(b) : (a \o b)[i] = IF i <= Len(a) THEN a[i] ELSE b[i - Len(a)]
  BY ConcatProperties
<1>3. /\ u \in Seq(S) /\ Len(u) = Len(a) + Len(b) - d
      /\ \A i \in 1..(Len(a) + Len(b) - d) : u[i] = (a \o b)[d + i]
  <2> DEFINE c == a \o b
  <2>1. c \in Seq(S) /\ Len(c) \in Nat /\ d + 1 \in 1..(Len(c) + 1) /\ Len(c) \in 0..Len(c)
        /\ Len(c) = Len(a) + Len(b)
    BY <1>1
  <2>2. /\ u \in Seq(S) /\ Len(u) = IF d + 1 <= Len(c) THEN Len(c) - (d + 1) + 1 ELSE 0
        /\ \A i \in 1..(Len(c) - (d + 1) + 1) : u[i] = c[(d + 1) + i - 1]
    <3> HIDE DEF c
    <3>1. /\ SubSeq(c, d + 1, Len(c)) \in Seq(S)
          /\ Len(SubSeq(c, d + 1, Len(c))) = IF d + 1 <= Len(c) THEN Len(c) - (d + 1) + 1 ELSE 0
          /\ \A i \in 1..(Len(c) - (d + 1) + 1) : SubSeq(c, d + 1, Len(c))[i] = c[(d + 1) + i - 1]
      BY <2>1, PartKind
    <3>2. QED
      BY <3>1 DEF c
  <2> HIDE DEF c, u
  <2>3. Len(u) = Len(a) + Len(b) - d
    BY <1>1, <2>1, <2>2
  <2>4. ASSUME NEW i \in 1..(Len(a) + Len(b) - d) PROVE u[i] = c[d + i]
    <3>1. i \in 1..(Len(c) - (d + 1) + 1) /\ (d + 1) + i - 1 = d + i
      BY <1>1, <2>1
    <3>2. QED
      BY <2>2, <3>1
  <2>5. QED
    BY <2>2, <2>3, <2>4 DEF c
<1>4. /\ v \in Seq(S) /\ Len(v) = Len(a) - d
      /\ \A i \in 1..(Len(a) - d) : v[i] = a[d + i]
  BY DropKind
<1> HIDE DEF u, v
<1>5. /\ v \o b \in Seq(S) /\ Len(v \o b) = Len(v) + Len(b)
      /\ \A i \in 1..Len(v) + Len(b) : (v \o b)[i] = IF i <= Len(v) THEN v[i] ELSE b[i - Len(v)]
  BY <1>4, ConcatProperties
<1>6. Len(u) = Len(v \o b)
  BY <1>1, <1>3, <1>4, <1>5
<1>7. ASSUME NEW i \in 1..Len(u) PROVE u[i] = (v \o b)[i]
  <2>1. i \in 1..(Len(a) + Len(b) - d) /\ d + i \in 1..Len(a) + Len(b)
        /\ i \in 1..Len(v) + Len(b)
    BY <1>1, <1>3, <1>4
  <2>2. u[i] = IF d + i <= Len(a) THEN a[d + i] ELSE b[(d + i) - Len(a)]
    BY <1>2, <1>3, <2>1
  <2>3. CASE i <= Len(a) - d
    <3>1. i \in 1..(Len(a) - d) /\ d + i <= Len(a) /\ i <= Len(v)
      BY <1>1, <1>4, <2>1, <2>3
    <3>2. QED
      BY <1>4, <1>5, <2>1, <2>2, <3>1
  <2>4. CASE ~(i <= Len(a) - d)
    <3>1. ~(d + i <= Len(a)) /\ ~(i <= Len(v)) /\ i - Len(v) = (d + i) - Len(a)
      BY <1>1, <1>4, <2>1, <2>4
    <3>2. QED
      BY <1>5, <2>1, <2>2, <3>1
  <2>5. QED
    BY <2>3, <2>4
<1>8. u = v \o b
  BY <1>3, <1>5, <1>6, <1>7, SeqEqual
<1>9. QED
  BY <1>8 DEF u, v

LEMMA ContentsFirst ==
  ASSUME NEW r \in Seq(Buf), r # <<>>
  PROVE  /\ Contents(r) = LeftOf(r[1]) \o Contents(SubSeq(r, 2, Len(r)))
         /\ SubSeq(r, 2, Len(r)) \in Seq(Buf)
<1>1. Len(r) \in Nat /\ 1 \in 0..Len(r) /\ 1 \in 1..Len(r) /\ 1 \in 1..(Len(r) + 1)
      /\ Len(r) \in 0..Len(r) /\ 2 \in 1..(Len(r) + 1) /\ 1 + 1 = 2
  OBVIOUS
<1>2. SubSeq(r, 1, 1) = <<r[1]>>
  <2>1. SubSeq(r, 1, 1) = SubSeq(r, 1, 1 - 1) \o <<r[1]>>
    BY <1>1, SubSeqRecursiveSecond
  <2>2. SubSeq(r, 1, 1 - 1) = <<>>
    BY SubSeqEmpty
  <2>3. <<r[1]>> \in Seq(Buf)
    BY <1>1
  <2>4. <<>> \o <<r[1]>> = <<r[1]>>
    BY <2>3, ConcatEmptySeq
  <2>5. QED
    BY <2>1, <2>2, <2>4
<1>3. Contents(r) = Contents(SubSeq(r, 1, 1)) \o Contents(SubSeq(r, 1 + 1, Len(r)))
  BY <1>1, ContentsSplit
<1>4. r[1] \in Buf
  BY <1>1
<1>5. Contents(<<r[1]>>) = LeftOf(r[1])
  BY <1>4, ContentsOne
<1>6. SubSeq(r, 2, Len(r)) \in Seq(Buf)
  BY <1>1, PartType
<1>7. QED
  BY <1>1, <1>2, <1>3, <1>5, <1>6

(* The first buffer of a list with d of its bytes used up.                 *)
Advanced(b, d) == [b EXCEPT !.rpos = @ + d]

LEMMA AdvancedIs ==
  ASSUME NEW b \in Buf, NEW d \in 0..Len(LeftOf(b))
  PROVE  /\ Advanced(b, d) \in Buf
         /\ Advanced(b, d).node = b.node
         /\ LeftOf(Advanced(b, d)) = SubSeq(LeftOf(b), d + 1, Len(LeftOf(b)))
         /\ Len(LeftOf(Advanced(b, d))) = Len(LeftOf(b)) - d
<1> DEFINE c == Advanced(b, d)
           L == LeftOf(b)
           M == LeftOf(c)
<1>1. /\ L \in Seq(Nat) /\ Len(L) = Len(b.bytes) - b.rpos /\ Len(L) \in Nat
      /\ b.rpos \in Nat /\ b.bytes \in Seq(Nat) /\ b.node \in Node
      /\ \A j \in 1..Len(L) : L[j] = b.bytes[b.rpos + j]
  BY LeftType
<1>2. b \in Buffers
  BY DEF Buf
<1>3. c = [node |-> b.node, bytes |-> b.bytes, rpos |-> b.rpos + d]
  BY <1>2 DEF Advanced, Buffers
<1>4. c.node = b.node /\ c.bytes = b.bytes /\ c.rpos = b.rpos + d
  BY <1>3
<1>5. b.rpos + d \in Nat /\ b.rpos + d <= Len(b.bytes)
  <2>1. Len(b.bytes) \in Nat
    BY <1>1
  <2> HIDE DEF L
  <2>2. d \in 0..Len(L)
    BY DEF L
  <2>3. QED
    BY <1>1, <2>1, <2>2
<1>6. c \in Buffers
  BY <1>1, <1>3, <1>5 DEF Buffers
<1>7. c \in Buf
  BY <1>4, <1>5, <1>6 DEF Buf
<1> HIDE DEF c
<1>8. /\ M \in Seq(Nat) /\ Len(M) = Len(c.bytes) - c.rpos /\ Len(M) \in Nat
      /\ \A j \in 1..Len(M) : M[j] = c.bytes[c.rpos + j]
  BY <1>7, LeftType
<1>9. d \in 0..Len(L) /\ Len(b.bytes) \in Nat /\ Len(L) \in Nat /\ b.rpos \in Nat
  BY <1>1
<1> HIDE DEF L, M
<1>10. Len(M) = Len(L) - d
  BY <1>1, <1>4, <1>8, <1>9
<1>11. /\ SubSeq(L, d + 1, Len(L)) \in Seq(Nat)
       /\ Len(SubSeq(L, d + 1, Len(L))) = Len(L) - d
       /\ \A j \in 1..(Len(L) - d) : SubSeq(L, d + 1, Len(L))[j] = L[d + j]
  <2>1. L \in Seq(Nat) /\ d \in 0..Len(L)
    BY <1>1, <1>9
  <2>2. QED
    BY <2>1, DropKind
<1>12. ASSUME NEW j \in 1..(Len(L) - d) PROVE M[j] = SubSeq(L, d + 1, Len(L))[j]
  <2>1. j \in 1..Len(M) /\ d + j \in 1..Len(L) /\ c.rpos + j = b.rpos + (d + j)
    <3>1. j \in 1..Len(M) /\ d + j \in 1..Len(L) /\ j \in Nat
      BY <1>9, <1>10
    <3>2. c.rpos + j = b.rpos + (d + j)
      BY <1>4, <1>9, <3>1
    <3>3. QED
      BY <3>1, <3>2
  <2>2. M[j] = b.bytes[b.rpos + (d + j)] /\ L[d + j] = b.bytes[b.rpos + (d + j)]
    BY <1>1, <1>4, <1>8, <2>1
  <2>3. QED
    BY <1>11, <2>2
<1>13. M = SubSeq(L, d + 1, Len(L))
  BY <1>8, <1>10, <1>11, <1>12, SeqEqual
<1>14. QED
  BY <1>4, <1>7, <1>10, <1>13 DEF c, L, M

(* A list whose first buffer has d more bytes used up.                     *)
LEMMA AdvancedFirst ==
  ASSUME NEW r \in Seq(Buf), r # <<>>, NEW d \in 0..Len(LeftOf(r[1])),
         NEW q, q = [r EXCEPT ![1] = Advanced(r[1], d)]
  PROVE  /\ q \in Seq(Buf) /\ Len(q) = Len(r)
         /\ q[1] = Advanced(r[1], d)
         /\ \A i \in 1..Len(r) : i # 1 => q[i] = r[i]
         /\ Contents(q) = SubSeq(Contents(r), d + 1, Len(Contents(r)))
<1> DEFINE c == Advanced(r[1], d)
           t == SubSeq(r, 2, Len(r))
<1>1. r[1] \in Buf /\ 1 \in 1..Len(r) /\ Len(r) \in Nat
  OBVIOUS
<1>2. c \in Buf /\ LeftOf(c) = SubSeq(LeftOf(r[1]), d + 1, Len(LeftOf(r[1])))
  BY <1>1, AdvancedIs
<1>3. /\ q \in Seq(Buf) /\ Len(q) = Len(r)
      /\ \A j \in 1..Len(r) : q[j] = IF j = 1 THEN c ELSE r[j]
  <2> HIDE DEF c
  <2>1. /\ [r EXCEPT ![1] = c] \in Seq(Buf)
        /\ Len([r EXCEPT ![1] = c]) = Len(r)
        /\ \A j \in 1..Len(r) : [r EXCEPT ![1] = c][j] = IF j = 1 THEN c ELSE r[j]
    BY <1>1, <1>2, ExceptSeq
  <2>2. q = [r EXCEPT ![1] = c]
    BY DEF c
  <2>3. QED
    BY <2>1, <2>2
<1>4. q[1] = c /\ \A i \in 1..Len(r) : i # 1 => q[i] = r[i]
  BY <1>1, <1>3
<1>5. SubSeq(q, 2, Len(q)) = t
  <2>1. 2 \in 1..(Len(r) + 1) /\ Len(r) \in 0..Len(r)
    BY <1>1
  <2> DEFINE u == SubSeq(q, 2, Len(q))
  <2>2. /\ u \in Seq(Buf) /\ Len(u) = IF 2 <= Len(r) THEN Len(r) - 2 + 1 ELSE 0
        /\ \A n \in 1..(Len(r) - 2 + 1) : u[n] = q[2 + n - 1]
    BY <1>3, <2>1, PartType
  <2>3. /\ t \in Seq(Buf) /\ Len(t) = IF 2 <= Len(r) THEN Len(r) - 2 + 1 ELSE 0
        /\ \A n \in 1..(Len(r) - 2 + 1) : t[n] = r[2 + n - 1]
    BY <2>1, PartType
  <2> HIDE DEF u, t, c
  <2>4. ASSUME NEW n \in 1..Len(u) PROVE u[n] = t[n]
    <3>1. n \in 1..(Len(r) - 2 + 1) /\ 2 + n - 1 \in 1..Len(r) /\ 2 + n - 1 # 1
      BY <1>1, <2>2
    <3>2. QED
      BY <1>4, <2>2, <2>3, <3>1
  <2>5. u = t
    BY <2>2, <2>3, <2>4, SeqEqual
  <2>6. QED
    BY <2>5 DEF u
<1>6. q # <<>>
  BY <1>1, <1>3
<1>7. Contents(q) = LeftOf(c) \o Contents(t) /\ t \in Seq(Buf)
  <2>1. Contents(q) = LeftOf(q[1]) \o Contents(SubSeq(q, 2, Len(q)))
    BY <1>3, <1>6, ContentsFirst
  <2>2. t \in Seq(Buf)
    BY ContentsFirst
  <2>3. QED
    BY <1>4, <1>5, <2>1, <2>2
<1>8. Contents(r) = LeftOf(r[1]) \o Contents(t)
  BY ContentsFirst
<1>9. SubSeq(Contents(r), d + 1, Len(Contents(r))) = LeftOf(c) \o Contents(t)
  <2> DEFINE a == LeftOf(r[1])
             b == Contents(t)
  <2>1. a \in Seq(Nat) /\ b \in Seq(Nat)
    BY <1>1, <1>7, LeftType, LeftsType
  <2>2. d \in 0..Len(a)
    OBVIOUS
  <2> HIDE DEF a, b
  <2>3. SubSeq(a \o b, d + 1, Len(a \o b)) = SubSeq(a, d + 1, Len(a)) \o b
    BY <2>1, <2>2, DropFirst
  <2>4. QED
    BY <1>2, <1>8, <2>3 DEF a, b
<1>10. QED
  BY <1>3, <1>4, <1>7, <1>9

(* What both loops that use up n bytes of a list leave: the rest of its    *)
(* bytes, in the buffers after those used up.                              *)
LEMMA AfterIs ==
  ASSUME NEW l \in Seq(Buf), NEW n \in 0..Len(Contents(l)), NEW k, k = UsedUp(l, n),
         NEW m, m = After(l, n)
  PROVE  /\ k \in 0..Len(l)
         /\ m \in Seq(Buf) /\ Len(m) = Len(l) - k
         /\ Contents(m) = SubSeq(Contents(l), n + 1, Len(Contents(l)))
         /\ \A i \in 1..Len(m) : m[i].node = l[k + i].node /\ (i # 1 => m[i] = l[k + i])
         /\ NoEmpty(l) => NoEmpty(m)
<1> DEFINE r == SubSeq(l, k + 1, Len(l))
           f == SubSeq(l, 1, k)
           d == n - Upto(l, k)
           C == Contents(l)
<1>1. /\ k \in 0..Len(l)
      /\ Upto(l, k) \in Nat
      /\ Upto(l, k) <= n
      /\ k = Len(l) => Upto(l, k) = n
      /\ k < Len(l) => Upto(l, k) = n \/ n < Upto(l, k) + Len(LeftOf(l[k + 1]))
  BY UsedUpEnds
<1>2. /\ r \in Seq(Buf) /\ Len(r) = Len(l) - k
      /\ \A i \in 1..(Len(l) - k) : r[i] = l[k + i]
  BY <1>1, DropKind
<1>3. f \in Seq(Buf) /\ Len(Contents(f)) = Upto(l, k)
  <2>1. 1 \in 1..(Len(l) + 1)
    OBVIOUS
  <2>2. f \in Seq(Buf)
    BY <1>1, <2>1, PartType
  <2>3. QED
    BY <2>2 DEF Upto
<1>4. C = Contents(f) \o Contents(r)
  BY <1>1, ContentsSplit
<1>5. /\ Contents(f) \in Seq(Nat) /\ Contents(r) \in Seq(Nat) /\ C \in Seq(Nat)
      /\ Len(C) \in Nat /\ Len(Contents(r)) \in Nat
  BY <1>2, <1>3, LeftsType
<1>6. Len(C) = Upto(l, k) + Len(Contents(r))
  <2>1. Len(Contents(f) \o Contents(r)) = Len(Contents(f)) + Len(Contents(r))
    BY <1>5, ConcatProperties
  <2>2. QED
    BY <1>3, <1>4, <2>1
<1>7. n \in Nat /\ n <= Len(C) /\ d \in Nat /\ d <= Len(Contents(r)) /\ Upto(l, k) + d = n
  <2>1. n \in Nat /\ n <= Len(C)
    BY <1>5
  <2>2. QED
    BY <1>1, <1>5, <1>6, <2>1
<1>8. SubSeq(C, n + 1, Len(C)) = SubSeq(Contents(r), d + 1, Len(Contents(r)))
  <2> DEFINE a == Contents(f)
             b == Contents(r)
  <2>1. a \in Seq(Nat) /\ b \in Seq(Nat) /\ d \in 0..Len(b) /\ C = a \o b
        /\ Len(a) + d + 1 = n + 1
    BY <1>1, <1>3, <1>4, <1>5, <1>7
  <2> HIDE DEF a, b, d, C
  <2>2. SubSeq(a \o b, Len(a) + d + 1, Len(a \o b)) = SubSeq(b, d + 1, Len(b))
    BY <2>1, DropSecond
  <2>3. QED
    BY <2>1, <2>2 DEF b
<1>9. m = IF r = <<>> THEN r ELSE [r EXCEPT ![1] = Advanced(r[1], d)]
  <2>1. m = IF r = <<>> THEN r ELSE [r EXCEPT ![1].rpos = @ + d]
    BY DEF After
  <2> HIDE DEF r, d
  <2>2. [r EXCEPT ![1].rpos = @ + d] = [r EXCEPT ![1] = Advanced(r[1], d)]
    BY DEF Advanced
  <2>3. QED
    BY <2>1, <2>2
<1>10. CASE r = <<>>
  <2>1. k = Len(l) /\ d = 0 /\ n = Len(C)
    <3>1. Len(l) - k = 0
      BY <1>2, <1>10
    <3>2. QED
      BY <1>1, <1>6, <1>7, <3>1, <1>10, UptoFacts
  <2>2. m = <<>>
    BY <1>9, <1>10
  <2>3. Contents(m) = <<>>
    BY <2>2, ContentsEmpty, Zenon
  <2>4. SubSeq(C, n + 1, Len(C)) = <<>>
    BY <1>5, <2>1, SubSeqEmpty
  <2>5. NoEmpty(m)
    BY <2>2 DEF NoEmpty
  <2>6. m \in Seq(Buf) /\ Len(m) = Len(l) - k /\ Len(m) = 0
    BY <2>1, <2>2
  <2>7. QED
    BY <1>1, <2>3, <2>4, <2>5, <2>6
<1>11. CASE r # <<>>
  <2>1. r[1] = l[k + 1] /\ k < Len(l) /\ r[1] \in Buf
    <3>1. 1 \in 1..(Len(l) - k)
      BY <1>1, <1>2, <1>11
    <3>2. QED
      BY <1>1, <1>2, <3>1
  <2>2. d \in 0..Len(LeftOf(r[1])) /\ (d = 0 \/ d < Len(LeftOf(r[1])))
        /\ Len(LeftOf(r[1])) \in Nat
    <3> HIDE DEF r
    <3>1. Len(LeftOf(r[1])) \in Nat
      BY <2>1, LeftType
    <3>2. Upto(l, k) = n \/ n < Upto(l, k) + Len(LeftOf(r[1]))
      BY <1>1, <2>1
    <3> DEFINE h == Len(LeftOf(r[1]))
               p == Upto(l, k)
    <3>3. p \in Nat /\ h \in Nat /\ n \in Nat /\ d \in Nat /\ p + d = n /\ (p = n \/ n < p + h)
      BY <1>1, <1>7, <3>1, <3>2
    <3> HIDE DEF h, p, d
    <3>4. d = 0 \/ d < h
      BY <3>3
    <3>5. d \in 0..h
      BY <3>3, <3>4
    <3>6. QED
      BY <3>3, <3>4, <3>5 DEF h
  <2>3. m = [r EXCEPT ![1] = Advanced(r[1], d)]
    BY <1>9, <1>11
  <2> HIDE DEF r, d, C
  <2>4. /\ m \in Seq(Buf) /\ Len(m) = Len(r)
        /\ m[1] = Advanced(r[1], d)
        /\ \A i \in 1..Len(r) : i # 1 => m[i] = r[i]
        /\ Contents(m) = SubSeq(Contents(r), d + 1, Len(Contents(r)))
    BY <1>2, <1>11, <2>2, <2>3, AdvancedFirst
  <2>5. /\ Advanced(r[1], d).node = r[1].node
        /\ Len(LeftOf(Advanced(r[1], d))) = Len(LeftOf(r[1])) - d
    BY <2>1, <2>2, AdvancedIs
  <2>6. \A i \in 1..Len(m) : m[i].node = l[k + i].node /\ (i # 1 => m[i] = l[k + i])
    BY <1>2, <2>1, <2>4, <2>5
  <2>7. ASSUME NoEmpty(l) PROVE NoEmpty(m)
    <3> SUFFICES ASSUME NEW i \in DOMAIN m PROVE LeftOf(m[i]) # <<>>
      BY DEF NoEmpty
    <3>1. i \in 1..Len(r) /\ i \in 1..(Len(l) - k) /\ k + i \in 1..Len(l)
      BY <1>1, <1>2, <2>4
    <3>2. r[i] = l[k + i] /\ LeftOf(l[k + i]) # <<>>
      BY <1>2, <2>7, <3>1 DEF NoEmpty
    <3>3. CASE i # 1
      BY <2>4, <3>1, <3>2, <3>3
    <3>4. CASE i = 1
      <4>1. LeftOf(r[1]) \in Seq(Nat) /\ LeftOf(r[1]) # <<>>
        BY <2>1, <3>2, <3>4, LeftType
      <4>2. Len(LeftOf(r[1])) > 0
        BY <4>1, EmptySeq
      <4>3. Len(LeftOf(m[1])) > 0
        BY <2>2, <2>4, <2>5, <4>2
      <4>4. LeftOf(m[1]) # <<>>
        BY <4>3
      <4>5. QED
        BY <3>4, <4>4
    <3>5. QED
      BY <3>3, <3>4
  <2>8. Contents(m) = SubSeq(C, n + 1, Len(C))
    BY <1>8, <2>4
  <2>9. QED
    BY <1>1, <1>2, <2>4, <2>6, <2>7, <2>8 DEF C
<1>12. QED
  BY <1>10, <1>11

(* Without empty buffers, nothing is left of a list of which all is used.  *)
LEMMA AfterAll ==
  ASSUME NEW l \in Seq(Buf), NoEmpty(l)
  PROVE  After(l, Len(Contents(l))) = <<>>
<1> DEFINE n == Len(Contents(l))
           k == UsedUp(l, n)
           m == After(l, n)
<1>1. n \in Nat /\ n \in 0..Len(Contents(l)) /\ Len(l) \in Nat
  BY LeftsType
<1> HIDE DEF n, k, m
<1>2. /\ k \in 0..Len(l)
      /\ Upto(l, k) \in Nat
      /\ Upto(l, k) <= n
      /\ k = Len(l) => Upto(l, k) = n
      /\ k < Len(l) => Upto(l, k) = n \/ n < Upto(l, k) + Len(LeftOf(l[k + 1]))
  BY <1>1, UsedUpEnds DEF k
<1>3. ~(k < Len(l))
  <2> SUFFICES ASSUME k < Len(l) PROVE FALSE
    OBVIOUS
  <2>1. k + 1 \in 1..Len(l) /\ (k + 1) - 1 = k /\ k + 1 \in 0..Len(l) /\ Len(l) \in 0..Len(l)
        /\ k + 1 <= Len(l)
    BY <1>1, <1>2
  <2>2. Upto(l, k + 1) = Upto(l, k) + Len(LeftOf(l[k + 1])) /\ Upto(l, k + 1) \in Nat
        /\ Upto(l, Len(l)) = n
    BY <2>1, UptoFacts DEF n
  <2>3. Upto(l, k + 1) <= n
    BY <2>1, <2>2, UptoGrows
  <2>4. Len(LeftOf(l[k + 1])) \in Nat /\ Len(LeftOf(l[k + 1])) > 0
    <3>1. LeftOf(l[k + 1]) \in Seq(Nat) /\ LeftOf(l[k + 1]) # <<>>
      BY <2>1, LeftType DEF NoEmpty
    <3>2. QED
      BY <3>1, EmptySeq
  <2>5. QED
    BY <1>1, <1>2, <2>2, <2>3, <2>4
<1>4. m \in Seq(Buf) /\ Len(m) = Len(l) - k
  BY <1>1, AfterIs DEF k, m
<1>5. Len(m) = 0
  BY <1>1, <1>2, <1>3, <1>4
<1>6. m = <<>>
  BY <1>4, <1>5, EmptySeq
<1>7. QED
  BY <1>6 DEF m, n

-----------------------------------------------------------------------------
(* Headers.                                                                *)

LEMMA SetOfConcat ==
  ASSUME NEW S, NEW s \in Seq(S), NEW t \in Seq(S)
  PROVE  ToSet(s \o t) = ToSet(s) \cup ToSet(t)
<1>1. /\ s \o t \in Seq(S) /\ Len(s \o t) = Len(s) + Len(t)
      /\ \A i \in 1..Len(s) + Len(t) : (s \o t)[i] = IF i <= Len(s) THEN s[i] ELSE t[i - Len(s)]
  BY ConcatProperties
<1>2. Len(s) \in Nat /\ Len(t) \in Nat /\ DOMAIN s = 1..Len(s) /\ DOMAIN t = 1..Len(t)
      /\ DOMAIN (s \o t) = 1..Len(s) + Len(t)
  BY <1>1
<1> DEFINE u == s \o t
<1> HIDE DEF u
<1>3. ASSUME NEW x \in ToSet(u) PROVE x \in ToSet(s) \cup ToSet(t)
  <2>1. PICK i \in 1..Len(s) + Len(t) : x = u[i]
    BY <1>2 DEF ToSet, u
  <2>2. CASE i <= Len(s)
    BY <1>1, <1>2, <2>1, <2>2 DEF ToSet, u
  <2>3. CASE ~(i <= Len(s))
    <3>1. i - Len(s) \in 1..Len(t)
      BY <1>2, <2>3
    <3>2. x = t[i - Len(s)]
      BY <1>1, <2>1, <2>3 DEF u
    <3>3. QED
      BY <1>2, <3>1, <3>2 DEF ToSet
  <2>4. QED
    BY <2>2, <2>3
<1>4. ASSUME NEW x \in ToSet(s) PROVE x \in ToSet(u)
  <2>1. PICK i \in 1..Len(s) : x = s[i]
    BY <1>2 DEF ToSet
  <2>2. i \in 1..Len(s) + Len(t) /\ x = u[i]
    BY <1>1, <1>2, <2>1 DEF u
  <2>3. QED
    BY <1>2, <2>2 DEF ToSet, u
<1>5. ASSUME NEW x \in ToSet(t) PROVE x \in ToSet(u)
  <2>1. PICK i \in 1..Len(t) : x = t[i]
    BY <1>2 DEF ToSet
  <2>2. Len(s) + i \in 1..Len(s) + Len(t) /\ ~(Len(s) + i <= Len(s)) /\ (Len(s) + i) - Len(s) = i
    BY <1>2
  <2>3. x = u[Len(s) + i]
    BY <1>1, <2>1, <2>2 DEF u
  <2>4. QED
    BY <1>2, <2>2, <2>3 DEF ToSet, u
<1>6. QED
  BY <1>3, <1>4, <1>5 DEF u

LEMMA ApartConcat ==
  ASSUME NEW S, NEW s \in Seq(S), NEW t \in Seq(S)
  PROVE  IsInjective(s \o t) <=>
           IsInjective(s) /\ IsInjective(t) /\ ToSet(s) \cap ToSet(t) = {}
<1>1. /\ s \o t \in Seq(S) /\ Len(s \o t) = Len(s) + Len(t)
      /\ \A i \in 1..Len(s) + Len(t) : (s \o t)[i] = IF i <= Len(s) THEN s[i] ELSE t[i - Len(s)]
  BY ConcatProperties
<1>2. Len(s) \in Nat /\ Len(t) \in Nat /\ DOMAIN s = 1..Len(s) /\ DOMAIN t = 1..Len(t)
      /\ DOMAIN (s \o t) = 1..Len(s) + Len(t)
  BY <1>1
<1> DEFINE u == s \o t
<1>3. \A i \in 1..Len(s) : i \in 1..Len(s) + Len(t) /\ u[i] = s[i]
  BY <1>1, <1>2
<1>4. \A j \in 1..Len(t) : Len(s) + j \in 1..Len(s) + Len(t) /\ u[Len(s) + j] = t[j]
  <2>1. ASSUME NEW j \in 1..Len(t)
        PROVE  Len(s) + j \in 1..Len(s) + Len(t) /\ u[Len(s) + j] = t[j]
    <3>1. Len(s) + j \in 1..Len(s) + Len(t) /\ ~(Len(s) + j <= Len(s)) /\ (Len(s) + j) - Len(s) = j
      BY <1>2
    <3>2. QED
      BY <1>1, <3>1
  <2>2. QED
    BY <2>1
<1> HIDE DEF u
<1>5. ASSUME IsInjective(u)
      PROVE  IsInjective(s) /\ IsInjective(t) /\ ToSet(s) \cap ToSet(t) = {}
  <2>1. \A i, j \in 1..Len(s) + Len(t) : u[i] = u[j] => i = j
    BY <1>2, <1>5 DEF IsInjective, u
  <2>2. IsInjective(s)
    BY <1>2, <1>3, <2>1 DEF IsInjective
  <2>3. ASSUME NEW i \in 1..Len(t), NEW j \in 1..Len(t), t[i] = t[j] PROVE i = j
    <3>1. Len(s) + i = Len(s) + j
      BY <1>4, <2>1, <2>3
    <3>2. QED
      BY <1>2, <3>1
  <2>4. IsInjective(t)
    BY <1>2, <2>3 DEF IsInjective
  <2>5. ASSUME NEW x \in ToSet(s), x \in ToSet(t) PROVE FALSE
    <3>1. PICK i \in 1..Len(s) : x = s[i]
      BY <1>2 DEF ToSet
    <3>2. PICK j \in 1..Len(t) : x = t[j]
      BY <1>2, <2>5 DEF ToSet
    <3>3. i = Len(s) + j
      BY <1>3, <1>4, <2>1, <3>1, <3>2
    <3>4. QED
      BY <1>2, <3>3
  <2>6. QED
    BY <2>2, <2>4, <2>5
<1>6. ASSUME IsInjective(s), IsInjective(t), ToSet(s) \cap ToSet(t) = {}
      PROVE  IsInjective(u)
  <2>1. SUFFICES ASSUME NEW i \in 1..Len(s) + Len(t), NEW j \in 1..Len(s) + Len(t), u[i] = u[j]
                 PROVE  i = j
    BY <1>2 DEF IsInjective, u
  <2>2. \A a \in 1..Len(s) + Len(t) :
          \/ a \in 1..Len(s) /\ u[a] = s[a] /\ u[a] \in ToSet(s)
          \/ a - Len(s) \in 1..Len(t) /\ u[a] = t[a - Len(s)] /\ u[a] \in ToSet(t)
    <3>1. ASSUME NEW a \in 1..Len(s) + Len(t)
          PROVE  \/ a \in 1..Len(s) /\ u[a] = s[a] /\ u[a] \in ToSet(s)
                 \/ a - Len(s) \in 1..Len(t) /\ u[a] = t[a - Len(s)] /\ u[a] \in ToSet(t)
      <4>1. CASE a <= Len(s)
        <5>1. a \in 1..Len(s)
          BY <1>2, <4>1
        <5>2. QED
          BY <1>2, <1>3, <5>1 DEF ToSet
      <4>2. CASE ~(a <= Len(s))
        <5>1. a - Len(s) \in 1..Len(t) /\ Len(s) + (a - Len(s)) = a
          BY <1>2, <4>2
        <5>2. u[a] = t[a - Len(s)]
          BY <1>4, <5>1
        <5>3. QED
          BY <1>2, <5>1, <5>2 DEF ToSet
      <4>3. QED
        BY <4>1, <4>2
    <3>2. QED
      BY <3>1
  <2>3. CASE u[i] \in ToSet(s)
    <3>1. i \in 1..Len(s) /\ j \in 1..Len(s) /\ s[i] = s[j]
      BY <1>6, <2>1, <2>2, <2>3
    <3>2. QED
      BY <1>2, <1>6, <3>1 DEF IsInjective
  <2>4. CASE u[i] \notin ToSet(s)
    <3>1. /\ i - Len(s) \in 1..Len(t) /\ j - Len(s) \in 1..Len(t)
          /\ t[i - Len(s)] = t[j - Len(s)]
      BY <2>1, <2>2, <2>4
    <3>2. i - Len(s) = j - Len(s)
      BY <1>2, <1>6, <3>1 DEF IsInjective
    <3>3. QED
      BY <1>2, <3>2
  <2>5. QED
    BY <2>3, <2>4
<1>7. QED
  BY <1>5, <1>6 DEF u

LEMMA ApartOne ==
  ASSUME NEW S, NEW x \in S
  PROVE  <<x>> \in Seq(S) /\ IsInjective(<<x>>) /\ ToSet(<<x>>) = {x}
<1>1. <<x>> \in Seq(S) /\ DOMAIN <<x>> = {1} /\ <<x>>[1] = x
  OBVIOUS
<1>2. IsInjective(<<x>>)
  BY <1>1 DEF IsInjective
<1>3. ToSet(<<x>>) = {x}
  BY <1>1 DEF ToSet
<1>4. QED
  BY <1>1, <1>2, <1>3

LEMMA ApartReverse ==
  ASSUME NEW S, NEW s \in Seq(S), IsInjective(s)
  PROVE  Reverse(s) \in Seq(S) /\ IsInjective(Reverse(s)) /\ ToSet(Reverse(s)) = ToSet(s)
<1> DEFINE r == Reverse(s)
           n == Len(s)
<1>1. n \in Nat /\ DOMAIN s = 1..n /\ \A i \in 1..n : s[i] \in S
  OBVIOUS
<1>2. \A i \in 1..n : (n - i) + 1 \in 1..n /\ (n - ((n - i) + 1)) + 1 = i
  BY <1>1
<1>3. r = [i \in 1..n |-> s[(n - i) + 1]]
  BY DEF Reverse
<1> HIDE DEF r
<1>4. DOMAIN r = 1..n /\ \A i \in 1..n : r[i] = s[(n - i) + 1]
  BY <1>3
<1>5. r \in Seq(S)
  <2>1. \A i \in 1..n : s[(n - i) + 1] \in S
    BY <1>1, <1>2
  <2>2. r \in [1..n -> S]
    BY <1>3, <2>1
  <2>3. QED
    BY <1>1, <2>2
<1>6. IsInjective(r)
  <2>1. SUFFICES ASSUME NEW i \in 1..n, NEW j \in 1..n, r[i] = r[j] PROVE i = j
    BY <1>4 DEF IsInjective
  <2>2. s[(n - i) + 1] = s[(n - j) + 1]
    BY <1>4, <2>1
  <2>3. (n - i) + 1 = (n - j) + 1
    BY <1>1, <1>2, <2>2 DEF IsInjective
  <2>4. QED
    BY <1>1, <2>3
<1>7. ToSet(r) = ToSet(s)
  <2>1. ASSUME NEW x \in ToSet(r) PROVE x \in ToSet(s)
    <3>1. PICK i \in 1..n : x = r[i]
      BY <1>4 DEF ToSet
    <3>2. x = s[(n - i) + 1] /\ (n - i) + 1 \in 1..n
      BY <1>2, <1>4, <3>1
    <3>3. QED
      BY <1>1, <3>2 DEF ToSet
  <2>2. ASSUME NEW x \in ToSet(s) PROVE x \in ToSet(r)
    <3>1. PICK i \in 1..n : x = s[i]
      BY <1>1 DEF ToSet
    <3>2. (n - i) + 1 \in 1..n /\ r[(n - i) + 1] = s[(n - ((n - i) + 1)) + 1]
      BY <1>2, <1>4
    <3>3. x = r[(n - i) + 1]
      BY <1>2, <3>1, <3>2
    <3>4. QED
      BY <1>4, <3>2, <3>3 DEF ToSet
  <2>3. QED
    BY <2>1, <2>2
<1>8. QED
  BY <1>5, <1>6, <1>7 DEF r

LEMMA NodesType ==
  ASSUME NEW l \in Seq(Buf)
  PROVE  /\ Nodes(l) \in Seq(Node) /\ Len(Nodes(l)) = Len(l)
         /\ \A i \in 1..Len(l) : Nodes(l)[i] = l[i].node
<1>1. \A i \in 1..Len(l) : l[i].node \in Node
  BY LeftType
<1>2. Nodes(l) = [i \in 1..Len(l) |-> l[i].node]
  BY DEF Nodes
<1>3. Nodes(l) \in [1..Len(l) -> Node]
  BY <1>1, <1>2
<1>4. Len(l) \in Nat
  OBVIOUS
<1>5. Nodes(l) \in Seq(Node)
  BY <1>3, <1>4
<1>6. Len(Nodes(l)) = Len(l)
  BY <1>3, <1>4, <1>5
<1>7. QED
  BY <1>2, <1>5, <1>6

LEMMA NodesEmpty == Nodes(<<>>) = <<>> /\ ToSet(Nodes(<<>>)) = {}
<1>1. Nodes(<<>>) = <<>>
  BY DEF Nodes
<1>2. ToSet(<<>>) = {}
  BY DEF ToSet
<1>3. QED
  BY <1>1, <1>2

LEMMA NodesAppend ==
  ASSUME NEW l \in Seq(Buf), NEW b \in Buf
  PROVE  /\ ToSet(Nodes(Append(l, b))) = ToSet(Nodes(l)) \cup {b.node}
         /\ IsInjective(Nodes(Append(l, b))) <=>
              IsInjective(Nodes(l)) /\ b.node \notin ToSet(Nodes(l))
<1> DEFINE m == Append(l, b)
           s == Nodes(l)
           t == <<b.node>>
<1>1. b.node \in Node
  BY LeftType
<1>2. m \in Seq(Buf) /\ Len(m) = Len(l) + 1 /\ Len(l) \in Nat /\ m[Len(l) + 1] = b
      /\ \A i \in 1..Len(l) : m[i] = l[i]
  OBVIOUS
<1> HIDE DEF m
<1>3. /\ Nodes(m) \in Seq(Node) /\ Len(Nodes(m)) = Len(m)
      /\ \A i \in 1..Len(m) : Nodes(m)[i] = m[i].node
  BY <1>2, NodesType
<1>4. /\ s \in Seq(Node) /\ Len(s) = Len(l)
      /\ \A i \in 1..Len(l) : s[i] = l[i].node
  BY NodesType
<1>5. t \in Seq(Node) /\ IsInjective(t) /\ ToSet(t) = {b.node}
  BY <1>1, ApartOne
<1>6. Len(t) = 1 /\ t[1] = b.node
  OBVIOUS
<1> HIDE DEF s, t
<1>7. /\ s \o t \in Seq(Node) /\ Len(s \o t) = Len(s) + Len(t)
      /\ \A i \in 1..Len(s) + Len(t) : (s \o t)[i] = IF i <= Len(s) THEN s[i] ELSE t[i - Len(s)]
  BY <1>4, <1>5, ConcatProperties
<1>8. Nodes(m) = s \o t
  <2>1. ASSUME NEW i \in 1..Len(Nodes(m)) PROVE Nodes(m)[i] = (s \o t)[i]
    <3>1. i \in 1..Len(m) /\ i \in 1..Len(s) + Len(t)
      BY <1>2, <1>3, <1>4, <1>6
    <3>2. CASE i <= Len(s)
      <4>1. i \in 1..Len(l)
        BY <1>2, <1>4, <3>1, <3>2
      <4>2. QED
        BY <1>2, <1>3, <1>4, <1>7, <3>1, <3>2, <4>1
    <3>3. CASE ~(i <= Len(s))
      <4>1. i = Len(l) + 1 /\ i - Len(s) = 1
        BY <1>2, <1>4, <1>6, <3>1, <3>3
      <4>2. Nodes(m)[i] = b.node
        BY <1>2, <1>3, <3>1, <4>1
      <4>3. (s \o t)[i] = b.node
        BY <1>6, <1>7, <3>1, <3>3, <4>1
      <4>4. QED
        BY <4>2, <4>3
    <3>4. QED
      BY <3>2, <3>3
  <2>2. Len(Nodes(m)) = Len(s \o t)
    BY <1>2, <1>3, <1>4, <1>6, <1>7
  <2>3. QED
    BY <1>3, <1>7, <2>1, <2>2, SeqEqual
<1>9. ToSet(Nodes(m)) = ToSet(s) \cup {b.node}
  BY <1>4, <1>5, <1>8, SetOfConcat
<1>10. IsInjective(Nodes(m)) <=> IsInjective(s) /\ IsInjective(t) /\ ToSet(s) \cap ToSet(t) = {}
  BY <1>4, <1>5, <1>8, ApartConcat
<1>11. IsInjective(Nodes(m)) <=> IsInjective(s) /\ b.node \notin ToSet(s)
  BY <1>5, <1>10
<1>12. QED
  BY <1>9, <1>11 DEF m, s

(* The headers of the buffers used up go to the free list, the others stay *)
(* in the list.                                                            *)
LEMMA NodesGiven ==
  ASSUME NEW l \in Seq(Buf), NEW n \in 0..Len(Contents(l)), NEW m, m = After(l, n),
         NEW g, g = Reclaimed(l, n),
         free \in Seq(Node), IsInjective(free), IsInjective(Nodes(l)),
         ToSet(free) \cap ToSet(Nodes(l)) = {}
  PROVE  /\ g \in Seq(Node) /\ IsInjective(g) /\ IsInjective(Nodes(m))
         /\ ToSet(g) \cap ToSet(Nodes(m)) = {}
         /\ ToSet(g) \subseteq ToSet(free) \cup ToSet(Nodes(l))
         /\ ToSet(Nodes(m)) \subseteq ToSet(Nodes(l))
<1> DEFINE k == UsedUp(l, n)
           f == SubSeq(l, 1, k)
           s == Nodes(f)
           t == Nodes(m)
           u == Nodes(l)
<1>1. /\ k \in 0..Len(l) /\ m \in Seq(Buf) /\ Len(m) = Len(l) - k
      /\ \A i \in 1..Len(m) : m[i].node = l[k + i].node /\ (i # 1 => m[i] = l[k + i])
  BY AfterIs
<1> HIDE DEF k
<1>2. /\ f \in Seq(Buf) /\ Len(f) = k /\ Len(l) \in Nat /\ k \in Nat
      /\ \A i \in 1..k : f[i] = l[i]
  <2>1. 1 \in 1..(Len(l) + 1) /\ Len(l) \in Nat /\ k \in Nat
    BY <1>1
  <2>2. /\ f \in Seq(Buf)
        /\ Len(f) = IF 1 <= k THEN k - 1 + 1 ELSE 0
        /\ \A i \in 1..(k - 1 + 1) : f[i] = l[1 + i - 1]
    BY <1>1, <2>1, PartType
  <2> HIDE DEF f
  <2>3. Len(f) = k
    BY <2>1, <2>2
  <2>4. ASSUME NEW i \in 1..k PROVE f[i] = l[i]
    <3>1. i \in 1..(k - 1 + 1) /\ 1 + i - 1 = i
      BY <2>1
    <3>2. QED
      BY <2>2, <3>1
  <2>5. QED
    BY <2>1, <2>2, <2>3, <2>4
<1> HIDE DEF f
<1>3. /\ s \in Seq(Node) /\ Len(s) = k
      /\ \A i \in 1..k : s[i] = l[i].node
  <2>1. s \in Seq(Node) /\ Len(s) = Len(f) /\ \A i \in 1..Len(f) : s[i] = f[i].node
    BY <1>2, NodesType
  <2>2. QED
    BY <1>2, <2>1
<1>4. /\ t \in Seq(Node) /\ Len(t) = Len(l) - k
      /\ \A i \in 1..(Len(l) - k) : t[i] = l[k + i].node
  <2>1. t \in Seq(Node) /\ Len(t) = Len(m) /\ \A i \in 1..Len(m) : t[i] = m[i].node
    BY <1>1, NodesType
  <2>2. QED
    BY <1>1, <2>1
<1>5. /\ u \in Seq(Node) /\ Len(u) = Len(l)
      /\ \A i \in 1..Len(l) : u[i] = l[i].node
  BY NodesType
<1> HIDE DEF s, t, u
<1>6. u = s \o t
  <2>1. /\ s \o t \in Seq(Node) /\ Len(s \o t) = Len(s) + Len(t)
        /\ \A i \in 1..Len(s) + Len(t) : (s \o t)[i] = IF i <= Len(s) THEN s[i] ELSE t[i - Len(s)]
    BY <1>3, <1>4, ConcatProperties
  <2>2. Len(u) = Len(s \o t)
    BY <1>1, <1>2, <1>3, <1>4, <1>5, <2>1
  <2>3. ASSUME NEW i \in 1..Len(u) PROVE u[i] = (s \o t)[i]
    <3>1. i \in 1..Len(l) /\ i \in 1..Len(s) + Len(t)
      BY <1>2, <1>3, <1>4, <1>5
    <3>2. CASE i <= k
      <4>1. i \in 1..k
        BY <1>2, <3>1, <3>2
      <4>2. QED
        BY <1>3, <1>5, <2>1, <3>1, <3>2, <4>1
    <3>3. CASE ~(i <= k)
      <4>1. i - k \in 1..(Len(l) - k) /\ k + (i - k) = i
        BY <1>2, <3>1, <3>3
      <4>2. t[i - k] = l[i].node
        BY <1>4, <4>1
      <4>3. QED
        BY <1>3, <1>5, <2>1, <3>1, <3>3, <4>2
    <3>4. QED
      BY <3>2, <3>3
  <2>4. QED
    BY <1>5, <2>1, <2>2, <2>3, SeqEqual
<1>7. IsInjective(u)
  BY DEF u
<1>8. /\ IsInjective(s) /\ IsInjective(t) /\ ToSet(s) \cap ToSet(t) = {}
      /\ ToSet(u) = ToSet(s) \cup ToSet(t)
  <2>1. ToSet(u) = ToSet(s) \cup ToSet(t)
    BY <1>3, <1>4, <1>6, SetOfConcat
  <2>2. QED
    BY <1>3, <1>4, <1>6, <1>7, <2>1, ApartConcat
<1> DEFINE r == Reverse(s)
<1>9. r \in Seq(Node) /\ IsInjective(r) /\ ToSet(r) = ToSet(s)
  BY <1>3, <1>8, ApartReverse
<1>10. g = r \o free
  BY DEF Reclaimed, s, f, k
<1> HIDE DEF r
<1>11. ToSet(free) \cap ToSet(u) = {}
  BY DEF u
<1>12. g \in Seq(Node) /\ ToSet(g) = ToSet(s) \cup ToSet(free)
  BY <1>9, <1>10, SetOfConcat, ConcatProperties
<1>13. IsInjective(g)
  BY <1>8, <1>9, <1>10, <1>11, ApartConcat
<1>14. /\ ToSet(g) \cap ToSet(t) = {} /\ ToSet(g) \subseteq ToSet(free) \cup ToSet(u)
       /\ ToSet(t) \subseteq ToSet(u)
  BY <1>8, <1>11, <1>12
<1>15. QED
  BY <1>8, <1>12, <1>13, <1>14 DEF t, u

(* buffer_next gives a header that is nowhere else.                        *)
LEMMA GetsNew ==
  ASSUME NEW n \in Node, Gets(n), free \in Seq(Node), IsInjective(free)
  PROVE  /\ free' \in Seq(Node) /\ IsInjective(free') /\ n \notin ToSet(free')
         /\ ToSet(free') \subseteq ToSet(free)
         /\ n \in ToSet(free) \/ n \notin InUse
<1>1. CASE free = <<>>
  <2>1. n \in Node \ InUse /\ free' = free
    BY <1>1 DEF Gets
  <2>2. ToSet(free) \subseteq InUse
    BY DEF InUse
  <2>3. QED
    BY <2>1, <2>2
<1>2. CASE free # <<>>
  <2> DEFINE s == <<Head(free)>>
             t == Tail(free)
  <2>1. n = Head(free) /\ free' = t
    BY <1>2 DEF Gets
  <2>2. t \in Seq(Node) /\ s \in Seq(Node)
    BY <1>2
  <2>3. free = s \o t
    BY <1>2
  <2>4. IsInjective(t) /\ ToSet(s) \cap ToSet(t) = {}
    <3> HIDE DEF s, t
    <3>1. QED
      BY <2>2, <2>3, ApartConcat
  <2>5. ToSet(free) = ToSet(s) \cup ToSet(t)
    <3> HIDE DEF s, t
    <3>1. QED
      BY <2>2, <2>3, SetOfConcat
  <2>6. ToSet(s) = {n}
    BY <2>1, ApartOne
  <2>7. QED
    BY <2>1, <2>2, <2>4, <2>5, <2>6
<1>3. QED
  BY <1>1, <1>2

-----------------------------------------------------------------------------
(* The inductive invariant.                                                *)
Sessions == [bound : BOOLEAN, alive : BOOLEAN, rio : BOOLEAN, wio : BOOLEAN,
             threshold : MinBuffer..MaxBuffer, max : Maxes \cup {0},
             inTotal : Nat, outTotal : Nat]
Pasts == [full : BOOLEAN, empty : BOOLEAN, overtaken : BOOLEAN,
          paused : {"no", "partial", "disabled"}]

Typed ==
  /\ ses \in Sessions
  /\ in \in Seq(Buf) /\ out \in Seq(Buf) /\ rdb \in Seq(Buf)
  /\ free \in Seq(Node) /\ room \in 0..MaxBuffer
  /\ net \in [bytes : Seq(Nat), gone : BOOLEAN]
  /\ arrived \in 0..Len(Text) /\ written \in 0..MaxOut
  /\ got \in Seq(Nat) /\ wire \in Seq(Nat)
  /\ past \in Pasts

(* Only a bound session waits for input. A read is of one buffer, on a     *)
(* bound session, and that buffer is unread; an unbound session has none.  *)
Lists ==
  /\ ses.rio => ses.bound
  /\ rdb # <<>> => ses.bound /\ rdb = <<rdb[1]>> /\ rdb[1].rpos = 0
  /\ ~ses.bound => in = <<>> /\ out = <<>>

(* NodesApart, taken apart.                                                *)
Apart4(a, b, c, d) ==
  /\ IsInjective(a) /\ IsInjective(b) /\ IsInjective(c) /\ IsInjective(d)
  /\ ToSet(a) \cap ToSet(b) = {} /\ ToSet(a) \cap ToSet(c) = {}
  /\ ToSet(a) \cap ToSet(d) = {} /\ ToSet(b) \cap ToSet(c) = {}
  /\ ToSet(b) \cap ToSet(d) = {} /\ ToSet(c) \cap ToSet(d) = {}
Headers == Apart4(free, Nodes(in), Nodes(out), Nodes(rdb))

(* What DeadCause rests on: only a full buffer leaves a read no room, and  *)
(* an empty buffer in the output was written as such.                      *)
Causes ==
  /\ DeadCause
  /\ rdb # <<>> /\ room = 0 => past.full
  /\ past.empty \/ NoEmpty(out)

(* All that has arrived is returned, in the input, in the buffer of the    *)
(* read or on the connection, in this order; of the input only the first   *)
(* buffer is read in part.                                                 *)
Arrivals == got \o (Contents(in) \o (Contents(rdb) \o net.bytes))
InputSound ==
  /\ ses.bound => Arrivals = Numbers(0, arrived)
  /\ got = Numbers(0, Len(got))
  /\ \A i \in 1..Len(in) : i # 1 => in[i].rpos = 0

IInv ==
  /\ Typed /\ Lists /\ Headers /\ Accounted
  /\ OutputKept /\ OutputWaits /\ Causes /\ InputSound

LEMMA HeadersIs ==
  ASSUME Typed
  PROVE  NodesApart <=> Headers
<1> DEFINE a == free
           b == Nodes(in)
           c == Nodes(out)
           d == Nodes(rdb)
<1>1. a \in Seq(Node) /\ b \in Seq(Node) /\ c \in Seq(Node) /\ d \in Seq(Node)
  BY NodesType DEF Typed
<1> HIDE DEF a, b, c, d
<1>2. a \o b \in Seq(Node) /\ (a \o b) \o c \in Seq(Node)
  BY <1>1, ConcatProperties
<1>3. ToSet(a \o b) = ToSet(a) \cup ToSet(b)
      /\ ToSet((a \o b) \o c) = ToSet(a \o b) \cup ToSet(c)
  BY <1>1, <1>2, SetOfConcat
<1>4. IsInjective(a \o b) <=> IsInjective(a) /\ IsInjective(b) /\ ToSet(a) \cap ToSet(b) = {}
  BY <1>1, ApartConcat
<1>5. IsInjective((a \o b) \o c) <=>
        IsInjective(a \o b) /\ IsInjective(c) /\ ToSet(a \o b) \cap ToSet(c) = {}
  BY <1>1, <1>2, ApartConcat
<1>6. IsInjective(((a \o b) \o c) \o d) <=>
        IsInjective((a \o b) \o c) /\ IsInjective(d) /\ ToSet((a \o b) \o c) \cap ToSet(d) = {}
  BY <1>1, <1>2, ApartConcat
<1>7. IsInjective(((a \o b) \o c) \o d) <=> Apart4(a, b, c, d)
  BY <1>3, <1>4, <1>5, <1>6 DEF Apart4
<1>8. NodesApart <=> IsInjective(((a \o b) \o c) \o d)
  BY DEF NodesApart, a, b, c, d
<1>9. QED
  BY <1>7, <1>8 DEF Headers, a, b, c, d

LEMMA NumbersIs ==
  ASSUME NEW a \in Nat, NEW n \in Nat
  PROVE  /\ Numbers(a, n) \in Seq(Nat) /\ Len(Numbers(a, n)) = n
         /\ \A i \in 1..n : Numbers(a, n)[i] = a + i
<1>1. \A i \in 1..n : a + i \in Nat
  OBVIOUS
<1>2. Numbers(a, n) = [i \in 1..n |-> a + i]
  BY DEF Numbers
<1>3. QED
  BY <1>1, <1>2

LEMMA BufferIs ==
  ASSUME NEW n \in Node, NEW bytes \in Seq(Nat), NEW r \in 0..Len(bytes)
  PROVE  /\ Buffer(n, bytes, r) \in Buf
         /\ Buffer(n, bytes, r).node = n /\ Buffer(n, bytes, r).rpos = r
         /\ Buffer(n, bytes, r).bytes = bytes
         /\ LeftOf(Buffer(n, bytes, r)) = SubSeq(bytes, r + 1, Len(bytes))
         /\ Len(LeftOf(Buffer(n, bytes, r))) = Len(bytes) - r
         /\ r = 0 => LeftOf(Buffer(n, bytes, r)) = bytes
<1> DEFINE b == Buffer(n, bytes, r)
<1>1. b = [node |-> n, bytes |-> bytes, rpos |-> r]
  BY DEF Buffer
<1>2. b.node = n /\ b.rpos = r /\ b.bytes = bytes
  BY <1>1
<1>3. r \in Nat /\ r <= Len(bytes) /\ Len(bytes) \in Nat
  OBVIOUS
<1>4. b \in Buffers
  BY <1>1, <1>3 DEF Buffers
<1>5. b \in Buf
  BY <1>2, <1>3, <1>4 DEF Buf
<1> HIDE DEF b
<1>6. LeftOf(b) = SubSeq(bytes, r + 1, Len(bytes))
  BY <1>2 DEF LeftOf
<1>7. Len(LeftOf(b)) = Len(bytes) - r
  BY <1>2, <1>5, LeftType
<1>8. r = 0 => LeftOf(b) = bytes
  <2>1. SUFFICES ASSUME r = 0 PROVE SubSeq(bytes, r + 1, Len(bytes)) = bytes
    BY <1>6
  <2>2. r + 1 = 1
    BY <2>1
  <2>3. QED
    BY <2>2, SubSeqFull
<1>9. QED
  BY <1>2, <1>5, <1>6, <1>7, <1>8 DEF b

-----------------------------------------------------------------------------
(* What the compound steps do.                                             *)

(* The buffer of a read joins the input.                                   *)
LEMMA EndReadIs ==
  ASSUME Typed, Lists, Headers, InputSound, rdb # <<>>, NEW s \in Sessions,
         NEW bytes \in Seq(Nat), EndRead(s, bytes)
  PROVE  /\ in' \in Seq(Buf) /\ rdb' = <<>> /\ room' = 0
         /\ Contents(in') = Contents(in) \o bytes
         /\ IsInjective(Nodes(in'))
         /\ ToSet(Nodes(in')) = ToSet(Nodes(in)) \cup ToSet(Nodes(rdb))
         /\ ToSet(Nodes(rdb')) = {} /\ IsInjective(Nodes(rdb'))
         /\ \A i \in 1..Len(in') : i # 1 => in'[i].rpos = 0
         /\ ses' \in Sessions /\ ses'.inTotal = s.inTotal + Len(bytes)
         /\ ses'.bound = s.bound /\ ses'.alive = s.alive /\ ses'.wio = s.wio /\ ses'.rio = s.rio
         /\ ses'.outTotal = s.outTotal
<1> DEFINE n == rdb[1].node
           b == Buffer(n, bytes, 0)
<1>1. /\ in \in Seq(Buf) /\ rdb \in Seq(Buf)
      /\ rdb = <<rdb[1]>>
  BY DEF Typed, Lists
<1>2. rdb[1] \in Buf
  BY <1>1
<1>3. n \in Node /\ Nodes(rdb) = <<n>>
  <2>1. n \in Node
    BY <1>2, LeftType
  <2>2. Len(rdb) = 1 /\ DOMAIN rdb = {1}
    BY <1>1
  <2>3. Nodes(rdb) = [i \in {1} |-> n]
    BY <2>2 DEF Nodes
  <2>4. QED
    BY <2>1, <2>3
<1>4. in' = Append(in, b) /\ rdb' = <<>> /\ room' = 0
      /\ ses' = [s EXCEPT !.inTotal = s.inTotal + Len(bytes)]
  BY DEF EndRead
<1> HIDE DEF n
<1>5. b \in Buf /\ b.node = n /\ b.rpos = 0 /\ LeftOf(b) = bytes
  <2>1. 0 \in 0..Len(bytes)
    OBVIOUS
  <2>2. QED
    BY <1>3, <2>1, BufferIs
<1> HIDE DEF b
<1>6. in' \in Seq(Buf) /\ Len(in') = Len(in) + 1 /\ Len(in) \in Nat /\ in'[Len(in) + 1] = b
      /\ \A i \in 1..Len(in) : in'[i] = in[i]
  BY <1>1, <1>4, <1>5
<1>7. Contents(in') = Contents(in) \o bytes
  BY <1>1, <1>4, <1>5, ContentsAppend
<1>8. ToSet(Nodes(rdb)) = {n}
  BY <1>3, ApartOne
<1>9. IsInjective(Nodes(in')) /\ ToSet(Nodes(in')) = ToSet(Nodes(in)) \cup ToSet(Nodes(rdb))
  <2>1. IsInjective(Nodes(in)) /\ n \notin ToSet(Nodes(in))
    BY <1>8 DEF Headers, Apart4
  <2>2. QED
    BY <1>1, <1>4, <1>5, <1>8, <2>1, NodesAppend
<1>10. ToSet(Nodes(rdb')) = {} /\ IsInjective(Nodes(rdb'))
  <2>1. IsInjective(<<>>)
    BY DEF IsInjective
  <2>2. QED
    BY <1>4, <2>1, NodesEmpty, Zenon
<1>11. ASSUME NEW i \in 1..Len(in'), i # 1 PROVE in'[i].rpos = 0
  <2>1. CASE i = Len(in) + 1
    BY <1>5, <1>6, <2>1
  <2>2. CASE i # Len(in) + 1
    <3>1. i \in 1..Len(in)
      BY <1>6, <2>2
    <3>2. QED
      BY <1>6, <1>11, <3>1 DEF InputSound
  <2>3. QED
    BY <2>1, <2>2
<1>12. /\ ses' \in Sessions /\ ses'.inTotal = s.inTotal + Len(bytes)
       /\ ses'.bound = s.bound /\ ses'.alive = s.alive /\ ses'.wio = s.wio /\ ses'.rio = s.rio
       /\ ses'.outTotal = s.outTotal
  <2>1. Len(bytes) \in Nat /\ s.inTotal \in Nat
    BY DEF Sessions
  <2> DEFINE k == s.inTotal + Len(bytes)
  <2>2. k \in Nat /\ ses' = [s EXCEPT !.inTotal = k]
    BY <1>4, <2>1
  <2> HIDE DEF k
  <2>3. ses' \in Sessions
    BY <2>2 DEF Sessions
  <2>4. /\ ses'.inTotal = k
        /\ ses'.bound = s.bound /\ ses'.alive = s.alive /\ ses'.wio = s.wio /\ ses'.rio = s.rio
        /\ ses'.outTotal = s.outTotal
    BY <2>2 DEF Sessions
  <2>5. QED
    BY <2>3, <2>4 DEF k
<1>13. QED
  BY <1>4, <1>6, <1>7, <1>9, <1>10, <1>11, <1>12

(* A buffer joins the output, with a header from the free list.            *)
LEMMA QueueIs ==
  ASSUME Typed, Headers, NEW bytes \in Seq(Nat), NEW r \in 0..Len(bytes), Queue(bytes, r),
         UNCHANGED <<in, rdb>>
  PROVE  /\ out' \in Seq(Buf) /\ free' \in Seq(Node) /\ out' # <<>>
         /\ Contents(out') = Contents(out) \o SubSeq(bytes, r + 1, Len(bytes))
         /\ NoEmpty(out) /\ r < Len(bytes) => NoEmpty(out')
         /\ Headers'
<1>1. PICK n \in Node : Gets(n) /\ out' = Append(out, Buffer(n, bytes, r))
  BY DEF Queue
<1> DEFINE b == Buffer(n, bytes, r)
<1>2. out \in Seq(Buf) /\ free \in Seq(Node) /\ in \in Seq(Buf) /\ rdb \in Seq(Buf)
  BY DEF Typed
<1>3. b \in Buf /\ b.node = n /\ LeftOf(b) = SubSeq(bytes, r + 1, Len(bytes))
      /\ Len(LeftOf(b)) = Len(bytes) - r
  BY BufferIs
<1>4. out' = Append(out, b)
  BY <1>1
<1> HIDE DEF b
<1>5. out' \in Seq(Buf) /\ out' # <<>> /\ Len(out') = Len(out) + 1 /\ Len(out) \in Nat
      /\ out'[Len(out) + 1] = b /\ \A i \in 1..Len(out) : out'[i] = out[i]
  <2>1. out' \in Seq(Buf) /\ Len(out') = Len(out) + 1 /\ Len(out) \in Nat
        /\ out'[Len(out) + 1] = b /\ \A i \in 1..Len(out) : out'[i] = out[i]
    BY <1>2, <1>3, <1>4
  <2>2. out' # <<>>
    BY <2>1
  <2>3. QED
    BY <2>1, <2>2
<1>6. Contents(out') = Contents(out) \o SubSeq(bytes, r + 1, Len(bytes))
  BY <1>2, <1>3, <1>4, ContentsAppend
<1>7. ASSUME NoEmpty(out), r < Len(bytes) PROVE NoEmpty(out')
  <2>1. Len(LeftOf(b)) > 0 /\ LeftOf(b) \in Seq(Nat)
    BY <1>3, <1>7, LeftType
  <2>2. LeftOf(b) # <<>>
    BY <2>1
  <2>3. ASSUME NEW i \in 1..Len(out') PROVE LeftOf(out'[i]) # <<>>
    <3>1. CASE i = Len(out) + 1
      BY <1>5, <2>2, <3>1
    <3>2. CASE i # Len(out) + 1
      <4>1. i \in 1..Len(out)
        BY <1>5, <3>2
      <4>2. QED
        BY <1>5, <1>7, <4>1 DEF NoEmpty
    <3>3. QED
      BY <3>1, <3>2
  <2>4. DOMAIN out' = 1..Len(out')
    BY <1>5
  <2>5. QED
    BY <2>3, <2>4 DEF NoEmpty
<1>8. /\ free' \in Seq(Node) /\ IsInjective(free') /\ n \notin ToSet(free')
      /\ ToSet(free') \subseteq ToSet(free)
      /\ n \in ToSet(free) \/ n \notin InUse
  BY <1>1, <1>2, GetsNew DEF Headers, Apart4
<1>9. n \notin ToSet(Nodes(in)) /\ n \notin ToSet(Nodes(out)) /\ n \notin ToSet(Nodes(rdb))
  BY <1>8 DEF Headers, Apart4, InUse
<1>10. IsInjective(Nodes(out')) /\ ToSet(Nodes(out')) = ToSet(Nodes(out)) \cup {n}
  BY <1>2, <1>3, <1>4, <1>9, NodesAppend DEF Headers, Apart4
<1>11. Headers'
  <2>1. Apart4(free', Nodes(in), Nodes(out'), Nodes(rdb))
    BY <1>8, <1>9, <1>10 DEF Headers, Apart4
  <2>2. in' = in /\ rdb' = rdb
    OBVIOUS
  <2>3. Apart4(free', Nodes(in'), Nodes(out'), Nodes(rdb'))
    BY <2>1, <2>2
  <2>4. QED
    BY <2>3 DEF Headers
<1>12. QED
  BY <1>5, <1>6, <1>7, <1>8, <1>11

LEMMA CutAt ==
  ASSUME NEW c \in Seq(Nat), NEW n \in 0..Len(c)
  PROVE  /\ SubSeq(c, 1, n) \in Seq(Nat) /\ Len(SubSeq(c, 1, n)) = n
         /\ \A i \in 1..n : SubSeq(c, 1, n)[i] = c[i]
         /\ SubSeq(c, n + 1, Len(c)) \in Seq(Nat) /\ Len(SubSeq(c, n + 1, Len(c))) = Len(c) - n
         /\ SubSeq(c, 1, n) \o SubSeq(c, n + 1, Len(c)) = c
<1>1. Len(c) \in Nat /\ 1 \in 1..(Len(c) + 1) /\ n \in 1 - 1..Len(c) /\ Len(c) \in n..Len(c)
      /\ n \in Nat
  OBVIOUS
<1>2. SubSeq(c, 1, n) \o SubSeq(c, n + 1, Len(c)) = SubSeq(c, 1, Len(c))
  BY <1>1, ConcatAdjacentSubSeq
<1>3. SubSeq(c, 1, Len(c)) = c
  BY SubSeqFull
<1> DEFINE v == SubSeq(c, 1, n)
<1>4. /\ v \in Seq(Nat)
      /\ Len(v) = IF 1 <= n THEN n - 1 + 1 ELSE 0
      /\ \A i \in 1..(n - 1 + 1) : v[i] = c[1 + i - 1]
  BY <1>1, PartKind
<1> HIDE DEF v
<1>5. Len(v) = n
  BY <1>1, <1>4
<1>6. ASSUME NEW i \in 1..n PROVE v[i] = c[i]
  <2>1. i \in 1..(n - 1 + 1) /\ 1 + i - 1 = i
    BY <1>1
  <2>2. QED
    BY <1>4, <2>1
<1>7. /\ SubSeq(c, n + 1, Len(c)) \in Seq(Nat) /\ Len(SubSeq(c, n + 1, Len(c))) = Len(c) - n
  BY DropKind
<1>8. v \in Seq(Nat) /\ Len(v) = n /\ \A i \in 1..n : v[i] = c[i]
  BY <1>4, <1>5, <1>6
<1>9. SubSeq(c, 1, n) \in Seq(Nat) /\ Len(SubSeq(c, 1, n)) = n
      /\ \A i \in 1..n : SubSeq(c, 1, n)[i] = c[i]
  BY <1>8, Zenon DEF v
<1>10. QED
  BY <1>2, <1>3, <1>7, <1>9

LEMMA SendsIs ==
  ASSUME Typed, Headers, NEW n \in 0..Len(Contents(out)), Sends(n), UNCHANGED <<in, rdb>>
  PROVE  /\ out' \in Seq(Buf) /\ free' \in Seq(Node) /\ wire' \in Seq(Nat)
         /\ Len(Contents(out')) = Len(Contents(out)) - n
         /\ wire' \o Contents(out') = wire \o Contents(out)
         /\ NoEmpty(out) => NoEmpty(out')
         /\ NoEmpty(out) /\ n = Len(Contents(out)) => out' = <<>>
         /\ out = <<>> => out' = <<>>
         /\ Headers'
<1> DEFINE C == Contents(out)
           p == SubSeq(C, 1, n)
           q == SubSeq(C, n + 1, Len(C))
<1>1. out \in Seq(Buf) /\ free \in Seq(Node) /\ wire \in Seq(Nat)
  BY DEF Typed
<1>2. wire' = wire \o p /\ out' = After(out, n) /\ free' = Reclaimed(out, n)
  BY DEF Sends
<1>3. /\ out' \in Seq(Buf) /\ Len(out') = Len(out) - UsedUp(out, n)
      /\ UsedUp(out, n) \in 0..Len(out)
      /\ Contents(out') = q
      /\ NoEmpty(out) => NoEmpty(out')
  BY <1>1, <1>2, AfterIs
<1>4. C \in Seq(Nat)
  BY <1>1, LeftsType
<1>5. p \in Seq(Nat) /\ q \in Seq(Nat) /\ p \o q = C /\ Len(q) = Len(C) - n
  <2>1. n \in 0..Len(C)
    OBVIOUS
  <2> HIDE DEF C
  <2>2. QED
    BY <1>4, <2>1, CutAt
<1>6. wire' \o Contents(out') = wire \o Contents(out)
  <2> HIDE DEF p, q
  <2>1. (wire \o p) \o q = wire \o (p \o q)
    BY <1>1, <1>5, ConcatThree
  <2>2. QED
    BY <1>2, <1>3, <1>5, <2>1
<1>7. wire' \in Seq(Nat)
  <2> HIDE DEF p, q
  <2>1. QED
    BY <1>1, <1>2, <1>5, ConcatProperties
<1>8. ASSUME NoEmpty(out), n = Len(Contents(out)) PROVE out' = <<>>
  BY <1>1, <1>2, <1>8, AfterAll
<1>9. ASSUME out = <<>> PROVE out' = <<>>
  <2>1. Len(out) = 0
    BY <1>9
  <2>2. Len(out') = 0
    BY <1>3, <2>1
  <2>3. QED
    BY <1>3, <2>2, EmptySeq
<1>10. /\ free' \in Seq(Node) /\ IsInjective(free') /\ IsInjective(Nodes(out'))
       /\ ToSet(free') \cap ToSet(Nodes(out')) = {}
       /\ ToSet(free') \subseteq ToSet(free) \cup ToSet(Nodes(out))
       /\ ToSet(Nodes(out')) \subseteq ToSet(Nodes(out))
  BY <1>1, <1>2, NodesGiven DEF Headers, Apart4
<1>11. Headers'
  <2>1. Apart4(free', Nodes(in), Nodes(out'), Nodes(rdb))
    BY <1>10 DEF Headers, Apart4
  <2>2. in' = in /\ rdb' = rdb
    OBVIOUS
  <2>3. Apart4(free', Nodes(in'), Nodes(out'), Nodes(rdb'))
    BY <2>1, <2>2
  <2>4. QED
    BY <2>3 DEF Headers
<1>12. Len(Contents(out')) = Len(Contents(out)) - n
  BY <1>3, <1>5
<1>13. QED
  BY <1>3, <1>6, <1>7, <1>8, <1>9, <1>10, <1>11, <1>12

LEMMA TakesIs ==
  ASSUME Typed, Headers, InputSound, NEW n \in 0..Len(Contents(in)), Takes(n)
  PROVE  /\ in' \in Seq(Buf) /\ free' \in Seq(Node)
         /\ got' = got \o SubSeq(Contents(in), 1, n)
         /\ got' \in Seq(Nat) /\ Len(got') = Len(got) + n
         /\ Len(Contents(in')) = Len(Contents(in)) - n
         /\ Contents(in) = SubSeq(Contents(in), 1, n) \o Contents(in')
         /\ \A i \in 1..Len(in') : i # 1 => in'[i].rpos = 0
         /\ Headers'
<1> DEFINE C == Contents(in)
           p == SubSeq(C, 1, n)
           q == SubSeq(C, n + 1, Len(C))
           k == UsedUp(in, n)
<1>1. in \in Seq(Buf) /\ free \in Seq(Node) /\ got \in Seq(Nat)
  BY DEF Typed
<1>2. got' = got \o p /\ in' = After(in, n) /\ free' = Reclaimed(in, n)
      /\ out' = out /\ rdb' = rdb
  BY DEF Takes
<1>3. /\ in' \in Seq(Buf) /\ Len(in') = Len(in) - k
      /\ k \in 0..Len(in)
      /\ Contents(in') = q
      /\ \A i \in 1..Len(in') : i # 1 => in'[i] = in[k + i]
  BY <1>1, <1>2, AfterIs
<1>4. C \in Seq(Nat)
  BY <1>1, LeftsType
<1>5. /\ p \in Seq(Nat) /\ q \in Seq(Nat) /\ p \o q = C /\ Len(q) = Len(C) - n
      /\ Len(p) = n
  <2>1. n \in 0..Len(C)
    OBVIOUS
  <2> HIDE DEF C
  <2>2. QED
    BY <1>4, <2>1, CutAt
<1>6. got' \in Seq(Nat) /\ Len(got') = Len(got) + n
  <2> HIDE DEF p
  <2>1. QED
    BY <1>1, <1>2, <1>5, ConcatProperties
<1>7. ASSUME NEW i \in 1..Len(in'), i # 1 PROVE in'[i].rpos = 0
  <2> HIDE DEF k
  <2>1. k + i \in 1..Len(in) /\ k + i # 1
    BY <1>1, <1>3, <1>7
  <2>2. QED
    BY <1>3, <1>7, <2>1 DEF InputSound
<1>8. /\ free' \in Seq(Node) /\ IsInjective(free') /\ IsInjective(Nodes(in'))
      /\ ToSet(free') \cap ToSet(Nodes(in')) = {}
      /\ ToSet(free') \subseteq ToSet(free) \cup ToSet(Nodes(in))
      /\ ToSet(Nodes(in')) \subseteq ToSet(Nodes(in))
  BY <1>1, <1>2, NodesGiven DEF Headers, Apart4
<1>9. Headers'
  <2>1. Apart4(free', Nodes(in'), Nodes(out), Nodes(rdb))
    BY <1>8 DEF Headers, Apart4
  <2>2. Apart4(free', Nodes(in'), Nodes(out'), Nodes(rdb'))
    BY <1>2, <2>1
  <2>3. QED
    BY <2>2 DEF Headers
<1>10. Len(Contents(in')) = Len(Contents(in)) - n
       /\ Contents(in) = SubSeq(Contents(in), 1, n) \o Contents(in')
  BY <1>3, <1>5
<1>11. QED
  BY <1>2, <1>3, <1>6, <1>7, <1>8, <1>9, <1>10

(* _ev_read_cb takes a header for its buffer.                              *)
LEMMA StartReadIs ==
  ASSUME Typed, Headers, StartRead
  PROVE  /\ rdb' \in Seq(Buf) /\ rdb' = <<rdb'[1]>> /\ rdb'[1].rpos = 0
         /\ free' \in Seq(Node) /\ room' = ses.threshold
         /\ Contents(rdb') = <<>> /\ rdb = <<>> /\ Headers'
<1>1. PICK n \in Node : Gets(n) /\ rdb' = <<Buffer(n, <<>>, 0)>>
  BY DEF StartRead
<1> DEFINE b == Buffer(n, <<>>, 0)
<1>2. free \in Seq(Node) /\ rdb = <<>> /\ in' = in /\ out' = out /\ room' = ses.threshold
  BY DEF Typed, StartRead
<1>3. b \in Buf /\ b.node = n /\ b.rpos = 0 /\ LeftOf(b) = <<>>
  <2> DEFINE e == <<>>
  <2>1. e \in Seq(Nat) /\ 0 \in 0..Len(e)
    OBVIOUS
  <2> HIDE DEF e
  <2>2. /\ Buffer(n, e, 0) \in Buf
        /\ Buffer(n, e, 0).node = n /\ Buffer(n, e, 0).rpos = 0
        /\ LeftOf(Buffer(n, e, 0)) = e
    BY <2>1, BufferIs
  <2>3. QED
    BY <2>2 DEF e
<1>4. rdb' = <<b>>
  BY <1>1
<1> HIDE DEF b
<1>5. rdb' \in Seq(Buf) /\ rdb' = <<rdb'[1]>> /\ rdb'[1].rpos = 0
  BY <1>3, <1>4
<1>6. Contents(rdb') = <<>>
  BY <1>3, <1>4, ContentsOne
<1>7. /\ free' \in Seq(Node) /\ IsInjective(free') /\ n \notin ToSet(free')
      /\ ToSet(free') \subseteq ToSet(free)
      /\ n \in ToSet(free) \/ n \notin InUse
  BY <1>1, <1>2, GetsNew DEF Headers, Apart4
<1>8. n \notin ToSet(Nodes(in)) /\ n \notin ToSet(Nodes(out))
  BY <1>7 DEF Headers, Apart4, InUse
<1>9. Nodes(rdb') = <<n>>
  <2>1. DOMAIN rdb' = {1} /\ rdb'[1] = b
    BY <1>4
  <2>2. Nodes(rdb') = [i \in {1} |-> n]
    BY <1>3, <2>1 DEF Nodes
  <2>3. QED
    BY <2>2
<1>10. IsInjective(Nodes(rdb')) /\ ToSet(Nodes(rdb')) = {n}
  BY <1>9, ApartOne
<1>11. Headers'
  <2>1. Apart4(free', Nodes(in), Nodes(out), Nodes(rdb'))
    BY <1>7, <1>8, <1>10 DEF Headers, Apart4
  <2>2. Apart4(free', Nodes(in'), Nodes(out'), Nodes(rdb'))
    BY <1>2, <2>1
  <2>3. QED
    BY <2>2 DEF Headers
<1>12. QED
  BY <1>2, <1>5, <1>6, <1>7, <1>11

LEMMA AdaptedIs ==
  ASSUME Typed, NEW full \in BOOLEAN
  PROVE  Adapted(full) \in MinBuffer..MaxBuffer
<1> DEFINE t == ses.threshold
<1>1. t \in MinBuffer..MaxBuffer
  BY DEF Typed, Sessions
<1>2. MinBuffer \in Nat \ {0} /\ MaxBuffer \in Nat /\ MinBuffer <= MaxBuffer
  BY SocketSessionAssumption
<1>3. Adapted(full) = IF full THEN IF 2 * t > MaxBuffer THEN MaxBuffer ELSE 2 * t
                      ELSE IF t \div 2 < MinBuffer THEN MinBuffer ELSE t \div 2
  BY DEF Adapted
<1> HIDE DEF t
<1>4. t \div 2 \in Nat /\ t \div 2 <= t
  BY <1>1, <1>2
<1>5. QED
  BY <1>1, <1>2, <1>3, <1>4

(* One read of _ev_read_cb: n bytes join what the buffer holds.            *)
LEMMA ReadSomeIs ==
  ASSUME Typed, Lists, ReadSome
  PROVE  \E n \in 1..Len(net.bytes), bytes \in Seq(Nat), s \in Sessions :
           /\ n <= room /\ bytes = Contents(rdb) \o SubSeq(net.bytes, 1, n)
           /\ net' = [net EXCEPT !.bytes = SubSeq(net.bytes, n + 1, Len(net.bytes))]
           /\ past' = [past EXCEPT !.full = past.full \/ n = room]
           /\ s.bound = ses.bound /\ s.alive = ses.alive /\ s.wio = ses.wio /\ s.rio = ses.rio
           /\ s.inTotal = ses.inTotal /\ s.outTotal = ses.outTotal
           /\ \/ EndRead(s, bytes)
              \/ /\ rdb' = <<Buffer(rdb[1].node, bytes, 0)>> /\ room' = room - n
                 /\ ses' = s /\ in' = in
<1> DEFINE N == net.bytes
           n == IF Len(N) < room THEN Len(N) ELSE room
           bytes == rdb[1].bytes \o SubSeq(N, 1, n)
           s == [ses EXCEPT !.threshold = Adapted(n = room)]
<1>1. /\ rdb # <<>> /\ room > 0 /\ N # <<>>
      /\ net' = [net EXCEPT !.bytes = SubSeq(@, n + 1, Len(@))]
      /\ past' = [past EXCEPT !.full = @ \/ n = room]
      /\ \/ EndRead(s, bytes)
         \/ /\ rdb' = <<Buffer(rdb[1].node, bytes, 0)>> /\ room' = room - n
            /\ ses' = s /\ in' = in
  BY DEF ReadSome
<1>2. N \in Seq(Nat) /\ room \in Nat /\ rdb \in Seq(Buf) /\ ses \in Sessions
  BY SocketSessionAssumption DEF Typed
<1>3. n \in 1..Len(N) /\ n <= room
  <2>1. Len(N) \in Nat /\ Len(N) > 0
    BY <1>1, <1>2, EmptySeq
  <2>2. QED
    BY <1>1, <1>2, <2>1
<1>4. rdb[1].bytes = Contents(rdb) /\ rdb[1].bytes \in Seq(Nat)
  <2> DEFINE b == rdb[1]
  <2>1. b \in Buf /\ b.rpos = 0 /\ rdb = <<b>>
    BY <1>1, <1>2 DEF Lists
  <2> HIDE DEF b
  <2>2. Contents(rdb) = LeftOf(b) /\ b.bytes \in Seq(Nat)
    BY <2>1, ContentsOne, LeftType
  <2>3. LeftOf(b) = SubSeq(b.bytes, 0 + 1, Len(b.bytes))
    BY <2>1 DEF LeftOf
  <2>4. LeftOf(b) = b.bytes
    BY <2>2, <2>3, SubSeqFull
  <2>5. QED
    BY <2>2, <2>4 DEF b
<1>5. bytes \in Seq(Nat) /\ bytes = Contents(rdb) \o SubSeq(N, 1, n)
  <2>1. SubSeq(N, 1, n) \in Seq(Nat)
    <3>1. n \in 0..Len(N)
      BY <1>3
    <3> HIDE DEF n, N
    <3>2. QED
      BY <1>2, <3>1, CutAt
  <2> DEFINE v == SubSeq(N, 1, n)
  <2> HIDE DEF v
  <2>2. rdb[1].bytes \o v \in Seq(Nat)
    BY <1>4, <2>1, ConcatProperties DEF v
  <2>3. QED
    BY <1>4, <2>2 DEF v
<1>6. /\ s \in Sessions
      /\ s.bound = ses.bound /\ s.alive = ses.alive /\ s.wio = ses.wio /\ s.rio = ses.rio
      /\ s.inTotal = ses.inTotal /\ s.outTotal = ses.outTotal
  <2> DEFINE t == Adapted(n = room)
  <2>1. t \in MinBuffer..MaxBuffer
    <3>1. (n = room) \in BOOLEAN
      OBVIOUS
    <3>2. QED
      BY <3>1, AdaptedIs
  <2>2. s = [ses EXCEPT !.threshold = t]
    OBVIOUS
  <2> HIDE DEF t, n, s
  <2>3. s \in Sessions
    BY <1>2, <2>1, <2>2 DEF Sessions
  <2>4. /\ s.bound = ses.bound /\ s.alive = ses.alive /\ s.wio = ses.wio /\ s.rio = ses.rio
        /\ s.inTotal = ses.inTotal /\ s.outTotal = ses.outTotal
    BY <1>2, <2>2 DEF Sessions
  <2>5. QED
    BY <2>3, <2>4
<1> HIDE DEF n, bytes, s
<1>7. /\ net' = [net EXCEPT !.bytes = SubSeq(N, n + 1, Len(N))]
      /\ past' = [past EXCEPT !.full = past.full \/ n = room]
  BY <1>1
<1>8. QED
  BY <1>1, <1>3, <1>5, <1>6, <1>7, Zenon

-----------------------------------------------------------------------------
(* What a step that leaves a part of the invariant alone need not do.      *)

LEMMA HeadersSame ==
  ASSUME Headers, UNCHANGED <<free, in, out, rdb>>
  PROVE  Headers'
BY DEF Headers

LEMMA AccountedSame ==
  ASSUME Accounted, UNCHANGED <<in, out>>,
         ses'.inTotal = ses.inTotal, ses'.outTotal = ses.outTotal
  PROVE  Accounted'
BY DEF Accounted

LEMMA KeptSame ==
  ASSUME OutputKept, UNCHANGED <<out, wire, written>>, ses'.alive => ses.alive,
         past'.overtaken = past.overtaken
  PROVE  OutputKept'
BY DEF OutputKept

LEMMA WaitsSame ==
  ASSUME OutputWaits, out' = out, ses'.alive => ses.alive, ses.wio => ses'.wio,
         past'.paused = past.paused
  PROVE  OutputWaits'
BY DEF OutputWaits

LEMMA CausesSame ==
  ASSUME Causes, ses'.bound /\ ~ses'.alive => ses.bound /\ ~ses.alive,
         net.gone => net'.gone, past.full => past'.full, past.empty => past'.empty,
         rdb' # <<>> /\ room' = 0 => rdb # <<>> /\ room = 0, out' = out
  PROVE  Causes'
BY DEF Causes, DeadCause

LEMMA InputSame ==
  ASSUME InputSound, UNCHANGED <<got, in, rdb, arrived>>, net'.bytes = net.bytes,
         ses'.bound = ses.bound
  PROVE  InputSound'
BY DEF InputSound, Arrivals

LEMMA AppendLast ==
  ASSUME NEW a \in Seq(Nat), NEW b \in Seq(Nat), NEW x \in Nat
  PROVE  a \o Append(b, x) = Append(a \o b, x)
<1> DEFINE e == <<x>>
<1>1. e \in Seq(Nat) /\ Append(b, x) = b \o e
  BY AppendIsConcat
<1>2. a \o b \in Seq(Nat)
  BY ConcatProperties
<1>3. Append(a \o b, x) = (a \o b) \o e
  BY <1>2, AppendIsConcat
<1> HIDE DEF e
<1>4. (a \o b) \o e = a \o (b \o e)
  BY <1>1, ConcatThree
<1>5. QED
  BY <1>1, <1>3, <1>4

LEMMA NumbersNext ==
  ASSUME NEW k \in Nat
  PROVE  Append(Numbers(0, k), k + 1) = Numbers(0, k + 1)
<1> DEFINE a == Numbers(0, k)
           b == Append(a, k + 1)
           c == Numbers(0, k + 1)
<1>1. a \in Seq(Nat) /\ Len(a) = k /\ \A i \in 1..k : a[i] = 0 + i
  BY NumbersIs
<1>2. c \in Seq(Nat) /\ Len(c) = k + 1 /\ \A i \in 1..(k + 1) : c[i] = 0 + i
  <2> DEFINE m == k + 1
  <2>1. 0 \in Nat /\ m \in Nat
    OBVIOUS
  <2> HIDE DEF m
  <2>2. /\ Numbers(0, m) \in Seq(Nat) /\ Len(Numbers(0, m)) = m
        /\ \A i \in 1..m : Numbers(0, m)[i] = 0 + i
    BY <2>1, NumbersIs
  <2>3. QED
    BY <2>2, Zenon DEF m
<1> HIDE DEF a, c
<1>3. b \in Seq(Nat) /\ Len(b) = k + 1 /\ b[k + 1] = k + 1 /\ \A i \in 1..k : b[i] = a[i]
  BY <1>1, AppendProperties
<1> HIDE DEF b
<1>4. ASSUME NEW i \in 1..Len(b) PROVE b[i] = c[i]
  <2>1. i = k + 1 \/ i \in 1..k
    BY <1>3
  <2>2. i \in 1..(k + 1) /\ i \in Nat
    BY <1>3
  <2>3. c[i] = i
    BY <1>2, <2>2
  <2>4. CASE i = k + 1
    BY <1>3, <2>3, <2>4
  <2>5. CASE i \in 1..k
    BY <1>1, <1>3, <2>3, <2>5
  <2>6. QED
    BY <2>1, <2>4, <2>5
<1>5. QED
  BY <1>2, <1>3, <1>4, SeqEqual DEF a, b, c

LEMMA InitKept ==
  ASSUME Init
  PROVE  IInv
<1> USE SocketSessionAssumption
<1>1. /\ ses = NoSession /\ in = <<>> /\ out = <<>> /\ free = <<>> /\ rdb = <<>>
      /\ room = 0 /\ net = [bytes |-> <<>>, gone |-> FALSE]
      /\ arrived = 0 /\ got = <<>> /\ written = 0 /\ wire = <<>> /\ past = CleanPast
  BY DEF Init
<1>2. /\ ses \in Sessions /\ ~ses.bound /\ ~ses.alive /\ ses.inTotal = 0 /\ ses.outTotal = 0
      /\ ~ses.rio
  BY <1>1 DEF Sessions, NoSession
<1>3. past \in Pasts
  BY <1>1 DEF Pasts, CleanPast
<1>4. Typed
  <2>1. Len(Text) \in Nat
    OBVIOUS
  <2>2. /\ in \in Seq(Buf) /\ out \in Seq(Buf) /\ rdb \in Seq(Buf) /\ free \in Seq(Node)
        /\ got \in Seq(Nat) /\ wire \in Seq(Nat)
    BY <1>1
  <2>3. net \in [bytes : Seq(Nat), gone : BOOLEAN]
    BY <1>1
  <2>4. QED
    BY <1>1, <1>2, <1>3, <2>1, <2>2, <2>3 DEF Typed
<1>5. Lists
  BY <1>1, <1>2 DEF Lists
<1>6. Headers
  <2>1. IsInjective(<<>>) /\ ToSet(<<>>) = {}
    BY DEF IsInjective, ToSet
  <2>2. Apart4(<<>>, Nodes(<<>>), Nodes(<<>>), Nodes(<<>>))
    BY <2>1, NodesEmpty DEF Apart4
  <2>3. QED
    BY <1>1, <2>2, Zenon DEF Headers
<1>7. Contents(in) = <<>> /\ Contents(out) = <<>>
  BY <1>1, ContentsEmpty, Zenon
<1>8. Accounted
  BY <1>2, <1>7 DEF Accounted
<1>9. OutputKept /\ OutputWaits
  BY <1>2 DEF OutputKept, OutputWaits
<1>10. Causes
  <2>1. NoEmpty(<<>>)
    BY DEF NoEmpty
  <2>2. NoEmpty(out)
    BY <1>1, <2>1, Zenon
  <2>3. QED
    BY <1>1, <1>2, <2>2 DEF Causes, DeadCause
<1>11. InputSound
  <2>1. Numbers(0, 0) \in Seq(Nat) /\ Len(Numbers(0, 0)) = 0
    BY NumbersIs
  <2>2. Numbers(0, 0) = <<>>
    BY <2>1, EmptySeq
  <2>3. Len(got) = 0 /\ Len(in) = 0
    BY <1>1
  <2>4. got = Numbers(0, Len(got))
    BY <1>1, <2>2, <2>3
  <2>5. QED
    BY <1>2, <2>3, <2>4 DEF InputSound
<1>12. QED
  BY <1>4, <1>5, <1>6, <1>8, <1>9, <1>10, <1>11 DEF IInv

-----------------------------------------------------------------------------
(* One lemma for each step.                                                *)

LEMMA ArriveKeeps ==
  ASSUME IInv, Arrive
  PROVE  IInv'
<1> DEFINE k == arrived + 1
<1>1. /\ Typed /\ Lists /\ Headers /\ Accounted /\ OutputKept /\ OutputWaits /\ Causes
      /\ InputSound
  BY DEF IInv
<1>2. /\ arrived < Len(Text) /\ arrived' = k /\ net' = [net EXCEPT !.bytes = Append(@, k)]
      /\ UNCHANGED <<ses, in, out, free, rdb, room, got, written, wire, past>>
  BY DEF Arrive
<1>3. arrived \in Nat /\ k \in Nat /\ k \in 0..Len(Text)
  BY <1>1, <1>2, SocketSessionAssumption DEF Typed
<1>4. /\ net.bytes \in Seq(Nat) /\ net'.bytes = Append(net.bytes, k) /\ net'.gone = net.gone
      /\ net' \in [bytes : Seq(Nat), gone : BOOLEAN]
  <2> HIDE DEF k
  <2>1. net \in [bytes : Seq(Nat), gone : BOOLEAN]
    BY <1>1 DEF Typed
  <2> DEFINE b == Append(net.bytes, k)
  <2>2. b \in Seq(Nat) /\ net' = [net EXCEPT !.bytes = b]
    BY <1>2, <1>3, <2>1
  <2> HIDE DEF b
  <2>3. net'.bytes = b /\ net'.gone = net.gone /\ net' \in [bytes : Seq(Nat), gone : BOOLEAN]
    BY <2>1, <2>2
  <2>4. QED
    BY <2>1, <2>3 DEF b
<1> HIDE DEF k
<1>5. Typed'
  BY <1>1, <1>2, <1>3, <1>4 DEF Typed
<1>6. Lists' /\ Headers' /\ Accounted' /\ OutputKept' /\ OutputWaits' /\ Causes'
  BY <1>1, <1>2, <1>4, HeadersSame, AccountedSame, KeptSame, WaitsSame, CausesSame DEF Lists
<1>7. InputSound'
  <2> DEFINE a == got
             b == Contents(in)
             c == Contents(rdb)
             d == net.bytes
  <2>1. a \in Seq(Nat) /\ b \in Seq(Nat) /\ c \in Seq(Nat) /\ d \in Seq(Nat)
    BY <1>1, <1>4, LeftsType DEF Typed
  <2> HIDE DEF a, b, c, d
  <2>2. c \o d \in Seq(Nat) /\ b \o (c \o d) \in Seq(Nat)
    BY <2>1, ConcatProperties
  <2>3. a \o (b \o (c \o Append(d, k))) = Append(a \o (b \o (c \o d)), k)
    <3>1. c \o Append(d, k) = Append(c \o d, k)
      BY <1>3, <2>1, AppendLast
    <3>2. b \o Append(c \o d, k) = Append(b \o (c \o d), k)
      BY <1>3, <2>1, <2>2, AppendLast
    <3>3. a \o Append(b \o (c \o d), k) = Append(a \o (b \o (c \o d)), k)
      BY <1>3, <2>1, <2>2, AppendLast
    <3>4. QED
      BY <3>1, <3>2, <3>3
  <2>4. Arrivals' = Append(Arrivals, k)
    BY <1>2, <1>4, <2>3 DEF Arrivals, a, b, c, d
  <2>5. Append(Numbers(0, arrived), k) = Numbers(0, k)
    BY <1>3, NumbersNext DEF k
  <2>6. ses.bound => Arrivals' = Numbers(0, k)
    BY <1>1, <2>4, <2>5 DEF InputSound
  <2>7. QED
    BY <1>1, <1>2, <2>6 DEF InputSound
<1>8. QED
  BY <1>5, <1>6, <1>7 DEF IInv

(* The steps that touch no list: the peer going, events added and deleted, *)
(* a write that fails, and the free list given back.                       *)
Quiet == PeerGone \/ EnableRead \/ EnableWrite \/ DisableRead \/ DisableWrite
           \/ WriteFails \/ Clean

LEMMA QuietIs ==
  ASSUME Typed, Lists, Quiet
  PROVE  /\ UNCHANGED <<in, out, rdb, room, arrived, got, written, wire>>
         /\ free' = free \/ free' = <<>>
         /\ net' \in [bytes : Seq(Nat), gone : BOOLEAN] /\ net'.bytes = net.bytes
         /\ net.gone => net'.gone
         /\ ses' \in Sessions /\ past' \in Pasts
         /\ ses'.bound = ses.bound /\ (ses'.alive => ses.alive) /\ (ses'.rio => ses'.bound)
         /\ ses'.inTotal = ses.inTotal /\ ses'.outTotal = ses.outTotal
         /\ past'.overtaken = past.overtaken /\ past'.full = past.full
         /\ past.empty => past'.empty
         /\ \/ (ses.wio => ses'.wio) /\ past'.paused = past.paused
            \/ ses'.wio \/ ~ses'.alive \/ past'.paused = "disabled"
         /\ ses'.alive = ses.alive \/ net.gone \/ past'.empty
<1>1. ses \in Sessions /\ past \in Pasts /\ net \in [bytes : Seq(Nat), gone : BOOLEAN]
  BY DEF Typed
<1> USE DEF Lists
<1>2. CASE PeerGone
  <2>1. net' = [net EXCEPT !.gone = TRUE]
        /\ UNCHANGED <<ses, in, out, free, rdb, room, history>>
    BY <1>2 DEF PeerGone
  <2>2. net' \in [bytes : Seq(Nat), gone : BOOLEAN] /\ net'.bytes = net.bytes /\ net'.gone
    BY <1>1, <2>1
  <2>3. QED
    BY <1>1, <2>1, <2>2 DEF history
<1>3. CASE EnableRead \/ DisableRead
  <2>1. PICK v \in BOOLEAN : ses' = [ses EXCEPT !.rio = v] /\ (v => ses.bound)
    BY <1>3 DEF EnableRead, DisableRead, UserCode
  <2>2. UNCHANGED <<in, out, free, rdb, room, net, history>>
    BY <1>3 DEF EnableRead, DisableRead
  <2>3. ses' \in Sessions /\ ses'.bound = ses.bound /\ ses'.alive = ses.alive
        /\ ses'.inTotal = ses.inTotal /\ ses'.outTotal = ses.outTotal /\ ses'.wio = ses.wio
        /\ ses'.rio = v
    BY <1>1, <2>1 DEF Sessions
  <2>4. QED
    BY <1>1, <2>1, <2>2, <2>3 DEF history
<1>4. CASE EnableWrite \/ DisableWrite
  <2>1. PICK v \in BOOLEAN, w \in {"no", "disabled"} :
          /\ ses' = [ses EXCEPT !.wio = v] /\ past' = [past EXCEPT !.paused = w]
          /\ v \/ w = "disabled"
    BY <1>4 DEF EnableWrite, DisableWrite
  <2>2. UNCHANGED <<in, out, free, rdb, room, net, arrived, got, written, wire>>
    BY <1>4 DEF EnableWrite, DisableWrite
  <2>3. ses' \in Sessions /\ ses'.bound = ses.bound /\ ses'.alive = ses.alive
        /\ ses'.inTotal = ses.inTotal /\ ses'.outTotal = ses.outTotal /\ ses'.wio = v
        /\ ses'.rio = ses.rio
    BY <1>1, <2>1 DEF Sessions
  <2>4. past' \in Pasts /\ past'.overtaken = past.overtaken /\ past'.full = past.full
        /\ past'.empty = past.empty /\ past'.paused = w
    BY <1>1, <2>1 DEF Pasts
  <2>5. QED
    BY <1>1, <2>1, <2>2, <2>3, <2>4
<1>5. CASE WriteFails
  <2>1. PICK size \in 0..(MaxOut - written) :
          /\ net.gone \/ size = 0
          /\ past' = [past EXCEPT !.empty = @ \/ size = 0]
    BY <1>5 DEF WriteFails
  <2>2. /\ ses' = [ses EXCEPT !.alive = FALSE, !.rio = FALSE, !.wio = FALSE]
        /\ UNCHANGED <<in, out, free, rdb, room, net, arrived, got, written, wire>>
    BY <1>5 DEF WriteFails, Dead
  <2>3. ses' \in Sessions /\ ses'.bound = ses.bound /\ ~ses'.alive /\ ~ses'.rio
        /\ ses'.inTotal = ses.inTotal /\ ses'.outTotal = ses.outTotal
    BY <1>1, <2>2 DEF Sessions
  <2>4. past' \in Pasts /\ past'.overtaken = past.overtaken /\ past'.full = past.full
        /\ past'.empty = (past.empty \/ size = 0)
    BY <1>1, <2>1 DEF Pasts
  <2>5. QED
    BY <1>1, <2>1, <2>2, <2>3, <2>4
<1>6. CASE Clean
  BY <1>1, <1>6 DEF Clean, history
<1>7. QED
  BY <1>2, <1>3, <1>4, <1>5, <1>6 DEF Quiet

LEMMA QuietKeeps ==
  ASSUME IInv, Quiet
  PROVE  IInv'
<1>1. /\ Typed /\ Lists /\ Headers /\ Accounted /\ OutputKept /\ OutputWaits /\ Causes
      /\ InputSound
  BY DEF IInv
<1>2. /\ UNCHANGED <<in, out, rdb, room, arrived, got, written, wire>>
      /\ free' = free \/ free' = <<>>
      /\ net' \in [bytes : Seq(Nat), gone : BOOLEAN] /\ net'.bytes = net.bytes
      /\ net.gone => net'.gone
      /\ ses' \in Sessions /\ past' \in Pasts
      /\ ses'.bound = ses.bound /\ (ses'.alive => ses.alive) /\ (ses'.rio => ses'.bound)
      /\ ses'.inTotal = ses.inTotal /\ ses'.outTotal = ses.outTotal
      /\ past'.overtaken = past.overtaken /\ past'.full = past.full
      /\ past.empty => past'.empty
      /\ \/ (ses.wio => ses'.wio) /\ past'.paused = past.paused
         \/ ses'.wio \/ ~ses'.alive \/ past'.paused = "disabled"
      /\ ses'.alive = ses.alive \/ net.gone \/ past'.empty
  BY <1>1, QuietIs
<1>3. Typed'
  <2>1. free' \in Seq(Node)
    <3>1. free \in Seq(Node) /\ <<>> \in Seq(Node)
      BY <1>1 DEF Typed
    <3>2. QED
      BY <1>2, <3>1
  <2>2. QED
    BY <1>1, <1>2, <2>1 DEF Typed
<1>4. Lists' /\ Accounted' /\ OutputKept'
  BY <1>1, <1>2, AccountedSame, KeptSame DEF Lists
<1>5. Headers'
  <2>1. CASE free' = free
    BY <1>1, <1>2, <2>1, HeadersSame
  <2>2. CASE free' = <<>>
    <3>1. IsInjective(<<>>) /\ ToSet(<<>>) = {}
      BY DEF IsInjective, ToSet
    <3>2. IsInjective(free') /\ ToSet(free') = {}
      BY <2>2, <3>1, Zenon
    <3>3. Apart4(free', Nodes(in), Nodes(out), Nodes(rdb))
      BY <1>1, <3>2 DEF Headers, Apart4
    <3>4. QED
      BY <1>2, <3>3 DEF Headers
  <2>3. QED
    BY <1>2, <2>1, <2>2
<1>6. OutputWaits'
  BY <1>1, <1>2 DEF OutputWaits
<1>7. Causes'
  BY <1>1, <1>2 DEF Causes, DeadCause
<1>8. InputSound'
  BY <1>1, <1>2, InputSame
<1>9. QED
  BY <1>3, <1>4, <1>5, <1>6, <1>7, <1>8 DEF IInv

LEMMA FreeKeeps ==
  ASSUME IInv, Free
  PROVE  IInv'
<1>1. /\ Typed /\ Lists /\ Headers /\ InputSound
  BY DEF IInv
<1>2. /\ rdb = <<>> /\ ses' = NoSession /\ in' = <<>> /\ out' = <<>>
      /\ UNCHANGED <<free, rdb, room, net, arrived, got, written, wire, past>>
  BY DEF Free, UserCode, history
<1>3. /\ ses' \in Sessions /\ ~ses'.bound /\ ~ses'.alive /\ ~ses'.rio
      /\ ses'.inTotal = 0 /\ ses'.outTotal = 0
  BY <1>2, SocketSessionAssumption DEF Sessions, NoSession
<1>4. Typed'
  <2>1. in' \in Seq(Buf) /\ out' \in Seq(Buf)
    BY <1>2
  <2>2. QED
    BY <1>1, <1>2, <1>3, <2>1 DEF Typed
<1>5. Lists'
  BY <1>1, <1>2, <1>3 DEF Lists
<1>6. Headers'
  <2>1. IsInjective(<<>>)
    BY DEF IsInjective
  <2>2. IsInjective(Nodes(<<>>)) /\ ToSet(Nodes(<<>>)) = {}
    BY <2>1, NodesEmpty
  <2> DEFINE e == Nodes(<<>>)
  <2> HIDE DEF e
  <2>3. Apart4(free, e, e, Nodes(rdb))
    BY <1>1, <2>2 DEF Headers, Apart4, e
  <2>4. Nodes(in') = e /\ Nodes(out') = e
    BY <1>2, Zenon DEF e
  <2>5. Apart4(free', Nodes(in'), Nodes(out'), Nodes(rdb'))
    BY <1>2, <2>3, <2>4
  <2>6. QED
    BY <2>5 DEF Headers
<1>7. Accounted'
  <2>1. Contents(in') = <<>> /\ Contents(out') = <<>>
    BY <1>2, ContentsEmpty, Zenon
  <2>2. QED
    BY <1>3, <2>1 DEF Accounted
<1>8. OutputKept' /\ OutputWaits'
  BY <1>3 DEF OutputKept, OutputWaits
<1>9. Causes'
  <2>1. NoEmpty(<<>>)
    BY DEF NoEmpty
  <2>2. NoEmpty(out')
    BY <1>2, <2>1, Zenon
  <2>3. (NoEmpty(out))'
    BY <2>2 DEF NoEmpty
  <2>4. QED
    BY <1>2, <1>3, <2>3 DEF Causes, DeadCause
<1>10. InputSound'
  <2>1. Len(in') = 0
    BY <1>2
  <2>2. QED
    BY <1>1, <1>2, <1>3, <2>1 DEF InputSound
<1>11. QED
  BY <1>4, <1>5, <1>6, <1>7, <1>8, <1>9, <1>10 DEF IInv

LEMMA BindKeeps ==
  ASSUME IInv, Bind
  PROVE  IInv'
<1> USE SocketSessionAssumption
<1>1. /\ Typed /\ Lists /\ Headers /\ InputSound
  BY DEF IInv
<1>2. PICK m \in Maxes : ses' = [NoSession EXCEPT !.bound = TRUE, !.alive = TRUE, !.max = m]
  BY DEF Bind
<1>3. /\ ~ses.bound /\ net' = [bytes |-> <<>>, gone |-> FALSE]
      /\ arrived' = 0 /\ got' = <<>> /\ written' = 0 /\ wire' = <<>> /\ past' = CleanPast
      /\ UNCHANGED <<in, out, free, rdb, room>>
  BY DEF Bind
<1>4. in = <<>> /\ out = <<>> /\ rdb = <<>>
  BY <1>1, <1>3 DEF Lists
<1>5. /\ ses' \in Sessions /\ ses'.bound /\ ses'.alive
      /\ ses'.inTotal = 0 /\ ses'.outTotal = 0
  <2>1. ses' = [bound |-> TRUE, alive |-> TRUE, rio |-> FALSE, wio |-> FALSE,
                threshold |-> MinBuffer, max |-> m, inTotal |-> 0, outTotal |-> 0]
    BY <1>2 DEF NoSession
  <2>2. MinBuffer \in MinBuffer..MaxBuffer /\ m \in Maxes \cup {0}
    OBVIOUS
  <2>3. ses' \in Sessions
    BY <2>1, <2>2 DEF Sessions
  <2>4. ses'.bound /\ ses'.alive /\ ses'.inTotal = 0 /\ ses'.outTotal = 0
    BY <2>1
  <2>5. QED
    BY <2>3, <2>4
<1>6. net' \in [bytes : Seq(Nat), gone : BOOLEAN] /\ net'.bytes = <<>>
  <2> DEFINE e == <<>>
  <2>1. e \in Seq(Nat)
    OBVIOUS
  <2> HIDE DEF e
  <2>2. net' = [bytes |-> e, gone |-> FALSE]
    BY <1>3 DEF e
  <2>3. net' \in [bytes : Seq(Nat), gone : BOOLEAN] /\ net'.bytes = e
    BY <2>1, <2>2
  <2>4. QED
    BY <2>3 DEF e
<1>7. past' \in Pasts
  BY <1>3 DEF Pasts, CleanPast
<1>8. Typed'
  <2>1. got' \in Seq(Nat) /\ wire' \in Seq(Nat) /\ Len(Text) \in Nat
    BY <1>3
  <2>2. QED
    BY <1>1, <1>3, <1>5, <1>6, <1>7, <2>1 DEF Typed
<1>9. Lists' /\ Headers'
  BY <1>1, <1>3, <1>5, HeadersSame DEF Lists
<1>10. Contents(in') = <<>> /\ Contents(out') = <<>> /\ Contents(rdb') = <<>>
  BY <1>3, <1>4, ContentsEmpty, Zenon
<1>11. Accounted'
  BY <1>5, <1>10 DEF Accounted
<1>12. <<>> \o <<>> = <<>> /\ Numbers(0, 0) = <<>>
  <2>1. Numbers(0, 0) \in Seq(Nat) /\ Len(Numbers(0, 0)) = 0
    BY NumbersIs
  <2>2. <<>> \in Seq(Nat)
    OBVIOUS
  <2>3. QED
    BY <2>1, <2>2, EmptySeq, ConcatEmptySeq
<1>13. OutputKept'
  <2> DEFINE a == wire' \o Contents(out')
  <2>1. a = <<>>
    BY <1>3, <1>10, <1>12
  <2> HIDE DEF a
  <2>2. Len(a) = 0 /\ ToSet(a) = {} /\ 1..0 = {}
    BY <2>1 DEF ToSet
  <2>3. Len(a) = written' /\ ToSet(a) = 1..written' /\ a = Numbers(0, written')
    BY <1>3, <1>12, <2>1, <2>2
  <2>4. QED
    BY <2>3 DEF OutputKept, a
<1>14. OutputWaits'
  BY <1>3, <1>4 DEF OutputWaits
<1>15. Causes'
  <2>1. NoEmpty(<<>>)
    BY DEF NoEmpty
  <2>2. NoEmpty(out')
    BY <1>3, <1>4, <2>1, Zenon
  <2>3. (NoEmpty(out))'
    BY <2>2 DEF NoEmpty
  <2>4. QED
    BY <1>3, <1>4, <1>5, <2>3 DEF Causes, DeadCause
<1>16. InputSound'
  <2>1. Len(in') = 0 /\ Len(got') = 0
    BY <1>3, <1>4
  <2>2. Arrivals' = <<>>
    BY <1>3, <1>6, <1>10, <1>12 DEF Arrivals
  <2>3. got' = Numbers(0, Len(got'))
    BY <1>3, <1>12, <2>1
  <2>4. QED
    BY <1>3, <1>12, <2>1, <2>2, <2>3 DEF InputSound
<1>17. QED
  BY <1>8, <1>9, <1>11, <1>13, <1>14, <1>15, <1>16 DEF IInv

LEMMA StartReadKeeps ==
  ASSUME IInv, StartRead
  PROVE  IInv'
<1>1. /\ Typed /\ Lists /\ Headers /\ Accounted /\ OutputKept /\ OutputWaits /\ Causes
      /\ InputSound
  BY DEF IInv
<1>2. /\ ses.rio /\ ses' = [ses EXCEPT !.rio = FALSE]
      /\ UNCHANGED <<in, out, net, arrived, got, written, wire, past>>
  BY DEF StartRead, history
<1>3. /\ rdb' \in Seq(Buf) /\ rdb' = <<rdb'[1]>> /\ rdb'[1].rpos = 0
      /\ free' \in Seq(Node) /\ room' = ses.threshold
      /\ Contents(rdb') = <<>> /\ rdb = <<>> /\ Headers'
  BY <1>1, StartReadIs
<1>4. ses \in Sessions /\ ses.threshold \in MinBuffer..MaxBuffer
  BY <1>1 DEF Typed, Sessions
<1>5. /\ ses' \in Sessions /\ ses'.bound = ses.bound /\ ses'.alive = ses.alive
      /\ ses'.wio = ses.wio /\ ses'.inTotal = ses.inTotal /\ ses'.outTotal = ses.outTotal
  BY <1>2, <1>4 DEF Sessions
<1>6. room' \in 0..MaxBuffer /\ room' # 0
  BY <1>3, <1>4, SocketSessionAssumption
<1>7. Typed'
  BY <1>1, <1>2, <1>3, <1>5, <1>6 DEF Typed
<1>8. Lists'
  <2>1. ses.bound
    BY <1>1, <1>2 DEF Lists
  <2>2. rdb' # <<>> => rdb' = <<rdb'[1]>> /\ rdb'[1].rpos = 0
    BY <1>3
  <2>3. QED
    BY <1>1, <1>2, <1>5, <2>1, <2>2 DEF Lists
<1>9. Accounted' /\ OutputKept' /\ OutputWaits' /\ Causes'
  BY <1>1, <1>2, <1>5, <1>6, AccountedSame, KeptSame, WaitsSame, CausesSame
<1>10. InputSound'
  <2>1. Contents(rdb) = <<>>
    BY <1>3, ContentsEmpty, Zenon
  <2>2. Arrivals' = Arrivals
    BY <1>2, <1>3, <2>1 DEF Arrivals
  <2>3. QED
    BY <1>1, <1>2, <1>5, <2>2 DEF InputSound
<1>11. QED
  BY <1>3, <1>7, <1>8, <1>9, <1>10 DEF IInv

(* The end of a read. Whatever it makes of the session, what the buffer    *)
(* holds now and the connection has left is what they held before.         *)
LEMMA EndReadKeeps ==
  ASSUME IInv, rdb # <<>>, NEW s \in Sessions, NEW bytes \in Seq(Nat), EndRead(s, bytes),
         s.bound = ses.bound, s.inTotal = ses.inTotal, s.outTotal = ses.outTotal,
         s.alive => ses.alive /\ s.wio = ses.wio,
         s.alive = ses.alive \/ net'.gone \/ past'.full,
         UNCHANGED <<out, free, arrived, got, written, wire>>,
         net' \in [bytes : Seq(Nat), gone : BOOLEAN], net.gone => net'.gone,
         past' \in Pasts, past.full => past'.full, past'.empty = past.empty,
         past'.overtaken = past.overtaken, past'.paused = past.paused,
         bytes \o net'.bytes = Contents(rdb) \o net.bytes
  PROVE  IInv'
<1>1. /\ Typed /\ Lists /\ Headers /\ Accounted /\ OutputKept /\ OutputWaits /\ Causes
      /\ InputSound
  BY DEF IInv
<1>2. /\ in' \in Seq(Buf) /\ rdb' = <<>> /\ room' = 0
      /\ Contents(in') = Contents(in) \o bytes
      /\ IsInjective(Nodes(in'))
      /\ ToSet(Nodes(in')) = ToSet(Nodes(in)) \cup ToSet(Nodes(rdb))
      /\ ToSet(Nodes(rdb')) = {} /\ IsInjective(Nodes(rdb'))
      /\ \A i \in 1..Len(in') : i # 1 => in'[i].rpos = 0
      /\ ses' \in Sessions /\ ses'.inTotal = s.inTotal + Len(bytes)
      /\ ses'.bound = s.bound /\ ses'.alive = s.alive /\ ses'.wio = s.wio /\ ses'.rio = s.rio
      /\ ses'.outTotal = s.outTotal
  BY <1>1, EndReadIs
<1>3. in \in Seq(Buf) /\ ses.bound
  BY <1>1 DEF Typed, Lists
<1>4. Typed'
  <2>1. rdb' \in Seq(Buf)
    BY <1>2
  <2>2. room' \in 0..MaxBuffer
    BY <1>2, SocketSessionAssumption
  <2>3. QED
    BY <1>1, <1>2, <2>1, <2>2 DEF Typed
<1>5. Lists'
  BY <1>2, <1>3 DEF Lists
<1>6. Headers'
  <2>1. Apart4(free, Nodes(in'), Nodes(out), Nodes(rdb'))
    BY <1>1, <1>2 DEF Headers, Apart4
  <2>2. Apart4(free', Nodes(in'), Nodes(out'), Nodes(rdb'))
    BY <2>1
  <2>3. QED
    BY <2>2 DEF Headers
<1>7. Contents(in) \in Seq(Nat) /\ Len(Contents(in')) = Len(Contents(in)) + Len(bytes)
  <2>1. Contents(in) \in Seq(Nat)
    BY <1>3, LeftsType
  <2>2. QED
    BY <1>2, <2>1, ConcatProperties
<1>8. Accounted'
  <2>1. ses.inTotal = Len(Contents(in)) /\ ses.outTotal = Len(Contents(out))
    BY <1>1 DEF Accounted
  <2>2. ses'.inTotal = Len(Contents(in'))
    BY <1>2, <1>7, <2>1
  <2>3. ses'.outTotal = Len(Contents(out'))
    BY <1>2, <2>1
  <2>4. QED
    BY <2>2, <2>3 DEF Accounted
<1>9. OutputKept' /\ OutputWaits'
  <2>1. OutputKept'
    BY <1>1, <1>2, KeptSame
  <2>2. OutputWaits'
    BY <1>1, <1>2 DEF OutputWaits
  <2>3. QED
    BY <2>1, <2>2
<1>10. Causes'
  BY <1>1, <1>2 DEF Causes, DeadCause
<1>11. InputSound'
  <2> DEFINE c == net'.bytes
             b == Contents(in)
  <2>1. c \in Seq(Nat) /\ b \in Seq(Nat)
    BY <1>7
  <2>2. Contents(rdb') = <<>>
    BY <1>2, ContentsEmpty, Zenon
  <2>3. <<>> \o c = c
    BY <2>1, ConcatEmptySeq
  <2>4. (b \o bytes) \o c = b \o (bytes \o c)
    <3> HIDE DEF b, c
    <3>1. QED
      BY <2>1, ConcatThree
  <2>5. Contents(in') \o (Contents(rdb') \o net'.bytes)
          = Contents(in) \o (Contents(rdb) \o net.bytes)
    <3>1. Contents(in') \o (Contents(rdb') \o c) = (b \o bytes) \o c
      BY <1>2, <2>2, <2>3
    <3>2. b \o (bytes \o c) = Contents(in) \o (Contents(rdb) \o net.bytes)
      OBVIOUS
    <3>3. QED
      BY <2>4, <3>1, <3>2
  <2>6. Arrivals' = Arrivals
    BY <2>5 DEF Arrivals
  <2>7. QED
    BY <1>1, <1>2, <2>6 DEF InputSound
<1>12. QED
  BY <1>4, <1>5, <1>6, <1>8, <1>9, <1>10, <1>11 DEF IInv

LEMMA ReadSomeKeeps ==
  ASSUME IInv, ReadSome
  PROVE  IInv'
<1>1. /\ Typed /\ Lists /\ Headers /\ Accounted /\ OutputKept /\ OutputWaits /\ Causes
      /\ InputSound
  BY DEF IInv
<1>2. rdb # <<>> /\ room > 0 /\ UNCHANGED <<out, free, arrived, got, written, wire>>
  BY DEF ReadSome
<1>3. PICK n \in 1..Len(net.bytes), bytes \in Seq(Nat), s \in Sessions :
        /\ n <= room /\ bytes = Contents(rdb) \o SubSeq(net.bytes, 1, n)
        /\ net' = [net EXCEPT !.bytes = SubSeq(net.bytes, n + 1, Len(net.bytes))]
        /\ past' = [past EXCEPT !.full = past.full \/ n = room]
        /\ s.bound = ses.bound /\ s.alive = ses.alive /\ s.wio = ses.wio /\ s.rio = ses.rio
        /\ s.inTotal = ses.inTotal /\ s.outTotal = ses.outTotal
        /\ \/ EndRead(s, bytes)
           \/ /\ rdb' = <<Buffer(rdb[1].node, bytes, 0)>> /\ room' = room - n
              /\ ses' = s /\ in' = in
  BY <1>1, ReadSomeIs
<1> DEFINE N == net.bytes
           p == SubSeq(N, 1, n)
           q == SubSeq(N, n + 1, Len(N))
           C == Contents(rdb)
<1>4. /\ net \in [bytes : Seq(Nat), gone : BOOLEAN] /\ N \in Seq(Nat) /\ past \in Pasts
      /\ rdb \in Seq(Buf) /\ C \in Seq(Nat) /\ room \in 0..MaxBuffer
  BY <1>1, LeftsType DEF Typed
<1>5. p \in Seq(Nat) /\ q \in Seq(Nat) /\ p \o q = N
  <2>1. n \in 0..Len(N)
    OBVIOUS
  <2> HIDE DEF N
  <2>2. QED
    BY <1>4, <2>1, CutAt
<1>6. net' \in [bytes : Seq(Nat), gone : BOOLEAN] /\ net'.bytes = q /\ net'.gone = net.gone
  <2>1. net' = [net EXCEPT !.bytes = q]
    BY <1>3
  <2> HIDE DEF q
  <2>2. QED
    BY <1>4, <1>5, <2>1
<1>7. /\ past' \in Pasts /\ past'.full = (past.full \/ n = room) /\ past'.empty = past.empty
      /\ past'.overtaken = past.overtaken /\ past'.paused = past.paused
  BY <1>3, <1>4 DEF Pasts
<1>8. bytes \o net'.bytes = C \o N
  <2> HIDE DEF p, q, C, N
  <2>1. (C \o p) \o q = C \o (p \o q)
    BY <1>4, <1>5, ConcatThree
  <2>2. bytes = C \o p
    BY <1>3 DEF C, p, N
  <2>3. QED
    BY <1>5, <1>6, <2>1, <2>2
<1>9. CASE EndRead(s, bytes)
  BY <1>2, <1>3, <1>6, <1>7, <1>8, <1>9, EndReadKeeps
<1>10. CASE /\ rdb' = <<Buffer(rdb[1].node, bytes, 0)>> /\ room' = room - n
            /\ ses' = s /\ in' = in
  <2> DEFINE b == Buffer(rdb[1].node, bytes, 0)
  <2>1. rdb[1] \in Buf /\ rdb[1].node \in Node /\ rdb = <<rdb[1]>>
    <3>1. rdb[1] \in Buf /\ rdb = <<rdb[1]>>
      BY <1>1, <1>2, <1>4 DEF Lists
    <3>2. QED
      BY <3>1, LeftType
  <2>2. b \in Buf /\ b.node = rdb[1].node /\ b.rpos = 0 /\ LeftOf(b) = bytes
    <3>1. 0 \in 0..Len(bytes)
      OBVIOUS
    <3>2. QED
      BY <2>1, <3>1, BufferIs
  <2>3. rdb' = <<b>>
    BY <1>10
  <2> HIDE DEF b, N, p, q, C
  <2>4. rdb' \in Seq(Buf) /\ rdb' = <<rdb'[1]>> /\ rdb'[1].rpos = 0
    BY <2>2, <2>3
  <2>5. Contents(rdb') = bytes
    BY <2>2, <2>3, ContentsOne
  <2>6. Nodes(rdb') = Nodes(rdb)
    <3>1. DOMAIN rdb' = {1} /\ rdb'[1] = b
      BY <2>3
    <3>2. DOMAIN rdb = {1}
      BY <2>1
    <3>3. Nodes(rdb') = [i \in {1} |-> rdb[1].node]
      BY <2>2, <3>1 DEF Nodes
    <3>4. Nodes(rdb) = [i \in {1} |-> rdb[1].node]
      BY <3>2 DEF Nodes
    <3>5. QED
      BY <3>3, <3>4
  <2>7. room' \in 0..MaxBuffer /\ (room' = 0 => past'.full)
    <3>1. n \in Nat /\ n <= room /\ room' = room - n
      BY <1>3, <1>10
    <3>2. room' \in 0..MaxBuffer /\ (room' = 0 => n = room)
      BY <1>4, <3>1, SocketSessionAssumption
    <3>3. QED
      BY <1>7, <3>2
  <2>8. Typed'
    BY <1>1, <1>2, <1>6, <1>7, <1>10, <2>4, <2>7 DEF Typed
  <2>9. Lists'
    BY <1>1, <1>2, <1>3, <1>10, <2>4 DEF Lists
  <2>10. Headers'
    <3>1. Apart4(free', Nodes(in'), Nodes(out'), Nodes(rdb'))
      BY <1>1, <1>2, <1>10, <2>6 DEF Headers
    <3>2. QED
      BY <3>1 DEF Headers
  <2>11. Accounted' /\ OutputKept' /\ OutputWaits'
    BY <1>1, <1>2, <1>3, <1>7, <1>10, AccountedSame, KeptSame, WaitsSame
  <2>12. Causes'
    BY <1>1, <1>2, <1>3, <1>6, <1>7, <1>10, <2>7 DEF Causes, DeadCause
  <2>13. InputSound'
    <3>1. Contents(rdb') \o net'.bytes = Contents(rdb) \o net.bytes
      BY <1>8, <2>5 DEF C, N
    <3>2. Arrivals' = Arrivals
      BY <1>2, <1>10, <3>1 DEF Arrivals
    <3>3. QED
      BY <1>1, <1>2, <1>3, <1>10, <3>2 DEF InputSound
  <2>14. QED
    BY <2>8, <2>9, <2>10, <2>11, <2>12, <2>13 DEF IInv
<1>11. QED
  BY <1>3, <1>9, <1>10

(* The last read is for no bytes, would block or fails.                    *)
LEMMA ReadEndsKeeps ==
  ASSUME IInv, ReadBlocks \/ ReadFails
  PROVE  IInv'
<1> DEFINE b == rdb[1]
           bytes == b.bytes
           dead == [ses EXCEPT !.alive = FALSE, !.rio = FALSE, !.wio = FALSE]
<1>1. Typed /\ Lists /\ Causes
  BY DEF IInv
<1>2. /\ rdb # <<>> /\ UNCHANGED <<out, free, net, arrived, got, written, wire, past>>
  BY DEF ReadBlocks, ReadFails, history
<1>3. \/ EndRead(ses, bytes)
      \/ EndRead(dead, bytes) /\ (room = 0 \/ net.gone)
  BY DEF ReadBlocks, ReadFails, Dead
<1>4. b \in Buf /\ rdb = <<b>> /\ b.rpos = 0 /\ ses.bound
  BY <1>1, <1>2 DEF Typed, Lists
<1> HIDE DEF b
<1>5. bytes \in Seq(Nat) /\ Contents(rdb) = bytes
  <2>1. Contents(rdb) = LeftOf(b) /\ b.bytes \in Seq(Nat)
    BY <1>4, ContentsOne, LeftType
  <2>2. LeftOf(b) = SubSeq(b.bytes, 0 + 1, Len(b.bytes))
    BY <1>4 DEF LeftOf
  <2>3. LeftOf(b) = b.bytes
    BY <2>1, <2>2, SubSeqFull
  <2>4. QED
    BY <2>1, <2>3
<1> HIDE DEF bytes
<1>6. /\ ses \in Sessions /\ net \in [bytes : Seq(Nat), gone : BOOLEAN] /\ past \in Pasts
  BY <1>1 DEF Typed
<1>7. /\ net' \in [bytes : Seq(Nat), gone : BOOLEAN] /\ net'.gone = net.gone
      /\ past' = past /\ past' \in Pasts /\ bytes \o net'.bytes = Contents(rdb) \o net.bytes
  BY <1>2, <1>5, <1>6
<1>8. CASE EndRead(ses, bytes)
  BY <1>2, <1>5, <1>6, <1>7, <1>8, EndReadKeeps
<1>9. CASE EndRead(dead, bytes) /\ (room = 0 \/ net.gone)
  <2>1. /\ dead \in Sessions /\ dead.bound = ses.bound /\ ~dead.alive
        /\ dead.inTotal = ses.inTotal /\ dead.outTotal = ses.outTotal
    BY <1>6 DEF Sessions
  <2>2. net'.gone \/ past'.full
    BY <1>1, <1>2, <1>7, <1>9 DEF Causes
  <2> HIDE DEF dead
  <2>3. QED
    BY <1>2, <1>5, <1>7, <1>9, <2>1, <2>2, EndReadKeeps
<1>10. QED
  BY <1>3, <1>8, <1>9

(* Output with k more bytes: what was there, a, and those written now.     *)
LEMMA WrittenMore ==
  ASSUME NEW w \in Nat, NEW k \in Nat, NEW a \in Seq(Nat), Len(a) = w, ToSet(a) = 1..w
  PROVE  /\ Len(a \o Numbers(w, k)) = w + k
         /\ ToSet(Numbers(w, k)) = (w + 1)..(w + k)
         /\ ToSet(a) \cup ToSet(Numbers(w, k)) = 1..(w + k)
         /\ ToSet(a \o Numbers(w, k)) = 1..(w + k)
         /\ a = Numbers(0, w) => a \o Numbers(w, k) = Numbers(0, w + k)
<1> DEFINE b == Numbers(w, k)
<1>1. b \in Seq(Nat) /\ Len(b) = k /\ \A i \in 1..k : b[i] = w + i
  BY NumbersIs
<1> HIDE DEF b
<1>2. /\ a \o b \in Seq(Nat) /\ Len(a \o b) = Len(a) + Len(b)
      /\ \A i \in 1..Len(a) + Len(b) : (a \o b)[i] = IF i <= Len(a) THEN a[i] ELSE b[i - Len(a)]
  BY <1>1, ConcatProperties
<1>3. ToSet(b) = (w + 1)..(w + k)
  <2>1. DOMAIN b = 1..k
    BY <1>1
  <2>2. ASSUME NEW x \in ToSet(b) PROVE x \in (w + 1)..(w + k)
    <3>1. PICK i \in 1..k : x = b[i]
      BY <2>1 DEF ToSet
    <3>2. x = w + i
      BY <1>1, <3>1
    <3>3. QED
      BY <3>2
  <2>3. ASSUME NEW x \in (w + 1)..(w + k) PROVE x \in ToSet(b)
    <3>1. x - w \in 1..k /\ w + (x - w) = x
      OBVIOUS
    <3>2. b[x - w] = x
      BY <1>1, <3>1
    <3>3. QED
      BY <2>1, <3>1, <3>2 DEF ToSet
  <2>4. QED
    BY <2>2, <2>3
<1>4. ToSet(a) \cup ToSet(b) = 1..(w + k)
  <2>1. (1..w) \cup ((w + 1)..(w + k)) = 1..(w + k)
    OBVIOUS
  <2>2. QED
    BY <1>3, <2>1
<1>5. ToSet(a \o b) = ToSet(a) \cup ToSet(b)
  BY <1>1, SetOfConcat
<1>6. ASSUME a = Numbers(0, w) PROVE a \o b = Numbers(0, w + k)
  <2> DEFINE m == w + k
             c == Numbers(0, m)
             d == a \o b
  <2>1. 0 \in Nat /\ m \in Nat
    OBVIOUS
  <2>2. \A i \in 1..w : a[i] = 0 + i
    <3>1. \A i \in 1..w : Numbers(0, w)[i] = 0 + i
      BY NumbersIs
    <3>2. QED
      BY <1>6, <3>1
  <2> HIDE DEF m
  <2>3. c \in Seq(Nat) /\ Len(c) = m /\ \A i \in 1..m : c[i] = 0 + i
    BY <2>1, NumbersIs
  <2> HIDE DEF c, d
  <2>4. d \in Seq(Nat) /\ Len(d) = m
        /\ \A i \in 1..m : d[i] = IF i <= w THEN a[i] ELSE b[i - w]
    BY <1>1, <1>2 DEF d, m
  <2>5. ASSUME NEW i \in 1..Len(d) PROVE d[i] = c[i]
    <3>1. i \in 1..m /\ i \in Nat
      BY <2>1, <2>4
    <3>2. c[i] = i
      BY <2>3, <3>1
    <3>3. CASE i <= w
      <4>1. i \in 1..w
        BY <3>1, <3>3
      <4>2. a[i] = i
        BY <2>2, <4>1
      <4>3. QED
        BY <2>4, <3>1, <3>2, <3>3, <4>2
    <3>4. CASE ~(i <= w)
      <4>1. i - w \in 1..k /\ w + (i - w) = i
        BY <3>1, <3>4 DEF m
      <4>2. b[i - w] = i
        BY <1>1, <4>1
      <4>3. QED
        BY <2>4, <3>1, <3>2, <3>4, <4>2
    <3>5. QED
      BY <3>3, <3>4
  <2>6. d = c
    BY <2>3, <2>4, <2>5, SeqEqual
  <2>7. QED
    BY <2>6 DEF d, c, m
<1>7. QED
  BY <1>1, <1>2, <1>3, <1>4, <1>5, <1>6 DEF b

LEMMA WriteLaterKeeps ==
  ASSUME IInv, WriteLater
  PROVE  IInv'
<1>1. /\ Typed /\ Lists /\ Headers /\ Accounted /\ OutputKept /\ OutputWaits /\ Causes
      /\ InputSound
  BY DEF IInv
<1>2. PICK size \in 0..(MaxOut - written) :
        /\ Queue(Numbers(written, size), 0)
        /\ written' = written + size
        /\ ses' = [ses EXCEPT !.outTotal = @ + size]
        /\ past' = [past EXCEPT !.empty = @ \/ size = 0]
  BY DEF WriteLater
<1>3. /\ ses.bound /\ rdb = <<>> /\ ses.alive /\ ses.wio
      /\ UNCHANGED <<in, rdb, room, net, arrived, got, wire>>
  BY DEF WriteLater, UserCode
<1>4. /\ written \in Nat /\ size \in Nat /\ written' \in 0..MaxOut /\ 0 \in 0..size
      /\ ses \in Sessions /\ past \in Pasts /\ wire \in Seq(Nat) /\ out \in Seq(Buf)
  BY <1>1, <1>2, SocketSessionAssumption DEF Typed
<1> DEFINE b == Numbers(written, size)
           C == Contents(out)
           a == wire \o C
<1>5. b \in Seq(Nat) /\ Len(b) = size
  BY <1>4, NumbersIs
<1>6. C \in Seq(Nat) /\ a \in Seq(Nat)
  BY <1>4, LeftsType, ConcatProperties
<1> HIDE DEF b
<1>7. /\ out' \in Seq(Buf) /\ free' \in Seq(Node) /\ out' # <<>>
      /\ Contents(out') = C \o SubSeq(b, 0 + 1, Len(b))
      /\ NoEmpty(out) /\ 0 < Len(b) => NoEmpty(out')
      /\ Headers'
  <2>1. 0 \in 0..Len(b) /\ Queue(b, 0)
    BY <1>2, <1>4, <1>5 DEF b
  <2>2. QED
    BY <1>1, <1>3, <1>5, <2>1, QueueIs
<1>8. Contents(out') = C \o b
  <2>1. SubSeq(b, 0 + 1, Len(b)) = b
    BY <1>5, SubSeqFull
  <2>2. QED
    BY <1>7, <2>1
<1>9. /\ ses' \in Sessions /\ ses'.bound /\ ses'.alive /\ ses'.wio /\ ses'.rio = ses.rio
      /\ ses'.inTotal = ses.inTotal /\ ses'.outTotal = ses.outTotal + size
  <2> DEFINE t == ses.outTotal + size
  <2>1. ses.outTotal \in Nat
    BY <1>4 DEF Sessions
  <2>2. t \in Nat /\ ses' = [ses EXCEPT !.outTotal = t]
    BY <1>2, <1>4, <2>1
  <2> HIDE DEF t
  <2>3. ses' \in Sessions
    BY <1>4, <2>2 DEF Sessions
  <2>4. /\ ses'.bound = ses.bound /\ ses'.alive = ses.alive /\ ses'.wio = ses.wio
        /\ ses'.rio = ses.rio /\ ses'.inTotal = ses.inTotal /\ ses'.outTotal = t
    BY <1>4, <2>2 DEF Sessions
  <2>5. QED
    BY <1>3, <2>3, <2>4 DEF t
<1>10. /\ past' \in Pasts /\ past'.empty = (past.empty \/ size = 0) /\ past'.full = past.full
       /\ past'.overtaken = past.overtaken
  BY <1>2, <1>4 DEF Pasts
<1>11. Typed' /\ Lists'
  BY <1>1, <1>3, <1>4, <1>7, <1>9, <1>10 DEF Typed, Lists
<1>12. Accounted'
  <2>1. ses.inTotal = Len(Contents(in)) /\ ses.outTotal = Len(C)
    BY <1>1 DEF Accounted
  <2>2. Len(C \o b) = Len(C) + size
    BY <1>5, <1>6, ConcatProperties
  <2>3. ses'.outTotal = Len(Contents(out'))
    BY <1>8, <1>9, <2>1, <2>2
  <2>4. ses'.inTotal = Len(Contents(in'))
    BY <1>3, <1>9, <2>1
  <2>5. QED
    BY <2>3, <2>4 DEF Accounted
<1>13. OutputKept'
  <2>1. /\ Len(a) = written /\ ToSet(a) = 1..written
        /\ ~past.overtaken => a = Numbers(0, written)
    BY <1>1, <1>3 DEF OutputKept
  <2> DEFINE c == wire' \o Contents(out')
  <2>2. c = a \o b
    <3> HIDE DEF C
    <3>1. (wire \o C) \o b = wire \o (C \o b)
      BY <1>4, <1>5, <1>6, ConcatThree
    <3>2. QED
      BY <1>3, <1>8, <3>1
  <2> HIDE DEF a, c
  <2>3. /\ Len(a \o b) = written + size
        /\ ToSet(a \o b) = 1..(written + size)
        /\ a = Numbers(0, written) => a \o b = Numbers(0, written + size)
    BY <1>4, <1>6, <2>1, WrittenMore DEF b
  <2>4. /\ Len(c) = written' /\ ToSet(c) = 1..written'
        /\ ~past'.overtaken => c = Numbers(0, written')
    BY <1>2, <1>10, <2>1, <2>2, <2>3
  <2>5. QED
    BY <2>4 DEF OutputKept, c
<1>14. OutputWaits'
  BY <1>9 DEF OutputWaits
<1>15. Causes'
  <2>1. past'.empty \/ NoEmpty(out')
    <3>1. size = 0 \/ 0 < Len(b)
      BY <1>4, <1>5
    <3>2. QED
      BY <1>1, <1>7, <1>10, <3>1 DEF Causes
  <2>2. (past.empty \/ NoEmpty(out))'
    BY <2>1 DEF NoEmpty
  <2>3. QED
    BY <1>1, <1>3, <1>9, <1>10, <2>2 DEF Causes, DeadCause
<1>16. InputSound'
  BY <1>1, <1>3, <1>9, InputSame
<1>17. QED
  BY <1>7, <1>11, <1>12, <1>13, <1>14, <1>15, <1>16 DEF IInv

LEMMA Joined ==
  ASSUME NEW s \in Seq(Nat), NEW t \in Seq(Nat), NEW u, u = s \o t
  PROVE  /\ u \in Seq(Nat) /\ Len(u) = Len(s) + Len(t) /\ ToSet(u) = ToSet(s) \cup ToSet(t)
         /\ Len(s) \in Nat /\ Len(t) \in Nat
<1>1. u \in Seq(Nat) /\ Len(u) = Len(s) + Len(t)
  BY ConcatProperties
<1>2. ToSet(u) = ToSet(s) \cup ToSet(t)
  BY SetOfConcat
<1>3. QED
  BY <1>1, <1>2

LEMMA WriteNowKeeps ==
  ASSUME IInv, WriteNow
  PROVE  IInv'
<1>1. /\ Typed /\ Lists /\ Headers /\ Accounted /\ OutputKept /\ OutputWaits /\ Causes
      /\ InputSound
  BY DEF IInv
<1> PICK size \in 1..(MaxOut - written) : \E sent \in 0..size :
        /\ wire' = wire \o Numbers(written, sent)
        /\ written' = written + size
        /\ IF sent = size
           THEN UNCHANGED <<ses, out, free>>
           ELSE /\ Queue(Numbers(written, size), sent)
                /\ ses' = [ses EXCEPT !.wio = TRUE, !.outTotal = @ + (size - sent)]
        /\ past' = [past EXCEPT !.overtaken = @ \/ out # <<>>,
                                !.paused = IF sent < size THEN "no" ELSE @]
  BY DEF WriteNow
<1>2. PICK sent \in 0..size :
        /\ wire' = wire \o Numbers(written, sent)
        /\ written' = written + size
        /\ IF sent = size
           THEN UNCHANGED <<ses, out, free>>
           ELSE /\ Queue(Numbers(written, size), sent)
                /\ ses' = [ses EXCEPT !.wio = TRUE, !.outTotal = @ + (size - sent)]
        /\ past' = [past EXCEPT !.overtaken = @ \/ out # <<>>,
                                !.paused = IF sent < size THEN "no" ELSE @]
  OBVIOUS
<1>3. /\ ses.bound /\ rdb = <<>> /\ ses.alive
      /\ UNCHANGED <<in, rdb, room, net, arrived, got>>
  BY DEF WriteNow, UserCode
<1>4. /\ written \in Nat /\ size \in Nat /\ sent \in Nat /\ sent <= size
      /\ written' \in 0..MaxOut /\ written' = written + size
      /\ ses \in Sessions /\ past \in Pasts /\ wire \in Seq(Nat) /\ out \in Seq(Buf)
      /\ free \in Seq(Node)
  <2>1. written \in 0..MaxOut /\ MaxOut \in Nat
    BY <1>1, SocketSessionAssumption DEF Typed
  <2>2. written \in Nat /\ size \in Nat /\ sent \in Nat /\ sent <= size
    BY <2>1
  <2>3. written' \in 0..MaxOut
    BY <1>2, <2>1, <2>2
  <2>4. QED
    BY <1>1, <1>2, <2>2, <2>3 DEF Typed
<1> DEFINE b == Numbers(written, size)
           p == Numbers(written, sent)
           q == SubSeq(b, sent + 1, Len(b))
           C == Contents(out)
           D == Contents(out')
<1>5. b \in Seq(Nat) /\ Len(b) = size /\ \A i \in 1..size : b[i] = written + i
  BY <1>4, NumbersIs
<1>6. p \in Seq(Nat) /\ Len(p) = sent /\ \A i \in 1..sent : p[i] = written + i
  BY <1>4, NumbersIs
<1>7. C \in Seq(Nat)
  BY <1>4, LeftsType
<1> HIDE DEF b, p
<1>8. p = SubSeq(b, 1, sent) /\ q \in Seq(Nat) /\ p \o q = b /\ Len(q) = size - sent
  <2> DEFINE r == SubSeq(b, 1, sent)
  <2>1. sent \in 0..Len(b)
    BY <1>4, <1>5
  <2>2. /\ r \in Seq(Nat) /\ Len(r) = sent /\ \A i \in 1..sent : r[i] = b[i]
        /\ q \in Seq(Nat) /\ Len(q) = Len(b) - sent /\ r \o q = b
    BY <1>5, <2>1, CutAt
  <2> HIDE DEF r, q
  <2>3. ASSUME NEW i \in 1..Len(p) PROVE p[i] = r[i]
    <3>1. i \in 1..sent /\ i \in 1..size
      BY <1>4, <1>6
    <3>2. QED
      BY <1>5, <1>6, <2>2, <3>1
  <2>4. p = r
    BY <1>6, <2>2, <2>3, SeqEqual
  <2>5. QED
    BY <1>5, <2>2, <2>4 DEF r
<1>9. /\ past' \in Pasts /\ past'.empty = past.empty /\ past'.full = past.full
      /\ past'.overtaken = (past.overtaken \/ out # <<>>)
      /\ past'.paused = IF sent < size THEN "no" ELSE past.paused
  <2> DEFINE w == IF sent < size THEN "no" ELSE past.paused
             v == past.overtaken \/ out # <<>>
  <2>1. w \in {"no", "partial", "disabled"} /\ v \in BOOLEAN
    BY <1>4 DEF Pasts
  <2>2. past' = [past EXCEPT !.overtaken = v, !.paused = w]
    BY <1>2
  <2> HIDE DEF w, v
  <2>3. past' \in Pasts /\ past'.empty = past.empty /\ past'.full = past.full
        /\ past'.overtaken = v /\ past'.paused = w
    BY <1>4, <2>1, <2>2 DEF Pasts
  <2>4. QED
    BY <2>3 DEF v, w
(* Whether or not a rest is queued.                                        *)
<1>10. /\ out' \in Seq(Buf) /\ free' \in Seq(Node) /\ Headers'
       /\ D = C \o q
       /\ NoEmpty(out) => NoEmpty(out')
       /\ ses' \in Sessions /\ ses'.bound /\ ses'.alive /\ ses'.rio = ses.rio
       /\ ses'.inTotal = ses.inTotal /\ ses'.outTotal = ses.outTotal + (size - sent)
       /\ ses'.wio \/ (out' = out /\ ses'.wio = ses.wio /\ past'.paused = past.paused)
  <2>1. CASE sent = size
    <3>1. ses' = ses /\ out' = out /\ free' = free
      BY <1>2, <2>1
    <3>2. q = <<>>
      <4>1. Len(q) = 0
        BY <1>4, <1>8, <2>1
      <4> HIDE DEF q
      <4>2. QED
        BY <1>8, <4>1, EmptySeq
    <3>3. C \o <<>> = C
      BY <1>7, ConcatEmptySeq
    <3>4. D = C \o q
      BY <3>1, <3>2, <3>3
    <3>5. ses.outTotal \in Nat
      BY <1>4 DEF Sessions
    <3>6. ses'.outTotal = ses.outTotal + (size - sent)
      BY <1>4, <2>1, <3>1, <3>5
    <3>7. past'.paused = past.paused
      BY <1>4, <1>9, <2>1
    <3>8. Headers'
      BY <1>1, <1>3, <3>1, HeadersSame
    <3>9. QED
      BY <1>3, <1>4, <3>1, <3>4, <3>6, <3>7, <3>8
  <2>2. CASE sent # size
    <3>1. /\ Queue(b, sent)
          /\ ses' = [ses EXCEPT !.wio = TRUE, !.outTotal = @ + (size - sent)]
      BY <1>2, <2>2 DEF b
    <3>2. sent \in 0..Len(b) /\ sent < Len(b)
      BY <1>4, <1>5, <2>2
    <3>3. /\ out' \in Seq(Buf) /\ free' \in Seq(Node) /\ out' # <<>>
          /\ Contents(out') = Contents(out) \o SubSeq(b, sent + 1, Len(b))
          /\ NoEmpty(out) /\ sent < Len(b) => NoEmpty(out')
          /\ Headers'
      BY <1>1, <1>3, <1>5, <3>1, <3>2, QueueIs
    <3>4. /\ ses' \in Sessions /\ ses'.bound /\ ses'.alive /\ ses'.wio /\ ses'.rio = ses.rio
          /\ ses'.inTotal = ses.inTotal /\ ses'.outTotal = ses.outTotal + (size - sent)
      <4> DEFINE t == ses.outTotal + (size - sent)
      <4>1. ses.outTotal \in Nat
        BY <1>4 DEF Sessions
      <4>2. t \in Nat /\ ses' = [ses EXCEPT !.wio = TRUE, !.outTotal = t]
        BY <1>4, <3>1, <4>1
      <4> HIDE DEF t
      <4>3. ses' \in Sessions
        BY <1>4, <4>2 DEF Sessions
      <4>4. /\ ses'.bound = ses.bound /\ ses'.alive = ses.alive /\ ses'.wio
            /\ ses'.rio = ses.rio /\ ses'.inTotal = ses.inTotal /\ ses'.outTotal = t
        BY <1>4, <4>2 DEF Sessions
      <4>5. QED
        BY <1>3, <4>3, <4>4 DEF t
    <3>5. QED
      BY <3>2, <3>3, <3>4
  <2>3. QED
    BY <2>1, <2>2
<1> HIDE DEF q
<1>11. wire' = wire \o p /\ wire' \in Seq(Nat)
  <2>1. wire' = wire \o p
    BY <1>2 DEF p
  <2>2. QED
    BY <1>4, <1>6, <2>1, ConcatProperties
<1>12. Typed' /\ Lists'
  BY <1>1, <1>3, <1>4, <1>9, <1>10, <1>11 DEF Typed, Lists
<1>13. Accounted'
  <2>1. ses.inTotal = Len(Contents(in)) /\ ses.outTotal = Len(C)
    BY <1>1 DEF Accounted
  <2>2. Len(C \o q) = Len(C) + Len(q)
    BY <1>7, <1>8, ConcatProperties
  <2>3. ses'.outTotal = Len(Contents(out'))
    BY <1>8, <1>10, <2>1, <2>2
  <2>4. ses'.inTotal = Len(Contents(in'))
    BY <1>3, <1>10, <2>1
  <2>5. QED
    BY <2>3, <2>4 DEF Accounted
<1>14. OutputKept'
  <2> DEFINE a == wire \o C
             c == wire' \o D
  <2>1. /\ Len(a) = written /\ ToSet(a) = 1..written
        /\ ~past.overtaken => a = Numbers(0, written)
    BY <1>1, <1>3 DEF OutputKept
  <2> HIDE DEF C, D
  <2>2. a \in Seq(Nat) /\ Len(a) = Len(wire) + Len(C) /\ ToSet(a) = ToSet(wire) \cup ToSet(C)
    BY <1>4, <1>7, Joined
  <2>3. /\ Len(a \o b) = written + size
        /\ ToSet(a) \cup ToSet(b) = 1..(written + size)
        /\ a = Numbers(0, written) => a \o b = Numbers(0, written + size)
    <3> HIDE DEF a
    <3>1. a \in Seq(Nat) /\ Len(a) = written /\ ToSet(a) = 1..written
      BY <2>1, <2>2
    <3>2. /\ Len(a \o Numbers(written, size)) = written + size
          /\ ToSet(a) \cup ToSet(Numbers(written, size)) = 1..(written + size)
          /\ a = Numbers(0, written) =>
               a \o Numbers(written, size) = Numbers(0, written + size)
      BY <1>4, <3>1, WrittenMore
    <3>3. QED
      BY <3>2 DEF b
  <2>4. D \in Seq(Nat) /\ Len(D) = Len(C) + Len(q) /\ ToSet(D) = ToSet(C) \cup ToSet(q)
    BY <1>7, <1>8, <1>10, Joined
  <2>5. Len(wire') = Len(wire) + Len(p) /\ ToSet(wire') = ToSet(wire) \cup ToSet(p)
    BY <1>4, <1>6, <1>11, Joined
  <2>6. Len(c) = Len(wire') + Len(D) /\ ToSet(c) = ToSet(wire') \cup ToSet(D)
    BY <1>11, <2>4, Joined
  <2>7. ToSet(b) = ToSet(p) \cup ToSet(q)
    BY <1>6, <1>8, Joined
  <2>8. Len(c) = written + size
    <3>1. Len(wire) \in Nat /\ Len(C) \in Nat
      BY <1>4, <1>7
    <3> HIDE DEF a, c
    <3>2. Len(c) = (Len(wire) + Len(p)) + (Len(C) + Len(q)) /\ Len(wire) + Len(C) = written
      BY <2>1, <2>2, <2>4, <2>5, <2>6
    <3>3. Len(p) = sent /\ Len(q) = size - sent /\ sent \in Nat /\ size \in Nat
      BY <1>4, <1>6, <1>8
    <3>4. QED
      BY <3>1, <3>2, <3>3
  <2>9. ToSet(c) = 1..(written + size)
    <3> HIDE DEF a, c
    <3>1. ToSet(c) = ToSet(a) \cup ToSet(b)
      BY <2>2, <2>4, <2>5, <2>6, <2>7
    <3>2. QED
      BY <2>3, <3>1
  <2>10. ASSUME ~past'.overtaken PROVE c = Numbers(0, written')
    <3>1. ~past.overtaken /\ out = <<>>
      BY <1>9, <2>10
    <3>2. C = <<>>
      BY <3>1, ContentsEmpty, Zenon DEF C
    <3>3. wire \o <<>> = wire /\ <<>> \o q = q
      BY <1>4, <1>8, ConcatEmptySeq
    <3>4. a = wire /\ D = q
      BY <1>10, <3>2, <3>3
    <3>5. c = (wire \o p) \o q
      <4>1. c = wire' \o D
        OBVIOUS
      <4> HIDE DEF c
      <4>2. QED
        BY <1>11, <3>4, <4>1
    <3>6. (wire \o p) \o q = wire \o (p \o q)
      <4>1. p \in Seq(Nat) /\ q \in Seq(Nat) /\ wire \in Seq(Nat)
        BY <1>4, <1>6, <1>8
      <4>2. QED
        BY <4>1, ConcatThree
    <3>7. c = a \o b
      <4> HIDE DEF a, c
      <4>1. QED
        BY <1>8, <3>4, <3>5, <3>6
    <3> HIDE DEF a, c
    <3>8. QED
      BY <1>4, <2>1, <2>3, <3>1, <3>7
  <2> HIDE DEF a, c
  <2>11. /\ Len(c) = written' /\ ToSet(c) = 1..written'
         /\ ~past'.overtaken => c = Numbers(0, written')
    BY <1>4, <2>8, <2>9, <2>10
  <2>12. QED
    BY <2>11 DEF OutputKept, c, D
<1>15. OutputWaits'
  BY <1>1, <1>3, <1>10 DEF OutputWaits
<1>16. Causes'
  <2>1. past'.empty \/ NoEmpty(out')
    BY <1>1, <1>9, <1>10 DEF Causes
  <2>2. (past.empty \/ NoEmpty(out))'
    BY <2>1 DEF NoEmpty
  <2>3. QED
    BY <1>1, <1>3, <1>9, <1>10, <2>2 DEF Causes, DeadCause
<1>17. InputSound'
  BY <1>1, <1>3, <1>10, InputSame
<1>18. QED
  BY <1>10, <1>12, <1>13, <1>14, <1>15, <1>16, <1>17 DEF IInv

(* What both ends of _ev_write_cb keep: n bytes have left the output.      *)
LEMMA SendsKeeps ==
  ASSUME IInv, NEW n \in 0..Len(Contents(out)), Sends(n),
         UNCHANGED <<in, rdb, room, net, arrived, got, written>>,
         ses' \in Sessions, past' \in Pasts, ses'.bound = ses.bound, ses'.rio => ses.rio,
         ses'.inTotal = ses.inTotal, ses'.outTotal = ses.outTotal - n,
         ses'.alive => ses.alive,
         ses'.alive = ses.alive \/ net.gone \/ past.empty,
         ses'.alive => past'.paused # "no" \/ (NoEmpty(out) /\ n = Len(Contents(out))),
         past'.full = past.full, past'.empty = past.empty,
         past'.overtaken = past.overtaken
  PROVE  IInv'
<1>1. /\ Typed /\ Lists /\ Headers /\ Accounted /\ OutputKept /\ OutputWaits /\ Causes
      /\ InputSound
  BY DEF IInv
<1>2. /\ out' \in Seq(Buf) /\ free' \in Seq(Node) /\ wire' \in Seq(Nat)
      /\ Len(Contents(out')) = Len(Contents(out)) - n
      /\ wire' \o Contents(out') = wire \o Contents(out)
      /\ NoEmpty(out) => NoEmpty(out')
      /\ NoEmpty(out) /\ n = Len(Contents(out)) => out' = <<>>
      /\ out = <<>> => out' = <<>>
      /\ Headers'
  BY <1>1, SendsIs
<1>3. Typed' /\ Lists'
  BY <1>1, <1>2 DEF Typed, Lists
<1>4. Accounted'
  <2>1. ses.inTotal = Len(Contents(in)) /\ ses.outTotal = Len(Contents(out))
    BY <1>1 DEF Accounted
  <2>2. ses'.outTotal = Len(Contents(out'))
    BY <1>2, <2>1
  <2>3. ses'.inTotal = Len(Contents(in'))
    BY <2>1
  <2>4. QED
    BY <2>2, <2>3 DEF Accounted
<1>5. OutputKept'
  BY <1>1, <1>2 DEF OutputKept
<1>6. OutputWaits'
  BY <1>2 DEF OutputWaits
<1>7. Causes'
  <2>1. (past.empty \/ NoEmpty(out))'
    <3>1. past'.empty \/ NoEmpty(out')
      BY <1>1, <1>2 DEF Causes
    <3>2. QED
      BY <3>1 DEF NoEmpty
  <2>2. QED
    BY <1>1, <2>1 DEF Causes, DeadCause
<1>8. InputSound'
  BY <1>1, InputSame
<1>9. QED
  BY <1>2, <1>3, <1>4, <1>5, <1>6, <1>7, <1>8 DEF IInv

LEMMA WriteCbKeeps ==
  ASSUME IInv, WriteCb
  PROVE  IInv'
<1>1. Typed /\ Accounted
  BY DEF IInv
<1>2. PICK n \in 0..Len(Contents(out)) :
        /\ \A i \in DOMAIN out : Upto(out, i - 1) <= n => LeftOf(out[i]) # <<>>
        /\ Sends(n)
        /\ ses' = [ses EXCEPT !.wio = FALSE, !.outTotal = @ - n]
        /\ past' = IF n < Len(Contents(out)) THEN [past EXCEPT !.paused = "partial"] ELSE past
  BY DEF WriteCb
<1>3. UNCHANGED <<in, rdb, room, net, arrived, got, written>>
  BY DEF WriteCb
<1>4. ses \in Sessions /\ past \in Pasts /\ out \in Seq(Buf)
  BY <1>1 DEF Typed
<1>5. Len(Contents(out)) \in Nat /\ ses.outTotal = Len(Contents(out)) /\ n \in Nat
      /\ n <= Len(Contents(out))
  BY <1>1, <1>4, LeftsType DEF Accounted
<1>6. /\ ses' \in Sessions /\ ses'.bound = ses.bound /\ ses'.rio = ses.rio
      /\ ses'.inTotal = ses.inTotal /\ ses'.outTotal = ses.outTotal - n
      /\ ses'.alive = ses.alive
  <2> DEFINE t == ses.outTotal - n
  <2>1. t \in Nat /\ ses' = [ses EXCEPT !.wio = FALSE, !.outTotal = t]
    BY <1>2, <1>5
  <2> HIDE DEF t
  <2>2. ses' \in Sessions
    BY <1>4, <2>1 DEF Sessions
  <2>3. /\ ses'.bound = ses.bound /\ ses'.rio = ses.rio /\ ses'.inTotal = ses.inTotal
        /\ ses'.outTotal = t /\ ses'.alive = ses.alive
    BY <1>4, <2>1 DEF Sessions
  <2>4. QED
    BY <2>2, <2>3 DEF t
<1>7. /\ past' \in Pasts /\ past'.full = past.full /\ past'.empty = past.empty
      /\ past'.overtaken = past.overtaken
      /\ n < Len(Contents(out)) => past'.paused = "partial"
  <2>1. CASE n < Len(Contents(out))
    <3>1. past' = [past EXCEPT !.paused = "partial"]
      BY <1>2, <2>1
    <3>2. QED
      BY <1>4, <3>1 DEF Pasts
  <2>2. CASE ~(n < Len(Contents(out)))
    BY <1>2, <1>4, <2>2
  <2>3. QED
    BY <2>1, <2>2
<1>8. past'.paused # "no" \/ (NoEmpty(out) /\ n = Len(Contents(out)))
  <2>1. SUFFICES ASSUME n = Len(Contents(out)), NEW i \in DOMAIN out
                 PROVE  LeftOf(out[i]) # <<>>
    BY <1>5, <1>7 DEF NoEmpty
  <2>2. i - 1 \in 0..Len(out) /\ Len(out) \in 0..Len(out) /\ i - 1 <= Len(out)
    BY <1>4
  <2>3. Upto(out, i - 1) <= Upto(out, Len(out))
    BY <1>4, <2>2, UptoGrows
  <2>4. Upto(out, Len(out)) = Len(Contents(out))
    BY <1>4, <2>2, UptoFacts
  <2>5. QED
    BY <1>2, <2>1, <2>3, <2>4
<1>9. QED
  BY <1>2, <1>3, <1>6, <1>7, <1>8, SendsKeeps

LEMMA WriteCbFailsKeeps ==
  ASSUME IInv, WriteCbFails
  PROVE  IInv'
<1>1. Typed /\ Accounted /\ Causes
  BY DEF IInv
<1>2. PICK k \in 0..(Len(out) - 1) :
        /\ net.gone \/ LeftOf(out[k + 1]) = <<>>
        /\ Sends(Upto(out, k))
        /\ ses' = Dead([ses EXCEPT !.outTotal = @ - Upto(out, k)])
  BY DEF WriteCbFails
<1>3. UNCHANGED <<in, rdb, room, net, arrived, got, written, past>>
  BY DEF WriteCbFails
<1>4. ses \in Sessions /\ past \in Pasts /\ out \in Seq(Buf)
  BY <1>1 DEF Typed
<1> DEFINE n == Upto(out, k)
<1>5. n \in 0..Len(Contents(out)) /\ ses.outTotal = Len(Contents(out))
      /\ Len(Contents(out)) \in Nat
  <2>1. k \in 0..Len(out) /\ Len(out) \in 0..Len(out) /\ k <= Len(out)
    BY <1>4
  <2>2. Upto(out, k) <= Upto(out, Len(out))
    BY <1>4, <2>1, UptoGrows
  <2>3. Upto(out, Len(out)) = Len(Contents(out)) /\ Upto(out, k) \in Nat
        /\ Len(Contents(out)) \in Nat
    BY <1>4, <2>1, UptoFacts, LeftsType
  <2>4. QED
    BY <1>1, <2>2, <2>3 DEF Accounted
<1>6. /\ ses' \in Sessions /\ ses'.bound = ses.bound /\ ~ses'.rio
      /\ ses'.inTotal = ses.inTotal /\ ses'.outTotal = ses.outTotal - n
      /\ ~ses'.alive
  <2> DEFINE t == ses.outTotal - n
  <2>1. t \in Nat
    BY <1>5
  <2>2. ses' = [ses EXCEPT !.outTotal = t, !.alive = FALSE, !.rio = FALSE, !.wio = FALSE]
    BY <1>2, <1>4 DEF Dead, Sessions
  <2> HIDE DEF t
  <2>3. ses' \in Sessions
    BY <1>4, <2>1, <2>2 DEF Sessions
  <2>4. /\ ses'.bound = ses.bound /\ ~ses'.rio /\ ses'.inTotal = ses.inTotal
        /\ ses'.outTotal = t /\ ~ses'.alive
    BY <1>4, <2>2 DEF Sessions
  <2>5. QED
    BY <2>3, <2>4 DEF t
<1>7. net.gone \/ past.empty
  <2>1. SUFFICES ASSUME LeftOf(out[k + 1]) = <<>> PROVE past.empty
    BY <1>2
  <2>2. k + 1 \in DOMAIN out
    BY <1>4
  <2>3. ~NoEmpty(out)
    BY <2>1, <2>2 DEF NoEmpty
  <2>4. QED
    BY <1>1, <2>3 DEF Causes
<1>8. Sends(n)
  BY <1>2
<1> HIDE DEF n
<1>9. QED
  BY <1>3, <1>4, <1>5, <1>6, <1>7, <1>8, SendsKeeps

LEMMA NumbersPrefix ==
  ASSUME NEW k \in Nat, NEW a \in Seq(Nat), NEW b \in Seq(Nat), a \o b = Numbers(0, k)
  PROVE  a = Numbers(0, Len(a)) /\ Len(a) + Len(b) = k
<1> DEFINE c == Numbers(0, k)
           m == Len(a)
           d == Numbers(0, m)
<1>1. c \in Seq(Nat) /\ Len(c) = k /\ \A i \in 1..k : c[i] = 0 + i
  BY NumbersIs
<1>2. d \in Seq(Nat) /\ Len(d) = m /\ \A i \in 1..m : d[i] = 0 + i
  <2>1. m \in Nat
    OBVIOUS
  <2> HIDE DEF m
  <2>2. QED
    BY <2>1, NumbersIs
<1> DEFINE u == a \o b
<1>3. /\ u \in Seq(Nat) /\ Len(u) = Len(a) + Len(b)
      /\ \A i \in 1..Len(a) + Len(b) : u[i] = IF i <= Len(a) THEN a[i] ELSE b[i - Len(a)]
  BY ConcatProperties
<1>4. u = c
  OBVIOUS
<1> HIDE DEF c, d, u
<1>5. Len(a) + Len(b) = k /\ Len(a) \in Nat /\ Len(b) \in Nat
  BY <1>1, <1>3, <1>4
<1>6. ASSUME NEW i \in 1..Len(a) PROVE a[i] = d[i]
  <2>1. i \in 1..Len(a) + Len(b) /\ i <= Len(a) /\ i \in 1..k
    BY <1>5
  <2>2. u[i] = a[i]
    BY <1>3, <2>1
  <2>3. c[i] = 0 + i /\ d[i] = 0 + i
    BY <1>1, <1>2, <2>1
  <2>4. QED
    BY <1>4, <2>2, <2>3
<1>7. a = d
  BY <1>2, <1>6, SeqEqual
<1>8. QED
  BY <1>5, <1>7 DEF d

LEMMA TakesKeeps ==
  ASSUME IInv, UserCode, NEW n \in 0..Len(Contents(in)), Takes(n)
  PROVE  IInv' /\ got' = Numbers(0, Len(got')) /\ Len(got') = Len(got) + n
<1>1. /\ Typed /\ Lists /\ Headers /\ Accounted /\ OutputKept /\ OutputWaits /\ Causes
      /\ InputSound
  BY DEF IInv
<1>2. /\ ses' = [ses EXCEPT !.inTotal = @ - n]
      /\ UNCHANGED <<out, rdb, room, net, arrived, written, wire, past>>
  BY DEF Takes
<1>3. ses.bound /\ rdb = <<>>
  BY DEF UserCode
<1> DEFINE C == Contents(in)
           p == SubSeq(C, 1, n)
           r == Contents(rdb)
           N == net.bytes
<1>4. /\ in' \in Seq(Buf) /\ free' \in Seq(Node)
      /\ got' = got \o p
      /\ got' \in Seq(Nat) /\ Len(got') = Len(got) + n
      /\ Len(Contents(in')) = Len(C) - n
      /\ C = p \o Contents(in')
      /\ \A i \in 1..Len(in') : i # 1 => in'[i].rpos = 0
      /\ Headers'
  BY <1>1, TakesIs
<1>5. /\ in \in Seq(Buf) /\ rdb \in Seq(Buf) /\ got \in Seq(Nat) /\ N \in Seq(Nat)
      /\ ses \in Sessions /\ arrived \in Nat
  BY <1>1, SocketSessionAssumption DEF Typed
<1>6. C \in Seq(Nat) /\ r \in Seq(Nat) /\ Contents(in') \in Seq(Nat) /\ p \in Seq(Nat)
  <2>1. C \in Seq(Nat) /\ r \in Seq(Nat) /\ Contents(in') \in Seq(Nat)
    BY <1>4, <1>5, LeftsType
  <2>2. n \in 0..Len(C)
    OBVIOUS
  <2> HIDE DEF C
  <2>3. p \in Seq(Nat)
    BY <2>1, <2>2, CutAt
  <2>4. QED
    BY <2>1, <2>3
<1> DEFINE D == Contents(in')
<1> HIDE DEF C, p, r, N, D
<1>7. n \in Nat /\ n <= Len(C) /\ Len(C) \in Nat /\ ses.inTotal = Len(C)
  BY <1>1, <1>6 DEF Accounted, C
<1>8. /\ ses' \in Sessions /\ ses'.bound = ses.bound /\ ses'.rio = ses.rio
      /\ ses'.inTotal = ses.inTotal - n /\ ses'.outTotal = ses.outTotal
      /\ ses'.alive = ses.alive /\ ses'.wio = ses.wio
  <2> DEFINE t == ses.inTotal - n
  <2>1. t \in Nat /\ ses' = [ses EXCEPT !.inTotal = t]
    BY <1>2, <1>7
  <2> HIDE DEF t
  <2>2. ses' \in Sessions
    BY <1>5, <2>1 DEF Sessions
  <2>3. /\ ses'.bound = ses.bound /\ ses'.rio = ses.rio /\ ses'.inTotal = t
        /\ ses'.outTotal = ses.outTotal /\ ses'.alive = ses.alive /\ ses'.wio = ses.wio
    BY <1>5, <2>1 DEF Sessions
  <2>4. QED
    BY <2>2, <2>3 DEF t
<1>9. Typed' /\ Lists'
  BY <1>1, <1>2, <1>3, <1>4, <1>8 DEF Typed, Lists
<1>10. Accounted'
  <2>1. ses'.inTotal = Len(Contents(in'))
    BY <1>4, <1>7, <1>8
  <2>2. ses'.outTotal = Len(Contents(out'))
    BY <1>1, <1>2, <1>8 DEF Accounted
  <2>3. QED
    BY <2>1, <2>2 DEF Accounted
<1>11. OutputKept' /\ OutputWaits'
  BY <1>1, <1>2, <1>8, KeptSame, WaitsSame
<1>12. Causes'
  BY <1>1, <1>2, <1>8, CausesSame
<1> DEFINE rest == r \o N
<1>13. rest \in Seq(Nat)
  BY <1>5, <1>6, ConcatProperties
<1> HIDE DEF rest
<1>14. (got \o p) \o (D \o rest) = got \o (C \o rest)
  <2>1. D \in Seq(Nat) /\ C = p \o D
    BY <1>4, <1>6 DEF D
  <2>2. D \o rest \in Seq(Nat)
    BY <1>13, <2>1, ConcatProperties
  <2>3. got \in Seq(Nat) /\ p \in Seq(Nat) /\ D \in Seq(Nat) /\ rest \in Seq(Nat)
    BY <1>5, <1>6, <1>13, <2>1
  <2>4. (got \o p) \o (D \o rest) = got \o (p \o (D \o rest))
    BY <2>2, <2>3, ConcatThree
  <2>5. (p \o D) \o rest = p \o (D \o rest)
    BY <2>3, ConcatThree
  <2>6. QED
    BY <2>1, <2>4, <2>5
<1>15. Arrivals' = Arrivals
  <2>1. Arrivals' = got' \o (D \o rest)
    BY <1>2 DEF Arrivals, D, rest, r, N
  <2>2. Arrivals = got \o (C \o rest)
    BY DEF Arrivals, C, rest, r, N
  <2>3. QED
    BY <1>4, <1>14, <2>1, <2>2
<1>16. got' = Numbers(0, Len(got'))
  <2>1. D \in Seq(Nat)
    BY <1>6 DEF D
  <2>2. D \o rest \in Seq(Nat)
    BY <1>13, <2>1, ConcatProperties
  <2>3. got' \o (D \o rest) = Numbers(0, arrived)
    BY <1>1, <1>2, <1>3, <1>15 DEF InputSound, Arrivals, D, rest, r, N
  <2>4. QED
    BY <1>4, <1>5, <2>2, <2>3, NumbersPrefix
<1>17. InputSound'
  BY <1>1, <1>2, <1>4, <1>8, <1>15, <1>16 DEF InputSound
<1>18. QED
  BY <1>4, <1>9, <1>10, <1>11, <1>12, <1>16, <1>17 DEF IInv

-----------------------------------------------------------------------------
(* The search for the end of a line.                                       *)
Alphabet(sep) == {Text[n] : n \in Nat} \cup ToSet(sep)

LEMMA LettersType ==
  ASSUME NEW a \in Seq(Nat), NEW sep
  PROVE  /\ Letters(a) \in Seq(Alphabet(sep)) /\ Len(Letters(a)) = Len(a)
         /\ \A i \in 1..Len(a) : Letters(a)[i] = Text[a[i]]
<1>1. Len(a) \in Nat /\ DOMAIN a = 1..Len(a) /\ \A i \in 1..Len(a) : a[i] \in Nat
  OBVIOUS
<1>2. Letters(a) = [i \in 1..Len(a) |-> Text[a[i]]]
  BY <1>1 DEF Letters
<1>3. \A i \in 1..Len(a) : Text[a[i]] \in Alphabet(sep)
  BY <1>1 DEF Alphabet
<1> DEFINE K == Alphabet(sep)
           u == Letters(a)
           n == Len(a)
<1> HIDE DEF K
<1>4. u \in [1..n -> K]
  BY <1>2, <1>3 DEF K
<1>5. \A i \in 1..n : u[i] = Text[a[i]]
  BY <1>2
<1> HIDE DEF u, n
<1>6. n \in Nat
  BY <1>1 DEF n
<1>7. u \in Seq(K) /\ Len(u) = n
  BY <1>4, <1>6
<1>8. QED
  BY <1>5, <1>7 DEF u, K, n

LEMMA LettersConcat ==
  ASSUME NEW a \in Seq(Nat), NEW b \in Seq(Nat)
  PROVE  Letters(a \o b) = Letters(a) \o Letters(b)
<1> DEFINE K == Alphabet(<<>>)
           c == a \o b
           u == Letters(a)
           v == Letters(b)
           w == Letters(c)
           x == u \o v
<1> HIDE DEF K
<1>1. /\ c \in Seq(Nat) /\ Len(c) = Len(a) + Len(b)
      /\ \A i \in 1..Len(a) + Len(b) : c[i] = IF i <= Len(a) THEN a[i] ELSE b[i - Len(a)]
  BY ConcatProperties
<1>2. u \in Seq(K) /\ Len(u) = Len(a) /\ \A i \in 1..Len(a) : u[i] = Text[a[i]]
  BY LettersType DEF K
<1>3. v \in Seq(K) /\ Len(v) = Len(b) /\ \A i \in 1..Len(b) : v[i] = Text[b[i]]
  BY LettersType DEF K
<1> HIDE DEF c, u, v
<1>4. w \in Seq(K) /\ Len(w) = Len(c) /\ \A i \in 1..Len(c) : w[i] = Text[c[i]]
  BY <1>1, LettersType DEF K
<1>5. /\ x \in Seq(K) /\ Len(x) = Len(u) + Len(v)
      /\ \A i \in 1..Len(u) + Len(v) : x[i] = IF i <= Len(u) THEN u[i] ELSE v[i - Len(u)]
  BY <1>2, <1>3, ConcatProperties
<1>6. Len(a) \in Nat /\ Len(b) \in Nat
  OBVIOUS
<1> HIDE DEF w, x
<1>7. ASSUME NEW i \in 1..Len(w) PROVE w[i] = x[i]
  <2>1. i \in 1..Len(a) + Len(b) /\ i \in 1..Len(c) /\ i \in 1..Len(u) + Len(v)
    BY <1>1, <1>2, <1>3, <1>4
  <2>2. w[i] = Text[c[i]]
    BY <1>4, <2>1
  <2>3. CASE i <= Len(a)
    <3>1. i \in 1..Len(a)
      BY <1>6, <2>1, <2>3
    <3>2. c[i] = a[i] /\ x[i] = u[i]
      BY <1>1, <1>2, <1>5, <2>1, <2>3
    <3>3. QED
      BY <1>2, <2>2, <3>1, <3>2
  <2>4. CASE ~(i <= Len(a))
    <3>1. i - Len(a) \in 1..Len(b)
      BY <1>6, <2>1, <2>4
    <3>2. c[i] = b[i - Len(a)] /\ x[i] = v[i - Len(a)]
      BY <1>1, <1>2, <1>5, <2>1, <2>4
    <3>3. QED
      BY <1>3, <2>2, <3>1, <3>2
  <2>5. QED
    BY <2>3, <2>4
<1>8. Len(w) = Len(x)
  BY <1>1, <1>2, <1>3, <1>4, <1>5
<1>9. w = x
  BY <1>4, <1>5, <1>7, <1>8, SeqEqual
<1>10. QED
  BY <1>9 DEF w, x, c, u, v

(* t begins with w.                                                        *)
Begins(t, w) == Len(w) <= Len(t) /\ \A i \in 1..Len(w) : t[i] = w[i]

LEMMA BeginsIs ==
  ASSUME NEW K, NEW t \in Seq(K), NEW w \in Seq(K), Len(w) <= Len(t)
  PROVE  SubSeq(t, 1, Len(w)) = w <=> Begins(t, w)
<1> DEFINE v == SubSeq(t, 1, Len(w))
<1>1. Len(w) \in Nat /\ Len(t) \in Nat /\ 1 \in 1..(Len(t) + 1) /\ Len(w) \in 0..Len(t)
  OBVIOUS
<1>2. /\ v \in Seq(K)
      /\ Len(v) = IF 1 <= Len(w) THEN Len(w) - 1 + 1 ELSE 0
      /\ \A i \in 1..(Len(w) - 1 + 1) : v[i] = t[1 + i - 1]
  BY <1>1, PartKind
<1> HIDE DEF v
<1>3. Len(v) = Len(w)
  BY <1>1, <1>2
<1>4. ASSUME NEW i \in 1..Len(w) PROVE v[i] = t[i]
  <2>1. i \in 1..(Len(w) - 1 + 1) /\ 1 + i - 1 = i
    BY <1>1
  <2>2. QED
    BY <1>2, <2>1
<1>5. ASSUME v = w PROVE Begins(t, w)
  BY <1>4, <1>5 DEF Begins
<1>6. ASSUME Begins(t, w) PROVE v = w
  <2>1. ASSUME NEW i \in 1..Len(v) PROVE v[i] = w[i]
    BY <1>3, <1>4, <1>6 DEF Begins
  <2>2. QED
    BY <1>2, <1>3, <2>1, SeqEqual
<1>7. v = w <=> Begins(t, w)
  BY <1>5, <1>6
<1>8. QED
  BY <1>7 DEF v

(* Where h ends before w does, w goes on in t.                             *)
LEMMA BeginsConcat ==
  ASSUME NEW K, NEW h \in Seq(K), NEW t \in Seq(K), NEW w \in Seq(K)
  PROVE  Begins(h \o t, w) <=>
           IF Len(h) >= Len(w) THEN SubSeq(h, 1, Len(w)) = w
           ELSE /\ h = SubSeq(w, 1, Len(h))
                /\ Begins(t, SubSeq(w, Len(h) + 1, Len(w)))
<1> DEFINE c == h \o t
           v == SubSeq(w, Len(h) + 1, Len(w))
<1>1. /\ c \in Seq(K) /\ Len(c) = Len(h) + Len(t)
      /\ \A i \in 1..Len(h) + Len(t) : c[i] = IF i <= Len(h) THEN h[i] ELSE t[i - Len(h)]
  BY ConcatProperties
<1>2. Len(h) \in Nat /\ Len(t) \in Nat /\ Len(w) \in Nat
  OBVIOUS
<1> HIDE DEF c
<1>3. \A i \in 1..Len(h) : c[i] = h[i]
  BY <1>1, <1>2
<1>4. CASE Len(h) >= Len(w)
  <2>1. \A i \in 1..Len(w) : c[i] = h[i]
    BY <1>2, <1>3, <1>4
  <2>2. Begins(c, w) <=> Begins(h, w)
    BY <1>1, <1>2, <1>4, <2>1 DEF Begins
  <2>3. SubSeq(h, 1, Len(w)) = w <=> Begins(h, w)
    BY <1>2, <1>4, BeginsIs
  <2>4. QED
    BY <1>4, <2>2, <2>3 DEF c
<1>5. CASE ~(Len(h) >= Len(w))
  <2>1. Len(h) <= Len(w) /\ Len(h) \in 0..Len(w)
    BY <1>2, <1>5
  <2>2. SubSeq(w, 1, Len(h)) = h <=> Begins(w, h)
    BY <2>1, BeginsIs
  <2>3. /\ v \in Seq(K) /\ Len(v) = Len(w) - Len(h)
        /\ \A i \in 1..(Len(w) - Len(h)) : v[i] = w[Len(h) + i]
    BY <2>1, DropKind
  <2> HIDE DEF v
  <2>4. ASSUME Begins(c, w) PROVE Begins(w, h) /\ Begins(t, v)
    <3>1. \A i \in 1..Len(h) : w[i] = h[i]
      BY <1>2, <1>3, <2>1, <2>4 DEF Begins
    <3>2. ASSUME NEW i \in 1..Len(v) PROVE t[i] = v[i]
      <4>1. /\ Len(h) + i \in 1..Len(w) /\ i \in 1..(Len(w) - Len(h))
            /\ (Len(h) + i) - Len(h) = i /\ ~(Len(h) + i <= Len(h))
        BY <1>2, <2>1, <2>3
      <4>2. Len(w) <= Len(c) /\ c[Len(h) + i] = w[Len(h) + i]
        BY <2>4, <4>1 DEF Begins
      <4>3. Len(h) + i \in 1..Len(h) + Len(t)
        BY <1>1, <1>2, <4>1, <4>2
      <4>4. c[Len(h) + i] = t[i]
        BY <1>1, <4>1, <4>3
      <4>5. QED
        BY <2>3, <4>1, <4>2, <4>4
    <3>3. Len(v) <= Len(t)
      BY <1>1, <1>2, <2>3, <2>4 DEF Begins
    <3>4. QED
      BY <2>1, <3>1, <3>2, <3>3 DEF Begins
  <2>5. ASSUME Begins(w, h), Begins(t, v) PROVE Begins(c, w)
    <3>1. Len(w) <= Len(c)
      BY <1>1, <1>2, <2>3, <2>5 DEF Begins
    <3>2. ASSUME NEW i \in 1..Len(w) PROVE c[i] = w[i]
      <4>1. CASE i <= Len(h)
        <5>1. i \in 1..Len(h)
          BY <1>2, <4>1
        <5>2. QED
          BY <1>3, <2>5, <5>1 DEF Begins
      <4>2. CASE ~(i <= Len(h))
        <5>1. /\ i - Len(h) \in 1..(Len(w) - Len(h)) /\ Len(h) + (i - Len(h)) = i
              /\ i \in 1..Len(h) + Len(t)
          BY <1>1, <1>2, <3>1, <4>2
        <5>2. c[i] = t[i - Len(h)] /\ v[i - Len(h)] = w[i]
          BY <1>1, <2>3, <4>2, <5>1
        <5>3. t[i - Len(h)] = v[i - Len(h)]
          BY <2>3, <2>5, <5>1 DEF Begins
        <5>4. QED
          BY <5>2, <5>3
      <4>3. QED
        BY <4>1, <4>2
    <3>3. QED
      BY <3>1, <3>2 DEF Begins
  <2>6. Begins(c, w) <=> (h = SubSeq(w, 1, Len(h)) /\ Begins(t, v))
    BY <2>2, <2>4, <2>5
  <2>7. QED
    BY <1>5, <2>6 DEF c, v
<1>6. QED
  BY <1>4, <1>5

(* What a drop leaves after another one.                                   *)
LEMMA DropTwice ==
  ASSUME NEW K, NEW w \in Seq(K), NEW q \in 0..Len(w), NEW h \in 0..(Len(w) - q),
         NEW v, v = SubSeq(w, q + 1, Len(w))
  PROVE  SubSeq(v, h + 1, Len(v)) = SubSeq(w, (q + h) + 1, Len(w))
<1> DEFINE u == SubSeq(v, h + 1, Len(v))
           e == q + h
           x == SubSeq(w, e + 1, Len(w))
<1>1. Len(w) \in Nat /\ q \in Nat /\ h \in Nat /\ e \in 0..Len(w) /\ e = q + h
  OBVIOUS
<1>2. /\ v \in Seq(K) /\ Len(v) = Len(w) - q
      /\ \A i \in 1..(Len(w) - q) : v[i] = w[q + i]
  BY DropKind
<1> HIDE DEF e
<1>3. h \in 0..Len(v)
  BY <1>2
<1>4. /\ u \in Seq(K) /\ Len(u) = Len(v) - h
      /\ \A i \in 1..(Len(v) - h) : u[i] = v[h + i]
  BY <1>2, <1>3, DropKind
<1>5. /\ x \in Seq(K) /\ Len(x) = Len(w) - e
      /\ \A i \in 1..(Len(w) - e) : x[i] = w[e + i]
  BY <1>1, DropKind
<1> HIDE DEF u, x
<1>6. Len(u) = Len(x)
  BY <1>1, <1>2, <1>4, <1>5
<1>7. ASSUME NEW i \in 1..Len(u) PROVE u[i] = x[i]
  <2>1. /\ i \in 1..(Len(v) - h) /\ i \in 1..(Len(w) - e)
        /\ h + i \in 1..(Len(w) - q) /\ q + (h + i) = e + i
    BY <1>1, <1>2, <1>4
  <2>2. u[i] = v[h + i] /\ v[h + i] = w[q + (h + i)] /\ x[i] = w[e + i]
    BY <1>2, <1>4, <1>5, <2>1
  <2>3. QED
    BY <2>1, <2>2
<1>8. u = x
  BY <1>4, <1>5, <1>6, <1>7, SeqEqual
<1>9. QED
  BY <1>8 DEF u, x, e

LEMMA PlainKind ==
  ASSUME NEW sep \in Seps
  PROVE  sep \in Seq(Alphabet(sep)) /\ Len(sep) \in Nat /\ Len(sep) # 0
<1> DEFINE T == ToSet(sep)
           K == Alphabet(sep)
<1>1. sep \in Seq(T) /\ sep # <<>>
  BY SocketSessionAssumption
<1>2. T \subseteq K
  BY DEF Alphabet
<1> HIDE DEF T, K
<1>3. sep \in Seq(K)
  BY <1>1, <1>2
<1>4. Len(sep) \in Nat /\ Len(sep) # 0
  BY <1>1
<1>5. QED
  BY <1>3, <1>4 DEF K

(* The letters of a list from buffer i on.                                 *)
Rest(l, i) == Letters(Contents(SubSeq(l, i, Len(l))))

LEMMA RestIs ==
  ASSUME NEW l \in Seq(Buf), NEW sep, NEW i \in 1..(Len(l) + 1)
  PROVE  /\ Rest(l, i) \in Seq(Alphabet(sep))
         /\ Len(Rest(l, i)) = Len(Contents(SubSeq(l, i, Len(l))))
         /\ i = Len(l) + 1 => Len(Rest(l, i)) = 0
         /\ i <= Len(l) => Rest(l, i) = Letters(LeftOf(l[i])) \o Rest(l, i + 1)
<1> DEFINE r == SubSeq(l, i, Len(l))
           c == Contents(r)
<1>1. Len(l) \in Nat /\ Len(l) \in 0..Len(l) /\ i \in Nat /\ 1 <= i
  OBVIOUS
<1>2. /\ r \in Seq(Buf) /\ Len(r) = IF i <= Len(l) THEN Len(l) - i + 1 ELSE 0
      /\ \A n \in 1..(Len(l) - i + 1) : r[n] = l[i + n - 1]
  BY <1>1, PartType
<1> HIDE DEF r
<1>3. c \in Seq(Nat)
  BY <1>2, LeftsType
<1> HIDE DEF c
<1>4. Letters(c) \in Seq(Alphabet(sep)) /\ Len(Letters(c)) = Len(c)
  BY <1>3, LettersType
<1>5. ASSUME i = Len(l) + 1 PROVE Len(c) = 0
  <2>1. r = <<>>
    BY <1>1, <1>2, <1>5
  <2>2. c = <<>>
    BY <2>1, ContentsEmpty, Zenon DEF c
  <2>3. QED
    BY <2>2
<1>6. ASSUME i <= Len(l) PROVE Letters(c) = Letters(LeftOf(l[i])) \o Rest(l, i + 1)
  <2>1. /\ Len(r) = Len(l) - i + 1 /\ Len(r) # 0
        /\ 1 \in 1..(Len(l) - i + 1) /\ i + 1 - 1 = i /\ i \in 1..Len(l)
        /\ i - 1 \in 0..Len(l) /\ (i - 1) + 1 = i
    BY <1>1, <1>2, <1>6
  <2>2. r # <<>> /\ r[1] = l[i] /\ l[i] \in Buf
    <3>1. r[1] = l[i + 1 - 1]
      BY <1>2, <2>1
    <3>2. QED
      BY <1>2, <2>1, <3>1
  <2>3. c = LeftOf(r[1]) \o Contents(SubSeq(r, 2, Len(r))) /\ SubSeq(r, 2, Len(r)) \in Seq(Buf)
    BY <1>2, <2>2, ContentsFirst DEF c
  <2> DEFINE d == i - 1
             s == SubSeq(r, 2, Len(r))
             e == Contents(s)
  <2>4. s = SubSeq(l, i + 1, Len(l))
    <3>1. d \in 0..Len(l) /\ d + 1 = i /\ 1 \in 0..(Len(l) - d) /\ d + 1 + 1 = i + 1
      BY <1>1, <1>6
    <3> HIDE DEF d
    <3>2. r = SubSeq(l, d + 1, Len(l))
      BY <3>1 DEF r
    <3>3. SubSeq(r, 1 + 1, Len(r)) = SubSeq(l, (d + 1) + 1, Len(l))
      BY <3>1, <3>2, DropTwice
    <3>4. QED
      BY <3>1, <3>3
  <2>5. e \in Seq(Nat)
    BY <2>3, LeftsType
  <2>6. LeftOf(l[i]) \in Seq(Nat)
    BY <2>2, LeftType
  <2>7. Letters(LeftOf(l[i]) \o e) = Letters(LeftOf(l[i])) \o Letters(e)
    BY <2>5, <2>6, LettersConcat
  <2>8. Letters(e) = Rest(l, i + 1)
    BY <2>4 DEF Rest
  <2>9. QED
    BY <2>2, <2>3, <2>7, <2>8
<1>7. QED
  BY <1>4, <1>5, <1>6 DEF Rest, c, r

(* check_eol compares data from here on in buffer i, and what it compares  *)
(* from buffer i on is Ahead.                                              *)
Here(l, first, from, i) == LettersFrom(l[i], IF i = first THEN from ELSE 0)
Ahead(l, first, from, i) ==
  IF i = Len(l) + 1 THEN <<>> ELSE Here(l, first, from, i) \o Rest(l, i + 1)

(* A place in a list of which only the buffers up to it are read in part.  *)
Placed(l, first, from) ==
  /\ first \in 1..Len(l) /\ from \in 0..Len(l[first].bytes)
  /\ \A i \in 1..Len(l) : i > first => l[i].rpos = 0

LEMMA HereIs ==
  ASSUME NEW l \in Seq(Buf), NEW first, NEW from, Placed(l, first, from), NEW sep,
         NEW i \in first..Len(l)
  PROVE  /\ Here(l, first, from, i) \in Seq(Alphabet(sep))
         /\ Rest(l, i + 1) \in Seq(Alphabet(sep))
         /\ Ahead(l, first, from, i) = Here(l, first, from, i) \o Rest(l, i + 1)
         /\ Len(Ahead(l, first, from, i)) = Len(Here(l, first, from, i)) + Len(Rest(l, i + 1))
         /\ i < Len(l) => Ahead(l, first, from, i + 1) = Rest(l, i + 1)
         /\ i = Len(l) => Len(Rest(l, i + 1)) = 0
<1>1. /\ Len(l) \in Nat /\ first \in 1..Len(l) /\ i \in 1..Len(l) /\ i + 1 \in 1..(Len(l) + 1)
      /\ i # Len(l) + 1 /\ i + 1 # first
  BY DEF Placed
<1>2. l[i] \in Buf
  BY <1>1
<1> DEFINE k == IF i = first THEN from ELSE 0
           b == l[i].bytes
           c == SubSeq(b, k + 1, Len(b))
<1>3. b \in Seq(Nat)
  BY <1>2, LeftType
<1>4. k \in 0..Len(b)
  BY <1>1, <1>3 DEF Placed
<1> HIDE DEF b, k
<1>5. c \in Seq(Nat)
  BY <1>3, <1>4, DropKind
<1> HIDE DEF c
<1>6. Letters(c) \in Seq(Alphabet(sep))
  BY <1>5, LettersType
<1>7. Here(l, first, from, i) = Letters(c)
  BY DEF Here, LettersFrom, c, b, k
<1>8. Rest(l, i + 1) \in Seq(Alphabet(sep))
  BY <1>1, RestIs
<1>9. Ahead(l, first, from, i) = Here(l, first, from, i) \o Rest(l, i + 1)
  BY <1>1 DEF Ahead
<1>10. ASSUME i < Len(l) PROVE Ahead(l, first, from, i + 1) = Rest(l, i + 1)
  <2> DEFINE j == i + 1
  <2>1. j \in 1..(Len(l) + 1) /\ j <= Len(l) /\ j # Len(l) + 1 /\ j # first /\ j \in 1..Len(l)
        /\ j > first
    BY <1>1, <1>10
  <2> HIDE DEF j
  <2>2. l[j].rpos = 0
    BY <2>1 DEF Placed
  <2>3. Rest(l, j) = Letters(LeftOf(l[j])) \o Rest(l, j + 1)
    BY <2>1, RestIs
  <2>4. LeftOf(l[j]) = SubSeq(l[j].bytes, 0 + 1, Len(l[j].bytes))
    BY <2>2 DEF LeftOf
  <2>5. Here(l, first, from, j) = Letters(LeftOf(l[j]))
    BY <2>1, <2>4 DEF Here, LettersFrom
  <2>6. Ahead(l, first, from, j) = Here(l, first, from, j) \o Rest(l, j + 1)
    BY <2>1 DEF Ahead
  <2>7. QED
    BY <2>3, <2>5, <2>6 DEF j
<1>11. i = Len(l) => Len(Rest(l, i + 1)) = 0
  BY <1>1, RestIs
<1> DEFINE x == Here(l, first, from, i)
           y == Rest(l, i + 1)
<1>12. x \in Seq(Alphabet(sep)) /\ y \in Seq(Alphabet(sep))
  BY <1>6, <1>7, <1>8
<1> HIDE DEF x, y
<1>13. Len(x \o y) = Len(x) + Len(y)
  BY <1>12, ConcatProperties
<1>14. QED
  BY <1>9, <1>10, <1>11, <1>12, <1>13 DEF x, y

(* One step of check_eol, and what it says of the data ahead.              *)
MatchDom(l, first, sep) == (first..(Len(l) + 1)) \X (0..Len(sep))
MatchStep(l, first, from, sep, m, p) ==
  IF p[1] > Len(l) THEN FALSE
  ELSE LET here == Here(l, first, from, p[1])
           want == SubSeq(sep, p[2] + 1, Len(sep))
       IN  IF Len(here) >= Len(want)
           THEN SubSeq(here, 1, Len(want)) = want
           ELSE /\ here = SubSeq(want, 1, Len(here))
                /\ m[<<p[1] + 1, p[2] + Len(here)>>]
MatchRec(l, first, from, sep, m) ==
  m = [p \in MatchDom(l, first, sep) |-> MatchStep(l, first, from, sep, m, p)]
Matches(l, first, from, sep, i, q) ==
  i <= Len(l) /\ Begins(Ahead(l, first, from, i), SubSeq(sep, q + 1, Len(sep)))

LEMMA MatchGoesOn ==
  ASSUME NEW l \in Seq(Buf), NEW first, NEW from, Placed(l, first, from), NEW sep \in Seps,
         NEW i \in first..Len(l), NEW q \in 0..Len(sep),
         NEW here, here = Here(l, first, from, i),
         NEW want, want = SubSeq(sep, q + 1, Len(sep))
  PROVE  /\ Len(here) < Len(want) =>
              i + 1 \in first..(Len(l) + 1) /\ q + Len(here) \in 0..Len(sep)
         /\ Matches(l, first, from, sep, i, q) <=>
              IF Len(here) >= Len(want)
              THEN SubSeq(here, 1, Len(want)) = want
              ELSE /\ here = SubSeq(want, 1, Len(here))
                   /\ Matches(l, first, from, sep, i + 1, q + Len(here))
<1> DEFINE K == Alphabet(sep)
           rest == Rest(l, i + 1)
           z == SubSeq(want, Len(here) + 1, Len(want))
           next == SubSeq(sep, (q + Len(here)) + 1, Len(sep))
<1> HIDE DEF K
<1>1. Len(l) \in Nat /\ Len(sep) \in Nat /\ i \in Nat /\ first \in Nat /\ i <= Len(l)
      /\ first <= i
  BY PlainKind DEF Placed
<1>2. sep \in Seq(K)
  BY PlainKind DEF K
<1>3. /\ here \in Seq(K) /\ rest \in Seq(K)
      /\ Ahead(l, first, from, i) = here \o rest
      /\ i < Len(l) => Ahead(l, first, from, i + 1) = rest
      /\ i = Len(l) => Len(rest) = 0
  BY HereIs DEF K
<1> HIDE DEF rest
<1>4. want \in Seq(K) /\ Len(want) = Len(sep) - q
  BY <1>2, DropKind
<1>5. Len(here) \in Nat /\ Len(want) \in Nat
  BY <1>3, <1>4
<1>6. Len(here) < Len(want) => i + 1 \in first..(Len(l) + 1) /\ q + Len(here) \in 0..Len(sep)
  BY <1>1, <1>4, <1>5
<1>7. Begins(here \o rest, want) <=>
        IF Len(here) >= Len(want) THEN SubSeq(here, 1, Len(want)) = want
        ELSE here = SubSeq(want, 1, Len(here)) /\ Begins(rest, z)
  BY <1>3, <1>4, BeginsConcat
<1>8. Matches(l, first, from, sep, i, q) <=> Begins(here \o rest, want)
  BY <1>1, <1>3 DEF Matches
<1>9. CASE Len(here) >= Len(want)
  BY <1>6, <1>7, <1>8, <1>9
<1>10. CASE ~(Len(here) >= Len(want))
  <2>1. Len(here) < Len(want) /\ Len(here) \in 0..(Len(sep) - q)
    BY <1>1, <1>4, <1>5, <1>10
  <2>2. z = next
    BY <1>2, <2>1, DropTwice
  <2>3. Len(z) = Len(want) - Len(here)
    <3>1. Len(here) \in 0..Len(want)
      BY <1>5, <2>1
    <3>2. QED
      BY <1>4, <3>1, DropKind
  <2> HIDE DEF z, next
  <2>4. Begins(rest, z) <=> Matches(l, first, from, sep, i + 1, q + Len(here))
    <3>1. CASE i < Len(l)
      <4>1. i + 1 <= Len(l) /\ Ahead(l, first, from, i + 1) = rest
        BY <1>1, <1>3, <3>1
      <4>2. Matches(l, first, from, sep, i + 1, q + Len(here)) <=> Begins(rest, next)
        BY <4>1 DEF Matches, next
      <4>3. QED
        BY <2>2, <4>2
    <3>2. CASE ~(i < Len(l))
      <4>1. i = Len(l) /\ ~(i + 1 <= Len(l))
        BY <1>1, <3>2
      <4>2. ~(Len(z) <= Len(rest))
        BY <1>3, <1>5, <2>1, <2>3, <4>1
      <4>3. QED
        BY <4>1, <4>2 DEF Begins, Matches
    <3>3. QED
      BY <3>1, <3>2
  <2>5. Begins(here \o rest, want) <=> (here = SubSeq(want, 1, Len(here)) /\ Begins(rest, z))
    BY <1>7, <1>10
  <2>6. QED
    BY <1>6, <1>8, <1>10, <2>4, <2>5
<1>11. QED
  BY <1>9, <1>10

LEMMA MatchExists ==
  ASSUME NEW l \in Seq(Buf), NEW first, NEW from, Placed(l, first, from), NEW sep \in Seps,
         NEW f, f = [p \in MatchDom(l, first, sep) |-> Matches(l, first, from, sep, p[1], p[2])]
  PROVE  MatchRec(l, first, from, sep, f)
<1> DEFINE D == MatchDom(l, first, sep)
<1>1. Len(l) \in Nat /\ first \in Nat /\ Len(sep) \in Nat
  BY PlainKind DEF Placed
<1>2. ASSUME NEW p \in D
      PROVE  Matches(l, first, from, sep, p[1], p[2]) <=> MatchStep(l, first, from, sep, f, p)
  <2>1. /\ p[1] \in first..(Len(l) + 1) /\ p[2] \in 0..Len(sep) /\ p[1] \in Nat
    BY <1>1 DEF MatchDom
  <2>2. CASE p[1] > Len(l)
    BY <1>1, <2>1, <2>2 DEF Matches, MatchStep
  <2>3. CASE ~(p[1] > Len(l))
    <3> DEFINE i == p[1]
               q == p[2]
               here == Here(l, first, from, i)
               want == SubSeq(sep, q + 1, Len(sep))
               c == <<i + 1, q + Len(here)>>
    <3>1. i \in first..Len(l) /\ q \in 0..Len(sep)
      BY <1>1, <2>1, <2>3
    <3> HIDE DEF i, q
    <3>2. /\ Len(here) < Len(want) =>
               i + 1 \in first..(Len(l) + 1) /\ q + Len(here) \in 0..Len(sep)
          /\ Matches(l, first, from, sep, i, q) <=>
               IF Len(here) >= Len(want)
               THEN SubSeq(here, 1, Len(want)) = want
               ELSE /\ here = SubSeq(want, 1, Len(here))
                    /\ Matches(l, first, from, sep, i + 1, q + Len(here))
      BY <3>1, MatchGoesOn
    <3>3. Len(here) \in Nat /\ Len(want) \in Nat
      <4>1. here \in Seq(Alphabet(sep))
        BY <3>1, HereIs
      <4>2. want \in Seq(Alphabet(sep))
        BY <3>1, PlainKind, DropKind
      <4>3. QED
        BY <4>1, <4>2
    <3>4. MatchStep(l, first, from, sep, f, p) <=>
            IF Len(here) >= Len(want) THEN SubSeq(here, 1, Len(want)) = want
            ELSE here = SubSeq(want, 1, Len(here)) /\ f[c]
      BY <2>3, Zenon DEF MatchStep, i, q
    <3> HIDE DEF here, want
    <3>5. ASSUME ~(Len(here) >= Len(want))
          PROVE  f[c] = Matches(l, first, from, sep, i + 1, q + Len(here))
      <4>1. i + 1 \in first..(Len(l) + 1) /\ q + Len(here) \in 0..Len(sep)
        BY <3>2, <3>3, <3>5
      <4>2. c \in D /\ c[1] = i + 1 /\ c[2] = q + Len(here)
        BY <4>1 DEF MatchDom
      <4> HIDE DEF c, D
      <4>3. f[c] = Matches(l, first, from, sep, c[1], c[2])
        BY <4>2, Zenon DEF D
      <4>4. QED
        BY <4>2, <4>3, Zenon
    <3>6. Matches(l, first, from, sep, i, q) <=> MatchStep(l, first, from, sep, f, p)
      <4>1. CASE Len(here) >= Len(want)
        BY <3>2, <3>4, <4>1, Zenon
      <4>2. CASE ~(Len(here) >= Len(want))
        BY <3>2, <3>4, <3>5, <4>2, Zenon
      <4>3. QED
        BY <4>1, <4>2
    <3>7. QED
      BY <3>6 DEF i, q
  <2>4. QED
    BY <2>2, <2>3
<1>3. ASSUME NEW p \in D
      PROVE  Matches(l, first, from, sep, p[1], p[2]) = MatchStep(l, first, from, sep, f, p)
  <2>1. Matches(l, first, from, sep, p[1], p[2]) \in BOOLEAN
    BY Zenon DEF Matches
  <2>2. MatchStep(l, first, from, sep, f, p) \in BOOLEAN
    BY Zenon DEF MatchStep
  <2>3. QED
    BY <1>2, <2>1, <2>2, Zenon
<1> HIDE DEF D
<1>4. f = [p \in D |-> MatchStep(l, first, from, sep, f, p)]
  BY <1>3, Zenon DEF D
<1>5. QED
  BY <1>4, Zenon DEF MatchRec, D

LEMMA MatchUnique ==
  ASSUME NEW l \in Seq(Buf), NEW first, NEW from, Placed(l, first, from), NEW sep \in Seps,
         NEW m, MatchRec(l, first, from, sep, m),
         NEW i \in first..(Len(l) + 1), NEW q \in 0..Len(sep)
  PROVE  m[<<i, q>>] <=> Matches(l, first, from, sep, i, q)
<1> DEFINE n == Len(l) + 1
           Right(j) == \A r \in 0..Len(sep) :
                         m[<<j, r>>] <=> Matches(l, first, from, sep, j, r)
           N == {k \in Nat : k <= n - first => Right(n - k)}
<1>1. Len(l) \in Nat /\ first \in Nat /\ Len(sep) \in Nat /\ n \in Nat /\ first <= Len(l)
  BY PlainKind DEF Placed
<1>2. ASSUME NEW j \in first..n, NEW r \in 0..Len(sep)
      PROVE  m[<<j, r>>] = MatchStep(l, first, from, sep, m, <<j, r>>)
  <2> DEFINE p == <<j, r>>
  <2>1. p \in MatchDom(l, first, sep)
    BY <1>2 DEF MatchDom
  <2> HIDE DEF p
  <2>2. m[p] = MatchStep(l, first, from, sep, m, p)
    BY <2>1, Zenon DEF MatchRec
  <2>3. QED
    BY <2>2 DEF p
<1>3. 0 \in N
  <2>1. ASSUME NEW r \in 0..Len(sep)
        PROVE  m[<<n, r>>] <=> Matches(l, first, from, sep, n, r)
    <3>1. n \in first..n /\ n > Len(l) /\ ~(n <= Len(l))
      BY <1>1
    <3>2. m[<<n, r>>] = MatchStep(l, first, from, sep, m, <<n, r>>)
      BY <1>2, <3>1
    <3> HIDE DEF n
    <3>3. <<n, r>>[1] = n
      OBVIOUS
    <3>4. ~MatchStep(l, first, from, sep, m, <<n, r>>)
      BY <3>1, <3>3 DEF MatchStep
    <3>5. ~Matches(l, first, from, sep, n, r)
      BY <3>1 DEF Matches
    <3>6. QED
      BY <3>2, <3>4, <3>5, Zenon
  <2>2. n - 0 = n
    BY <1>1
  <2>3. QED
    BY <2>1, <2>2
<1>4. ASSUME NEW k \in N PROVE k + 1 \in N
  <2> SUFFICES ASSUME k + 1 <= n - first PROVE Right(n - (k + 1))
    OBVIOUS
  <2> DEFINE j == n - (k + 1)
  <2>1. /\ k \in Nat /\ k <= n - first /\ j \in Nat /\ n - k = j + 1 /\ j \in first..Len(l)
        /\ j \in first..n
    BY <1>1
  <2>2. Right(j + 1)
    <3>1. Right(n - k)
      BY <2>1
    <3> HIDE DEF Right, n, j
    <3>2. QED
      BY <2>1, <3>1
  <2> HIDE DEF j
  <2>3. ASSUME NEW r \in 0..Len(sep)
        PROVE  m[<<j, r>>] <=> Matches(l, first, from, sep, j, r)
    <3> DEFINE p == <<j, r>>
               here == Here(l, first, from, j)
               want == SubSeq(sep, r + 1, Len(sep))
               c == <<j + 1, r + Len(here)>>
    <3>1. p[1] = j /\ p[2] = r /\ ~(j > Len(l))
      BY <1>1, <2>1
    <3>2. m[p] = MatchStep(l, first, from, sep, m, p)
      BY <1>2, <2>1
    <3> HIDE DEF p
    <3>3. MatchStep(l, first, from, sep, m, p) <=>
            IF Len(here) >= Len(want) THEN SubSeq(here, 1, Len(want)) = want
            ELSE here = SubSeq(want, 1, Len(here)) /\ m[c]
      BY <3>1, Zenon DEF MatchStep
    <3>4. /\ Len(here) < Len(want) =>
               j + 1 \in first..(Len(l) + 1) /\ r + Len(here) \in 0..Len(sep)
          /\ Matches(l, first, from, sep, j, r) <=>
               IF Len(here) >= Len(want)
               THEN SubSeq(here, 1, Len(want)) = want
               ELSE /\ here = SubSeq(want, 1, Len(here))
                    /\ Matches(l, first, from, sep, j + 1, r + Len(here))
      BY <2>1, MatchGoesOn
    <3>5. Len(here) \in Nat /\ Len(want) \in Nat
      <4>1. here \in Seq(Alphabet(sep))
        BY <2>1, HereIs
      <4>2. want \in Seq(Alphabet(sep))
        BY PlainKind, DropKind
      <4>3. QED
        BY <4>1, <4>2
    <3> HIDE DEF here, want
    <3>6. ASSUME ~(Len(here) >= Len(want))
          PROVE  m[c] <=> Matches(l, first, from, sep, j + 1, r + Len(here))
      <4>1. r + Len(here) \in 0..Len(sep)
        BY <3>4, <3>5, <3>6
      <4>2. QED
        BY <2>2, <4>1, Zenon
    <3>7. m[p] <=> Matches(l, first, from, sep, j, r)
      <4>1. CASE Len(here) >= Len(want)
        BY <3>2, <3>3, <3>4, <4>1, Zenon
      <4>2. CASE ~(Len(here) >= Len(want))
        BY <3>2, <3>3, <3>4, <3>6, <4>2, Zenon
      <4>3. QED
        BY <4>1, <4>2
    <3>8. QED
      BY <3>7 DEF p
  <2>4. Right(j)
    BY <2>3
  <2>5. QED
    BY <2>4 DEF j
<1> HIDE DEF N, Right
<1>5. N = Nat
  <2>1. N \in SUBSET Nat
    BY DEF N
  <2>2. QED
    BY <1>3, <1>4, <2>1, NatSet
<1>6. Right(i)
  <2> DEFINE k == n - i
  <2>1. k \in Nat /\ k <= n - first /\ n - k = i
    BY <1>1
  <2> HIDE DEF k
  <2>2. k \in N
    BY <1>5, <2>1
  <2>3. Right(n - k)
    BY <2>1, <2>2 DEF N
  <2>4. QED
    BY <2>1, <2>3
<1>7. QED
  BY <1>6 DEF Right

(* check_eol finds the separator where the data ahead begins with it.      *)
LEMMA CheckEolIs ==
  ASSUME NEW l \in Seq(Buf), NEW first, NEW from, Placed(l, first, from), NEW sep \in Seps
  PROVE  CheckEol(l, first, from, sep) <=> Begins(Ahead(l, first, from, first), sep)
<1> DEFINE m == CHOOSE m : m = [p \in MatchDom(l, first, sep) |->
                                  MatchStep(l, first, from, sep, m, p)]
           f == [p \in MatchDom(l, first, sep) |-> Matches(l, first, from, sep, p[1], p[2])]
<1>1. CheckEol(l, first, from, sep) = m[<<first, 0>>]
  BY Zenon DEF CheckEol, MatchDom, MatchStep, Here
<1>2. MatchRec(l, first, from, sep, f)
  <2> HIDE DEF f
  <2>1. f = [p \in MatchDom(l, first, sep) |-> Matches(l, first, from, sep, p[1], p[2])]
    BY DEF f
  <2>2. QED
    BY <2>1, MatchExists
<1> HIDE DEF f
<1>3. MatchRec(l, first, from, sep, m)
  BY <1>2, Zenon DEF MatchRec
<1> HIDE DEF m
<1>4. Len(l) \in Nat /\ first \in Nat /\ Len(sep) \in Nat /\ first <= Len(l)
  BY PlainKind DEF Placed
<1>5. first \in first..(Len(l) + 1) /\ 0 \in 0..Len(sep)
  BY <1>4
<1>6. m[<<first, 0>>] <=> Matches(l, first, from, sep, first, 0)
  BY <1>3, <1>5, MatchUnique
<1>7. SubSeq(sep, 0 + 1, Len(sep)) = sep
  <2>1. sep \in Seq(Alphabet(sep))
    BY PlainKind
  <2>2. QED
    BY <2>1
<1>8. Matches(l, first, from, sep, first, 0) <=> Begins(Ahead(l, first, from, first), sep)
  BY <1>4, <1>7 DEF Matches
<1>9. QED
  BY <1>1, <1>6, <1>8, Zenon

(* The data ahead of a place in the list is the text from its offset on.   *)
LEMMA AheadIs ==
  ASSUME NEW l \in Seq(Buf), NEW i \in 1..Len(l), NEW from \in l[i].rpos..Len(l[i].bytes),
         Placed(l, i, from), NEW text, text = Letters(Contents(l)),
         NEW o, o = Upto(l, i - 1) + (from - l[i].rpos)
  PROVE  Ahead(l, i, from, i) = SubSeq(text, o + 1, Len(text))
<1> DEFINE K == Alphabet(<<>>)
           b == l[i]
           d == from - b.rpos
           left == LeftOf(b)
           u == Letters(left)
           v == Rest(l, i + 1)
           x == SubSeq(u, d + 1, Len(u))
           y == LettersFrom(b, from)
           c == SubSeq(b.bytes, from + 1, Len(b.bytes))
           j == i - 1
           p == Contents(SubSeq(l, 1, j))
           r == Contents(SubSeq(l, i, Len(l)))
           z == Rest(l, i)
           w == Letters(p)
<1> HIDE DEF K
<1>1. Len(l) \in Nat /\ i \in Nat /\ i <= Len(l) /\ 1 <= i /\ j \in 0..Len(l) /\ j + 1 = i
      /\ 1 \in 1..(Len(l) + 1) /\ i \in 1..(Len(l) + 1) /\ Len(l) \in 0..Len(l)
      /\ i + 1 \in 1..(Len(l) + 1) /\ i # Len(l) + 1
  OBVIOUS
<1>2. b \in Buf
  BY <1>1
<1> HIDE DEF b
<1>3. /\ left \in Seq(Nat) /\ Len(left) = Len(b.bytes) - b.rpos
      /\ b.rpos \in Nat /\ b.bytes \in Seq(Nat)
      /\ \A n \in 1..Len(left) : left[n] = b.bytes[b.rpos + n]
  BY <1>2, LeftType
<1>4. /\ d \in 0..Len(left) /\ from \in 0..Len(b.bytes) /\ from = b.rpos + d
      /\ Len(b.bytes) \in Nat
  BY <1>3 DEF b
<1> HIDE DEF left, d
<1>5. u \in Seq(K) /\ Len(u) = Len(left) /\ \A n \in 1..Len(left) : u[n] = Text[left[n]]
  BY <1>3, LettersType DEF K
<1> HIDE DEF u
<1>6. /\ x \in Seq(K) /\ Len(x) = Len(u) - d /\ \A n \in 1..(Len(u) - d) : x[n] = u[d + n]
  BY <1>4, <1>5, DropKind
<1>7. /\ c \in Seq(Nat) /\ Len(c) = Len(b.bytes) - from
      /\ \A n \in 1..(Len(b.bytes) - from) : c[n] = b.bytes[from + n]
  BY <1>3, <1>4, DropKind
<1> HIDE DEF x, c
<1>8. y \in Seq(K) /\ Len(y) = Len(c) /\ \A n \in 1..Len(c) : y[n] = Text[c[n]]
  <2>1. y = Letters(c)
    BY DEF LettersFrom, c
  <2>2. Letters(c) \in Seq(K) /\ Len(Letters(c)) = Len(c)
        /\ \A n \in 1..Len(c) : Letters(c)[n] = Text[c[n]]
    BY <1>7, LettersType DEF K
  <2>3. QED
    BY <2>1, <2>2
<1> HIDE DEF y
<1>9. x = y
  <2> DEFINE e == Len(b.bytes)
             f == Len(left)
             h == Len(x)
             a == b.rpos
  <2>0. /\ f = e - a /\ a \in Nat /\ d \in 0..f /\ from \in 0..e /\ from = a + d /\ e \in Nat
        /\ Len(u) = f /\ h = Len(u) - d /\ Len(c) = e - from /\ Len(y) = Len(c)
    BY <1>3, <1>4, <1>5, <1>6, <1>7, <1>8
  <2> HIDE DEF a, e, f, h
  <2>1. h = Len(y)
    BY <2>0
  <2>2. ASSUME NEW n \in 1..h PROVE x[n] = y[n]
    <3>1. /\ n \in 1..(Len(u) - d) /\ d + n \in 1..f /\ n \in 1..Len(c)
          /\ n \in 1..(e - from) /\ a + (d + n) = from + n
      BY <2>0
    <3> USE DEF a, e, f, h
    <3>2. x[n] = Text[left[d + n]] /\ left[d + n] = b.bytes[b.rpos + (d + n)]
      BY <1>3, <1>5, <1>6, <3>1
    <3>3. y[n] = Text[b.bytes[from + n]]
      BY <1>7, <1>8, <3>1
    <3>4. QED
      BY <3>1, <3>2, <3>3
  <2>3. QED
    BY <1>6, <1>8, <2>1, <2>2, SeqEqual DEF h
<1>10. Contents(l) = p \o r
  <2>1. Contents(l) = Contents(SubSeq(l, 1, j)) \o Contents(SubSeq(l, j + 1, Len(l)))
    BY <1>1, ContentsSplit
  <2>2. QED
    BY <1>1, <2>1
<1>11. p \in Seq(Nat) /\ r \in Seq(Nat) /\ Len(p) = Upto(l, j)
  <2>1. SubSeq(l, 1, j) \in Seq(Buf) /\ SubSeq(l, i, Len(l)) \in Seq(Buf)
    BY <1>1, PartType
  <2>2. p \in Seq(Nat) /\ r \in Seq(Nat)
    BY <2>1, LeftsType
  <2>3. QED
    BY <2>2 DEF Upto
<1>12. z = Letters(r)
  BY DEF Rest
<1>13. z = u \o v /\ z \in Seq(K) /\ v \in Seq(K)
  BY <1>1, RestIs DEF K, u, left, b
<1> HIDE DEF p, r, z, v, w
<1>14. text = w \o z
  <2>1. Letters(p \o r) = Letters(p) \o Letters(r)
    BY <1>11, LettersConcat
  <2>2. QED
    BY <1>10, <1>12, <2>1 DEF w
<1>15. w \in Seq(K) /\ Len(w) = Upto(l, j)
  <2>1. Letters(p) \in Seq(K) /\ Len(Letters(p)) = Len(p)
    BY <1>11, LettersType DEF K
  <2>2. QED
    BY <1>11, <2>1 DEF w
<1>16. d \in 0..Len(z) /\ d \in 0..Len(u)
  <2>1. Len(z) = Len(u) + Len(v)
    BY <1>5, <1>13, ConcatProperties
  <2>2. Len(u) \in Nat /\ Len(v) \in Nat
    BY <1>5, <1>13
  <2>3. QED
    BY <1>4, <1>5, <2>1, <2>2
<1>17. SubSeq(w \o z, Len(w) + d + 1, Len(w \o z)) = SubSeq(z, d + 1, Len(z))
  BY <1>13, <1>15, <1>16, DropSecond
<1>18. SubSeq(u \o v, d + 1, Len(u \o v)) = x \o v
  BY <1>5, <1>13, <1>16, DropFirst DEF x
<1>19. o = Len(w) + d
  BY <1>15 DEF d, b
<1>20. SubSeq(text, o + 1, Len(text)) = x \o v
  BY <1>13, <1>14, <1>17, <1>18, <1>19
<1>21. Ahead(l, i, from, i) = y \o v
  BY <1>1 DEF Ahead, Here, y, v, b
<1>22. QED
  BY <1>9, <1>20, <1>21

LEMMA BeginsAt ==
  ASSUME NEW K, NEW t \in Seq(K), NEW w \in Seq(K), NEW o \in 0..Len(t)
  PROVE  Begins(SubSeq(t, o + 1, Len(t)), w) <=>
           o + Len(w) <= Len(t) /\ SubSeq(t, o + 1, o + Len(w)) = w
<1> DEFINE s == SubSeq(t, o + 1, Len(t))
           n == Len(w)
           u == SubSeq(t, o + 1, o + n)
<1>1. Len(t) \in Nat /\ n \in Nat /\ o \in Nat /\ o + 1 \in 1..(Len(t) + 1) /\ o <= Len(t)
  OBVIOUS
<1>2. s \in Seq(K) /\ Len(s) = Len(t) - o /\ \A i \in 1..(Len(t) - o) : s[i] = t[o + i]
  BY DropKind
<1> HIDE DEF s
<1>3. CASE o + n <= Len(t)
  <2> DEFINE e == o + n
  <2>1. e \in 0..Len(t) /\ e - (o + 1) + 1 = n /\ (~(o + 1 <= e) => n = 0)
    BY <1>1, <1>3
  <2>2. /\ u \in Seq(K)
        /\ Len(u) = IF o + 1 <= e THEN e - (o + 1) + 1 ELSE 0
        /\ \A i \in 1..(e - (o + 1) + 1) : u[i] = t[(o + 1) + i - 1]
    <3> HIDE DEF e
    <3>1. /\ SubSeq(t, o + 1, e) \in Seq(K)
          /\ Len(SubSeq(t, o + 1, e)) = IF o + 1 <= e THEN e - (o + 1) + 1 ELSE 0
          /\ \A i \in 1..(e - (o + 1) + 1) : SubSeq(t, o + 1, e)[i] = t[(o + 1) + i - 1]
      BY <1>1, <2>1, PartKind
    <3>2. QED
      BY <3>1 DEF e
  <2> HIDE DEF u, e
  <2>3. Len(u) = n
    BY <2>1, <2>2
  <2>4. ASSUME NEW i \in 1..n PROVE u[i] = s[i]
    <3>1. i \in 1..(e - (o + 1) + 1) /\ (o + 1) + i - 1 = o + i /\ i \in 1..(Len(t) - o)
      BY <1>1, <1>3, <2>1
    <3>2. u[i] = t[o + i] /\ s[i] = t[o + i]
      BY <1>2, <2>2, <3>1
    <3>3. QED
      BY <3>2
  <2>5. n <= Len(s)
    BY <1>1, <1>2, <1>3
  <2>6. ASSUME Begins(s, w) PROVE u = w
    <3>1. \A i \in 1..Len(u) : u[i] = w[i]
      BY <2>3, <2>4, <2>6 DEF Begins
    <3>2. QED
      BY <2>2, <2>3, <3>1, SeqEqual
  <2>7. ASSUME u = w PROVE Begins(s, w)
    BY <2>4, <2>5, <2>7 DEF Begins
  <2>8. QED
    BY <1>3, <2>6, <2>7 DEF u, s
<1>4. CASE ~(o + n <= Len(t))
  <2>1. ~(n <= Len(s))
    BY <1>1, <1>2, <1>4
  <2>2. QED
    BY <1>4, <2>1 DEF Begins, s
<1>5. QED
  BY <1>3, <1>4

(* The offsets at which search_eol finds the separator.                    *)
Hits(l, i, sep) == {from \in l[i].rpos .. Len(l[i].bytes) - 1 : CheckEol(l, i, from, sep)}
Offsets(l, sep) ==
  UNION {{Upto(l, i - 1) + (from - l[i].rpos) : from \in Hits(l, i, sep)} : i \in DOMAIN l}

LEMMA OffsetsAre ==
  ASSUME NEW l \in Seq(Buf), \A i \in 1..Len(l) : i # 1 => l[i].rpos = 0, NEW sep \in Seps,
         NEW text, text = Letters(Contents(l)), NEW o
  PROVE  o \in Offsets(l, sep) <=>
           o \in 0..(Len(text) - 1) /\ Begins(SubSeq(text, o + 1, Len(text)), sep)
<1>1. /\ Len(l) \in Nat /\ DOMAIN l = 1..Len(l) /\ Upto(l, 0) = 0
      /\ \A i \in 0..Len(l) : Upto(l, i) \in Nat
      /\ \A i \in 1..Len(l) : Upto(l, i) = Upto(l, i - 1) + Len(LeftOf(l[i]))
  BY UptoFacts
<1>2. Len(text) = Upto(l, Len(l)) /\ Len(text) \in Nat
  <2>1. Contents(l) \in Seq(Nat) /\ Upto(l, Len(l)) = Len(Contents(l))
    BY LeftsType, UptoFacts
  <2>2. Len(Letters(Contents(l))) = Len(Contents(l))
    BY <2>1, LettersType
  <2>3. QED
    BY <1>1, <2>1, <2>2
<1>3. ASSUME NEW i \in 1..Len(l)
      PROVE  /\ l[i].rpos \in Nat /\ Len(l[i].bytes) \in Nat /\ Len(LeftOf(l[i])) \in Nat
             /\ Len(LeftOf(l[i])) = Len(l[i].bytes) - l[i].rpos
             /\ Upto(l, i - 1) \in Nat
             /\ Upto(l, i) = Upto(l, i - 1) + Len(LeftOf(l[i]))
             /\ Upto(l, i) <= Len(text)
  <2>1. l[i] \in Buf /\ i \in 0..Len(l) /\ i <= Len(l) /\ Len(l) \in 0..Len(l) /\ i - 1 \in 0..Len(l)
    BY <1>1
  <2>2. l[i].bytes \in Seq(Nat)
    BY <2>1, LeftType
  <2>3. Len(l[i].bytes) \in Nat
    BY <2>2
  <2>4. l[i].rpos \in Nat /\ Len(LeftOf(l[i])) \in Nat
        /\ Len(LeftOf(l[i])) = Len(l[i].bytes) - l[i].rpos
    BY <2>1, LeftType
  <2>5. Upto(l, i) <= Upto(l, Len(l))
    BY <2>1, UptoGrows
  <2>6. QED
    BY <1>1, <1>2, <2>1, <2>3, <2>4, <2>5
<1>4. ASSUME NEW i \in 1..Len(l), NEW from \in l[i].rpos .. Len(l[i].bytes) - 1,
             o = Upto(l, i - 1) + (from - l[i].rpos)
      PROVE  /\ o \in 0..(Len(text) - 1)
             /\ CheckEol(l, i, from, sep) <=> Begins(SubSeq(text, o + 1, Len(text)), sep)
  <2> DEFINE r == l[i].rpos
             e == Len(l[i].bytes)
             u == Upto(l, i - 1)
  <2>1. /\ r \in Nat /\ e \in Nat /\ u \in Nat /\ Len(LeftOf(l[i])) = e - r
        /\ Upto(l, i) = u + Len(LeftOf(l[i])) /\ Upto(l, i) <= Len(text)
    BY <1>3
  <2>2. Placed(l, i, from) /\ from \in r..e
    <3>1. from \in r..e /\ from \in 0..e
      BY <2>1
    <3>2. \A j \in 1..Len(l) : j > i => l[j].rpos = 0
      BY <1>1
    <3>3. QED
      BY <3>1, <3>2 DEF Placed
  <2> HIDE DEF r, e, u
  <2>3. o \in 0..(Len(text) - 1)
    <3>1. from \in r..(e - 1) /\ o = u + (from - r)
      BY <1>4 DEF r, e, u
    <3>2. QED
      BY <1>2, <2>1, <3>1
  <2>4. Ahead(l, i, from, i) = SubSeq(text, o + 1, Len(text))
    BY <1>4, <2>2, AheadIs DEF r, e
  <2>5. CheckEol(l, i, from, sep) <=> Begins(Ahead(l, i, from, i), sep)
    BY <2>2, CheckEolIs
  <2>6. QED
    BY <2>3, <2>4, <2>5
<1>5. ASSUME o \in Offsets(l, sep)
      PROVE  o \in 0..(Len(text) - 1) /\ Begins(SubSeq(text, o + 1, Len(text)), sep)
  <2>1. PICK i \in 1..Len(l) :
          o \in {Upto(l, i - 1) + (from - l[i].rpos) : from \in Hits(l, i, sep)}
    BY <1>1, <1>5 DEF Offsets
  <2>2. PICK from \in Hits(l, i, sep) : o = Upto(l, i - 1) + (from - l[i].rpos)
    BY <2>1
  <2>3. from \in l[i].rpos .. Len(l[i].bytes) - 1 /\ CheckEol(l, i, from, sep)
    BY <2>2 DEF Hits
  <2>4. QED
    BY <1>4, <2>2, <2>3
<1>6. ASSUME o \in 0..(Len(text) - 1), Begins(SubSeq(text, o + 1, Len(text)), sep)
      PROVE  o \in Offsets(l, sep)
  <2> DEFINE S == {i \in 1..Len(l) : o < Upto(l, i)}
  <2>1. Len(l) \in S
    <3>1. o < Upto(l, Len(l)) /\ o \in Nat
      BY <1>2, <1>6
    <3>2. Len(l) # 0
      BY <1>1, <3>1
    <3>3. QED
      BY <1>1, <3>1, <3>2
  <2>2. S \in SUBSET Nat /\ S # {}
    BY <2>1
  <2> HIDE DEF S
  <2>3. PICK i \in S : \A j \in S : i <= j
    BY <2>2, LeastOf
  <2>4. i \in 1..Len(l) /\ o < Upto(l, i)
    BY <2>3 DEF S
  <2> DEFINE r == l[i].rpos
             e == Len(l[i].bytes)
             u == Upto(l, i - 1)
             from == r + (o - u)
  <2>5. /\ r \in Nat /\ e \in Nat /\ u \in Nat /\ Len(LeftOf(l[i])) = e - r
        /\ Upto(l, i) = u + Len(LeftOf(l[i]))
    BY <1>3, <2>4
  <2>6. u <= o
    <3>1. CASE i = 1
      BY <1>1, <1>6, <3>1
    <3>2. CASE i # 1
      <4>1. i - 1 \in 1..Len(l) /\ ~(i <= i - 1)
        BY <1>1, <2>4, <3>2
      <4>2. i - 1 \notin S
        BY <2>3, <4>1
      <4>3. ~(o < Upto(l, i - 1))
        BY <4>1, <4>2 DEF S
      <4>4. QED
        BY <1>6, <2>5, <4>3
    <3>3. QED
      BY <3>1, <3>2
  <2>7. from \in r..(e - 1) /\ o = u + (from - r)
    <3> HIDE DEF r, e, u
    <3>1. QED
      BY <1>6, <2>4, <2>5, <2>6
  <2> HIDE DEF from
  <2>8. CheckEol(l, i, from, sep)
    BY <1>4, <1>6, <2>4, <2>7
  <2>9. from \in Hits(l, i, sep)
    BY <2>7, <2>8 DEF Hits
  <2>10. o \in {Upto(l, i - 1) + (g - l[i].rpos) : g \in Hits(l, i, sep)}
    BY <2>7, <2>9
  <2>11. QED
    BY <1>1, <2>4, <2>10 DEF Offsets
<1>7. QED
  BY <1>5, <1>6

(* The ends of the separators of a text, as SearchRight lists them.        *)
Ends(text, sep) ==
  {e \in Len(sep)..Len(text) : SubSeq(text, e - Len(sep) + 1, e) = sep}

LEMMA SearchIs ==
  ASSUME NEW l \in Seq(Buf), \A i \in 1..Len(l) : i # 1 => l[i].rpos = 0, NEW sep \in Seps,
         NEW text, text = Letters(Contents(l)), NEW ends, ends = Ends(text, sep)
  PROVE  /\ SearchEol(l, sep) =
              IF ends = {} THEN -1 ELSE CHOOSE e \in ends : \A d \in ends : e <= d
         /\ SearchEol(l, sep) > 0 => SearchEol(l, sep) \in 1..Len(Contents(l))
<1> DEFINE K == Alphabet(sep)
           n == Len(sep)
           k == Len(text)
           offs == Offsets(l, sep)
           o == CHOOSE o \in offs : \A p \in offs : o <= p
           x == CHOOSE e \in ends : \A d \in ends : e <= d
<1> HIDE DEF K
<1>1. sep \in Seq(K) /\ n \in Nat /\ n # 0
  BY PlainKind DEF K
<1>2. text \in Seq(K) /\ k \in Nat /\ k = Len(Contents(l))
  <2>1. Contents(l) \in Seq(Nat) /\ Len(Contents(l)) \in Nat
    BY LeftsType
  <2>2. QED
    BY <2>1, LettersType DEF K
<1>3. SearchEol(l, sep) = IF offs = {} THEN -1 ELSE o + n
  BY Zenon DEF SearchEol, Offsets, Hits
<1>4. ASSUME NEW p PROVE p \in offs <=> p \in 0..(k - 1) /\ p + n \in ends
  <2>1. p \in offs <=> p \in 0..(k - 1) /\ Begins(SubSeq(text, p + 1, Len(text)), sep)
    BY OffsetsAre
  <2>2. ASSUME p \in 0..(k - 1)
        PROVE  Begins(SubSeq(text, p + 1, Len(text)), sep) <=> p + n \in ends
    <3> DEFINE e == p + n
    <3>1. p \in 0..k /\ e - n + 1 = p + 1 /\ (e \in n..k <=> e <= k)
      BY <1>1, <1>2, <2>2
    <3>2. Begins(SubSeq(text, p + 1, Len(text)), sep) <=>
            p + Len(sep) <= Len(text) /\ SubSeq(text, p + 1, p + Len(sep)) = sep
      BY <1>1, <1>2, <3>1, BeginsAt
    <3>3. e \in ends <=> e \in n..k /\ SubSeq(text, e - n + 1, e) = sep
      BY DEF Ends
    <3>4. QED
      BY <3>1, <3>2, <3>3
  <2>3. QED
    BY <2>1, <2>2
<1>5. ASSUME NEW e \in ends PROVE e \in Nat /\ e - n \in offs
  <2>1. e \in n..k
    BY DEF Ends
  <2>2. e - n \in 0..(k - 1) /\ (e - n) + n = e /\ e \in Nat
    BY <1>1, <1>2, <2>1
  <2>3. QED
    BY <1>4, <2>2
<1> HIDE DEF offs
<1>6. CASE offs = {}
  <2>1. ends = {}
    BY <1>5, <1>6
  <2>2. SearchEol(l, sep) = -1
    BY <1>3, <1>6
  <2>3. QED
    BY <2>1, <2>2
<1>7. CASE offs # {}
  <2>1. offs \in SUBSET Nat
    <3>1. \A p \in offs : p \in 0..(k - 1)
      BY <1>4
    <3>2. \A p \in 0..(k - 1) : p \in Nat
      BY <1>2
    <3>3. QED
      BY <3>1, <3>2
  <2>2. o \in offs /\ \A p \in offs : o <= p
    <3>1. \E q \in offs : \A p \in offs : q <= p
      BY <1>7, <2>1, LeastOf
    <3>2. QED
      BY <3>1
  <2> HIDE DEF o
  <2>3. o \in Nat /\ o \in 0..(k - 1) /\ o + n \in ends
    BY <1>4, <2>1, <2>2
  <2>4. ASSUME NEW d \in ends PROVE o + n <= d
    <3>1. d \in Nat /\ d - n \in offs
      BY <1>5
    <3>2. o <= d - n
      BY <2>2, <3>1
    <3>3. QED
      BY <1>1, <2>3, <3>1, <3>2
  <2>5. x \in ends /\ \A d \in ends : x <= d
    BY <2>3, <2>4
  <2> HIDE DEF x
  <2>6. x = o + n
    <3>1. x \in Nat
      BY <1>5, <2>5
    <3>2. x <= o + n /\ o + n <= x
      BY <2>3, <2>4, <2>5
    <3>3. QED
      BY <1>1, <2>3, <3>1, <3>2
  <2>7. SearchEol(l, sep) = x
    BY <1>3, <1>7, <2>6
  <2>8. x \in 1..k
    <3>1. x \in n..k
      BY <2>5 DEF Ends
    <3>2. QED
      BY <1>1, <1>2, <3>1
  <2>9. ends # {}
    BY <2>3
  <2>10. QED
    BY <1>2, <2>7, <2>8, <2>9 DEF x
<1>8. QED
  BY <1>6, <1>7

(* Every step keeps the strengthened invariant.                            *)
LEMMA ReadKeeps ==
  ASSUME IInv, Read \/ ReadLine
  PROVE  /\ IInv'
         /\ \E n \in 1..Len(Contents(in)) :
              Takes(n) /\ got' = Numbers(0, Len(got')) /\ Len(got') = Len(got) + n
<1>1. Len(Contents(in)) \in Nat /\ UserCode /\ ses.inTotal = Len(Contents(in))
  <2>1. in \in Seq(Buf)
    BY DEF IInv, Typed
  <2>2. QED
    BY <2>1, LeftsType DEF IInv, Accounted, Read, ReadLine
<1>2. PICK n \in 1..Len(Contents(in)) : Takes(n)
  <2>1. CASE Read
    BY <1>1, <2>1 DEF Read
  <2>2. CASE ReadLine
    <3>1. PICK sep \in Seps : SearchEol(in, sep) > 0 /\ Takes(SearchEol(in, sep))
      BY <2>2 DEF ReadLine
    <3>2. in \in Seq(Buf) /\ \A i \in 1..Len(in) : i # 1 => in[i].rpos = 0
      BY DEF IInv, Typed, InputSound
    <3>3. SearchEol(in, sep) \in 1..Len(Contents(in))
      BY <3>1, <3>2, SearchIs
    <3>4. QED
      BY <3>1, <3>3
  <2>3. QED
    BY <2>1, <2>2
<1>3. n \in 0..Len(Contents(in))
  BY <1>1
<1>4. IInv' /\ got' = Numbers(0, Len(got')) /\ Len(got') = Len(got) + n
  BY <1>1, <1>2, <1>3, TakesKeeps
<1>5. QED
  BY <1>2, <1>4

LEMMA StepKeeps ==
  ASSUME IInv, [Next]_vars
  PROVE  IInv'
<1>1. CASE UNCHANGED vars
  BY <1>1 DEF vars, history, IInv, Typed, Lists, Headers, Accounted, OutputKept, OutputWaits,
     Causes, DeadCause, InputSound, Arrivals
<1>2. CASE Next
  <2>1. Arrive => IInv'
    BY ArriveKeeps
  <2>2. Quiet => IInv'
    BY QuietKeeps
  <2>3. StartRead => IInv'
    BY StartReadKeeps
  <2>4. ReadSome => IInv'
    BY ReadSomeKeeps
  <2>5. ReadBlocks \/ ReadFails => IInv'
    BY ReadEndsKeeps
  <2>6. WriteCb => IInv'
    BY WriteCbKeeps
  <2>7. WriteCbFails => IInv'
    BY WriteCbFailsKeeps
  <2>8. WriteLater => IInv'
    BY WriteLaterKeeps
  <2>9. WriteNow => IInv'
    BY WriteNowKeeps
  <2>10. Read \/ ReadLine => IInv'
    BY ReadKeeps
  <2>11. Bind => IInv'
    BY BindKeeps
  <2>12. Free => IInv'
    BY FreeKeeps
  <2>13. QED
    BY <1>2, <2>1, <2>2, <2>3, <2>4, <2>5, <2>6, <2>7, <2>8, <2>9, <2>10, <2>11, <2>12
       DEF Next, Quiet
<1>3. QED
  BY <1>1, <1>2

LEMMA Invariant == Spec => []IInv
<1>1. Init => IInv
  BY InitKept
<1>2. IInv /\ [Next]_vars => IInv'
  BY StepKeeps
<1>3. QED
  BY <1>1, <1>2, PTL DEF Spec

-----------------------------------------------------------------------------
(* The lists of the proofs are those of the type invariant.                *)
LEMMA BuffersTyped ==
  ASSUME NEW l \in Seq(Buf), NEW i \in DOMAIN l
  PROVE  l[i] \in Buffers /\ l[i].rpos <= Len(l[i].bytes)
BY DEF Buf

LEMMA TypedOK ==
  ASSUME Typed, Lists
  PROVE  TypeOK
<1>1. /\ in \in Seq(Buf) /\ out \in Seq(Buf) /\ rdb \in Seq(Buf)
      /\ free \in Seq(Node) /\ room \in 0..MaxBuffer
      /\ net \in [bytes : Seq(Nat), gone : BOOLEAN]
      /\ arrived \in 0..Len(Text) /\ written \in 0..MaxOut
      /\ got \in Seq(Nat) /\ wire \in Seq(Nat)
  BY DEF Typed
<1>2. /\ ses \in [bound : BOOLEAN, alive : BOOLEAN, rio : BOOLEAN, wio : BOOLEAN,
                  threshold : MinBuffer..MaxBuffer, max : Maxes \cup {0},
                  inTotal : Nat, outTotal : Nat]
      /\ past \in [full : BOOLEAN, empty : BOOLEAN, overtaken : BOOLEAN,
                   paused : {"no", "partial", "disabled"}]
  BY DEF Typed, Sessions, Pasts
<1>3. \A l \in {in, out, rdb} : \A i \in DOMAIN l :
        l[i] \in Buffers /\ l[i].rpos <= Len(l[i].bytes)
  <2>1. \A l \in {in, out, rdb} : l \in Seq(Buf)
    BY <1>1
  <2>2. QED
    BY <2>1, BuffersTyped
<1>4. Len(rdb) <= 1 /\ (rdb # <<>> => ses.bound)
  <2>1. CASE rdb = <<>>
    BY <2>1
  <2>2. CASE rdb # <<>>
    <3>1. rdb = <<rdb[1]>> /\ ses.bound
      BY <2>2 DEF Lists
    <3>2. Len(<<rdb[1]>>) = 1
      OBVIOUS
    <3>3. Len(rdb) = 1
      BY <3>1, <3>2, Zenon
    <3>4. QED
      BY <3>1, <3>3
  <2>3. QED
    BY <2>1, <2>2
<1>5. QED
  BY <1>1, <1>2, <1>3, <1>4, Zenon DEF TypeOK

(* The values of the variables: lists of buffers used up no further than   *)
(* their data, a threshold between its limits, reading only while bound.   *)
THEOREM TypeCorrect == Spec => []TypeOK
<1>1. IInv => TypeOK
  BY TypedOK DEF IInv
<1>2. QED
  BY <1>1, Invariant, PTL

(* A header is in one list, once, and in_total and out_total are what the  *)
(* lists hold, whatever was read, written, reclaimed or searched.          *)
THEOREM ListsAreSound == Spec => []ListsSound
<1>1. IInv => ListsSound
  BY HeadersIs DEF IInv, ListsSound
<1>2. QED
  BY <1>1, Invariant, PTL

(* Each byte a live session has accepted is sent once or waits, in order   *)
(* unless a write has overtaken output that was waiting.                   *)
THEOREM OutputIsKept == Spec => []OutputKept
<1>1. IInv => OutputKept
  BY DEF IInv
<1>2. QED
  BY <1>1, Invariant, PTL

(* Output of a live session is forgotten by its event only where it was    *)
(* disabled, or after a partial write of _ev_write_cb.                     *)
THEOREM OutputIsWaiting == Spec => []OutputWaits
<1>1. IInv => OutputWaits
  BY DEF IInv
<1>2. QED
  BY <1>1, Invariant, PTL

(* A session dies of a peer that is gone, a read that filled its buffer or *)
(* a write of no bytes, and of nothing else.                               *)
THEOREM DeadForCause == Spec => []DeadCause
<1>1. IInv => DeadCause
  BY DEF IInv, Causes
<1>2. QED
  BY <1>1, Invariant, PTL

(* search_eol finds the end of the first separator of the whole input, in  *)
(* however many buffers the input and the separator lie.                   *)
THEOREM SearchFinds == Spec => []SearchRight
<1>1. IInv => SearchRight
  <2> SUFFICES ASSUME IInv PROVE SearchRight
    OBVIOUS
  <2>1. in \in Seq(Buf) /\ \A i \in 1..Len(in) : i # 1 => in[i].rpos = 0
    BY DEF IInv, Typed, InputSound
  <2> DEFINE text == Letters(Contents(in))
  <2>2. ASSUME NEW sep \in Seps
        PROVE  SearchEol(in, sep) =
                 IF Ends(text, sep) = {} THEN -1
                 ELSE CHOOSE e \in Ends(text, sep) : \A d \in Ends(text, sep) : e <= d
    BY <2>1, SearchIs
  <2>3. QED
    BY <2>2, Zenon DEF SearchRight, Ends
<1>2. QED
  BY <1>1, Invariant, PTL

-----------------------------------------------------------------------------
(* The input as a queue of bytes.                                          *)
LEMMA StepIsQueue ==
  ASSUME IInv, [Next]_vars
  PROVE  [Input!Put \/ Input!Take \/ Input!StartAfresh]_<<arrived, got>>
<1>1. CASE Arrive
  BY <1>1 DEF Arrive, Input!Put
<1>2. CASE Bind
  BY <1>2 DEF Bind, Input!StartAfresh
<1>3. CASE Read \/ ReadLine
  <2>1. PICK n \in 1..Len(Contents(in)) :
          Takes(n) /\ got' = Numbers(0, Len(got')) /\ Len(got') = Len(got) + n
    BY <1>3, ReadKeeps
  <2> DEFINE c == Contents(in)
             d == Contents(rdb) \o net.bytes
             rest == c \o d
             a == Len(got)
             b == arrived - a
             h == Numbers(a, n)
             g == got \o h
             z == Numbers(0, a + n)
  <2>2. arrived \in Nat /\ a \in Nat /\ Len(c) \in Nat /\ n \in Nat /\ got \in Seq(Nat)
        /\ c \in Seq(Nat) /\ d \in Seq(Nat)
    <3>1. in \in Seq(Buf) /\ rdb \in Seq(Buf) /\ got \in Seq(Nat) /\ net.bytes \in Seq(Nat)
          /\ arrived \in Nat
      BY SocketSessionAssumption DEF IInv, Typed
    <3>2. c \in Seq(Nat) /\ Contents(rdb) \in Seq(Nat) /\ Len(c) \in Nat
      BY <3>1, LeftsType
    <3>3. n \in Nat
      BY <3>2
    <3>4. QED
      BY <3>1, <3>2, <3>3
  <2>3. got \o rest = Numbers(0, arrived) /\ got = Numbers(0, a)
    BY <1>3 DEF IInv, InputSound, Arrivals, Read, ReadLine, UserCode
  <2>4. n <= Len(c)
    BY <2>2
  <2> HIDE DEF a, c, d
  <2>5. rest \in Seq(Nat) /\ Len(rest) = Len(c) + Len(d) /\ Len(d) \in Nat
    BY <2>2, ConcatProperties
  <2> HIDE DEF rest
  <2>6. Len(got) + Len(rest) = arrived
    BY <2>2, <2>3, <2>5, NumbersPrefix
  <2>7. n \in 1..(arrived - a)
    <3>1. a + Len(rest) = arrived
      BY <2>6 DEF a
    <3>2. QED
      BY <2>2, <2>4, <2>5, <3>1
  <2>8. h \in Seq(Nat) /\ Len(h) = n /\ \A i \in 1..n : h[i] = a + i
    BY <2>2, NumbersIs
  <2>9. Numbers(0, a) \in Seq(Nat) /\ \A i \in 1..a : Numbers(0, a)[i] = 0 + i
    BY <2>2, NumbersIs
  <2>10. z \in Seq(Nat) /\ Len(z) = a + n /\ \A i \in 1..(a + n) : z[i] = 0 + i
    <3> DEFINE m == a + n
    <3>1. m \in Nat
      BY <2>2
    <3> HIDE DEF m
    <3>2. Numbers(0, m) \in Seq(Nat) /\ Len(Numbers(0, m)) = m
          /\ \A i \in 1..m : Numbers(0, m)[i] = 0 + i
      BY <3>1, NumbersIs
    <3>3. QED
      BY <3>2 DEF m
  <2>11. a = Len(got) /\ \A i \in 1..a : got[i] = i
    <3>1. \A i \in 1..a : Numbers(0, a)[i] = i
      BY <2>2, <2>9
    <3>2. QED
      BY <2>3, <3>1 DEF a
  <2> HIDE DEF h, z
  <2>12. /\ g \in Seq(Nat) /\ Len(g) = Len(got) + Len(h)
         /\ \A i \in 1..Len(got) + Len(h) : g[i] = IF i <= Len(got) THEN got[i] ELSE h[i - Len(got)]
    BY <2>2, <2>8, ConcatProperties
  <2> HIDE DEF g
  <2>13. g = z
    <3>1. Len(g) = Len(z)
      BY <2>8, <2>10, <2>11, <2>12
    <3>2. ASSUME NEW i \in 1..Len(g) PROVE g[i] = z[i]
      <4>1. i \in Nat /\ i \in 1..(a + n) /\ z[i] = i
        BY <2>8, <2>10, <2>11, <2>12
      <4>2. CASE i <= a
        BY <2>2, <2>11, <2>12, <4>1, <4>2
      <4>3. CASE ~(i <= a)
        <5>1. i - a \in 1..n /\ a + (i - a) = i
          BY <2>2, <4>1, <4>3
        <5>2. h[i - a] = a + (i - a)
          BY <2>8, <5>1
        <5>3. g[i] = h[i - a]
          BY <2>8, <2>11, <2>12, <4>1, <4>3
        <5>4. QED
          BY <4>1, <5>1, <5>2, <5>3
      <4>4. QED
        BY <4>2, <4>3
    <3>3. QED
      BY <2>10, <2>12, <3>1, <3>2, SeqEqual
  <2>14. got' = got \o h
    <3>1. got' = z
      BY <2>1, <2>11 DEF z
    <3>2. QED
      BY <2>13, <3>1 DEF g
  <2>15. h = [i \in 1..n |-> Len(got) + i]
    BY DEF h, Numbers, a
  <2>16. arrived' = arrived
    BY <2>1 DEF Takes
  <2>17. Input!Take
    BY <2>7, <2>14, <2>15, <2>16 DEF Input!Take, a
  <2>18. QED
    BY <2>17
<1>4. ASSUME ~Arrive, ~Bind, ~(Read \/ ReadLine) PROVE UNCHANGED <<arrived, got>>
  BY <1>4 DEF Next, vars, history, PeerGone, StartRead, ReadSome, ReadBlocks, ReadFails, WriteCb,
     WriteCbFails, WriteLater, WriteNow, WriteFails, Free, EnableRead, EnableWrite, DisableRead,
     DisableWrite, Clean
<1>5. QED
  BY <1>1, <1>2, <1>3, <1>4

(* The input implements the queue of bytes: ev_session_read and            *)
(* ev_session_read_util hand out what has arrived, in order, each byte     *)
(* once and none before it has arrived; binding starts afresh.             *)
THEOREM InputIsQueue == Spec => InputQueue
<1>1. Init => Input!Init
  BY DEF Init, Input!Init
<1>2. IInv /\ [Next]_vars => [Input!Put \/ Input!Take \/ Input!StartAfresh]_<<arrived, got>>
  BY StepIsQueue
<1>3. QED
  BY <1>1, <1>2, Invariant, PTL DEF Spec, InputQueue, Input!Spec, Input!vars
=============================================================================
