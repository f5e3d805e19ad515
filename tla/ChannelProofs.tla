----------------------------- MODULE ChannelProofs ----------------------------
(***************************************************************************)
(* Proofs about Channel, for any number of requests on each side: a call   *)
(* that waits is held by the connection or by the wakeup queue, a request  *)
(* is in one place, a session is woken once; and from these, that a        *)
(* channel implements RemoteCall and that requests start in the order in   *)
(* which they were made.                                                   *)
(***************************************************************************)
EXTENDS Channel, FiniteSetTheorems, SequenceTheorems, TLAPS

USE DEF Peer

LEMMA OtherSide ==
  ASSUME NEW p \in Peer
  PROVE  Other(p) \in Peer /\ Other(p) # p /\ Other(Other(p)) = p
BY ChannelAssumption DEF Other

LEMMA RequestTypes ==
  /\ Request \subseteq Nat /\ Session \subseteq Request /\ 0 \in Request
  /\ App \notin Request /\ Main \notin Request /\ None \notin Request
  /\ App # None /\ Main # None /\ App # Main
BY ChannelAssumption DEF Request, Session

-----------------------------------------------------------------------------
(* Queues of messages: what the operations on them keep.                   *)

(* A message at the end of a queue.                                        *)
LEMMA AppendElems ==
  ASSUME NEW S, NEW q \in Seq(S), NEW m \in S
  PROVE  /\ Append(q, m) \in Seq(S)
         /\ Elems(Append(q, m)) = Elems(q) \cup {m}
         /\ Distinct(q) /\ (\A e \in Elems(q) : ~(e.kind = m.kind /\ e.s = m.s))
              => Distinct(Append(q, m))
<1> DEFINE t == Append(q, m)
<1>1. t \in Seq(S) /\ DOMAIN t = 1 .. Len(q) + 1 /\ DOMAIN q = 1 .. Len(q) /\ Len(q) \in Nat
  OBVIOUS
<1>2. \A i \in 1 .. Len(q) : t[i] = q[i]
  OBVIOUS
<1>3. t[Len(q) + 1] = m
  OBVIOUS
<1> HIDE DEF t
<1>4. Elems(t) = Elems(q) \cup {m}
  <2>1. \A i \in DOMAIN t : i \in DOMAIN q \/ i = Len(q) + 1
    BY <1>1
  <2>2. Elems(t) \subseteq Elems(q) \cup {m}
    BY <2>1, <1>1, <1>2, <1>3 DEF Elems
  <2>3. Elems(q) \subseteq Elems(t)
    <3> SUFFICES ASSUME NEW i \in DOMAIN q PROVE q[i] \in Elems(t)
      BY DEF Elems
    <3> i \in DOMAIN t /\ t[i] = q[i]
      BY <1>1, <1>2
    <3> QED BY DEF Elems
  <2>4. m \in Elems(t)
    <3> Len(q) + 1 \in DOMAIN t
      BY <1>1
    <3> QED BY <1>3 DEF Elems
  <2> QED BY <2>2, <2>3, <2>4
<1>5. ASSUME Distinct(q), \A e \in Elems(q) : ~(e.kind = m.kind /\ e.s = m.s)
      PROVE  Distinct(t)
  <2> SUFFICES ASSUME NEW i \in DOMAIN t, NEW j \in DOMAIN t,
                      t[i].kind = t[j].kind, t[i].s = t[j].s
               PROVE  i = j
    BY DEF Distinct
  <2>1. CASE i \in DOMAIN q /\ j \in DOMAIN q
    BY <2>1, <1>1, <1>2, <1>5 DEF Distinct
  <2>2. CASE i \in DOMAIN q /\ j = Len(q) + 1
    <3> q[i] \in Elems(q) /\ t[i] = q[i] /\ t[j] = m
      BY <2>2, <1>1, <1>2, <1>3 DEF Elems
    <3> QED BY <1>5
  <2>3. CASE j \in DOMAIN q /\ i = Len(q) + 1
    <3> q[j] \in Elems(q) /\ t[j] = q[j] /\ t[i] = m
      BY <2>3, <1>1, <1>2, <1>3 DEF Elems
    <3> QED BY <1>5
  <2> QED BY <1>1, <2>1, <2>2, <2>3
<1> QED BY <1>1, <1>4, <1>5 DEF t

(* A part of a queue.                                                      *)
LEMMA PartElems ==
  ASSUME NEW S, NEW q \in Seq(S), NEW a \in Nat \ {0}, NEW b \in 0 .. Len(q)
  PROVE  LET t == SubSeq(q, a, b)
         IN /\ t \in Seq(S)
            /\ \A i \in DOMAIN t : i + a - 1 \in a .. b /\ t[i] = q[i + a - 1]
            /\ Elems(t) \subseteq {q[i] : i \in a .. b} /\ Elems(t) \subseteq Elems(q)
            /\ Distinct(q) => Distinct(t)
<1> DEFINE t == SubSeq(q, a, b)
<1>1. t \in Seq(S) /\ \A i \in DOMAIN t : i \in Nat /\ i + a - 1 \in a .. b /\ t[i] = q[i + a - 1]
  <2>1. t \in Seq(S)
    OBVIOUS
  <2>2. ASSUME NEW i \in DOMAIN t PROVE i \in Nat /\ i + a - 1 \in a .. b /\ t[i] = q[i + a - 1]
    <3>1. i \in 1 .. Len(t) /\ Len(t) = IF a <= b THEN b - a + 1 ELSE 0
      BY <2>1
    <3> QED BY <3>1
  <2> QED BY <2>1, <2>2
<1>2. a .. b \subseteq DOMAIN q
  OBVIOUS
<1> HIDE DEF t
<1>3. Elems(t) \subseteq {q[i] : i \in a .. b} /\ Elems(t) \subseteq Elems(q)
  BY <1>1, <1>2 DEF Elems
<1>4. Distinct(q) => Distinct(t)
  <2> SUFFICES ASSUME Distinct(q), NEW i \in DOMAIN t, NEW j \in DOMAIN t,
                      t[i].kind = t[j].kind, t[i].s = t[j].s
               PROVE  i = j
    BY DEF Distinct
  <2>1. i + a - 1 \in DOMAIN q /\ j + a - 1 \in DOMAIN q
    BY <1>1, <1>2
  <2>2. i + a - 1 = j + a - 1
    BY <2>1, <1>1 DEF Distinct
  <2> QED BY <2>2, <1>1
<1> QED BY <1>1, <1>3, <1>4 DEF t

(* The rest of a queue, without its first element.                         *)
LEMMA TailElems ==
  ASSUME NEW S, NEW q \in Seq(S), q # <<>>
  PROVE  /\ Tail(q) \in Seq(S) /\ Head(q) \in S /\ Head(q) \in Elems(q)
         /\ Elems(Tail(q)) \subseteq Elems(q)
         /\ Elems(q) \subseteq Elems(Tail(q)) \cup {Head(q)}
         /\ Distinct(q) =>
              /\ Distinct(Tail(q))
              /\ \A e \in Elems(Tail(q)) : ~(e.kind = Head(q).kind /\ e.s = Head(q).s)
<1> DEFINE t == Tail(q)
<1>1. /\ t \in Seq(S) /\ Head(q) = q[1] /\ 1 \in DOMAIN q
      /\ \A i \in DOMAIN t : i \in Nat \ {0} /\ i + 1 \in DOMAIN q /\ t[i] = q[i + 1]
      /\ \A i \in DOMAIN q : i \in Nat /\ (i # 1 => i - 1 \in DOMAIN t)
  OBVIOUS
<1> HIDE DEF t
<1>2. Elems(t) \subseteq Elems(q) /\ Head(q) \in Elems(q)
  BY <1>1 DEF Elems
<1>3. Elems(q) \subseteq Elems(t) \cup {Head(q)}
  <2> SUFFICES ASSUME NEW i \in DOMAIN q, i # 1 PROVE q[i] \in Elems(t)
    BY <1>1 DEF Elems
  <2>1. i - 1 \in DOMAIN t /\ (i - 1) + 1 = i
    BY <1>1
  <2>2. t[i - 1] = q[i]
    BY <1>1, <2>1
  <2> QED BY <2>1, <2>2 DEF Elems
<1>4. Distinct(q) => Distinct(t)
  <2> SUFFICES ASSUME Distinct(q), NEW i \in DOMAIN t, NEW j \in DOMAIN t,
                      t[i].kind = t[j].kind, t[i].s = t[j].s
               PROVE  i = j
    BY DEF Distinct
  <2>1. i + 1 = j + 1
    BY <1>1, SMTT(30) DEF Distinct
  <2> QED BY <2>1, <1>1
<1>5. Distinct(q) => \A e \in Elems(t) : ~(e.kind = Head(q).kind /\ e.s = Head(q).s)
  <2> SUFFICES ASSUME Distinct(q), NEW i \in DOMAIN t, t[i].kind = Head(q).kind, t[i].s = Head(q).s
               PROVE  FALSE
    BY DEF Elems
  <2>1. i + 1 = 1
    BY <1>1 DEF Distinct
  <2> QED BY <2>1, <1>1
<1> QED BY <1>1, <1>2, <1>3, <1>4, <1>5 DEF t

(* What Pick takes from a queue, in the order of Ascending.                *)
LEMMA PickElems ==
  ASSUME NEW S, NEW in \in Seq(S), NEW I \in SUBSET DOMAIN in, NEW q \in Ascending(I),
         NEW T, \A i \in I : in[i] \in T
  PROVE  /\ Pick(in, q) \in Seq(T)
         /\ Elems(Pick(in, q)) = {in[i] : i \in I}
         /\ Distinct(in) => Distinct(Pick(in, q))
<1> DEFINE n == Cardinality(I)
           t == Pick(in, q)
<1>1. n \in Nat
  <2>1. IsFiniteSet(1 .. Len(in)) /\ DOMAIN in = 1 .. Len(in)
    BY FS_Interval
  <2> QED BY <2>1, FS_Subset, FS_CardinalityType
<1>2. /\ q \in [1 .. n -> I]
      /\ \A i, j \in 1 .. n : i < j => q[i] < q[j]
      /\ \A x \in I : \E i \in 1 .. n : q[i] = x
  BY DEF Ascending
<1>3. DOMAIN t = 1 .. n /\ \A i \in 1 .. n : q[i] \in I /\ t[i] = in[q[i]]
  BY <1>2 DEF Pick
<1> HIDE DEF t
<1>4. t \in Seq(T)
  <2>1. t \in [1 .. n -> T]
    <3>1. t = [i \in 1 .. n |-> in[q[i]]]
      BY <1>2 DEF t, Pick
    <3> QED BY <3>1, <1>3
  <2> QED BY <2>1, <1>1, IsASeq
<1>5. Elems(t) = {in[i] : i \in I}
  BY <1>2, <1>3 DEF Elems
<1>6. Distinct(in) => Distinct(t)
  <2> SUFFICES ASSUME Distinct(in), NEW i \in 1 .. n, NEW j \in 1 .. n,
                      t[i].kind = t[j].kind, t[i].s = t[j].s
               PROVE  i = j
    BY <1>3 DEF Distinct
  <2>1. q[i] = q[j]
    BY <1>3 DEF Distinct
  <2>2. q[i] \in Nat /\ ~(q[i] < q[i])
    BY <1>3
  <2>3. ~(i < j) /\ ~(j < i)
    BY <2>1, <2>2, <1>2
  <2> QED BY <2>3, <1>1
<1> QED BY <1>4, <1>5, <1>6 DEF t

(* The requests of a queue that have a session of their own, one-way       *)
(* messages apart, are in the order of their sessions.                     *)
Numbered(m) == IsRequest(m) /\ m.s \in Session
Sorted(q) == \A i, j \in DOMAIN q : i < j /\ Numbered(q[i]) /\ Numbered(q[j]) => q[i].s < q[j].s

LEMMA SortedAppend ==
  ASSUME NEW S, NEW q \in Seq(S), NEW m \in S, Sorted(q),
         \A e \in Elems(q) : Numbered(m) /\ Numbered(e) => e.s < m.s
  PROVE  Sorted(Append(q, m))
<1> DEFINE t == Append(q, m)
           n == Len(q)
<1>1. DOMAIN t = 1 .. n + 1 /\ DOMAIN q = 1 .. n /\ n \in Nat
  OBVIOUS
<1>2. \A i \in 1 .. n : t[i] = q[i]
  OBVIOUS
<1>3. t[n + 1] = m
  OBVIOUS
<1> HIDE DEF t, n
<1>4. ASSUME NEW i \in DOMAIN t, NEW j \in DOMAIN t, i < j, Numbered(t[i]), Numbered(t[j])
      PROVE  t[i].s < t[j].s
  <2>1. i \in 1 .. n /\ (j \in 1 .. n \/ j = n + 1)
    BY <1>1, <1>4
  <2>2. q[i] \in Elems(q) /\ t[i] = q[i]
    BY <1>1, <1>2, <2>1 DEF Elems
  <2>3. CASE j \in 1 .. n
    BY <1>1, <1>2, <1>4, <2>1, <2>3 DEF Sorted
  <2>4. CASE j = n + 1
    BY <1>3, <1>4, <2>2, <2>4
  <2> QED BY <2>1, <2>3, <2>4
<1> QED BY <1>4 DEF Sorted, t

LEMMA SortedPart ==
  ASSUME NEW S, NEW q \in Seq(S), Sorted(q), NEW a \in Nat \ {0}, NEW b \in 0 .. Len(q)
  PROVE  Sorted(SubSeq(q, a, b))
<1> DEFINE t == SubSeq(q, a, b)
<1>1. t \in Seq(S) /\ \A i \in DOMAIN t : i + a - 1 \in a .. b /\ t[i] = q[i + a - 1]
  BY PartElems
<1>2. a .. b \subseteq DOMAIN q
  OBVIOUS
<1> HIDE DEF t
<1>3. ASSUME NEW i \in DOMAIN t, NEW j \in DOMAIN t, i < j, Numbered(t[i]), Numbered(t[j])
      PROVE  t[i].s < t[j].s
  <2> DEFINE x == i + a - 1
             y == j + a - 1
  <2>1. i \in Nat /\ j \in Nat
    BY <1>1
  <2>2. x \in DOMAIN q /\ y \in DOMAIN q /\ x < y /\ t[i] = q[x] /\ t[j] = q[y]
    BY <1>1, <1>2, <1>3, <2>1
  <2> HIDE DEF x, y
  <2> QED BY <1>3, <2>2 DEF Sorted
<1> QED BY <1>3 DEF Sorted, t

LEMMA SortedTail ==
  ASSUME NEW S, NEW q \in Seq(S), q # <<>>, Sorted(q)
  PROVE  /\ Sorted(Tail(q))
         /\ \A e \in Elems(Tail(q)) : Numbered(Head(q)) /\ Numbered(e) => Head(q).s < e.s
<1> DEFINE t == Tail(q)
           h == Head(q)
<1>1. /\ t \in Seq(S) /\ h = q[1] /\ 1 \in DOMAIN q
      /\ \A i \in DOMAIN t : i \in Nat \ {0} /\ i + 1 \in DOMAIN q /\ t[i] = q[i + 1]
  OBVIOUS
<1> HIDE DEF t, h
<1>2. ASSUME NEW i \in DOMAIN t, NEW j \in DOMAIN t, i < j, Numbered(t[i]), Numbered(t[j])
      PROVE  t[i].s < t[j].s
  <2> DEFINE x == i + 1
             y == j + 1
  <2>1. x \in DOMAIN q /\ y \in DOMAIN q /\ x < y /\ t[i] = q[x] /\ t[j] = q[y]
    BY <1>1, <1>2
  <2> HIDE DEF x, y
  <2> QED BY <1>2, <2>1 DEF Sorted
<1>3. ASSUME NEW e \in Elems(t), Numbered(h), Numbered(e) PROVE h.s < e.s
  <2>1. PICK j \in DOMAIN t : e = t[j]
    BY DEF Elems
  <2> DEFINE y == j + 1
  <2>2. y \in DOMAIN q /\ 1 < y /\ e = q[y]
    BY <1>1, <2>1
  <2> HIDE DEF y
  <2> QED BY <1>1, <1>3, <2>2 DEF Sorted
<1> QED BY <1>2, <1>3 DEF Sorted, t, h

LEMMA SortedPick ==
  ASSUME NEW S, NEW in \in Seq(S), NEW I \in SUBSET DOMAIN in, NEW q \in Ascending(I), Sorted(in)
  PROVE  Sorted(Pick(in, q))
<1> DEFINE n == Cardinality(I)
           t == Pick(in, q)
<1>1. q \in [1 .. n -> I] /\ \A i, j \in 1 .. n : i < j => q[i] < q[j]
  BY DEF Ascending
<1>2. DOMAIN t = 1 .. n /\ \A i \in 1 .. n : q[i] \in DOMAIN in /\ t[i] = in[q[i]]
  BY <1>1 DEF Pick
<1> HIDE DEF t
<1>3. ASSUME NEW i \in 1 .. n, NEW j \in 1 .. n, i < j, Numbered(t[i]), Numbered(t[j])
      PROVE  t[i].s < t[j].s
  <2>1. q[i] < q[j] /\ q[i] \in DOMAIN in /\ q[j] \in DOMAIN in /\ t[i] = in[q[i]] /\ t[j] = in[q[j]]
    BY <1>1, <1>2, <1>3
  <2> QED BY <1>3, <2>1 DEF Sorted
<1> QED BY <1>2, <1>3 DEF Sorted, t

-----------------------------------------------------------------------------
(* Type correctness.                                                       *)

LEMMA MessageKinds ==
  /\ \A m \in Message : /\ IsReply(m) => m \in Wakeup
                        /\ IsRequest(m) => m \in Forked
                        /\ m.s \in Request /\ (IsReply(m) \/ IsRequest(m))
  /\ \A m \in Wakeup : IsReply(m) /\ m.s \in Request /\ m.how \in {"ok", "error", "closed"}
  /\ \A m \in Forked : IsRequest(m) /\ m.s \in Request
  /\ \A r \in Request :
       /\ Asked(r) \in Message /\ IsRequest(Asked(r)) /\ Asked(r).s = r
       /\ \A how \in {"ok", "error"} :
            /\ Replied(r, how) \in Message /\ IsReply(Replied(r, how))
            /\ Replied(r, how).s = r /\ Replied(r, how).how = how
       /\ Replied(r, "closed") \in Wakeup
       /\ Replied(r, "closed").s = r /\ Replied(r, "closed").how = "closed"
  /\ \A m : ~(IsReply(m) /\ IsRequest(m))
BY DEF Message, Wakeup, Forked, IsReply, IsRequest, Asked, Replied

LEMMA PutType ==
  ASSUME wire \in [Peer -> Seq(Message)], NEW p \in Peer, NEW m \in Message
  PROVE  Put(p, m) \in [Peer -> Seq(Message)]
BY DEF Put

LEMMA UnpluggedType ==
  ASSUME wire \in [Peer -> Seq(Message)], NEW p \in Peer, NEW n \in 0 .. Len(wire[p])
  PROVE  /\ Unplugged(p, n) \in [Peer -> Seq(Message)]
         /\ Unplugged(p, n)[p] = SubSeq(wire[p], 1, n)
         /\ Unplugged(p, n)[Other(p)] = <<>>
<1>1. SubSeq(wire[p], 1, n) \in Seq(Message) /\ <<>> \in Seq(Message)
  BY PartElems
<1> QED BY <1>1, OtherSide DEF Unplugged

(* What a Data step does: w and g are what it queues, n messages are       *)
(* understood and the a-th is the next one to read.                        *)
DataStep(p, n, a, f, w, g) ==
  LET in == wire[Other(p)]
  IN /\ n < a
     /\ wire' = [wire EXCEPT ![Other(p)] = SubSeq(in, a, Len(in))]
     /\ frame' = [frame EXCEPT ![p] = f]
     /\ wakeQ' = [wakeQ EXCEPT ![p] = w] /\ forkQ' = [forkQ EXCEPT ![p] = g]
     /\ Elems(w) = {in[i] : i \in RepliesOf(in, n)}
     /\ Elems(g) = {in[i] : i \in RequestsOf(in, n)}
     /\ Distinct(in) => Distinct(w) /\ Distinct(g)
     /\ Sorted(in) => Sorted(g)

LEMMA DataParts ==
  ASSUME TypeOK, NEW p \in Peer, Data(p)
  PROVE  \E n \in 0 .. Len(wire[Other(p)]), a \in Nat \ {0}, f \in {"head", "body", "lost"},
            w \in Seq(Wakeup), g \in Seq(Forked) : DataStep(p, n, a, f, w, g)
<1> DEFINE in == wire[Other(p)]
<1>1. in \in Seq(Message)
  BY OtherSide DEF TypeOK
<1>2. PICK n \in 0 .. Len(in), f \in {"head", "body", "lost"} :
        /\ frame' = [frame EXCEPT ![p] = f]
        /\ wire' = [wire EXCEPT ![Other(p)] =
                      SubSeq(in, IF f = "lost" THEN n + 2 ELSE n + 1, Len(in))]
        /\ \E q \in Ascending(RepliesOf(in, n)) : wakeQ' = [wakeQ EXCEPT ![p] = Pick(in, q)]
        /\ \E q \in Ascending(RequestsOf(in, n)) : forkQ' = [forkQ EXCEPT ![p] = Pick(in, q)]
  BY DEF Data
<1>3. /\ RepliesOf(in, n) \in SUBSET DOMAIN in /\ \A i \in RepliesOf(in, n) : in[i] \in Wakeup
      /\ RequestsOf(in, n) \in SUBSET DOMAIN in /\ \A i \in RequestsOf(in, n) : in[i] \in Forked
  BY <1>1, MessageKinds DEF RepliesOf, RequestsOf
<1>4. PICK q \in Ascending(RepliesOf(in, n)) : wakeQ' = [wakeQ EXCEPT ![p] = Pick(in, q)]
  BY <1>2
<1>5. PICK u \in Ascending(RequestsOf(in, n)) : forkQ' = [forkQ EXCEPT ![p] = Pick(in, u)]
  BY <1>2
<1> DEFINE w == Pick(in, q)
           g == Pick(in, u)
           a == IF f = "lost" THEN n + 2 ELSE n + 1
<1>6. w \in Seq(Wakeup) /\ Elems(w) = {in[i] : i \in RepliesOf(in, n)} /\ (Distinct(in) => Distinct(w))
  BY <1>1, <1>3, PickElems
<1>7. /\ g \in Seq(Forked) /\ Elems(g) = {in[i] : i \in RequestsOf(in, n)}
      /\ Distinct(in) => Distinct(g)
      /\ Sorted(in) => Sorted(g)
  BY <1>1, <1>3, PickElems, SortedPick
<1>8. a \in Nat \ {0} /\ n < a
  OBVIOUS
<1>9. wire' = [wire EXCEPT ![Other(p)] = SubSeq(in, a, Len(in))]
  BY <1>2
<1> HIDE DEF w, g, a, in
<1>10. wakeQ' = [wakeQ EXCEPT ![p] = w] /\ forkQ' = [forkQ EXCEPT ![p] = g]
  BY <1>4, <1>5 DEF w, g
<1>11. DataStep(p, n, a, f, w, g)
  BY <1>2, <1>6, <1>7, <1>8, <1>9, <1>10 DEF in, DataStep
<1> QED BY <1>6, <1>7, <1>8, <1>11 DEF in

(* The parts of an Error step.                                             *)
LEMMA ErrorParts ==
  ASSUME TypeOK, NEW p \in Peer, Error(p)
  PROVE  \E w \in Seq(Wakeup) :
           /\ wakeQ' = [wakeQ EXCEPT ![p] = w]
           /\ Distinct(w)
           /\ \A s \in pending[p] : s \in Sessions(w)
           /\ \A m \in Elems(w) : m.s \in pending[p] /\ m.how = "closed"
<1>1. PICK q \in Ascending(pending[p]) :
        wakeQ' = [wakeQ EXCEPT ![p] = [i \in DOMAIN q |-> Replied(q[i], "closed")]]
  BY DEF Error
<1> DEFINE n == Cardinality(pending[p])
           w == [i \in DOMAIN q |-> Replied(q[i], "closed")]
<1>2. pending[p] \subseteq Request
  BY DEF TypeOK
<1>3. n \in Nat
  <2>1. IsFiniteSet(Request)
    <3>1. IsFiniteSet(1 .. MaxAsk[A]) /\ IsFiniteSet(1 .. MaxAsk[B]) /\ IsFiniteSet({0})
      <4>1. MaxAsk[A] \in Nat /\ MaxAsk[B] \in Nat
        BY ChannelAssumption
      <4>2. MaxAsk[A] \in Int /\ MaxAsk[B] \in Int /\ 1 \in Int
        BY <4>1
      <4> QED BY <4>2, FS_Interval, FS_Singleton
    <3> QED BY <3>1, FS_Union DEF Request, Session
  <2> QED BY <2>1, <1>2, FS_Subset, FS_CardinalityType
<1>4. /\ q \in [1 .. n -> pending[p]]
      /\ \A i, j \in 1 .. n : i < j => q[i] < q[j]
      /\ \A x \in pending[p] : \E i \in 1 .. n : q[i] = x
  BY DEF Ascending
<1>5. DOMAIN w = 1 .. n /\ \A i \in 1 .. n : w[i] = Replied(q[i], "closed") /\ q[i] \in pending[p]
  BY <1>4
<1>6. w \in Seq(Wakeup)
  <2>1. w \in [1 .. n -> Wakeup]
    BY <1>4, <1>2, MessageKinds
  <2> QED BY <2>1, <1>3, IsASeq
<1>7. wakeQ' = [wakeQ EXCEPT ![p] = w]
  BY <1>1
<1> HIDE DEF w
<1>8. \A i \in 1 .. n : w[i].s = q[i] /\ w[i].how = "closed"
  BY <1>5, <1>2, MessageKinds
<1>9. Distinct(w)
  <2> SUFFICES ASSUME NEW i \in 1 .. n, NEW j \in 1 .. n, w[i].s = w[j].s PROVE i = j
    BY <1>5 DEF Distinct
  <2>1. q[i] = q[j] /\ q[i] \in Nat
    BY <1>8, <1>5, <1>2, RequestTypes
  <2> QED BY <2>1, <1>4, <1>3
<1>10. \A s \in pending[p] : s \in Sessions(w)
  BY <1>4, <1>5, <1>8 DEF Sessions, Elems
<1>11. \A m \in Elems(w) : m.s \in pending[p] /\ m.how = "closed"
  BY <1>5, <1>8 DEF Elems
<1> QED BY <1>6, <1>7, <1>9, <1>10, <1>11

LEMMA InitType == Init => TypeOK
<1> SUFFICES ASSUME Init PROVE TypeOK
  OBVIOUS
<1>1. \A S : <<>> \in Seq(S)
  OBVIOUS
<1>2. [at |-> "new", by |-> None] \in CallState
  BY DEF CallState
<1> QED BY <1>1, <1>2, RequestTypes DEF Init, TypeOK

LEMMA CallUpdate ==
  ASSUME TypeOK, NEW p \in Peer, NEW r \in Request, NEW c \in CallState
  PROVE  [call EXCEPT ![p][r] = c] \in [Peer -> [Request -> CallState]]
BY DEF TypeOK

LEMMA CallUpdateAt ==
  ASSUME TypeOK, NEW p \in Peer, NEW r \in Request,
         NEW at \in {"new", "sent", "waiting", "raised", "unheard", "ok", "error", "closed"}
  PROVE  [call EXCEPT ![p][r].at = at] \in [Peer -> [Request -> CallState]]
<1>1. call[p][r] \in CallState
  BY DEF TypeOK
<1>2. [call[p][r] EXCEPT !.at = at] \in CallState
  BY <1>1 DEF CallState
<1>3. [call EXCEPT ![p][r].at = at] = [call EXCEPT ![p][r] = [call[p][r] EXCEPT !.at = at]]
  BY DEF TypeOK
<1> QED BY <1>2, <1>3, CallUpdate

LEMMA EventType ==
  ASSUME TypeOK, NEW p \in Peer, Event(p)
  PROVE  TypeOK'
<1>1. CASE OtherEvent(p)
  BY <1>1, ZenonT(60) DEF OtherEvent, network, TypeOK
<1>2. CASE Data(p)
  <2> DEFINE in == wire[Other(p)]
  <2>1. PICK n \in 0 .. Len(in), a \in Nat \ {0}, f \in {"head", "body", "lost"},
             w \in Seq(Wakeup), g \in Seq(Forked) : DataStep(p, n, a, f, w, g)
    BY <1>2, DataParts
  <2>2. in \in Seq(Message) /\ Len(in) \in 0 .. Len(in)
    BY OtherSide DEF TypeOK
  <2>3. SubSeq(in, a, Len(in)) \in Seq(Message)
    BY <2>2, PartElems
  <2>4. pending' \in [Peer -> SUBSET Request] /\ faulty' \in BOOLEAN
    BY <1>2 DEF Data, TypeOK
  <2>5. UNCHANGED <<chan, call, exec, parked, cur, stranded>>
    BY <1>2 DEF Data
  <2>6. /\ wire' = [wire EXCEPT ![Other(p)] = SubSeq(in, a, Len(in))]
        /\ frame' = [frame EXCEPT ![p] = f]
        /\ wakeQ' = [wakeQ EXCEPT ![p] = w] /\ forkQ' = [forkQ EXCEPT ![p] = g]
    BY <2>1 DEF DataStep
  <2> HIDE DEF in
  <2> QED BY <2>3, <2>4, <2>5, <2>6 DEF TypeOK
<1>3. CASE DataLost(p)
  <2> DEFINE in == wire[Other(p)]
  <2>1. PICK n \in 1 .. Len(in), f \in {"head", "lost"} :
          /\ frame' = [frame EXCEPT ![p] = f]
          /\ wire' = [wire EXCEPT ![Other(p)] = SubSeq(in, n + 1, Len(in))]
    BY <1>3 DEF DataLost
  <2>2. in \in Seq(Message) /\ Len(in) \in 0 .. Len(in) /\ n + 1 \in Nat \ {0}
    BY OtherSide DEF TypeOK
  <2>3. SubSeq(in, n + 1, Len(in)) \in Seq(Message)
    BY <2>2, PartElems
  <2>4. UNCHANGED <<chan, pending, call, exec, wakeQ, forkQ, parked, cur, stranded, faulty>>
    BY <1>3 DEF DataLost
  <2> HIDE DEF in
  <2> QED BY <2>1, <2>3, <2>4 DEF TypeOK
<1>4. CASE Error(p)
  <2>1. PICK w \in Seq(Wakeup) : wakeQ' = [wakeQ EXCEPT ![p] = w]
    BY <1>4, ErrorParts
  <2>2. wire' \in [Peer -> Seq(Message)]
    <3>1. Len(wire[p]) \in 0 .. Len(wire[p])
      BY DEF TypeOK
    <3> QED BY <3>1, <1>4, UnpluggedType DEF Error, TypeOK
  <2>3. /\ chan' = [chan EXCEPT ![p] = IF @ = "open" THEN "dying" ELSE "ending"]
        /\ pending' = [pending EXCEPT ![p] = {}]
        /\ UNCHANGED <<frame, call, exec, forkQ, parked, cur, stranded, faulty>>
    BY <1>4 DEF Error
  <2> QED BY <2>1, <2>2, <2>3 DEF TypeOK
<1> QED BY <1>1, <1>2, <1>3, <1>4 DEF Event

LEMMA DrainType ==
  ASSUME TypeOK, NEW p \in Peer, Drain(p)
  PROVE  TypeOK'
<1>1. CASE RunWakeup(p)
  <2> DEFINE m == Head(wakeQ[p])
  <2>1. m \in Wakeup /\ Tail(wakeQ[p]) \in Seq(Wakeup)
    BY <1>1, TailElems DEF RunWakeup, TypeOK
  <2>2. m.s \in Request /\ m.how \in {"ok", "error", "closed"}
    BY <2>1, MessageKinds
  <2>3. \/ /\ cur' = [cur EXCEPT ![p] = call[p][m.s].by]
           /\ call' = [call EXCEPT ![p][m.s] = [at |-> m.how, by |-> None]]
        \/ UNCHANGED <<cur, call>>
    BY <1>1 DEF RunWakeup
  <2>4. /\ wakeQ' = [wakeQ EXCEPT ![p] = Tail(@)]
        /\ UNCHANGED <<network, pending, exec, forkQ, parked, stranded, faulty>>
    BY <1>1 DEF RunWakeup
  <2> HIDE DEF m
  <2>5. call[p][m.s].by \in Request \cup {App, Main, None}
    BY <2>2 DEF TypeOK, CallState
  <2>6. cur' \in [Peer -> Request \cup {App, Main, None}]
    BY <2>3, <2>5 DEF TypeOK
  <2>7. call' \in [Peer -> [Request -> CallState]]
    <3>1. [at |-> m.how, by |-> None] \in CallState
      BY <2>2 DEF CallState
    <3>2. call \in [Peer -> [Request -> CallState]]
      BY DEF TypeOK
    <3> QED BY <2>2, <2>3, <3>1, <3>2, CallUpdate
  <2> QED BY <2>1, <2>4, <2>6, <2>7 DEF network, TypeOK
<1>2. CASE RunFork(p)
  <2> DEFINE m == Head(forkQ[p])
  <2>1. m \in Forked /\ Tail(forkQ[p]) \in Seq(Forked)
    BY <1>2, TailElems DEF RunFork, TypeOK
  <2>2. m.s \in Request
    BY <2>1, MessageKinds
  <2>3. /\ forkQ' = [forkQ EXCEPT ![p] = Tail(@)]
        /\ cur' = [cur EXCEPT ![p] = m.s]
        /\ exec' = [exec EXCEPT ![Other(p)][m.s] = "running"]
        /\ UNCHANGED <<network, pending, call, wakeQ, parked, stranded, faulty>>
    BY <1>2 DEF RunFork
  <2> HIDE DEF m
  <2> QED BY <2>1, <2>2, <2>3, OtherSide DEF network, TypeOK
<1>3. CASE Destroy(p)
  <2>1. wire' \in [Peer -> Seq(Message)]
    <3>1. PICK n \in 0 .. Len(wire[p]) : wire' = Unplugged(p, n)
      BY <1>3 DEF Destroy
    <3> QED BY <3>1, UnpluggedType DEF TypeOK
  <2> QED BY <2>1, <1>3 DEF Destroy, TypeOK
<1> QED BY <1>1, <1>2, <1>3 DEF Drain

LEMMA UseType ==
  ASSUME TypeOK, NEW p \in Peer, Use(p)
  PROVE  TypeOK'
<1>0. wire \in [Peer -> Seq(Message)] /\ Len(wire[p]) \in 0 .. Len(wire[p])
  BY DEF TypeOK
<1>1. CASE Send(p)
  <2>1. Asked(0) \in Message
    BY MessageKinds, RequestTypes
  <2>2. wire' = Put(p, Asked(0)) /\ call' = [call EXCEPT ![p][0].at = "sent"]
    BY <1>1 DEF Send
  <2>3. wire' \in [Peer -> Seq(Message)]
    BY <1>0, <2>1, <2>2, PutType
  <2>4. call' \in [Peer -> [Request -> CallState]]
    BY <2>2, CallUpdateAt, RequestTypes
  <2> QED BY <2>3, <2>4, <1>1 DEF Send, TypeOK
<1>2. CASE Close(p)
  <2>1. wire' \in [Peer -> Seq(Message)]
    BY <1>0, <1>2, UnpluggedType DEF Close
  <2> QED BY <2>1, <1>2 DEF Close, TypeOK
<1>3. CASE CloseNow(p)
  <2>1. wire' \in [Peer -> Seq(Message)]
    <3>1. PICK n \in 0 .. Len(wire[p]) : wire' = Unplugged(p, n)
      BY <1>3 DEF CloseNow
    <3> QED BY <1>0, <3>1, UnpluggedType
  <2> QED BY <2>1, <1>3 DEF CloseNow, TypeOK
<1>4. ASSUME NEW s \in Session, Call(p, s) PROVE TypeOK'
  <2>1. s \in Request /\ Asked(s) \in Message
    BY MessageKinds, RequestTypes
  <2>2. /\ wire' = Put(p, Asked(s)) /\ cur' = [cur EXCEPT ![p] = None]
        /\ call' = [call EXCEPT ![p][s] = [at |-> "waiting", by |-> cur[p]]]
    BY <1>4 DEF Call
  <2>3. wire' \in [Peer -> Seq(Message)]
    BY <1>0, <2>1, <2>2, PutType
  <2>4. call' \in [Peer -> [Request -> CallState]]
    <3>0. cur[p] \in Request \cup {App, None}
      BY <1>4 DEF Call, TypeOK
    <3>1. [at |-> "waiting", by |-> cur[p]] \in CallState
      BY <3>0 DEF CallState
    <3> QED BY <3>1, <2>1, <2>2, CallUpdate
  <2> QED BY <2>1, <2>2, <2>3, <2>4, <1>4 DEF Call, TypeOK
<1>5. ASSUME NEW s \in Session, CallRaises(p, s) PROVE TypeOK'
  <2>1. s \in Request
    BY RequestTypes
  <2>2. call' \in [Peer -> [Request -> CallState]]
    BY <1>5, <2>1, CallUpdateAt DEF CallRaises
  <2> QED BY <1>5, <2>1, <2>2 DEF CallRaises, network, TypeOK
<1>6. ASSUME NEW s \in Session, CallInMain(p, s) PROVE TypeOK'
  <2>1. s \in Request /\ Asked(s) \in Message
    BY MessageKinds, RequestTypes
  <2>2. wire' = Put(p, Asked(s)) /\ call' = [call EXCEPT ![p][s].at = "unheard"]
    BY <1>6 DEF CallInMain
  <2>3. wire' \in [Peer -> Seq(Message)]
    BY <1>0, <2>1, <2>2, PutType
  <2>4. call' \in [Peer -> [Request -> CallState]]
    BY <2>1, <2>2, CallUpdateAt
  <2> QED BY <2>1, <2>3, <2>4, <1>6 DEF CallInMain, TypeOK
<1> QED BY <1>1, <1>2, <1>3, <1>4, <1>5, <1>6 DEF Use

LEMMA ReturnType ==
  ASSUME TypeOK, NEW p \in Peer, Return(p)
  PROVE  TypeOK'
<1>1. CASE Reply(p)
  <2>1. PICK how \in {"ok", "error"} :
          /\ exec' = [exec EXCEPT ![Other(p)][cur[p]] = how]
          /\ wire' = wire \/ wire' = Put(p, Replied(cur[p], how))
    BY <1>1 DEF Reply
  <2>2. cur[p] \in Request
    BY <1>1 DEF Reply
  <2>3. wire' \in [Peer -> Seq(Message)]
    <3>1. Replied(cur[p], how) \in Message /\ wire \in [Peer -> Seq(Message)]
      BY <2>2, MessageKinds DEF TypeOK
    <3> QED BY <3>1, <2>1, PutType
  <2> QED BY <2>1, <2>2, <2>3, <1>1, OtherSide DEF Reply, TypeOK
<1>2. CASE ReplyRaises(p)
  BY <1>2, OtherSide DEF ReplyRaises, network, TypeOK
<1>3. CASE Park(p)
  BY <1>3 DEF Park, network, TypeOK
<1>4. CASE Finish(p)
  BY <1>4 DEF Finish, network, TypeOK
<1> QED BY <1>1, <1>2, <1>3, <1>4 DEF Return

(* The variables of Channel keep their types.                              *)
THEOREM TypeCorrect == Spec => []TypeOK
<1>1. TypeOK /\ [Next]_vars => TypeOK'
  <2> SUFFICES ASSUME TypeOK, [Next]_vars PROVE TypeOK'
    OBVIOUS
  <2>1. CASE UNCHANGED vars
    BY <2>1 DEF vars, TypeOK, network
  <2>2. ASSUME NEW p \in Peer, Event(p) \/ Drain(p) \/ Use(p) \/ Return(p) PROVE TypeOK'
    BY <2>2, EventType, DrainType, UseType, ReturnType
  <2> QED BY <2>1, <2>2 DEF Next
<1> QED BY <1>1, InitType, PTL DEF Spec

-----------------------------------------------------------------------------
(* A step of one side leaves alone what the other side keeps.              *)
Step(p) == Event(p) \/ Drain(p) \/ Use(p) \/ Return(p)

LEMMA OthersStay ==
  ASSUME TypeOK, NEW p \in Peer, Step(p), NEW x \in Peer, x # p
  PROVE  /\ chan'[x] = chan[x] /\ frame'[x] = frame[x] /\ pending'[x] = pending[x]
         /\ call'[x] = call[x] /\ wakeQ'[x] = wakeQ[x] /\ forkQ'[x] = forkQ[x]
         /\ parked'[x] = parked[x] /\ cur'[x] = cur[x] /\ stranded'[x] = stranded[x]
<1>1. CASE Event(p)
  <2>1. CASE Data(p)
    <3>1. PICK n \in 0 .. Len(wire[Other(p)]), a \in Nat \ {0}, f \in {"head", "body", "lost"},
               w \in Seq(Wakeup), g \in Seq(Forked) : DataStep(p, n, a, f, w, g)
      BY <2>1, DataParts
    <3>2. /\ frame' = [frame EXCEPT ![p] = f]
          /\ wakeQ' = [wakeQ EXCEPT ![p] = w] /\ forkQ' = [forkQ EXCEPT ![p] = g]
      BY <3>1 DEF DataStep
    <3>3. /\ pending' = [pending EXCEPT ![p] = @ \ Sessions(wakeQ'[p])]
          /\ UNCHANGED <<chan, call, exec, parked, cur, stranded>>
      BY <2>1 DEF Data
    <3> QED BY <3>2, <3>3 DEF TypeOK
  <2>2. CASE Error(p)
    <3>1. PICK w \in Seq(Wakeup) : wakeQ' = [wakeQ EXCEPT ![p] = w]
      BY <2>2, ErrorParts
    <3> QED BY <3>1, <2>2 DEF Error, TypeOK
  <2>3. CASE OtherEvent(p)
    BY <2>3 DEF OtherEvent, network, TypeOK
  <2>4. CASE DataLost(p)
    BY <2>4 DEF DataLost, TypeOK
  <2> QED BY <1>1, <2>1, <2>2, <2>3, <2>4 DEF Event
<1>2. CASE Drain(p)
  <2>1. CASE RunWakeup(p)
    BY <2>1 DEF RunWakeup, network, TypeOK
  <2>2. CASE RunFork(p)
    BY <2>2 DEF RunFork, network, TypeOK
  <2>3. CASE Destroy(p)
    BY <2>3 DEF Destroy, TypeOK
  <2> QED BY <1>2, <2>1, <2>2, <2>3 DEF Drain
<1>3. CASE Use(p)
  <2>1. CASE Send(p) \/ Close(p) \/ CloseNow(p)
    BY <2>1 DEF Send, Close, CloseNow, TypeOK
  <2>2. ASSUME NEW s \in Session, Call(p, s) \/ CallRaises(p, s) \/ CallInMain(p, s)
        PROVE  call'[x] = call[x]
    BY <2>2 DEF Call, CallRaises, CallInMain, TypeOK
  <2>3. ASSUME NEW s \in Session, Call(p, s)
        PROVE  /\ chan' = chan /\ frame' = frame /\ pending'[x] = pending[x] /\ wakeQ' = wakeQ
               /\ forkQ' = forkQ /\ parked' = parked /\ cur'[x] = cur[x] /\ stranded'[x] = stranded[x]
    BY <2>3 DEF Call, TypeOK
  <2>4. ASSUME NEW s \in Session, CallRaises(p, s) \/ CallInMain(p, s)
        PROVE  /\ chan' = chan /\ frame' = frame /\ pending'[x] = pending[x] /\ wakeQ' = wakeQ
               /\ forkQ' = forkQ /\ parked' = parked /\ cur' = cur /\ stranded' = stranded
    BY <2>4 DEF CallRaises, CallInMain, network, TypeOK
  <2> QED BY <1>3, <2>1, <2>2, <2>3, <2>4 DEF Use
<1>4. CASE Return(p)
  BY <1>4 DEF Return, Reply, ReplyRaises, Park, Finish, network, TypeOK
<1> QED BY <1>1, <1>2, <1>3, <1>4 DEF Step

-----------------------------------------------------------------------------
(* A call that waits is held.                                              *)
HeldBy(p, s) ==
  \/ s \in pending[p] /\ chan[p] \in {"open", "lingering"}
  \/ s \in Sessions(wakeQ[p])
  \/ s \in stranded[p]

LEMMA HeldKept ==
  ASSUME TypeOK, CallerHeld, NEW p \in Peer, Step(p), NEW s \in Awaited(p)'
  PROVE  HeldBy(p, s)'
<1>0. s \in Request /\ (s \in Awaited(p) => HeldBy(p, s))
  BY RequestTypes DEF Awaited, CallerHeld, HeldBy
<1>1. CASE Event(p)
  <2>0. Polling(p) /\ wakeQ[p] = <<>> /\ Sessions(wakeQ[p]) = {} /\ call' = call /\ stranded' = stranded
    BY <1>1 DEF Event, OtherEvent, Data, DataLost, Error, Polling, Drained, Sessions, Elems
  <2>1. s \in stranded[p] \/ (s \in pending[p] /\ chan[p] \in {"open", "lingering"})
    BY <1>0, <2>0 DEF Awaited, HeldBy
  <2>2. CASE Data(p)
    <3>1. s \in pending'[p] \/ s \in Sessions(wakeQ'[p]) \/ s \notin pending[p]
      BY <2>2 DEF Data, TypeOK
    <3> QED BY <2>0, <2>1, <2>2, <3>1 DEF Data, HeldBy
  <2>3. CASE Error(p)
    <3>1. PICK w \in Seq(Wakeup) : /\ wakeQ' = [wakeQ EXCEPT ![p] = w]
                                   /\ \A r \in pending[p] : r \in Sessions(w)
      BY <2>3, ErrorParts
    <3>2. wakeQ'[p] = w
      BY <3>1 DEF TypeOK
    <3> QED BY <2>0, <2>1, <3>1, <3>2 DEF HeldBy
  <2>4. CASE OtherEvent(p) \/ DataLost(p)
    BY <2>0, <2>1, <2>4 DEF OtherEvent, DataLost, network, HeldBy
  <2> QED BY <1>1, <2>2, <2>3, <2>4 DEF Event
<1>2. CASE Drain(p)
  <2>1. CASE RunWakeup(p)
    <3> DEFINE m == Head(wakeQ[p])
    <3>1. /\ wakeQ[p] \in Seq(Wakeup) /\ wakeQ[p] # <<>> /\ wakeQ'[p] = Tail(wakeQ[p])
          /\ UNCHANGED <<pending, chan, stranded>>
      BY <2>1 DEF RunWakeup, network, TypeOK
    <3>2. m \in Wakeup /\ Elems(wakeQ[p]) \subseteq Elems(wakeQ'[p]) \cup {m}
      BY <3>1, TailElems
    <3>3. s \in Awaited(p) /\ s # m.s
      <4>1. CASE call[p][m.s].at = "waiting"
        <5>1. call' = [call EXCEPT ![p][m.s] = [at |-> m.how, by |-> None]]
          BY <4>1, <2>1 DEF RunWakeup
        <5>2. m.s \in Request /\ m.how # "waiting"
          BY <3>2, MessageKinds
        <5> HIDE DEF m
        <5>3. call'[p][m.s].at = m.how
          BY <5>1, <5>2 DEF TypeOK
        <5>4. s # m.s
          BY <5>2, <5>3 DEF Awaited
        <5>5. call'[p][s] = call[p][s]
          BY <5>1, <5>4, <1>0 DEF TypeOK
        <5> QED BY <5>4, <5>5 DEF Awaited
      <4>2. CASE call[p][m.s].at # "waiting"
        <5>1. call' = call
          BY <4>2, <2>1 DEF RunWakeup
        <5> QED BY <5>1, <4>2 DEF Awaited
      <4> QED BY <4>1, <4>2
    <3> HIDE DEF m
    <3>4. s \in Sessions(wakeQ[p]) => s \in Sessions(wakeQ'[p])
      BY <3>2, <3>3 DEF Sessions
    <3> QED BY <1>0, <3>1, <3>3, <3>4 DEF HeldBy
  <2>2. CASE RunFork(p)
    BY <2>2, <1>0 DEF RunFork, network, HeldBy, Awaited
  <2>3. CASE Destroy(p)
    <3>1. chan[p] \notin {"open", "lingering"} /\ Sessions(wakeQ[p]) = {}
      BY <2>3 DEF Destroy, Handling, Drained, Sessions, Elems
    <3>2. call' = call /\ stranded' = stranded
      BY <2>3 DEF Destroy
    <3> QED BY <3>1, <3>2, <1>0 DEF HeldBy, Awaited
  <2> QED BY <1>2, <2>1, <2>2, <2>3 DEF Drain
<1>3. CASE Use(p)
  <2>1. CASE Send(p)
    <3>1. call'[p][s].at = "waiting" => call[p][s].at = "waiting"
      BY <2>1, <1>0, RequestTypes DEF Send, TypeOK, CallState
    <3> QED BY <3>1, <2>1, <1>0 DEF Send, HeldBy, Awaited
  <2>2. CASE Close(p)
    <3>1. chan[p] = "open" => chan'[p] = "lingering"
      BY <2>2 DEF Close, TypeOK
    <3>2. chan[p] # "lingering"
      BY <2>2 DEF Close, Closed
    <3> QED BY <3>1, <3>2, <2>2, <1>0 DEF Close, HeldBy, Awaited
  <2>3. CASE CloseNow(p)
    BY <2>3, <1>0 DEF CloseNow, HeldBy, Awaited, TypeOK
  <2>4. ASSUME NEW r \in Session, Call(p, r) PROVE HeldBy(p, s)'
    <3>0. r \in Request
      BY RequestTypes
    <3>1. CASE s = r
      <4>1. chan[p] \in {"open", "dying"} /\ chan' = chan
        BY <2>4 DEF Call, Closed, TypeOK
      <4>2. s \in pending'[p] /\ (chan[p] = "dying" => s \in stranded'[p])
        BY <2>4, <3>1 DEF Call, TypeOK
      <4> QED BY <4>1, <4>2 DEF HeldBy
    <3>2. CASE s # r
      <4>1. call'[p][s] = call[p][s]
        BY <2>4, <3>0, <3>2, <1>0 DEF Call, TypeOK
      <4>2. /\ pending[p] \subseteq pending'[p] /\ stranded[p] \subseteq stranded'[p]
            /\ chan' = chan /\ wakeQ' = wakeQ
        BY <2>4 DEF Call, TypeOK
      <4> QED BY <4>1, <4>2, <1>0 DEF HeldBy, Awaited
    <3> QED BY <3>1, <3>2
  <2>5. ASSUME NEW r \in Session, CallRaises(p, r) \/ CallInMain(p, r) PROVE HeldBy(p, s)'
    <3>1. r \in Request
      BY RequestTypes
    <3>2. call'[p][s].at = "waiting" => call[p][s].at = "waiting"
      <4>1. PICK to \in {"raised", "unheard"} : call' = [call EXCEPT ![p][r].at = to]
        BY <2>5 DEF CallRaises, CallInMain
      <4> QED BY <4>1, <3>1, <1>0 DEF TypeOK, CallState
    <3>3. /\ pending[p] \subseteq pending'[p] /\ stranded' = stranded
          /\ chan' = chan /\ wakeQ' = wakeQ
      BY <2>5 DEF CallRaises, CallInMain, network, TypeOK
    <3> QED BY <3>2, <3>3, <1>0 DEF HeldBy, Awaited
  <2> QED BY <1>3, <2>1, <2>2, <2>3, <2>4, <2>5 DEF Use
<1>4. CASE Return(p)
  BY <1>4, <1>0 DEF Return, Reply, ReplyRaises, Park, Finish, network, HeldBy, Awaited
<1> QED BY <1>1, <1>2, <1>3, <1>4 DEF Step

(* No coroutine that waits for a reply is forgotten, but by the program.   *)
THEOREM WaitingCallHeld == Spec => []CallerHeld
<1>1. Init => CallerHeld
  BY RequestTypes DEF Init, CallerHeld, Awaited
<1>2. TypeOK /\ CallerHeld /\ [Next]_vars => CallerHeld'
  <2> SUFFICES ASSUME TypeOK, CallerHeld, [Next]_vars, NEW x \in Peer, NEW s \in Awaited(x)'
               PROVE  HeldBy(x, s)'
    BY DEF CallerHeld, HeldBy
  <2>1. CASE UNCHANGED vars
    BY <2>1 DEF vars, CallerHeld, Awaited, HeldBy
  <2>2. ASSUME NEW p \in Peer, Step(p) PROVE HeldBy(x, s)'
    <3>1. CASE x = p
      BY <3>1, <2>2, HeldKept
    <3>2. CASE x # p
      BY <3>2, <2>2, OthersStay DEF CallerHeld, Awaited, HeldBy
    <3> QED BY <3>1, <3>2
  <2> QED BY <2>1, <2>2 DEF Next, Step
<1> QED BY <1>1, <1>2, TypeCorrect, PTL DEF Spec

-----------------------------------------------------------------------------
(* WokenOnce and OnePlace are inductive together. Their parts, for side p: *)
(* its queues, the replies on their way to it, its wakeups, its calls, its *)
(* requests on the wire and in the fork queue, begun, and the coroutines   *)
(* with which it serves.                                                   *)
QueuesDistinct(p) == Distinct(wire[p]) /\ Distinct(wakeQ[p]) /\ Distinct(forkQ[p])
ReplyDue(p) ==
  \A m \in Elems(wire[Other(p)]) :
    IsReply(m) =>
      /\ chan[p] = "open" /\ m.s \notin Sessions(wakeQ[p])
      /\ call[p][m.s].at \in {"waiting", "unheard", "sent"} /\ exec[p][m.s] = m.how
WakeupDue(p) ==
  \A m \in Elems(wakeQ[p]) :
    /\ call[p][m.s].at \in {"waiting", "raised", "unheard", "sent"} /\ m.s \notin pending[p]
    /\ IF m.how = "closed" THEN chan[p] # "open" ELSE exec[p][m.s] = m.how
CallTrue(p) ==
  \A r \in Request :
    /\ call[p][r].at \in {"ok", "error"} => exec[p][r] = call[p][r].at
    /\ call[p][r].at = "closed" => chan[p] # "open"
    /\ r \in pending[p] => call[p][r].at \in {"waiting", "raised", "unheard"}
RequestSent(p) ==
  \A m \in Elems(wire[p]) :
    IsRequest(m) =>
      exec[p][m.s] = "none" /\ Made(p, m.s) /\ m.s \notin Sessions(forkQ[Other(p)])
RequestQueued(p) ==
  \A r \in Sessions(forkQ[Other(p)]) : exec[p][r] = "none" /\ Made(p, r)
BegunMade(p) == \A r \in Request : exec[p][r] # "none" => Made(p, r)
ServedOnce(q) ==
  \A r \in Request :
    /\ cur[q] = r => exec[Other(q)][r] = "running" /\ r \notin parked[q]
    /\ r \in parked[q] => exec[Other(q)][r] = "running"
    /\ \A s \in Awaited(q) : call[q][s].by = r =>
         /\ exec[Other(q)][r] = "running" /\ cur[q] # r /\ r \notin parked[q]
         /\ \A t \in Awaited(q) : call[q][t].by = r => t = s

Parts(p) ==
  /\ QueuesDistinct(p) /\ ReplyDue(p) /\ WakeupDue(p) /\ CallTrue(p)
  /\ RequestSent(p) /\ RequestQueued(p) /\ BegunMade(p) /\ ServedOnce(p)
Inv == \A p \in Peer : Parts(p)

LEMMA InvIsBoth == Inv <=> WokenOnce /\ OnePlace
<1>1. ASSUME Inv PROVE WokenOnce
  BY <1>1 DEF Inv, Parts, QueuesDistinct, ReplyDue, WakeupDue, CallTrue, WokenOnce
<1>2. ASSUME Inv PROVE OnePlace
  <2> SUFFICES ASSUME NEW p \in Peer, NEW q \in Peer, q = Other(p)
               PROVE  /\ QueuesDistinct(q) /\ RequestSent(p) /\ RequestQueued(p) /\ BegunMade(p)
                      /\ ServedOnce(q) /\ p = Other(q)
    BY DEF OnePlace, QueuesDistinct, RequestSent, RequestQueued, BegunMade, ServedOnce
  <2> QED BY <1>2, OtherSide DEF Inv, Parts
<1>3. ASSUME WokenOnce, OnePlace PROVE Inv
  <2> SUFFICES ASSUME NEW p \in Peer PROVE Parts(p)
    BY DEF Inv
  <2> DEFINE q == Other(p)
  <2>1. q \in Peer /\ Other(q) = p
    BY OtherSide
  <2>2. QueuesDistinct(p)
    <3>1. Distinct(forkQ[p])
      BY <1>3, <2>1 DEF OnePlace
    <3> QED BY <1>3, <3>1 DEF WokenOnce, QueuesDistinct
  <2>3. ReplyDue(p) /\ WakeupDue(p) /\ CallTrue(p)
    BY <1>3 DEF WokenOnce, ReplyDue, WakeupDue, CallTrue
  <2>4. RequestSent(p) /\ RequestQueued(p) /\ BegunMade(p)
    BY <1>3, <2>1 DEF OnePlace, RequestSent, RequestQueued, BegunMade
  <2>5. ServedOnce(p)
    BY <1>3, <2>1 DEF OnePlace, ServedOnce
  <2> QED BY <2>2, <2>3, <2>4, <2>5 DEF Parts
<1> QED BY <1>1, <1>2, <1>3

(* What keeps the parts when a step has nothing to do with them.           *)
WireShrinks ==
  \A p \in Peer : /\ Elems(wire'[p]) \subseteq Elems(wire[p])
                  /\ Distinct(wire[p]) => Distinct(wire'[p])
ChanStays == \A p \in Peer : chan'[p] = chan[p] \/ (chan'[p] # "open" /\ Elems(wire'[Other(p)]) = {})

LEMMA CallsKept ==
  ASSUME Inv, NEW p \in Peer, WireShrinks, ChanStays, call' = call, exec' = exec,
         wakeQ' = wakeQ, pending' = pending
  PROVE  ReplyDue(p)' /\ WakeupDue(p)' /\ CallTrue(p)'
<1>1. ReplyDue(p) /\ WakeupDue(p) /\ CallTrue(p) /\ Other(p) \in Peer
  BY OtherSide DEF Inv, Parts
<1>2. chan[p] # "open" => chan'[p] # "open"
  BY DEF ChanStays
<1>3. ReplyDue(p)'
  <2> SUFFICES ASSUME NEW m \in Elems(wire'[Other(p)]), IsReply(m) PROVE chan'[p] = "open" /\ m \in Elems(wire[Other(p)])
    BY <1>1 DEF ReplyDue
  <2>1. m \in Elems(wire[Other(p)])
    BY <1>1 DEF WireShrinks, Elems
  <2>2. chan[p] = "open"
    BY <1>1, <2>1 DEF ReplyDue
  <2>3. Elems(wire'[Other(p)]) # {}
    OBVIOUS
  <2> QED BY <2>1, <2>2, <2>3 DEF ChanStays, Elems
<1>4. WakeupDue(p)'
  BY <1>1, <1>2 DEF WakeupDue, Elems
<1>5. CallTrue(p)'
  BY <1>1, <1>2 DEF CallTrue
<1> QED BY <1>3, <1>4, <1>5

LEMMA RequestsKept ==
  ASSUME Inv, NEW p \in Peer, WireShrinks, exec' = exec, forkQ' = forkQ,
         \A r \in Request : Made(p, r) => Made(p, r)'
  PROVE  (TypeOK => RequestSent(p)' /\ RequestQueued(p)') /\ BegunMade(p)'
<1>1. RequestSent(p) /\ RequestQueued(p) /\ BegunMade(p) /\ Other(p) \in Peer
  BY OtherSide DEF Inv, Parts
<1>2. ASSUME TypeOK PROVE RequestSent(p)'
  <2> SUFFICES ASSUME NEW m \in Elems(wire'[p]), IsRequest(m)
               PROVE  m \in Elems(wire[p]) /\ m.s \in Request
    BY <1>1 DEF RequestSent, Sessions, Elems
  <2>1. m \in Elems(wire[p])
    BY DEF WireShrinks, Elems
  <2>2. Elems(wire[p]) \subseteq Message
    BY <1>2 DEF TypeOK, Elems
  <2> QED BY <2>1, <2>2, MessageKinds
<1>3. ASSUME TypeOK PROVE RequestQueued(p)'
  <2>1. Elems(forkQ[Other(p)]) \subseteq Forked
    BY <1>1, <1>3 DEF TypeOK, Elems
  <2>2. Sessions(forkQ[Other(p)]) \subseteq Request
    BY <2>1, MessageKinds DEF Sessions
  <2> QED BY <1>1, <2>2 DEF RequestQueued, Sessions, Elems
<1>4. BegunMade(p)'
  BY <1>1 DEF BegunMade
<1> QED BY <1>2, <1>3, <1>4

LEMMA ServingKept ==
  ASSUME Inv, NEW p \in Peer, call' = call, exec' = exec, cur' = cur, parked' = parked
  PROVE  ServedOnce(p)'
BY DEF Inv, Parts, ServedOnce, Awaited

LEMMA QueuesKept ==
  ASSUME Inv, NEW p \in Peer, WireShrinks, wakeQ' = wakeQ, forkQ' = forkQ
  PROVE  QueuesDistinct(p)'
<1>1. Distinct(wire'[p])
  BY DEF Inv, Parts, QueuesDistinct, WireShrinks, Distinct
<1> QED BY <1>1 DEF Inv, Parts, QueuesDistinct, Distinct

LEMMA UnpluggedShrinks ==
  ASSUME TypeOK, NEW p \in Peer, NEW n \in 0 .. Len(wire[p]), wire' = Unplugged(p, n)
  PROVE  WireShrinks /\ Elems(wire'[Other(p)]) = {}
<1>1. /\ wire'[p] = SubSeq(wire[p], 1, n) /\ wire'[Other(p)] = <<>>
      /\ wire[p] \in Seq(Message)
  BY UnpluggedType DEF TypeOK
<1>2. Elems(wire'[p]) \subseteq Elems(wire[p]) /\ (Distinct(wire[p]) => Distinct(wire'[p]))
  BY <1>1, PartElems
<1>3. Elems(wire'[Other(p)]) = {} /\ Distinct(wire'[Other(p)])
  BY <1>1 DEF Elems, Distinct
<1>4. \A x \in Peer : x = p \/ x = Other(p)
  BY DEF Other
<1> QED BY <1>2, <1>3, <1>4 DEF WireShrinks

LEMMA Unchanged ==
  ASSUME wire' = wire
  PROVE  WireShrinks
BY DEF WireShrinks, Elems, Distinct

(* Steps that only take messages off the wire and close ends.              *)
LEMMA OnlyWire ==
  ASSUME TypeOK, Inv, WireShrinks, ChanStays,
         UNCHANGED <<pending, call, exec, wakeQ, forkQ, parked, cur>>
  PROVE  Inv'
<1> SUFFICES ASSUME NEW x \in Peer PROVE Parts(x)'
  BY DEF Inv
<1>1. QueuesDistinct(x)'
  BY QueuesKept
<1>2. ReplyDue(x)' /\ WakeupDue(x)' /\ CallTrue(x)'
  BY CallsKept
<1>3. RequestSent(x)' /\ RequestQueued(x)' /\ BegunMade(x)'
  BY RequestsKept DEF Made
<1>4. ServedOnce(x)'
  BY ServingKept
<1> QED BY <1>1, <1>2, <1>3, <1>4 DEF Parts

LEMMA DataLostKeeps ==
  ASSUME TypeOK, Inv, NEW p \in Peer, DataLost(p)
  PROVE  Inv'
<1> DEFINE in == wire[Other(p)]
<1>1. PICK n \in 1 .. Len(in) : wire' = [wire EXCEPT ![Other(p)] = SubSeq(in, n + 1, Len(in))]
  BY DEF DataLost
<1>2. in \in Seq(Message) /\ Len(in) \in 0 .. Len(in) /\ n + 1 \in Nat \ {0}
  BY OtherSide DEF TypeOK
<1>3. /\ Elems(SubSeq(in, n + 1, Len(in))) \subseteq Elems(in)
      /\ Distinct(in) => Distinct(SubSeq(in, n + 1, Len(in)))
  BY <1>2, PartElems
<1>4. WireShrinks
  <2> HIDE DEF in
  <2>1. wire'[Other(p)] = SubSeq(in, n + 1, Len(in))
    BY <1>1, OtherSide DEF TypeOK
  <2>2. \A x \in Peer : x # Other(p) => wire'[x] = wire[x]
    BY <1>1 DEF TypeOK
  <2> QED BY <1>3, <2>1, <2>2 DEF WireShrinks, in
<1>5. chan' = chan /\ UNCHANGED <<pending, call, exec, wakeQ, forkQ, parked, cur>>
  BY DEF DataLost
<1> QED BY <1>4, <1>5, OnlyWire DEF ChanStays

LEMMA ClosingKeeps ==
  ASSUME TypeOK, Inv, NEW p \in Peer, Destroy(p) \/ Close(p) \/ CloseNow(p)
  PROVE  Inv'
<1>1. PICK n \in 0 .. Len(wire[p]) : wire' = Unplugged(p, n)
  <2>1. Len(wire[p]) \in 0 .. Len(wire[p])
    BY DEF TypeOK
  <2> QED BY <2>1 DEF Destroy, Close, CloseNow
<1>2. WireShrinks /\ Elems(wire'[Other(p)]) = {}
  BY <1>1, UnpluggedShrinks
<1>3. /\ UNCHANGED <<pending, call, exec, wakeQ, forkQ, parked, cur>>
      /\ chan'[p] # "open" /\ \A x \in Peer : x # p => chan'[x] = chan[x]
  BY DEF Destroy, Close, CloseNow, TypeOK
<1> QED BY <1>2, <1>3, OnlyWire DEF ChanStays

(* Steps that only change which coroutine runs.                            *)
LEMMA RunningKeeps ==
  ASSUME TypeOK, Inv, NEW p \in Peer, OtherEvent(p) \/ Park(p) \/ Finish(p)
  PROVE  Inv'
<1>1. UNCHANGED <<network, pending, call, exec, wakeQ, forkQ>>
  BY DEF OtherEvent, Park, Finish
<1>2. WireShrinks /\ ChanStays
  BY <1>1, Unchanged DEF network, ChanStays
<1>3. ServedOnce(p)'
  <2>1. ServedOnce(p)
    BY DEF Inv, Parts
  <2>2. CASE OtherEvent(p)
    <3>1. \/ cur'[p] \in {App, Main} /\ parked'[p] = parked[p]
          \/ /\ cur'[p] \in parked[p] /\ parked'[p] = parked[p] \ {cur'[p]}
      BY <2>2 DEF OtherEvent, TypeOK
    <3> QED BY <1>1, <2>1, <3>1, RequestTypes DEF ServedOnce, Awaited
  <2>3. CASE Park(p)
    <3>1. cur'[p] = None /\ cur[p] \in Request /\ parked'[p] = parked[p] \cup {cur[p]}
      BY <2>3 DEF Park, TypeOK
    <3> QED BY <1>1, <2>1, <3>1, RequestTypes DEF ServedOnce, Awaited
  <2>4. CASE Finish(p)
    <3>1. cur'[p] = None /\ parked' = parked
      BY <2>4 DEF Finish, TypeOK
    <3> QED BY <1>1, <2>1, <3>1, RequestTypes DEF ServedOnce, Awaited
  <2> QED BY <2>2, <2>3, <2>4
<1> SUFFICES ASSUME NEW x \in Peer PROVE Parts(x)'
  BY DEF Inv
<1>4. ServedOnce(x)'
  <2>1. CASE x = p
    BY <2>1, <1>3
  <2>2. CASE x # p
    <3>1. cur'[x] = cur[x] /\ parked'[x] = parked[x]
      BY <2>2 DEF OtherEvent, Park, Finish, TypeOK
    <3> QED BY <3>1, <1>1 DEF Inv, Parts, ServedOnce, Awaited
  <2> QED BY <2>1, <2>2
<1>5. QueuesDistinct(x)' /\ ReplyDue(x)' /\ WakeupDue(x)' /\ CallTrue(x)'
  BY <1>1, <1>2, QueuesKept, CallsKept
<1>6. RequestSent(x)' /\ RequestQueued(x)' /\ BegunMade(x)'
  BY <1>1, <1>2, RequestsKept DEF Made
<1> QED BY <1>4, <1>5, <1>6 DEF Parts

(* EV_ERROR: the sessions of session_ctx move to the wakeup queue.         *)
LEMMA ErrorKeeps ==
  ASSUME TypeOK, Inv, NEW p \in Peer, Error(p)
  PROVE  Inv'
<1>1. PICK w \in Seq(Wakeup) : /\ wakeQ' = [wakeQ EXCEPT ![p] = w] /\ Distinct(w)
                               /\ \A m \in Elems(w) : m.s \in pending[p] /\ m.how = "closed"
  BY ErrorParts
<1>2. wire' = Unplugged(p, Len(wire[p])) /\ Len(wire[p]) \in 0 .. Len(wire[p])
  BY DEF Error, TypeOK
<1>3. WireShrinks /\ Elems(wire'[Other(p)]) = {}
  BY <1>2, UnpluggedShrinks
<1>4. /\ UNCHANGED <<call, exec, forkQ, parked, cur>>
      /\ chan'[p] # "open" /\ \A x \in Peer : x # p => chan'[x] = chan[x]
      /\ pending'[p] = {} /\ \A x \in Peer : x # p => pending'[x] = pending[x]
  BY DEF Error, TypeOK
<1>5. wakeQ'[p] = w /\ \A x \in Peer : x # p => wakeQ'[x] = wakeQ[x]
  BY <1>1 DEF TypeOK
<1> SUFFICES ASSUME NEW x \in Peer PROVE Parts(x)'
  BY DEF Inv
<1>6. QueuesDistinct(x)'
  <2>1. Distinct(wire'[x]) /\ Distinct(forkQ[x]) /\ Distinct(wakeQ[x])
    BY <1>3 DEF Inv, Parts, QueuesDistinct, WireShrinks
  <2>2. Distinct(wakeQ'[x])
    BY <2>1, <1>1, <1>5
  <2> QED BY <2>1, <2>2, <1>4 DEF QueuesDistinct
<1>7. ReplyDue(x)'
  <2>1. CASE x = p
    BY <2>1, <1>3 DEF ReplyDue
  <2>2. CASE x # p
    <3>1. Elems(wire'[Other(x)]) \subseteq Elems(wire[Other(x)]) /\ wakeQ'[x] = wakeQ[x] /\ chan'[x] = chan[x]
      BY <2>2, <1>3, <1>4, <1>5, OtherSide DEF WireShrinks
    <3> QED BY <3>1, <1>4 DEF Inv, Parts, ReplyDue
  <2> QED BY <2>1, <2>2
<1>8. WakeupDue(x)'
  <2>1. CASE x = p
    <3>1. CallTrue(p)
      BY DEF Inv, Parts
    <3>2. pending[p] \subseteq Request
      BY DEF TypeOK
    <3> QED BY <2>1, <3>1, <3>2, <1>1, <1>4, <1>5 DEF WakeupDue, CallTrue
  <2>2. CASE x # p
    BY <2>2, <1>4, <1>5 DEF Inv, Parts, WakeupDue
  <2> QED BY <2>1, <2>2
<1>9. CallTrue(x)'
  BY <1>4 DEF Inv, Parts, CallTrue
<1>10. RequestSent(x)' /\ RequestQueued(x)' /\ BegunMade(x)' /\ ServedOnce(x)'
  BY <1>3, <1>4, RequestsKept, ServingKept DEF Made
<1> QED BY <1>6, <1>7, <1>8, <1>9, <1>10 DEF Parts

-----------------------------------------------------------------------------
(* Steps that put messages on the wire.                                    *)
LEMMA ElemTypes ==
  ASSUME TypeOK, NEW x \in Peer
  PROVE  /\ Elems(wire[x]) \subseteq Message /\ Elems(wakeQ[x]) \subseteq Wakeup
         /\ Elems(forkQ[x]) \subseteq Forked
         /\ \A m \in Elems(wire[x]) \cup Elems(wakeQ[x]) \cup Elems(forkQ[x]) : m.s \in Request
<1>1. /\ Elems(wire[x]) \subseteq Message /\ Elems(wakeQ[x]) \subseteq Wakeup
      /\ Elems(forkQ[x]) \subseteq Forked
  BY DEF TypeOK, Elems
<1> QED BY <1>1, MessageKinds

BothOpen(p) == chan[p] = "open" /\ chan[Other(p)] = "open"
KeyFree(p, m) == \A e \in Elems(wire[p]) : ~(e.kind = m.kind /\ e.s = m.s)
Takes(p, m) ==
  /\ \A x \in Peer : x # p => wire'[x] = wire[x]
  /\ Elems(wire'[p]) \subseteq Elems(wire[p]) \cup {m}
  /\ Distinct(wire'[p])

LEMMA PutTakes ==
  ASSUME TypeOK, Inv, NEW p \in Peer, NEW m \in Message, wire' = Put(p, m),
         BothOpen(p) => KeyFree(p, m)
  PROVE  Takes(p, m) /\ (~BothOpen(p) => wire' = wire)
<1>1. wire[p] \in Seq(Message) /\ Distinct(wire[p])
  BY DEF TypeOK, Inv, Parts, QueuesDistinct
<1>2. CASE BothOpen(p)
  <2>1. wire'[p] = Append(wire[p], m) /\ \A x \in Peer : x # p => wire'[x] = wire[x]
    BY <1>2 DEF Put, BothOpen, TypeOK
  <2>2. Elems(Append(wire[p], m)) = Elems(wire[p]) \cup {m} /\ Distinct(Append(wire[p], m))
    BY <1>1, <1>2, AppendElems DEF KeyFree
  <2> QED BY <1>2, <2>1, <2>2 DEF Takes
<1>3. CASE ~BothOpen(p)
  <2>1. wire' = wire
    BY <1>3 DEF Put, BothOpen
  <2> QED BY <1>1, <2>1 DEF Takes, Elems, Distinct
<1> QED BY <1>2, <1>3

(* A request of p is made, or a call raises.                               *)
Asks(p, s) ==
  /\ call[p][s].at = "new" /\ call'[p][s].at \in {"sent", "waiting", "raised", "unheard"}
  /\ \A r \in Request : r # s => call'[p][r] = call[p][r]
  /\ \A x \in Peer : x # p => call'[x] = call[x] /\ pending'[x] = pending[x]
  /\ wire' = wire \/ (wire' = Put(p, Asked(s)) /\ call'[p][s].at # "raised")
  /\ \A r \in pending'[p] : r \in pending[p] \/ (r = s /\ call'[p][s].at # "sent")
  /\ UNCHANGED <<chan, exec, wakeQ, forkQ, parked>>

LEMMA AskKeeps ==
  ASSUME TypeOK, Inv, NEW p \in Peer, NEW s \in Request, Asks(p, s), ServedOnce(p)',
         \A y \in Peer : y # p => cur'[y] = cur[y]
  PROVE  Inv'
<1>0. \A y \in Peer : Parts(y)
  BY DEF Inv
<1>1. /\ ~Made(p, s) /\ exec[p][s] = "none" /\ s \notin Sessions(forkQ[Other(p)])
      /\ \A m \in Elems(wire[p]) : IsRequest(m) => m.s # s
  BY <1>0 DEF Asks, Made, Parts, BegunMade, RequestQueued, RequestSent
<1>2. Asked(s) \in Message /\ IsRequest(Asked(s)) /\ Asked(s).s = s /\ ~IsReply(Asked(s))
  BY MessageKinds
<1>3. KeyFree(p, Asked(s))
  BY <1>1, <1>2 DEF KeyFree, IsRequest
<1>4. Takes(p, Asked(s)) /\ (wire' # wire => Made(p, s)')
  <2>1. CASE wire' = wire
    BY <2>1, <1>0 DEF Takes, Elems, Parts, QueuesDistinct, Distinct
  <2>2. CASE wire' = Put(p, Asked(s)) /\ call'[p][s].at # "raised"
    <3>1. Takes(p, Asked(s))
      BY <2>2, <1>2, <1>3, PutTakes
    <3> QED BY <3>1, <2>2 DEF Asks, Made
  <2> QED BY <2>1, <2>2 DEF Asks
<1>5. /\ \A y \in Peer, r \in Request : Made(y, r) => Made(y, r)'
      /\ \A y \in Peer, r \in Request : call[y][r].at # "new" => call'[y][r] = call[y][r]
  BY DEF Asks, Made
<1>6. chan' = chan /\ exec' = exec /\ wakeQ' = wakeQ /\ forkQ' = forkQ /\ parked' = parked
  BY DEF Asks
<1> SUFFICES ASSUME NEW x \in Peer PROVE Parts(x)'
  BY DEF Inv
<1> DEFINE y == Other(x)
<1>7. Parts(x) /\ y \in Peer /\ y # x /\ (x # p => y = p)
  BY <1>0, OtherSide DEF Other
<1> HIDE DEF y
<1>8. QueuesDistinct(x)'
  <2>1. Distinct(wire'[x])
    BY <1>4, <1>7 DEF Takes, Parts, QueuesDistinct
  <2> QED BY <2>1, <1>6, <1>7 DEF Parts, QueuesDistinct
<1>9. ReplyDue(x)'
  <2> SUFFICES ASSUME NEW m \in Elems(wire'[y]), IsReply(m)
               PROVE  /\ chan[x] = "open" /\ m.s \notin Sessions(wakeQ[x])
                      /\ call'[x][m.s].at \in {"waiting", "unheard", "sent"} /\ exec[x][m.s] = m.how
    BY <1>6 DEF ReplyDue, y
  <2>1. m \in Elems(wire[y]) /\ m.s \in Request
    <3>1. m \in Elems(wire[y]) \/ m = Asked(s)
      BY <1>4, <1>7 DEF Takes
    <3> QED BY <3>1, <1>2, <1>7, ElemTypes
  <2>2. /\ chan[x] = "open" /\ m.s \notin Sessions(wakeQ[x])
        /\ call[x][m.s].at \in {"waiting", "unheard", "sent"} /\ exec[x][m.s] = m.how
    BY <2>1, <1>7 DEF y, Parts, ReplyDue
  <2> QED BY <2>1, <2>2, <1>5
<1>10. WakeupDue(x)'
  <2> SUFFICES ASSUME NEW m \in Elems(wakeQ[x])
               PROVE  /\ call'[x][m.s].at \in {"waiting", "raised", "unheard", "sent"} /\ m.s \notin pending'[x]
                      /\ IF m.how = "closed" THEN chan[x] # "open" ELSE exec[x][m.s] = m.how
    BY <1>6 DEF WakeupDue
  <2>1. /\ call[x][m.s].at \in {"waiting", "raised", "unheard", "sent"} /\ m.s \notin pending[x]
        /\ IF m.how = "closed" THEN chan[x] # "open" ELSE exec[x][m.s] = m.how
        /\ m.s \in Request
    BY <1>7, ElemTypes DEF Parts, WakeupDue
  <2>2. m.s \notin pending'[x]
    BY <2>1 DEF Asks
  <2> QED BY <2>1, <2>2, <1>5
<1>11. CallTrue(x)'
  <2>1. CallTrue(x)
    BY <1>7 DEF Parts
  <2> QED BY <2>1, <1>5, <1>6 DEF CallTrue, Asks
<1>12. RequestSent(x)'
  <2> SUFFICES ASSUME NEW m \in Elems(wire'[x]), IsRequest(m)
               PROVE  exec[x][m.s] = "none" /\ Made(x, m.s)' /\ m.s \notin Sessions(forkQ[y])
    BY <1>6 DEF RequestSent, y
  <2>1. CASE m \in Elems(wire[x])
    <3>1. exec[x][m.s] = "none" /\ Made(x, m.s) /\ m.s \notin Sessions(forkQ[y]) /\ m.s \in Request
      BY <2>1, <1>7, ElemTypes DEF y, Parts, RequestSent
    <3> QED BY <3>1, <1>5
  <2>2. CASE m \notin Elems(wire[x])
    <3>1. x = p /\ m = Asked(s)
      BY <2>2, <1>4 DEF Takes
    <3>2. wire' # wire
      BY <2>2
    <3> QED BY <3>1, <3>2, <1>1, <1>2, <1>4 DEF y
  <2> QED BY <2>1, <2>2
<1>13. RequestQueued(x)'
  <2>1. \A r \in Sessions(forkQ[y]) : r \in Request
    BY <1>7, ElemTypes DEF Sessions
  <2>2. \A r \in Sessions(forkQ[y]) : exec[x][r] = "none" /\ Made(x, r)
    BY <1>7 DEF Parts, RequestQueued, y
  <2>3. \A r \in Sessions(forkQ[y]) : exec[x][r] = "none" /\ Made(x, r)'
    BY <2>1, <2>2, <1>5
  <2> QED BY <2>3, <1>6 DEF RequestQueued, y
<1>14. BegunMade(x)'
  BY <1>5, <1>6, <1>7 DEF Parts, BegunMade
<1>15. ServedOnce(x)'
  <2>1. ASSUME x # p PROVE call'[x] = call[x] /\ cur'[x] = cur[x]
    BY <2>1 DEF Asks
  <2> QED BY <2>1, <1>6, <1>7 DEF Parts, ServedOnce, Awaited
<1> QED BY <1>8, <1>9, <1>10, <1>11, <1>12, <1>13, <1>14, <1>15 DEF Parts

LEMMA SendKeeps ==
  ASSUME TypeOK, Inv, NEW p \in Peer, Send(p)
  PROVE  Inv' /\ Asks(p, 0)
<1>1. /\ 0 \in Request /\ call' = [call EXCEPT ![p][0].at = "sent"]
      /\ call[p][0].at = "new" /\ call \in [Peer -> [Request -> CallState]]
      /\ call[p][0] \in CallState
  BY RequestTypes DEF Send, TypeOK
<1>2. /\ call'[p][0].at = "sent"
      /\ \A r \in Request : r # 0 => call'[p][r] = call[p][r]
      /\ \A x \in Peer : x # p => call'[x] = call[x]
  BY <1>1 DEF CallState
<1>3. Asks(p, 0)
  BY <1>1, <1>2 DEF Send, Asks
<1>4. ServedOnce(p)'
  <2>1. Awaited(p)' = Awaited(p) /\ \A r \in Awaited(p) : call'[p][r] = call[p][r]
    BY <1>1, <1>2, RequestTypes DEF Awaited
  <2>2. cur' = cur /\ parked' = parked /\ exec' = exec /\ ServedOnce(p)
    BY DEF Send, Inv, Parts
  <2> QED BY <2>1, <2>2 DEF ServedOnce
<1>5. cur' = cur
  BY DEF Send
<1> QED BY <1>1, <1>3, <1>4, <1>5, AskKeeps

LEMMA CallRaisesKeeps ==
  ASSUME TypeOK, Inv, NEW p \in Peer, NEW s \in Session, CallRaises(p, s) \/ CallInMain(p, s)
  PROVE  Inv' /\ Asks(p, s)
<1>1. PICK to \in {"raised", "unheard"} :
      /\ s \in Request /\ call' = [call EXCEPT ![p][s].at = to]
      /\ IF to = "raised" THEN wire' = wire ELSE wire' = Put(p, Asked(s))
      /\ call[p][s].at = "new" /\ call \in [Peer -> [Request -> CallState]]
      /\ call[p][s] \in CallState /\ pending' = [pending EXCEPT ![p] = @ \cup {s}]
      /\ pending \in [Peer -> SUBSET Request]
      /\ UNCHANGED <<chan, exec, wakeQ, forkQ, parked, cur>>
  BY RequestTypes DEF CallRaises, CallInMain, Fresh, network, TypeOK
<1>2. /\ call'[p][s].at = to
      /\ \A r \in Request : r # s => call'[p][r] = call[p][r]
      /\ \A x \in Peer : x # p => call'[x] = call[x] /\ pending'[x] = pending[x]
      /\ pending'[p] = pending[p] \cup {s}
  BY <1>1 DEF CallState
<1>3. Asks(p, s)
  BY <1>1, <1>2 DEF Asks
<1>4. ServedOnce(p)'
  <2>1. Awaited(p)' = Awaited(p) /\ \A r \in Awaited(p) : call'[p][r] = call[p][r]
    BY <1>1, <1>2, RequestTypes DEF Awaited
  <2>2. ServedOnce(p)
    BY DEF Inv, Parts
  <2> QED BY <1>1, <2>1, <2>2 DEF ServedOnce
<1> QED BY <1>1, <1>3, <1>4, AskKeeps

LEMMA CallKeeps ==
  ASSUME TypeOK, Inv, NEW p \in Peer, NEW s \in Session, Call(p, s)
  PROVE  Inv' /\ Asks(p, s)
<1>1. /\ s \in Request /\ call' = [call EXCEPT ![p][s] = [at |-> "waiting", by |-> cur[p]]]
      /\ call[p][s].at = "new" /\ call \in [Peer -> [Request -> CallState]]
      /\ pending' = [pending EXCEPT ![p] = @ \cup {s}] /\ pending \in [Peer -> SUBSET Request]
      /\ cur' = [cur EXCEPT ![p] = None] /\ cur \in [Peer -> Request \cup {App, Main, None}]
      /\ wire' = Put(p, Asked(s)) /\ UNCHANGED <<chan, exec, wakeQ, forkQ, parked>>
  BY RequestTypes DEF Call, Fresh, TypeOK
<1>2. /\ call'[p][s] = [at |-> "waiting", by |-> cur[p]]
      /\ \A r \in Request : r # s => call'[p][r] = call[p][r]
      /\ \A x \in Peer : x # p => call'[x] = call[x] /\ pending'[x] = pending[x]
      /\ pending'[p] = pending[p] \cup {s}
      /\ cur'[p] = None /\ \A x \in Peer : x # p => cur'[x] = cur[x]
  BY <1>1
<1>3. call'[p][s].at = "waiting" /\ call'[p][s].by = cur[p]
  BY <1>2
<1>4. Asks(p, s)
  BY <1>1, <1>2, <1>3 DEF Asks
<1>5. ServedOnce(p)'
  <2>1. Awaited(p)' = Awaited(p) \cup {s} /\ s \notin Awaited(p)
    BY <1>1, <1>2, <1>3, RequestTypes DEF Awaited
  <2>2. \A r \in Awaited(p) : call'[p][r] = call[p][r]
    BY <1>1, <1>2, RequestTypes DEF Awaited
  <2> SUFFICES ASSUME NEW r \in Request
               PROVE  /\ r \in parked[p] => exec[Other(p)][r] = "running"
                      /\ \A t \in Awaited(p) \cup {s} : call'[p][t].by = r =>
                           /\ exec[Other(p)][r] = "running" /\ r \notin parked[p]
                           /\ \A u \in Awaited(p) \cup {s} : call'[p][u].by = r => u = t
    BY <1>1, <1>2, <2>1, RequestTypes DEF ServedOnce
  <2>3. /\ cur[p] = r => exec[Other(p)][r] = "running" /\ r \notin parked[p]
        /\ r \in parked[p] => exec[Other(p)][r] = "running"
        /\ \A t \in Awaited(p) : call[p][t].by = r =>
             /\ exec[Other(p)][r] = "running" /\ cur[p] # r /\ r \notin parked[p]
             /\ \A u \in Awaited(p) : call[p][u].by = r => u = t
    BY DEF Inv, Parts, ServedOnce
  <2> QED BY <1>3, <2>2, <2>3
<1> QED BY <1>1, <1>2, <1>4, <1>5, AskKeeps

(* A coroutine that serves a request of the other side ends.               *)
Ends(p, r, how) ==
  LET q == Other(p)
  IN /\ cur[p] = r /\ cur'[p] = None /\ \A x \in Peer : x # p => cur'[x] = cur[x]
     /\ exec'[q][r] = how /\ exec'[p] = exec[p]
     /\ \A s \in Request : s # r => exec'[q][s] = exec[q][s]
     /\ wire' = wire \/ (how # "mute" /\ wire' = Put(p, Replied(r, how)))
     /\ UNCHANGED <<chan, pending, call, wakeQ, forkQ, parked>>

LEMMA EndKeeps ==
  ASSUME TypeOK, Inv, NEW p \in Peer, NEW r \in Request, NEW how \in {"ok", "error", "mute"},
         Ends(p, r, how)
  PROVE  Inv'
<1> DEFINE q == Other(p)
<1>0. /\ \A y \in Peer : Parts(y)
      /\ q \in Peer /\ q # p /\ Other(q) = p /\ \A y \in Peer : y = p \/ y = q
  BY OtherSide DEF Inv, Other
<1> HIDE DEF q
<1>1. exec[q][r] = "running" /\ r \notin parked[p]
  BY <1>0 DEF Ends, Parts, ServedOnce, q
<1>2. /\ \A m \in Elems(wire[p]) : IsReply(m) => m.s # r
      /\ \A m \in Elems(wire[q]) : IsRequest(m) => m.s # r
      /\ r \notin Sessions(forkQ[p])
      /\ \A m \in Elems(wakeQ[q]) : m.how # "closed" => m.s # r
  <2>1. \A m \in Elems(wire[p]) : IsReply(m) => exec[q][m.s] = m.how /\ m.how \in {"ok", "error"}
    <3>1. \A m \in Elems(wire[p]) : IsReply(m) => exec[q][m.s] = m.how
      BY <1>0 DEF Parts, ReplyDue
    <3>2. \A m \in Elems(wire[p]) : m.how \in {"ok", "error"}
      BY ElemTypes DEF Message
    <3> QED BY <3>1, <3>2
  <2>2. \A m \in Elems(wakeQ[q]) : m.how # "closed" => exec[q][m.s] = m.how /\ m.how \in {"ok", "error"}
    <3>1. \A m \in Elems(wakeQ[q]) : m.how # "closed" => exec[q][m.s] = m.how
      BY <1>0 DEF Parts, WakeupDue
    <3>2. \A m \in Elems(wakeQ[q]) : m.how \in {"ok", "error", "closed"}
      BY <1>0, ElemTypes DEF Wakeup
    <3> QED BY <3>1, <3>2
  <2>3. \A m \in Elems(wire[q]) : IsRequest(m) => exec[q][m.s] = "none"
    BY <1>0 DEF Parts, RequestSent
  <2>4. \A s \in Sessions(forkQ[p]) : exec[q][s] = "none"
    BY <1>0 DEF Parts, RequestQueued
  <2> QED BY <1>1, <2>1, <2>2, <2>3, <2>4
<1>3. chan[q] = "open" => call[q][r].at \in {"waiting", "unheard", "sent"} /\ r \notin Sessions(wakeQ[q])
  <2>1. Made(q, r) /\ (chan[q] = "open" => call[q][r].at # "closed")
        /\ call[q][r].at \notin {"ok", "error"}
    BY <1>0, <1>1 DEF Parts, BegunMade, CallTrue
  <2>2. call[q][r] \in CallState
    BY <1>0 DEF TypeOK
  <2>3. call[q][r].at \in {"new", "sent", "waiting", "raised", "unheard", "ok", "error", "closed"}
    BY <2>2 DEF CallState
  <2>4. \A m \in Elems(wakeQ[q]) : m.how = "closed" => chan[q] # "open"
    BY <1>0 DEF Parts, WakeupDue
  <2> QED BY <1>2, <2>1, <2>3, <2>4 DEF Made, Sessions
<1> DEFINE m0 == Replied(r, how)
<1>4. /\ how # "mute" => m0 \in Message /\ IsReply(m0) /\ ~IsRequest(m0)
      /\ m0.s = r /\ m0.how = how /\ m0.kind = "reply"
  BY MessageKinds DEF Replied
<1>5. Takes(p, m0) /\ (wire' # wire => BothOpen(p) /\ how # "mute")
  <2>1. CASE wire' = wire
    BY <2>1, <1>0 DEF Takes, Elems, Parts, QueuesDistinct, Distinct
  <2>2. CASE how # "mute" /\ wire' = Put(p, m0)
    <3>1. KeyFree(p, m0)
      BY <1>2, <1>4 DEF KeyFree, IsReply
    <3> HIDE DEF m0
    <3> QED BY <2>2, <3>1, <1>4, PutTakes
  <2> QED BY <2>1, <2>2 DEF Ends
<1> HIDE DEF m0
<1>6. /\ UNCHANGED <<chan, pending, call, wakeQ, forkQ, parked>>
      /\ exec'[q][r] = how /\ exec'[p] = exec[p]
      /\ \A s \in Request : s # r => exec'[q][s] = exec[q][s]
      /\ cur'[p] = None /\ cur'[q] = cur[q] /\ cur[p] = r
  BY <1>0 DEF Ends, q
<1>7. ASSUME NEW x \in Peer PROVE QueuesDistinct(x)'
  <2>1. Distinct(wire'[x])
    BY <1>5, <1>0 DEF Takes, Parts, QueuesDistinct
  <2> QED BY <2>1, <1>6, <1>0 DEF Parts, QueuesDistinct
<1>8. ReplyDue(p)' /\ WakeupDue(p)' /\ CallTrue(p)'
  <2>1. wire'[q] = wire[q] /\ ReplyDue(p) /\ WakeupDue(p) /\ CallTrue(p)
    BY <1>0, <1>5 DEF Takes, Parts
  <2> QED BY <2>1, <1>6 DEF ReplyDue, WakeupDue, CallTrue, q
<1>9. ReplyDue(q)'
  <2> SUFFICES ASSUME NEW m \in Elems(wire'[p]), IsReply(m)
               PROVE  /\ chan[q] = "open" /\ m.s \notin Sessions(wakeQ[q])
                      /\ call[q][m.s].at \in {"waiting", "unheard", "sent"} /\ exec'[q][m.s] = m.how
    BY <1>0, <1>6 DEF ReplyDue
  <2>1. CASE m \in Elems(wire[p])
    <3>1. /\ chan[q] = "open" /\ m.s \notin Sessions(wakeQ[q])
          /\ call[q][m.s].at \in {"waiting", "unheard", "sent"} /\ exec[q][m.s] = m.how
      BY <2>1, <1>0 DEF Parts, ReplyDue
    <3>2. m.s # r /\ m.s \in Request
      BY <2>1, <1>2, ElemTypes
    <3> QED BY <3>1, <3>2, <1>6
  <2>2. CASE m \notin Elems(wire[p])
    <3>1. m = m0 /\ wire' # wire
      BY <2>2, <1>5 DEF Takes
    <3>2. chan[q] = "open"
      BY <3>1, <1>5 DEF BothOpen, q
    <3> QED BY <3>1, <3>2, <1>3, <1>4, <1>6
  <2> QED BY <2>1, <2>2
<1>10. WakeupDue(q)'
  <2> SUFFICES ASSUME NEW m \in Elems(wakeQ[q])
               PROVE  /\ call[q][m.s].at \in {"waiting", "raised", "unheard", "sent"} /\ m.s \notin pending[q]
                      /\ IF m.how = "closed" THEN chan[q] # "open" ELSE exec'[q][m.s] = m.how
    BY <1>6 DEF WakeupDue
  <2>1. /\ call[q][m.s].at \in {"waiting", "raised", "unheard", "sent"} /\ m.s \notin pending[q]
        /\ IF m.how = "closed" THEN chan[q] # "open" ELSE exec[q][m.s] = m.how
        /\ m.s \in Request
    BY <1>0, ElemTypes DEF Parts, WakeupDue
  <2> QED BY <2>1, <1>2, <1>6
<1>11. CallTrue(q)'
  <2>1. CallTrue(q) /\ call[q][r].at \notin {"ok", "error"}
    BY <1>0, <1>1 DEF Parts, CallTrue
  <2> QED BY <2>1, <1>6 DEF CallTrue
<1>12. RequestSent(p)' /\ RequestQueued(p)' /\ BegunMade(p)'
  <2>1. \A m \in Elems(wire'[p]) : IsRequest(m) => m \in Elems(wire[p])
    BY <1>4, <1>5 DEF Takes
  <2> QED BY <2>1, <1>0, <1>6 DEF Parts, RequestSent, RequestQueued, BegunMade, Made, q
<1>13. RequestSent(q)' /\ RequestQueued(q)' /\ BegunMade(q)'
  <2>1. wire'[q] = wire[q] /\ RequestSent(q) /\ RequestQueued(q) /\ BegunMade(q)
    BY <1>0, <1>5 DEF Takes, Parts
  <2>2. /\ \A m \in Elems(wire[q]) : m.s \in Request
        /\ \A s \in Sessions(forkQ[p]) : s \in Request
    BY <1>0, ElemTypes DEF Sessions
  <2>3. RequestSent(q)'
    BY <2>1, <2>2, <1>0, <1>2, <1>6 DEF RequestSent, Made
  <2>4. RequestQueued(q)'
    BY <2>1, <2>2, <1>0, <1>2, <1>6 DEF RequestQueued, Made
  <2>5. BegunMade(q)'
    BY <2>1, <1>1, <1>6 DEF BegunMade, Made
  <2> QED BY <2>3, <2>4, <2>5
<1>14. ServedOnce(p)'
  <2> SUFFICES ASSUME NEW s \in Request
               PROVE  /\ s \in parked[p] => exec'[q][s] = "running"
                      /\ \A t \in Awaited(p) : call[p][t].by = s =>
                           /\ exec'[q][s] = "running" /\ s \notin parked[p]
                           /\ \A u \in Awaited(p) : call[p][u].by = s => u = t
    BY <1>6, RequestTypes DEF ServedOnce, Awaited, q
  <2>1. /\ s \in parked[p] => exec[q][s] = "running"
        /\ \A t \in Awaited(p) : call[p][t].by = s =>
             /\ exec[q][s] = "running" /\ cur[p] # s /\ s \notin parked[p]
             /\ \A u \in Awaited(p) : call[p][u].by = s => u = t
    BY <1>0 DEF Parts, ServedOnce, q
  <2> QED BY <2>1, <1>1, <1>6
<1>15. ServedOnce(q)'
  <2>1. ServedOnce(q)
    BY <1>0 DEF Parts
  <2> QED BY <2>1, <1>0, <1>6 DEF ServedOnce, Awaited
<1>16. Parts(p)' /\ Parts(q)'
  BY <1>0, <1>7, <1>8, <1>9, <1>10, <1>11, <1>12, <1>13, <1>14, <1>15 DEF Parts
<1> QED BY <1>0, <1>16 DEF Inv

LEMMA ReplyKeeps ==
  ASSUME TypeOK, Inv, NEW p \in Peer, Reply(p) \/ ReplyRaises(p)
  PROVE  Inv'
<1>1. /\ cur[p] \in Request /\ cur' = [cur EXCEPT ![p] = None]
      /\ UNCHANGED <<chan, pending, call, wakeQ, forkQ, parked>>
  BY DEF Reply, ReplyRaises, network
<1>2. PICK how \in {"ok", "error", "mute"} :
        /\ exec' = [exec EXCEPT ![Other(p)][cur[p]] = how]
        /\ wire' = wire \/ (how # "mute" /\ wire' = Put(p, Replied(cur[p], how)))
  BY DEF Reply, ReplyRaises, network
<1>3. Ends(p, cur[p], how)
  BY <1>1, <1>2, OtherSide DEF Ends, TypeOK
<1> QED BY <1>1, <1>3, EndKeeps

(* run_fork: a queued request begins.                                      *)
LEMMA RunForkKeeps ==
  ASSUME TypeOK, Inv, NEW p \in Peer, RunFork(p)
  PROVE  Inv'
<1> DEFINE q == Other(p)
           h == Head(forkQ[p])
           r == h.s
<1>0. /\ \A y \in Peer : Parts(y)
      /\ q \in Peer /\ q # p /\ Other(q) = p /\ \A y \in Peer : y = p \/ y = q
  BY OtherSide DEF Inv, Other
<1>1. /\ forkQ[p] \in Seq(Forked) /\ forkQ[p] # <<>> /\ cur[p] = None
      /\ forkQ'[p] = Tail(forkQ[p]) /\ \A x \in Peer : x # p => forkQ'[x] = forkQ[x]
      /\ cur'[p] = r /\ \A x \in Peer : x # p => cur'[x] = cur[x]
      /\ UNCHANGED <<network, pending, call, wakeQ, parked>>
      /\ exec' = [exec EXCEPT ![q][r] = "running"]
  BY DEF RunFork, TypeOK
<1>2. /\ h \in Forked /\ h \in Elems(forkQ[p]) /\ Elems(forkQ'[p]) \subseteq Elems(forkQ[p])
      /\ Distinct(forkQ[p]) => Distinct(forkQ'[p])
                               /\ \A e \in Elems(forkQ'[p]) : ~(e.kind = h.kind /\ e.s = h.s)
  BY <1>1, TailElems
<1> HIDE DEF q, h
<1>3. h.s \in Request /\ h.kind = "request" /\ \A e \in Elems(forkQ[p]) : e.kind = "request"
  BY <1>2, ElemTypes, MessageKinds DEF IsRequest, Forked
<1>4. /\ Distinct(forkQ'[p]) /\ r \in Sessions(forkQ[p]) /\ r \notin Sessions(forkQ'[p])
      /\ Sessions(forkQ'[p]) \subseteq Sessions(forkQ[p])
  BY <1>0, <1>2, <1>3 DEF Parts, QueuesDistinct, Sessions
<1>5. exec[q][r] = "none" /\ Made(q, r)
  BY <1>0, <1>4 DEF Parts, RequestQueued
<1> HIDE DEF r
<1>6. /\ exec'[q][r] = "running" /\ exec'[p] = exec[p] /\ r \in Request
      /\ \A s \in Request : s # r => exec'[q][s] = exec[q][s]
  BY <1>0, <1>1, <1>3 DEF TypeOK, r
<1>7. /\ wire' = wire /\ chan' = chan /\ pending' = pending /\ call' = call /\ wakeQ' = wakeQ
      /\ parked' = parked /\ cur'[q] = cur[q] /\ forkQ'[q] = forkQ[q]
  BY <1>0, <1>1 DEF network
<1>8. ASSUME NEW x \in Peer PROVE QueuesDistinct(x)'
  <2>1. Distinct(forkQ'[x])
    BY <1>0, <1>4, <1>7 DEF Parts, QueuesDistinct
  <2> QED BY <2>1, <1>0, <1>7 DEF Parts, QueuesDistinct
<1>9. ReplyDue(p)' /\ WakeupDue(p)' /\ CallTrue(p)'
  BY <1>0, <1>6, <1>7 DEF Parts, ReplyDue, WakeupDue, CallTrue
<1>10. ReplyDue(q)'
  <2> SUFFICES ASSUME NEW m \in Elems(wire[p]), IsReply(m)
               PROVE  /\ chan[q] = "open" /\ m.s \notin Sessions(wakeQ[q])
                      /\ call[q][m.s].at \in {"waiting", "unheard", "sent"} /\ exec'[q][m.s] = m.how
    BY <1>0, <1>7 DEF ReplyDue
  <2>1. /\ chan[q] = "open" /\ m.s \notin Sessions(wakeQ[q])
        /\ call[q][m.s].at \in {"waiting", "unheard", "sent"} /\ exec[q][m.s] = m.how
    BY <1>0 DEF Parts, ReplyDue
  <2>2. m.s \in Request /\ m.how # "none"
    BY ElemTypes DEF Message
  <2> QED BY <2>1, <2>2, <1>5, <1>6
<1>11. WakeupDue(q)'
  <2> SUFFICES ASSUME NEW m \in Elems(wakeQ[q])
               PROVE  /\ call[q][m.s].at \in {"waiting", "raised", "unheard", "sent"} /\ m.s \notin pending[q]
                      /\ IF m.how = "closed" THEN chan[q] # "open" ELSE exec'[q][m.s] = m.how
    BY <1>7 DEF WakeupDue
  <2>1. /\ call[q][m.s].at \in {"waiting", "raised", "unheard", "sent"} /\ m.s \notin pending[q]
        /\ IF m.how = "closed" THEN chan[q] # "open" ELSE exec[q][m.s] = m.how
    BY <1>0 DEF Parts, WakeupDue
  <2>2. m.s \in Request /\ m.how # "none"
    BY <1>0, ElemTypes DEF Wakeup
  <2> QED BY <2>1, <2>2, <1>5, <1>6
<1>12. CallTrue(q)'
  <2>1. CallTrue(q) /\ call[q][r].at \notin {"ok", "error"}
    BY <1>0, <1>5, <1>6 DEF Parts, CallTrue
  <2> QED BY <2>1, <1>6, <1>7 DEF CallTrue
<1>13. RequestSent(p)' /\ RequestQueued(p)' /\ BegunMade(p)'
  BY <1>0, <1>6, <1>7 DEF Parts, RequestSent, RequestQueued, BegunMade, Made, q
<1>14. RequestSent(q)'
  <2> SUFFICES ASSUME NEW m \in Elems(wire[q]), IsRequest(m)
               PROVE  exec'[q][m.s] = "none" /\ Made(q, m.s) /\ m.s \notin Sessions(forkQ'[p])
    BY <1>0, <1>7 DEF RequestSent, Made
  <2>1. exec[q][m.s] = "none" /\ Made(q, m.s) /\ m.s \notin Sessions(forkQ[p]) /\ m.s \in Request
    BY <1>0, ElemTypes DEF Parts, RequestSent
  <2> QED BY <2>1, <1>4, <1>6
<1>15. RequestQueued(q)'
  <2> SUFFICES ASSUME NEW s \in Sessions(forkQ'[p]) PROVE exec'[q][s] = "none" /\ Made(q, s)
    BY <1>0, <1>7 DEF RequestQueued, Made
  <2>1. exec[q][s] = "none" /\ Made(q, s) /\ s \in Request /\ s # r
    BY <1>0, <1>4, ElemTypes DEF Parts, RequestQueued, Sessions
  <2> QED BY <2>1, <1>6
<1>16. BegunMade(q)'
  BY <1>0, <1>5, <1>6, <1>7 DEF Parts, BegunMade, Made
<1>17. ServedOnce(p)'
  <2> SUFFICES ASSUME NEW s \in Request
               PROVE  /\ s = r => s \notin parked[p]
                      /\ s \in parked[p] => exec'[q][s] = "running"
                      /\ \A t \in Awaited(p) : call[p][t].by = s =>
                           /\ exec'[q][s] = "running" /\ r # s /\ s \notin parked[p]
                           /\ \A u \in Awaited(p) : call[p][u].by = s => u = t
    BY <1>1, <1>6, <1>7 DEF ServedOnce, Awaited, q
  <2>1. /\ s \in parked[p] => exec[q][s] = "running"
        /\ \A t \in Awaited(p) : call[p][t].by = s =>
             /\ exec[q][s] = "running" /\ s \notin parked[p]
             /\ \A u \in Awaited(p) : call[p][u].by = s => u = t
    BY <1>0 DEF Parts, ServedOnce, q
  <2> QED BY <2>1, <1>5, <1>6
<1>18. ServedOnce(q)'
  <2>1. ServedOnce(q)
    BY <1>0 DEF Parts
  <2> QED BY <2>1, <1>0, <1>6, <1>7 DEF ServedOnce, Awaited
<1>19. Parts(p)' /\ Parts(q)'
  BY <1>0, <1>8, <1>9, <1>10, <1>11, <1>12, <1>13, <1>14, <1>15, <1>16, <1>17, <1>18 DEF Parts
<1> QED BY <1>0, <1>19 DEF Inv

(* run_wakeup: a coroutine hears of its call.                              *)
LEMMA RunWakeupKeeps ==
  ASSUME TypeOK, Inv, NEW p \in Peer, RunWakeup(p)
  PROVE  Inv'
<1> DEFINE q == Other(p)
           h == Head(wakeQ[p])
           c == call[p][h.s]
<1>0. \A y \in Peer : Parts(y)
  BY DEF Inv
<1>1. /\ wakeQ[p] \in Seq(Wakeup) /\ wakeQ[p] # <<>> /\ cur[p] = None
      /\ wakeQ'[p] = Tail(wakeQ[p]) /\ \A x \in Peer : x # p => wakeQ'[x] = wakeQ[x]
      /\ UNCHANGED <<network, pending, exec, forkQ, parked>>
      /\ c.at = "waiting" => /\ cur' = [cur EXCEPT ![p] = c.by]
                             /\ call' = [call EXCEPT ![p][h.s] = [at |-> h.how, by |-> None]]
      /\ c.at # "waiting" => cur' = cur /\ call' = call
  BY DEF RunWakeup, TypeOK
<1>2. /\ h \in Wakeup /\ h \in Elems(wakeQ[p]) /\ Elems(wakeQ'[p]) \subseteq Elems(wakeQ[p])
      /\ Distinct(wakeQ[p]) => Distinct(wakeQ'[p])
                               /\ \A e \in Elems(wakeQ'[p]) : ~(e.kind = h.kind /\ e.s = h.s)
  BY <1>1, TailElems
<1> HIDE DEF h
<1>3. /\ h.s \in Request /\ h.kind = "reply" /\ h.how \in {"ok", "error", "closed"}
      /\ \A e \in Elems(wakeQ[p]) : e.kind = "reply"
  BY <1>2, ElemTypes, MessageKinds DEF IsReply, Wakeup
<1>4. /\ Distinct(wakeQ'[p]) /\ h.s \in Sessions(wakeQ[p]) /\ h.s \notin Sessions(wakeQ'[p])
      /\ Sessions(wakeQ'[p]) \subseteq Sessions(wakeQ[p])
  BY <1>0, <1>2, <1>3 DEF Parts, QueuesDistinct, Sessions
<1>5. /\ h.s \notin pending[p]
      /\ IF h.how = "closed" THEN chan[p] # "open" ELSE exec[p][h.s] = h.how
  BY <1>0, <1>2 DEF Parts, WakeupDue
<1>6. /\ wire' = wire /\ chan' = chan /\ pending' = pending /\ exec' = exec /\ forkQ' = forkQ
      /\ parked' = parked
  BY <1>1 DEF network
<1>7. /\ \A s \in Request : s # h.s => call'[p][s] = call[p][s]
      /\ c.at # "waiting" => call'[p][h.s] = call[p][h.s]
      /\ c.at = "waiting" => call'[p][h.s].at = h.how
      /\ \A x \in Peer : x # p => call'[x] = call[x] /\ cur'[x] = cur[x]
  <2>1. CASE c.at = "waiting"
    <3>1. call' = [call EXCEPT ![p][h.s] = [at |-> h.how, by |-> None]] /\ cur' = [cur EXCEPT ![p] = c.by]
      BY <2>1, <1>1
    <3> HIDE DEF c
    <3> QED BY <2>1, <3>1, <1>3 DEF TypeOK
  <2>2. CASE c.at # "waiting"
    BY <2>2, <1>1
  <2> QED BY <2>1, <2>2
<1>8. \A x \in Peer, s \in Request : Made(x, s) => Made(x, s)'
  <2>1. c.at = "waiting" => call'[p][h.s].at \notin {"new", "raised"}
    BY <1>3, <1>7
  <2> SUFFICES ASSUME NEW x \in Peer, NEW s \in Request, Made(x, s)
               PROVE  call'[x][s].at \notin {"new", "raised"}
    BY DEF Made
  <2> QED BY <2>1, <1>7 DEF Made
<1> HIDE DEF c
<1> SUFFICES ASSUME NEW x \in Peer PROVE Parts(x)'
  BY DEF Inv
<1>9. QueuesDistinct(x)'
  <2>1. Distinct(wakeQ'[x])
    BY <1>0, <1>1, <1>4 DEF Parts, QueuesDistinct
  <2> QED BY <2>1, <1>0, <1>6 DEF Parts, QueuesDistinct
<1>10. ReplyDue(x)'
  <2>1. ReplyDue(x) /\ Sessions(wakeQ'[x]) \subseteq Sessions(wakeQ[x])
    BY <1>0, <1>1, <1>4 DEF Parts
  <2>2. \A m \in Elems(wire[Other(x)]) : m.s \in Request
    BY OtherSide, ElemTypes
  <2>3. \A m \in Elems(wire[Other(x)]) : IsReply(m) => call'[x][m.s] = call[x][m.s]
    BY <2>1, <2>2, <1>4, <1>7 DEF ReplyDue
  <2> QED BY <2>1, <2>3, <1>6 DEF ReplyDue
<1>11. WakeupDue(x)'
  <2>1. WakeupDue(x) /\ Elems(wakeQ'[x]) \subseteq Elems(wakeQ[x])
    BY <1>0, <1>1, <1>2 DEF Parts
  <2>2. \A m \in Elems(wakeQ'[x]) : call'[x][m.s] = call[x][m.s]
    <3> SUFFICES ASSUME NEW m \in Elems(wakeQ'[x]), x = p PROVE m.s \in Request /\ m.s # h.s
      BY <1>7
    <3> QED BY <2>1, <1>4, ElemTypes DEF Sessions
  <2> QED BY <2>1, <2>2, <1>6 DEF WakeupDue
<1>12. CallTrue(x)'
  <2>1. CallTrue(x)
    BY <1>0 DEF Parts
  <2> QED BY <2>1, <1>3, <1>5, <1>6, <1>7 DEF CallTrue, c
<1>13. RequestSent(x)' /\ RequestQueued(x)' /\ BegunMade(x)'
  BY <1>6, <1>8, RequestsKept, Unchanged
<1>14. ServedOnce(x)'
  <2>1. CASE x # p \/ c.at # "waiting"
    <3>1. cur'[x] = cur[x] /\ \A s \in Request : call'[x][s] = call[x][s]
      BY <2>1, <1>1, <1>7
    <3>2. Awaited(x)' = Awaited(x) /\ Awaited(x) \subseteq Request
      BY <3>1, RequestTypes DEF Awaited
    <3> QED BY <3>1, <3>2, <1>0, <1>6 DEF Parts, ServedOnce
  <2>2. CASE x = p /\ c.at = "waiting"
    <3>1. cur'[p] = c.by /\ c = call[p][h.s]
      BY <2>2, <1>1 DEF TypeOK, c
    <3>2. /\ \A t \in Awaited(p)' : t \in Awaited(p) /\ t # h.s /\ call'[p][t] = call[p][t]
          /\ h.s \in Awaited(p)
      BY <2>2, <1>3, <1>7 DEF Awaited, c
    <3>3. ServedOnce(p)
      BY <1>0 DEF Parts
    <3> QED BY <2>2, <3>1, <3>2, <3>3, <1>1, <1>6 DEF ServedOnce
  <2> QED BY <2>1, <2>2
<1> QED BY <1>9, <1>10, <1>11, <1>12, <1>13, <1>14 DEF Parts

(* EV_DATA: replies move to the wakeup queue and requests to the fork      *)
(* queue, which are empty.                                                 *)
LEMMA DataKeeps ==
  ASSUME TypeOK, Inv, NEW p \in Peer, Data(p)
  PROVE  Inv'
<1> DEFINE q == Other(p)
           in == wire[q]
<1>0. /\ \A y \in Peer : Parts(y)
      /\ q \in Peer /\ q # p /\ Other(q) = p /\ \A y \in Peer : y = p \/ y = q
  BY OtherSide DEF Inv, Other
<1>1. PICK n \in 0 .. Len(wire[Other(p)]), a \in Nat \ {0}, f \in {"head", "body", "lost"},
           w \in Seq(Wakeup), g \in Seq(Forked) : DataStep(p, n, a, f, w, g)
  BY DataParts
<1>2. /\ in \in Seq(Message) /\ Len(in) \in 0 .. Len(in) /\ Distinct(in)
      /\ n \in 0 .. Len(in) /\ n < a
      /\ wire' = [wire EXCEPT ![q] = SubSeq(in, a, Len(in))]
      /\ wakeQ' = [wakeQ EXCEPT ![p] = w] /\ forkQ' = [forkQ EXCEPT ![p] = g]
      /\ Elems(w) = {in[i] : i \in RepliesOf(in, n)}
      /\ Elems(g) = {in[i] : i \in RequestsOf(in, n)}
      /\ Distinct(w) /\ Distinct(g)
  <2>1. Distinct(in)
    BY <1>0 DEF Parts, QueuesDistinct
  <2> QED BY <1>1, <1>0, <2>1 DEF DataStep, TypeOK
<1>3. /\ chan[p] = "open" /\ wakeQ[p] = <<>> /\ forkQ[p] = <<>>
      /\ pending' = [pending EXCEPT ![p] = @ \ Sessions(wakeQ'[p])]
      /\ UNCHANGED <<chan, call, exec, parked, cur>>
  BY DEF Data, Polling, Drained
<1> DEFINE rest == SubSeq(in, a, Len(in))
<1>4. /\ Elems(rest) \subseteq {in[i] : i \in a .. Len(in)} /\ Elems(rest) \subseteq Elems(in)
      /\ Distinct(rest)
  <2>1. in \in Seq(Message) /\ a \in Nat \ {0} /\ Len(in) \in 0 .. Len(in) /\ Distinct(in)
    BY <1>2
  <2> HIDE DEF in
  <2> QED BY <2>1, PartElems
<1> HIDE DEF rest, q
<1>5. /\ wire'[q] = rest /\ wire'[p] = wire[p]
      /\ wakeQ'[p] = w /\ wakeQ'[q] = wakeQ[q] /\ forkQ'[p] = g /\ forkQ'[q] = forkQ[q]
      /\ pending'[p] = pending[p] \ Sessions(w) /\ pending'[q] = pending[q]
  BY <1>0, <1>2, <1>3 DEF TypeOK, rest
<1>6. /\ \A m \in Elems(w) : m \in Elems(in) /\ IsReply(m)
      /\ \A m \in Elems(g) : m \in Elems(in) /\ IsRequest(m)
      /\ \A m \in Elems(rest), e \in Elems(w) \cup Elems(g) : ~(m.kind = e.kind /\ m.s = e.s)
  <2>1. DOMAIN in = 1 .. Len(in) /\ Len(in) \in Nat
    BY <1>2
  <2>2. \A i \in RepliesOf(in, n) : i \in 1 .. n /\ i \in DOMAIN in /\ IsReply(in[i])
    BY <1>2, <2>1 DEF RepliesOf
  <2>3. \A i \in RequestsOf(in, n) : i \in 1 .. n /\ i \in DOMAIN in /\ IsRequest(in[i])
    BY <1>2, <2>1 DEF RequestsOf
  <2>4. \A i \in 1 .. n, j \in a .. Len(in) :
          i \in DOMAIN in /\ j \in DOMAIN in /\ i # j
    BY <1>2, <2>1
  <2>5. \A i \in 1 .. n, j \in a .. Len(in) : ~(in[j].kind = in[i].kind /\ in[j].s = in[i].s)
    BY <1>2, <2>4 DEF Distinct
  <2>6. (\A m \in Elems(w) : m \in Elems(in) /\ IsReply(m)) /\ \A m \in Elems(g) : m \in Elems(in) /\ IsRequest(m)
    BY <1>2, <2>2, <2>3 DEF Elems
  <2>7. \A e \in Elems(w) \cup Elems(g) : \E i \in 1 .. n : e = in[i]
    BY <1>2, <2>2, <2>3
  <2>8. \A m \in Elems(rest) : \E j \in a .. Len(in) : m = in[j]
    BY <1>4
  <2>9. ASSUME NEW m \in Elems(rest), NEW e \in Elems(w) \cup Elems(g)
        PROVE  ~(m.kind = e.kind /\ m.s = e.s)
    <3>1. PICK i \in 1 .. n : e = in[i]
      BY <2>7
    <3>2. PICK j \in a .. Len(in) : m = in[j]
      BY <2>8
    <3> HIDE DEF in
    <3> QED BY <3>1, <3>2, <2>5
  <2> QED BY <2>6, <2>9
<1>7. \A m \in Elems(in) : m \in Message /\ m.s \in Request
  BY <1>0, ElemTypes
<1>8. \A m \in Elems(rest) : (IsReply(m) => m.s \notin Sessions(w)) /\ (IsRequest(m) => m.s \notin Sessions(g))
  BY <1>6 DEF Sessions, IsReply, IsRequest
<1>9. QueuesDistinct(p)' /\ QueuesDistinct(q)'
  BY <1>0, <1>2, <1>4, <1>5 DEF Parts, QueuesDistinct
<1>10. ReplyDue(p)'
  <2>1. ReplyDue(p)
    BY <1>0 DEF Parts
  <2> QED BY <2>1, <1>3, <1>4, <1>5, <1>8 DEF ReplyDue, q
<1>11. WakeupDue(p)'
  <2> SUFFICES ASSUME NEW m \in Elems(w)
               PROVE  /\ call[p][m.s].at \in {"waiting", "raised", "unheard", "sent"} /\ m.s \notin pending'[p]
                      /\ IF m.how = "closed" THEN chan[p] # "open" ELSE exec[p][m.s] = m.how
    BY <1>3, <1>5 DEF WakeupDue
  <2>1. m \in Elems(in) /\ IsReply(m) /\ m.how # "closed"
    BY <1>6, <1>7 DEF Message
  <2>2. call[p][m.s].at \in {"waiting", "unheard", "sent"} /\ exec[p][m.s] = m.how
    BY <2>1, <1>0 DEF Parts, ReplyDue, q
  <2>3. m.s \in Sessions(w)
    BY DEF Sessions
  <2> QED BY <2>1, <2>2, <2>3, <1>5
<1>12. CallTrue(p)' /\ CallTrue(q)'
  BY <1>0, <1>3, <1>5 DEF Parts, CallTrue
<1>13. ReplyDue(q)' /\ WakeupDue(q)'
  BY <1>0, <1>3, <1>5 DEF Parts, ReplyDue, WakeupDue
<1>14. RequestSent(p)' /\ RequestQueued(p)' /\ BegunMade(p)'
  BY <1>0, <1>3, <1>5 DEF Parts, RequestSent, RequestQueued, BegunMade, Made, q
<1>15. RequestSent(q)'
  <2>1. RequestSent(q)
    BY <1>0 DEF Parts
  <2> QED BY <2>1, <1>0, <1>3, <1>4, <1>5, <1>8 DEF RequestSent, Made
<1>16. RequestQueued(q)'
  <2> SUFFICES ASSUME NEW m \in Elems(g) PROVE exec[q][m.s] = "none" /\ Made(q, m.s)
    BY <1>0, <1>3, <1>5 DEF RequestQueued, Made, Sessions
  <2>1. m \in Elems(in) /\ IsRequest(m) /\ RequestSent(q)
    BY <1>0, <1>6 DEF Parts
  <2> QED BY <2>1 DEF RequestSent
<1>17. BegunMade(q)'
  BY <1>0, <1>3 DEF Parts, BegunMade, Made
<1>18. ServedOnce(p)' /\ ServedOnce(q)'
  BY <1>0, <1>3, ServingKept
<1>19. Parts(p)' /\ Parts(q)'
  BY <1>9, <1>10, <1>11, <1>12, <1>13, <1>14, <1>15, <1>16, <1>17, <1>18 DEF Parts
<1> QED BY <1>0, <1>19 DEF Inv

LEMMA InvInit == Init => Inv
<1> SUFFICES ASSUME Init, NEW p \in Peer PROVE Parts(p)
  BY DEF Inv
<1>1. /\ Other(p) \in Peer /\ \A x \in Peer : wire[x] = <<>> /\ wakeQ[x] = <<>> /\ forkQ[x] = <<>>
      /\ cur[p] = None /\ parked[p] = {} /\ pending[p] = {}
      /\ \A r \in Request : call[p][r].at = "new" /\ exec[p][r] = "none"
  BY OtherSide DEF Init
<1>2. \A x \in Peer : /\ Elems(wire[x]) = {} /\ Elems(wakeQ[x]) = {} /\ Elems(forkQ[x]) = {}
                      /\ Sessions(forkQ[x]) = {}
                      /\ Distinct(wire[x]) /\ Distinct(wakeQ[x]) /\ Distinct(forkQ[x])
  BY <1>1 DEF Elems, Sessions, Distinct
<1>3. QueuesDistinct(p) /\ ReplyDue(p) /\ WakeupDue(p) /\ RequestSent(p) /\ RequestQueued(p)
  BY <1>1, <1>2 DEF QueuesDistinct, ReplyDue, WakeupDue, RequestSent, RequestQueued
<1>4. CallTrue(p) /\ BegunMade(p)
  BY <1>1 DEF CallTrue, BegunMade
<1>5. ServedOnce(p)
  BY <1>1, RequestTypes DEF ServedOnce, Awaited
<1> QED BY <1>3, <1>4, <1>5 DEF Parts

LEMMA InvStep ==
  ASSUME TypeOK, Inv, [Next]_vars
  PROVE  Inv'
<1>1. CASE UNCHANGED vars
  BY <1>1, OnlyWire, Unchanged DEF vars, ChanStays
<1>2. ASSUME NEW p \in Peer, Event(p) PROVE Inv'
  BY <1>2, RunningKeeps, DataKeeps, DataLostKeeps, ErrorKeeps DEF Event
<1>3. ASSUME NEW p \in Peer, Drain(p) PROVE Inv'
  BY <1>3, RunWakeupKeeps, RunForkKeeps, ClosingKeeps DEF Drain
<1>4. ASSUME NEW p \in Peer, Use(p) PROVE Inv'
  BY <1>4, SendKeeps, ClosingKeeps, CallKeeps, CallRaisesKeeps DEF Use
<1>5. ASSUME NEW p \in Peer, Return(p) PROVE Inv'
  BY <1>5, ReplyKeeps, RunningKeeps DEF Return
<1> QED BY <1>1, <1>2, <1>3, <1>4, <1>5 DEF Next

LEMMA InvHolds == Spec => []Inv
BY TypeCorrect, InvInit, InvStep, PTL DEF Spec

(* Every call is woken once, with the result of its own request.           *)
THEOREM CallWokenOnce == Spec => []WokenOnce
BY InvHolds, InvIsBoth, PTL

(* A request is in one place and served by one coroutine.                  *)
THEOREM RequestInOnePlace == Spec => []OnePlace
BY InvHolds, InvIsBoth, PTL

-----------------------------------------------------------------------------
(* A channel implements RemoteCall.                                        *)
callBar == [p \in Peer |-> [r \in Request |-> call[p][r].at]]

(* A step that changes one entry of call.                                  *)
LEMMA BarBecomes ==
  ASSUME TypeOK, NEW p \in Peer, NEW s \in Request, NEW to,
         call'[p][s].at = to,
         \A r \in Request : r # s => call'[p][r] = call[p][r],
         \A x \in Peer : x # p => call'[x] = call[x]
  PROVE  callBar' = [callBar EXCEPT ![p][s] = to]
<1>1. callBar \in [Peer -> [Request -> {call[x][r].at : x \in Peer, r \in Request}]]
  BY DEF callBar
<1>2. \A x \in Peer, r \in Request :
        call'[x][r].at = IF x = p /\ r = s THEN to ELSE callBar[x][r]
  BY DEF callBar
<1>3. callBar' = [x \in Peer |-> [r \in Request |-> IF x = p /\ r = s THEN to ELSE callBar[x][r]]]
  BY <1>2 DEF callBar
<1> QED BY <1>3, ZenonT(60) DEF callBar

LEMMA PlaceMaps ==
  ASSUME TypeOK, NEW p \in Peer, NEW s \in Request, Asks(p, s)
  PROVE  Outcome!Place(p, s) /\ exec' = exec
<1>1. PICK to \in {"sent", "waiting", "raised", "unheard"} : call'[p][s].at = to
  BY DEF Asks
<1>2. callBar' = [callBar EXCEPT ![p][s] = to]
  BY <1>1, BarBecomes DEF Asks
<1>3. callBar[p][s] = "new" /\ exec' = exec
  BY DEF Asks, callBar
<1>4. callBar'[p][s] = to
  BY <1>1 DEF callBar
<1> QED BY <1>2, <1>3, <1>4 DEF Outcome!Place, Outcome!Become, callBar

LEMMA BeginMaps ==
  ASSUME TypeOK, Inv, NEW p \in Peer, RunFork(p)
  PROVE  callBar' = callBar /\ \E q \in Peer, r \in Request : Outcome!Begin(q, r)
<1> DEFINE q == Other(p)
<1>1. PICK r \in Sessions(forkQ[p]) : exec' = [exec EXCEPT ![q][r] = "running"]
  <2>1. forkQ[p] \in Seq(Forked) /\ forkQ[p] # <<>>
    BY DEF RunFork, TypeOK
  <2>2. Head(forkQ[p]) \in Elems(forkQ[p])
    BY <2>1, TailElems
  <2> QED BY <2>2 DEF RunFork, Sessions
<1>2. q \in Peer /\ Other(q) = p /\ r \in Request
  BY OtherSide, ElemTypes DEF Sessions
<1>3. exec[q][r] = "none" /\ Made(q, r)
  BY <1>2 DEF Inv, Parts, RequestQueued
<1>4. call' = call /\ callBar[q][r] = call[q][r].at
  BY <1>2 DEF RunFork, callBar
<1> QED BY <1>1, <1>2, <1>3, <1>4 DEF Outcome!Begin, Outcome!Runs, callBar, Made

LEMMA EndMaps ==
  ASSUME TypeOK, Inv, NEW p \in Peer, Reply(p) \/ ReplyRaises(p)
  PROVE  callBar' = callBar /\ \E q \in Peer, r \in Request : Outcome!End(q, r)
<1> DEFINE q == Other(p)
<1>1. PICK how \in {"ok", "error", "mute"} : exec' = [exec EXCEPT ![q][cur[p]] = how]
  BY DEF Reply, ReplyRaises
<1>2. q \in Peer /\ cur[p] \in Request /\ call' = call
  BY OtherSide DEF Reply, ReplyRaises
<1>3. exec[q][cur[p]] = "running"
  BY <1>2 DEF Inv, Parts, ServedOnce
<1> QED BY <1>1, <1>2, <1>3 DEF Outcome!End, Outcome!Runs, callBar

LEMMA AnswerMaps ==
  ASSUME TypeOK, Inv, NEW p \in Peer, RunWakeup(p)
  PROVE  \/ UNCHANGED Outcome!vars
         \/ exec' = exec /\ \E s \in Request : Outcome!Answer(p, s) \/ Outcome!Cut(p, s)
<1>1. PICK m \in Elems(wakeQ[p]) :
        /\ call[p][m.s].at = "waiting" =>
             call' = [call EXCEPT ![p][m.s] = [at |-> m.how, by |-> None]]
        /\ call[p][m.s].at # "waiting" => call' = call
  <2>1. wakeQ[p] \in Seq(Wakeup) /\ wakeQ[p] # <<>>
    BY DEF RunWakeup, TypeOK
  <2>2. Head(wakeQ[p]) \in Elems(wakeQ[p])
    BY <2>1, TailElems
  <2> QED BY <2>2 DEF RunWakeup
<1>2. m.s \in Request /\ m.how \in {"ok", "error", "closed"} /\ exec' = exec
  BY ElemTypes DEF RunWakeup, Wakeup
<1>3. CASE call[p][m.s].at # "waiting"
  BY <1>1, <1>2, <1>3 DEF Outcome!vars
<1>4. CASE call[p][m.s].at = "waiting"
  <2>1. /\ call'[p][m.s].at = m.how
        /\ \A r \in Request : r # m.s => call'[p][r] = call[p][r]
        /\ \A x \in Peer : x # p => call'[x] = call[x]
    BY <1>1, <1>2, <1>4 DEF TypeOK
  <2>2. callBar' = [callBar EXCEPT ![p][m.s] = m.how] /\ callBar[p][m.s] = "waiting"
    <3>1. callBar' = [callBar EXCEPT ![p][m.s] = m.how]
      BY <1>2, <2>1, BarBecomes
    <3> QED BY <1>2, <1>4, <3>1 DEF callBar
  <2>6. callBar'[p][m.s] = m.how
    BY <1>2, <2>1 DEF callBar
  <2>3. m.how # "closed" => exec[p][m.s] = m.how
    BY DEF Inv, Parts, WakeupDue
  <2>4. CASE m.how = "closed"
    <3>1. Outcome!Cut(p, m.s)
      BY <1>2, <2>2, <2>4, <2>6 DEF Outcome!Cut, Outcome!Become, callBar
    <3> QED BY <1>2, <3>1
  <2>5. CASE m.how # "closed"
    <3>1. Outcome!Answer(p, m.s)
      BY <1>2, <2>2, <2>3, <2>5, <2>6 DEF Outcome!Answer, Outcome!Become, callBar
    <3> QED BY <1>2, <3>1
  <2> QED BY <2>4, <2>5
<1> QED BY <1>3, <1>4

LEMMA InitMaps == Init => Outcome!Init
<1> SUFFICES ASSUME Init PROVE Outcome!Init
  OBVIOUS
<1>1. \A p \in Peer, r \in Request : call[p][r].at = "new"
  BY DEF Init
<1> QED BY <1>1 DEF Init, Outcome!Init

LEMMA StepMaps ==
  ASSUME TypeOK, Inv, [Next]_vars
  PROVE  [Outcome!Next]_Outcome!vars
<1>1. ASSUME UNCHANGED <<call, exec>> PROVE [Outcome!Next]_Outcome!vars
  BY <1>1 DEF Outcome!vars
<1>2. ASSUME NEW p \in Peer, NEW s \in Request, Asks(p, s) PROVE Outcome!Next
  BY <1>2, PlaceMaps DEF Outcome!Next
<1>3. CASE UNCHANGED vars
  BY <1>1, <1>3 DEF vars
<1>4. ASSUME NEW p \in Peer, Step(p) PROVE [Outcome!Next]_Outcome!vars
  <2>1. CASE Event(p) \/ Destroy(p) \/ Close(p) \/ CloseNow(p) \/ Park(p) \/ Finish(p)
    BY <1>1, <2>1 DEF Event, OtherEvent, Data, DataLost, Error, Destroy, Close, CloseNow, Park, Finish
  <2>2. CASE RunWakeup(p)
    BY <2>2, AnswerMaps DEF Outcome!Next
  <2>3. CASE RunFork(p)
    BY <2>3, BeginMaps DEF Outcome!Next, callBar
  <2>4. CASE Reply(p) \/ ReplyRaises(p)
    BY <2>4, EndMaps DEF Outcome!Next, callBar
  <2>5. CASE Send(p)
    <3>1. Asks(p, 0) /\ 0 \in Request
      BY <2>5, SendKeeps, RequestTypes
    <3> QED BY <3>1, <1>2
  <2>6. ASSUME NEW s \in Session, Call(p, s) \/ CallRaises(p, s) \/ CallInMain(p, s)
        PROVE  Outcome!Next
    <3>1. Asks(p, s) /\ s \in Request
      BY <2>6, CallKeeps, CallRaisesKeeps, RequestTypes
    <3> QED BY <3>1, <1>2
  <2> QED BY <1>4, <2>1, <2>2, <2>3, <2>4, <2>5, <2>6 DEF Step, Drain, Use, Return
<1> QED BY <1>3, <1>4 DEF Next, Step

(* Whatever a channel does is what RemoteCall allows.                      *)
THEOREM ChannelImplements == Spec => AtMostOnce
BY TypeCorrect, InvHolds, InitMaps, StepMaps, PTL DEF Spec, AtMostOnce, Outcome!Spec

-----------------------------------------------------------------------------
(* Requests start in the order they were made. For side p: its requests on *)
(* the wire and in the fork queue are sorted, those queued before those on *)
(* the wire, those begun before both, and its sessions have been used up   *)
(* from below.                                                             *)
Begun(p) == {r \in Session : exec[p][r] # "none"}
Under(p, r) == \A e \in Elems(forkQ[Other(p)]) \cup Elems(wire[p]) : Numbered(e) => r < e.s
Used(p, r) == call[p][r].at # "new"
Ordered(p) ==
  /\ Sorted(wire[p]) /\ Sorted(forkQ[Other(p)])
  /\ \A m \in Elems(forkQ[Other(p)]), e \in Elems(wire[p]) :
       Numbered(m) /\ Numbered(e) => m.s < e.s
  /\ \A r \in Begun(p) : Under(p, r)
  /\ \A r, t \in Session : t < r /\ Used(p, r) => Used(p, t)
AllOrdered == \A p \in Peer : Ordered(p)

LEMMA OrderKept ==
  ASSUME NEW p \in Peer, Ordered(p), Sorted(wire'[p]),
         \A e \in Elems(wire'[p]) : Numbered(e) => e \in Elems(wire[p]),
         forkQ'[Other(p)] = forkQ[Other(p)],
         \A r \in Session : exec'[p][r] # "none" => exec[p][r] # "none",
         \A r \in Session : Used(p, r)' <=> Used(p, r)
  PROVE  Ordered(p)'
<1>1. Sorted(forkQ[Other(p)])'
  BY DEF Ordered, Sorted
<1>2. \A m \in Elems(forkQ'[Other(p)]), e \in Elems(wire'[p]) :
        Numbered(m) /\ Numbered(e) => m.s < e.s
  BY DEF Ordered
<1>3. ASSUME NEW r \in Begun(p)' PROVE Under(p, r)'
  <2>1. r \in Begun(p)
    BY DEF Begun
  <2> QED BY <2>1 DEF Ordered, Under
<1>4. \A r, t \in Session : t < r /\ Used(p, r)' => Used(p, t)'
  BY DEF Ordered
<1>5. Sorted(wire[p])'
  BY DEF Sorted
<1> QED BY <1>1, <1>2, <1>3, <1>4, <1>5 DEF Ordered

(* The steps that have nothing to do with it.                              *)
WireSorted ==
  \A x \in Peer : /\ Sorted(wire[x]) => Sorted(wire'[x])
                  /\ \A e \in Elems(wire'[x]) : Numbered(e) => e \in Elems(wire[x])

LEMMA OrderApart ==
  ASSUME AllOrdered, WireSorted, forkQ' = forkQ,
         \A x \in Peer, r \in Session : exec'[x][r] # "none" => exec[x][r] # "none",
         \A x \in Peer, r \in Session : Used(x, r)' <=> Used(x, r)
  PROVE  AllOrdered'
<1> SUFFICES ASSUME NEW x \in Peer PROVE Ordered(x)'
  BY DEF AllOrdered
<1>1. Ordered(x) /\ Sorted(wire[x])
  BY DEF AllOrdered, Ordered
<1>2. Sorted(wire'[x]) /\ \A e \in Elems(wire'[x]) : Numbered(e) => e \in Elems(wire[x])
  BY <1>1 DEF WireSorted
<1> QED BY <1>1, <1>2, OrderKept

LEMMA WireSame ==
  ASSUME wire' = wire
  PROVE  WireSorted
BY DEF WireSorted, Sorted

LEMMA UnpluggedSorted ==
  ASSUME TypeOK, NEW p \in Peer, NEW n \in 0 .. Len(wire[p]), wire' = Unplugged(p, n)
  PROVE  WireSorted
<1>1. /\ wire'[p] = SubSeq(wire[p], 1, n) /\ wire'[Other(p)] = <<>>
      /\ wire[p] \in Seq(Message)
  BY UnpluggedType DEF TypeOK
<1>2. Elems(wire'[p]) \subseteq Elems(wire[p]) /\ (Sorted(wire[p]) => Sorted(wire'[p]))
  BY <1>1, PartElems, SortedPart
<1>3. Elems(wire'[Other(p)]) = {} /\ Sorted(wire'[Other(p)])
  BY <1>1 DEF Elems, Sorted
<1>4. \A x \in Peer : x = p \/ x = Other(p)
  BY DEF Other
<1> QED BY <1>2, <1>3, <1>4 DEF WireSorted

(* A message that is no numbered request is put on the wire.               *)
LEMMA PutSorted ==
  ASSUME TypeOK, NEW p \in Peer, NEW m \in Message, ~Numbered(m), wire' = Put(p, m)
  PROVE  WireSorted
<1>1. wire[p] \in Seq(Message)
  BY DEF TypeOK
<1>2. CASE wire' = wire
  BY <1>2, WireSame
<1>3. CASE wire' # wire
  <2>1. wire'[p] = Append(wire[p], m) /\ \A x \in Peer : x # p => wire'[x] = wire[x]
    BY <1>3 DEF Put, TypeOK
  <2>2. Elems(wire'[p]) = Elems(wire[p]) \cup {m}
    BY <1>1, <2>1, AppendElems
  <2>3. Sorted(wire[p]) => Sorted(wire'[p])
    BY <1>1, <2>1, SortedAppend
  <2> QED BY <2>1, <2>2, <2>3 DEF WireSorted
<1> QED BY <1>2, <1>3

(* channel:call: the new session is above all others.                      *)
LEMMA AskOrdered ==
  ASSUME TypeOK, Inv, AllOrdered, NEW p \in Peer, NEW s \in Session, Asks(p, s), Fresh(p, s)
  PROVE  AllOrdered'
<1> DEFINE q == Other(p)
           m == Asked(s)
<1>0. s \in Nat \ {0} /\ s \in Request /\ Parts(p) /\ Ordered(p) /\ q \in Peer
  <2>1. s \in Nat /\ s # 0
    BY ChannelAssumption DEF Session
  <2> QED BY <2>1, RequestTypes, OtherSide DEF Inv, AllOrdered
<1>1. ~Used(p, s) /\ \A t \in Session : t < s => Used(p, t)
  <2>1. \A t \in Session : t < s => t \in 1 .. s - 1
    BY <1>0, ChannelAssumption DEF Session
  <2> QED BY <2>1 DEF Fresh, Used
<1>2. \A t \in Session : Used(p, t) => t < s
  <2>1. \A t \in Session : t \in Nat
    BY RequestTypes
  <2>2. \A t \in Session : Used(p, t) => ~(s < t) /\ t # s
    BY <1>0, <1>1 DEF Ordered
  <2> QED BY <1>0, <2>1, <2>2
<1>3. \A t \in Session : Used(p, t)' <=> Used(p, t) \/ t = s
  BY <1>0, RequestTypes DEF Asks, Used
<1>4. \A e \in Elems(wire[p]) \cup Elems(forkQ[q]) : Numbered(e) => e.s < s
  <2>1. \A e \in Elems(wire[p]) : Numbered(e) => Used(p, e.s)
    BY <1>0 DEF Parts, RequestSent, Numbered, Made, Used
  <2>2. \A e \in Elems(forkQ[q]) : Numbered(e) => Used(p, e.s)
    BY <1>0 DEF Parts, RequestQueued, Sessions, Made, Used
  <2> QED BY <1>2, <2>1, <2>2 DEF Numbered
<1>5. \A r \in Begun(p) : r < s
  BY <1>0, <1>2, RequestTypes DEF Begun, Parts, BegunMade, Made, Used
<1>6. m \in Message /\ m.s = s
  BY <1>0, MessageKinds
<1>7. /\ Sorted(wire'[p])
      /\ \A e \in Elems(wire'[p]) : e \in Elems(wire[p]) \/ e = m
      /\ \A x \in Peer : x # p => wire'[x] = wire[x]
  <2>1. wire[p] \in Seq(Message) /\ Sorted(wire[p])
    BY <1>0 DEF TypeOK, Ordered
  <2>2. CASE wire' = wire
    BY <2>1, <2>2
  <2>3. CASE wire' # wire
    <3>1. wire' = Put(p, m)
      BY <2>3 DEF Asks
    <3>2. wire'[p] = Append(wire[p], m) /\ \A x \in Peer : x # p => wire'[x] = wire[x]
      BY <2>3, <3>1 DEF Put, TypeOK
    <3> HIDE DEF m
    <3>3. Elems(wire'[p]) = Elems(wire[p]) \cup {m}
      BY <1>6, <2>1, <3>2, AppendElems
    <3>4. \A e \in Elems(wire[p]) : Numbered(m) /\ Numbered(e) => e.s < m.s
      BY <1>4, <1>6
    <3>5. Sorted(Append(wire[p], m))
      BY <1>6, <2>1, <3>4, SortedAppend
    <3> QED BY <3>2, <3>3, <3>5
  <2> QED BY <2>2, <2>3
<1>8. /\ forkQ' = forkQ /\ exec' = exec
      /\ \A x \in Peer : x # p => call'[x] = call[x]
  BY DEF Asks
<1> HIDE DEF m
<1>9. Ordered(p)'
  <2>1. Sorted(wire[p])' /\ Sorted(forkQ[q])'
    BY <1>0, <1>7, <1>8 DEF Ordered, Sorted
  <2>2. \A d \in Elems(forkQ[q]), e \in Elems(wire'[p]) : Numbered(d) /\ Numbered(e) => d.s < e.s
    BY <1>0, <1>4, <1>6, <1>7 DEF Ordered
  <2>3. ASSUME NEW r \in Begun(p)' PROVE Under(p, r)'
    <3>1. r \in Begun(p)
      BY <1>8 DEF Begun
    <3>2. r < s /\ Under(p, r)
      BY <1>0, <1>5, <3>1 DEF Ordered
    <3> QED BY <1>6, <1>7, <1>8, <3>2 DEF Under
  <2>4. ASSUME NEW r \in Session, NEW t \in Session, t < r, Used(p, r)' PROVE Used(p, t)'
    <3>1. CASE r = s
      BY <1>1, <1>3, <2>4, <3>1
    <3>2. CASE r # s
      BY <1>0, <1>3, <2>4, <3>2 DEF Ordered
    <3> QED BY <3>1, <3>2
  <2> QED BY <1>8, <2>1, <2>2, <2>3, <2>4 DEF Ordered
<1>10. ASSUME NEW x \in Peer, x # p PROVE Ordered(x)'
  <2>1. Ordered(x) /\ wire'[x] = wire[x] /\ call'[x] = call[x]
    BY <1>7, <1>8, <1>10 DEF AllOrdered
  <2>2. Sorted(wire'[x])
    BY <2>1 DEF Ordered
  <2>3. \A r \in Session : Used(x, r)' <=> Used(x, r)
    BY <2>1 DEF Used
  <2> QED BY <1>8, <2>1, <2>2, <2>3, OrderKept
<1> QED BY <1>9, <1>10 DEF AllOrdered

(* The steps that put no numbered request on the wire or in the fork queue *)
(* and begin none.                                                         *)
LEMMA ApartOrdered ==
  ASSUME TypeOK, Inv, AllOrdered, NEW p \in Peer,
         \/ OtherEvent(p) \/ DataLost(p) \/ Error(p) \/ RunWakeup(p) \/ Destroy(p) \/ Send(p)
         \/ Close(p) \/ CloseNow(p) \/ Return(p)
  PROVE  AllOrdered' /\ \A x \in Peer, r \in Session : exec'[x][r] # "none" => exec[x][r] # "none"
<1> DEFINE Calls == \A x \in Peer, r \in Session : Used(x, r)' <=> Used(x, r)
           Begins == \A x \in Peer, r \in Session : exec'[x][r] # "none" => exec[x][r] # "none"
<1>1. forkQ' = forkQ
  BY DEF OtherEvent, DataLost, Error, RunWakeup, Destroy, Send, Close, CloseNow, Return, Reply,
         ReplyRaises, Park, Finish
<1>2. call' = call => Calls
  BY DEF Used
<1>3. exec' = exec => Begins
  OBVIOUS
<1>4. CASE OtherEvent(p) \/ Park(p) \/ Finish(p)
  <2>1. wire' = wire /\ call' = call /\ exec' = exec
    BY <1>4 DEF OtherEvent, Park, Finish, network
  <2> QED BY <1>1, <1>2, <1>3, <2>1, WireSame, OrderApart
<1>5. CASE Error(p) \/ Destroy(p) \/ Close(p) \/ CloseNow(p)
  <2>1. call' = call /\ exec' = exec
    BY <1>5 DEF Error, Destroy, Close, CloseNow
  <2>2. \E n \in 0 .. Len(wire[p]) : wire' = Unplugged(p, n)
    <3>1. Len(wire[p]) \in 0 .. Len(wire[p])
      BY DEF TypeOK
    <3> QED BY <1>5, <3>1 DEF Error, Destroy, Close, CloseNow
  <2> QED BY <1>1, <1>2, <1>3, <2>1, <2>2, UnpluggedSorted, OrderApart
<1>6. CASE DataLost(p)
  <2> DEFINE q == Other(p)
             in == wire[q]
  <2>1. call' = call /\ exec' = exec
    BY <1>6 DEF DataLost
  <2>2. q \in Peer /\ in \in Seq(Message) /\ \A x \in Peer : x = p \/ x = q
    BY OtherSide DEF TypeOK, Other
  <2>3. PICK n \in 1 .. Len(in) : wire' = [wire EXCEPT ![q] = SubSeq(in, n + 1, Len(in))]
    BY <1>6 DEF DataLost
  <2>4. n + 1 \in Nat \ {0} /\ Len(in) \in 0 .. Len(in)
    BY <2>2
  <2>5. wire'[q] = SubSeq(in, n + 1, Len(in)) /\ \A x \in Peer : x # q => wire'[x] = wire[x]
    BY <2>2, <2>3 DEF TypeOK
  <2>6. Elems(wire'[q]) \subseteq Elems(in) /\ (Sorted(in) => Sorted(wire'[q]))
    <3> DEFINE a == n + 1
    <3> HIDE DEF a, in
    <3>1. a \in Nat \ {0} /\ wire'[q] = SubSeq(in, a, Len(in))
      BY <2>4, <2>5 DEF a
    <3> QED BY <3>1, <2>2, <2>4, PartElems, SortedPart
  <2>7. WireSorted
    BY <2>2, <2>5, <2>6 DEF WireSorted
  <2> QED BY <1>1, <1>2, <1>3, <2>1, <2>7, OrderApart
<1>7. CASE RunWakeup(p)
  <2>1. wire' = wire /\ exec' = exec
    BY <1>7 DEF RunWakeup, network
  <2>2. Calls
    <3> DEFINE m == Head(wakeQ[p])
    <3>1. wakeQ[p] \in Seq(Wakeup) /\ wakeQ[p] # <<>>
      BY <1>7 DEF RunWakeup, TypeOK
    <3>2. m \in Elems(wakeQ[p])
      BY <3>1, TailElems
    <3> HIDE DEF m
    <3>3. m.s \in Request /\ m.how \in {"ok", "error", "closed"}
      BY <3>2, ElemTypes, MessageKinds
    <3>4. CASE call[p][m.s].at = "waiting"
      <4>1. call' = [call EXCEPT ![p][m.s] = [at |-> m.how, by |-> None]]
        BY <1>7, <3>4 DEF RunWakeup, m
      <4>2. /\ call'[p][m.s].at = m.how /\ \A x \in Peer : x # p => call'[x] = call[x]
            /\ \A r \in Request : r # m.s => call'[p][r] = call[p][r]
        BY <3>3, <4>1 DEF TypeOK
      <4> QED BY <3>3, <3>4, <4>2, RequestTypes DEF Used
    <3>5. CASE call[p][m.s].at # "waiting"
      <4>1. call' = call
        BY <1>7, <3>5 DEF RunWakeup, m
      <4> QED BY <4>1, <1>2
    <3> QED BY <3>4, <3>5
  <2> QED BY <1>1, <1>3, <2>1, <2>2, WireSame, OrderApart
<1>8. CASE Send(p)
  <2>1. Asks(p, 0) /\ exec' = exec /\ 0 \in Request /\ 0 \notin Session
    <3>1. 0 \notin Session
      BY ChannelAssumption DEF Session
    <3> QED BY <1>8, <3>1, SendKeeps, RequestTypes DEF Send
  <2>2. Asked(0) \in Message /\ ~Numbered(Asked(0)) /\ wire' = Put(p, Asked(0))
    BY <1>8, <2>1, MessageKinds DEF Send, Numbered
  <2>3. Calls
    BY <2>1, RequestTypes DEF Asks, Used
  <2> QED BY <1>1, <1>3, <2>1, <2>2, <2>3, PutSorted, OrderApart
<1>9. CASE Reply(p) \/ ReplyRaises(p)
  <2>1. cur[p] \in Request /\ call' = call
    BY <1>9 DEF Reply, ReplyRaises
  <2>2. PICK how \in {"ok", "error", "mute"} :
          /\ exec' = [exec EXCEPT ![Other(p)][cur[p]] = how]
          /\ wire' = wire \/ (how # "mute" /\ wire' = Put(p, Replied(cur[p], how)))
    BY <1>9 DEF Reply, ReplyRaises, network
  <2>3. WireSorted
    <3>1. how # "mute" => Replied(cur[p], how) \in Message /\ ~Numbered(Replied(cur[p], how))
      BY <2>1, MessageKinds DEF Numbered
    <3> QED BY <2>2, <3>1, WireSame, PutSorted
  <2>4. exec[Other(p)][cur[p]] = "running"
    BY <2>1 DEF Inv, Parts, ServedOnce
  <2>5. Begins
    BY <2>2, <2>4 DEF TypeOK
  <2> QED BY <1>1, <1>2, <2>1, <2>3, <2>5, OrderApart
<1> QED BY <1>4, <1>5, <1>6, <1>7, <1>8, <1>9 DEF Return

(* channel:data: requests leave the wire for the fork queue, which was     *)
(* empty.                                                                  *)
LEMMA DataOrdered ==
  ASSUME TypeOK, AllOrdered, NEW p \in Peer, Data(p)
  PROVE  AllOrdered' /\ exec' = exec
<1> DEFINE q == Other(p)
           in == wire[q]
<1>0. /\ q \in Peer /\ q # p /\ Other(q) = p /\ \A y \in Peer : y = p \/ y = q
      /\ Ordered(p) /\ Ordered(q)
  BY OtherSide DEF AllOrdered, Other
<1>1. PICK n \in 0 .. Len(wire[Other(p)]), a \in Nat \ {0}, f \in {"head", "body", "lost"},
           w \in Seq(Wakeup), g \in Seq(Forked) : DataStep(p, n, a, f, w, g)
  BY DataParts
<1>2. /\ in \in Seq(Message) /\ Len(in) \in 0 .. Len(in) /\ Sorted(in)
      /\ n \in 0 .. Len(in) /\ n < a
      /\ wire' = [wire EXCEPT ![q] = SubSeq(in, a, Len(in))]
      /\ forkQ' = [forkQ EXCEPT ![p] = g]
      /\ Elems(g) = {in[i] : i \in RequestsOf(in, n)}
      /\ Sorted(g)
  <2>1. Sorted(in)
    BY <1>0 DEF Ordered
  <2> QED BY <1>1, <1>0, <2>1 DEF DataStep, TypeOK
<1>3. call' = call /\ exec' = exec
  BY DEF Data
<1> DEFINE rest == SubSeq(in, a, Len(in))
<1>4. /\ Elems(rest) \subseteq {in[i] : i \in a .. Len(in)} /\ Elems(rest) \subseteq Elems(in)
      /\ Sorted(rest)
  <2>1. in \in Seq(Message) /\ a \in Nat \ {0} /\ Len(in) \in 0 .. Len(in) /\ Sorted(in)
    BY <1>2
  <2> HIDE DEF in
  <2> QED BY <2>1, PartElems, SortedPart
<1> HIDE DEF rest, q
<1>5. /\ wire'[q] = rest /\ wire'[p] = wire[p] /\ forkQ'[p] = g /\ forkQ'[q] = forkQ[q]
  BY <1>0, <1>2 DEF TypeOK, rest
<1>6. DOMAIN in = 1 .. Len(in) /\ Len(in) \in Nat
  BY <1>2
<1>7. \A i \in RequestsOf(in, n) : i \in 1 .. n /\ i \in DOMAIN in
  BY <1>2, <1>6 DEF RequestsOf
<1>8. \A i \in 1 .. n, j \in a .. Len(in) : i \in DOMAIN in /\ j \in DOMAIN in /\ i < j
  BY <1>2, <1>6
<1>9. \A m \in Elems(g), e \in Elems(rest) : Numbered(m) /\ Numbered(e) => m.s < e.s
  <2> SUFFICES ASSUME NEW m \in Elems(g), NEW e \in Elems(rest), Numbered(m), Numbered(e)
               PROVE  m.s < e.s
    OBVIOUS
  <2>1. PICK i \in RequestsOf(in, n) : m = in[i]
    BY <1>2
  <2>2. PICK j \in a .. Len(in) : e = in[j]
    BY <1>4
  <2>3. i \in DOMAIN in /\ j \in DOMAIN in /\ i < j
    BY <1>7, <1>8
  <2> QED BY <2>1, <2>2, <2>3, <1>2 DEF Sorted
<1>10. Elems(g) \subseteq Elems(in)
  BY <1>2, <1>7 DEF Elems
<1>11. Ordered(q)'
  <2>1. Sorted(wire[q])' /\ Sorted(forkQ[p])'
    BY <1>2, <1>4, <1>5
  <2>2. ASSUME NEW r \in Begun(q)' PROVE Under(q, r)'
    <3>1. r \in Begun(q)
      BY <1>3 DEF Begun
    <3>2. \A e \in Elems(in) : Numbered(e) => r < e.s
      BY <1>0, <3>1 DEF Ordered, Under
    <3> QED BY <1>0, <1>4, <1>5, <1>10, <3>2 DEF Under
  <2>3. \A r, t \in Session : t < r /\ Used(q, r)' => Used(q, t)'
    BY <1>0, <1>3 DEF Ordered, Used
  <2> QED BY <1>0, <1>5, <1>9, <2>1, <2>2, <2>3 DEF Ordered
<1>12. Ordered(p)'
  <2>1. Sorted(wire'[p]) /\ forkQ'[Other(p)] = forkQ[Other(p)]
    BY <1>0, <1>5 DEF Ordered, q
  <2>2. \A r \in Session : Used(p, r)' <=> Used(p, r)
    BY <1>3 DEF Used
  <2> QED BY <1>0, <1>3, <1>5, <2>1, <2>2, OrderKept
<1> QED BY <1>0, <1>3, <1>11, <1>12 DEF AllOrdered

(* run_fork: the first request of the queue begins.                        *)
LEMMA ForkOrdered ==
  ASSUME TypeOK, AllOrdered, NEW p \in Peer, RunFork(p)
  PROVE  /\ AllOrdered'
         /\ \A x \in Peer, s \in Session :
              exec[x][s] = "none" /\ exec'[x][s] # "none"
                => \A r \in Session : r > s => exec[x][r] = "none"
<1> DEFINE q == Other(p)
           h == Head(forkQ[p])
<1>0. /\ q \in Peer /\ q # p /\ Other(q) = p /\ \A y \in Peer : y = p \/ y = q
      /\ Ordered(p) /\ Ordered(q)
  BY OtherSide DEF AllOrdered, Other
<1>1. /\ forkQ[p] \in Seq(Forked) /\ forkQ[p] # <<>> /\ Sorted(forkQ[p])
      /\ forkQ'[p] = Tail(forkQ[p]) /\ \A x \in Peer : x # p => forkQ'[x] = forkQ[x]
      /\ wire' = wire /\ call' = call
      /\ exec' = [exec EXCEPT ![q][h.s] = "running"]
  <2>1. Sorted(forkQ[p])
    BY <1>0 DEF Ordered
  <2> QED BY <2>1 DEF RunFork, TypeOK, network
<1>2. /\ h \in Forked /\ h \in Elems(forkQ[p]) /\ Elems(forkQ'[p]) \subseteq Elems(forkQ[p])
      /\ Sorted(forkQ'[p])
      /\ \A e \in Elems(forkQ'[p]) : Numbered(h) /\ Numbered(e) => h.s < e.s
  BY <1>1, TailElems, SortedTail
<1> HIDE DEF q, h
<1>3. h.s \in Request /\ IsRequest(h)
  BY <1>2, MessageKinds
<1>4. /\ exec'[p] = exec[p] /\ exec'[q][h.s] = "running"
      /\ \A r \in Request : r # h.s => exec'[q][r] = exec[q][r]
  BY <1>0, <1>1, <1>3 DEF TypeOK
<1>5. \A r \in Session : exec[q][r] # "none" /\ h.s \in Session => r < h.s
  <2>1. h.s \in Session => Numbered(h)
    BY <1>3 DEF Numbered
  <2> QED BY <1>0, <1>2, <2>1 DEF Ordered, Begun, Under
<1>6. Ordered(q)'
  <2>1. Sorted(wire[q])' /\ Sorted(forkQ[p])'
    BY <1>0, <1>1, <1>2 DEF Ordered
  <2>2. \A m \in Elems(forkQ'[p]), e \in Elems(wire'[q]) : Numbered(m) /\ Numbered(e) => m.s < e.s
    BY <1>0, <1>1, <1>2 DEF Ordered
  <2>3. ASSUME NEW r \in Begun(q)' PROVE Under(q, r)'
    <3>1. CASE r = h.s
      <4>1. Numbered(h)
        BY <1>3, <3>1 DEF Begun, Numbered
      <4>2. \A e \in Elems(wire[q]) : Numbered(e) => h.s < e.s
        BY <1>0, <1>2, <4>1 DEF Ordered
      <4> QED BY <1>0, <1>1, <1>2, <3>1, <4>1, <4>2 DEF Under
    <3>2. CASE r # h.s
      <4>1. r \in Begun(q)
        BY <1>4, <3>2, RequestTypes DEF Begun
      <4>2. Under(q, r)
        BY <1>0, <4>1 DEF Ordered
      <4> QED BY <1>0, <1>1, <1>2, <4>2 DEF Under
    <3> QED BY <3>1, <3>2
  <2>4. \A r, t \in Session : t < r /\ Used(q, r)' => Used(q, t)'
    BY <1>0, <1>1 DEF Ordered, Used
  <2> QED BY <1>0, <2>1, <2>2, <2>3, <2>4 DEF Ordered
<1>7. Ordered(p)'
  <2>1. Sorted(wire'[p]) /\ forkQ'[Other(p)] = forkQ[Other(p)]
    BY <1>0, <1>1 DEF Ordered, q
  <2>2. \A r \in Session : Used(p, r)' <=> Used(p, r)
    BY <1>1 DEF Used
  <2> QED BY <1>0, <1>1, <1>4, <2>1, <2>2, OrderKept
<1>8. ASSUME NEW x \in Peer, NEW s \in Session, exec[x][s] = "none", exec'[x][s] # "none",
             NEW r \in Session, r > s
      PROVE  exec[x][r] = "none"
  <2>1. x = q /\ s = h.s
    BY <1>0, <1>4, <1>8, RequestTypes
  <2>2. r \in Nat /\ s \in Nat
    BY RequestTypes
  <2>3. ~(r < s)
    BY <1>8, <2>2
  <2> QED BY <1>5, <2>1, <2>3
<1> QED BY <1>0, <1>6, <1>7, <1>8 DEF AllOrdered

LEMMA InitOrdered == Init => AllOrdered
<1> SUFFICES ASSUME Init, NEW p \in Peer PROVE Ordered(p)
  BY DEF AllOrdered
<1>1. wire[p] = <<>> /\ forkQ[Other(p)] = <<>>
  BY OtherSide DEF Init
<1>2. Elems(<<>>) = {} /\ Sorted(<<>>)
  BY DEF Elems, Sorted
<1>3. Begun(p) = {} /\ \A r \in Session : ~Used(p, r)
  BY RequestTypes DEF Init, Begun, Used
<1> QED BY <1>1, <1>2, <1>3 DEF Ordered

(* What a step of InOrder does.                                            *)
StartsNext ==
  \A p \in Peer, s \in Session :
    exec[p][s] = "none" /\ exec'[p][s] # "none"
      => \A r \in Session : r > s => exec[p][r] = "none"

LEMMA StepOrdered ==
  ASSUME TypeOK, Inv, AllOrdered, [Next]_vars
  PROVE  AllOrdered' /\ StartsNext
<1>1. CASE UNCHANGED vars
  <2>1. /\ wire' = wire /\ forkQ' = forkQ /\ exec' = exec
        /\ \A x \in Peer, r \in Session : Used(x, r)' <=> Used(x, r)
    BY <1>1 DEF vars, Used
  <2> QED BY <2>1, WireSame, OrderApart DEF StartsNext
<1>2. ASSUME NEW p \in Peer, Step(p) PROVE AllOrdered' /\ StartsNext
  <2>1. CASE \/ OtherEvent(p) \/ DataLost(p) \/ Error(p) \/ RunWakeup(p) \/ Destroy(p) \/ Send(p)
             \/ Close(p) \/ CloseNow(p) \/ Return(p)
    BY <2>1, ApartOrdered DEF StartsNext
  <2>2. CASE Data(p)
    BY <2>2, DataOrdered DEF StartsNext
  <2>3. CASE RunFork(p)
    BY <2>3, ForkOrdered DEF StartsNext
  <2>4. ASSUME NEW s \in Session, Call(p, s) \/ CallRaises(p, s) \/ CallInMain(p, s)
        PROVE  AllOrdered' /\ StartsNext
    <3>1. Asks(p, s) /\ Fresh(p, s)
      BY <2>4, CallKeeps, CallRaisesKeeps DEF Call, CallRaises, CallInMain
    <3>2. exec' = exec
      BY <3>1 DEF Asks
    <3> QED BY <3>1, <3>2, AskOrdered DEF StartsNext
  <2> QED BY <1>2, <2>1, <2>2, <2>3, <2>4 DEF Step, Event, Drain, Use
<1> QED BY <1>1, <1>2 DEF Next, Step

(* Requests of one side start in the order they were made, whatever was    *)
(* split, lost or served in between.                                       *)
THEOREM RequestsInOrder == Spec => InOrder
<1>1. TypeOK /\ Inv /\ AllOrdered /\ [Next]_vars => AllOrdered' /\ [StartsNext]_vars
  BY StepOrdered
<1> QED BY <1>1, TypeCorrect, InvHolds, InitOrdered, PTL DEF Spec, InOrder, StartsNext
=============================================================================
