------------------------------ MODULE TimerProofs -----------------------------
(***************************************************************************)
(* Proofs about timers, for any number of userdata, coroutines and         *)
(* tickers: the free list is exact, who waits has a timer of its own, what *)
(* runs is what expired, and nothing is left when the loop has ended.      *)
(***************************************************************************)
EXTENDS Timer, FiniteSetTheorems, TLAPS

-----------------------------------------------------------------------------
(* Free lists.                                                             *)

LEMMA ConcatElems ==
  ASSUME NEW S, NEW q \in Seq(S), NEW r \in Seq(S)
  PROVE  /\ q \o r \in Seq(S) /\ Elems(q \o r) = Elems(q) \cup Elems(r)
         /\ Once(q) /\ Once(r) /\ Elems(q) \cap Elems(r) = {} => Once(q \o r)
<1> DEFINE t == q \o r
           n == Len(q)
<1>1. /\ t \in Seq(S) /\ n \in Nat /\ Len(r) \in Nat
      /\ DOMAIN t = 1 .. n + Len(r) /\ DOMAIN q = 1 .. n /\ DOMAIN r = 1 .. Len(r)
  OBVIOUS
<1>2. (\A i \in 1 .. n : t[i] = q[i]) /\ \A i \in 1 .. Len(r) : t[n + i] = r[i]
  OBVIOUS
<1> HIDE DEF t, n
<1>3. \A i \in DOMAIN t : i \in 1 .. n \/ (i - n \in 1 .. Len(r) /\ i = n + (i - n))
  BY <1>1
<1>4. Elems(t) = Elems(q) \cup Elems(r)
  <2>1. Elems(t) \subseteq Elems(q) \cup Elems(r)
    <3> SUFFICES ASSUME NEW i \in DOMAIN t PROVE t[i] \in Elems(q) \cup Elems(r)
      BY DEF Elems
    <3>1. CASE i \in 1 .. n
      BY <3>1, <1>1, <1>2 DEF Elems
    <3>2. CASE i - n \in 1 .. Len(r) /\ i = n + (i - n)
      <4>1. t[i] = r[i - n]
        BY <3>2, <1>2
      <4> QED BY <4>1, <3>2, <1>1 DEF Elems
    <3> QED BY <3>1, <3>2, <1>3
  <2>2. Elems(q) \subseteq Elems(t)
    <3> SUFFICES ASSUME NEW i \in 1 .. n PROVE q[i] \in Elems(t)
      BY <1>1 DEF Elems
    <3>1. i \in DOMAIN t /\ t[i] = q[i]
      BY <1>1, <1>2
    <3> QED BY <3>1 DEF Elems
  <2>3. Elems(r) \subseteq Elems(t)
    <3> SUFFICES ASSUME NEW i \in 1 .. Len(r) PROVE r[i] \in Elems(t)
      BY <1>1 DEF Elems
    <3>1. n + i \in DOMAIN t /\ t[n + i] = r[i]
      BY <1>1, <1>2
    <3> QED BY <3>1 DEF Elems
  <2> QED BY <2>1, <2>2, <2>3
<1>5. ASSUME Once(q), Once(r), Elems(q) \cap Elems(r) = {} PROVE Once(t)
  <2> SUFFICES ASSUME NEW i \in DOMAIN t, NEW j \in DOMAIN t, t[i] = t[j] PROVE i = j
    BY DEF Once
  <2>1. CASE i \in 1 .. n /\ j \in 1 .. n
    BY <2>1, <1>1, <1>2, <1>5 DEF Once
  <2>2. CASE i - n \in 1 .. Len(r) /\ i = n + (i - n) /\ j - n \in 1 .. Len(r) /\ j = n + (j - n)
    <3>1. t[i] = r[i - n] /\ t[j] = r[j - n]
      BY <2>2, <1>2
    <3>2. i - n = j - n
      BY <2>2, <3>1, <1>1, <1>5 DEF Once
    <3> QED BY <2>2, <3>2
  <2>3. ASSUME NEW x \in 1 .. n, NEW y \in DOMAIN t, y - n \in 1 .. Len(r) /\ y = n + (y - n), t[x] = t[y]
        PROVE  FALSE
    <3>1. t[x] = q[x] /\ t[y] = r[y - n]
      BY <2>3, <1>2
    <3>2. q[x] \in Elems(q) /\ r[y - n] \in Elems(r)
      BY <2>3, <1>1 DEF Elems
    <3> QED BY <2>3, <3>1, <3>2, <1>5
  <2> QED BY <2>1, <2>2, <2>3, <1>3
<1> QED BY <1>1, <1>4, <1>5 DEF t

LEMMA TailElems ==
  ASSUME NEW S, NEW q \in Seq(S), q # <<>>, Once(q)
  PROVE  /\ Tail(q) \in Seq(S) /\ Once(Tail(q)) /\ Head(q) \in Elems(q)
         /\ Elems(Tail(q)) = Elems(q) \ {Head(q)}
<1> DEFINE t == Tail(q)
<1>1. /\ t \in Seq(S) /\ Head(q) = q[1] /\ 1 \in DOMAIN q
      /\ \A i \in DOMAIN t : i \in Nat \ {0} /\ i + 1 \in DOMAIN q /\ i + 1 # 1 /\ t[i] = q[i + 1]
      /\ \A i \in DOMAIN q : i \in Nat /\ (i # 1 => i - 1 \in DOMAIN t /\ (i - 1) + 1 = i)
  OBVIOUS
<1> HIDE DEF t
<1>2. Elems(t) \subseteq Elems(q) \ {Head(q)} /\ Head(q) \in Elems(q)
  BY <1>1 DEF Elems, Once
<1>3. Elems(q) \ {Head(q)} \subseteq Elems(t)
  <2> SUFFICES ASSUME NEW i \in DOMAIN q, q[i] # Head(q) PROVE q[i] \in Elems(t)
    BY DEF Elems
  <2>1. i - 1 \in DOMAIN t /\ t[i - 1] = q[i]
    BY <1>1
  <2> QED BY <2>1 DEF Elems
<1>4. Once(t)
  <2> SUFFICES ASSUME NEW i \in DOMAIN t, NEW j \in DOMAIN t, t[i] = t[j] PROVE i = j
    BY DEF Once
  <2>1. i + 1 = j + 1
    BY <1>1 DEF Once
  <2> QED BY <2>1, <1>1
<1> QED BY <1>1, <1>2, <1>3, <1>4 DEF t

(* What taking a userdata and giving it back do.                           *)
LEMMA ArmParts ==
  ASSUME TypeOK, FreeExact, NEW s \in Slot, NEW o \in Owner, Arm(s, o)
  PROVE  /\ free' \in Seq(Slot) /\ FreeExact'
         /\ timer[s] # "armed" /\ timer' = [timer EXCEPT ![s] = "armed"]
         /\ ctx' = [ctx EXCEPT ![s] = o] /\ pending' = pending \cup {s} /\ young' = young \cup {o}
<1>1. /\ timer' = [timer EXCEPT ![s] = "armed"] /\ ctx' = [ctx EXCEPT ![s] = o]
      /\ pending' = pending \cup {s} /\ young' = young \cup {o}
  BY DEF Arm
<1>2. free \in Seq(Slot) /\ timer \in [Slot -> {"new", "armed", "cancelled", "freed"}]
  BY DEF TypeOK
<1>3. CASE free # <<>> /\ s = Head(free) /\ free' = Tail(free)
  <2>1. free' \in Seq(Slot) /\ Once(free') /\ s \in Elems(free) /\ Elems(free') = Elems(free) \ {s}
    BY <1>2, <1>3, TailElems DEF FreeExact
  <2>2. Elems(free') = {x \in Slot : timer'[x] = "cancelled"} /\ timer[s] = "cancelled"
    BY <2>1, <1>1, <1>2 DEF FreeExact
  <2> QED BY <1>1, <2>1, <2>2 DEF FreeExact, Elems, Once
<1>4. CASE free = <<>> /\ timer[s] = "new" /\ free' = free
  <2>1. {x \in Slot : timer'[x] = "cancelled"} = {x \in Slot : timer[x] = "cancelled"}
    BY <1>1, <1>2, <1>4
  <2> QED BY <1>1, <1>2, <1>4, <2>1 DEF FreeExact, Elems, Once
<1> QED BY <1>3, <1>4 DEF Arm

LEMMA DisarmParts ==
  ASSUME TypeOK, FreeExact, NEW s \in Slot, Disarm(s)
  PROVE  /\ free' \in Seq(Slot) /\ FreeExact'
         /\ timer[s] = "armed" /\ timer' = [timer EXCEPT ![s] = "cancelled"]
         /\ pending' = pending \ {s} /\ due' = due \ {s}
<1>1. free \in Seq(Slot) /\ <<s>> \in Seq(Slot) /\ timer \in [Slot -> {"new", "armed", "cancelled", "freed"}]
  BY DEF TypeOK
<1>2. Elems(<<s>>) = {s} /\ Once(<<s>>)
  BY DEF Elems, Once
<1>3. s \notin Elems(free) /\ Once(free)
  BY DEF Disarm, FreeExact
<1>4. <<s>> \o free \in Seq(Slot) /\ Elems(<<s>> \o free) = {s} \cup Elems(free) /\ Once(<<s>> \o free)
  <2>1. Elems(<<s>>) \cap Elems(free) = {}
    BY <1>2, <1>3
  <2>2. Once(<<s>>) /\ Once(free) /\ Elems(<<s>>) \cap Elems(free) = {} => Once(<<s>> \o free)
    BY <1>1, ConcatElems
  <2>3. <<s>> \o free \in Seq(Slot) /\ Elems(<<s>> \o free) = Elems(<<s>>) \cup Elems(free)
    BY <1>1, ConcatElems, ZenonT(60)
  <2> QED BY <2>1, <2>2, <2>3, <1>2, <1>3
<1>5. timer' = [timer EXCEPT ![s] = "cancelled"] /\ free' = <<s>> \o free
  BY DEF Disarm
<1>6. Elems(free') = {x \in Slot : timer'[x] = "cancelled"} /\ Once(free')
  <2>1. {x \in Slot : timer'[x] = "cancelled"} = {s} \cup {x \in Slot : timer[x] = "cancelled"}
    BY <1>1, <1>5
  <2> QED BY <2>1, <1>4, <1>5 DEF FreeExact
<1> QED BY <1>4, <1>5, <1>6 DEF Disarm, FreeExact, Elems, Once

(* What the end of the loop puts on the free list.                         *)
LEMMA StopParts ==
  ASSUME TypeOK, FreeExact, NEW S \in SUBSET Slot, \A s \in S : timer[s] = "armed",
         NEW q \in Orders(S), free' = q \o free,
         timer' = [s \in Slot |-> IF s \in S THEN "cancelled" ELSE timer[s]]
  PROVE  free' \in Seq(Slot) /\ FreeExact'
<1>1. Cardinality(S) \in Nat
  BY TimerAssumption, FS_Subset, FS_CardinalityType
<1>2. q \in Seq(Slot) /\ Once(q) /\ Elems(q) = S
  <2>1. q \in [1 .. Cardinality(S) -> Slot] /\ Once(q) /\ Elems(q) = S
    BY DEF Orders
  <2> QED BY <2>1, <1>1
<1>3. free \in Seq(Slot) /\ Once(free) /\ Elems(q) \cap Elems(free) = {}
  BY <1>2 DEF TypeOK, FreeExact
<1>4. free' \in Seq(Slot) /\ Once(free') /\ Elems(free') = S \cup Elems(free)
  <2>1. q \o free \in Seq(Slot) /\ Elems(q \o free) = Elems(q) \cup Elems(free) /\ Once(q \o free)
    BY <1>2, <1>3, ConcatElems
  <2> QED BY <2>1, <1>2
<1>5. {s \in Slot : timer'[s] = "cancelled"} = S \cup {s \in Slot : timer[s] = "cancelled"}
  OBVIOUS
<1> QED BY <1>4, <1>5 DEF FreeExact, Elems, Once

-----------------------------------------------------------------------------
(* The inductive invariant. An event is in the heap or activated only if   *)
(* its timer is armed, and for somebody; an armed timer is for one who     *)
(* waits, and no other is; and the coroutine that runs does not sleep.     *)
Place ==
  /\ \A s \in pending : timer[s] = "armed"
  /\ \A s \in Slot : timer[s] = "armed" => ctx[s] # None
  /\ DueOwned
Owned ==
  \A s \in Slot : timer[s] = "armed" /\ ctx[s] # Lost =>
    Waits(ctx[s]) /\ \A t \in Slot : timer[t] = "armed" /\ ctx[t] = ctx[s] => t = s
Held ==
  \A o \in Coroutine \cup Ticker :
    on = "on" /\ Waits(o) /\ o \notin robbed => \E s \in Slot : Ticks(s, o)
Ended ==
  on # "on" => \A s \in Slot : timer[s] # "armed" /\ (on = "released" => timer[s] # "cancelled")
Awake == cur \notin asleep

TimerInv == TypeOK /\ FreeExact /\ Place /\ Owned /\ Held /\ Ended /\ Awake

LEMMA Names ==
  /\ Lost \in Owner /\ Coroutine \cup Ticker \subseteq Owner /\ None \notin Owner
  /\ Lost \notin Coroutine \cup Ticker /\ Main \notin Coroutine /\ None \notin Coroutine
  /\ None \notin Slot /\ \A o \in Owner : o # Lost => o \in Coroutine \cup Ticker
  /\ \A c \in Coroutine : c \notin Ticker
BY TimerAssumption DEF Owner

(* A timer is armed for o, who did not wait.                               *)
LEMMA ArmKeeps ==
  ASSUME TimerInv, NEW s \in Slot, NEW o \in Owner, Arm(s, o), on' = on, on = "on",
         due' = due, robbed' = robbed, ~Waits(o),
         \A x \in Coroutine \cup Ticker : Waits(x)' <=> Waits(x) \/ x = o
  PROVE  Place' /\ Owned' /\ Held' /\ Ended'
<1>1. /\ timer[s] # "armed" /\ timer' = [timer EXCEPT ![s] = "armed"]
      /\ ctx' = [ctx EXCEPT ![s] = o] /\ pending' = pending \cup {s} /\ young' = young \cup {o}
  BY ArmParts DEF TimerInv
<1>2. /\ timer'[s] = "armed" /\ ctx'[s] = o
      /\ \A t \in Slot : t # s => timer'[t] = timer[t] /\ ctx'[t] = ctx[t]
      /\ \A t \in Slot : ctx[t] \in Owner \cup {None}
      /\ pending \subseteq Slot /\ due \subseteq Slot
  BY <1>1 DEF TimerInv, TypeOK
<1>3. \A t \in Slot : timer[t] = "armed" /\ ctx[t] # Lost => ctx[t] # o /\ Waits(ctx[t])
  BY DEF TimerInv, Owned
<1>4. s \notin pending /\ s \notin due
  BY <1>1 DEF TimerInv, Place, DueOwned
<1>5. Place'
  <2>1. \A t \in pending' : timer'[t] = "armed"
    BY <1>1, <1>2 DEF TimerInv, Place
  <2>2. \A t \in Slot : timer'[t] = "armed" => ctx'[t] # None
    BY <1>2, Names DEF TimerInv, Place
  <2>3. DueOwned'
    <3> SUFFICES ASSUME NEW t \in due
                 PROVE  /\ timer'[t] = "armed" /\ t \notin pending' /\ ctx'[t] # None
                        /\ ctx'[t] \notin young' \ {Lost}
      BY DEF DueOwned
    <3>1. /\ timer[t] = "armed" /\ t \notin pending /\ ctx[t] # None
          /\ ctx[t] \notin young \ {Lost} /\ t # s
      BY <1>4 DEF TimerInv, Place, DueOwned
    <3> QED BY <3>1, <1>1, <1>2, <1>3
  <2> QED BY <2>1, <2>2, <2>3 DEF Place
<1>6. Owned'
  <2> SUFFICES ASSUME NEW t \in Slot, timer'[t] = "armed", ctx'[t] # Lost
               PROVE  /\ ctx'[t] \in asleep' \cup ticking'
                      /\ \A u \in Slot : timer'[u] = "armed" /\ ctx'[u] = ctx'[t] => u = t
    BY DEF Owned, Waits
  <2>1. CASE t = s
    <3>1. o \in Coroutine \cup Ticker
      BY <2>1, <1>2, Names
    <3>2. o \in asleep' \cup ticking'
      BY <3>1 DEF Waits
    <3> QED BY <2>1, <3>1, <3>2, <1>2, <1>3 DEF Waits
  <2>2. CASE t # s
    <3>1. timer[t] = "armed" /\ ctx'[t] = ctx[t] /\ ctx[t] # o /\ Waits(ctx[t])
      BY <2>2, <1>2, <1>3
    <3>2. ctx[t] \in asleep' \cup ticking'
      <4>1. ctx[t] \in Coroutine \cup Ticker
        BY <3>1 DEF Waits, TimerInv, TypeOK
      <4> QED BY <4>1, <3>1 DEF Waits
    <3>3. \A u \in Slot : timer'[u] = "armed" /\ ctx'[u] = ctx[t] => u = t
      BY <2>2, <3>1, <1>2 DEF TimerInv, Owned
    <3> QED BY <3>1, <3>2, <3>3 DEF Waits
  <2> QED BY <2>1, <2>2
<1>7. Held'
  <2> SUFFICES ASSUME NEW x \in Coroutine \cup Ticker, Waits(x)', x \notin robbed
               PROVE  \E t \in Slot : Ticks(t, x)'
    BY DEF Held
  <2>1. CASE x = o
    BY <2>1, <1>1, <1>2 DEF Ticks
  <2>2. CASE x # o
    <3>1. PICK t \in Slot : Ticks(t, x)
      BY <2>2 DEF TimerInv, Held
    <3>2. t # s
      BY <3>1, <1>1 DEF Ticks
    <3> QED BY <3>1, <3>2, <1>1, <1>2 DEF Ticks
  <2> QED BY <2>1, <2>2
<1>8. Ended'
  BY DEF Ended
<1> QED BY <1>5, <1>6, <1>7, <1>8

(* A timer is cancelled; its owner, if any, is done or robbed.             *)
LEMMA DisarmKeeps ==
  ASSUME TimerInv, NEW s \in Slot, Disarm(s), on' = on, on = "on", young' = young,
         \A t \in Slot : t # s => ctx'[t] = ctx[t],
         \A x \in Coroutine \cup Ticker :
           /\ Waits(x)' => Waits(x)
           /\ x = ctx[s] /\ Waits(x)' => x \in robbed'
           /\ Waits(x) /\ ~Waits(x)' => x = ctx[s],
         robbed \subseteq robbed'
  PROVE  Place' /\ Owned' /\ Held' /\ Ended'
<1>1. /\ timer[s] = "armed" /\ timer' = [timer EXCEPT ![s] = "cancelled"]
      /\ pending' = pending \ {s} /\ due' = due \ {s}
  BY DisarmParts DEF TimerInv
<1>2. /\ timer'[s] = "cancelled" /\ \A t \in Slot : t # s => timer'[t] = timer[t]
      /\ pending \subseteq Slot /\ due \subseteq Slot /\ ctx[s] # None
  BY <1>1 DEF TimerInv, TypeOK, Place
<1>3. Place'
  <2>1. \A t \in pending' : timer'[t] = "armed"
    BY <1>1, <1>2 DEF TimerInv, Place
  <2>2. \A t \in Slot : timer'[t] = "armed" => ctx'[t] # None
    BY <1>2 DEF TimerInv, Place
  <2>3. DueOwned'
    BY <1>1, <1>2 DEF TimerInv, Place, DueOwned
  <2> QED BY <2>1, <2>2, <2>3 DEF Place
<1>4. Owned'
  <2> SUFFICES ASSUME NEW t \in Slot, timer'[t] = "armed", ctx'[t] # Lost
               PROVE  /\ ctx'[t] \in asleep' \cup ticking'
                      /\ \A u \in Slot : timer'[u] = "armed" /\ ctx'[u] = ctx'[t] => u = t
    BY DEF Owned, Waits
  <2>1. t # s /\ timer[t] = "armed" /\ ctx'[t] = ctx[t]
    BY <1>2
  <2>2. /\ Waits(ctx[t]) /\ ctx[s] # ctx[t]
        /\ \A u \in Slot : timer[u] = "armed" /\ ctx[u] = ctx[t] => u = t
    BY <2>1, <1>1 DEF TimerInv, Owned
  <2>3. ctx[t] \in asleep' \cup ticking'
    <3>1. ctx[t] \in Coroutine \cup Ticker
      BY <2>2 DEF Waits, TimerInv, TypeOK
    <3> QED BY <3>1, <2>2 DEF Waits
  <2> QED BY <2>1, <2>2, <2>3, <1>2 DEF Waits
<1>5. Held'
  <2> SUFFICES ASSUME NEW x \in Coroutine \cup Ticker, Waits(x)', x \notin robbed'
               PROVE  \E t \in Slot : Ticks(t, x)'
    BY DEF Held
  <2>1. Waits(x) /\ x \notin robbed /\ x # ctx[s]
    OBVIOUS
  <2>2. PICK t \in Slot : Ticks(t, x)
    BY <2>1 DEF TimerInv, Held
  <2>3. t # s
    BY <2>1, <2>2 DEF Ticks
  <2> QED BY <2>2, <2>3, <1>1, <1>2 DEF Ticks
<1>6. Ended'
  BY DEF Ended
<1> QED BY <1>3, <1>4, <1>5, <1>6

-----------------------------------------------------------------------------
(* Every step keeps the invariant.                                         *)
LEMMA SleepKeeps ==
  ASSUME TimerInv, NEW c \in Coroutine, Sleep(c)
  PROVE  TimerInv'
<1>1. PICK s \in Slot : Arm(s, c)
  BY DEF Sleep
<1>2. /\ on = "on" /\ cur = c /\ asleep' = asleep \cup {c} /\ cur' = None
      /\ UNCHANGED <<due, ticking, handle, on, robbed>>
  BY DEF Sleep
<1>3. c \in Owner /\ ~Waits(c)
  BY <1>2, Names DEF Waits, TimerInv, Awake, TypeOK
<1>4. /\ free' \in Seq(Slot) /\ FreeExact' /\ timer' = [timer EXCEPT ![s] = "armed"]
      /\ ctx' = [ctx EXCEPT ![s] = c] /\ pending' = pending \cup {s} /\ young' = young \cup {c}
  BY <1>1, <1>3, ArmParts DEF TimerInv
<1>5. TypeOK'
  BY <1>2, <1>3, <1>4 DEF TimerInv, TypeOK
<1>6. \A x \in Coroutine \cup Ticker : Waits(x)' <=> Waits(x) \/ x = c
  BY <1>2 DEF Waits
<1>7. Place' /\ Owned' /\ Held' /\ Ended'
  BY <1>1, <1>2, <1>3, <1>6, ArmKeeps
<1>8. Awake'
  BY <1>2, Names DEF Awake, TimerInv, TypeOK
<1> QED BY <1>4, <1>5, <1>7, <1>8 DEF TimerInv

LEMMA SleepRaisesKeeps ==
  ASSUME TimerInv, SleepRaises
  PROVE  TimerInv'
<1>1. PICK s \in Slot : Arm(s, Lost)
  BY DEF SleepRaises
<1>2. on = "on" /\ UNCHANGED <<due, asleep, ticking, handle, cur, on, robbed>>
  BY DEF SleepRaises
<1>3. Lost \in Owner /\ ~Waits(Lost)
  BY Names DEF Waits, TimerInv, TypeOK
<1>4. /\ free' \in Seq(Slot) /\ FreeExact' /\ timer' = [timer EXCEPT ![s] = "armed"]
      /\ ctx' = [ctx EXCEPT ![s] = Lost] /\ pending' = pending \cup {s} /\ young' = young \cup {Lost}
  BY <1>1, <1>3, ArmParts DEF TimerInv
<1>5. TypeOK'
  BY <1>2, <1>3, <1>4 DEF TimerInv, TypeOK
<1>6. \A x \in Coroutine \cup Ticker : Waits(x)' <=> Waits(x) \/ x = Lost
  BY <1>2, Names DEF Waits
<1>7. Place' /\ Owned' /\ Held' /\ Ended'
  BY <1>1, <1>2, <1>3, <1>6, ArmKeeps
<1>8. Awake'
  BY <1>2 DEF Awake, TimerInv
<1> QED BY <1>4, <1>5, <1>7, <1>8 DEF TimerInv

LEMMA TickKeeps ==
  ASSUME TimerInv, NEW k \in Ticker, Tick(k)
  PROVE  TimerInv'
<1>1. PICK s \in Slot : Arm(s, k) /\ handle' = [handle EXCEPT ![k] = s]
  BY DEF Tick
<1>2. /\ on = "on" /\ k \notin ticking /\ ticking' = ticking \cup {k}
      /\ UNCHANGED <<due, asleep, cur, on, robbed>>
  BY DEF Tick
<1>3. k \in Owner /\ ~Waits(k)
  BY <1>2, Names DEF Waits, TimerInv, TypeOK
<1>4. /\ free' \in Seq(Slot) /\ FreeExact' /\ timer' = [timer EXCEPT ![s] = "armed"]
      /\ ctx' = [ctx EXCEPT ![s] = k] /\ pending' = pending \cup {s} /\ young' = young \cup {k}
  BY <1>1, <1>3, ArmParts DEF TimerInv
<1>5. TypeOK'
  BY <1>1, <1>2, <1>3, <1>4 DEF TimerInv, TypeOK
<1>6. \A x \in Coroutine \cup Ticker : Waits(x)' <=> Waits(x) \/ x = k
  BY <1>2 DEF Waits
<1>7. Place' /\ Owned' /\ Held' /\ Ended'
  BY <1>1, <1>2, <1>3, <1>6, ArmKeeps
<1>8. Awake'
  BY <1>2 DEF Awake, TimerInv
<1> QED BY <1>4, <1>5, <1>7, <1>8 DEF TimerInv

LEMMA CancelKeeps ==
  ASSUME TimerInv, NEW k \in Ticker, Cancel(k)
  PROVE  TimerInv'
<1> DEFINE s == handle[k]
<1>1. s \in Slot /\ Disarm(s)
  BY Names DEF Cancel, TimerInv, TypeOK
<1>2. /\ on = "on" /\ UNCHANGED <<ctx, asleep, handle, cur, on, young>>
      /\ IF ctx[s] = k THEN ticking' = ticking \ {k} /\ robbed' = robbed
                       ELSE ticking' = ticking /\ robbed' = robbed \cup {ctx[s]}
  BY DEF Cancel
<1> HIDE DEF s
<1>3. /\ free' \in Seq(Slot) /\ FreeExact' /\ timer' = [timer EXCEPT ![s] = "cancelled"]
      /\ pending' = pending \ {s} /\ due' = due \ {s} /\ timer[s] = "armed"
  BY <1>1, DisarmParts DEF TimerInv
<1>4. ctx[s] \in Owner
  BY <1>1, <1>3 DEF TimerInv, TypeOK, Place
<1>5. TypeOK'
  BY <1>2, <1>3, <1>4 DEF TimerInv, TypeOK
<1>6. /\ robbed \subseteq robbed'
      /\ \A x \in Coroutine \cup Ticker :
           /\ Waits(x)' => Waits(x)
           /\ x = ctx[s] /\ Waits(x)' => x \in robbed'
           /\ Waits(x) /\ ~Waits(x)' => x = ctx[s]
  <2>1. CASE ctx[s] = k
    BY <2>1, <1>2, Names DEF Waits, TimerInv, TypeOK
  <2>2. CASE ctx[s] # k
    BY <2>2, <1>2 DEF Waits
  <2> QED BY <2>1, <2>2
<1>7. Place' /\ Owned' /\ Held' /\ Ended'
  BY <1>1, <1>2, <1>6, DisarmKeeps
<1>8. Awake'
  BY <1>2 DEF Awake, TimerInv
<1> QED BY <1>3, <1>5, <1>7, <1>8 DEF TimerInv

LEMMA FireSleepKeeps ==
  ASSUME TimerInv, NEW s \in Slot, FireSleep(s)
  PROVE  TimerInv'
<1> DEFINE c == ctx[s]
<1>1. /\ Disarm(s) /\ on = "on" /\ c \in Coroutine \cup {Lost} /\ ctx' = [ctx EXCEPT ![s] = None]
      /\ IF c \in asleep THEN cur' = c /\ asleep' = asleep \ {c} ELSE UNCHANGED <<cur, asleep>>
      /\ UNCHANGED <<ticking, handle, on, young, robbed>>
  BY DEF FireSleep
<1> HIDE DEF c
<1>2. /\ free' \in Seq(Slot) /\ FreeExact' /\ timer' = [timer EXCEPT ![s] = "cancelled"]
      /\ pending' = pending \ {s} /\ due' = due \ {s} /\ timer[s] = "armed"
  BY <1>1, DisarmParts DEF TimerInv
<1>3. c = ctx[s] /\ (c \in Coroutine => c \in asleep /\ c \notin ticking)
  BY <1>2, Names DEF c, TimerInv, Owned, Waits, TypeOK
<1>4. TypeOK'
  BY <1>1, <1>2 DEF TimerInv, TypeOK
<1>5. \A x \in Coroutine \cup Ticker :
        /\ Waits(x)' => Waits(x)
        /\ x = ctx[s] /\ Waits(x)' => x \in robbed'
        /\ Waits(x) /\ ~Waits(x)' => x = ctx[s]
  <2>1. CASE c \in Coroutine
    BY <2>1, <1>1, <1>3 DEF Waits
  <2>2. CASE c = Lost
    BY <2>2, <1>1, <1>3, Names DEF Waits, TimerInv, TypeOK
  <2> QED BY <2>1, <2>2, <1>1
<1>6. \A t \in Slot : t # s => ctx'[t] = ctx[t]
  BY <1>1 DEF TimerInv, TypeOK
<1>7. Place' /\ Owned' /\ Held' /\ Ended'
  BY <1>1, <1>5, <1>6, DisarmKeeps
<1>8. Awake'
  BY <1>1 DEF Awake, TimerInv
<1> QED BY <1>2, <1>4, <1>7, <1>8 DEF TimerInv

(* Only who runs changes.                                                  *)
LEMMA RunningKeeps ==
  ASSUME TimerInv, Return \/ OtherEvent
  PROVE  TimerInv'
<1>1. /\ UNCHANGED <<timer, free, pending, due, ctx, asleep, ticking, handle, on, young, robbed>>
      /\ cur' \in (Coroutine \ asleep) \cup {None, Main}
  BY DEF Return, OtherEvent
<1>2. TypeOK' /\ Awake'
  BY <1>1, Names DEF TimerInv, TypeOK, Awake
<1>3. FreeExact'
  BY <1>1 DEF TimerInv, FreeExact, Elems, Once
<1>4. Place' /\ Owned' /\ Held' /\ Ended'
  BY <1>1 DEF TimerInv, Place, DueOwned, Owned, Held, Ended, Waits, Ticks
<1> QED BY <1>2, <1>3, <1>4 DEF TimerInv

LEMMA PollKeeps ==
  ASSUME TimerInv, NEW D \in SUBSET pending, Poll(D)
  PROVE  TimerInv'
<1>1. /\ due = {} /\ due' = D /\ pending' = pending \ D /\ young' = {}
      /\ UNCHANGED <<timer, free, ctx, asleep, ticking, handle, cur, on, robbed>>
  BY DEF Poll
<1>2. TypeOK' /\ Awake'
  BY <1>1 DEF TimerInv, TypeOK, Awake
<1>3. FreeExact'
  BY <1>1 DEF TimerInv, FreeExact, Elems, Once
<1>4. Place'
  BY <1>1 DEF TimerInv, TypeOK, Place, DueOwned
<1>5. Owned' /\ Held' /\ Ended'
  BY <1>1 DEF TimerInv, Owned, Held, Ended, Waits, Ticks
<1> QED BY <1>2, <1>3, <1>4, <1>5 DEF TimerInv

LEMMA FireTickKeeps ==
  ASSUME TimerInv, NEW s \in Slot, FireTick(s)
  PROVE  TimerInv'
<1>1. /\ s \in due /\ ctx[s] \in Ticker /\ due' = due \ {s} /\ cur' = Main
      /\ pending' = IF ctx[s] \in Zero THEN pending ELSE pending \cup {s}
      /\ UNCHANGED <<timer, free, ctx, asleep, ticking, handle, on, young, robbed>>
  BY DEF FireTick
<1>2. TypeOK' /\ Awake'
  BY <1>1, Names DEF TimerInv, TypeOK, Awake
<1>3. FreeExact'
  BY <1>1 DEF TimerInv, FreeExact, Elems, Once
<1>4. Place'
  BY <1>1 DEF TimerInv, TypeOK, Place, DueOwned
<1>5. Owned' /\ Held' /\ Ended'
  BY <1>1 DEF TimerInv, Owned, Held, Ended, Waits, Ticks
<1> QED BY <1>2, <1>3, <1>4, <1>5 DEF TimerInv

LEMMA StopKeeps ==
  ASSUME TimerInv, Stop
  PROVE  TimerInv'
<1> DEFINE S == {s \in Slot : timer[s] = "armed" /\ ctx[s] # None}
<1>1. PICK q \in Orders(S) : free' = q \o free
  BY DEF Stop
<1>2. /\ timer' = [s \in Slot |-> IF s \in S THEN "cancelled" ELSE timer[s]]
      /\ pending' = pending \ S /\ due' = due \ S /\ on' = "stopped"
      /\ UNCHANGED <<ctx, asleep, ticking, handle, cur, young, robbed>>
  BY DEF Stop
<1>3. S \in SUBSET Slot /\ \A s \in S : timer[s] = "armed"
  OBVIOUS
<1>4. \A s \in Slot : timer[s] = "armed" => s \in S
  BY DEF TimerInv, Place
<1> HIDE DEF S
<1>5. free' \in Seq(Slot) /\ FreeExact'
  BY <1>1, <1>2, <1>3, StopParts DEF TimerInv
<1>6. \A s \in Slot : timer'[s] # "armed"
  BY <1>2, <1>4
<1>7. pending' = {} /\ due' = {}
  BY <1>2, <1>4 DEF TimerInv, TypeOK, Place, DueOwned
<1>8. TypeOK' /\ Awake'
  BY <1>2, <1>5 DEF TimerInv, TypeOK, Awake
<1>9. Place' /\ Owned' /\ Held' /\ Ended'
  BY <1>2, <1>6, <1>7 DEF Place, DueOwned, Owned, Held, Ended
<1> QED BY <1>5, <1>8, <1>9 DEF TimerInv

LEMMA ReleaseKeeps ==
  ASSUME TimerInv, Release
  PROVE  TimerInv'
<1>1. /\ on = "stopped" /\ on' = "released" /\ free' = <<>>
      /\ timer' = [s \in Slot |-> IF s \in Elems(free) THEN "freed" ELSE timer[s]]
      /\ UNCHANGED <<pending, due, ctx, asleep, ticking, handle, cur, young, robbed>>
  BY DEF Release
<1>2. \A s \in Slot : timer[s] # "armed"
  BY <1>1 DEF TimerInv, Ended
<1>3. \A s \in Slot : timer'[s] \notin {"armed", "cancelled"}
  BY <1>1, <1>2 DEF TimerInv, FreeExact
<1>4. pending = {} /\ due = {}
  BY <1>2 DEF TimerInv, TypeOK, Place, DueOwned
<1>5. TypeOK' /\ Awake'
  BY <1>1 DEF TimerInv, TypeOK, Awake
<1>6. FreeExact'
  BY <1>1, <1>3 DEF FreeExact, Elems, Once
<1>7. Place' /\ Owned' /\ Held' /\ Ended'
  BY <1>1, <1>3, <1>4 DEF Place, DueOwned, Owned, Held, Ended
<1> QED BY <1>5, <1>6, <1>7 DEF TimerInv

LEMMA TimerInvHolds == Spec => []TimerInv
<1>1. Init => TimerInv
  <2> SUFFICES ASSUME Init PROVE TimerInv
    OBVIOUS
  <2>1. TypeOK /\ Awake
    BY Names DEF Init, TypeOK, Awake
  <2>2. FreeExact
    BY DEF Init, FreeExact, Elems, Once
  <2>3. Place /\ Owned /\ Held /\ Ended
    BY DEF Init, Place, DueOwned, Owned, Held, Ended, Waits
  <2> QED BY <2>1, <2>2, <2>3 DEF TimerInv
<1>2. TimerInv /\ [Next]_vars => TimerInv'
  <2> SUFFICES ASSUME TimerInv, [Next]_vars PROVE TimerInv'
    OBVIOUS
  <2>1. CASE Calls
    BY <2>1, SleepRaisesKeeps, RunningKeeps, SleepKeeps, TickKeeps, CancelKeeps DEF Calls
  <2>2. CASE Loop
    BY <2>2, RunningKeeps, StopKeeps, ReleaseKeeps, PollKeeps, FireTickKeeps, FireSleepKeeps DEF Loop
  <2>3. CASE UNCHANGED vars
    BY <2>3 DEF vars, TimerInv, TypeOK, Awake, FreeExact, Elems, Once, Place, DueOwned, Owned, Held,
                Ended, Waits, Ticks
  <2> QED BY <2>1, <2>2, <2>3 DEF Next
<1> QED BY <1>1, <1>2, PTL DEF Spec

(* The variables of Timer keep their types.                                *)
THEOREM TypeCorrect == Spec => []TypeOK
BY TimerInvHolds, PTL DEF TimerInv

(* The free list holds every cancelled userdata once.                      *)
THEOREM FreeListExact == Spec => []FreeExact
BY TimerInvHolds, PTL DEF TimerInv

(* Who sleeps or ticks has one timer, and it will expire.                  *)
THEOREM WaitingTimerHeld == Spec => []TimerHeld
<1>1. TimerInv => TimerHeld
  BY Names DEF TimerInv, TimerHeld, Held, Owned, Ticks
<1> QED BY <1>1, TimerInvHolds, PTL

(* What runs is what expired, for the owner it was set for.                *)
THEOREM DueTimerOwned == Spec => []DueOwned
BY TimerInvHolds, PTL DEF TimerInv, Place

(* After the loop no timer is armed, and after release none is left.       *)
THEOREM TimersReleased == Spec => []AllReleased
<1>1. TimerInv => AllReleased
  BY DEF TimerInv, TypeOK, AllReleased, Place, DueOwned, Ended
<1> QED BY <1>1, TimerInvHolds, PTL
=============================================================================
