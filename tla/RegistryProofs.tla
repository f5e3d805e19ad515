--------------------------- MODULE RegistryProofs ----------------------------
(* What luaL_ref and luaL_unref keep, for tables of any size.              *)
EXTENDS Registry, TLAPS

(* The slots that hold x, and the ones that have been released.            *)
Owns(r, x) == {i \in DOMAIN r.slot : r.slot[i] = x}
Free(r) == {i \in DOMAIN r.slot : r.slot[i] \in Nat}

(* A table over the objects X: the list of released slots enters none of   *)
(* them twice, so that it has no cycle and none is given to two objects.   *)
Sound(r, X) ==
  /\ r = [slot |-> r.slot, free |-> r.free]
  /\ r.slot \in Seq(X \cup Nat)
  /\ r.free \in Free(r) \cup {0}
  /\ \A i \in Free(r) : r.slot[i] \in (Free(r) \ {r.free}) \cup {0}
  /\ \A i, j \in Free(r) : r.slot[i] = r.slot[j] /\ r.slot[i] # 0 => i = j

(* The empty table is sound and holds nothing.                             *)
LEMMA EmptySound ==
  ASSUME NEW X
  PROVE Sound(EmptyRegistry, X) /\ \A x \in X : Owns(EmptyRegistry, x) = {}
BY DEF Sound, Owns, Free, EmptyRegistry

(* A sound table is a table, and luaL_unref of any number leaves a table.  *)
Table(X) == [slot : Seq(X \cup Nat), free : Nat]

LEMMA SoundTyped ==
  ASSUME NEW X, NEW r, Sound(r, X)
  PROVE r \in Table(X)
<1>1. r = [slot |-> r.slot, free |-> r.free] /\ r.slot \in Seq(X \cup Nat)
  BY DEF Sound
<1>2. r.free \in Nat
  BY DEF Sound, Free
<1> QED
  BY <1>1, <1>2 DEF Table

LEMMA GiveTyped ==
  ASSUME NEW X, NEW r \in Table(X), NEW n \in Nat
  PROVE Give(r, n) \in Table(X)
<1>1. r.slot \in Seq(X \cup Nat) /\ r.free \in X \cup Nat
  BY DEF Table
<1>2. CASE n \in DOMAIN r.slot
  <2>1. [r.slot EXCEPT ![n] = r.free] \in Seq(X \cup Nat)
    BY <1>1, <1>2
  <2> QED
    BY <2>1 DEF Table, Give
<1>3. CASE n \notin DOMAIN r.slot
  <2>1. [r.slot EXCEPT ![n] = r.free] = r.slot
    BY <1>1, <1>3
  <2> QED
    BY <1>1, <2>1 DEF Table, Give
<1> QED
  BY <1>2, <1>3

(* luaL_ref gives the object a slot of its own and leaves the others.      *)
LEMMA TakeSound ==
  ASSUME NEW X, X \cap Nat = {}, NEW r, Sound(r, X), NEW x \in X, Owns(r, x) = {}
  PROVE /\ Sound(Take(r, x), X)
        /\ Owns(Take(r, x), x) = {NextRef(r)} /\ NextRef(r) \in Nat
        /\ \A y \in X \ {x} : Owns(Take(r, x), y) = Owns(r, y)
<1> DEFINE t == Take(r, x)
<1> USE DEF Sound
<1>1. CASE HasFree(r)
  <2>1. r.free \in DOMAIN r.slot /\ r.free \in Free(r) /\ r.free \in Nat \ {0}
    BY <1>1 DEF HasFree, Free
  <2>2. /\ t.slot = [r.slot EXCEPT ![r.free] = x] /\ t.free = r.slot[r.free]
        /\ t = [slot |-> t.slot, free |-> t.free] /\ NextRef(r) = r.free
    BY <1>1 DEF Take, NextRef
  <2>3. DOMAIN t.slot = DOMAIN r.slot /\ t.slot \in Seq(X \cup Nat)
    BY <2>1, <2>2
  <2>4. \A i \in DOMAIN r.slot : t.slot[i] = IF i = r.free THEN x ELSE r.slot[i]
    BY <2>1, <2>2
  <2>5. Free(t) = Free(r) \ {r.free}
    BY <2>1, <2>3, <2>4 DEF Free
  <2>6. t.free \in Free(t) \cup {0}
    BY <2>1, <2>2, <2>5
  <2>7. \A i \in Free(t) : t.slot[i] = r.slot[i]
    BY <2>4, <2>5 DEF Free
  <2>8. \A i \in Free(t) : t.slot[i] \in (Free(t) \ {t.free}) \cup {0}
    BY <2>1, <2>2, <2>5, <2>7
  <2>9. \A i, j \in Free(t) : t.slot[i] = t.slot[j] /\ t.slot[i] # 0 => i = j
    BY <2>5, <2>7
  <2>10. Owns(t, x) = {NextRef(r)} /\ \A y \in X \ {x} : Owns(t, y) = Owns(r, y)
    BY <2>1, <2>2, <2>3, <2>4 DEF Owns, Free
  <2> QED
    BY <2>1, <2>2, <2>3, <2>6, <2>8, <2>9, <2>10
<1>2. CASE ~HasFree(r)
  <2>1. /\ t.slot = Append(r.slot, x) /\ t.free = r.free
        /\ t = [slot |-> t.slot, free |-> t.free] /\ NextRef(r) = Len(r.slot) + 1
    BY <1>2 DEF Take, NextRef
  <2>2. r.free = 0 /\ Free(r) \subseteq DOMAIN r.slot
    BY <1>2 DEF HasFree, Free
  <2>3. /\ t.slot \in Seq(X \cup Nat) /\ DOMAIN r.slot = 1 .. Len(r.slot)
        /\ DOMAIN t.slot = 1 .. Len(r.slot) + 1 /\ Len(r.slot) \in Nat
        /\ \A i \in 1 .. Len(r.slot) : t.slot[i] = r.slot[i]
        /\ t.slot[Len(r.slot) + 1] = x
    BY <2>1
  <2>4. Free(t) = Free(r)
    BY <2>3 DEF Free
  <2>5. \A i \in Free(r) : t.slot[i] = r.slot[i]
    BY <2>3, <2>2
  <2>6. Owns(t, x) = {NextRef(r)} /\ \A y \in X \ {x} : Owns(t, y) = Owns(r, y)
    BY <2>1, <2>3 DEF Owns
  <2> QED
    BY <2>1, <2>2, <2>3, <2>4, <2>5, <2>6
<1> QED
  BY <1>1, <1>2

(* luaL_unref of the one slot of an object releases it, and no other.      *)
LEMMA GiveSound ==
  ASSUME NEW X, X \cap Nat = {}, NEW r, Sound(r, X), NEW x \in X,
         NEW n \in Nat, Owns(r, x) = {n}
  PROVE /\ Sound(Give(r, n), X)
        /\ \A y \in X : Owns(Give(r, n), y) = IF y = x THEN {} ELSE Owns(r, y)
<1> DEFINE t == Give(r, n)
<1> USE DEF Sound
<1>1. n \in DOMAIN r.slot /\ r.slot[n] = x /\ n \notin Free(r) /\ n # 0
  BY DEF Owns, Free
<1>2. /\ t.slot = [r.slot EXCEPT ![n] = r.free] /\ t.free = n
      /\ t = [slot |-> t.slot, free |-> t.free]
  BY DEF Give
<1>3. r.free \in Nat
  BY DEF Free
<1>4. DOMAIN t.slot = DOMAIN r.slot /\ t.slot \in Seq(X \cup Nat)
  BY <1>1, <1>2, <1>3
<1>5. \A i \in DOMAIN r.slot : t.slot[i] = IF i = n THEN r.free ELSE r.slot[i]
  BY <1>1, <1>2
<1>6. Free(t) = Free(r) \cup {n}
  BY <1>1, <1>3, <1>4, <1>5 DEF Free
<1>7. \A i \in Free(t) : t.slot[i] = IF i = n THEN r.free ELSE r.slot[i]
  BY <1>5, <1>4 DEF Free
<1>8. \A i \in Free(t) : t.slot[i] \in (Free(t) \ {t.free}) \cup {0}
  BY <1>1, <1>2, <1>6, <1>7
<1>9. \A i, j \in Free(t) : t.slot[i] = t.slot[j] /\ t.slot[i] # 0 => i = j
  BY <1>1, <1>6, <1>7
<1>10. \A y \in X : Owns(t, y) = IF y = x THEN {} ELSE Owns(r, y)
  BY <1>1, <1>3, <1>4, <1>5 DEF Owns
<1> QED
  BY <1>1, <1>2, <1>4, <1>6, <1>8, <1>9, <1>10
=============================================================================
