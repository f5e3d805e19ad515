--------------------------- MODULE EvBufferProofs ----------------------------
(***************************************************************************)
(* Proofs about the connections of event.c, for any number of buffers, any *)
(* amount of output and any depth of callbacks: which sequences can fail   *)
(* an assertion, that callbacks find their own userdata, and that Lua gets *)
(* the events of a connection in the order of BufferLife.                  *)
(***************************************************************************)
EXTENDS EvBuffer, RegistryProofs

Buffer == [life : {"unused", "live", "final"}, refcnt : -1 .. 2,
           cb : {"none", "connect", "stream", "drain"},
           net : {"idle", "handshake", "refused"},
           rd : BOOLEAN, wr : BOOLEAN, out : 0 .. MaxOut,
           closed : BOOLEAN, known : BOOLEAN, ref : Nat]
Kind == {"data", "error", "drain", "connected", "refused", "failed", "other"}
Frame == [kind : Kind, b : Buf \cup {Nobody}]
Event == {"nothing", "connected", "refused", "data", "error"}

(* The callbacks of b that are in progress: at most one.                   *)
Kinds(b) == {stack[i].kind : i \in {j \in DOMAIN stack : stack[j].b = b}}
StackInv ==
  /\ stack \in Seq(Frame)
  /\ \A i \in DOMAIN stack : stack[i].b = Nobody <=> stack[i].kind = "other"
  /\ \A i, j \in DOMAIN stack : stack[i].b = stack[j].b /\ stack[i].b # Nobody => i = j

(* A buffer r, given the callbacks K of it in progress, the last event t   *)
(* told of it and the history tw: it holds one reference of its own while  *)
(* it has callbacks set and one of libevent's while a callback of it is in *)
(* progress or deferred, and lives as long as it holds any.                *)
Good(r, K, t, tw) ==
  /\ r.refcnt = (IF r.cb # "none" THEN 1 ELSE 0)
                + (IF K # {} \/ r.net = "refused" THEN 1 ELSE 0)
  /\ r.life = "unused" => r = Unused /\ K = {} /\ t = "nothing"
  /\ r.life = "live" <=> r.refcnt > 0
  /\ r.net # "idle" <=> r.cb = "connect"
  /\ r.cb = "connect" => K = {} /\ ~r.known /\ ~r.rd /\ ~r.closed
  /\ r.known /\ ~r.closed => r.cb = "stream"
  /\ r.cb = "stream" => ~r.closed
  /\ r.cb = "drain" => r.closed /\ ~r.rd
  /\ "drain" \in K => r.cb = "drain"
  /\ "refused" \in K \/ "failed" \in K => r.cb = "none"
  /\ r.cb # "none" => (t = "error" <=> "error" \in K \/ "drain" \in K)
  /\ r.cb = "none" /\ "error" \in K => tw # {}

(* The registry holds the userdata of exactly the buffers with callbacks.  *)
RegInv ==
  /\ Sound(reg, Buf)
  /\ \A b \in Buf : Owns(reg, b) = IF buf[b].cb = "none" THEN {} ELSE {buf[b].ref}

Running ==
  /\ StackInv /\ RegInv
  /\ \A b \in Buf : Good(buf[b], Kinds(b), told[b], twice)

IInv == TypeOK /\ AbortCause /\ (~aborted => Running)

(* What an action does to a single buffer, and how a connection moves in   *)
(* BufferLife, from the life l and the event e to m and t.                 *)
Becomes(b, r, t) == buf' = [buf EXCEPT ![b] = r] /\ told' = [told EXCEPT ![b] = t]
LifeOf(r) ==
  IF r.life = "unused" THEN "unused"
  ELSE IF r.cb = "connect" THEN "connecting"
  ELSE IF r.cb = "none" THEN "gone"
  ELSE IF r.closed THEN "lingering" ELSE "open"
Moves(l, e, m, t) ==
  \/ m = l /\ t = e
  \/ l = "unused" /\ m \in {"connecting", "open", "gone"} /\ t = "nothing"
  \/ l = "unused" /\ m = "gone" /\ t = "refused"
  \/ l = "connecting" /\ m = "open" /\ t = "connected"
  \/ l = "connecting" /\ m = "gone" /\ t = "refused"
  \/ l = "open" /\ e # "error" /\ m = "open" /\ t = "data"
  \/ l \in {"open", "lingering"} /\ e # "error" /\ m = l /\ t = "error"
  \/ l = "open" /\ m \in {"lingering", "gone"} /\ t = e
  \/ l \in {"open", "lingering"} /\ e = "error" /\ m = "gone" /\ t = "error"
SeenLife == [b \in Buf |-> Life(b)]
SeenStep == [Seen!Next]_Seen!vars

-----------------------------------------------------------------------------
(* The stack.                                                              *)
LEMMA PushKeeps ==
  ASSUME StackInv, NEW k \in Kind, NEW b \in Buf \cup {Nobody}, stack' = Push(k, b),
         b = Nobody <=> k = "other", b \in Buf => Kinds(b) = {}
  PROVE /\ StackInv'
        /\ b \in Buf => Kinds(b)' = {k}
        /\ \A c \in Buf \ {b} : Kinds(c)' = Kinds(c)
<1> DEFINE n == Len(stack)
           f == [kind |-> k, b |-> b]
<1>1. /\ stack' \in Seq(Frame) /\ n \in Nat
      /\ DOMAIN stack = 1 .. n /\ DOMAIN stack' = 1 .. n + 1
      /\ (\A i \in 1 .. n : stack'[i] = stack[i]) /\ stack'[n + 1] = f
      /\ f.kind = k /\ f.b = b
  BY DEF StackInv, Push, Frame
<1> HIDE DEF n, f
<1>2. b \in Buf => \A i \in 1 .. n : stack[i].b # b
  BY <1>1 DEF Kinds
<1>3. \A i \in DOMAIN stack' : stack'[i].b = Nobody <=> stack'[i].kind = "other"
  <2> SUFFICES ASSUME NEW i \in 1 .. n + 1
               PROVE stack'[i].b = Nobody <=> stack'[i].kind = "other"
    BY <1>1
  <2>1. i \in 1 .. n \/ i = n + 1
    BY <1>1
  <2> QED
    BY <1>1, <2>1 DEF StackInv
<1>4. \A i, j \in DOMAIN stack' : stack'[i].b = stack'[j].b /\ stack'[i].b # Nobody => i = j
  <2> SUFFICES ASSUME NEW i \in 1 .. n + 1, NEW j \in 1 .. n + 1,
                      stack'[i].b = stack'[j].b, stack'[i].b # Nobody
               PROVE i = j
    BY <1>1
  <2>1. (i \in 1 .. n \/ i = n + 1) /\ (j \in 1 .. n \/ j = n + 1)
    BY <1>1
  <2> QED
    BY <1>1, <1>2, <2>1 DEF StackInv
<1>5. b \in Buf => Kinds(b)' = {k}
  BY <1>1, <1>2 DEF Kinds
<1>6. ASSUME NEW c \in Buf \ {b} PROVE Kinds(c)' = Kinds(c)
  BY <1>1 DEF Kinds
<1> QED
  BY <1>1, <1>3, <1>4, <1>5, <1>6 DEF StackInv

LEMMA PopKeeps ==
  ASSUME StackInv, NEW k \in Kind, NEW b \in Buf \cup {Nobody}, stack # <<>>,
         Top = [kind |-> k, b |-> b], stack' = Pop, Nobody \notin Buf
  PROVE /\ StackInv'
        /\ b \in Buf => Kinds(b) = {k} /\ Kinds(b)' = {}
        /\ \A c \in Buf \ {b} : Kinds(c)' = Kinds(c)
<1> DEFINE n == Len(stack)
<1>1. /\ stack' \in Seq(Frame) /\ n \in Nat \ {0}
      /\ DOMAIN stack = 1 .. n /\ DOMAIN stack' = 1 .. n - 1
      /\ (\A i \in 1 .. n - 1 : stack'[i] = stack[i])
      /\ stack[n].kind = k /\ stack[n].b = b
  BY DEF StackInv, Pop, Top
<1> HIDE DEF n
<1>2. \A i \in 1 .. n : i = n \/ i \in 1 .. n - 1
  BY <1>1
<1>3. b \in Buf => \A i \in 1 .. n - 1 : stack[i].b # b
  BY <1>1 DEF StackInv
<1>4. b \in Buf => Kinds(b) = {k} /\ Kinds(b)' = {}
  BY <1>1, <1>2, <1>3 DEF Kinds
<1>5. ASSUME NEW c \in Buf \ {b} PROVE Kinds(c)' = Kinds(c)
  BY <1>1, <1>2 DEF Kinds
<1>6. StackInv'
  BY <1>1, <1>2 DEF StackInv
<1> QED
  BY <1>4, <1>5, <1>6

LEMMA RekindKeeps ==
  ASSUME StackInv, NEW k \in Kind \ {"other"}, NEW b \in Buf, NEW m \in Kind \ {"other"},
         stack # <<>>, Top = [kind |-> k, b |-> b], Nobody \notin Buf,
         stack' = [stack EXCEPT ![Len(stack)].kind = m]
  PROVE /\ StackInv'
        /\ Kinds(b) = {k} /\ Kinds(b)' = {m}
        /\ \A c \in Buf \ {b} : Kinds(c)' = Kinds(c)
<1> DEFINE n == Len(stack)
<1>1. /\ n \in Nat \ {0} /\ DOMAIN stack = 1 .. n
      /\ stack[n] \in Frame /\ stack[n].kind = k /\ stack[n].b = b
  BY DEF StackInv, Top
<1>2. /\ stack' \in Seq(Frame) /\ DOMAIN stack' = 1 .. n
      /\ (\A i \in 1 .. n : i # n => stack'[i] = stack[i])
      /\ stack'[n].kind = m /\ stack'[n].b = b
  BY <1>1 DEF StackInv, Frame
<1> HIDE DEF n
<1>3. \A i \in 1 .. n : i # n => stack[i].b # b
  BY <1>1 DEF StackInv
<1>4. Kinds(b) = {k} /\ Kinds(b)' = {m}
  BY <1>1, <1>2, <1>3 DEF Kinds
<1>5. ASSUME NEW c \in Buf \ {b} PROVE Kinds(c)' = Kinds(c)
  BY <1>1, <1>2 DEF Kinds
<1>6. StackInv'
  BY <1>1, <1>2, <1>3 DEF StackInv
<1> QED
  BY <1>4, <1>5, <1>6

-----------------------------------------------------------------------------
(* The registry.                                                           *)
LEMMA RegKeeps ==
  ASSUME RegInv, UNCHANGED reg, NEW b \in Buf, NEW r, buf \in [Buf -> Buffer],
         buf' = [buf EXCEPT ![b] = r], r.ref = buf[b].ref,
         r.cb = "none" <=> buf[b].cb = "none"
  PROVE RegInv'
<1>1. \A c \in Buf : buf'[c] = IF c = b THEN r ELSE buf[c]
  OBVIOUS
<1>2. Owns(reg, b)' = IF r.cb = "none" THEN {} ELSE {r.ref}
  BY DEF RegInv, Owns
<1>3. \A c \in Buf : Owns(reg, c)' = Owns(reg, c)
  BY DEF Owns
<1> QED
  BY <1>1, <1>2, <1>3 DEF RegInv, Sound, Free

LEMMA TakeKeeps ==
  ASSUME RegInv, NEW b \in Buf, NEW r, buf \in [Buf -> Buffer], buf[b].cb = "none",
         reg' = Take(reg, b), buf' = [buf EXCEPT ![b] = r],
         r.cb # "none", r.ref = NextRef(reg)
  PROVE RegInv' /\ NextRef(reg) \in Nat
<1>1. Owns(reg, b) = {} /\ Sound(reg, Buf) /\ Buf \cap Nat = {}
  BY EvBufferAssumption DEF RegInv
<1>2. /\ Sound(reg', Buf) /\ Owns(reg', b) = {NextRef(reg)} /\ NextRef(reg) \in Nat
      /\ \A c \in Buf \ {b} : Owns(reg', c) = Owns(reg, c)
  BY <1>1, TakeSound
<1>3. \A c \in Buf : buf'[c] = IF c = b THEN r ELSE buf[c]
  OBVIOUS
<1>4. \A c \in Buf : Owns(reg', c) = IF buf'[c].cb = "none" THEN {} ELSE {buf'[c].ref}
  BY <1>2, <1>3 DEF RegInv
<1> QED
  BY <1>2, <1>4 DEF RegInv, Owns

LEMMA GiveKeeps ==
  ASSUME RegInv, NEW b \in Buf, NEW r, buf \in [Buf -> Buffer], buf[b].cb # "none",
         reg' = Give(reg, buf[b].ref), buf' = [buf EXCEPT ![b] = r], r.cb = "none"
  PROVE RegInv'
<1>1. /\ Owns(reg, b) = {buf[b].ref} /\ Sound(reg, Buf) /\ Buf \cap Nat = {}
      /\ buf[b].ref \in Nat
  BY EvBufferAssumption DEF RegInv, Buffer
<1> DEFINE n == buf[b].ref
<1> HIDE DEF n
<1>2. /\ Sound(reg', Buf)
      /\ \A c \in Buf : Owns(reg', c) = IF c = b THEN {} ELSE Owns(reg, c)
  <2>1. reg' = Give(reg, n) /\ Owns(reg, b) = {n} /\ n \in Nat
    BY <1>1 DEF n
  <2>2. \A i \in Nat : Owns(reg, b) = {i} =>
          /\ Sound(Give(reg, i), Buf)
          /\ \A c \in Buf : Owns(Give(reg, i), c) = IF c = b THEN {} ELSE Owns(reg, c)
    <3>1. Sound(reg, Buf) /\ Buf \cap Nat = {}
      BY <1>1
    <3> QED
      BY <3>1, GiveSound
  <2> QED
    BY <2>1, <2>2
<1>3. \A c \in Buf : buf'[c] = IF c = b THEN r ELSE buf[c]
  OBVIOUS
<1>4. \A c \in Buf : Owns(reg', c) = IF buf'[c].cb = "none" THEN {} ELSE {buf'[c].ref}
  BY <1>2, <1>3 DEF RegInv
<1> QED
  BY <1>2, <1>4 DEF RegInv, Owns

(* A connect that fails leaves no reference.                               *)
LEMMA TakeGiveKeeps ==
  ASSUME RegInv, NEW b \in Buf, NEW r, buf \in [Buf -> Buffer], buf[b].cb = "none",
         reg' = Give(Take(reg, b), NextRef(reg)), buf' = [buf EXCEPT ![b] = r],
         r.cb = "none"
  PROVE RegInv' /\ NextRef(reg) \in Nat
<1>1. Owns(reg, b) = {} /\ Sound(reg, Buf) /\ Buf \cap Nat = {}
  BY EvBufferAssumption DEF RegInv
<1>2. /\ Sound(Take(reg, b), Buf) /\ Owns(Take(reg, b), b) = {NextRef(reg)}
      /\ NextRef(reg) \in Nat
      /\ \A c \in Buf \ {b} : Owns(Take(reg, b), c) = Owns(reg, c)
  BY <1>1, TakeSound
<1>3. /\ Sound(reg', Buf)
      /\ \A c \in Buf : Owns(reg', c) = IF c = b THEN {} ELSE Owns(Take(reg, b), c)
  <2> DEFINE n == NextRef(reg)
             taken == Take(reg, b)
  <2> HIDE DEF n, taken
  <2>1. reg' = Give(taken, n) /\ Owns(taken, b) = {n} /\ n \in Nat /\ Sound(taken, Buf)
    BY <1>2 DEF n, taken
  <2>2. /\ Sound(reg', Buf)
        /\ \A c \in Buf : Owns(reg', c) = IF c = b THEN {} ELSE Owns(taken, c)
    BY <1>1, <2>1, GiveSound
  <2> QED
    BY <2>2 DEF taken
<1>4. \A c \in Buf : buf'[c] = IF c = b THEN r ELSE buf[c]
  OBVIOUS
<1>5. \A c \in Buf : Owns(reg', c) = IF buf'[c].cb = "none" THEN {} ELSE {buf'[c].ref}
  BY <1>1, <1>2, <1>3, <1>4 DEF RegInv
<1> QED
  BY <1>2, <1>3, <1>5 DEF RegInv, Owns

(* A callback that is set tells Lua about its own buffer.                  *)
LEMMA FindsOwn ==
  ASSUME RegInv, NEW b \in Buf, buf[b].cb # "none", NEW w, told \in [Buf -> Event]
  PROVE reg.slot[buf[b].ref] = b /\ Tell(b, w) = [told EXCEPT ![b] = w]
<1>1. reg.slot[buf[b].ref] = b
  BY DEF RegInv, Owns
<1> QED
  BY <1>1 DEF Tell, Found

-----------------------------------------------------------------------------
(* A step, of one buffer.                                                  *)
LEMMA SeenKeeps ==
  ASSUME TypeOK, NEW b \in Buf, NEW r, NEW t, Becomes(b, r, t),
         Moves(Life(b), told[b], LifeOf(r), t)
  PROVE SeenStep
<1>1. SeenLife' = [SeenLife EXCEPT ![b] = LifeOf(r)]
  <2>1. \A c \in Buf : buf'[c] = IF c = b THEN r ELSE buf[c]
    BY DEF TypeOK, Becomes
  <2>2. \A c \in Buf : Life(c)' = IF c = b THEN LifeOf(r) ELSE Life(c)
    BY <2>1 DEF Life, LifeOf
  <2> QED
    BY <2>2 DEF SeenLife
<1>2. SeenLife[b] = Life(b)
  BY DEF SeenLife
<1>3. told' = [told EXCEPT ![b] = t]
  BY DEF Becomes
<1> DEFINE m == LifeOf(r)
<1> HIDE DEF m
<1>4. SeenLife' = [SeenLife EXCEPT ![b] = m] /\ Moves(SeenLife[b], told[b], m, t)
  BY <1>1, <1>2 DEF m
<1>5. CASE m = SeenLife[b] /\ t = told[b]
  <2>1. SeenLife' = SeenLife /\ told' = told
    BY <1>3, <1>4, <1>5 DEF SeenLife, TypeOK
  <2> QED
    BY <2>1 DEF SeenStep, Seen!vars, SeenLife
<1>6. CASE ~(m = SeenLife[b] /\ t = told[b])
  <2>1. \/ Seen!Create(b) \/ Seen!Connected(b) \/ Seen!Refused(b) \/ Seen!Data(b)
        \/ Seen!Error(b) \/ Seen!Close(b) \/ Seen!End(b)
    BY <1>3, <1>4, <1>6
       DEF Moves, Seen!Create, Seen!Connected, Seen!Refused, Seen!Data, Seen!Error,
           Seen!Close, Seen!End, Seen!Set, SeenLife
  <2> QED
    BY <2>1 DEF SeenStep, Seen!Next
<1> QED
  BY <1>5, <1>6

LEMMA BufferStep ==
  ASSUME IInv, ~aborted, aborted' = FALSE,
         NEW b \in Buf, NEW r \in Buffer, NEW t \in Event, Becomes(b, r, t),
         Moves(Life(b), told[b], LifeOf(r), t),
         StackInv', \A c \in Buf \ {b} : Kinds(c)' = Kinds(c), RegInv',
         twice \subseteq twice',
         twice' \subseteq {"closed in EV_ERROR", "connect failed at once"},
         Good(r, Kinds(b)', t, twice')
  PROVE IInv' /\ SeenStep
<1>1. SeenStep
  BY SeenKeeps DEF IInv
<1>2. /\ buf' \in [Buf -> Buffer] /\ told' \in [Buf -> Event]
      /\ \A c \in Buf : buf'[c] = IF c = b THEN r ELSE buf[c]
      /\ \A c \in Buf : told'[c] = IF c = b THEN t ELSE told[c]
  BY DEF IInv, TypeOK, Becomes, Buffer, Event
<1>3. reg' \in [slot : Seq(Buf \cup Nat), free : Nat]
  BY SoundTyped DEF RegInv, Table
<1>4. TypeOK'
  BY <1>2, <1>3 DEF TypeOK, StackInv, Frame, Kind, Buffer, Event
<1>5. ASSUME NEW c \in Buf PROVE Good(buf[c], Kinds(c), told[c], twice)'
  <2>1. CASE c = b
    BY <2>1, <1>2
  <2>2. CASE c # b
    <3>1. Good(buf[c], Kinds(c), told[c], twice)
      BY DEF IInv, Running
    <3>2. Good(buf[c], Kinds(c), told[c], twice')
      BY <3>1 DEF Good
    <3> QED
      BY <3>2, <2>2, <1>2
  <2> QED
    BY <2>1, <2>2
<1> QED
  BY <1>1, <1>4, <1>5 DEF IInv, Running, AbortCause

(* A step that fails the assertion.                                        *)
LEMMA AbortStep ==
  ASSUME IInv, ~aborted, aborted' = TRUE, twice' # {},
         NEW b \in Buf, NEW r \in Buffer, NEW t \in Event, Becomes(b, r, t),
         Moves(Life(b), told[b], LifeOf(r), t),
         StackInv', reg' = Give(reg, buf[b].ref),
         twice' \subseteq {"closed in EV_ERROR", "connect failed at once"}
  PROVE IInv' /\ SeenStep
<1>1. SeenStep
  BY SeenKeeps DEF IInv
<1>2. /\ buf' \in [Buf -> Buffer] /\ told' \in [Buf -> Event]
  BY DEF IInv, TypeOK, Becomes, Buffer, Event
<1>3. reg' \in [slot : Seq(Buf \cup Nat), free : Nat]
  <2>1. buf[b].ref \in Nat /\ reg \in Table(Buf)
    BY DEF IInv, TypeOK, Table
  <2> QED
    BY <2>1, GiveTyped DEF Table
<1>4. TypeOK'
  BY <1>2, <1>3 DEF TypeOK, StackInv, Frame, Kind, Buffer, Event
<1> QED
  BY <1>1, <1>4 DEF IInv, AbortCause

-----------------------------------------------------------------------------
(* What holds of a buffer before a step.                                   *)
LEMMA Facts ==
  ASSUME IInv, ~aborted, NEW b \in Buf
  PROVE /\ buf[b] \in Buffer /\ told[b] \in Event
        /\ buf \in [Buf -> Buffer] /\ told \in [Buf -> Event]
        /\ StackInv /\ RegInv
        /\ Good(buf[b], Kinds(b), told[b], twice)
        /\ Life(b) = LifeOf(buf[b])
        /\ twice \subseteq {"closed in EV_ERROR", "connect failed at once"}
        /\ b # Nobody /\ Nobody \notin Buf
<1>1. buf \in [Buf -> Buffer] /\ told \in [Buf -> Event]
  BY DEF IInv, TypeOK, Buffer, Event
<1> QED
  BY <1>1, EvBufferAssumption DEF IInv, TypeOK, Running, Life, LifeOf

LEMMA TellsOwn ==
  ASSUME IInv, ~aborted, NEW b \in Buf, buf[b].cb # "none"
  PROVE \A w : Tell(b, w) = [told EXCEPT ![b] = w]
<1>1. RegInv /\ told \in [Buf -> Event]
  BY Facts
<1> QED
  BY <1>1, FindsOwn

(* The loop calls back, or not.                                            *)
LEMMA CallsBack ==
  ASSUME IInv, Polling, NEW b \in Buf
  PROVE /\ Kinds(b) = {}
        /\ UNCHANGED stack => StackInv' /\ \A c \in Buf : Kinds(c)' = Kinds(c)
        /\ stack' = Push("other", Nobody) =>
             StackInv' /\ \A c \in Buf : Kinds(c)' = Kinds(c)
        /\ \A k \in Kind \ {"other"} : stack' = Push(k, b) =>
             StackInv' /\ Kinds(b)' = {k} /\ \A c \in Buf \ {b} : Kinds(c)' = Kinds(c)
<1>1. StackInv /\ b # Nobody /\ Nobody \notin Buf
  BY Facts DEF Polling
<1>2. Kinds(b) = {}
  BY DEF Polling, Kinds
<1>3. UNCHANGED stack => StackInv' /\ \A c \in Buf : Kinds(c)' = Kinds(c)
  BY <1>1 DEF StackInv, Kinds
<1>4. stack' = Push("other", Nobody) => StackInv' /\ \A c \in Buf : Kinds(c)' = Kinds(c)
  BY <1>1, PushKeeps DEF Kind
<1>5. ASSUME NEW k \in Kind \ {"other"}, stack' = Push(k, b)
      PROVE StackInv' /\ Kinds(b)' = {k} /\ \A c \in Buf \ {b} : Kinds(c)' = Kinds(c)
  BY <1>1, <1>2, <1>5, PushKeeps
<1> QED
  BY <1>2, <1>3, <1>4, <1>5

(* A callback returns.                                                     *)
LEMMA ComesBack ==
  ASSUME IInv, NEW b \in Buf, NEW k \in Kind \ {"other"}, Returns(k, b)
  PROVE /\ Kinds(b) = {k}
        /\ stack' = Pop =>
             StackInv' /\ Kinds(b)' = {} /\ \A c \in Buf \ {b} : Kinds(c)' = Kinds(c)
        /\ \A m \in Kind \ {"other"} : stack' = [stack EXCEPT ![Len(stack)].kind = m] =>
             StackInv' /\ Kinds(b)' = {m} /\ \A c \in Buf \ {b} : Kinds(c)' = Kinds(c)
<1>1. /\ StackInv /\ Nobody \notin Buf /\ stack # <<>> /\ Top = [kind |-> k, b |-> b]
  BY Facts DEF Returns, UserCode
<1>2. Kinds(b) = {k}
  <2>1. \A i \in DOMAIN stack : stack[i].b = b => i = Len(stack)
    BY <1>1 DEF StackInv, Top
  <2>2. Len(stack) \in DOMAIN stack /\ stack[Len(stack)].b = b /\ stack[Len(stack)].kind = k
    BY <1>1 DEF StackInv, Top
  <2> QED
    BY <2>1, <2>2 DEF Kinds
<1>3. stack' = Pop =>
        StackInv' /\ Kinds(b)' = {} /\ \A c \in Buf \ {b} : Kinds(c)' = Kinds(c)
  BY <1>1, PopKeeps
<1>4. ASSUME NEW m \in Kind \ {"other"}, stack' = [stack EXCEPT ![Len(stack)].kind = m]
      PROVE StackInv' /\ Kinds(b)' = {m} /\ \A c \in Buf \ {b} : Kinds(c)' = Kinds(c)
  BY <1>1, <1>4, RekindKeeps
<1> QED
  BY <1>2, <1>3, <1>4

(* User code goes on: no callback begins or ends.                          *)
LEMMA StaysIn ==
  ASSUME IInv, UserCode, UNCHANGED stack, NEW b \in Buf
  PROVE StackInv' /\ \A c \in Buf : Kinds(c)' = Kinds(c)
BY Facts DEF UserCode, StackInv, Kinds

(* libevent holds a buffer while it calls back for it.                     *)
LEMMA HeldGood ==
  ASSUME NEW x \in Buffer, NEW t, NEW tw, Good(x, {}, t, tw), x.refcnt = 1,
         x.cb \in {"stream", "drain"},
         NEW r \in Buffer, r.refcnt = 2, r.life = x.life, r.cb = x.cb, r.net = x.net,
         r.closed = x.closed, r.known = x.known, r.rd => x.rd,
         NEW k \in {"data", "error", "drain"}, NEW e, k = "data" <=> e # "error",
         k = "drain" => x.cb = "drain"
  PROVE Good(r, {k}, e, tw)
BY DEF Good, Buffer

-----------------------------------------------------------------------------
(* What libevent calls.                                                    *)
LEMMA ReadableStep ==
  ASSUME IInv, NEW b \in Buf, Readable(b)
  PROVE IInv' /\ SeenStep
<1> DEFINE r == [buf[b] EXCEPT !.refcnt = @ + 1]
<1>1. /\ ~aborted /\ Polling /\ aborted' = FALSE /\ UNCHANGED <<reg, twice>>
      /\ buf[b].life = "live" /\ buf[b].rd
  BY DEF Readable, Polling, IInv, TypeOK
<1>2. Kinds(b) = {} /\ Good(buf[b], {}, told[b], twice) /\ buf[b] \in Buffer
  BY <1>1, Facts, CallsBack
<1>3. buf[b].cb = "stream" /\ buf[b].refcnt = 1 /\ ~buf[b].closed /\ told[b] # "error"
      /\ buf[b].net = "idle"
  BY <1>1, <1>2 DEF Good, Buffer
<1>4. Tell(b, "data") = [told EXCEPT ![b] = "data"]
  BY <1>1, <1>3, TellsOwn
<1>5. Becomes(b, r, "data") /\ stack' = Push("data", b)
  BY <1>3, <1>4 DEF Readable, Becomes
<1>6. r \in Buffer /\ Good(r, {"data"}, "data", twice) /\ r.ref = buf[b].ref
      /\ r.cb = "stream" /\ LifeOf(r) = LifeOf(buf[b]) /\ LifeOf(r) = "open"
  BY <1>2, <1>3 DEF Buffer, Good, LifeOf
<1>7. Moves(Life(b), told[b], LifeOf(r), "data")
  BY <1>1, <1>3, <1>6, Facts DEF Moves
<1>8. StackInv' /\ Kinds(b)' = {"data"} /\ \A c \in Buf \ {b} : Kinds(c)' = Kinds(c)
  BY <1>1, <1>5, CallsBack DEF Kind
<1>9. RegInv'
  BY <1>1, <1>3, <1>5, <1>6, Facts, RegKeeps DEF Becomes
<1> QED
  BY <1>1, <1>5, <1>6, <1>7, <1>8, <1>9, Facts, BufferStep DEF Event

LEMMA ReadFailsStep ==
  ASSUME IInv, NEW b \in Buf, ReadFails(b)
  PROVE IInv' /\ SeenStep
<1> DEFINE n == buf[b].refcnt + 1
           r == [buf[b] EXCEPT !.refcnt = n, !.rd = FALSE]
<1>1. /\ ~aborted /\ Polling /\ aborted' = FALSE /\ UNCHANGED <<reg, twice>>
      /\ buf[b].life = "live" /\ buf[b].rd
  BY DEF ReadFails, Polling, IInv, TypeOK
<1>2. Kinds(b) = {} /\ Good(buf[b], {}, told[b], twice) /\ buf[b] \in Buffer
  BY <1>1, Facts, CallsBack
<1>3. buf[b].cb = "stream" /\ buf[b].refcnt = 1 /\ ~buf[b].closed /\ told[b] # "error"
      /\ buf[b].net = "idle"
  BY <1>1, <1>2 DEF Good, Buffer
<1>4. n = 2 /\ Tell(b, "error") = [told EXCEPT ![b] = "error"]
  BY <1>1, <1>3, TellsOwn
<1>5. Becomes(b, r, "error") /\ stack' = Push("error", b)
  BY <1>3, <1>4 DEF ReadFails, Becomes
<1>6. r \in Buffer /\ Good(r, {"error"}, "error", twice) /\ r.ref = buf[b].ref
      /\ r.cb = "stream" /\ LifeOf(r) = LifeOf(buf[b]) /\ LifeOf(r) = "open"
  <2> HIDE DEF n
  <2>3. buf[b] \in Buffer /\ n \in -1 .. 2
    BY <1>2, <1>4
  <2>0. r \in Buffer
    BY <2>3 DEF Buffer
  <2>1. /\ r.refcnt = n /\ r.life = buf[b].life /\ r.cb = buf[b].cb /\ r.net = buf[b].net
        /\ r.closed = buf[b].closed /\ r.known = buf[b].known /\ ~r.rd /\ r.ref = buf[b].ref
    BY <1>2 DEF Buffer
  <2> HIDE DEF r
  <2>2. Good(r, {"error"}, "error", twice)
    BY <1>1, <1>2, <1>3, <1>4, <2>0, <2>1, HeldGood
  <2> QED
    BY <1>1, <1>3, <1>4, <2>0, <2>1, <2>2 DEF LifeOf
<1>7. Moves(Life(b), told[b], LifeOf(r), "error")
  BY <1>1, <1>3, <1>6, Facts DEF Moves
<1>8. StackInv' /\ Kinds(b)' = {"error"} /\ \A c \in Buf \ {b} : Kinds(c)' = Kinds(c)
  BY <1>1, <1>5, CallsBack DEF Kind
<1>9. RegInv'
  BY <1>1, <1>3, <1>5, <1>6, Facts, RegKeeps DEF Becomes
<1> QED
  BY <1>1, <1>5, <1>6, <1>7, <1>8, <1>9, Facts, BufferStep DEF Event

LEMMA WriteFailsStep ==
  ASSUME IInv, NEW b \in Buf, WriteFails(b)
  PROVE IInv' /\ SeenStep
<1> DEFINE n == buf[b].refcnt + 1
           r == [buf[b] EXCEPT !.refcnt = n, !.wr = FALSE]
<1>1. /\ ~aborted /\ Polling /\ aborted' = FALSE /\ UNCHANGED <<reg, twice>>
      /\ buf[b].life = "live" /\ buf[b].net = "idle"
  BY DEF WriteFails, Polling, IInv, TypeOK
<1>2. Kinds(b) = {} /\ Good(buf[b], {}, told[b], twice) /\ buf[b] \in Buffer
  BY <1>1, Facts, CallsBack
<1>3. /\ buf[b].cb \in {"stream", "drain"} /\ buf[b].cb # "none"
      /\ buf[b].refcnt = 1 /\ told[b] # "error"
  BY <1>1, <1>2 DEF Good, Buffer
<1>4. n = 2 /\ Tell(b, "error") = [told EXCEPT ![b] = "error"]
  BY <1>1, <1>3, TellsOwn
<1>5. Becomes(b, r, "error") /\ stack' = Push("error", b)
  BY <1>4 DEF WriteFails, Becomes
<1>6. r \in Buffer /\ Good(r, {"error"}, "error", twice) /\ r.ref = buf[b].ref
      /\ r.cb = buf[b].cb /\ LifeOf(r) = LifeOf(buf[b]) /\ LifeOf(r) \in {"open", "lingering"}
  <2> HIDE DEF n
  <2>3. buf[b] \in Buffer /\ n \in -1 .. 2
    BY <1>2, <1>4
  <2>0. r \in Buffer
    BY <2>3 DEF Buffer
  <2>1. /\ r.refcnt = n /\ r.life = buf[b].life /\ r.cb = buf[b].cb /\ r.net = buf[b].net
        /\ r.closed = buf[b].closed /\ r.known = buf[b].known /\ r.rd = buf[b].rd
        /\ r.ref = buf[b].ref
    BY <1>2 DEF Buffer
  <2> HIDE DEF r
  <2>2. Good(r, {"error"}, "error", twice)
    BY <1>1, <1>2, <1>3, <1>4, <2>0, <2>1, HeldGood
  <2> QED
    BY <1>1, <1>3, <1>4, <2>0, <2>1, <2>2 DEF LifeOf
<1>7. Moves(Life(b), told[b], LifeOf(r), "error")
  BY <1>1, <1>3, <1>6, Facts DEF Moves
<1>8. StackInv' /\ Kinds(b)' = {"error"} /\ \A c \in Buf \ {b} : Kinds(c)' = Kinds(c)
  BY <1>1, <1>5, CallsBack DEF Kind
<1>9. RegInv'
  BY <1>1, <1>3, <1>5, <1>6, Facts, RegKeeps DEF Becomes
<1> QED
  BY <1>1, <1>5, <1>6, <1>7, <1>8, <1>9, Facts, BufferStep DEF Event

LEMMA WritableStep ==
  ASSUME IInv, NEW b \in Buf, Writable(b)
  PROVE IInv' /\ SeenStep
<1>1. /\ ~aborted /\ Polling /\ aborted' = FALSE /\ UNCHANGED <<reg, twice>>
      /\ buf[b].life = "live" /\ buf[b].net = "idle"
  BY DEF Writable, Polling, IInv, TypeOK
<1>2. Kinds(b) = {} /\ Good(buf[b], {}, told[b], twice) /\ buf[b] \in Buffer
  BY <1>1, Facts, CallsBack
<1>3. /\ buf[b].cb \in {"stream", "drain"} /\ buf[b].cb # "none"
      /\ buf[b].refcnt = 1 /\ told[b] # "error"
  BY <1>1, <1>2 DEF Good, Buffer
<1>4. PICK n \in 0 .. buf[b].out :
        LET r == [buf[b] EXCEPT !.out = @ - n, !.wr = n < buf[b].out]
        IN IF r.out = 0 /\ r.cb = "drain"
             THEN /\ buf' = [buf EXCEPT ![b] = [r EXCEPT !.refcnt = @ + 1]]
                  /\ told' = Tell(b, "error")
                  /\ stack' = Push("drain", b)
             ELSE /\ buf' = [buf EXCEPT ![b] = r]
                  /\ UNCHANGED <<told, stack>>
  BY DEF Writable
<1> DEFINE m == buf[b].out - n
           w == n < buf[b].out
           q == [buf[b] EXCEPT !.out = m, !.wr = w]
           k == q.refcnt + 1
           r == [q EXCEPT !.refcnt = k]
<1>5. q \in Buffer /\ Good(q, {}, told[b], twice) /\ q.ref = buf[b].ref
      /\ q.cb = buf[b].cb /\ q.refcnt = 1
      /\ LifeOf(q) = LifeOf(buf[b]) /\ LifeOf(q) \in {"open", "lingering"}
  <2>1. m \in 0 .. MaxOut /\ w \in BOOLEAN
    BY <1>2, EvBufferAssumption DEF Buffer
  <2> HIDE DEF m, w
  <2>0. q \in Buffer
    BY <1>1, <1>2, <1>3, <2>1 DEF Buffer
  <2>2. /\ q.refcnt = 1 /\ q.life = "live" /\ q.cb = buf[b].cb /\ q.net = "idle"
        /\ q.closed = buf[b].closed /\ q.known = buf[b].known /\ q.rd = buf[b].rd
        /\ q.ref = buf[b].ref
    BY <1>1, <1>2, <1>3, <2>1 DEF Buffer
  <2> HIDE DEF q
  <2>3. Good(q, {}, told[b], twice)
    BY <1>1, <1>2, <1>3, <2>0, <2>2 DEF Good, Buffer
  <2> QED
    BY <1>1, <1>3, <2>0, <2>2, <2>3 DEF LifeOf
<1>6. CASE q.out = 0 /\ q.cb = "drain"
  <2>1. k = 2 /\ Tell(b, "error") = [told EXCEPT ![b] = "error"]
    BY <1>1, <1>3, <1>5, TellsOwn
  <2>2. Becomes(b, r, "error") /\ stack' = Push("drain", b)
    BY <1>4, <1>6, <2>1 DEF Becomes
  <2>3. r \in Buffer /\ Good(r, {"drain"}, "error", twice) /\ r.ref = buf[b].ref
        /\ r.cb = buf[b].cb /\ LifeOf(r) = LifeOf(q)
    <3> HIDE DEF q, k
    <3>0. r \in Buffer
      BY <1>5, <2>1 DEF Buffer
    <3>1. /\ r.refcnt = k /\ r.life = q.life /\ r.cb = q.cb /\ r.net = q.net
          /\ r.closed = q.closed /\ r.known = q.known /\ r.rd = q.rd /\ r.ref = q.ref
      BY <1>5 DEF Buffer
    <3> HIDE DEF q, r
    <3>2. Good(r, {"drain"}, "error", twice)
      BY <1>5, <1>6, <2>1, <3>0, <3>1, HeldGood
    <3> QED
      BY <1>5, <3>0, <3>1, <3>2 DEF LifeOf
  <2>4. Moves(Life(b), told[b], LifeOf(r), "error")
    BY <1>1, <1>3, <1>5, <2>3, Facts DEF Moves
  <2>5. StackInv' /\ Kinds(b)' = {"drain"} /\ \A c \in Buf \ {b} : Kinds(c)' = Kinds(c)
    BY <1>1, <2>2, CallsBack DEF Kind
  <2>6. RegInv'
    BY <1>1, <1>3, <2>2, <2>3, Facts, RegKeeps DEF Becomes
  <2> QED
    BY <1>1, <2>2, <2>3, <2>4, <2>5, <2>6, Facts, BufferStep DEF Event
<1>7. CASE ~(q.out = 0 /\ q.cb = "drain")
  <2>1. UNCHANGED <<told, stack>> /\ buf' = [buf EXCEPT ![b] = q]
    BY <1>4, <1>7
  <2>2. Becomes(b, q, told[b])
    BY <1>1, <2>1, Facts DEF Becomes
  <2>3. Moves(Life(b), told[b], LifeOf(q), told[b])
    BY <1>1, <1>5, Facts DEF Moves
  <2>4. StackInv' /\ Kinds(b)' = {} /\ \A c \in Buf \ {b} : Kinds(c)' = Kinds(c)
    BY <1>1, <2>1, CallsBack
  <2>5. RegInv'
    BY <1>1, <1>3, <2>1, <1>5, Facts, RegKeeps
  <2> HIDE DEF q
  <2> QED
    BY <1>1, <1>5, <2>2, <2>3, <2>4, <2>5, Facts, BufferStep
<1> QED
  BY <1>6, <1>7

LEMMA ConnectedStep ==
  ASSUME IInv, NEW b \in Buf, Connected(b)
  PROVE IInv' /\ SeenStep
<1> DEFINE n == buf[b].refcnt + 1
           r == [buf[b] EXCEPT !.refcnt = n, !.net = "idle", !.cb = "stream",
                              !.rd = TRUE, !.known = TRUE]
<1>1. /\ ~aborted /\ Polling /\ aborted' = FALSE /\ UNCHANGED <<reg, twice>>
      /\ buf[b].life = "live" /\ buf[b].net = "handshake"
  BY DEF Connected, Polling, IInv, TypeOK
<1>2. Kinds(b) = {} /\ Good(buf[b], {}, told[b], twice) /\ buf[b] \in Buffer
  BY <1>1, Facts, CallsBack
<1>3. /\ buf[b].cb = "connect" /\ buf[b].cb # "none" /\ buf[b].refcnt = 1
      /\ told[b] # "error" /\ ~buf[b].closed
  BY <1>1, <1>2 DEF Good, Buffer
<1>4. n = 2 /\ Tell(b, "connected") = [told EXCEPT ![b] = "connected"]
  BY <1>1, <1>3, TellsOwn
<1>5. Becomes(b, r, "connected") /\ stack' = Push("connected", b)
  <2>1. buf' = [buf EXCEPT ![b] = r]
    BY DEF Connected
  <2> QED
    BY <1>4, <2>1 DEF Connected, Becomes
<1>6. r \in Buffer /\ Good(r, {"connected"}, "connected", twice) /\ r.ref = buf[b].ref
      /\ r.cb = "stream" /\ LifeOf(buf[b]) = "connecting" /\ LifeOf(r) = "open"
  <2> HIDE DEF n
  <2>3. buf[b] \in Buffer /\ n \in -1 .. 2
    BY <1>2, <1>4
  <2>0. r \in Buffer
    BY <2>3 DEF Buffer
  <2>1. /\ r.refcnt = n /\ r.life = buf[b].life /\ r.cb = "stream" /\ r.net = "idle"
        /\ r.closed = buf[b].closed /\ r.known /\ r.rd /\ r.ref = buf[b].ref
    BY <1>2 DEF Buffer
  <2> HIDE DEF r
  <2>2. Good(r, {"connected"}, "connected", twice)
    BY <1>1, <1>3, <1>4, <2>0, <2>1 DEF Good
  <2> QED
    BY <1>1, <1>3, <1>4, <2>0, <2>1, <2>2 DEF LifeOf
<1>7. Moves(Life(b), told[b], LifeOf(r), "connected")
  BY <1>1, <1>6, Facts DEF Moves
<1>8. StackInv' /\ Kinds(b)' = {"connected"} /\ \A c \in Buf \ {b} : Kinds(c)' = Kinds(c)
  BY <1>1, <1>5, CallsBack DEF Kind
<1>9. RegInv'
  BY <1>1, <1>3, <1>5, <1>6, Facts, RegKeeps DEF Becomes
<1> QED
  BY <1>1, <1>5, <1>6, <1>7, <1>8, <1>9, Facts, BufferStep DEF Event

(* References are dropped; a buffer is destroyed.                          *)
LEMMA DropFields ==
  ASSUME NEW x \in Buffer, NEW n \in {1, 2}, x.refcnt - n \in -1 .. 2
  PROVE LET y == Drop(x, n)
        IN /\ y \in Buffer
           /\ y.refcnt = x.refcnt - n
           /\ y.life = IF x.life = "live" /\ x.refcnt <= n THEN "final" ELSE x.life
           /\ y.cb = x.cb /\ y.net = x.net /\ y.rd = x.rd /\ y.ref = x.ref
           /\ y.closed = x.closed /\ y.known = x.known
<1> DEFINE m == x.refcnt - n
           l == IF x.life = "live" /\ x.refcnt <= n THEN "final" ELSE x.life
           y == [x EXCEPT !.refcnt = m, !.life = l]
<1>1. Drop(x, n) = y
  BY DEF Drop
<1>2. m \in -1 .. 2 /\ l \in {"unused", "live", "final"}
  BY DEF Buffer
<1>3. m = x.refcnt - n /\ l = IF x.life = "live" /\ x.refcnt <= n THEN "final" ELSE x.life
  OBVIOUS
<1> HIDE DEF m, l
<1>4. y \in Buffer
  BY <1>2 DEF Buffer
<1>5. /\ y.refcnt = m /\ y.life = l /\ y.cb = x.cb /\ y.net = x.net /\ y.rd = x.rd
      /\ y.ref = x.ref /\ y.closed = x.closed /\ y.known = x.known
  BY DEF Buffer
<1> HIDE DEF y
<1> QED
  BY <1>1, <1>3, <1>4, <1>5

LEMMA DestroyedFields ==
  ASSUME NEW x \in Buffer, NEW n \in {0, 1}, x.refcnt - (n + 1) \in -1 .. 2
  PROVE LET y == Destroyed(x, n)
        IN /\ y \in Buffer
           /\ y.refcnt = x.refcnt - (n + 1)
           /\ y.life = IF x.life = "live" /\ x.refcnt <= n + 1 THEN "final" ELSE x.life
           /\ y.cb = "none" /\ y.net = x.net /\ y.rd = x.rd /\ y.ref = x.ref
           /\ y.closed = TRUE /\ y.known = x.known
<1> DEFINE z == [x EXCEPT !.closed = TRUE, !.cb = "none"]
           k == n + 1
<1>1. k \in {1, 2} /\ x.refcnt - k \in -1 .. 2
  OBVIOUS
<1>2. z \in Buffer
  BY DEF Buffer
<1>3. /\ z.refcnt = x.refcnt /\ z.life = x.life /\ z.cb = "none" /\ z.net = x.net
      /\ z.rd = x.rd /\ z.ref = x.ref /\ z.closed = TRUE /\ z.known = x.known
  BY DEF Buffer
<1>4. Destroyed(x, n) = Drop(z, k)
  BY DEF Destroyed
<1> HIDE DEF z, k
<1>5. z.refcnt - k \in -1 .. 2
  BY <1>1, <1>3
<1>6. /\ Drop(z, k) \in Buffer
      /\ Drop(z, k).refcnt = z.refcnt - k
      /\ Drop(z, k).life = IF z.life = "live" /\ z.refcnt <= k THEN "final" ELSE z.life
      /\ Drop(z, k).cb = z.cb /\ Drop(z, k).net = z.net /\ Drop(z, k).rd = z.rd
      /\ Drop(z, k).ref = z.ref /\ Drop(z, k).closed = z.closed /\ Drop(z, k).known = z.known
  BY <1>1, <1>2, <1>5, DropFields
<1> QED
  BY <1>3, <1>4, <1>6 DEF k

(* A destroyed buffer, while a callback of it is in progress or not.       *)
LEMMA DestroyedGood ==
  ASSUME NEW y \in Buffer, y.cb = "none", y.closed = TRUE, y.net = "idle",
         y.life # "unused", y.life = "live" <=> y.refcnt > 0,
         NEW K, y.refcnt = IF K # {} THEN 1 ELSE 0, NEW t, NEW tw,
         "drain" \notin K, "error" \in K => tw # {}
  PROVE Good(y, K, t, tw)
BY DEF Good

LEMMA ConnectFailsStep ==
  ASSUME IInv, NEW b \in Buf, ConnectFails(b)
  PROVE IInv' /\ SeenStep
<1> DEFINE x == [buf[b] EXCEPT !.net = "idle", !.wr = FALSE]
           n == x.refcnt + 1
           h == IF buf[b].net = "refused" THEN x ELSE [x EXCEPT !.refcnt = n]
           r == Destroyed(h, 0)
<1>1. /\ ~aborted /\ Polling /\ aborted' = FALSE /\ UNCHANGED twice
      /\ buf[b].life = "live" /\ buf[b].net \in {"handshake", "refused"}
      /\ reg' = Give(reg, buf[b].ref)
  BY DEF ConnectFails, Polling, IInv, TypeOK
<1>2. Kinds(b) = {} /\ Good(buf[b], {}, told[b], twice) /\ buf[b] \in Buffer
  BY <1>1, Facts, CallsBack
<1>3. /\ buf[b].cb = "connect" /\ buf[b].cb # "none"
      /\ buf[b].refcnt = IF buf[b].net = "refused" THEN 2 ELSE 1
  BY <1>1, <1>2 DEF Good, Buffer
<1>4. /\ buf' = [buf EXCEPT ![b] = r]
      /\ told' = [told EXCEPT ![b] = "refused"] /\ stack' = Push("refused", b)
  BY DEF ConnectFails
<1>5. x \in Buffer /\ x.net = "idle" /\ x.life = "live" /\ x.refcnt = buf[b].refcnt
  <2>1. x \in Buffer
    BY <1>2 DEF Buffer
  <2>2. x.net = "idle" /\ x.life = buf[b].life /\ x.refcnt = buf[b].refcnt
    BY <1>2 DEF Buffer
  <2> QED
    BY <1>1, <2>1, <2>2
<1>6. h \in Buffer /\ h.refcnt = 2 /\ h.life = "live" /\ h.net = "idle"
  <2>1. CASE buf[b].net = "refused"
    BY <1>3, <1>5, <2>1
  <2>2. CASE buf[b].net # "refused"
    <3>1. n = 2
      BY <1>3, <1>5, <2>2
    <3> HIDE DEF x, n
    <3>2. [x EXCEPT !.refcnt = n] \in Buffer
      BY <1>5, <3>1 DEF Buffer
    <3>3. /\ [x EXCEPT !.refcnt = n].refcnt = n /\ [x EXCEPT !.refcnt = n].life = x.life
          /\ [x EXCEPT !.refcnt = n].net = x.net
      BY <1>5 DEF Buffer
    <3> QED
      BY <1>5, <2>2, <3>1, <3>2, <3>3
  <2> QED
    BY <2>1, <2>2
<1> HIDE DEF h
<1>7. /\ r \in Buffer /\ r.refcnt = 1 /\ r.life = "live" /\ r.cb = "none" /\ r.net = "idle"
      /\ r.closed = TRUE
  <2>1. h.refcnt - (0 + 1) \in -1 .. 2
    BY <1>6
  <2>2. /\ r \in Buffer /\ r.refcnt = h.refcnt - (0 + 1)
        /\ r.life = IF h.life = "live" /\ h.refcnt <= 0 + 1 THEN "final" ELSE h.life
        /\ r.cb = "none" /\ r.net = h.net /\ r.closed = TRUE
    BY <1>6, <2>1, DestroyedFields
  <2> QED
    BY <1>6, <2>2
<1> HIDE DEF r
<1>8. Good(r, {"refused"}, "refused", twice)
  <2>1. /\ r.refcnt = IF {"refused"} # {} THEN 1 ELSE 0
        /\ r.life # "unused" /\ (r.life = "live" <=> r.refcnt > 0)
        /\ "drain" \notin {"refused"} /\ "error" \notin {"refused"}
    BY <1>7
  <2> QED
    BY <1>7, <2>1, DestroyedGood
<1>9. Moves(Life(b), told[b], LifeOf(r), "refused")
  <2>1. Life(b) = "connecting" /\ LifeOf(r) = "gone"
    BY <1>1, <1>3, <1>7, Facts DEF LifeOf
  <2> QED
    BY <2>1 DEF Moves
<1>10. StackInv' /\ Kinds(b)' = {"refused"} /\ \A c \in Buf \ {b} : Kinds(c)' = Kinds(c)
  BY <1>1, <1>4, CallsBack DEF Kind
<1>11. RegInv'
  BY <1>1, <1>3, <1>4, <1>7, Facts, GiveKeeps
<1>12. Becomes(b, r, "refused")
  BY <1>4 DEF Becomes
<1> QED
  BY <1>1, <1>7, <1>8, <1>9, <1>10, <1>11, <1>12, Facts, BufferStep DEF Event

(* An identity that is not in use, when a connection takes it.             *)
LEMMA Fresh ==
  ASSUME IInv, ~aborted, NEW b \in Buf, buf[b].life = "unused"
  PROVE /\ buf[b] = Unused /\ Kinds(b) = {} /\ told[b] = "nothing"
        /\ buf[b].cb = "none" /\ Life(b) = "unused"
<1>1. buf[b] = Unused /\ Kinds(b) = {} /\ told[b] = "nothing"
  BY Facts DEF Good
<1>2. buf[b].cb = "none"
  BY <1>1 DEF Unused
<1> QED
  BY <1>1, <1>2 DEF Life

LEMMA UnusedFields ==
  /\ Unused \in Buffer
  /\ Unused.cb = "none" /\ Unused.net = "idle" /\ Unused.rd = FALSE /\ Unused.closed = FALSE
  /\ Unused.known = FALSE /\ Unused.refcnt = 0
BY EvBufferAssumption DEF Unused, Buffer

LEMMA NewStreamFields ==
  ASSUME NextRef(reg) \in Nat
  PROVE /\ NewStream \in Buffer /\ NewStream.cb = "stream" /\ NewStream.ref = NextRef(reg)
        /\ LifeOf(NewStream) = "open"
        /\ Good(NewStream, {}, "nothing", twice)
<1> DEFINE u == Unused
           n == NextRef(reg)
           k == 1
           r == [u EXCEPT !.life = "live", !.refcnt = k, !.cb = "stream", !.rd = TRUE,
                          !.known = TRUE, !.ref = n]
<1>1. u \in Buffer /\ u.net = "idle" /\ u.closed = FALSE /\ n \in Nat /\ k \in -1 .. 2 /\ k = 1
  BY UnusedFields
<1>2. NewStream = r
  BY DEF NewStream
<1> HIDE DEF u, n, k
<1>3. r \in Buffer
  BY <1>1 DEF Buffer
<1>4. /\ r.life = "live" /\ r.refcnt = k /\ r.cb = "stream" /\ r.net = u.net
      /\ r.closed = u.closed /\ r.ref = n
  BY <1>1 DEF Buffer
<1> HIDE DEF r
<1>5. LifeOf(r) = "open" /\ Good(r, {}, "nothing", twice)
  BY <1>1, <1>3, <1>4 DEF LifeOf, Good
<1> QED
  BY <1>2, <1>3, <1>4, <1>5 DEF n

(* The stack and the events stay, or a callback that is about no buffer    *)
(* begins.                                                                 *)
LEMMA StreamOpens ==
  ASSUME IInv, ~aborted, aborted' = FALSE, NEW b \in Buf, buf[b].life = "unused",
         buf' = [buf EXCEPT ![b] = NewStream], reg' = Take(reg, b),
         UNCHANGED <<told, twice>>,
         StackInv', \A c \in Buf : Kinds(c)' = Kinds(c)
  PROVE IInv' /\ SeenStep
<1>1. /\ RegInv /\ buf \in [Buf -> Buffer] /\ told \in [Buf -> Event]
      /\ Kinds(b)' = {} /\ told[b] = "nothing" /\ buf[b].cb = "none" /\ Life(b) = "unused"
  BY Facts, Fresh
<1>2. NextRef(reg) \in Nat
  BY TakeSound, EvBufferAssumption, <1>1 DEF RegInv
<1>3. /\ NewStream \in Buffer /\ NewStream.cb = "stream" /\ NewStream.ref = NextRef(reg)
      /\ LifeOf(NewStream) = "open" /\ Good(NewStream, {}, "nothing", twice)
  BY <1>2, NewStreamFields
<1>4. RegInv'
  BY <1>1, <1>3, TakeKeeps
<1>5. Becomes(b, NewStream, "nothing")
  BY <1>1 DEF Becomes
<1>6. Moves(Life(b), told[b], LifeOf(NewStream), "nothing")
  BY <1>1, <1>3 DEF Moves
<1>7. twice \subseteq twice' /\ twice' \subseteq {"closed in EV_ERROR", "connect failed at once"}
  BY Facts
<1> QED
  BY <1>1, <1>3, <1>4, <1>5, <1>6, <1>7, BufferStep DEF Event

LEMMA AcceptStep ==
  ASSUME IInv, NEW b \in Buf, Accept(b)
  PROVE IInv' /\ SeenStep
<1>1. /\ ~aborted /\ Polling /\ aborted' = FALSE /\ buf[b].life = "unused"
      /\ buf' = [buf EXCEPT ![b] = NewStream] /\ reg' = Take(reg, b)
      /\ UNCHANGED <<told, twice>> /\ stack' = Push("other", Nobody)
  BY DEF Accept, Polling, IInv, TypeOK
<1>2. StackInv' /\ \A c \in Buf : Kinds(c)' = Kinds(c)
  BY <1>1, CallsBack
<1> QED
  BY <1>1, <1>2, StreamOpens

LEMMA BindStep ==
  ASSUME IInv, NEW b \in Buf, Bind(b)
  PROVE IInv' /\ SeenStep
<1>1. /\ ~aborted /\ UserCode /\ aborted' = FALSE /\ buf[b].life = "unused"
      /\ buf' = [buf EXCEPT ![b] = NewStream] /\ reg' = Take(reg, b)
      /\ UNCHANGED <<told, twice, stack>>
  BY DEF Bind, UserCode, IInv, TypeOK
<1>2. StackInv' /\ \A c \in Buf : Kinds(c)' = Kinds(c)
  BY <1>1, StaysIn
<1> QED
  BY <1>1, <1>2, StreamOpens

LEMMA NewConnectFields ==
  ASSUME NextRef(reg) \in Nat, NEW net \in {"idle", "handshake", "refused"}
  PROVE LET x == NewConnect(net)
        IN /\ x \in Buffer /\ x.life = "live" /\ x.cb = "connect" /\ x.net = net
           /\ x.refcnt = (IF net = "refused" THEN 2 ELSE 1)
           /\ x.rd = FALSE /\ x.closed = FALSE /\ x.known = FALSE /\ x.ref = NextRef(reg)
<1> DEFINE u == Unused
           n == NextRef(reg)
           k == IF net = "refused" THEN 2 ELSE 1
           w == net = "handshake"
           r == [u EXCEPT !.life = "live", !.refcnt = k, !.cb = "connect", !.net = net,
                          !.wr = w, !.ref = n]
<1>1. /\ u \in Buffer /\ u.rd = FALSE /\ u.closed = FALSE /\ u.known = FALSE
      /\ n \in Nat /\ k \in -1 .. 2 /\ w \in BOOLEAN
  BY UnusedFields
<1>2. NewConnect(net) = r
  BY DEF NewConnect
<1> HIDE DEF u, n, k, w
<1>3. r \in Buffer
  BY <1>1 DEF Buffer
<1>4. /\ r.life = "live" /\ r.refcnt = k /\ r.cb = "connect" /\ r.net = net
      /\ r.rd = u.rd /\ r.closed = u.closed /\ r.known = u.known /\ r.ref = n
  BY <1>1 DEF Buffer
<1> HIDE DEF r
<1> QED
  BY <1>1, <1>2, <1>3, <1>4 DEF k, n

LEMMA ConnectStep ==
  ASSUME IInv, NEW b \in Buf, Connect(b)
  PROVE IInv' /\ SeenStep
<1>1. /\ ~aborted /\ UserCode /\ aborted' = FALSE /\ buf[b].life = "unused"
      /\ UNCHANGED <<told, twice, stack>>
  BY DEF Connect, UserCode, IInv, TypeOK
<1>2. /\ RegInv /\ buf \in [Buf -> Buffer] /\ told \in [Buf -> Event]
      /\ Kinds(b) = {} /\ told[b] = "nothing" /\ buf[b].cb = "none" /\ Life(b) = "unused"
  BY <1>1, Facts, Fresh
<1>3. StackInv' /\ \A c \in Buf : Kinds(c)' = Kinds(c)
  BY <1>1, StaysIn
<1>4. NextRef(reg) \in Nat
  BY TakeSound, EvBufferAssumption, <1>2 DEF RegInv
<1>5. twice \subseteq twice' /\ twice' \subseteq {"closed in EV_ERROR", "connect failed at once"}
  BY <1>1, Facts
<1>6. ASSUME NEW net \in {"handshake", "refused"}, reg' = Take(reg, b),
             buf' = [buf EXCEPT ![b] = NewConnect(net)]
      PROVE IInv' /\ SeenStep
  <2> DEFINE r == NewConnect(net)
  <2>1. /\ r \in Buffer /\ r.life = "live" /\ r.cb = "connect" /\ r.net = net
        /\ r.refcnt = (IF net = "refused" THEN 2 ELSE 1)
        /\ r.rd = FALSE /\ r.closed = FALSE /\ r.known = FALSE /\ r.ref = NextRef(reg)
    BY <1>4, NewConnectFields
  <2>2. buf' = [buf EXCEPT ![b] = r]
    BY <1>6
  <2> HIDE DEF r
  <2>3. RegInv'
    BY <1>2, <1>6, <2>1, <2>2, TakeKeeps
  <2>4. Good(r, {}, "nothing", twice')
    BY <2>1 DEF Good
  <2>5. Becomes(b, r, "nothing")
    BY <1>1, <1>2, <2>2 DEF Becomes
  <2>6. Moves(Life(b), told[b], LifeOf(r), "nothing")
    BY <1>2, <2>1 DEF Moves, LifeOf
  <2>7. Kinds(b)' = {}
    BY <1>2, <1>3
  <2> QED
    BY <1>1, <1>3, <1>5, <2>1, <2>3, <2>4, <2>5, <2>6, <2>7, BufferStep DEF Event
<1>7. ASSUME buf' = [buf EXCEPT ![b] = Destroyed(NewConnect("idle"), 0)],
             reg' = Give(Take(reg, b), NextRef(reg))
      PROVE IInv' /\ SeenStep
  <2> DEFINE x == NewConnect("idle")
             r == Destroyed(x, 0)
  <2>1. x \in Buffer /\ x.life = "live" /\ x.net = "idle" /\ x.refcnt = 1
    BY <1>4, NewConnectFields
  <2>2. buf' = [buf EXCEPT ![b] = r]
    BY <1>7
  <2> HIDE DEF x
  <2>3. /\ r \in Buffer /\ r.refcnt = 0 /\ r.life = "final" /\ r.cb = "none" /\ r.net = "idle"
        /\ r.closed = TRUE
    <3>1. x.refcnt - (0 + 1) \in -1 .. 2
      BY <2>1
    <3>2. /\ r \in Buffer /\ r.refcnt = x.refcnt - (0 + 1)
          /\ r.life = IF x.life = "live" /\ x.refcnt <= 0 + 1 THEN "final" ELSE x.life
          /\ r.cb = "none" /\ r.net = x.net /\ r.closed = TRUE
      BY <2>1, <3>1, DestroyedFields
    <3> QED
      BY <2>1, <3>2
  <2> HIDE DEF r
  <2>4. RegInv'
    BY <1>2, <1>7, <2>2, <2>3, TakeGiveKeeps
  <2>5. Good(r, {}, "nothing", twice')
    BY <2>3 DEF Good
  <2>6. Becomes(b, r, "nothing")
    BY <1>1, <1>2, <2>2 DEF Becomes
  <2>7. Moves(Life(b), told[b], LifeOf(r), "nothing")
    BY <1>2, <2>3 DEF Moves, LifeOf
  <2>8. Kinds(b)' = {}
    BY <1>2, <1>3
  <2> QED
    BY <1>1, <1>3, <1>5, <2>3, <2>4, <2>5, <2>6, <2>7, <2>8, BufferStep DEF Event
<1> QED
  BY <1>6, <1>7 DEF Connect

LEMMA ConnectFailsAtOnceStep ==
  ASSUME IInv, NEW b \in Buf, ConnectFailsAtOnce(b)
  PROVE IInv' /\ SeenStep
<1> DEFINE x == NewConnect("idle")
           z == [x EXCEPT !.refcnt = 2]
           r == Destroyed(z, 0)
<1>1. /\ ~aborted /\ UserCode /\ aborted' = FALSE /\ buf[b].life = "unused"
      /\ reg' = Give(Take(reg, b), NextRef(reg))
      /\ told' = [told EXCEPT ![b] = "refused"] /\ stack' = Push("failed", b)
      /\ twice' = twice
  BY DEF ConnectFailsAtOnce, UserCode, IInv, TypeOK
<1>2. /\ RegInv /\ buf \in [Buf -> Buffer] /\ told \in [Buf -> Event]
      /\ Kinds(b) = {} /\ told[b] = "nothing" /\ buf[b].cb = "none" /\ Life(b) = "unused"
      /\ StackInv /\ b # Nobody
  BY <1>1, Facts, Fresh
<1>3. StackInv' /\ Kinds(b)' = {"failed"} /\ \A c \in Buf \ {b} : Kinds(c)' = Kinds(c)
  BY <1>1, <1>2, PushKeeps DEF Kind
<1>4. NextRef(reg) \in Nat
  BY TakeSound, EvBufferAssumption, <1>2 DEF RegInv
<1>5. twice \subseteq twice' /\ twice' \subseteq {"closed in EV_ERROR", "connect failed at once"}
  BY <1>1, Facts
<1>6. x \in Buffer /\ x.life = "live" /\ x.net = "idle"
  BY <1>4, NewConnectFields
<1>7. buf' = [buf EXCEPT ![b] = r]
  BY DEF ConnectFailsAtOnce
<1> HIDE DEF x
<1>8. z \in Buffer /\ z.life = "live" /\ z.net = "idle" /\ z.refcnt = 2
  <2>1. z \in Buffer
    BY <1>6 DEF Buffer
  <2>2. z.life = x.life /\ z.net = x.net /\ z.refcnt = 2
    BY <1>6 DEF Buffer
  <2> QED
    BY <1>6, <2>1, <2>2
<1> HIDE DEF z
<1>9. /\ r \in Buffer /\ r.refcnt = 1 /\ r.life = "live" /\ r.cb = "none" /\ r.net = "idle"
      /\ r.closed = TRUE
  <2>1. z.refcnt - (0 + 1) \in -1 .. 2
    BY <1>8
  <2>2. /\ r \in Buffer /\ r.refcnt = z.refcnt - (0 + 1)
        /\ r.life = IF z.life = "live" /\ z.refcnt <= 0 + 1 THEN "final" ELSE z.life
        /\ r.cb = "none" /\ r.net = z.net /\ r.closed = TRUE
    BY <1>8, <2>1, DestroyedFields
  <2> QED
    BY <1>8, <2>2
<1> HIDE DEF r
<1>10. RegInv'
  BY <1>1, <1>2, <1>7, <1>9, TakeGiveKeeps
<1>11. Good(r, {"failed"}, "refused", twice')
  <2>1. /\ r.refcnt = IF {"failed"} # {} THEN 1 ELSE 0
        /\ r.life # "unused" /\ (r.life = "live" <=> r.refcnt > 0)
        /\ "drain" \notin {"failed"} /\ "error" \notin {"failed"}
    BY <1>9
  <2> QED
    BY <1>9, <2>1, DestroyedGood
<1>12. Becomes(b, r, "refused")
  BY <1>1, <1>7 DEF Becomes
<1>13. Moves(Life(b), told[b], LifeOf(r), "refused")
  BY <1>2, <1>9 DEF Moves, LifeOf
<1> QED
  BY <1>1, <1>3, <1>5, <1>9, <1>10, <1>11, <1>12, <1>13, BufferStep DEF Event

-----------------------------------------------------------------------------
(* What user code calls. A buffer it knows and has not closed is open.     *)
LEMMA KnownOpen ==
  ASSUME IInv, UserCode, NEW b \in Buf, buf[b].known, ~buf[b].closed
  PROVE /\ buf[b].cb = "stream" /\ buf[b].net = "idle" /\ buf[b].life = "live"
        /\ buf[b].refcnt = 1 + (IF Kinds(b) # {} THEN 1 ELSE 0)
        /\ buf[b].closed = FALSE
        /\ Life(b) = "open" /\ "drain" \notin Kinds(b)
<1>1. Good(buf[b], Kinds(b), told[b], twice) /\ buf[b] \in Buffer /\ Life(b) = LifeOf(buf[b])
  BY Facts DEF UserCode
<1>2. buf[b].cb = "stream" /\ buf[b].net = "idle"
  BY <1>1 DEF Good, Buffer
<1>3. buf[b].refcnt = 1 + (IF Kinds(b) # {} THEN 1 ELSE 0)
  BY <1>1, <1>2 DEF Good
<1>4. buf[b].life = "live" /\ buf[b].closed = FALSE
  BY <1>1, <1>3 DEF Good, Buffer
<1>5. "drain" \notin Kinds(b)
  BY <1>1, <1>2 DEF Good
<1>6. Life(b) = "open"
  BY <1>1, <1>2, <1>4 DEF LifeOf
<1> QED
  BY <1>2, <1>3, <1>4, <1>5, <1>6

LEMMA WriteStep ==
  ASSUME IInv, NEW b \in Buf, Write(b)
  PROVE IInv' /\ SeenStep
<1> DEFINE n == buf[b].out + 1
           r == [buf[b] EXCEPT !.out = n, !.wr = TRUE]
<1>1. /\ ~aborted /\ UserCode /\ aborted' = FALSE /\ UNCHANGED <<reg, stack, told, twice>>
      /\ buf[b].known /\ ~buf[b].closed /\ buf[b].out < MaxOut
  BY DEF Write, UserCode, IInv, TypeOK
<1>2. /\ buf[b].cb = "stream" /\ buf[b].net = "idle" /\ buf[b].life = "live"
      /\ Life(b) = "open" /\ buf[b].closed = FALSE
  BY <1>1, KnownOpen
<1>3. /\ buf[b] \in Buffer /\ Good(buf[b], Kinds(b), told[b], twice)
      /\ RegInv /\ buf \in [Buf -> Buffer] /\ told \in [Buf -> Event]
      /\ twice \subseteq {"closed in EV_ERROR", "connect failed at once"}
  BY <1>1, Facts
<1>4. buf' = [buf EXCEPT ![b] = r]
  BY DEF Write
<1>5. n \in 0 .. MaxOut
  <2>1. buf[b].out \in 0 .. MaxOut
    BY <1>3 DEF Buffer
  <2> QED
    BY <1>1, <2>1, EvBufferAssumption
<1> HIDE DEF n
<1>6. r \in Buffer
  BY <1>3, <1>5 DEF Buffer
<1>7. /\ r.refcnt = buf[b].refcnt /\ r.life = buf[b].life /\ r.cb = buf[b].cb
      /\ r.net = buf[b].net /\ r.closed = buf[b].closed /\ r.known = buf[b].known
      /\ r.rd = buf[b].rd /\ r.ref = buf[b].ref
  BY <1>3 DEF Buffer
<1> HIDE DEF r
<1>8. Good(r, Kinds(b), told[b], twice)
  BY <1>2, <1>3, <1>7 DEF Good
<1>9. Becomes(b, r, told[b])
  BY <1>1, <1>3, <1>4 DEF Becomes
<1>10. Moves(Life(b), told[b], LifeOf(r), told[b])
  BY <1>2, <1>7 DEF Moves, LifeOf
<1>11. StackInv' /\ Kinds(b)' = Kinds(b) /\ \A c \in Buf \ {b} : Kinds(c)' = Kinds(c)
  BY <1>1, StaysIn
<1>12. RegInv'
  BY <1>1, <1>2, <1>3, <1>4, <1>7, RegKeeps
<1> QED
  BY <1>1, <1>3, <1>6, <1>8, <1>9, <1>10, <1>11, <1>12, BufferStep

LEMMA CloseStep ==
  ASSUME IInv, NEW b \in Buf, Close(b)
  PROVE IInv' /\ SeenStep
<1> DEFINE r == [buf[b] EXCEPT !.closed = TRUE, !.cb = "drain", !.wr = TRUE, !.rd = FALSE]
<1>1. /\ ~aborted /\ UserCode /\ aborted' = FALSE /\ UNCHANGED <<reg, stack, told, twice>>
      /\ buf[b].known /\ ~buf[b].closed
  BY DEF Close, UserCode, IInv, TypeOK
<1>2. /\ buf[b].cb = "stream" /\ buf[b].net = "idle" /\ buf[b].life = "live"
      /\ Life(b) = "open" /\ buf[b].closed = FALSE
  BY <1>1, KnownOpen
<1>3. /\ buf[b] \in Buffer /\ Good(buf[b], Kinds(b), told[b], twice)
      /\ RegInv /\ buf \in [Buf -> Buffer] /\ told \in [Buf -> Event]
      /\ twice \subseteq {"closed in EV_ERROR", "connect failed at once"}
  BY <1>1, Facts
<1>4. buf' = [buf EXCEPT ![b] = r]
  BY DEF Close
<1>6. r \in Buffer
  BY <1>3 DEF Buffer
<1>7. /\ r.refcnt = buf[b].refcnt /\ r.life = buf[b].life /\ r.cb = "drain"
      /\ r.net = buf[b].net /\ r.closed = TRUE /\ r.known = buf[b].known
      /\ r.rd = FALSE /\ r.ref = buf[b].ref
  BY <1>3 DEF Buffer
<1> HIDE DEF r
<1>8. Good(r, Kinds(b), told[b], twice)
  BY <1>2, <1>3, <1>7 DEF Good
<1>9. Becomes(b, r, told[b])
  BY <1>1, <1>3, <1>4 DEF Becomes
<1>10. Moves(Life(b), told[b], LifeOf(r), told[b])
  BY <1>2, <1>7 DEF Moves, LifeOf
<1>11. StackInv' /\ Kinds(b)' = Kinds(b) /\ \A c \in Buf \ {b} : Kinds(c)' = Kinds(c)
  BY <1>1, StaysIn
<1>12. RegInv'
  BY <1>1, <1>2, <1>3, <1>4, <1>7, RegKeeps
<1> QED
  BY <1>1, <1>3, <1>6, <1>8, <1>9, <1>10, <1>11, <1>12, BufferStep

(* In the EV_ERROR handler, the history tells that the buffer will be      *)
(* destroyed a second time.                                                *)
LEMMA CloseNowStep ==
  ASSUME IInv, NEW b \in Buf, CloseNow(b)
  PROVE IInv' /\ SeenStep
<1> DEFINE x == buf[b]
           r == Destroyed(x, 0)
<1>1. /\ ~aborted /\ UserCode /\ UNCHANGED <<stack, told>>
      /\ buf[b].known /\ ~buf[b].closed /\ reg' = Give(reg, buf[b].ref)
      /\ aborted' = Asserts(buf[b], 1)
  BY DEF CloseNow, UserCode
<1>2. /\ x.cb = "stream" /\ x.net = "idle" /\ x.life = "live"
      /\ Life(b) = "open" /\ x.refcnt = 1 + (IF Kinds(b) # {} THEN 1 ELSE 0)
      /\ "drain" \notin Kinds(b)
  BY <1>1, KnownOpen
<1>3. /\ x \in Buffer
      /\ RegInv /\ buf \in [Buf -> Buffer] /\ told \in [Buf -> Event] /\ told[b] \in Event
      /\ twice \subseteq {"closed in EV_ERROR", "connect failed at once"}
  BY <1>1, Facts
<1>4. buf' = [buf EXCEPT ![b] = r]
  BY DEF CloseNow
<1>5. aborted' = FALSE
  <2>1. Asserts(x, 1) = FALSE
    BY <1>2 DEF Asserts
  <2> QED
    BY <1>1, <2>1
<1>6. twice \subseteq twice' /\ twice' \subseteq {"closed in EV_ERROR", "connect failed at once"}
      /\ ("error" \in Kinds(b) => twice' # {})
  <2>1. "error" \in Kinds(b) => InCallback("error", b)
    <3> SUFFICES ASSUME NEW i \in DOMAIN stack, stack[i].b = b, stack[i].kind = "error"
                 PROVE stack[i] = [kind |-> "error", b |-> b]
      BY DEF Kinds, InCallback
    <3>1. StackInv
      BY <1>1, Facts
    <3>2. stack[i] \in Frame
      BY <3>1 DEF StackInv
    <3> QED
      BY <3>2 DEF Frame
  <2> QED
    BY <1>3, <2>1 DEF CloseNow
<1> DEFINE K == Kinds(b)
<1> HIDE DEF x, K
<1>7. /\ r \in Buffer /\ r.refcnt = (IF K # {} THEN 1 ELSE 0) /\ r.life # "unused"
      /\ (r.life = "live" <=> r.refcnt > 0) /\ r.cb = "none" /\ r.net = "idle" /\ r.closed = TRUE
  <2>1. x.refcnt - (0 + 1) \in -1 .. 2 /\ x.refcnt = 1 + (IF K # {} THEN 1 ELSE 0)
    BY <1>2 DEF K
  <2>2. /\ r \in Buffer /\ r.refcnt = x.refcnt - (0 + 1)
        /\ r.life = IF x.life = "live" /\ x.refcnt <= 0 + 1 THEN "final" ELSE x.life
        /\ r.cb = "none" /\ r.net = x.net /\ r.closed = TRUE
    BY <1>3, <2>1, DestroyedFields
  <2> QED
    BY <1>2, <2>1, <2>2
<1> HIDE DEF r
<1>8. Good(r, K, told[b], twice')
  <2>1. "drain" \notin K /\ ("error" \in K => twice' # {})
    BY <1>2, <1>6 DEF K
  <2> QED
    BY <1>7, <2>1, DestroyedGood
<1>9. Becomes(b, r, told[b])
  BY <1>1, <1>3, <1>4 DEF Becomes
<1>10. Moves(Life(b), told[b], LifeOf(r), told[b])
  BY <1>2, <1>7 DEF Moves, LifeOf
<1>11. StackInv' /\ Kinds(b)' = K /\ \A c \in Buf \ {b} : Kinds(c)' = Kinds(c)
  BY <1>1, StaysIn DEF K
<1>12. RegInv'
  BY <1>1, <1>2, <1>3, <1>4, <1>7, GiveKeeps DEF x
<1> QED
  BY <1>1, <1>3, <1>5, <1>6, <1>7, <1>8, <1>9, <1>10, <1>11, <1>12, BufferStep

-----------------------------------------------------------------------------
(* Callbacks return. While one is in progress its buffer is live.          *)
LEMMA Returning ==
  ASSUME IInv, NEW b \in Buf, NEW k \in Kind \ {"other"}, Returns(k, b)
  PROVE LET x == buf[b]
        IN /\ ~aborted /\ Good(x, {k}, told[b], twice)
           /\ x.refcnt = (IF x.cb # "none" THEN 2 ELSE 1)
           /\ x.life = "live" /\ x.net = "idle" /\ x.cb # "connect"
           /\ Life(b) = IF x.cb = "none" THEN "gone"
                        ELSE IF x.closed THEN "lingering" ELSE "open"
<1> DEFINE x == buf[b]
<1>1. ~aborted /\ Kinds(b) = {k}
  BY ComesBack DEF Returns, UserCode
<1>2. Good(x, {k}, told[b], twice) /\ x \in Buffer /\ Life(b) = LifeOf(x)
  BY <1>1, Facts
<1> HIDE DEF x
<1>3. x.cb # "connect" /\ x.net = "idle"
  BY <1>2 DEF Good, Buffer
<1>4. x.refcnt = (IF x.cb # "none" THEN 2 ELSE 1)
  BY <1>2, <1>3 DEF Good
<1>5. x.life = "live"
  BY <1>2, <1>4 DEF Good
<1>6. LifeOf(x) = IF x.cb = "none" THEN "gone"
                  ELSE IF x.closed THEN "lingering" ELSE "open"
  BY <1>3, <1>5 DEF LifeOf
<1> QED
  BY <1>1, <1>2, <1>3, <1>4, <1>5, <1>6 DEF x

(* A callback other than of an event that ends the connection lets go.     *)
LEMMA LetGo ==
  ASSUME NEW x \in Buffer, NEW k \in {"data", "refused", "connected"}, NEW t, NEW tw,
         Good(x, {k}, t, tw), x.life = "live", x.net = "idle",
         x.refcnt = (IF x.cb # "none" THEN 2 ELSE 1)
  PROVE LET r == Drop(x, 1)
        IN /\ r \in Buffer /\ Asserts(x, 1) = FALSE /\ r.ref = x.ref
           /\ r.cb = x.cb /\ LifeOf(r) = LifeOf(x)
           /\ Good(r, {}, t, tw)
<1> DEFINE r == Drop(x, 1)
<1>1. Asserts(x, 1) = FALSE
  BY DEF Asserts
<1>2. /\ r \in Buffer
      /\ r.refcnt = x.refcnt - 1
      /\ r.life = IF x.life = "live" /\ x.refcnt <= 1 THEN "final" ELSE x.life
      /\ r.cb = x.cb /\ r.net = x.net /\ r.rd = x.rd /\ r.ref = x.ref
      /\ r.closed = x.closed /\ r.known = x.known
  <2>1. x.refcnt - 1 \in -1 .. 2
    OBVIOUS
  <2> QED
    BY <2>1, DropFields
<1> HIDE DEF r
<1>3. r.refcnt = (IF r.cb # "none" THEN 1 ELSE 0) /\ r.life # "unused"
      /\ (r.life = "live" <=> r.refcnt > 0)
  BY <1>2
<1>4. Good(r, {}, t, tw)
  BY <1>2, <1>3 DEF Good
<1>5. LifeOf(r) = LifeOf(x)
  BY <1>2, <1>3 DEF LifeOf
<1> QED
  BY <1>1, <1>2, <1>4, <1>5 DEF r

LEMMA DataReturnsStep ==
  ASSUME IInv, NEW b \in Buf, DataReturns(b)
  PROVE IInv' /\ SeenStep
<1> DEFINE x == buf[b]
           r == Drop(x, 1)
<1>1. PICK k \in {"data", "refused"} : Returns(k, b)
  BY DEF DataReturns
<1>2. /\ ~aborted /\ Good(x, {k}, told[b], twice)
      /\ x.refcnt = (IF x.cb # "none" THEN 2 ELSE 1)
      /\ x.life = "live" /\ x.net = "idle" /\ x.cb # "connect"
  BY <1>1, Returning DEF Kind
<1>3. /\ x \in Buffer
      /\ RegInv /\ buf \in [Buf -> Buffer] /\ told \in [Buf -> Event] /\ told[b] \in Event
      /\ twice \subseteq {"closed in EV_ERROR", "connect failed at once"}
      /\ Life(b) = LifeOf(x)
  BY <1>2, Facts
<1>4. buf' = [buf EXCEPT ![b] = r] /\ aborted' = Asserts(x, 1)
      /\ stack' = Pop /\ UNCHANGED <<reg, told, twice>>
  BY DEF DataReturns
<1>5. /\ r \in Buffer /\ Asserts(x, 1) = FALSE /\ r.ref = x.ref /\ r.cb = x.cb
      /\ LifeOf(r) = LifeOf(x) /\ Good(r, {}, told[b], twice)
  BY <1>2, <1>3, LetGo
<1>6. StackInv' /\ Kinds(b)' = {} /\ \A c \in Buf \ {b} : Kinds(c)' = Kinds(c)
  BY <1>1, <1>4, ComesBack DEF Kind
<1>7. RegInv'
  BY <1>3, <1>4, <1>5, RegKeeps
<1> HIDE DEF r
<1>8. Becomes(b, r, told[b]) /\ Moves(Life(b), told[b], LifeOf(r), told[b])
  BY <1>3, <1>4, <1>5 DEF Becomes, Moves
<1> QED
  BY <1>2, <1>3, <1>4, <1>5, <1>6, <1>7, <1>8, BufferStep

LEMMA EndReturnsStep ==
  ASSUME IInv, NEW b \in Buf, EndReturns(b)
  PROVE IInv' /\ SeenStep
<1> DEFINE x == buf[b]
           r == Destroyed(x, 1)
<1>1. PICK k \in {"error", "drain"} : Returns(k, b)
  BY DEF EndReturns
<1>2. /\ ~aborted /\ Good(x, {k}, told[b], twice)
      /\ x.refcnt = (IF x.cb # "none" THEN 2 ELSE 1)
      /\ x.life = "live" /\ x.net = "idle" /\ x.cb # "connect"
      /\ Life(b) = IF x.cb = "none" THEN "gone" ELSE IF x.closed THEN "lingering" ELSE "open"
  BY <1>1, Returning DEF Kind
<1>3. /\ x \in Buffer
      /\ RegInv /\ buf \in [Buf -> Buffer] /\ told \in [Buf -> Event] /\ told[b] \in Event
      /\ twice \subseteq {"closed in EV_ERROR", "connect failed at once"}
  BY <1>2, Facts
<1>4. buf' = [buf EXCEPT ![b] = r] /\ aborted' = Asserts(x, 2)
      /\ stack' = Pop /\ UNCHANGED <<told, twice>> /\ reg' = Give(reg, buf[b].ref)
  BY DEF EndReturns
<1>5. StackInv' /\ Kinds(b)' = {} /\ \A c \in Buf \ {b} : Kinds(c)' = Kinds(c)
  BY <1>1, <1>4, ComesBack DEF Kind
<1>6. Becomes(b, r, told[b])
  BY <1>3, <1>4 DEF Becomes
<1>7. /\ r \in Buffer /\ r.refcnt = x.refcnt - 2 /\ r.life = "final"
      /\ r.cb = "none" /\ r.net = "idle" /\ r.closed = TRUE
  <2>1. x.refcnt - (1 + 1) \in -1 .. 2
    BY <1>2
  <2>2. /\ r \in Buffer /\ r.refcnt = x.refcnt - (1 + 1)
        /\ r.life = IF x.life = "live" /\ x.refcnt <= 1 + 1 THEN "final" ELSE x.life
        /\ r.cb = "none" /\ r.net = x.net /\ r.closed = TRUE
    BY <1>3, <2>1, DestroyedFields
  <2> QED
    BY <1>2, <2>2
<1>8. LifeOf(r) = "gone"
  BY <1>7 DEF LifeOf
<1>9. CASE x.cb # "none"
  <2>1. Asserts(x, 2) = FALSE /\ r.refcnt = 0
    BY <1>2, <1>7, <1>9 DEF Asserts
  <2>2. told[b] = "error"
    BY <1>2, <1>9 DEF Good
  <2>3. Moves(Life(b), told[b], LifeOf(r), told[b])
    BY <1>2, <1>8, <1>9, <2>2 DEF Moves
  <2>4. RegInv'
    BY <1>3, <1>4, <1>7, <1>9, GiveKeeps
  <2> HIDE DEF r
  <2>5. Good(r, {}, told[b], twice)
    <3>1. r.refcnt = 0 /\ r.life = "final" /\ r.cb = "none" /\ r.net = "idle" /\ r.closed = TRUE
      BY <1>7, <2>1
    <3> QED
      BY <3>1 DEF Good
  <2> QED
    BY <1>2, <1>3, <1>4, <1>5, <1>6, <1>7, <2>1, <2>3, <2>4, <2>5, BufferStep
<1>10. CASE x.cb = "none"
  <2>1. Asserts(x, 2) = TRUE
    BY <1>2, <1>10 DEF Asserts
  <2>2. twice # {}
    BY <1>2, <1>10 DEF Good
  <2>3. Moves(Life(b), told[b], LifeOf(r), told[b])
    BY <1>2, <1>8, <1>10 DEF Moves
  <2> HIDE DEF r
  <2> QED
    BY <1>2, <1>3, <1>4, <1>5, <1>6, <1>7, <2>1, <2>2, <2>3, AbortStep
<1> QED
  BY <1>9, <1>10

LEMMA FailedReturnsStep ==
  ASSUME IInv, NEW b \in Buf, FailedReturns(b)
  PROVE IInv' /\ SeenStep
<1> DEFINE x == buf[b]
           r == Destroyed(x, 1)
<1>1. Returns("failed", b)
  BY DEF FailedReturns
<1>2. /\ ~aborted /\ Good(x, {"failed"}, told[b], twice)
      /\ x.refcnt = (IF x.cb # "none" THEN 2 ELSE 1)
      /\ x.life = "live" /\ x.net = "idle" /\ x.cb # "connect"
      /\ Life(b) = IF x.cb = "none" THEN "gone" ELSE IF x.closed THEN "lingering" ELSE "open"
  BY <1>1, Returning DEF Kind
<1>3. x.cb = "none"
  BY <1>2 DEF Good
<1>4. /\ x \in Buffer
      /\ RegInv /\ buf \in [Buf -> Buffer] /\ told \in [Buf -> Event] /\ told[b] \in Event
      /\ twice \subseteq {"closed in EV_ERROR", "connect failed at once"}
  BY <1>2, Facts
<1>5. buf' = [buf EXCEPT ![b] = r] /\ aborted' = Asserts(x, 2)
      /\ stack' = Pop /\ told' = told /\ reg' = Give(reg, buf[b].ref)
      /\ twice' = twice \cup {"connect failed at once"}
  BY DEF FailedReturns
<1>6. StackInv' /\ Kinds(b)' = {} /\ \A c \in Buf \ {b} : Kinds(c)' = Kinds(c)
  BY <1>1, <1>5, ComesBack DEF Kind
<1>7. Becomes(b, r, told[b])
  BY <1>4, <1>5 DEF Becomes
<1>8. r \in Buffer /\ r.life = "final" /\ r.cb = "none"
  <2>1. x.refcnt - (1 + 1) \in -1 .. 2
    BY <1>2
  <2>2. /\ r \in Buffer /\ r.cb = "none"
        /\ r.life = IF x.life = "live" /\ x.refcnt <= 1 + 1 THEN "final" ELSE x.life
    BY <1>4, <2>1, DestroyedFields
  <2> QED
    BY <1>2, <2>2
<1>9. Moves(Life(b), told[b], LifeOf(r), told[b])
  BY <1>2, <1>3, <1>8 DEF LifeOf, Moves
<1>10. Asserts(x, 2) = TRUE
  BY <1>2, <1>3 DEF Asserts
<1> HIDE DEF r
<1> QED
  BY <1>2, <1>4, <1>5, <1>6, <1>7, <1>8, <1>9, <1>10, AbortStep

(* After the handler of a new connection, bufferevent_writecb goes on with *)
(* its output: a state r that differs from the one before in that only.    *)
Flushed(x, r) ==
  /\ r \in Buffer
  /\ r.refcnt = x.refcnt /\ r.life = x.life /\ r.cb = x.cb /\ r.net = x.net
  /\ r.closed = x.closed /\ r.known = x.known /\ r.rd = x.rd /\ r.ref = x.ref

LEMMA FlushGood ==
  ASSUME NEW x \in Buffer, NEW r, Flushed(x, r), NEW K, NEW t, NEW tw, Good(x, K, t, tw),
         x.life # "unused"
  PROVE Good(r, K, t, tw) /\ LifeOf(r) = LifeOf(x)
<1>1. Good(r, K, t, tw)
  BY DEF Flushed, Good
<1> QED
  BY <1>1 DEF Flushed, LifeOf

LEMMA EndsGood ==
  ASSUME NEW x \in Buffer, NEW t, NEW tw, Good(x, {"connected"}, t, tw), x.life = "live",
         x.cb # "none", NEW k \in {"error", "drain"}, k = "drain" => x.cb = "drain"
  PROVE Good(x, {k}, "error", tw)
BY DEF Good

(* The callback goes on with another event, or returns.                    *)
LEMMA GoesOn ==
  ASSUME IInv, NEW b \in Buf, Returns("connected", b), NEW r, Flushed(buf[b], r),
         r.cb # "none", NEW k \in {"error", "drain"}, k = "drain" => r.cb = "drain",
         buf' = [buf EXCEPT ![b] = r], told' = Tell(b, "error"),
         stack' = [stack EXCEPT ![Len(stack)].kind = k],
         UNCHANGED <<aborted, reg, twice>>
  PROVE IInv' /\ SeenStep
<1> DEFINE x == buf[b]
<1>1. /\ ~aborted /\ Good(x, {"connected"}, told[b], twice)
      /\ x.life = "live" /\ x.cb # "connect"
      /\ Life(b) = IF x.cb = "none" THEN "gone" ELSE IF x.closed THEN "lingering" ELSE "open"
  BY Returning DEF Kind
<1>2. /\ x \in Buffer
      /\ RegInv /\ buf \in [Buf -> Buffer] /\ told \in [Buf -> Event] /\ told[b] \in Event
      /\ twice \subseteq {"closed in EV_ERROR", "connect failed at once"}
      /\ Life(b) = LifeOf(x)
  BY <1>1, Facts
<1>3. r \in Buffer /\ x.cb # "none" /\ r.cb = x.cb /\ r.ref = x.ref /\ r.life = "live"
  BY <1>1 DEF Flushed
<1>4. told' = [told EXCEPT ![b] = "error"]
  BY <1>1, <1>3, TellsOwn
<1>5. StackInv' /\ Kinds(b)' = {k} /\ \A c \in Buf \ {b} : Kinds(c)' = Kinds(c)
  BY ComesBack DEF Kind
<1>6. RegInv'
  BY <1>2, <1>3, RegKeeps
<1>7. Good(r, {"connected"}, told[b], twice) /\ LifeOf(r) = LifeOf(x)
  BY <1>1, <1>2, FlushGood
<1>8. told[b] # "error"
  BY <1>1, <1>3 DEF Good
<1>9. Good(r, {k}, "error", twice)
  BY <1>3, <1>7, EndsGood
<1> HIDE DEF x
<1>10. Becomes(b, r, "error") /\ Moves(Life(b), told[b], LifeOf(r), "error")
  BY <1>1, <1>2, <1>3, <1>4, <1>7, <1>8 DEF Becomes, Moves
<1>11. aborted' = FALSE
  BY <1>1 DEF IInv, TypeOK
<1> QED
  BY <1>1, <1>2, <1>3, <1>5, <1>6, <1>9, <1>10, <1>11, BufferStep DEF Event

LEMMA LetsGo ==
  ASSUME IInv, NEW b \in Buf, Returns("connected", b), NEW q, Flushed(buf[b], q),
         buf' = [buf EXCEPT ![b] = Drop(q, 1)], aborted' = Asserts(q, 1), stack' = Pop,
         UNCHANGED <<told, reg, twice>>
  PROVE IInv' /\ SeenStep
<1> DEFINE x == buf[b]
           r == Drop(q, 1)
<1>1. /\ ~aborted /\ Good(x, {"connected"}, told[b], twice)
      /\ x.refcnt = (IF x.cb # "none" THEN 2 ELSE 1)
      /\ x.life = "live" /\ x.net = "idle" /\ x.cb # "connect"
  BY Returning DEF Kind
<1>2. /\ x \in Buffer
      /\ RegInv /\ buf \in [Buf -> Buffer] /\ told \in [Buf -> Event] /\ told[b] \in Event
      /\ twice \subseteq {"closed in EV_ERROR", "connect failed at once"}
      /\ Life(b) = LifeOf(x)
  BY <1>1, Facts
<1>3. /\ q \in Buffer /\ q.cb = x.cb /\ q.ref = x.ref /\ q.life = "live" /\ q.net = "idle"
      /\ q.refcnt = (IF q.cb # "none" THEN 2 ELSE 1)
  BY <1>1 DEF Flushed
<1>4. Good(q, {"connected"}, told[b], twice) /\ LifeOf(q) = LifeOf(x)
  BY <1>1, <1>2, FlushGood
<1>5. /\ r \in Buffer /\ Asserts(q, 1) = FALSE /\ r.ref = q.ref /\ r.cb = q.cb
      /\ LifeOf(r) = LifeOf(q) /\ Good(r, {}, told[b], twice)
  BY <1>3, <1>4, LetGo
<1>6. StackInv' /\ Kinds(b)' = {} /\ \A c \in Buf \ {b} : Kinds(c)' = Kinds(c)
  BY ComesBack DEF Kind
<1>7. buf' = [buf EXCEPT ![b] = r]
  OBVIOUS
<1> HIDE DEF r
<1>8. RegInv'
  <2>1. r.ref = buf[b].ref /\ (r.cb = "none" <=> buf[b].cb = "none")
    BY <1>3, <1>5
  <2> QED
    BY <1>2, <1>7, <2>1, RegKeeps
<1>9. Becomes(b, r, told[b]) /\ Moves(Life(b), told[b], LifeOf(r), told[b])
  BY <1>2, <1>4, <1>5, <1>7 DEF Becomes, Moves
<1> QED
  BY <1>1, <1>2, <1>5, <1>6, <1>8, <1>9, BufferStep

LEMMA ConnectedReturnsStep ==
  ASSUME IInv, NEW b \in Buf, ConnectedReturns(b)
  PROVE IInv' /\ SeenStep
<1> DEFINE x == buf[b]
<1>1. Returns("connected", b) /\ UNCHANGED <<reg, twice>>
  BY DEF ConnectedReturns
<1>2. x \in Buffer /\ x.out \in 0 .. MaxOut
  BY <1>1, Facts DEF Returns, UserCode, Buffer
<1>3. PICK n \in 0 .. x.out :
        LET r == [x EXCEPT !.out = @ - n, !.wr = n < x.out]
        IN IF n > 0 /\ r.out = 0 /\ r.cb = "drain"
             THEN /\ buf' = [buf EXCEPT ![b] = r]
                  /\ told' = Tell(b, "error")
                  /\ stack' = [stack EXCEPT ![Len(stack)].kind = "drain"]
                  /\ aborted' = aborted
             ELSE /\ buf' = [buf EXCEPT ![b] = Drop(r, 1)]
                  /\ aborted' = Asserts(r, 1)
                  /\ stack' = Pop
                  /\ told' = told
  BY DEF ConnectedReturns
<1> DEFINE m == x.out - n
           w == n < x.out
           r == [x EXCEPT !.out = m, !.wr = w]
<1>4. Flushed(x, r)
  <2>1. m \in 0 .. MaxOut /\ w \in BOOLEAN
    BY <1>2, EvBufferAssumption
  <2> HIDE DEF m, w
  <2>2. r \in Buffer
    BY <1>2, <2>1 DEF Buffer
  <2>3. /\ r.refcnt = x.refcnt /\ r.life = x.life /\ r.cb = x.cb /\ r.net = x.net
        /\ r.closed = x.closed /\ r.known = x.known /\ r.rd = x.rd /\ r.ref = x.ref
    BY <1>2 DEF Buffer
  <2> QED
    BY <2>2, <2>3 DEF Flushed
<1>5. CASE n > 0 /\ r.out = 0 /\ r.cb = "drain"
  <2>1. /\ buf' = [buf EXCEPT ![b] = r] /\ told' = Tell(b, "error")
        /\ stack' = [stack EXCEPT ![Len(stack)].kind = "drain"] /\ aborted' = aborted
    BY <1>3, <1>5
  <2> HIDE DEF r
  <2> QED
    BY <1>1, <1>4, <1>5, <2>1, GoesOn
<1>6. CASE ~(n > 0 /\ r.out = 0 /\ r.cb = "drain")
  <2>1. /\ buf' = [buf EXCEPT ![b] = Drop(r, 1)] /\ aborted' = Asserts(r, 1)
        /\ stack' = Pop /\ told' = told
    BY <1>3, <1>6
  <2> HIDE DEF r
  <2> QED
    BY <1>1, <1>4, <2>1, LetsGo
<1> QED
  BY <1>5, <1>6

LEMMA ConnectedWriteFailsStep ==
  ASSUME IInv, NEW b \in Buf, ConnectedWriteFails(b)
  PROVE IInv' /\ SeenStep
<1> DEFINE x == buf[b]
           r == [x EXCEPT !.wr = FALSE]
<1>1. Returns("connected", b) /\ UNCHANGED <<reg, twice>>
  BY DEF ConnectedWriteFails
<1>2. x \in Buffer
  BY <1>1, Facts DEF Returns, UserCode
<1>3. Flushed(x, r)
  <2>1. r \in Buffer
    BY <1>2 DEF Buffer
  <2>2. /\ r.refcnt = x.refcnt /\ r.life = x.life /\ r.cb = x.cb /\ r.net = x.net
        /\ r.closed = x.closed /\ r.known = x.known /\ r.rd = x.rd /\ r.ref = x.ref
    BY <1>2 DEF Buffer
  <2> QED
    BY <2>1, <2>2 DEF Flushed
<1>4. IF r.cb # "none"
        THEN /\ buf' = [buf EXCEPT ![b] = r]
             /\ told' = Tell(b, "error")
             /\ stack' = [stack EXCEPT ![Len(stack)].kind = "error"]
             /\ aborted' = aborted
        ELSE /\ buf' = [buf EXCEPT ![b] = Drop(r, 1)]
             /\ aborted' = Asserts(r, 1)
             /\ stack' = Pop
             /\ told' = told
  BY DEF ConnectedWriteFails
<1> HIDE DEF r
<1>5. CASE r.cb # "none"
  BY <1>1, <1>3, <1>4, <1>5, GoesOn
<1>6. CASE r.cb = "none"
  BY <1>1, <1>3, <1>4, <1>6, LetsGo
<1> QED
  BY <1>5, <1>6

LEMMA OtherReturnsStep ==
  ASSUME IInv, OtherReturns
  PROVE IInv' /\ SeenStep
<1>1. /\ ~aborted /\ stack # <<>> /\ Top = [kind |-> "other", b |-> Nobody] /\ stack' = Pop
      /\ UNCHANGED <<buf, reg, aborted, told, twice>> /\ StackInv /\ Nobody \notin Buf
  BY EvBufferAssumption DEF OtherReturns, Returns, UserCode, IInv, Running
<1>2. StackInv' /\ \A c \in Buf : Kinds(c)' = Kinds(c)
  BY <1>1, PopKeeps DEF Kind
<1>3. TypeOK'
  BY <1>1, <1>2 DEF IInv, TypeOK, StackInv, Frame, Kind
<1>4. RegInv'
  BY <1>1 DEF IInv, Running, RegInv, Sound, Owns, Free
<1>5. Running'
  BY <1>1, <1>2, <1>4 DEF IInv, Running
<1>6. UNCHANGED <<SeenLife, told>>
  BY <1>1 DEF SeenLife, Life
<1> QED
  BY <1>1, <1>3, <1>5, <1>6 DEF IInv, AbortCause, SeenStep, Seen!vars, SeenLife

(* A buffer that is final has no callbacks, no reference and no callback   *)
(* in progress: nothing finds it when its identity is used again.          *)
LEMMA FinalIsFree ==
  ASSUME IInv, ~aborted, NEW b \in Buf, buf[b].life = "final"
  PROVE buf[b].cb = "none" /\ Kinds(b) = {} /\ Life(b) = "gone"
<1>1. Good(buf[b], Kinds(b), told[b], twice) /\ buf[b] \in Buffer /\ Life(b) = LifeOf(buf[b])
  BY Facts
<1>2. buf[b].cb = "none" /\ Kinds(b) = {}
  BY <1>1 DEF Good, Buffer
<1> QED
  BY <1>1, <1>2 DEF LifeOf

LEMMA OtherEventStep ==
  ASSUME IInv, OtherEvent
  PROVE IInv' /\ SeenStep
<1> DEFINE D == {b \in Buf : buf[b].life = "final"}
<1>1. /\ ~aborted /\ Polling /\ stack' = Push("other", Nobody)
      /\ UNCHANGED <<reg, aborted, twice>>
      /\ buf' = [b \in Buf |-> IF buf[b].life = "final" THEN Unused ELSE buf[b]]
      /\ told' = [b \in Buf |-> IF buf[b].life = "final" THEN "nothing" ELSE told[b]]
  BY DEF OtherEvent, Polling
<1>2. /\ StackInv /\ RegInv /\ buf \in [Buf -> Buffer] /\ told \in [Buf -> Event]
      /\ Nobody \notin Buf
  BY <1>1, EvBufferAssumption DEF IInv, TypeOK, Running, Buffer, Event
<1>3. StackInv' /\ \A c \in Buf : Kinds(c)' = Kinds(c)
  BY <1>1, <1>2, PushKeeps DEF Kind
<1>4. /\ D \subseteq Buf
      /\ \A b \in Buf : buf'[b] = IF b \in D THEN Unused ELSE buf[b]
      /\ \A b \in Buf : told'[b] = IF b \in D THEN "nothing" ELSE told[b]
      /\ \A b \in D : buf[b].cb = "none" /\ Kinds(b) = {} /\ Life(b) = "gone"
      /\ told' = [b \in Buf |-> IF b \in D THEN "nothing" ELSE told[b]]
  BY <1>1, FinalIsFree
<1> HIDE DEF D
<1>5. buf' \in [Buf -> Buffer] /\ told' \in [Buf -> Event]
  BY <1>1, <1>2, UnusedFields DEF Event
<1>6. TypeOK'
  BY <1>1, <1>3, <1>5 DEF IInv, TypeOK, StackInv, Frame, Kind, Buffer, Event
<1>7. RegInv'
  <2>1. \A b \in Buf : Owns(reg, b) =
          IF buf'[b].cb = "none" THEN {} ELSE {buf'[b].ref}
    BY <1>2, <1>4, UnusedFields DEF RegInv
  <2>2. Sound(reg, Buf) /\ reg' = reg
    BY <1>1, <1>2 DEF RegInv
  <2> QED
    BY <2>1, <2>2 DEF RegInv, Sound, Owns, Free
<1>8. ASSUME NEW b \in Buf PROVE Good(buf[b], Kinds(b), told[b], twice)'
  <2>1. Good(buf[b], Kinds(b), told[b], twice)
    BY <1>1 DEF IInv, Running
  <2>2. CASE b \notin D
    BY <2>1, <2>2, <1>1, <1>3, <1>4
  <2>3. CASE b \in D
    <3>1. Good(Unused, {}, "nothing", twice)
      BY DEF Good, Unused
    <3> QED
      BY <3>1, <2>3, <1>1, <1>3, <1>4
  <2> QED
    BY <2>2, <2>3
<1>9. Running'
  BY <1>3, <1>7, <1>8 DEF Running
<1>10. Seen!Recycle
  <2>1. \A b \in Buf : Life(b)' = IF b \in D THEN "unused" ELSE Life(b)
    BY <1>4 DEF Life, Unused
  <2>2. SeenLife' = [b \in Buf |-> IF b \in D THEN "unused" ELSE SeenLife[b]]
    BY <2>1 DEF SeenLife
  <2>3. D \in SUBSET {b \in Buf : SeenLife[b] = "gone"}
    BY <1>4 DEF SeenLife
  <2> QED
    BY <1>4, <2>2, <2>3 DEF Seen!Recycle, SeenLife
<1> QED
  BY <1>1, <1>6, <1>9, <1>10 DEF IInv, AbortCause, SeenStep, Seen!Next

-----------------------------------------------------------------------------
LEMMA InitGood == Init => IInv /\ Seen!Init
<1> SUFFICES ASSUME Init PROVE IInv /\ Seen!Init
  OBVIOUS
<1>1. /\ stack = <<>> /\ reg = EmptyRegistry /\ aborted = FALSE /\ twice = {}
      /\ told = [b \in Buf |-> "nothing"] /\ buf = [b \in Buf |-> Unused]
  BY DEF Init
<1>2. buf \in [Buf -> Buffer] /\ told \in [Buf -> Event]
  BY <1>1, UnusedFields DEF Event
<1>3. \A b \in Buf : Kinds(b) = {}
  BY <1>1 DEF Kinds
<1>4. StackInv
  BY <1>1 DEF StackInv
<1>5. RegInv
  <2>1. Sound(reg, Buf) /\ \A b \in Buf : Owns(reg, b) = {}
    BY <1>1, EmptySound
  <2> QED
    BY <1>1, <2>1, UnusedFields DEF RegInv
<1>6. reg \in [slot : Seq(Buf \cup Nat), free : Nat]
  BY <1>5, SoundTyped DEF RegInv, Table
<1>7. TypeOK
  BY <1>1, <1>2, <1>4, <1>6 DEF TypeOK, StackInv, Frame, Kind, Buffer, Event
<1>8. \A b \in Buf : Good(buf[b], Kinds(b), told[b], twice)
  BY <1>1, <1>3 DEF Good, Unused
<1>9. Seen!Init
  BY <1>1 DEF Seen!Init, Life, Unused
<1> QED
  BY <1>1, <1>4, <1>5, <1>7, <1>8, <1>9 DEF IInv, AbortCause, Running

LEMMA StepGood ==
  ASSUME IInv, [Next]_vars
  PROVE IInv' /\ SeenStep
<1>1. ASSUME UNCHANGED vars PROVE IInv' /\ SeenStep
  <2>1. UNCHANGED <<buf, reg, stack, aborted, told, twice>>
    BY <1>1 DEF vars
  <2>2. TypeOK' /\ AbortCause' /\ UNCHANGED <<SeenLife, told>>
    BY <2>1 DEF IInv, TypeOK, AbortCause, SeenLife, Life
  <2>3. \A b \in Buf : Kinds(b)' = Kinds(b)
    BY <2>1 DEF Kinds
  <2>4. Running => StackInv' /\ RegInv'
    BY <2>1 DEF Running, StackInv, RegInv, Sound, Owns, Free
  <2>5. Running => Running'
    BY <2>1, <2>3, <2>4 DEF Running
  <2> QED
    BY <2>1, <2>2, <2>5 DEF IInv, SeenStep, Seen!vars, SeenLife
<1>2. ASSUME NEW b \in Buf, Network(b) PROVE IInv' /\ SeenStep
  BY <1>2, ReadableStep, ReadFailsStep, WritableStep, WriteFailsStep, ConnectedStep,
     ConnectFailsStep, AcceptStep DEF Network
<1>3. ASSUME NEW b \in Buf, Call(b) PROVE IInv' /\ SeenStep
  BY <1>3, BindStep, ConnectStep, ConnectFailsAtOnceStep, WriteStep, CloseNowStep,
     CloseStep DEF Call
<1>4. ASSUME NEW b \in Buf, Return(b) PROVE IInv' /\ SeenStep
  BY <1>4, DataReturnsStep, EndReturnsStep, FailedReturnsStep, ConnectedReturnsStep,
     ConnectedWriteFailsStep DEF Return
<1>5. CASE Stopped
  BY <1>1, <1>5 DEF Stopped
<1> QED
  BY <1>1, <1>2, <1>3, <1>4, <1>5, OtherEventStep, OtherReturnsStep DEF Next

LEMMA IInvHolds == Spec => []IInv
BY InitGood, StepGood, PTL DEF Spec

(* The values of the variables of event.c and libevent: no buffer has more *)
(* references than its own and the one libevent holds while it calls back. *)
THEOREM TypeCorrect == Spec => []TypeOK
<1>1. IInv => TypeOK
  BY DEF IInv
<1> QED
  BY <1>1, IInvHolds, PTL

(* An assertion on the life of a buffer fails only after one of two        *)
(* sequences of calls: _bufferevent_close(1) of a buffer by its own        *)
(* EV_ERROR handler, or a _connect that fails at once.                     *)
THEOREM AbortOnlyTwice == Spec => []AbortCause
<1>1. IInv => AbortCause
  BY DEF IInv
<1> QED
  BY <1>1, IInvHolds, PTL

(* The callbacks of a bufferevent find their own userdata in the registry. *)
THEOREM CallbacksOwn == Spec => []RefOwned
<1>1. IInv => RefOwned
  BY FindsOwn DEF IInv, RefOwned, Running, RegInv, Owns
<1> QED
  BY <1>1, IInvHolds, PTL

(* Lua gets the events of a connection in the order of BufferLife, EV_ERROR *)
(* before a connection disappears that the program has not closed at once. *)
THEOREM EventsInOrder == Spec => EventOrder
<1>1. IInv /\ [Next]_vars => SeenStep
  BY StepGood
<1> QED
  BY <1>1, InitGood, IInvHolds, PTL DEF Spec, EventOrder, Seen!Spec, SeenStep
=============================================================================
