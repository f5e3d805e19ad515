--------------------------- MODULE ServicesProofs ----------------------------
(***************************************************************************)
(* Proofs about the userdata of event.c, for any number of each kind and   *)
(* any depth of callbacks: the registry holds exactly what is needed, what *)
(* dangles was closed, descriptors are owned.                              *)
(***************************************************************************)
EXTENDS Services, RegistryProofs, FiniteSetTheorems

LEMMA Kinds ==
  /\ Object \cap Nat = {}
  /\ \A o \in Object : o # Nobody
  /\ \A q \in Query : q \in Object /\ q \notin Conn \cup Listener \cup Httpd \cup Request
  /\ \A r \in Request : r \in Object /\ r \notin Conn \cup Listener \cup Httpd
  /\ \A h \in Httpd : h \in Object /\ h \notin Conn \cup Listener
  /\ \A l \in Listener : l \in Object /\ l \notin Conn
  /\ \A c \in Conn : c \in Object
BY ServicesAssumption DEF Object

-----------------------------------------------------------------------------
(* The registry. What Pin, Unpin and a change of life without either do.   *)
Lives == {"unused", "connecting", "open", "answering", "lingering", "closed", "gone"}
RefInv ==
  /\ life \in [Object -> Lives] /\ ref \in [Object -> Nat]
  /\ Sound(reg, Object) /\ RefsExact

LEMMA PinKeeps ==
  ASSUME RefInv, NEW o \in Object, NEW as \in {"connecting", "open", "answering"}, Pin(o, as)
  PROVE RefInv'
<1>1. ~Pinned(o) /\ Owns(reg, o) = {}
  BY DEF RefInv, RefsExact, Owns, Pin, Pinned
<1>2. /\ Sound(reg', Object)
      /\ Owns(reg', o) = {NextRef(reg)} /\ NextRef(reg) \in Nat
      /\ \A p \in Object \ {o} : Owns(reg', p) = Owns(reg, p)
  <2>1. Object \cap Nat = {} /\ Sound(reg, Object) /\ reg' = Take(reg, o)
    BY Kinds DEF RefInv, Pin
  <2> QED
    BY <1>1, <2>1, TakeSound
<1>3. /\ life' \in [Object -> Lives] /\ ref' \in [Object -> Nat]
      /\ \A p \in Object : life'[p] = IF p = o THEN as ELSE life[p]
      /\ \A p \in Object : ref'[p] = IF p = o THEN NextRef(reg) ELSE ref[p]
  BY <1>2 DEF RefInv, Pin, Lives
<1>4. \A p \in Object : Owns(reg, p) = IF Pinned(p) THEN {ref[p]} ELSE {}
  BY DEF RefInv, RefsExact, Owns
<1>5. \A p \in Object : Owns(reg', p) = IF Pinned(p)' THEN {ref'[p]} ELSE {}
  BY <1>2, <1>3, <1>4 DEF Pinned
<1> QED
  BY <1>2, <1>3, <1>5 DEF RefInv, RefsExact, Owns

LEMMA UnpinKeeps ==
  ASSUME RefInv, NEW o \in Object, NEW as \in {"closed", "gone"}, Unpin(o, as), Pinned(o)
  PROVE RefInv'
<1>1. Owns(reg, o) = {ref[o]} /\ ref[o] \in Nat
  BY DEF RefInv, RefsExact, Owns
<1>2. /\ Sound(reg', Object)
      /\ \A p \in Object : Owns(reg', p) = IF p = o THEN {} ELSE Owns(reg, p)
  <2>1. Object \cap Nat = {} /\ Sound(reg, Object) /\ reg' = Give(reg, ref[o])
    BY Kinds DEF RefInv, Unpin
  <2>2. \A n \in Nat : Owns(reg, o) = {n} =>
          /\ Sound(Give(reg, n), Object)
          /\ \A p \in Object : Owns(Give(reg, n), p) = IF p = o THEN {} ELSE Owns(reg, p)
    BY <2>1, GiveSound
  <2> QED
    BY <1>1, <2>1, <2>2
<1>3. /\ life' \in [Object -> Lives] /\ ref' = ref
      /\ \A p \in Object : life'[p] = IF p = o THEN as ELSE life[p]
  BY DEF RefInv, Unpin, Lives
<1>4. \A p \in Object : Owns(reg, p) = IF Pinned(p) THEN {ref[p]} ELSE {}
  BY DEF RefInv, RefsExact, Owns
<1>5. \A p \in Object : Owns(reg', p) = IF Pinned(p)' THEN {ref'[p]} ELSE {}
  BY <1>2, <1>3, <1>4 DEF Pinned
<1> QED
  BY <1>2, <1>3, <1>5 DEF RefInv, RefsExact, Owns

LEMMA LifeKeeps ==
  ASSUME RefInv, UNCHANGED <<ref, reg>>, life' \in [Object -> Lives],
         \A o \in Object : Pinned(o)' <=> Pinned(o)
  PROVE RefInv'
BY DEF RefInv, RefsExact

-----------------------------------------------------------------------------
(* The stack: a query that is being answered is on it once.                *)
Frame == [kind : {"accept", "http", "dns", "other"},
          by : Object \cup {Nobody}, conn : Conn \cup {Nobody}]
DnsFrames ==
  /\ stack \in Seq(Frame)
  /\ \A i \in DOMAIN stack :
       stack[i].kind = "dns" =>
         /\ stack[i].by \in Query /\ life[stack[i].by] = "answering"
         /\ \A j \in DOMAIN stack :
              stack[j].kind = "dns" /\ stack[j].by = stack[i].by => i = j

LEMMA PushKeeps ==
  ASSUME DnsFrames, NEW k, NEW o, NEW c, Push(k, o, c) = stack',
         [kind |-> k, by |-> o, conn |-> c] \in Frame,
         k = "dns" => o \in Query /\ life[o] # "answering" /\ life'[o] = "answering",
         \A q \in Query : life[q] = "answering" => life'[q] = "answering"
  PROVE DnsFrames'
<1> DEFINE f == [kind |-> k, by |-> o, conn |-> c]
           n == Len(stack)
<1>1. /\ stack' = Append(stack, f) /\ f \in Frame
      /\ f.kind = k /\ f.by = o
  BY DEF Push
<1>2. /\ stack' \in Seq(Frame) /\ n \in Nat
      /\ DOMAIN stack = 1 .. n /\ DOMAIN stack' = 1 .. n + 1
      /\ (\A i \in 1 .. n : stack'[i] = stack[i]) /\ stack'[n + 1] = f
  BY <1>1 DEF DnsFrames
<1> HIDE DEF f, n
<1>3. \A i \in DOMAIN stack' : i \in 1 .. n \/ i = n + 1
  BY <1>2
<1>4. \A i \in 1 .. n : stack[i].kind = "dns" => stack[i].by \in Query /\ life[stack[i].by] = "answering"
  BY <1>2 DEF DnsFrames
<1> SUFFICES ASSUME NEW i \in DOMAIN stack', stack'[i].kind = "dns"
             PROVE /\ stack'[i].by \in Query /\ life'[stack'[i].by] = "answering"
                   /\ \A j \in DOMAIN stack' :
                        stack'[j].kind = "dns" /\ stack'[j].by = stack'[i].by => i = j
  BY <1>2 DEF DnsFrames
<1>5. CASE i = n + 1
  BY <1>1, <1>2, <1>3, <1>4, <1>5
<1>6. CASE i \in 1 .. n
  BY <1>1, <1>2, <1>3, <1>4, <1>6 DEF DnsFrames
<1> QED
  BY <1>3, <1>5, <1>6

LEMMA PopKeeps ==
  ASSUME DnsFrames, stack # <<>>, stack' = Pop,
         \A q \in Query : life[q] = "answering" /\ life'[q] # "answering"
           => stack[Len(stack)].kind = "dns" /\ stack[Len(stack)].by = q
  PROVE DnsFrames'
<1> DEFINE n == Len(stack)
<1>1. /\ stack' \in Seq(Frame) /\ n \in Nat \ {0}
      /\ DOMAIN stack = 1 .. n /\ DOMAIN stack' = 1 .. n - 1
      /\ \A i \in 1 .. n - 1 : stack'[i] = stack[i]
  BY DEF DnsFrames, Pop
<1> SUFFICES ASSUME NEW i \in DOMAIN stack', stack'[i].kind = "dns"
             PROVE /\ stack'[i].by \in Query /\ life'[stack'[i].by] = "answering"
                   /\ \A j \in DOMAIN stack' :
                        stack'[j].kind = "dns" /\ stack'[j].by = stack'[i].by => i = j
  BY <1>1 DEF DnsFrames
<1>2. i \in DOMAIN stack /\ i # n /\ n \in DOMAIN stack /\ stack[i].kind = "dns" /\ stack'[i] = stack[i]
  BY <1>1
<1>3. life'[stack[i].by] = "answering"
  BY <1>2 DEF DnsFrames
<1> QED
  BY <1>1, <1>2, <1>3 DEF DnsFrames

LEMMA StackKeeps ==
  ASSUME DnsFrames, UNCHANGED stack,
         \A q \in Query : life[q] = "answering" => life'[q] = "answering"
  PROVE DnsFrames'
BY DEF DnsFrames

-----------------------------------------------------------------------------
(* Requests: what is sending has been answered, what is freed and still    *)
(* open was freed with its server.                                         *)
HttpInv ==
  /\ http \in [Request -> [state : {"none", "held", "detached", "sending", "freed"},
                           by : Httpd \cup {Nobody}]]
  /\ \A r \in Request :
       /\ http[r].state = "none" \/ http[r].by \in Httpd
       /\ http[r].state = "none" => life[r] = "unused"
       /\ http[r].state = "sending" => life[r] = "closed"
  /\ DanglingCause

LEMMA HttpKeeps ==
  ASSUME HttpInv, UNCHANGED http, phase' = "crashed" => phase = "crashed",
         \A r \in Request : life'[r] = life[r],
         \A h \in Httpd : life[h] = "closed" => life'[h] = "closed"
  PROVE HttpInv'
<1>1. \A r \in Request : http[r].state = "freed" => http[r].by \in Httpd
  BY DEF HttpInv
<1>2. DanglingCause'
  BY <1>1 DEF HttpInv, DanglingCause
<1> QED
  BY <1>2 DEF HttpInv

-----------------------------------------------------------------------------
(* Descriptors.                                                            *)
SocketInv ==
  /\ fd \in [Conn \cup Listener -> Nat]
  /\ files \subseteq Nat /\ IsFiniteSet(files)
  /\ given \subseteq Given /\ Given \subseteq Nat
  /\ ~stolen => /\ given \subseteq files
                /\ \A l \in Listener \cap Socket : fd[l] \notin given
  /\ FdOwned

LEMMA NextFileFree ==
  ASSUME files \subseteq Nat, IsFiniteSet(files)
  PROVE NextFile \in Nat /\ NextFile \notin files
<1> DEFINE n == Cardinality(files)
<1>1. n \in Nat
  BY FS_CardinalityType
<1>2. \E k \in 1 .. n + 1 : k \notin files
  <2>1. SUFFICES ASSUME 1 .. n + 1 \subseteq files PROVE FALSE
    OBVIOUS
  <2>2. Cardinality(1 .. n + 1) = n + 1
    BY <1>1, FS_Interval
  <2>3. Cardinality(1 .. n + 1) <= n
    BY <2>1, FS_Subset
  <2> QED
    BY <1>1, <2>2, <2>3
<1>3. NextFile \in 1 .. n + 1 /\ NextFile \notin files
  BY <1>2 DEF NextFile
<1> QED
  BY <1>1, <1>3

LEMMA OpenKeeps ==
  ASSUME SocketInv, life \in [Object -> Lives], NEW o \in Conn \cup Listener, OpenFile(o),
         life[o] = "unused", NEW as \in {"connecting", "open"}, life' = [life EXCEPT ![o] = as]
  PROVE SocketInv'
<1> DEFINE n == NextFile
<1>1. n \in Nat /\ n \notin files
  BY NextFileFree DEF SocketInv
<1>2. fd' = [fd EXCEPT ![o] = n] /\ files' = files \cup {n} /\ stolen' = stolen /\ given' = given
  BY DEF OpenFile
<1> HIDE DEF n
<1>3. /\ fd' \in [Conn \cup Listener -> Nat] /\ files' \subseteq Nat
      /\ \A p \in Conn \cup Listener : fd'[p] = IF p = o THEN n ELSE fd[p]
  BY <1>1, <1>2 DEF SocketInv
<1>4. IsFiniteSet(files')
  BY <1>2, FS_AddElement DEF SocketInv
<1>5. Conn \cup Listener \subseteq Object
  BY DEF Object
<1>6. Socket' = Socket \cup {o} /\ o \notin Socket
  BY <1>5 DEF Socket
<1>7. ASSUME ~stolen' PROVE \A p \in Socket' : fd'[p] \in files' /\ \A q \in Socket' \ {p} : fd'[q] # fd'[p]
  <2>1. \A p \in Socket : p \in Conn \cup Listener /\ fd[p] \in files
                            /\ \A q \in Socket \ {p} : fd[q] # fd[p]
    BY <1>2, <1>7 DEF SocketInv, FdOwned, Socket
  <2>2. \A p \in Socket : p # o /\ fd'[p] = fd[p] /\ fd[p] # n
    BY <2>1, <1>1, <1>3, <1>6
  <2>3. fd'[o] = n
    BY <1>3
  <2> QED
    BY <2>1, <2>2, <2>3, <1>2, <1>6
<1>8. ASSUME ~stolen' PROVE given' \subseteq files' /\ \A l \in Listener \cap Socket' : fd'[l] \notin given'
  <2>1. given \subseteq files /\ \A l \in Listener \cap Socket : fd[l] \notin given
    BY <1>2, <1>8 DEF SocketInv
  <2>2. n \notin given
    BY <2>1, <1>1
  <2> QED
    BY <2>1, <2>2, <1>2, <1>3, <1>6
<1>9. given' \subseteq Given /\ Given \subseteq Nat
  BY <1>2 DEF SocketInv
<1> QED
  BY <1>3, <1>4, <1>7, <1>8, <1>9 DEF SocketInv, FdOwned

LEMMA SocketKeeps ==
  ASSUME SocketInv, UNCHANGED <<fd, files, given, stolen>>, Socket' \subseteq Socket
  PROVE SocketInv'
BY DEF SocketInv, FdOwned

(* A socket that is not in use any more is closed.                         *)
LEMMA CloseKeeps ==
  ASSUME SocketInv, NEW o \in Socket, UNCHANGED <<fd, given, stolen>>,
         NEW D, D \subseteq {fd[o]}, ~stolen => D \cap given = {},
         files' = files \ D, Socket' \subseteq Socket \ {o}
  PROVE SocketInv'
<1>1. IsFiniteSet(files')
  BY FS_Subset DEF SocketInv
<1>2. files' \subseteq Nat
  BY DEF SocketInv
<1>3. ~stolen' => /\ given' \subseteq files'
                  /\ \A l \in Listener \cap Socket' : fd'[l] \notin given'
  BY DEF SocketInv
<1>4. FdOwned'
  <2>1. SUFFICES ASSUME ~stolen, NEW p \in Socket'
                 PROVE fd[p] \in files' /\ \A q \in Socket' \ {p} : fd[q] # fd[p]
    BY DEF FdOwned
  <2>2. p \in Socket /\ p # o /\ fd[p] \in files /\ \A q \in Socket \ {p} : fd[q] # fd[p]
    BY <2>1 DEF SocketInv, FdOwned
  <2> QED
    BY <2>2
<1> QED
  BY <1>1, <1>2, <1>3, <1>4 DEF SocketInv

-----------------------------------------------------------------------------
(* The inductive invariant.                                                *)
IInv ==
  /\ phase \in {"script", "loop", "closing", "released", "exited", "crashed"}
  /\ stolen \in BOOLEAN
  /\ RefInv /\ DnsFrames /\ HttpInv /\ SocketInv

(* What a change of one userdata's life leaves alone.                      *)
Becomes(o, as) == life' = [life EXCEPT ![o] = as]

LEMMA OneLife ==
  ASSUME IInv, NEW o \in Object, NEW as \in Lives, Becomes(o, as)
  PROVE life' \in [Object -> Lives] /\ \A p \in Object : life'[p] = IF p = o THEN as ELSE life[p]
BY DEF IInv, RefInv, Becomes

LEMMA OpenConnKeeps ==
  ASSUME IInv, NEW o \in Conn \cup Listener, NEW as \in {"connecting", "open"}, Pin(o, as),
         OpenFile(o), UNCHANGED <<phase, http>>
  PROVE RefInv' /\ HttpInv' /\ SocketInv' /\ \A q \in Query : life'[q] = life[q]
<1>1. o \in Object /\ as \in Lives /\ Becomes(o, as) /\ life[o] = "unused"
  BY DEF Object, Lives, Pin, Becomes
<1>2. life' \in [Object -> Lives] /\ \A p \in Object : life'[p] = IF p = o THEN as ELSE life[p]
  BY <1>1, OneLife
<1>3. RefInv'
  BY <1>1, PinKeeps DEF IInv
<1>4. SocketInv'
  BY <1>1, OpenKeeps DEF IInv, RefInv, Becomes
<1>5. (\A q \in Query : life'[q] = life[q]) /\ (\A r \in Request : life'[r] = life[r])
      /\ \A h \in Httpd : life'[h] = life[h]
  BY <1>2, Kinds
<1>6. HttpInv'
  BY <1>5, HttpKeeps DEF IInv
<1> QED
  BY <1>3, <1>4, <1>5, <1>6

(* A frame of another kind than "dns" is pushed or popped.                 *)
LEMMA FramesKeep ==
  ASSUME IInv, \A q \in Query : life[q] = "answering" => life'[q] = "answering",
         \/ UNCHANGED stack
         \/ stack # <<>> /\ stack' = Pop
         \/ \E k \in {"accept", "http", "other"} :
              \E o \in Object \cup {Nobody}, c \in Conn \cup {Nobody} : stack' = Push(k, o, c)
  PROVE DnsFrames'
<1>1. CASE UNCHANGED stack
  BY <1>1, StackKeeps DEF IInv
<1>2. CASE stack # <<>> /\ stack' = Pop
  BY <1>2, PopKeeps DEF IInv
<1>3. ASSUME NEW k \in {"accept", "http", "other"}, NEW o \in Object \cup {Nobody},
             NEW c \in Conn \cup {Nobody}, stack' = Push(k, o, c)
      PROVE DnsFrames'
  <2>1. [kind |-> k, by |-> o, conn |-> c] \in Frame /\ k # "dns"
    BY DEF Frame
  <2>2. DnsFrames
    BY DEF IInv
  <2> QED
    BY <1>3, <2>1, <2>2, PushKeeps
<1> QED
  BY <1>1, <1>2, <1>3

(* Only the stack or the phase changes.                                    *)
LEMMA QuietKeeps ==
  ASSUME IInv, UNCHANGED http, UNCHANGED places, UNCHANGED sockets, DnsFrames',
         phase' \in {"script", "loop", "closing", "released", "exited"}
  PROVE IInv'
<1>1. RefInv'
  BY DEF IInv, RefInv, RefsExact, Pinned, places
<1>2. HttpInv'
  BY HttpKeeps DEF IInv, places
<1>3. SocketInv'
  BY SocketKeeps DEF IInv, places, sockets, Socket
<1> QED
  BY <1>1, <1>2, <1>3 DEF IInv, sockets

LEMMA LoopKeeps ==
  ASSUME IInv, OtherEvent \/ Returned \/ Dispatch \/ LoopEnds \/ DispatchEnds
  PROVE IInv'
<1>1. UNCHANGED http /\ UNCHANGED places /\ UNCHANGED sockets
  BY DEF OtherEvent, Returned, Dispatch, LoopEnds, DispatchEnds
<1>2. \A q \in Query : life[q] = "answering" => life'[q] = "answering"
  BY <1>1 DEF places
<1>3. \/ UNCHANGED stack
      \/ stack # <<>> /\ stack' = Pop
      \/ \E k \in {"accept", "http", "other"} :
           \E o \in Object \cup {Nobody}, c \in Conn \cup {Nobody} : stack' = Push(k, o, c)
  BY DEF OtherEvent, Returned, Returns, Dispatch, LoopEnds, DispatchEnds
<1>4. DnsFrames'
  BY <1>2, <1>3, FramesKeep
<1>5. phase' \in {"script", "loop", "closing", "released", "exited"} \/ phase' = phase
  BY DEF OtherEvent, Returned, Dispatch, LoopEnds, DispatchEnds
<1>6. CASE phase' = "crashed"
  (* not an action of the loop: nothing returns after a crash *)
  <2>1. RefInv'
    BY <1>1 DEF IInv, RefInv, RefsExact, Pinned, places
  <2>2. HttpInv'
    BY <1>1, <1>5, <1>6, HttpKeeps DEF IInv, places
  <2>3. SocketInv'
    BY <1>1, SocketKeeps DEF IInv, places, sockets, Socket
  <2> QED
    BY <1>1, <1>4, <1>6, <2>1, <2>2, <2>3 DEF IInv, sockets
<1> QED
  BY <1>1, <1>4, <1>5, <1>6, QuietKeeps DEF IInv

(* Only the life of a connection and the registry change.                  *)
LEMMA ConnMoves ==
  ASSUME IInv, NEW c \in Conn, NEW as \in {"open", "lingering", "closed"}, Becomes(c, as),
         \/ Unpin(c, as) /\ as = "closed"
         \/ UNCHANGED <<ref, reg>> /\ as # "closed",
         life[c] \in {"connecting", "open", "lingering"},
         UNCHANGED <<phase, http>>, UNCHANGED sockets,
         \/ UNCHANGED stack
         \/ stack' = Push("other", Nobody, Nobody)
  PROVE IInv'
<1> USE Kinds
<1>1. /\ life' \in [Object -> Lives]
      /\ \A p \in Object : life'[p] = IF p = c THEN as ELSE life[p]
  <2>1. as \in Lives /\ c \in Object
    BY DEF Lives
  <2> QED
    BY <2>1, OneLife
<1>2. RefInv'
  <2>1. CASE Unpin(c, as) /\ as = "closed"
    BY <2>1, UnpinKeeps DEF IInv, Pinned
  <2>2. CASE UNCHANGED <<ref, reg>> /\ as # "closed"
    BY <1>1, <2>2, LifeKeeps DEF IInv, Pinned
  <2> QED
    BY <2>1, <2>2
<1>3. DnsFrames'
  BY <1>1, FramesKeep
<1>4. HttpInv'
  BY <1>1, HttpKeeps DEF IInv
<1>5. SocketInv'
  <2>1. c \in Socket
    BY DEF Socket
  <2>2. Socket' \subseteq Socket
    BY <1>1, <2>1 DEF Socket
  <2> QED
    BY <2>2, SocketKeeps DEF IInv, sockets
<1> QED
  BY <1>2, <1>3, <1>4, <1>5 DEF IInv, sockets

LEMMA ConnKeeps ==
  ASSUME IInv, NEW c \in Conn,
         Connect(c) \/ ConnectComplete(c) \/ Bind(c) \/ Linger(c) \/ CloseConn(c) \/ Finalize(c)
  PROVE IInv'
<1> USE Kinds
<1>1. CASE Connect(c)
  <2>1. /\ Pin(c, "connecting") /\ OpenFile(c) /\ UNCHANGED <<phase, http, stack>>
        /\ stolen' = stolen
    BY <1>1 DEF Connect, OpenFile
  <2>2. RefInv' /\ HttpInv' /\ SocketInv' /\ \A q \in Query : life'[q] = life[q]
    BY <2>1, OpenConnKeeps
  <2>3. DnsFrames'
    BY <2>1, <2>2, FramesKeep
  <2> QED
    BY <2>1, <2>2, <2>3 DEF IInv
<1>2. CASE ConnectComplete(c)
  BY <1>2, ConnMoves DEF ConnectComplete, Becomes, Unpin, Pinned
<1>3. CASE Linger(c) \/ CloseConn(c)
  BY <1>3, ConnMoves DEF Linger, CloseConn, Becomes, Unpin, Pinned
<1>4. CASE Bind(c)
  <2>1. /\ Pin(c, "open") /\ UNCHANGED <<phase, http, stack>>
        /\ UNCHANGED <<files, given, stolen>>
    BY <1>4 DEF Bind
  <2>2. PICK n \in given \ {fd[o] : o \in Socket} : fd' = [fd EXCEPT ![c] = n]
    BY <1>4 DEF Bind
  <2>3. life[c] = "unused" /\ life' \in [Object -> Lives]
        /\ \A p \in Object : life'[p] = IF p = c THEN "open" ELSE life[p]
    BY <2>1, OneLife DEF Pin, Becomes, Lives
  <2>4. RefInv'
    BY <2>1, PinKeeps DEF IInv
  <2>5. DnsFrames' /\ HttpInv'
    BY <2>1, <2>3, FramesKeep, HttpKeeps DEF IInv
  <2>6. n \in Nat /\ fd' \in [Conn \cup Listener -> Nat]
        /\ \A p \in Conn \cup Listener : fd'[p] = IF p = c THEN n ELSE fd[p]
    BY <2>2 DEF IInv, SocketInv
  <2>7. Socket' = Socket \cup {c} /\ c \notin Socket /\ Socket \subseteq Conn \cup Listener
    BY <2>3 DEF Socket
  <2>8. \A p \in Socket : fd'[p] = fd[p] /\ fd[p] # n
    BY <2>2, <2>6, <2>7
  <2>9. ASSUME ~stolen PROVE n \in files /\ \A l \in Listener \cap Socket' : fd'[l] \notin given
    BY <2>2, <2>6, <2>7, <2>9 DEF IInv, SocketInv
  <2>10. FdOwned'
    <3>1. SUFFICES ASSUME ~stolen, NEW p \in Socket'
                   PROVE fd'[p] \in files /\ \A q \in Socket' \ {p} : fd'[q] # fd'[p]
      BY <2>1 DEF FdOwned
    <3>2. \A q \in Socket : fd[q] \in files /\ \A r \in Socket \ {q} : fd[r] # fd[q]
      BY <3>1 DEF IInv, SocketInv, FdOwned
    <3>3. fd'[c] = n /\ n \in files
      BY <2>6, <2>9, <3>1
    <3> QED
      BY <2>7, <2>8, <3>2, <3>3
  <2>11. SocketInv'
    BY <2>1, <2>6, <2>9, <2>10 DEF IInv, SocketInv
  <2> QED
    BY <2>1, <2>4, <2>5, <2>11 DEF IInv
<1>5. CASE Finalize(c)
  <2>1. /\ life[c] = "closed" /\ Becomes(c, "gone") /\ UNCHANGED <<phase, http, stack, ref, reg>>
        /\ files' = files \ ({fd[c]} \ given) /\ UNCHANGED <<fd, given, stolen>>
    BY <1>5 DEF Finalize, Becomes
  <2>2. life' \in [Object -> Lives] /\ \A p \in Object : life'[p] = IF p = c THEN "gone" ELSE life[p]
    BY <2>1, OneLife DEF Lives
  <2>3. RefInv'
    BY <2>1, <2>2, LifeKeeps DEF IInv, Pinned
  <2>4. DnsFrames' /\ HttpInv'
    BY <2>1, <2>2, FramesKeep, HttpKeeps DEF IInv
  <2>5. c \in Socket /\ Socket' \subseteq Socket \ {c}
    BY <2>1, <2>2 DEF Socket
  <2>6. SocketInv'
    BY <2>1, <2>5, CloseKeeps DEF IInv
  <2> QED
    BY <2>1, <2>3, <2>4, <2>6 DEF IInv
<1> QED
  BY <1>1, <1>2, <1>3, <1>4, <1>5

LEMMA CloseGivenKeeps ==
  ASSUME IInv, NEW n \in Given, CloseGiven(n)
  PROVE IInv'
<1>1. /\ n \in given \ {fd[o] : o \in Socket} /\ given' = given \ {n} /\ files' = files \ {n}
      /\ UNCHANGED <<phase, stack, http, fd, stolen>> /\ UNCHANGED <<reg, ref, life>>
  BY DEF CloseGiven, places
<1>2. RefInv' /\ DnsFrames'
  BY <1>1 DEF IInv, RefInv, RefsExact, Pinned, DnsFrames
<1>3. HttpInv'
  BY <1>1, HttpKeeps DEF IInv
<1>4. Socket' = Socket /\ \A o \in Socket : fd[o] # n
  BY <1>1 DEF Socket
<1>5. IsFiniteSet(files')
  BY <1>1, FS_Subset DEF IInv, SocketInv
<1>6. FdOwned'
  BY <1>1, <1>4 DEF IInv, SocketInv, FdOwned
<1>7. SocketInv'
  BY <1>1, <1>4, <1>5, <1>6 DEF IInv, SocketInv
<1> QED
  BY <1>1, <1>2, <1>3, <1>7 DEF IInv

LEMMA ListenerKeeps ==
  ASSUME IInv, NEW l \in Listener,
         \/ Listen(l) \/ ListenClose(l)
         \/ \E c \in Conn : Accept(l, c) \/ AcceptReturns(l, c)
  PROVE IInv'
<1> USE Kinds
<1>1. CASE Listen(l)
  <2>1. Pin(l, "open") /\ OpenFile(l) /\ UNCHANGED <<phase, http, stack>> /\ stolen' = stolen
    BY <1>1 DEF Listen, OpenFile
  <2>2. RefInv' /\ HttpInv' /\ SocketInv' /\ \A q \in Query : life'[q] = life[q]
    BY <2>1, OpenConnKeeps
  <2>3. DnsFrames'
    BY <2>1, <2>2, FramesKeep
  <2> QED
    BY <2>1, <2>2, <2>3 DEF IInv
<1>2. CASE ListenClose(l)
  <2>1. /\ life[l] = "open" /\ UNCHANGED <<phase, http, stack>> /\ UNCHANGED <<fd, given, stolen>>
        /\ \/ Unpin(l, "closed") /\ UNCHANGED files
           \/ Unpin(l, "gone") /\ files' = files \ {fd[l]}
    BY <1>2 DEF ListenClose
  <2>2. PICK as \in {"closed", "gone"} : Unpin(l, as)
    BY <2>1
  <2>3. life' \in [Object -> Lives] /\ \A p \in Object : life'[p] = IF p = l THEN as ELSE life[p]
    BY <2>2, OneLife DEF Unpin, Becomes, Lives
  <2>4. RefInv'
    BY <2>1, <2>2, UnpinKeeps DEF IInv, Pinned
  <2>5. DnsFrames' /\ HttpInv'
    BY <2>1, <2>3, FramesKeep, HttpKeeps DEF IInv
  <2>6. SocketInv'
    <3>1. CASE UNCHANGED files
      BY <2>1, <2>3, <3>1, SocketKeeps DEF IInv, Socket
    <3>2. CASE Unpin(l, "gone") /\ files' = files \ {fd[l]}
      <4>1. \A p \in Object : life'[p] = IF p = l THEN "gone" ELSE life[p]
        BY <3>2, OneLife DEF Unpin, Becomes, Lives
      <4>2. l \in Socket /\ Socket' \subseteq Socket \ {l}
        BY <2>1, <4>1 DEF Socket
      <4>3. ~stolen => {fd[l]} \cap given = {}
        BY <4>2 DEF IInv, SocketInv
      <4> QED
        BY <2>1, <3>2, <4>2, <4>3, CloseKeeps DEF IInv
    <3> QED
      BY <2>1, <3>1, <3>2
  <2> QED
    BY <2>1, <2>4, <2>5, <2>6 DEF IInv
<1>3. ASSUME NEW c \in Conn, Accept(l, c) PROVE IInv'
  <2>1. /\ Pin(c, "open") /\ OpenFile(c) /\ UNCHANGED <<phase, http>> /\ stolen' = stolen
        /\ stack' = Push("accept", l, c)
    BY <1>3 DEF Accept, OpenFile
  <2>2. RefInv' /\ HttpInv' /\ SocketInv' /\ \A q \in Query : life'[q] = life[q]
    BY <2>1, OpenConnKeeps
  <2>3. DnsFrames'
    BY <2>1, <2>2, FramesKeep
  <2> QED
    BY <2>1, <2>2, <2>3 DEF IInv
<1>4. ASSUME NEW c \in Conn, AcceptReturns(l, c) PROVE IInv'
  <2> DEFINE as == IF life[l] = "closed" THEN "gone" ELSE life[l]
  <2>1. /\ stack # <<>> /\ stack' = Pop /\ UNCHANGED <<phase, http, ref, reg, fd, given>>
        /\ Becomes(l, as)
        /\ \/ life[l] = "closed" /\ files' = files \ {fd[l], fd[c]} /\ stolen' = TRUE
           \/ life[l] # "closed" /\ UNCHANGED <<files, given, stolen>>
    BY <1>4 DEF AcceptReturns, Returns, Becomes
  <2>2. life[l] \in Lives /\ as \in Lives
    BY DEF IInv, RefInv, Lives
  <2>3. life' \in [Object -> Lives] /\ \A p \in Object : life'[p] = IF p = l THEN as ELSE life[p]
    BY <2>1, <2>2, OneLife
  <2>4. RefInv'
    BY <2>1, <2>3, LifeKeeps DEF IInv, Pinned
  <2>5. DnsFrames' /\ HttpInv'
    BY <2>1, <2>3, FramesKeep, HttpKeeps DEF IInv
  <2>6. SocketInv'
    <3>1. CASE life[l] = "closed"
      <4>1. files' \subseteq Nat /\ IsFiniteSet(files')
        BY <2>1, <3>1, FS_Subset DEF IInv, SocketInv
      <4> QED
        BY <2>1, <3>1, <4>1 DEF IInv, SocketInv, FdOwned
    <3>2. CASE life[l] # "closed"
      BY <2>1, <2>3, <3>2, SocketKeeps DEF IInv, Socket
    <3> QED
      BY <3>1, <3>2
  <2> QED
    BY <2>1, <2>4, <2>5, <2>6 DEF IInv
<1> QED
  BY <1>1, <1>2, <1>3, <1>4

LEMMA HttpdKeeps ==
  ASSUME IInv, NEW h \in Httpd,
         Serve(h) \/ HttpdClose(h) \/ \E r \in Request : OnHttpdRequest(h, r)
  PROVE IInv'
<1> USE Kinds
<1>1. CASE Serve(h)
  <2>1. Pin(h, "open") /\ UNCHANGED <<phase, http, stack>> /\ UNCHANGED <<fd, files, given, stolen>>
    BY <1>1 DEF Serve, sockets
  <2>2. life[h] = "unused" /\ life' \in [Object -> Lives]
        /\ \A p \in Object : life'[p] = IF p = h THEN "open" ELSE life[p]
    BY <2>1, OneLife DEF Pin, Becomes, Lives
  <2>3. RefInv'
    BY <2>1, PinKeeps DEF IInv
  <2>4. DnsFrames' /\ HttpInv'
    BY <2>1, <2>2, FramesKeep, HttpKeeps DEF IInv
  <2>5. SocketInv'
    BY <2>1, <2>2, SocketKeeps DEF IInv, Socket
  <2> QED
    BY <2>1, <2>3, <2>4, <2>5 DEF IInv
<1>2. CASE HttpdClose(h)
  <2>1. /\ life[h] = "open" /\ Unpin(h, "closed") /\ UNCHANGED <<phase, stack>>
        /\ http' = FreedWith(h) /\ UNCHANGED <<fd, files, given, stolen>>
    BY <1>2 DEF HttpdClose, sockets
  <2>2. life' \in [Object -> Lives] /\ \A p \in Object : life'[p] = IF p = h THEN "closed" ELSE life[p]
    BY <2>1, OneLife DEF Unpin, Becomes, Lives
  <2>3. RefInv'
    BY <2>1, UnpinKeeps DEF IInv, Pinned
  <2>4. DnsFrames'
    BY <2>1, <2>2, FramesKeep
  <2>5. \A r \in Request :
          /\ http'[r].by = http[r].by
          /\ \/ http'[r].state = "freed" /\ http[r].by = h /\ http[r].state # "none"
             \/ http'[r] = http[r]
          /\ life'[r] = life[r]
    BY <2>1, <2>2 DEF FreedWith, IInv, HttpInv
  <2>6. http' \in [Request -> [state : {"none", "held", "detached", "sending", "freed"},
                               by : Httpd \cup {Nobody}]]
    BY <2>1 DEF FreedWith, IInv, HttpInv
  <2>7. \A g \in Httpd : life[g] = "closed" \/ g = h => life'[g] = "closed"
    BY <2>2
  <2>8. DanglingCause'
    BY <2>1, <2>5, <2>7 DEF IInv, HttpInv, DanglingCause
  <2>9. \A r \in Request :
          /\ http'[r].state = "none" \/ http'[r].by \in Httpd
          /\ http'[r].state = "none" => life'[r] = "unused"
          /\ http'[r].state = "sending" => life'[r] = "closed"
    BY <2>5 DEF IInv, HttpInv
  <2>10. SocketInv'
    BY <2>1, <2>2, SocketKeeps DEF IInv, Socket
  <2> QED
    BY <2>1, <2>3, <2>4, <2>6, <2>8, <2>9, <2>10 DEF IInv, HttpInv
<1>3. ASSUME NEW r \in Request, OnHttpdRequest(h, r) PROVE IInv'
  <2>1. /\ life[h] = "open" /\ Pin(r, "open") /\ phase = "loop" /\ phase' = phase
        /\ http' = [http EXCEPT ![r] = [state |-> "held", by |-> h]]
        /\ stack' = Push("http", h, Nobody) /\ UNCHANGED <<fd, files, given, stolen>>
    BY <1>3 DEF OnHttpdRequest, Polling, sockets
  <2>2. life' \in [Object -> Lives] /\ \A p \in Object : life'[p] = IF p = r THEN "open" ELSE life[p]
    BY <2>1, OneLife DEF Pin, Becomes, Lives
  <2>3. RefInv'
    BY <2>1, PinKeeps DEF IInv
  <2>4. DnsFrames'
    BY <2>1, <2>2, FramesKeep
  <2>5. /\ http' \in [Request -> [state : {"none", "held", "detached", "sending", "freed"},
                                  by : Httpd \cup {Nobody}]]
        /\ \A q \in Request : http'[q] = IF q = r THEN [state |-> "held", by |-> h] ELSE http[q]
    BY <2>1 DEF IInv, HttpInv
  <2>6. HttpInv'
    BY <2>1, <2>2, <2>5 DEF IInv, HttpInv, DanglingCause
  <2>7. SocketInv'
    BY <2>1, <2>2, SocketKeeps DEF IInv, Socket
  <2> QED
    BY <2>1, <2>3, <2>4, <2>6, <2>7 DEF IInv
<1> QED
  BY <1>1, <1>2, <1>3

(* libevent moves a request on.                                            *)
LEMMA HttpMoves ==
  ASSUME IInv, NEW r \in Request, NEW to \in {"detached", "freed"}, phase' = phase,
         http[r].state \in {"held", "sending"}, to = "freed" => http[r].state = "sending",
         http' = [http EXCEPT ![r].state = to], UNCHANGED stack,
         UNCHANGED places, UNCHANGED sockets
  PROVE IInv'
<1>1. /\ http' \in [Request -> [state : {"none", "held", "detached", "sending", "freed"},
                                by : Httpd \cup {Nobody}]]
      /\ \A q \in Request : http'[q].by = http[q].by
           /\ http'[q].state = IF q = r THEN to ELSE http[q].state
  BY DEF IInv, HttpInv
<1>2. HttpInv'
  BY <1>1 DEF IInv, HttpInv, DanglingCause, places
<1>3. RefInv' /\ SocketInv'
  BY SocketKeeps DEF IInv, RefInv, RefsExact, Pinned, places, sockets, Socket
<1>4. DnsFrames'
  BY FramesKeep DEF places
<1> QED
  BY <1>2, <1>3, <1>4 DEF IInv, sockets

LEMMA RequestKeeps ==
  ASSUME IInv, NEW r \in Request,
         ClientLeaves(r) \/ ClientSends(r) \/ Reply(r) \/ ReplyFreed(r) \/ Sent(r)
  PROVE IInv'
<1> USE Kinds
<1>1. CASE ClientLeaves(r)
  BY <1>1, HttpMoves DEF ClientLeaves
<1>2. CASE Sent(r)
  BY <1>2, HttpMoves DEF Sent
<1>3. CASE ClientSends(r)
  <2>1. DnsFrames'
    BY <1>3, FramesKeep DEF ClientSends, places
  <2> QED
    BY <1>3, <2>1, QuietKeeps DEF ClientSends
<1>4. CASE Reply(r) \/ ReplyFreed(r)
  <2>1. /\ life[r] = "open" /\ Unpin(r, "closed") /\ UNCHANGED stack
        /\ UNCHANGED <<fd, files, given, stolen>>
    BY <1>4 DEF Reply, ReplyFreed, sockets
  <2>2. life' \in [Object -> Lives] /\ \A p \in Object : life'[p] = IF p = r THEN "closed" ELSE life[p]
    BY <2>1, OneLife DEF Unpin, Becomes, Lives
  <2>3. RefInv'
    BY <2>1, UnpinKeeps DEF IInv, Pinned
  <2>4. DnsFrames'
    BY <2>1, <2>2, FramesKeep
  <2>5. SocketInv'
    BY <2>1, <2>2, SocketKeeps DEF IInv, Socket
  <2>6. /\ http' \in [Request -> [state : {"none", "held", "detached", "sending", "freed"},
                                  by : Httpd \cup {Nobody}]]
        /\ \A q \in Request : http'[q].by = http[q].by /\ (q # r => http'[q] = http[q])
        /\ http'[r].state # "none"
    BY <1>4 DEF Reply, ReplyFreed, IInv, HttpInv
  <2>7. phase' = phase \/ (phase' = "crashed" /\ http[r].state = "freed")
    <3>1. CASE Reply(r)
      BY <3>1 DEF Reply
    <3>2. CASE ReplyFreed(r)
      BY <3>2 DEF ReplyFreed
    <3> QED
      BY <1>4, <3>1, <3>2
  <2>8. \A h \in Httpd : life'[h] = life[h]
    BY <2>2
  <2>9. http[r].state = "freed" => http[r].by \in Httpd /\ life[http[r].by] = "closed"
    BY <2>1 DEF IInv, HttpInv, DanglingCause
  <2>10. DanglingCause'
    BY <2>2, <2>6, <2>7, <2>8, <2>9 DEF IInv, HttpInv, DanglingCause
  <2>11. http[r].state # "none" /\ \A q \in Request : q # r => life'[q] = life[q]
    BY <1>4, <2>2 DEF Reply, ReplyFreed
  <2>12. HttpInv'
    BY <2>2, <2>6, <2>10, <2>11 DEF IInv, HttpInv
  <2> QED
    BY <2>1, <2>3, <2>4, <2>5, <2>7, <2>12 DEF IInv
<1> QED
  BY <1>1, <1>2, <1>3, <1>4

LEMMA QueryKeeps ==
  ASSUME IInv, NEW q \in Query, Dns(q) \/ DnsResponse(q) \/ DnsReturns(q)
  PROVE IInv'
<1> USE Kinds
<1>1. /\ UNCHANGED <<phase, http>> /\ UNCHANGED <<fd, files, given, stolen>>
      /\ \E as \in {"open", "answering", "closed"} : Becomes(q, as)
  BY DEF Dns, DnsResponse, DnsReturns, Pin, Unpin, Becomes, sockets
<1>2. PICK as \in {"open", "answering", "closed"} : Becomes(q, as)
  BY <1>1
<1>3. life' \in [Object -> Lives] /\ \A p \in Object : life'[p] = IF p = q THEN as ELSE life[p]
  <2>1. as \in Lives /\ q \in Object
    BY DEF Lives
  <2> QED
    BY <1>2, <2>1, OneLife
<1>4. HttpInv' /\ SocketInv'
  BY <1>1, <1>3, HttpKeeps, SocketKeeps DEF IInv, Socket
<1>5. [kind |-> "dns", by |-> q, conn |-> Nobody] \in Frame
  BY DEF Frame
<1>6. CASE Dns(q)
  <2>1. PICK to \in {"open", "answering"} :
          /\ Pin(q, to)
          /\ IF to = "open" THEN UNCHANGED stack ELSE stack' = Push("dns", q, Nobody)
    BY <1>6 DEF Dns
  <2>2. RefInv'
    BY <2>1, PinKeeps DEF IInv
  <2>3. life[q] = "unused" /\ \A p \in Object : life'[p] = IF p = q THEN to ELSE life[p]
    BY <2>1, OneLife DEF Pin, Becomes, Lives
  <2>4. DnsFrames'
    <3>1. CASE to = "open"
      BY <2>1, <2>3, <3>1, FramesKeep
    <3>2. CASE to = "answering"
      BY <1>5, <2>1, <2>3, <3>2, PushKeeps DEF IInv
    <3> QED
      BY <3>1, <3>2
  <2> QED
    BY <1>1, <1>4, <2>2, <2>4 DEF IInv
<1>7. CASE DnsResponse(q)
  <2>1. /\ life[q] = "open" /\ Becomes(q, "answering") /\ UNCHANGED <<ref, reg>>
        /\ stack' = Push("dns", q, Nobody)
    BY <1>7 DEF DnsResponse, Becomes
  <2>2. life' \in [Object -> Lives] /\ \A p \in Object : life'[p] = IF p = q THEN "answering" ELSE life[p]
    BY <2>1, OneLife DEF Lives
  <2>3. RefInv'
    BY <2>1, <2>2, LifeKeeps DEF IInv, Pinned
  <2>4. DnsFrames'
    BY <1>5, <2>1, <2>2, PushKeeps DEF IInv
  <2> QED
    BY <1>1, <1>4, <2>3, <2>4 DEF IInv
<1>8. CASE DnsReturns(q)
  <2>1. /\ stack # <<>> /\ stack[Len(stack)].kind = "dns" /\ stack[Len(stack)].by = q
        /\ stack' = Pop /\ Unpin(q, "closed")
    BY <1>8 DEF DnsReturns, Returns
  <2>2. Len(stack) \in DOMAIN stack
    BY <2>1 DEF IInv, DnsFrames
  <2>3. life[q] = "answering"
    BY <2>1, <2>2 DEF IInv, DnsFrames
  <2>4. RefInv'
    BY <2>1, <2>3, UnpinKeeps DEF IInv, Pinned
  <2>5. \A p \in Query : p # q => life'[p] = life[p]
    BY <1>3
  <2>6. DnsFrames'
    BY <2>1, <2>5, PopKeeps DEF IInv
  <2> QED
    BY <1>1, <1>4, <2>4, <2>6 DEF IInv
<1> QED
  BY <1>6, <1>7, <1>8

(* The process ends: nothing else changes.                                 *)
LEMMA FaultKeeps ==
  ASSUME IInv, NEW q \in Query, DnsFaults(q)
  PROVE IInv'
<1>1. DnsFrames'
  BY FramesKeep DEF DnsFaults, places
<1> QED
  BY <1>1, QuietKeeps DEF DnsFaults

LEMMA IInvHolds == Spec => []IInv
<1>1. Init => IInv
  <2> SUFFICES ASSUME Init PROVE IInv
    OBVIOUS
  <2>1. RefInv
    <3>1. Sound(EmptyRegistry, Object) /\ \A o \in Object : Owns(EmptyRegistry, o) = {}
      BY EmptySound
    <3>2. reg = EmptyRegistry /\ \A o \in Object : ~Pinned(o)
      BY DEF Init, Pinned
    <3>3. life \in [Object -> Lives] /\ ref \in [Object -> Nat]
      BY DEF Init, Lives
    <3> QED
      BY <3>1, <3>2, <3>3 DEF RefInv, RefsExact, Owns
  <2>2. DnsFrames
    BY DEF Init, DnsFrames
  <2>3. HttpInv
    BY Kinds DEF Init, HttpInv, DanglingCause
  <2>4. SocketInv
    BY Kinds, ServicesAssumption DEF Init, SocketInv, FdOwned, Socket
  <2> QED
    BY <2>1, <2>2, <2>3, <2>4 DEF IInv, Init
<1>2. IInv /\ [Next]_vars => IInv'
  <2> SUFFICES ASSUME IInv, [Next]_vars PROVE IInv'
    OBVIOUS
  <2>1. CASE OtherEvent \/ Returned \/ Dispatch \/ LoopEnds \/ DispatchEnds
    BY <2>1, LoopKeeps
  <2>2. CASE \E c \in Conn : \/ Connect(c) \/ ConnectComplete(c) \/ Bind(c)
                            \/ Linger(c) \/ CloseConn(c) \/ Finalize(c)
    BY <2>2, ConnKeeps
  <2>3. CASE \E l \in Listener :
               Listen(l) \/ ListenClose(l) \/ \E c \in Conn : Accept(l, c) \/ AcceptReturns(l, c)
    BY <2>3, ListenerKeeps
  <2>4. CASE \E h \in Httpd : Serve(h) \/ HttpdClose(h) \/ \E r \in Request : OnHttpdRequest(h, r)
    BY <2>4, HttpdKeeps
  <2>5. CASE \E r \in Request :
               ClientLeaves(r) \/ ClientSends(r) \/ Reply(r) \/ ReplyFreed(r) \/ Sent(r)
    BY <2>5, RequestKeeps
  <2>6. CASE \E q \in Query : Dns(q) \/ DnsResponse(q) \/ DnsReturns(q) \/ DnsFaults(q)
    BY <2>6, QueryKeeps, FaultKeeps
  <2>7. CASE \E n \in Given : CloseGiven(n)
    BY <2>7, CloseGivenKeeps
  <2>8. CASE UNCHANGED vars
    BY <2>8 DEF vars, IInv, RefInv, RefsExact, Pinned, DnsFrames, HttpInv, DanglingCause,
                SocketInv, FdOwned, Socket
  <2> QED
    BY <2>1, <2>2, <2>3, <2>4, <2>5, <2>6, <2>7, <2>8 DEF Next
<1> QED
  BY <1>1, <1>2, PTL DEF Spec

-----------------------------------------------------------------------------
(* The registry holds each userdata that is needed at its own reference,   *)
(* and nothing else.                                                       *)
THEOREM RegistryExact == Spec => []RefsExact
BY IInvHolds, PTL DEF IInv, RefInv

(* A request is freed under Lua only with its server.                      *)
THEOREM DanglesByClose == Spec => []DanglingCause
BY IInvHolds, PTL DEF IInv, HttpInv

(* Sockets own their descriptors unless an EV_ACCEPT handler closed its    *)
(* listener.                                                               *)
THEOREM DescriptorsOwned == Spec => []FdOwned
BY IInvHolds, PTL DEF IInv, SocketInv

(* The variables of Services keep their types.                             *)
THEOREM TypeCorrect == Spec => []TypeOK
<1>1. IInv => TypeOK
  <2>1. IInv => reg \in [slot : Seq(Object \cup Nat), free : Nat]
    BY DEF IInv, RefInv, Sound, Free
  <2> QED
    BY <2>1 DEF IInv, RefInv, DnsFrames, Frame, HttpInv, SocketInv, TypeOK, Lives
<1> QED
  BY <1>1, IInvHolds, PTL
=============================================================================
