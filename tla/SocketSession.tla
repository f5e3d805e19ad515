---------------------------- MODULE SocketSession ----------------------------
(***************************************************************************)
(* A session of socket/socket_tcp.c: input and output as lists of buffers  *)
(* over one non-blocking socket, the events that wait for it, and the free *)
(* list of buffer headers that a loop context keeps.                       *)
(*                                                                         *)
(* rio and wio are made without EV_PERSIST: libevent takes an event back   *)
(* before it calls its callback. Every user callback is the last thing a   *)
(* function of the session does, so the calls user code makes inside one   *)
(* are steps of their own. While _ev_read_cb reads, no user code runs, but *)
(* bytes go on arriving.                                                   *)
(***************************************************************************)
EXTENDS Integers, Sequences, SequencesExt, FiniteSets

CONSTANTS
  Node,       (* buffer headers; as many as memory holds (a bound)         *)
  Text,       (* letters of the bytes the peer may send (a bound)          *)
  Seps,       (* separators that lines are searched for, none of them ""   *)
  Maxes,      (* limits of input that ev_session_bind is given; 0 is none  *)
  MaxOut,     (* bytes written on a connection (a bound)                   *)
  MinBuffer, MaxBuffer   (* MIN_BUFFER_SIZE and MAX_BUFFER_SIZE            *)

ASSUME SocketSessionAssumption ==
  /\ MaxOut \in Nat /\ Maxes \subseteq Nat
  /\ Text \in Seq(ToSet(Text))
  /\ \A sep \in Seps : sep \in Seq(ToSet(sep)) /\ sep # <<>>
  /\ MinBuffer \in Nat \ {0} /\ MaxBuffer \in Nat /\ MinBuffer <= MaxBuffer

VARIABLES
  ses,      (* the fields of ev_session that are not lists                 *)
  in, out,  (* the lists input and output                                  *)
  free,     (* the free list of the loop context, its head first           *)
  rdb,      (* the buffer _ev_read_cb is filling, if it is running         *)
  room,     (* what is left of its size                                    *)
  net,      (* the connection: bytes not yet read, and whether it is gone  *)
  arrived,  (* history: how many bytes the peer has sent                   *)
  got,      (* history: the bytes ev_session_read has returned             *)
  written,  (* history: how many bytes ev_session_write has accepted       *)
  wire,     (* history: the bytes the socket has taken                     *)
  past      (* history: what has happened to the session, see Clean        *)

history == <<arrived, got, written, wire, past>>
vars == <<ses, in, out, free, rdb, room, net, history>>

(* A buffer: its header and data[0..wpos), of which rpos are used up.      *)
Buffer(n, bytes, rpos) == [node |-> n, bytes |-> bytes, rpos |-> rpos]
LeftOf(b) == SubSeq(b.bytes, b.rpos + 1, Len(b.bytes))
Contents(l) == FlattenSeq([i \in DOMAIN l |-> LeftOf(l[i])])
Nodes(l) == [i \in DOMAIN l |-> l[i].node]
Upto(l, i) == Len(Contents(SubSeq(l, 1, i)))

Numbers(first, n) == [i \in 1..n |-> first + i]

(* Both loops that use up n bytes of a list leave a buffer behind when all *)
(* of it is used and it was wanted, and stop inside the one after.         *)
UsedUp(l, n) == Cardinality({i \in DOMAIN l : Upto(l, i - 1) < n /\ Upto(l, i) <= n})
(* Mutant: the read position of the buffer is not moved.                   *)
AfterUnmoved(l, n) == SubSeq(l, UsedUp(l, n) + 1, Len(l))

After(l, n) ==
  LET k == UsedUp(l, n)
      rest == SubSeq(l, k + 1, Len(l))
  IN  IF rest = <<>> THEN rest ELSE [rest EXCEPT ![1].rpos = @ + (n - Upto(l, k))]
Reclaimed(l, n) == Reverse(Nodes(SubSeq(l, 1, UsedUp(l, n)))) \o free

(* buffer_next: the head of the free list, or a header from malloc.        *)
InUse == ToSet(free) \cup ToSet(Nodes(in)) \cup ToSet(Nodes(out)) \cup ToSet(Nodes(rdb))
(* Mutant: the free list keeps the header it gave.                         *)
GetsHead(n) ==
  /\ IF free # <<>> THEN n = Head(free) ELSE n \in Node \ InUse
  /\ UNCHANGED free

Gets(n) ==
  IF free # <<>> THEN n = Head(free) /\ free' = Tail(free)
                 ELSE n \in Node \ InUse /\ UNCHANGED free

NoSession == [bound |-> FALSE, alive |-> FALSE, rio |-> FALSE, wio |-> FALSE,
              threshold |-> MinBuffer, max |-> 0, inTotal |-> 0, outTotal |-> 0]

(* full      a read has filled the buffer of _ev_read_cb to its last byte  *)
(* empty     ev_session_write was given no bytes                           *)
(* overtaken bytes were written past output that was waiting               *)
(* paused    why output waits for no event: the last write of _ev_write_cb *)
(*           was partial, or ev_session_disable was called                 *)
CleanPast == [full |-> FALSE, empty |-> FALSE, overtaken |-> FALSE, paused |-> "no"]

Init ==
  /\ ses = NoSession
  /\ in = <<>> /\ out = <<>> /\ free = <<>>
  /\ rdb = <<>> /\ room = 0
  /\ net = [bytes |-> <<>>, gone |-> FALSE]
  /\ arrived = 0 /\ got = <<>> /\ written = 0 /\ wire = <<>>
  /\ past = CleanPast

(* User code may call the session: it is bound and its loop is not in the  *)
(* middle of _ev_read_cb.                                                  *)
UserCode == ses.bound /\ rdb = <<>>

(* What a failure does to a session: both events off, and event_cb.        *)
Dead(s) == [s EXCEPT !.alive = FALSE, !.rio = FALSE, !.wio = FALSE]

-----------------------------------------------------------------------------
(* The peer.                                                               *)

Arrive ==
  /\ ses.bound /\ ~net.gone /\ arrived < Len(Text)
  /\ arrived' = arrived + 1
  /\ net' = [net EXCEPT !.bytes = Append(@, arrived + 1)]
  /\ UNCHANGED <<ses, in, out, free, rdb, room, got, written, wire, past>>

PeerGone ==
  /\ ses.bound /\ ~net.gone
  /\ net' = [net EXCEPT !.gone = TRUE]
  /\ UNCHANGED <<ses, in, out, free, rdb, room, history>>

-----------------------------------------------------------------------------
(* _ev_read_cb: a buffer of threshold bytes, then one read after another.  *)

StartRead ==
  /\ ses.rio /\ rdb = <<>>
  /\ net.bytes # <<>> \/ net.gone
  /\ \E n \in Node : Gets(n) /\ rdb' = <<Buffer(n, <<>>, 0)>>
  /\ room' = ses.threshold
  /\ ses' = [ses EXCEPT !.rio = FALSE]
  /\ UNCHANGED <<in, out, net, history>>

(* The buffer joins the input; s is the session after the last read.       *)
EndRead(s, bytes) ==
  /\ in' = Append(in, Buffer(rdb[1].node, bytes, 0))
  /\ rdb' = <<>> /\ room' = 0
  /\ ses' = [s EXCEPT !.inTotal = @ + Len(bytes)]

(* Mutant: the threshold shrinks without limit.                            *)
AdaptedUnfloored(full) ==
  IF full
  THEN IF 2 * ses.threshold > MaxBuffer THEN MaxBuffer ELSE 2 * ses.threshold
  ELSE ses.threshold \div 2

Adapted(full) ==
  IF full
  THEN IF 2 * ses.threshold > MaxBuffer THEN MaxBuffer ELSE 2 * ses.threshold
  ELSE IF ses.threshold \div 2 < MinBuffer THEN MinBuffer ELSE ses.threshold \div 2

ReadSome ==
  /\ rdb # <<>> /\ room > 0 /\ net.bytes # <<>>
  /\ LET n == IF Len(net.bytes) < room THEN Len(net.bytes) ELSE room
         bytes == rdb[1].bytes \o SubSeq(net.bytes, 1, n)
         s == [ses EXCEPT !.threshold = Adapted(n = room)]
     IN  /\ net' = [net EXCEPT !.bytes = SubSeq(@, n + 1, Len(@))]
         /\ past' = [past EXCEPT !.full = @ \/ n = room]
         /\ IF ses.max > 0 /\ ses.inTotal + Len(bytes) >= ses.max
            THEN EndRead(s, bytes)
            ELSE /\ rdb' = <<Buffer(rdb[1].node, bytes, 0)>>
                 /\ room' = room - n
                 /\ ses' = s
                 /\ UNCHANGED in
  /\ UNCHANGED <<out, free, arrived, got, written, wire>>

(* Mutant: EAGAIN is taken for a failure like any other.                   *)
ReadBlocksFails ==
  /\ rdb # <<>> /\ room > 0 /\ net.bytes = <<>> /\ ~net.gone
  /\ EndRead(Dead(ses), rdb[1].bytes)
  /\ UNCHANGED <<out, free, net, history>>

ReadBlocks ==
  /\ rdb # <<>> /\ room > 0 /\ net.bytes = <<>> /\ ~net.gone
  /\ EndRead(ses, rdb[1].bytes)
  /\ UNCHANGED <<out, free, net, history>>

(* A read returns 0 or fails: the peer is gone, or the read was for no     *)
(* bytes because the buffer is full.                                       *)
ReadFails ==
  /\ rdb # <<>>
  /\ room = 0 \/ (net.bytes = <<>> /\ net.gone)
  /\ EndRead(Dead(ses), rdb[1].bytes)
  /\ UNCHANGED <<out, free, net, history>>

-----------------------------------------------------------------------------
(* _ev_write_cb and ev_session_write. socket_write writes until the socket *)
(* takes no more; it fails on a connection that is gone and for no bytes.  *)

(* Mutant: the position in a buffer that was sent in part is not moved.    *)
SendsAgain(n) ==
  /\ wire' = wire \o SubSeq(Contents(out), 1, n)
  /\ out' = AfterUnmoved(out, n)
  /\ free' = Reclaimed(out, n)

(* n bytes of the output are written and accounted for.                    *)
Sends(n) ==
  /\ wire' = wire \o SubSeq(Contents(out), 1, n)
  /\ out' = After(out, n)
  /\ free' = Reclaimed(out, n)

NoEmpty(l) == \A i \in DOMAIN l : LeftOf(l[i]) # <<>>

(* Each buffer is sent, up to the one of which the socket takes a part; an *)
(* empty one behind that is not reached.                                   *)
WriteCb ==
  /\ ses.wio /\ rdb = <<>>
  /\ \E n \in 0..Len(Contents(out)) :
       /\ \A i \in DOMAIN out : Upto(out, i - 1) <= n => LeftOf(out[i]) # <<>>
       /\ Sends(n)
       /\ ses' = [ses EXCEPT !.wio = FALSE, !.outTotal = @ - n]
       /\ past' = IF n < Len(Contents(out)) THEN [past EXCEPT !.paused = "partial"] ELSE past
  /\ UNCHANGED <<in, rdb, room, net, arrived, got, written>>

(* The write of buffer k + 1 fails, those before it were sent.             *)
WriteCbFails ==
  /\ ses.wio /\ rdb = <<>>
  /\ \E k \in 0..(Len(out) - 1) :
       /\ NoEmpty(SubSeq(out, 1, k))
       /\ net.gone \/ LeftOf(out[k + 1]) = <<>>
       /\ Sends(Upto(out, k))
       /\ ses' = Dead([ses EXCEPT !.outTotal = @ - Upto(out, k)])
  /\ UNCHANGED <<in, rdb, room, net, arrived, got, written, past>>

Queue(bytes, rpos) ==
  \E n \in Node : Gets(n) /\ out' = Append(out, Buffer(n, bytes, rpos))

(* Output is waiting for the socket: what is written waits behind it.      *)
WriteLater ==
  /\ UserCode /\ ses.alive /\ ses.wio
  /\ \E size \in 0..(MaxOut - written) :
       /\ Queue(Numbers(written, size), 0)
       /\ written' = written + size
       /\ ses' = [ses EXCEPT !.outTotal = @ + size]
       /\ past' = [past EXCEPT !.empty = @ \/ size = 0]
  /\ UNCHANGED <<in, rdb, room, net, arrived, got, wire>>

(* Mutant: the rest is queued and no event waits for the socket.           *)
WriteNowUnwatched ==
  /\ UserCode /\ ses.alive /\ ~ses.wio
  /\ \E size \in 1..(MaxOut - written) : \E sent \in 0..size :
       /\ wire' = wire \o Numbers(written, sent)
       /\ written' = written + size
       /\ IF sent = size
          THEN UNCHANGED <<ses, out, free>>
          ELSE /\ Queue(Numbers(written, size), sent)
               /\ ses' = [ses EXCEPT !.outTotal = @ + (size - sent)]
       /\ past' = [past EXCEPT !.overtaken = @ \/ out # <<>>,
                               !.paused = IF sent < size THEN "no" ELSE @]
  /\ UNCHANGED <<in, rdb, room, net, arrived, got>>

(* Nothing is pending: the socket is tried, the rest waits for it.         *)
WriteNow ==
  /\ UserCode /\ ses.alive /\ ~ses.wio
  /\ \E size \in 1..(MaxOut - written) : \E sent \in 0..size :
       /\ wire' = wire \o Numbers(written, sent)
       /\ written' = written + size
       /\ IF sent = size
          THEN UNCHANGED <<ses, out, free>>
          ELSE /\ Queue(Numbers(written, size), sent)
               /\ ses' = [ses EXCEPT !.wio = TRUE, !.outTotal = @ + (size - sent)]
       /\ past' = [past EXCEPT !.overtaken = @ \/ out # <<>>,
                               !.paused = IF sent < size THEN "no" ELSE @]
  /\ UNCHANGED <<in, rdb, room, net, arrived, got>>

WriteFails ==
  /\ UserCode /\ ses.alive /\ ~ses.wio
  /\ \E size \in 0..(MaxOut - written) :
       /\ net.gone \/ size = 0
       /\ past' = [past EXCEPT !.empty = @ \/ size = 0]
  /\ ses' = Dead(ses)
  /\ UNCHANGED <<in, out, free, rdb, room, net, arrived, got, written, wire>>

-----------------------------------------------------------------------------
(* Reading the input.                                                      *)

(* ev_session_read, with size already cut to the input.                    *)
Takes(size) ==
  /\ got' = got \o SubSeq(Contents(in), 1, size)
  /\ in' = After(in, size)
  /\ free' = Reclaimed(in, size)
  /\ ses' = [ses EXCEPT !.inTotal = @ - size]
  /\ UNCHANGED <<out, rdb, room, net, arrived, written, wire, past>>

Read == UserCode /\ \E size \in 1..ses.inTotal : Takes(size)

Letters(bytes) == [i \in DOMAIN bytes |-> Text[bytes[i]]]
LettersFrom(b, from) == Letters(SubSeq(b.bytes, from + 1, Len(b.bytes)))

(* Mutant: the buffers after the first are compared from the same place.   *)
CheckEolShifted(l, first, from, sep) ==
  LET match[p \in (first..(Len(l) + 1)) \X (0..Len(sep))] ==
        IF p[1] > Len(l) THEN FALSE
        ELSE LET here == LettersFrom(l[p[1]], from)
                 want == SubSeq(sep, p[2] + 1, Len(sep))
             IN  IF Len(here) >= Len(want)
                 THEN SubSeq(here, 1, Len(want)) = want
                 ELSE /\ here = SubSeq(want, 1, Len(here))
                      /\ match[<<p[1] + 1, p[2] + Len(here)>>]
  IN  match[<<first, 0>>]

(* check_eol: the separator starts at from in buffer first and may go on   *)
(* in the buffers after it, of which data is compared from its beginning.  *)
(* p is a buffer, and how much of the separator those before it held.      *)
CheckEol(l, first, from, sep) ==
  LET match[p \in (first..(Len(l) + 1)) \X (0..Len(sep))] ==
        IF p[1] > Len(l) THEN FALSE
        ELSE LET here == LettersFrom(l[p[1]], IF p[1] = first THEN from ELSE 0)
                 want == SubSeq(sep, p[2] + 1, Len(sep))
             IN  IF Len(here) >= Len(want)
                 THEN SubSeq(here, 1, Len(want)) = want
                 ELSE /\ here = SubSeq(want, 1, Len(here))
                      /\ match[<<p[1] + 1, p[2] + Len(here)>>]
  IN  match[<<first, 0>>]

(* search_eol: the end of the first separator, counted from the start of   *)
(* the input; -1 without one.                                              *)
SearchEol(l, sep) ==
  LET Hits(i) == {from \in l[i].rpos .. Len(l[i].bytes) - 1 : CheckEol(l, i, from, sep)}
      offsets == UNION {{Upto(l, i - 1) + (from - l[i].rpos) : from \in Hits(i)} :
                          i \in DOMAIN l}
  IN  IF offsets = {} THEN -1
      ELSE (CHOOSE o \in offsets : \A p \in offsets : o <= p) + Len(sep)

(* ev_session_read_util                                                    *)
ReadLine ==
  /\ UserCode
  /\ \E sep \in Seps : SearchEol(in, sep) > 0 /\ Takes(SearchEol(in, sep))

-----------------------------------------------------------------------------
(* The session and its loop context.                                       *)

Bind ==
  /\ ~ses.bound
  /\ \E max \in Maxes :
       ses' = [NoSession EXCEPT !.bound = TRUE, !.alive = TRUE, !.max = max]
  /\ net' = [bytes |-> <<>>, gone |-> FALSE]
  /\ arrived' = 0 /\ got' = <<>> /\ written' = 0 /\ wire' = <<>>
  /\ past' = CleanPast
  /\ UNCHANGED <<in, out, free, rdb, room>>

(* ev_session_free: the buffers go back to malloc, not to the free list.   *)
Free ==
  /\ UserCode
  /\ ses' = NoSession
  /\ in' = <<>> /\ out' = <<>>
  /\ UNCHANGED <<free, rdb, room, net, history>>

EnableRead ==
  /\ UserCode /\ ~ses.rio
  /\ ses' = [ses EXCEPT !.rio = TRUE]
  /\ UNCHANGED <<in, out, free, rdb, room, net, history>>

EnableWrite ==
  /\ UserCode /\ ~ses.wio
  /\ ses' = [ses EXCEPT !.wio = TRUE]
  /\ past' = [past EXCEPT !.paused = "no"]
  /\ UNCHANGED <<in, out, free, rdb, room, net, arrived, got, written, wire>>

DisableRead ==
  /\ UserCode /\ ses.rio
  /\ ses' = [ses EXCEPT !.rio = FALSE]
  /\ UNCHANGED <<in, out, free, rdb, room, net, history>>

DisableWrite ==
  /\ UserCode /\ ses.wio
  /\ ses' = [ses EXCEPT !.wio = FALSE]
  /\ past' = [past EXCEPT !.paused = "disabled"]
  /\ UNCHANGED <<in, out, free, rdb, room, net, arrived, got, written, wire>>

(* loop_ctx_clean                                                          *)
Clean ==
  /\ rdb = <<>> /\ free # <<>>
  /\ free' = <<>>
  /\ UNCHANGED <<ses, in, out, rdb, room, net, history>>

Next ==
  \/ Arrive \/ PeerGone
  \/ StartRead \/ ReadSome \/ ReadBlocks \/ ReadFails
  \/ WriteCb \/ WriteCbFails \/ WriteLater \/ WriteNow \/ WriteFails
  \/ Read \/ ReadLine
  \/ Bind \/ Free \/ EnableRead \/ EnableWrite \/ DisableRead \/ DisableWrite
  \/ Clean

Spec == Init /\ [][Next]_vars

-----------------------------------------------------------------------------
(* Every variable has its type: lists of buffers over byte numbers, a      *)
(* threshold between its limits, reading only on a bound session.          *)
Buffers == [node : Node, bytes : Seq(Nat), rpos : Nat]
TypeOK ==
  /\ ses \in [bound : BOOLEAN, alive : BOOLEAN, rio : BOOLEAN, wio : BOOLEAN,
              threshold : MinBuffer..MaxBuffer, max : Maxes \cup {0},
              inTotal : Nat, outTotal : Nat]
  /\ \A l \in {in, out, rdb} : \A i \in DOMAIN l :
       l[i] \in Buffers /\ l[i].rpos <= Len(l[i].bytes)
  /\ free \in Seq(Node) /\ Len(rdb) <= 1 /\ room \in 0..MaxBuffer
  /\ net \in [bytes : Seq(Nat), gone : BOOLEAN]
  /\ arrived \in 0..Len(Text) /\ written \in 0..MaxOut
  /\ got \in Seq(Nat) /\ wire \in Seq(Nat)
  /\ past \in [full : BOOLEAN, empty : BOOLEAN, overtaken : BOOLEAN,
               paused : {"no", "partial", "disabled"}]
  /\ rdb # <<>> => ses.bound

(* A buffer header is in one place: the free list, the input, the output   *)
(* or the read in progress, and there once. (buffer_reclaim links headers  *)
(* by the same next field as the lists do.)                                *)
NodesApart == IsInjective(free \o Nodes(in) \o Nodes(out) \o Nodes(rdb))

(* What the lists hold is what their totals say, on which ev_session_read  *)
(* relies not to run off the end of the list, and _ev_write_cb in its      *)
(* assertion that nothing is left when the list is empty.                  *)
Accounted ==
  /\ ses.inTotal = Len(Contents(in))
  /\ ses.outTotal = Len(Contents(out))

ListsSound == NodesApart /\ Accounted

(* Input is a queue of bytes: ev_session_read hands out what has arrived,  *)
(* in order and each byte once, whatever buffers it was read into.         *)
Input == INSTANCE ByteQueue WITH put <- arrived, taken <- got
InputQueue == Input!Spec

(* Of what a live session has accepted each byte is sent once or waits; as *)
(* long as no write went past output that was waiting, in order.           *)
OutputKept ==
  ses.alive =>
    LET all == wire \o Contents(out) IN
    /\ Len(all) = written /\ ToSet(all) = 1..written
    /\ ~past.overtaken => all = Numbers(0, written)

(* Output of a live session waits for the socket, unless writing was       *)
(* disabled or _ev_write_cb has just written a part: it returns without    *)
(* adding its event again.                                                 *)
OutputWaits ==
  ses.alive /\ out # <<>> /\ ~ses.wio => past.paused # "no"

(* A session dies only of a peer that is gone, of a read that filled its   *)
(* buffer (the next read, of no bytes, is taken for the end) or of a write *)
(* of no bytes.                                                            *)
DeadCause ==
  ses.bound /\ ~ses.alive => net.gone \/ past.full \/ past.empty

(* The search over the buffers finds what a search of the whole input      *)
(* finds: the end of the first separator. It relies on every buffer but    *)
(* the first being unread.                                                 *)
SearchRight ==
  LET text == Letters(Contents(in)) IN
  \A sep \in Seps :
    LET ends == {e \in Len(sep)..Len(text) : SubSeq(text, e - Len(sep) + 1, e) = sep} IN
    SearchEol(in, sep) =
      IF ends = {} THEN -1 ELSE CHOOSE e \in ends : \A d \in ends : e <= d
=============================================================================
