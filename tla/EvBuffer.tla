------------------------------- MODULE EvBuffer ------------------------------
(***************************************************************************)
(* The life of the connections of event/event.c: a levbuffer userdata, the *)
(* libevent bufferevent under it with its reference count, and the         *)
(* registry reference by which callbacks find the userdata.                *)
(*                                                                         *)
(* libevent calls back (a frame of the stack), the callback calls into Lua *)
(* and user code calls back into event.c before it returns: it opens,      *)
(* writes and closes any buffer it knows, the one whose callback runs      *)
(* included. A connect that fails at once calls back inside bufferevent_   *)
(* socket_connect.                                                         *)
(***************************************************************************)
EXTENDS Integers, Sequences, Registry

CONSTANTS
  Buf,       (* identities of levbuffers; one is used again once freed     *)
  MaxOut,    (* units of output a buffer may hold (a bound)                *)
  MaxDepth,  (* callbacks inside one another (a bound)                     *)
  Nobody     (* not a buffer                                               *)

ASSUME EvBufferAssumption ==
  /\ Nobody \notin Buf /\ Buf \cap Nat = {}
  /\ MaxOut \in Nat /\ MaxDepth \in Nat

VARIABLES
  buf,      (* the levbuffers and their bufferevents                       *)
  reg,      (* the Lua registry, as far as buffers use it                  *)
  stack,    (* callbacks in progress, innermost last                       *)
  aborted,  (* an assertion has failed and the process is gone             *)
  told,     (* history: the last event Lua got for each buffer             *)
  twice     (* history: what led to a second destroy of one buffer         *)

vars == <<buf, reg, stack, aborted, told, twice>>

(* life of the bufferevent: "final" once its last reference is dropped     *)
(* refcnt its references (negative: the assertion on it has failed)        *)
(* cb     the callbacks set: of connect, of a stream, or of a closing one  *)
(* net    what the socket waits for                                        *)
(* rd, wr ev_read and ev_write are pending                                 *)
(* out    units in the output buffer                                       *)
(* known  Lua has been given the userdata                                  *)
Unused ==
  [life |-> "unused", refcnt |-> 0, cb |-> "none", net |-> "idle", rd |-> FALSE,
   wr |-> FALSE, out |-> 0, closed |-> FALSE, known |-> FALSE, ref |-> 0]

Top == stack[Len(stack)]
Push(k, b) == Append(stack, [kind |-> k, b |-> b])
Pop == SubSeq(stack, 1, Len(stack) - 1)
InCallback(k, b) == \E i \in DOMAIN stack : stack[i] = [kind |-> k, b |-> b]

Polling == ~aborted /\ stack = <<>>
UserCode == ~aborted /\ stack # <<>>

(* The userdata that a callback for b fetches from the registry.           *)
Found(b) == IF reg.slot[buf[b].ref] \in Buf THEN reg.slot[buf[b].ref] ELSE Nobody
Tell(b, what) == [c \in Buf |-> IF c = Found(b) THEN what ELSE told[c]]

(* bufferevent_decref_and_unlock_, n times, and when its assertion fails.  *)
Drop(r, n) ==
  [r EXCEPT !.refcnt = @ - n,
            !.life = IF @ = "live" /\ r.refcnt <= n THEN "final" ELSE @]
Asserts(r, n) == r.refcnt < n

(* _bufferevent_destroy, but for the registry: bufferevent_free drops the  *)
(* callbacks and a reference, and n more are dropped by the callers.       *)
Destroyed(r, n) == Drop([r EXCEPT !.closed = TRUE, !.cb = "none"], n + 1)

Init ==
  /\ buf = [b \in Buf |-> Unused]
  /\ reg = EmptyRegistry
  /\ stack = <<>>
  /\ aborted = FALSE
  /\ told = [b \in Buf |-> "nothing"]
  /\ twice = {}

-----------------------------------------------------------------------------
(* What libevent calls, from its loop.                                     *)

(* A timer, a listener, a signal of the program: Lua runs. Buffers that    *)
(* are final have been freed before the loop polls again.                  *)
OtherEvent ==
  /\ Polling
  /\ buf' = [b \in Buf |-> IF buf[b].life = "final" THEN Unused ELSE buf[b]]
  /\ told' = [b \in Buf |-> IF buf[b].life = "final" THEN "nothing" ELSE told[b]]
  /\ stack' = Push("other", Nobody)
  /\ UNCHANGED <<reg, aborted, twice>>

(* bufferevent_readcb with data: read_complete.                            *)
Readable(b) ==
  /\ Polling
  /\ buf[b].life = "live" /\ buf[b].rd
  /\ IF buf[b].cb = "stream"
       THEN /\ buf' = [buf EXCEPT ![b].refcnt = @ + 1]
            /\ told' = Tell(b, "data")
            /\ stack' = Push("data", b)
       ELSE UNCHANGED <<buf, told, stack>>
  /\ UNCHANGED <<reg, aborted, twice>>

(* bufferevent_readcb with an end of file or an error: event_happen.       *)
ReadFails(b) ==
  /\ Polling
  /\ buf[b].life = "live" /\ buf[b].rd
  /\ buf' = [buf EXCEPT ![b].refcnt = @ + 1, ![b].rd = FALSE]
  /\ told' = Tell(b, "error")
  /\ stack' = Push("error", b)
  /\ UNCHANGED <<reg, aborted, twice>>

(* bufferevent_writecb, connected: n units go out; once nothing is left,   *)
(* ev_write is deleted and the write callback, if there is one, runs:      *)
(* write_complete.                                                         *)
Writable(b) ==
  /\ Polling
  /\ buf[b].life = "live" /\ buf[b].wr /\ buf[b].net = "idle"
  /\ \E n \in 0 .. buf[b].out :
       /\ n > 0 \/ buf[b].out = 0
       /\ LET r == [buf[b] EXCEPT !.out = @ - n, !.wr = n < buf[b].out]
          IN IF r.out = 0 /\ r.cb = "drain"
               THEN /\ buf' = [buf EXCEPT ![b] = [r EXCEPT !.refcnt = @ + 1]]
                    /\ told' = Tell(b, "error")
                    /\ stack' = Push("drain", b)
               ELSE /\ buf' = [buf EXCEPT ![b] = r]
                    /\ UNCHANGED <<told, stack>>
  /\ UNCHANGED <<reg, aborted, twice>>

(* The write fails: event_happen.                                          *)
WriteFails(b) ==
  /\ Polling
  /\ buf[b].life = "live" /\ buf[b].wr /\ buf[b].net = "idle" /\ buf[b].out > 0
  /\ buf' = [buf EXCEPT ![b].refcnt = @ + 1, ![b].wr = FALSE]
  /\ told' = Tell(b, "error")
  /\ stack' = Push("error", b)
  /\ UNCHANGED <<reg, aborted, twice>>

(* bufferevent_writecb, connecting: connect_complete. On failure it        *)
(* destroys the buffer before it calls Lua, with the session only.         *)
Connected(b) ==
  /\ Polling
  /\ buf[b].life = "live" /\ buf[b].net = "handshake"
  /\ buf' = [buf EXCEPT ![b].refcnt = @ + 1, ![b].net = "idle", ![b].cb = "stream",
                        ![b].rd = TRUE, ![b].known = TRUE]
  /\ told' = Tell(b, "connected")
  /\ stack' = Push("connected", b)
  /\ UNCHANGED <<reg, aborted, twice>>

ConnectFails(b) ==
  /\ Polling
  /\ buf[b].life = "live" /\ buf[b].net \in {"handshake", "refused"}
  /\ LET r == [buf[b] EXCEPT !.net = "idle", !.wr = FALSE]
         (* the deferred callback of a refused one holds a reference already *)
         held == IF buf[b].net = "refused" THEN r ELSE [r EXCEPT !.refcnt = @ + 1]
     IN buf' = [buf EXCEPT ![b] = Destroyed(held, 0)]
  /\ reg' = Give(reg, buf[b].ref)
  /\ told' = [told EXCEPT ![b] = "refused"]
  /\ stack' = Push("refused", b)
  /\ UNCHANGED <<aborted, twice>>

(* accept_socket.                                                          *)
NewStream ==
  [Unused EXCEPT !.life = "live", !.refcnt = 1, !.cb = "stream", !.rd = TRUE,
                 !.known = TRUE, !.ref = NextRef(reg)]

Accept(b) ==
  /\ Polling
  /\ buf[b].life = "unused"
  /\ buf' = [buf EXCEPT ![b] = NewStream]
  /\ reg' = Take(reg, b)
  /\ stack' = Push("other", Nobody)
  /\ UNCHANGED <<aborted, told, twice>>

-----------------------------------------------------------------------------
(* What user code calls, inside a callback.                                *)

(* _bind.                                                                  *)
Bind(b) ==
  /\ UserCode
  /\ buf[b].life = "unused"
  /\ buf' = [buf EXCEPT ![b] = NewStream]
  /\ reg' = Take(reg, b)
  /\ UNCHANGED <<stack, aborted, told, twice>>

(* _connect: in progress or done at once ("handshake"; libevent waits for  *)
(* ev_write in both cases), refused at once (a deferred callback), or no   *)
(* socket (no callback; _connect destroys the buffer and returns false).   *)
NewConnect(net) ==
  [Unused EXCEPT !.life = "live", !.refcnt = IF net = "refused" THEN 2 ELSE 1,
                 !.cb = "connect", !.net = net, !.wr = net = "handshake",
                 !.ref = NextRef(reg)]

Connect(b) ==
  /\ UserCode
  /\ buf[b].life = "unused"
  /\ \/ /\ \E net \in {"handshake", "refused"} :
             buf' = [buf EXCEPT ![b] = NewConnect(net)]
        /\ reg' = Take(reg, b)
     \/ /\ buf' = [buf EXCEPT ![b] = Destroyed(NewConnect("idle"), 0)]
        /\ reg' = Give(Take(reg, b), NextRef(reg))
  /\ UNCHANGED <<stack, aborted, told, twice>>

(* _connect, and connect(2) fails at once otherwise: libevent calls        *)
(* connect_complete, which destroys the buffer and calls Lua, before       *)
(* bufferevent_socket_connect returns -1.                                  *)
ConnectFailsAtOnce(b) ==
  /\ UserCode
  /\ Len(stack) < MaxDepth
  /\ buf[b].life = "unused"
  /\ buf' = [buf EXCEPT ![b] =
               Destroyed([NewConnect("idle") EXCEPT !.refcnt = 2], 0)]
  /\ reg' = Give(Take(reg, b), NextRef(reg))
  /\ told' = [told EXCEPT ![b] = "refused"]
  /\ stack' = Push("failed", b)
  /\ UNCHANGED <<aborted, twice>>

(* _bufferevent_write. Adding output makes ev_write pending.               *)
Write(b) ==
  /\ UserCode
  /\ buf[b].known /\ ~buf[b].closed
  /\ buf[b].out < MaxOut
  /\ buf' = [buf EXCEPT ![b].out = @ + 1, ![b].wr = TRUE]
  /\ UNCHANGED <<reg, stack, aborted, told, twice>>

(* Mutant: a closed buffer is not refused.                                 *)
CloseNowUnchecked(b) ==
  /\ UserCode
  /\ buf[b].known /\ buf[b].life # "unused"
  /\ buf' = [buf EXCEPT ![b] = Destroyed(@, 0)]
  /\ aborted' = Asserts(buf[b], 1)
  /\ reg' = Give(reg, buf[b].ref)
  /\ twice' = IF InCallback("error", b) THEN twice \cup {"closed in EV_ERROR"} ELSE twice
  /\ UNCHANGED <<stack, told>>

(* Mutant: the reference is released, the bufferevent is not.              *)
CloseNowKeepsCore(b) ==
  /\ UserCode
  /\ buf[b].known /\ ~buf[b].closed
  /\ buf' = [buf EXCEPT ![b].closed = TRUE]
  /\ reg' = Give(reg, buf[b].ref)
  /\ twice' = IF InCallback("error", b) THEN twice \cup {"closed in EV_ERROR"} ELSE twice
  /\ UNCHANGED <<stack, told, aborted>>

(* _bufferevent_close(1). Inside the EV_ERROR handler of b, closed is not  *)
(* set yet: event_happen destroys b again when the handler returns.        *)
CloseNow(b) ==
  /\ UserCode
  /\ buf[b].known /\ ~buf[b].closed
  /\ buf' = [buf EXCEPT ![b] = Destroyed(@, 0)]
  /\ aborted' = Asserts(buf[b], 1)
  /\ reg' = Give(reg, buf[b].ref)
  /\ twice' = IF InCallback("error", b) THEN twice \cup {"closed in EV_ERROR"} ELSE twice
  /\ UNCHANGED <<stack, told>>

(* Mutant: the callbacks of a stream stay.                                 *)
CloseKeepsReading(b) ==
  /\ UserCode
  /\ buf[b].known /\ ~buf[b].closed
  /\ buf' = [buf EXCEPT ![b].closed = TRUE, ![b].wr = TRUE]
  /\ UNCHANGED <<reg, stack, aborted, told, twice>>

(* Mutant: ev_write is not made pending.                                   *)
CloseWithoutEnable(b) ==
  /\ UserCode
  /\ buf[b].known /\ ~buf[b].closed
  /\ buf' = [buf EXCEPT ![b].closed = TRUE, ![b].cb = "drain", ![b].rd = FALSE]
  /\ UNCHANGED <<reg, stack, aborted, told, twice>>

(* _bufferevent_close(0): the buffer stays until its output is drained.    *)
Close(b) ==
  /\ UserCode
  /\ buf[b].known /\ ~buf[b].closed
  /\ buf' = [buf EXCEPT ![b] = [@ EXCEPT !.closed = TRUE, !.cb = "drain",
                                         !.wr = TRUE, !.rd = FALSE]]
  /\ UNCHANGED <<reg, stack, aborted, told, twice>>

-----------------------------------------------------------------------------
(* User code returns to the callback, the callback to libevent.            *)
Returns(k, b) == UserCode /\ Top = [kind |-> k, b |-> b]

OtherReturns ==
  /\ Returns("other", Nobody)
  /\ stack' = Pop
  /\ UNCHANGED <<buf, reg, aborted, told, twice>>

(* Mutant: libevent's reference is not dropped.                            *)
DataReturnsHolding(b) ==
  /\ Returns("data", b)
  /\ stack' = Pop
  /\ UNCHANGED <<buf, aborted, reg, told, twice>>

(* read_complete, or connect_complete after a failure.                     *)
DataReturns(b) ==
  /\ Returns("data", b) \/ Returns("refused", b)
  /\ buf' = [buf EXCEPT ![b] = Drop(@, 1)]
  /\ aborted' = Asserts(buf[b], 1)
  /\ stack' = Pop
  /\ UNCHANGED <<reg, told, twice>>

(* event_happen and write_complete: closed, destroyed, then libevent's own *)
(* reference is dropped.                                                   *)
EndReturns(b) ==
  /\ Returns("error", b) \/ Returns("drain", b)
  /\ buf' = [buf EXCEPT ![b] = Destroyed(@, 1)]
  /\ aborted' = Asserts(buf[b], 2)
  /\ reg' = Give(reg, buf[b].ref)
  /\ stack' = Pop
  /\ UNCHANGED <<told, twice>>

(* connect_complete after success: bufferevent_writecb goes on with what   *)
(* user code has put in the output buffer. If that is nothing, ev_write is *)
(* deleted and no write callback runs, whatever callbacks are set by now.  *)
ConnectedReturns(b) ==
  /\ Returns("connected", b)
  /\ \E n \in 0 .. buf[b].out :
       LET r == [buf[b] EXCEPT !.out = @ - n, !.wr = n < buf[b].out]
       IN IF n > 0 /\ r.out = 0 /\ r.cb = "drain"
            THEN /\ buf' = [buf EXCEPT ![b] = r]
                 /\ told' = Tell(b, "error")
                 /\ stack' = [stack EXCEPT ![Len(stack)].kind = "drain"]
                 /\ aborted' = aborted
            ELSE /\ buf' = [buf EXCEPT ![b] = Drop(r, 1)]
                 /\ aborted' = Asserts(r, 1)
                 /\ stack' = Pop
                 /\ told' = told
  /\ UNCHANGED <<reg, twice>>

(* The same, and the write fails: event_happen, if callbacks are set.      *)
ConnectedWriteFails(b) ==
  /\ Returns("connected", b)
  /\ buf[b].out > 0
  /\ LET r == [buf[b] EXCEPT !.wr = FALSE]
     IN IF r.cb # "none"
          THEN /\ buf' = [buf EXCEPT ![b] = r]
               /\ told' = Tell(b, "error")
               /\ stack' = [stack EXCEPT ![Len(stack)].kind = "error"]
               /\ aborted' = aborted
          ELSE /\ buf' = [buf EXCEPT ![b] = Drop(r, 1)]
               /\ aborted' = Asserts(r, 1)
               /\ stack' = Pop
               /\ told' = told
  /\ UNCHANGED <<reg, twice>>

(* bufferevent_socket_connect returns -1: _connect destroys the buffer     *)
(* that connect_complete has destroyed before.                             *)
FailedReturns(b) ==
  /\ Returns("failed", b)
  /\ buf' = [buf EXCEPT ![b] = Destroyed(@, 1)]
  /\ aborted' = Asserts(buf[b], 2)
  /\ reg' = Give(reg, buf[b].ref)
  /\ stack' = Pop
  /\ twice' = twice \cup {"connect failed at once"}
  /\ UNCHANGED <<told>>

Stopped == aborted /\ UNCHANGED vars

Return(b) ==
  \/ DataReturns(b) \/ EndReturns(b) \/ FailedReturns(b)
  \/ ConnectedReturns(b) \/ ConnectedWriteFails(b)

Network(b) ==
  \/ Readable(b) \/ ReadFails(b) \/ Writable(b) \/ WriteFails(b)
  \/ Connected(b) \/ ConnectFails(b) \/ Accept(b)

Call(b) ==
  \/ Bind(b) \/ Connect(b) \/ ConnectFailsAtOnce(b)
  \/ Write(b) \/ CloseNow(b) \/ Close(b)

Next ==
  \/ OtherEvent \/ OtherReturns \/ Stopped
  \/ \E b \in Buf : Network(b) \/ Call(b) \/ Return(b)

Spec == Init /\ [][Next]_vars

(* Fairness. The poll is level-triggered: a socket that stays writable is  *)
(* reported again and again, so strong fairness; that it becomes writable  *)
(* or fails assumes a peer that reads or goes away. User code returns.     *)
Fairness ==
  /\ \A b \in Buf : SF_vars(Writable(b) \/ WriteFails(b))
  /\ WF_vars(OtherReturns \/ \E b \in Buf : Return(b))
FairSpec == Spec /\ Fairness
-----------------------------------------------------------------------------
(* The values of the variables. A buffer has at most its own reference and *)
(* the one libevent holds while it calls back.                             *)
TypeOK ==
  /\ buf \in [Buf -> [life : {"unused", "live", "final"}, refcnt : -1 .. 2,
                      cb : {"none", "connect", "stream", "drain"},
                      net : {"idle", "handshake", "refused"},
                      rd : BOOLEAN, wr : BOOLEAN, out : 0 .. MaxOut,
                      closed : BOOLEAN, known : BOOLEAN, ref : Nat]]
  /\ reg \in [slot : Seq(Buf \cup Nat), free : Nat]
  /\ stack \in Seq([kind : {"data", "error", "drain", "connected", "refused",
                            "failed", "other"},
                    b : Buf \cup {Nobody}])
  /\ aborted \in BOOLEAN
  /\ told \in [Buf -> {"nothing", "connected", "refused", "data", "error"}]
  /\ twice \subseteq {"closed in EV_ERROR", "connect failed at once"}

(* No assertion of libevent or event.c on the life of a buffer fails, but  *)
(* for two sequences of calls: a close(1) of the buffer by its own         *)
(* EV_ERROR handler, and a connect that fails at once. Any other order of  *)
(* events, closes and nested callbacks releases each buffer once.          *)
AbortCause == aborted => twice # {}

(* Every callback that is set finds, by the reference in its levbuffer,    *)
(* the userdata it is about: no other buffer has been given the slot, and  *)
(* it has not been released.                                               *)
RefOwned ==
  ~aborted => \A b \in Buf : buf[b].cb # "none" => reg.slot[buf[b].ref] = b

(* The connection as the program sees it.                                  *)
Life(b) ==
  IF buf[b].life = "unused" THEN "unused"
  ELSE IF buf[b].cb = "connect" THEN "connecting"
  ELSE IF buf[b].cb = "none" THEN "gone"
  ELSE IF buf[b].closed THEN "lingering" ELSE "open"

Seen == INSTANCE BufferLife WITH life <- [b \in Buf |-> Life(b)]

(* Lua gets the events of a connection in the order BufferLife says, and   *)
(* EV_ERROR before the connection disappears, unless it closed it with     *)
(* close(1).                                                               *)
EventOrder == Seen!Spec

(* A closed connection goes in the end: always if there is output to send, *)
(* and if there is none unless it has connected and received nothing. (In  *)
(* that case it may have been closed by the handler of EV_CONNECT, see     *)
(* ConnectedReturns.)                                                      *)
LingerEnds ==
  \A b \in Buf :
    (buf[b].cb = "drain" /\ (buf[b].out > 0 \/ told[b] # "connected"))
      ~> (buf[b].cb # "drain" \/ aborted)

(* What the comment in bufferevent_writecb says: the write callback is     *)
(* invoked when the buffer is drained, so that a closed connection goes.   *)
CloseCompletes ==
  \A b \in Buf : buf[b].cb = "drain" ~> (buf[b].cb # "drain" \/ aborted)

(* The assertion of bufferevent_decref_and_unlock_.                        *)
RefcntPositive == \A b \in Buf : buf[b].refcnt >= 0
=============================================================================
