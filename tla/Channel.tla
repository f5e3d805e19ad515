------------------------------- MODULE Channel -------------------------------
(***************************************************************************)
(* Remote calls between two programs that run script/event.lua, over one   *)
(* connection: channel:call, send, ret, data, disconnect and close.        *)
(*                                                                         *)
(* Each side is one thread: an event handler fills the wakeup and fork     *)
(* queues, event_dispatch drains them by resuming coroutines one at a      *)
(* time, and only then libevent polls again. Calls in both directions,     *)
(* calls made while serving one, replies out of order, messages split      *)
(* among several reads and the end of the connection at any time are what  *)
(* makes it hard. That the queues themselves lose nothing the handlers put *)
(* in them is what module Scheduler shows; the events of a connection and  *)
(* their order are those of module BufferLife.                             *)
(***************************************************************************)
EXTENDS Naturals, Sequences, FiniteSets

CONSTANTS
  A, B,      (* the two sides                                              *)
  MaxAsk,    (* requests each side makes, calls or one-way (a bound)       *)
  OneWay,    (* the sides that may send a one-way message (a bound)        *)
  Callback,  (* the sides whose callbacks use the channel (a bound)          *)
  App,       (* a coroutine of the program that serves no request          *)
  Main,      (* the main coroutine: a callback of a timer or a listener    *)
  None       (* no coroutine                                               *)

Peer == {A, B}
(* gen_session gives 1, 2, ...; channel:send uses 0 for every message, of  *)
(* which each side sends one at most.                                      *)
Session == 1 .. MaxAsk[A] \cup 1 .. MaxAsk[B]
Request == Session \cup {0}

ASSUME ChannelAssumption ==
  /\ A # B
  /\ MaxAsk \in [Peer -> Nat]
  /\ OneWay \subseteq Peer /\ Callback \subseteq Peer
  /\ {App, Main, None} \cap Nat = {}
  /\ App # None /\ Main # None /\ App # Main

VARIABLES
  chan,     (* each side's end of the connection                           *)
  wire,     (* messages a side has written and the other has not read      *)
  frame,    (* channel.state, or "lost" when it is out of step             *)
  pending,  (* session_ctx: the sessions that wait for a reply             *)
  call,     (* the calls of a side, and the coroutine that waits           *)
  exec,     (* what the other side has made of them                        *)
  wakeQ,    (* _wakeup_queue                                               *)
  forkQ,    (* _fork_queue: the requests to run                            *)
  parked,   (* serving coroutines that wait for something else             *)
  cur,      (* the coroutine that runs: a request's, App, Main or None     *)
  stranded, (* history: calls that nothing will answer, with a known cause *)
  faulty    (* history: a message was split, or a reply not encodable      *)

vars == <<chan, wire, frame, pending, call, exec, wakeQ, forkQ, parked, cur,
          stranded, faulty>>
network == <<chan, wire, frame>>

Other(p) == IF p = A THEN B ELSE A

(* chan: "dying" while the EV_ERROR handler runs and what it woke; the     *)
(* buffer is not closed yet. "lingering" after close(0), "ending" when the *)
(* EV_ERROR of that comes, "gone" when the buffer is destroyed.            *)
Closed(p) == chan[p] \in {"lingering", "ending", "gone"}
Handling(p) == chan[p] \in {"dying", "ending"}
Drained(p) == cur[p] = None /\ wakeQ[p] = <<>> /\ forkQ[p] = <<>>
Polling(p) == Drained(p) /\ ~Handling(p)

(* What is written reaches the wire if it can still be sent and read.      *)
Put(p, m) ==
  IF chan[p] = "open" /\ chan[Other(p)] = "open"
    THEN [wire EXCEPT ![p] = Append(@, m)] ELSE wire

(* p reads no more, and what it has not sent yet is lost, but for n        *)
(* messages.                                                               *)
Unplugged(p, n) ==
  [wire EXCEPT ![p] = SubSeq(@, 1, n), ![Other(p)] = <<>>]

Asked(r) == [kind |-> "request", s |-> r, how |-> "ok"]
Replied(r, how) == [kind |-> "reply", s |-> r, how |-> how]
IsReply(m) == m.kind = "reply"
IsRequest(m) == m.kind = "request"
Elems(q) == {q[i] : i \in DOMAIN q}
Sessions(q) == {m.s : m \in Elems(q)}

(* The numbers of S in ascending order: the only element of this set.      *)
Ascending(S) ==
  {q \in [1 .. Cardinality(S) -> S] :
     /\ \A i, j \in 1 .. Cardinality(S) : i < j => q[i] < q[j]
     /\ \A x \in S : \E i \in 1 .. Cardinality(S) : q[i] = x}

Pick(in, q) == [i \in DOMAIN q |-> in[q[i]]]
RepliesOf(in, n) == {i \in 1 .. n : IsReply(in[i])}
RequestsOf(in, n) == {i \in 1 .. n : IsRequest(in[i])}

Init ==
  /\ chan = [p \in Peer |-> "open"]
  /\ wire = [p \in Peer |-> <<>>]
  /\ frame = [p \in Peer |-> "head"]
  /\ pending = [p \in Peer |-> {}]
  /\ call = [p \in Peer |-> [r \in Request |-> [at |-> "new", by |-> None]]]
  /\ exec = [p \in Peer |-> [r \in Request |-> "none"]]
  /\ wakeQ = [p \in Peer |-> <<>>]
  /\ forkQ = [p \in Peer |-> <<>>]
  /\ parked = [p \in Peer |-> {}]
  /\ cur = [p \in Peer |-> None]
  /\ stranded = [p \in Peer |-> {}]
  /\ faulty = FALSE

-----------------------------------------------------------------------------
(* Events.                                                                 *)

MayAsk(p) == Cardinality({r \in Request : call[p][r].at # "new"}) < MaxAsk[p]

(* A timer or another event calls back in the main coroutine or lets       *)
(* another one run: one of the program, or a serving one that waited.      *)
(* (A callback that asks nothing does nothing that App does not.)          *)
OtherEvent(p) ==
  /\ Polling(p)
  /\ \/ cur' = [cur EXCEPT ![p] = App] /\ parked' = parked
     \/ p \in Callback /\ MayAsk(p) /\ cur' = [cur EXCEPT ![p] = Main] /\ parked' = parked
     \/ \E r \in parked[p] : /\ cur' = [cur EXCEPT ![p] = r]
                             /\ parked' = [parked EXCEPT ![p] = @ \ {r}]
  /\ UNCHANGED <<network, pending, call, exec, wakeQ, forkQ, stranded, faulty>>

(* Mutant: the session stays in session_ctx when its reply comes.          *)
DataKeepsSession(p) ==
  LET in == wire[Other(p)]
  IN /\ Polling(p) /\ chan[p] = "open" /\ frame[p] # "lost"
     /\ \E n \in 1 .. Len(in) :
          /\ wire' = [wire EXCEPT ![Other(p)] = SubSeq(in, n + 1, Len(in))]
          /\ \E q \in Ascending(RepliesOf(in, n)) : wakeQ' = [wakeQ EXCEPT ![p] = Pick(in, q)]
          /\ \E q \in Ascending(RequestsOf(in, n)) : forkQ' = [forkQ EXCEPT ![p] = Pick(in, q)]
     /\ UNCHANGED <<chan, frame, pending, call, exec, parked, cur, stranded, faulty>>

(* Mutant: requests are queued last first.                                 *)
DataReversed(p) ==
  LET in == wire[Other(p)]
  IN /\ Polling(p) /\ chan[p] = "open" /\ frame[p] # "lost"
     /\ \E n \in 1 .. Len(in) :
          /\ wire' = [wire EXCEPT ![Other(p)] = SubSeq(in, n + 1, Len(in))]
          /\ \E q \in Ascending(RepliesOf(in, n)) : wakeQ' = [wakeQ EXCEPT ![p] = Pick(in, q)]
          /\ pending' = [pending EXCEPT ![p] = @ \ Sessions(wakeQ'[p])]
          /\ \E q \in Ascending(RequestsOf(in, n)) :
               forkQ' = [forkQ EXCEPT ![p] = [i \in DOMAIN q |-> in[q[Len(q) + 1 - i]]]]
     /\ UNCHANGED <<chan, frame, call, exec, parked, cur, stranded, faulty>>

(* EV_DATA, channel:data: it takes the n messages that are there entirely, *)
(* and what is there of the next one. If that is just its head, it goes on *)
(* with the body later. If it is a part of the head or of the body,        *)
(* buff:read returns the part, unpacking it raises, and the rest is taken  *)
(* for the head of another message.                                        *)
Data(p) ==
  LET in == wire[Other(p)]
  IN /\ Polling(p) /\ chan[p] = "open" /\ frame[p] # "lost"
     /\ \E n \in 0 .. Len(in), f \in {"head", "body", "lost"} :
          /\ IF f = "head" THEN n > 0 ELSE n < Len(in)
          /\ f = "body" => n > 0 \/ frame[p] = "head"
          /\ frame' = [frame EXCEPT ![p] = f]
          /\ wire' = [wire EXCEPT ![Other(p)] =
                        SubSeq(in, IF f = "lost" THEN n + 2 ELSE n + 1, Len(in))]
          /\ \E q \in Ascending(RepliesOf(in, n)) : wakeQ' = [wakeQ EXCEPT ![p] = Pick(in, q)]
          /\ pending' = [pending EXCEPT ![p] = @ \ Sessions(wakeQ'[p])]
          /\ \E q \in Ascending(RequestsOf(in, n)) : forkQ' = [forkQ EXCEPT ![p] = Pick(in, q)]
          /\ faulty' = (faulty \/ f = "lost")
     /\ UNCHANGED <<chan, call, exec, parked, cur, stranded>>

(* The same out of step: what is read makes no message (the codec refuses  *)
(* it). By chance a read may end where a message does.                     *)
DataLost(p) ==
  LET in == wire[Other(p)]
  IN /\ Polling(p) /\ chan[p] = "open" /\ frame[p] = "lost"
     /\ \E n \in 1 .. Len(in), f \in {"head", "lost"} :
          /\ frame' = [frame EXCEPT ![p] = f]
          /\ wire' = [wire EXCEPT ![Other(p)] = SubSeq(in, n + 1, Len(in))]
     /\ UNCHANGED <<chan, pending, call, exec, wakeQ, forkQ, parked, cur, stranded, faulty>>

(* EV_ERROR at any time: an end of file, an error, or a closed buffer that *)
(* is drained. channel:disconnect wakes every session in session_ctx, in   *)
(* ascending order.                                                        *)
(* Mutant: only the first session is woken.                                *)
ErrorWakesOne(p) ==
  /\ Polling(p) /\ chan[p] \in {"open", "lingering"}
  /\ chan' = [chan EXCEPT ![p] = IF @ = "open" THEN "dying" ELSE "ending"]
  /\ \E q \in Ascending(pending[p]) :
       wakeQ' = [wakeQ EXCEPT ![p] = IF q = <<>> THEN <<>> ELSE <<Replied(q[1], "closed")>>]
  /\ pending' = [pending EXCEPT ![p] = {}]
  /\ wire' = Unplugged(p, Len(wire[p]))
  /\ UNCHANGED <<frame, call, exec, forkQ, parked, cur, stranded, faulty>>

(* Mutant: the sessions are woken with true.                               *)
ErrorWakesTrue(p) ==
  /\ Polling(p) /\ chan[p] \in {"open", "lingering"}
  /\ chan' = [chan EXCEPT ![p] = IF @ = "open" THEN "dying" ELSE "ending"]
  /\ \E q \in Ascending(pending[p]) :
       wakeQ' = [wakeQ EXCEPT ![p] = [i \in DOMAIN q |-> Replied(q[i], "ok")]]
  /\ pending' = [pending EXCEPT ![p] = {}]
  /\ wire' = Unplugged(p, Len(wire[p]))
  /\ UNCHANGED <<frame, call, exec, forkQ, parked, cur, stranded, faulty>>

Error(p) ==
  /\ Polling(p) /\ chan[p] \in {"open", "lingering"}
  /\ chan' = [chan EXCEPT ![p] = IF @ = "open" THEN "dying" ELSE "ending"]
  /\ \E q \in Ascending(pending[p]) :
       wakeQ' = [wakeQ EXCEPT ![p] = [i \in DOMAIN q |-> Replied(q[i], "closed")]]
  /\ pending' = [pending EXCEPT ![p] = {}]
  /\ wire' = Unplugged(p, Len(wire[p]))
  /\ UNCHANGED <<frame, call, exec, forkQ, parked, cur, stranded, faulty>>

-----------------------------------------------------------------------------
(* The end of event_dispatch.                                              *)

(* run_wakeup: the session is waited for, or it is of a one-way message or *)
(* of a call that raised; then the wakeup is reported and dropped.         *)
RunWakeup(p) ==
  /\ cur[p] = None /\ wakeQ[p] # <<>>
  /\ wakeQ' = [wakeQ EXCEPT ![p] = Tail(@)]
  /\ LET m == Head(wakeQ[p])
         c == call[p][m.s]
     IN IF c.at = "waiting"
          THEN /\ cur' = [cur EXCEPT ![p] = c.by]
               /\ call' = [call EXCEPT ![p][m.s] = [at |-> m.how, by |-> None]]
          ELSE UNCHANGED <<cur, call>>
  /\ UNCHANGED <<network, pending, exec, forkQ, parked, stranded, faulty>>

(* run_fork: channel:dispatch begins.                                      *)
RunFork(p) ==
  /\ cur[p] = None /\ wakeQ[p] = <<>> /\ forkQ[p] # <<>>
  /\ forkQ' = [forkQ EXCEPT ![p] = Tail(@)]
  /\ LET r == Head(forkQ[p]).s
     IN /\ cur' = [cur EXCEPT ![p] = r]
        /\ exec' = [exec EXCEPT ![Other(p)][r] = "running"]
  /\ UNCHANGED <<network, pending, call, wakeQ, parked, stranded, faulty>>

(* event_happen and write_complete, after the handler: the buffer is       *)
(* destroyed with the output it still holds.                               *)
Destroy(p) ==
  /\ Handling(p) /\ Drained(p)
  /\ chan' = [chan EXCEPT ![p] = "gone"]
  /\ \E n \in 0 .. Len(wire[p]) : wire' = Unplugged(p, n)
  /\ UNCHANGED <<frame, pending, call, exec, wakeQ, forkQ, parked, cur, stranded, faulty>>

-----------------------------------------------------------------------------
(* What coroutines do.                                                     *)

(* gen_session: sessions are given out in ascending order.                 *)
Fresh(p, s) ==
  /\ call[p][s].at = "new"
  /\ \A r \in 1 .. s - 1 : call[p][r].at # "new"

(* channel:call, up to wait, in a coroutine that can wait. In the EV_ERROR *)
(* handler the buffer still takes what will never be sent, and session_ctx *)
(* has been emptied: such a call is stranded.                              *)
Call(p, s) ==
  /\ cur[p] \notin {None, Main}
  /\ MayAsk(p) /\ Fresh(p, s)
  /\ ~Closed(p)
  /\ pending' = [pending EXCEPT ![p] = @ \cup {s}]
  /\ wire' = Put(p, Asked(s))
  /\ call' = [call EXCEPT ![p][s] = [at |-> "waiting", by |-> cur[p]]]
  /\ cur' = [cur EXCEPT ![p] = None]
  /\ stranded' = IF chan[p] = "dying" THEN [stranded EXCEPT ![p] = @ \cup {s}] ELSE stranded
  /\ UNCHANGED <<chan, frame, exec, wakeQ, forkQ, parked, faulty>>

(* channel:call that raises, for its arguments cannot be encoded or the    *)
(* buffer is closed. The session stays in session_ctx.                     *)
CallRaises(p, s) ==
  /\ cur[p] # None
  /\ MayAsk(p) /\ Fresh(p, s)
  /\ pending' = [pending EXCEPT ![p] = @ \cup {s}]
  /\ call' = [call EXCEPT ![p][s].at = "raised"]
  /\ UNCHANGED <<network, exec, wakeQ, forkQ, parked, cur, stranded, faulty>>

(* channel:call in the main coroutine: wait refuses it, but the request is *)
(* written by then. It runs, and nobody hears of it.                       *)
CallInMain(p, s) ==
  /\ cur[p] = Main
  /\ MayAsk(p) /\ Fresh(p, s)
  /\ ~Closed(p)
  /\ pending' = [pending EXCEPT ![p] = @ \cup {s}]
  /\ wire' = Put(p, Asked(s))
  /\ call' = [call EXCEPT ![p][s].at = "unheard"]
  /\ UNCHANGED <<chan, frame, exec, wakeQ, forkQ, parked, cur, stranded, faulty>>

(* channel:send.                                                           *)
Send(p) ==
  /\ cur[p] # None
  /\ p \in OneWay /\ MayAsk(p) /\ call[p][0].at = "new" /\ ~Closed(p)
  /\ wire' = Put(p, Asked(0))
  /\ call' = [call EXCEPT ![p][0].at = "sent"]
  /\ UNCHANGED <<chan, frame, pending, exec, wakeQ, forkQ, parked, cur, stranded, faulty>>

(* Mutant: an error is not sent back.                                      *)
ReplySilent(p) ==
  /\ cur[p] \in Request
  /\ cur' = [cur EXCEPT ![p] = None]
  /\ \E how \in {"ok", "error"} :
       /\ exec' = [exec EXCEPT ![Other(p)][cur[p]] = how]
       /\ wire' = IF how = "error" THEN wire ELSE Put(p, Replied(cur[p], how))
  /\ UNCHANGED <<chan, frame, pending, call, wakeQ, forkQ, parked, stranded, faulty>>

(* channel:dispatch returns or raises: channel:ret, but for the error of a *)
(* one-way message.                                                        *)
Reply(p) ==
  /\ cur[p] \in Request
  /\ cur' = [cur EXCEPT ![p] = None]
  /\ \E how \in {"ok", "error"} :
       /\ exec' = [exec EXCEPT ![Other(p)][cur[p]] = how]
       /\ IF cur[p] = 0 /\ how = "error"
            THEN wire' = wire
            ELSE ~Closed(p) /\ wire' = Put(p, Replied(cur[p], how))
  /\ UNCHANGED <<chan, frame, pending, call, wakeQ, forkQ, parked, stranded, faulty>>

(* channel:ret raises: the buffer is closed, or the result cannot be       *)
(* encoded; the caller is told nothing.                                    *)
ReplyRaises(p) ==
  /\ cur[p] \in Request
  /\ cur' = [cur EXCEPT ![p] = None]
  /\ exec' = [exec EXCEPT ![Other(p)][cur[p]] = "mute"]
  /\ faulty' = (faulty \/ ~Closed(p))
  /\ UNCHANGED <<network, pending, call, wakeQ, forkQ, parked, stranded>>

(* Mutant: the coroutine goes on running as well.                          *)
ParkAndRun(p) ==
  /\ cur[p] \in Request
  /\ parked' = [parked EXCEPT ![p] = @ \cup {cur[p]}]
  /\ UNCHANGED <<network, pending, call, exec, wakeQ, forkQ, cur, stranded, faulty>>

(* A serving coroutine waits for something else.                           *)
Park(p) ==
  /\ cur[p] \in Request
  /\ cur' = [cur EXCEPT ![p] = None]
  /\ parked' = [parked EXCEPT ![p] = @ \cup {cur[p]}]
  /\ UNCHANGED <<network, pending, call, exec, wakeQ, forkQ, stranded, faulty>>

(* A coroutine of the program ends or waits, or a callback returns.        *)
Finish(p) ==
  /\ cur[p] \in {App, Main}
  /\ cur' = [cur EXCEPT ![p] = None]
  /\ UNCHANGED <<network, pending, call, exec, wakeQ, forkQ, parked, stranded, faulty>>

(* channel:close.                                                          *)
Close(p) ==
  /\ cur[p] # None
  /\ ~Closed(p)
  /\ chan' = [chan EXCEPT ![p] = IF @ = "open" THEN "lingering" ELSE "ending"]
  /\ wire' = Unplugged(p, Len(wire[p]))
  /\ UNCHANGED <<frame, pending, call, exec, wakeQ, forkQ, parked, cur, stranded, faulty>>

(* channel:close_immediately. There is no EV_ERROR: the calls that wait    *)
(* are stranded. (In the EV_ERROR handler it fails an assertion, see       *)
(* module EvBuffer.)                                                       *)
CloseNow(p) ==
  /\ cur[p] # None
  /\ chan[p] = "open"
  /\ chan' = [chan EXCEPT ![p] = "gone"]
  /\ \E n \in 0 .. Len(wire[p]) : wire' = Unplugged(p, n)
  /\ stranded' = [stranded EXCEPT ![p] = @ \cup pending[p]]
  /\ UNCHANGED <<frame, pending, call, exec, wakeQ, forkQ, parked, cur, faulty>>

Event(p) == OtherEvent(p) \/ Data(p) \/ DataLost(p) \/ Error(p)
Drain(p) == RunWakeup(p) \/ RunFork(p) \/ Destroy(p)
Use(p) ==
  \/ Send(p) \/ Close(p) \/ CloseNow(p)
  \/ \E s \in Session : Call(p, s) \/ CallRaises(p, s) \/ CallInMain(p, s)
Return(p) == Reply(p) \/ ReplyRaises(p) \/ Park(p) \/ Finish(p)

Next == \E p \in Peer : Event(p) \/ Drain(p) \/ Use(p) \/ Return(p)

Spec == Init /\ [][Next]_vars

(* Fairness. A poll handles every descriptor that is ready, so data, an    *)
(* end of file (the other side is gone) and the drain of a closed buffer   *)
(* are handled if they are ready again and again. event_dispatch is        *)
(* straight code. Programs are assumed to return: what they wait for       *)
(* comes, and a request that is served is answered in the end.             *)
EndOfStream(p) == (chan[Other(p)] = "gone" \/ chan[p] = "lingering") /\ Error(p)
Resume(p, r) == r \in parked[p] /\ OtherEvent(p) /\ cur'[p] = r
Answering(p, r) == cur[p] = r /\ (Reply(p) \/ ReplyRaises(p))

Fairness ==
  \A p \in Peer :
    /\ SF_vars(Data(p) \/ EndOfStream(p))
    /\ WF_vars(Drain(p) \/ Return(p))
    /\ \A r \in Session : SF_vars(Resume(p, r)) /\ SF_vars(Answering(p, r))
FairSpec == Spec /\ Fairness
-----------------------------------------------------------------------------
(* The values of the variables.                                            *)
Message == [kind : {"request", "reply"}, s : Request, how : {"ok", "error"}]
Forked == [kind : {"request"}, s : Request, how : {"ok", "error"}]
CallState == [at : {"new", "sent", "waiting", "raised", "unheard", "ok", "error", "closed"},
              by : Request \cup {App, None}]
Wakeup == [kind : {"reply"}, s : Request, how : {"ok", "error", "closed"}]

TypeOK ==
  /\ chan \in [Peer -> {"open", "dying", "lingering", "ending", "gone"}]
  /\ wire \in [Peer -> Seq(Message)]
  /\ wakeQ \in [Peer -> Seq(Wakeup)]
  /\ forkQ \in [Peer -> Seq(Forked)]
  /\ frame \in [Peer -> {"head", "body", "lost"}]
  /\ pending \in [Peer -> SUBSET Request]
  /\ call \in [Peer -> [Request -> CallState]]
  /\ exec \in [Peer -> [Request -> {"none", "running", "ok", "error", "mute"}]]
  /\ parked \in [Peer -> SUBSET Request]
  /\ cur \in [Peer -> Request \cup {App, Main, None}]
  /\ stranded \in [Peer -> SUBSET Request]
  /\ faulty \in BOOLEAN

Awaited(p) == {s \in Request : call[p][s].at = "waiting"}

(* A coroutine that waits for a reply is not forgotten: it is in the       *)
(* session_ctx of a connection whose EV_ERROR has yet to come, or its      *)
(* wakeup is queued. The program alone can strand it, by closing the       *)
(* connection immediately while it waits or by calling on a connection     *)
(* whose EV_ERROR is being handled.                                        *)
CallerHeld ==
  \A p \in Peer : \A s \in Awaited(p) :
    \/ s \in pending[p] /\ chan[p] \in {"open", "lingering"}
    \/ s \in Sessions(wakeQ[p])
    \/ s \in stranded[p]

(* No two messages of a queue are of one kind and for one session.         *)
Distinct(q) ==
  \A i, j \in DOMAIN q : q[i].kind = q[j].kind /\ q[i].s = q[j].s => i = j

(* Each call is woken once, with what its request came to. A reply is on   *)
(* the wire or in the wakeup queue, once, while the call has yet to hear   *)
(* or when none will (a one-way message, a call in the main coroutine);    *)
(* a session is queued or in session_ctx, and one that has been woken is   *)
(* in neither. (A second wakeup could hit a later wait of a coroutine.)    *)
WokenOnce ==
  \A p \in Peer :
    /\ Distinct(wire[p]) /\ Distinct(wakeQ[p])
    /\ \A m \in Elems(wire[Other(p)]) :
         IsReply(m) =>
           /\ chan[p] = "open" /\ m.s \notin Sessions(wakeQ[p])
           /\ call[p][m.s].at \in {"waiting", "unheard", "sent"} /\ exec[p][m.s] = m.how
    /\ \A m \in Elems(wakeQ[p]) :
         /\ call[p][m.s].at \in {"waiting", "raised", "unheard", "sent"}
         /\ m.s \notin pending[p]
         /\ IF m.how = "closed" THEN chan[p] # "open" ELSE exec[p][m.s] = m.how
    /\ \A r \in Request :
         /\ call[p][r].at \in {"ok", "error"} => exec[p][r] = call[p][r].at
         /\ call[p][r].at = "closed" => chan[p] # "open"
         /\ r \in pending[p] => call[p][r].at \in {"waiting", "raised", "unheard"}

(* A request that was written is in one place: the wire, the fork queue    *)
(* or begun; and the coroutine that serves it runs, is parked or waits for *)
(* one call of its own. So nothing is dispatched twice, and the coroutine  *)
(* that answers is the one that was started for the request.               *)
Made(p, r) == call[p][r].at \notin {"new", "raised"}

OnePlace ==
  \A p, q \in Peer : q = Other(p) =>
    /\ Distinct(forkQ[q])
    /\ \A m \in Elems(wire[p]) :
         IsRequest(m) => exec[p][m.s] = "none" /\ Made(p, m.s) /\ m.s \notin Sessions(forkQ[q])
    /\ \A r \in Sessions(forkQ[q]) : exec[p][r] = "none" /\ Made(p, r)
    /\ \A r \in Request :
         /\ exec[p][r] # "none" => Made(p, r)
         /\ cur[q] = r => exec[p][r] = "running" /\ r \notin parked[q]
         /\ r \in parked[q] => exec[p][r] = "running"
         /\ \A s \in Awaited(q) : call[q][s].by = r =>
              /\ exec[p][r] = "running" /\ cur[q] # r /\ r \notin parked[q]
              /\ \A t \in Awaited(q) : call[q][t].by = r => t = s

(* Requests of one side start in the order they were made, whatever was    *)
(* split, lost or served in between.                                       *)
InOrder ==
  [][\A p \in Peer, s \in Session :
       exec[p][s] = "none" /\ exec'[p][s] # "none"
         => \A r \in Session : r > s => exec[p][r] = "none"]_vars

Outcome ==
  INSTANCE RemoteCall WITH call <- [p \in Peer |-> [r \in Request |-> call[p][r].at]]

(* A request runs at most once, and only if it was written; a caller gets  *)
(* the result of its own request, after it has run, or is cut off. What    *)
(* the main coroutine asked runs too, though its call raised.              *)
AtMostOnce == Outcome!Spec

(* Every call is answered or cut off, even when both sides call each other *)
(* while they serve: unless it is stranded, or a message was split or a    *)
(* reply not encodable somewhere before.                                   *)
Answered ==
  \A p \in Peer : \A s \in Session :
    call[p][s].at = "waiting" ~>
      call[p][s].at # "waiting" \/ s \in stranded[p] \/ faulty
=============================================================================
