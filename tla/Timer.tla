-------------------------------- MODULE Timer --------------------------------
(***************************************************************************)
(* Timers: event.sleep, event.timer and timer:cancel over the levtimer     *)
(* userdata of event.c, which are kept on a free list and used again.      *)
(*                                                                         *)
(* A userdata is pinned in the registry, so it is the same Lua object when *)
(* it is used again: a program that keeps the handle of a cancelled timer  *)
(* holds the handle of whatever timer comes next, and can cancel that.     *)
(* The rest of the program is taken to be any sequence of these calls, by  *)
(* handlers and coroutines that run one at a time.                         *)
(***************************************************************************)
EXTENDS Naturals, Sequences, FiniteSets

CONSTANTS
  Slot,       (* levtimer userdata (a bound)                               *)
  Coroutine,  (* coroutines that sleep                                     *)
  Ticker,     (* timers with a callback, as the program names them         *)
  Zero,       (* the tickers whose interval is below a microsecond         *)
  Main,       (* the main coroutine: handlers and callbacks run in it      *)
  Lost,       (* who sleeps in the main coroutine                          *)
  None

Owner == Coroutine \cup Ticker \cup {Lost}

ASSUME TimerAssumption ==
  /\ IsFiniteSet(Slot)
  /\ Zero \subseteq Ticker /\ Coroutine \cap Ticker = {}
  /\ Main \notin Owner /\ Lost \notin Coroutine \cup Ticker
  /\ None \notin Owner \cup {Main} \cup Slot

VARIABLES
  timer,     (* per userdata: "armed" is cancel = 0                        *)
  free,      (* levent->freelist                                           *)
  pending,   (* the events in the heap of libevent                         *)
  due,       (* the events activated by the last poll and yet to run       *)
  ctx,       (* _timer_ctx: for whom the userdata is                       *)
  asleep,    (* coroutines in event.sleep                                  *)
  ticking,   (* tickers the program has made and not cancelled             *)
  handle,    (* the userdata the program remembers for a ticker            *)
  cur,       (* Main, the coroutine that runs, or None: libevent           *)
  on,        (* "on", "stopped" when the loop has ended, "released"        *)
  young,     (* history: armed since the last poll                         *)
  robbed     (* history: whose timer was cancelled through an old handle   *)

vars == <<timer, free, pending, due, ctx, asleep, ticking, handle, cur, on, young, robbed>>

Elems(q) == {q[i] : i \in DOMAIN q}
Once(q) == \A i, j \in DOMAIN q : q[i] = q[j] => i = j
Orders(S) == {q \in [1 .. Cardinality(S) -> S] : Once(q) /\ Elems(q) = S}

Init ==
  /\ timer = [s \in Slot |-> "new"] /\ free = <<>>
  /\ pending = {} /\ due = {} /\ ctx = [s \in Slot |-> None]
  /\ asleep = {} /\ ticking = {} /\ handle = [k \in Ticker |-> None]
  /\ cur = Main /\ on = "on"
  /\ young = {} /\ robbed = {}

(* Mutant: the userdata stays on the free list.                            *)
ArmInPlace(s, o) ==
  /\ IF free = <<>> THEN timer[s] = "new" ELSE s = Head(free)
  /\ free' = free
  /\ timer' = [timer EXCEPT ![s] = "armed"]
  /\ ctx' = [ctx EXCEPT ![s] = o]
  /\ pending' = pending \cup {s}
  /\ young' = young \cup {o}

(* Mutant: the event of a userdata that is used again is not added.        *)
ArmIdle(s, o) ==
  /\ \/ free # <<>> /\ s = Head(free) /\ free' = Tail(free) /\ pending' = pending
     \/ free = <<>> /\ timer[s] = "new" /\ free' = free /\ pending' = pending \cup {s}
  /\ timer' = [timer EXCEPT ![s] = "armed"]
  /\ ctx' = [ctx EXCEPT ![s] = o]
  /\ young' = young \cup {o}

(* Mutant: the timer is not recorded in _timer_ctx.                        *)
ArmUnrecorded(s, o) ==
  /\ \/ free # <<>> /\ s = Head(free) /\ free' = Tail(free)
     \/ free = <<>> /\ timer[s] = "new" /\ free' = free
  /\ timer' = [timer EXCEPT ![s] = "armed"]
  /\ pending' = pending \cup {s}
  /\ young' = young \cup {o}
  /\ ctx' = ctx

(* _timer, and the entry in _timer_ctx that its callers make at once.      *)
Arm(s, o) ==
  /\ \/ free # <<>> /\ s = Head(free) /\ free' = Tail(free)
     \/ free = <<>> /\ timer[s] = "new" /\ free' = free
  /\ timer' = [timer EXCEPT ![s] = "armed"]
  /\ ctx' = [ctx EXCEPT ![s] = o]
  /\ pending' = pending \cup {s}
  /\ young' = young \cup {o}

(* Mutant: evtimer_del is forgotten.                                       *)
DisarmOnly(s) ==
  /\ timer[s] = "armed"
  /\ timer' = [timer EXCEPT ![s] = "cancelled"]
  /\ free' = <<s>> \o free
  /\ UNCHANGED <<pending, due>>

(* Mutant: a timer that was cancelled is cancelled again.                  *)
DisarmAgain(s) ==
  /\ timer[s] \in {"armed", "cancelled"}
  /\ timer' = [timer EXCEPT ![s] = "cancelled"]
  /\ free' = <<s>> \o free
  /\ pending' = pending \ {s} /\ due' = due \ {s}

(* _timer_cancel. It raises if the timer is cancelled.                     *)
Disarm(s) ==
  /\ timer[s] = "armed"
  /\ timer' = [timer EXCEPT ![s] = "cancelled"]
  /\ free' = <<s>> \o free
  /\ pending' = pending \ {s} /\ due' = due \ {s}

-----------------------------------------------------------------------------
(* Calls of the program.                                                   *)

(* event.sleep in a coroutine.                                             *)
Sleep(c) ==
  /\ on = "on" /\ cur = c
  /\ \E s \in Slot : Arm(s, c)
  /\ asleep' = asleep \cup {c} /\ cur' = None
  /\ UNCHANGED <<due, ticking, handle, on, robbed>>

(* event.sleep in a handler: the timer runs when event.wait raises.        *)
SleepRaises ==
  /\ on = "on" /\ cur = Main
  /\ \E s \in Slot : Arm(s, Lost)
  /\ UNCHANGED <<due, asleep, ticking, handle, cur, on, robbed>>

(* event.timer.                                                            *)
Tick(k) ==
  /\ on = "on" /\ cur # None /\ k \notin ticking
  /\ \E s \in Slot : Arm(s, k) /\ handle' = [handle EXCEPT ![k] = s]
  /\ ticking' = ticking \cup {k}
  /\ UNCHANGED <<due, asleep, cur, on, robbed>>

(* timer:cancel, through the handle that the program has for k.            *)
Cancel(k) ==
  /\ on = "on" /\ cur # None /\ handle[k] # None
  /\ Disarm(handle[k])
  /\ LET o == ctx[handle[k]]
     IN IF o = k THEN ticking' = ticking \ {k} /\ robbed' = robbed
                 ELSE ticking' = ticking /\ robbed' = robbed \cup {o}
  /\ UNCHANGED <<ctx, asleep, handle, cur, on, young>>

(* What runs ends or waits; event_dispatch may have another coroutine to   *)
(* run, or returns to libevent.                                            *)
Return ==
  /\ cur # None
  /\ cur' \in (Coroutine \ asleep) \cup {None}
  /\ UNCHANGED <<timer, free, pending, due, ctx, asleep, ticking, handle, on, young, robbed>>

-----------------------------------------------------------------------------
(* The event loop.                                                         *)

(* A poll: the timers that have expired leave the heap and are activated.  *)
Poll(D) ==
  /\ on = "on" /\ cur = None /\ due = {} /\ D # {}
  /\ due' = D /\ pending' = pending \ D /\ young' = {}
  /\ UNCHANGED <<timer, free, ctx, asleep, ticking, handle, cur, on, robbed>>

(* Any other event: its handler runs.                                      *)
OtherEvent ==
  /\ on = "on" /\ cur = None
  /\ cur' = Main
  /\ UNCHANGED <<timer, free, pending, due, ctx, asleep, ticking, handle, on, young, robbed>>

(* EV_TIMEOUT of a ticker: libevent puts the event back unless its         *)
(* interval is 0, and the callback runs.                                   *)
FireTick(s) ==
  /\ on = "on" /\ cur = None /\ s \in due /\ ctx[s] \in Ticker
  /\ due' = due \ {s}
  /\ pending' = IF ctx[s] \in Zero THEN pending ELSE pending \cup {s}
  /\ cur' = Main
  /\ UNCHANGED <<timer, free, ctx, asleep, ticking, handle, on, young, robbed>>

(* EV_TIMEOUT of a sleeper: the timer is cancelled, and run_wakeup resumes *)
(* the coroutine; nothing waits for the session of Lost.                   *)
FireSleep(s) ==
  LET c == ctx[s]
  IN /\ on = "on" /\ cur = None /\ s \in due /\ c \in Coroutine \cup {Lost}
     /\ Disarm(s)
     /\ ctx' = [ctx EXCEPT ![s] = None]
     /\ IF c \in asleep THEN cur' = c /\ asleep' = asleep \ {c} ELSE UNCHANGED <<cur, asleep>>
     /\ UNCHANGED <<ticking, handle, on, young, robbed>>

(* The loop ends, for want of events or after event.breakout: dispatch     *)
(* cancels the timers of _timer_ctx that are alive, in any order.          *)
Stop ==
  /\ on = "on" /\ cur = None
  /\ LET S == {s \in Slot : timer[s] = "armed" /\ ctx[s] # None}
     IN /\ \E q \in Orders(S) : free' = q \o free
        /\ timer' = [s \in Slot |-> IF s \in S THEN "cancelled" ELSE timer[s]]
        /\ pending' = pending \ S /\ due' = due \ S
  /\ on' = "stopped"
  /\ UNCHANGED <<ctx, asleep, ticking, handle, cur, young, robbed>>

(* _release frees the events on the free list. (dispatch does not come to  *)
(* it while a connection is alive: it calls close_immediately on the       *)
(* levbuffer, which has no such method.)                                   *)
Release ==
  /\ on = "stopped"
  /\ timer' = [s \in Slot |-> IF s \in Elems(free) THEN "freed" ELSE timer[s]]
  /\ free' = <<>> /\ on' = "released"
  /\ UNCHANGED <<pending, due, ctx, asleep, ticking, handle, cur, young, robbed>>

Calls ==
  \/ SleepRaises \/ Return
  \/ \E c \in Coroutine : Sleep(c)
  \/ \E k \in Ticker : Tick(k) \/ Cancel(k)
Loop ==
  \/ OtherEvent \/ Stop \/ Release
  \/ \E D \in SUBSET pending : Poll(D)
  \/ \E s \in Slot : FireTick(s) \/ FireSleep(s)
Next == Calls \/ Loop

Spec == Init /\ [][Next]_vars

(* Time passes, and a poll activates what has expired; what is active runs *)
(* before the next poll, and the program returns.                          *)
Fire(s) == FireTick(s) \/ FireSleep(s)
Expire(s) == \E D \in SUBSET pending : s \in D /\ Poll(D)
FairSpec ==
  /\ Spec /\ WF_vars(Return)
  /\ \A s \in Slot : SF_vars(Expire(s)) /\ SF_vars(Fire(s))
-----------------------------------------------------------------------------
TypeOK ==
  /\ timer \in [Slot -> {"new", "armed", "cancelled", "freed"}]
  /\ free \in Seq(Slot)
  /\ pending \subseteq Slot /\ due \subseteq Slot
  /\ ctx \in [Slot -> Owner \cup {None}]
  /\ asleep \subseteq Coroutine /\ ticking \subseteq Ticker
  /\ handle \in [Ticker -> Slot \cup {None}]
  /\ cur \in Coroutine \cup {Main, None}
  /\ on \in {"on", "stopped", "released"}
  /\ young \subseteq Owner /\ robbed \subseteq Owner

(* The free list holds every cancelled userdata once, and no other, so no  *)
(* two timers ever share one, and _release frees each event once.          *)
FreeExact ==
  /\ Once(free)
  /\ Elems(free) = {s \in Slot : timer[s] = "cancelled"}

(* Who sleeps or ticks has one timer of its own, that is in the heap or    *)
(* activated, whatever other timers were cancelled and used again; unless  *)
(* the program cancelled it through a handle it should have dropped. (The  *)
(* timer of an interval of 0 is alive for ever and runs once.)             *)
Waits(o) == o \in asleep \cup ticking
Ticks(s, o) == timer[s] = "armed" /\ ctx[s] = o /\ (o \notin Zero => s \in pending \cup due)

TimerHeld ==
  \A o \in Coroutine \cup Ticker :
    on = "on" /\ Waits(o) /\ o \notin robbed =>
      \E s \in Slot : Ticks(s, o) /\ \A t \in Slot : timer[t] = "armed" /\ ctx[t] = o => t = s

(* What runs is what expired: a timer that was cancelled and used again    *)
(* within one round of the loop does not run for its new owner, a sleeper  *)
(* is not woken before its time.                                           *)
DueOwned ==
  \A s \in due :
    timer[s] = "armed" /\ s \notin pending /\ ctx[s] # None /\ ctx[s] \notin young \ {Lost}

(* When dispatch has stopped, every timer has been cancelled, so that all  *)
(* handles that the program still has raise; and after _release nothing    *)
(* of the timers is left to libevent.                                      *)
AllReleased ==
  on # "on" => /\ pending = {} /\ due = {}
               /\ \A s \in Slot : timer[s] # "armed"
               /\ on = "released" => \A s \in Slot : timer[s] # "cancelled"

(* Every sleeper wakes up, if the loop goes on.                            *)
Woken == \A c \in Coroutine : c \in asleep ~> c \notin asleep \/ c \in robbed \/ on # "on"
=============================================================================
