------------------------------ MODULE Scheduler ------------------------------
(***************************************************************************)
(* The cooperative scheduler of script/event.lua: the coroutine pool, the  *)
(* table of coroutines that wait for a session, and the two queues (forked *)
(* functions and wakeups) that event_dispatch drains after every handler.  *)
(*                                                                         *)
(* The program is single-threaded. What makes it hard is that user code    *)
(* runs in the middle of the loops that drain the queues, changes these    *)
(* queues, and can even start a second event_dispatch inside the first one *)
(* (event.dns of a numeric host calls its callback before it returns). So  *)
(* the state holds the stack of event_dispatch activations, one frame      *)
(* each, and a frame's loop keeps iterating the Lua table it started with  *)
(* after the global variable has been assigned a new one.                  *)
(***************************************************************************)
EXTENDS Naturals, Sequences, FiniteSets

CONSTANTS
  Co,        (* identities of coroutines; an identity is reused once free  *)
  Task,      (* functions user code may fork between two polls (a bound)   *)
  Session,   (* sessions in use at once (a bound)                          *)
  MaxWake,   (* entries of one _wakeup_queue table (a bound)               *)
  MaxDepth,  (* nested event_dispatch activations (a bound)                *)
  None       (* no coroutine                                               *)

ASSUME SchedulerAssumption ==
  /\ None \notin Co
  /\ IsFiniteSet(Co)
  /\ MaxWake \in Nat
  /\ MaxDepth \in Nat \ {0}

VARIABLES
  forkQ,     (* _fork_queue: a Lua table, it may have holes                *)
  wakeQ,     (* _wakeup_queue, the sessions to wake                        *)
  waitCo,    (* _wait_co: the coroutine that waits for a session           *)
  pool,      (* _co_pool: finished coroutines kept for the next fork       *)
  stack,     (* the activations of event_dispatch, innermost last          *)
  sess,      (* per session: who generated it and whether it was waited on *)
  task,      (* per function: whether it is queued or has been started     *)
  owed       (* history: per session, a wakeup asked for and not handled   *)

vars == <<forkQ, wakeQ, waitCo, pool, stack, sess, task, owed>>

-----------------------------------------------------------------------------
(* An activation is in user code of its event handler ("handler"), or in   *)
(* the loop of run_wakeup or of run_fork, just after index i. co is the    *)
(* coroutine the loop has resumed and that has not yielded yet. live says  *)
(* that the table it iterates is still the global one; if not, tbl is it.  *)
Handler == [kind |-> "handler", i |-> 0, co |-> None, live |-> TRUE, tbl |-> <<>>]
Loop(k) == [kind |-> k, i |-> 0, co |-> None, live |-> TRUE, tbl |-> <<>>]

Top == stack[Len(stack)]
Table(f) == IF ~f.live THEN f.tbl ELSE IF f.kind = "wakeup" THEN wakeQ ELSE forkQ

Active  == {stack[j].co : j \in DOMAIN stack} \ {None}
Waiting == {waitCo[s] : s \in Session} \ {None}
Busy    == Active \cup Waiting
Queued  == {t \in Task : task[t].at = "queued"}

Polling == stack = <<>>
(* User code runs: the handler itself, or the coroutine on top.            *)
InUserCode == ~Polling /\ (Top.kind = "handler" \/ Top.co # None)
InLoop(k) == ~Polling /\ Top.kind = k /\ Top.co = None
Forking == \E j \in DOMAIN stack : stack[j].kind = "fork"
(* Some run_wakeup goes on with a table that is no longer the global one.  *)
Detached == \E j \in DOMAIN stack : stack[j].kind = "wakeup" /\ ~stack[j].live

WithTop(f) == [stack EXCEPT ![Len(stack)] = f]
Running(c) == WithTop([Top EXCEPT !.co = c])
(* "_wakeup_queue = {}": loops over the old table keep it.                 *)
Detach(k, table) ==
  [j \in DOMAIN stack |->
     IF stack[j].kind = k /\ stack[j].live
       THEN [stack[j] EXCEPT !.live = FALSE, !.tbl = table] ELSE stack[j]]

(* The borders of a Lua table: what # may return when there are holes, so  *)
(* where table.insert may put a new last element.                          *)
Borders(q) == {b \in DOMAIN q \cup {0} : b + 1 \notin DOMAIN q}
Insert(q, i, x) == [j \in DOMAIN q \cup {i} |-> IF j = i THEN x ELSE q[j]]
Remove(q, i) == [j \in DOMAIN q \ {i} |-> q[j]]

FreeSession == [by |-> None, at |-> "free"]
FreeTask == [at |-> "free", outside |-> FALSE]

(* The script's main chunk runs before event.dispatch, whose first act is  *)
(* to drain both queues: it is an activation like the others.              *)
Init ==
  /\ forkQ = <<>>
  /\ wakeQ = <<>>
  /\ waitCo = [s \in Session |-> None]
  /\ pool = {}
  /\ stack = <<Handler>>
  /\ sess = [s \in Session |-> FreeSession]
  /\ task = [t \in Task |-> FreeTask]
  /\ owed = [s \in Session |-> "no"]

-----------------------------------------------------------------------------
(* libevent calls event_dispatch for an event. Functions started and       *)
(* sessions done with before may be named again from here on.              *)
EventBegin ==
  /\ Polling
  /\ stack' = <<Handler>>
  /\ task' = [t \in Task |-> FreeTask]
  /\ sess' = [s \in Session |->
                IF sess[s].at = "done" /\ \A j \in DOMAIN wakeQ : wakeQ[j] # s
                  THEN FreeSession ELSE sess[s]]
  /\ UNCHANGED <<forkQ, wakeQ, waitCo, pool, owed>>

(* fork. The bound leaves a coroutine for every queued function.           *)
Fork(t) ==
  /\ InUserCode
  /\ task[t].at = "free"
  /\ Cardinality(Queued) + Cardinality(Busy) < Cardinality(Co)
  /\ \E b \in Borders(forkQ) : forkQ' = Insert(forkQ, b + 1, t)
  /\ task' = [task EXCEPT ![t] = [at |-> "queued", outside |-> ~Forking]]
  /\ UNCHANGED <<wakeQ, waitCo, pool, stack, sess, owed>>

(* wakeup, of any session that has been given out.                         *)
Wakeup(s) ==
  /\ InUserCode
  /\ sess[s].at # "free"
  /\ Len(wakeQ) < MaxWake
  /\ wakeQ' = Append(wakeQ, s)
  /\ owed' = IF Detached \/ owed[s] = "outside" THEN owed
             ELSE [owed EXCEPT ![s] = IF Forking THEN "forking" ELSE "outside"]
  /\ UNCHANGED <<forkQ, waitCo, pool, stack, sess, task>>

(* gen_session, in a coroutine that is going to wait.                      *)
GenSession(s) ==
  /\ InUserCode
  /\ Top.co # None
  /\ sess[s].at = "free"
  /\ sess' = [sess EXCEPT ![s] = [by |-> Top.co, at |-> "made"]]
  /\ UNCHANGED <<forkQ, wakeQ, waitCo, pool, stack, task, owed>>

(* wait: the coroutine yields the session and co_monitor registers it.     *)
Wait(s) ==
  /\ InUserCode
  /\ sess[s] = [by |-> Top.co, at |-> "made"]
  /\ waitCo' = [waitCo EXCEPT ![s] = Top.co]
  /\ sess' = [sess EXCEPT ![s].at = "waited"]
  /\ stack' = Running(None)
  /\ UNCHANGED <<forkQ, wakeQ, pool, task, owed>>

(* Sessions the coroutine gave out and will never wait for.                *)
Abandoned(c) ==
  [s \in Session |->
     IF sess[s] = [by |-> c, at |-> "made"] THEN [sess[s] EXCEPT !.at = "done"] ELSE sess[s]]

(* The forked function returns: its coroutine goes to the pool and yields  *)
(* EXIT.                                                                   *)
Finish ==
  /\ InUserCode
  /\ Top.co # None
  /\ pool' = pool \cup {Top.co}
  /\ sess' = Abandoned(Top.co)
  /\ stack' = Running(None)
  /\ UNCHANGED <<forkQ, wakeQ, waitCo, task, owed>>

(* The forked function raises: co_monitor reports it, the coroutine is     *)
(* dead and its identity free for a new one.                               *)
Fail ==
  /\ InUserCode
  /\ Top.co # None
  /\ sess' = Abandoned(Top.co)
  /\ stack' = Running(None)
  /\ UNCHANGED <<forkQ, wakeQ, waitCo, pool, task, owed>>

(* event.dns of a host that needs no query: dns_response, so               *)
(* event_dispatch, runs before _dns_ctx[dns] is set. The handler calls nil *)
(* and fails, then the queues are drained in an inner activation.          *)
SyncDns ==
  /\ InUserCode
  /\ Len(stack) < MaxDepth
  /\ stack' = Append(stack, Loop("wakeup"))
  /\ UNCHANGED <<forkQ, wakeQ, waitCo, pool, sess, task, owed>>

(* Mutant: run_fork before run_wakeup, and no run_wakeup after it.         *)
HandlerEndForksOnly ==
  /\ InUserCode
  /\ Top.kind = "handler"
  /\ stack' = WithTop(Loop("fork"))
  /\ UNCHANGED <<forkQ, wakeQ, waitCo, pool, sess, task, owed>>

(* The handler returns or raises: xpcall, then run_wakeup.                 *)
HandlerEnd ==
  /\ InUserCode
  /\ Top.kind = "handler"
  /\ stack' = WithTop(Loop("wakeup"))
  /\ UNCHANGED <<forkQ, wakeQ, waitCo, pool, sess, task, owed>>

-----------------------------------------------------------------------------
(* Mutant: the waiter is resumed but stays registered.                     *)
RunWakeupKeepsWaiter ==
  /\ InLoop("wakeup")
  /\ Top.i + 1 \in DOMAIN Table(Top)
  /\ LET s == Table(Top)[Top.i + 1]
     IN /\ stack' = WithTop([Top EXCEPT !.i = @ + 1, !.co = waitCo[s]])
        /\ sess' = IF waitCo[s] = None THEN sess ELSE [sess EXCEPT ![s].at = "done"]
        /\ owed' = [owed EXCEPT ![s] = "no"]
  /\ UNCHANGED <<forkQ, wakeQ, waitCo, pool, task>>

(* One turn of run_wakeup: the waiter leaves _wait_co and is resumed, or   *)
(* there is none and the wakeup is reported and dropped.                   *)
RunWakeup ==
  /\ InLoop("wakeup")
  /\ Top.i + 1 \in DOMAIN Table(Top)
  /\ LET s == Table(Top)[Top.i + 1]
     IN /\ stack' = WithTop([Top EXCEPT !.i = @ + 1, !.co = waitCo[s]])
        /\ waitCo' = [waitCo EXCEPT ![s] = None]
        /\ sess' = IF waitCo[s] = None THEN sess ELSE [sess EXCEPT ![s].at = "done"]
        /\ owed' = [owed EXCEPT ![s] = "no"]
  /\ UNCHANGED <<forkQ, wakeQ, pool, task>>

(* Mutant: the loop stops one entry before the end of its table.           *)
RunWakeupEndEarly ==
  /\ InLoop("wakeup")
  /\ Top.i + 1 >= Len(Table(Top))
  /\ wakeQ' = <<>>
  /\ stack' = [Detach("wakeup", wakeQ) EXCEPT ![Len(stack)] = Loop("fork")]
  /\ UNCHANGED <<forkQ, waitCo, pool, sess, task, owed>>

(* The end of run_wakeup: a new queue, then run_fork.                      *)
RunWakeupEnd ==
  /\ InLoop("wakeup")
  /\ Top.i + 1 \notin DOMAIN Table(Top)
  /\ wakeQ' = <<>>
  /\ stack' = [Detach("wakeup", wakeQ) EXCEPT ![Len(stack)] = Loop("fork")]
  /\ UNCHANGED <<forkQ, waitCo, pool, sess, task, owed>>

(* Mutant: the index is advanced twice.                                    *)
RunForkSkips ==
  /\ InLoop("fork")
  /\ Top.i + 1 \in DOMAIN Table(Top)
  /\ \E c \in IF pool # {} THEN pool ELSE Co \ Busy :
       LET n == Top.i + 1
       IN /\ task' = [task EXCEPT ![Table(Top)[n]].at = "started"]
          /\ pool' = pool \ {c}
          /\ forkQ' = Remove(forkQ, n)
          /\ stack' = WithTop([Top EXCEPT !.i = n + 1, !.co = c])
  /\ UNCHANGED <<wakeQ, waitCo, sess, owed>>

(* One turn of run_fork: the entry of this index leaves _fork_queue, even  *)
(* if that is no longer the table the loop iterates, then co_create takes  *)
(* a pooled coroutine, or a new one, and it is resumed.                    *)
RunFork ==
  /\ InLoop("fork")
  /\ Top.i + 1 \in DOMAIN Table(Top)
  /\ \E c \in IF pool # {} THEN pool ELSE Co \ Busy :
       LET n == Top.i + 1
       IN /\ task' = [task EXCEPT ![Table(Top)[n]].at = "started"]
          /\ pool' = pool \ {c}
          /\ forkQ' = Remove(forkQ, n)
          /\ stack' = WithTop([Top EXCEPT !.i = n, !.co = c])
  /\ UNCHANGED <<wakeQ, waitCo, sess, owed>>

(* The end of run_fork, and of this event_dispatch.                        *)
RunForkEnd ==
  /\ InLoop("fork")
  /\ Top.i + 1 \notin DOMAIN Table(Top)
  /\ forkQ' = <<>>
  /\ stack' = SubSeq(Detach("fork", forkQ), 1, Len(stack) - 1)
  /\ UNCHANGED <<wakeQ, waitCo, pool, sess, task, owed>>

UserCode ==
  \/ \E t \in Task : Fork(t)
  \/ \E s \in Session : Wakeup(s) \/ GenSession(s)
  \/ SyncDns

UserReturn ==
  \/ \E s \in Session : Wait(s)
  \/ Finish \/ Fail \/ HandlerEnd

Drain == RunWakeup \/ RunWakeupEnd \/ RunFork \/ RunForkEnd

Next == EventBegin \/ UserCode \/ UserReturn \/ Drain

Spec == Init /\ [][Next]_vars

(* Fairness, for liveness only. The loops of event_dispatch are straight   *)
(* code. Events keep coming as long as a periodic timer or a listener is   *)
(* pending. User code is assumed to return to its caller in the end: it    *)
(* may run as often as it likes in between, hence strong fairness.         *)
Fairness == WF_vars(EventBegin) /\ WF_vars(Drain) /\ SF_vars(UserReturn)
FairSpec == Spec /\ Fairness
-----------------------------------------------------------------------------
(* The values the variables take. A queue holds sessions that have been    *)
(* given out; each index of a fork table holds a queued function.          *)
TypeOK ==
  /\ DOMAIN forkQ \subseteq Nat \ {0} /\ \A j \in DOMAIN forkQ : forkQ[j] \in Task
  /\ wakeQ \in Seq(Session)
  /\ waitCo \in [Session -> Co \cup {None}]
  /\ pool \subseteq Co
  /\ \A j \in DOMAIN stack :
       /\ stack[j].kind \in {"handler", "wakeup", "fork"}
       /\ stack[j].i \in Nat
       /\ stack[j].co \in Co \cup {None}
       /\ stack[j].live \in BOOLEAN
  /\ sess \in [Session -> [by : Co \cup {None}, at : {"free", "made", "waited", "done"}]]
  /\ task \in [Task -> [at : {"free", "queued", "started"}, outside : BOOLEAN]]
  /\ owed \in [Session -> {"no", "outside", "forking"}]

(* A coroutine is in one place: on the stack of activations once, or       *)
(* waiting for one session, or in the pool. The code resumes what it finds *)
(* in _wait_co and in _co_pool without looking at its status, so this is   *)
(* what keeps it from resuming a running coroutine or from giving a        *)
(* coroutine that still waits to a new function.                           *)
OneHome ==
  /\ \A j, k \in DOMAIN stack :
       stack[j].co = stack[k].co /\ stack[j].co # None => j = k
  /\ \A s, r \in Session : waitCo[s] = waitCo[r] /\ waitCo[s] # None => s = r
  /\ Active \cap Waiting = {}
  /\ pool \cap Busy = {}

(* Functions some run_fork can still reach.                                *)
Reachable ==
  {forkQ[j] : j \in DOMAIN forkQ} \cup
  UNION {LET f == stack[k]
         IN {f.tbl[j] : j \in {n \in DOMAIN f.tbl : n > f.i}} :
           k \in {n \in DOMAIN stack : stack[n].kind = "fork" /\ ~stack[n].live}}

(* A function forked while no run_fork is in progress is not lost: it is   *)
(* started before event_dispatch returns, whatever holes and new tables    *)
(* the functions before it leave behind. (One forked BY a forked function  *)
(* can be lost: table.insert may put it behind the index of the loop.)     *)
ForkKept ==
  \A t \in Queued : task[t].outside => ~Polling /\ t \in Reachable

(* Two activations never start a function twice: what run_fork comes to    *)
(* next has not been started. (Three can: two loops that were left with    *)
(* the same table, by the end of a third, both come to what is left of it, *)
(* as the entries they handle from then on leave another table.)           *)
ForkOnce ==
  MaxDepth <= 2 /\ InLoop("fork") /\ Top.i + 1 \in DOMAIN Table(Top)
    => Table(Top)[Top.i + 1] \in Queued

ForkExact == ForkKept /\ ForkOnce

(* The session is in the queue, ahead of every loop that iterates it.      *)
Kept(s) ==
  \E j \in DOMAIN wakeQ :
    /\ wakeQ[j] = s
    /\ \A k \in DOMAIN stack :
         stack[k].kind = "wakeup" /\ stack[k].live => stack[k].i < j

(* A wakeup is not lost unless it was asked for while an outer run_wakeup  *)
(* goes on with a table that an inner activation has replaced: the queue   *)
(* that is then filled is thrown away when the outer loop ends. (When the  *)
(* inner activation replaces the table it has handled every entry of it.)  *)
WakeupKept == \A s \in Session : owed[s] # "no" => Kept(s)

(* A wakeup asked for by a handler or by a coroutine that another wakeup   *)
(* resumed is handled by the same event_dispatch. Only one asked for while *)
(* run_fork runs may rest in the queue until some later event.             *)
WakeupPrompt == Polling => \A s \in Session : owed[s] # "outside"

(* No wakeup rests for ever, if events keep coming and user code returns.  *)
WakeupServed == \A s \in Session : owed[s] # "no" ~> owed[s] = "no"
=============================================================================
