--------------------------- MODULE SchedulerProofs ---------------------------
(***************************************************************************)
(* Proofs about the scheduler, for any number of coroutines, functions and *)
(* sessions and any depth of nested dispatch: the values of the variables, *)
(* that a coroutine is in one place, that wakeups are kept and handled     *)
(* promptly, and that forked functions are started, once.                  *)
(***************************************************************************)
EXTENDS Scheduler, TLAPS

ForkTables == UNION {[D -> Task] : D \in SUBSET (Nat \ {0})}

Frame ==
  [kind : {"handler", "wakeup", "fork"}, i : Nat, co : Co \cup {None},
   live : BOOLEAN, tbl : ForkTables \cup Seq(Session)]

(* The inductive form of TypeOK: the stack is a sequence of frames, and a  *)
(* table that a loop holds is of the kind its loop expects.                *)
TypeInv ==
  /\ forkQ \in ForkTables
  /\ wakeQ \in Seq(Session)
  /\ waitCo \in [Session -> Co \cup {None}]
  /\ pool \subseteq Co
  /\ stack \in Seq(Frame)
  /\ \A j \in DOMAIN stack : ~stack[j].live =>
       /\ stack[j].kind = "wakeup" => stack[j].tbl \in Seq(Session)
       /\ stack[j].kind = "fork" => stack[j].tbl \in ForkTables
       /\ stack[j].kind # "handler"
  /\ sess \in [Session -> [by : Co \cup {None}, at : {"free", "made", "waited", "done"}]]
  /\ task \in [Task -> [at : {"free", "queued", "started"}, outside : BOOLEAN]]
  /\ owed \in [Session -> {"no", "outside", "forking"}]

(* Where an owed wakeup is: in the global queue, and then no loop has been *)
(* left with a table of its own. One asked for outside run_fork has the    *)
(* outermost activation still ahead of its run_wakeup, or in it.           *)
WakeupInv ==
  \A s \in Session : owed[s] # "no" =>
    /\ ~Detached /\ Kept(s)
    /\ owed[s] = "outside" => ~Polling /\ stack[1].kind # "fork"

-----------------------------------------------------------------------------
LEMMA EmptyTable == <<>> \in ForkTables
<1>1. <<>> \in [{} -> Task]
  OBVIOUS
<1>2. QED
  BY <1>1 DEF ForkTables

LEMMA InsertTable ==
  ASSUME NEW q \in ForkTables, NEW i \in Nat \ {0}, NEW x \in Task
  PROVE  Insert(q, i, x) \in ForkTables
<1>1. PICK D \in SUBSET (Nat \ {0}) : q \in [D -> Task]
  BY DEF ForkTables
<1>2. Insert(q, i, x) \in [D \cup {i} -> Task]
  BY <1>1 DEF Insert
<1>3. QED
  BY <1>2 DEF ForkTables

LEMMA RemoveTable ==
  ASSUME NEW q \in ForkTables, NEW i
  PROVE  Remove(q, i) \in ForkTables
<1>1. PICK D \in SUBSET (Nat \ {0}) : q \in [D -> Task]
  BY DEF ForkTables
<1>2. Remove(q, i) \in [D \ {i} -> Task]
  BY <1>1 DEF Remove
<1>3. QED
  BY <1>2 DEF ForkTables

LEMMA BorderIsIndex ==
  ASSUME NEW q \in ForkTables, NEW b \in Borders(q)
  PROVE  b + 1 \in Nat \ {0}
<1>1. PICK D \in SUBSET (Nat \ {0}) : q \in [D -> Task]
  BY DEF ForkTables
<1>2. QED
  BY <1>1 DEF Borders

LEMMA TableIndexes ==
  ASSUME NEW q \in ForkTables
  PROVE  DOMAIN q \subseteq Nat \ {0}
<1>1. PICK D \in SUBSET (Nat \ {0}) : q \in [D -> Task]
  BY DEF ForkTables
<1>2. QED
  BY <1>1

LEMMA TableEntry ==
  ASSUME NEW q \in ForkTables, NEW i \in DOMAIN q
  PROVE  q[i] \in Task
BY DEF ForkTables

(* The top frame and its replacement, in terms of the stack's indices.     *)
LEMMA TopFrame ==
  ASSUME TypeInv, ~Polling
  PROVE  /\ Len(stack) \in Nat \ {0}
         /\ Len(stack) \in DOMAIN stack
         /\ DOMAIN stack = 1 .. Len(stack)
         /\ Top \in Frame
         /\ Top = stack[Len(stack)]
BY DEF TypeInv, Polling, Top

LEMMA WithTopStack ==
  ASSUME TypeInv, ~Polling, NEW f \in Frame
  PROVE  /\ WithTop(f) \in Seq(Frame)
         /\ DOMAIN WithTop(f) = DOMAIN stack
         /\ Len(WithTop(f)) = Len(stack)
         /\ \A j \in DOMAIN stack :
              WithTop(f)[j] = IF j = Len(stack) THEN f ELSE stack[j]
BY TopFrame DEF TypeInv, WithTop

(* One turn of run_fork: the new top frame, and the coroutine it resumes.  *)
LEMMA RunForkTop ==
  ASSUME TypeInv, RunFork
  PROVE  /\ ~Polling /\ Top.kind = "fork" /\ Top.co = None
         /\ Table(Top) \in ForkTables
         /\ Top.i + 1 \in DOMAIN Table(Top) /\ Table(Top)[Top.i + 1] \in Task
         /\ \E c \in Co, f \in Frame :
              /\ c \in IF pool # {} THEN pool ELSE Co \ Busy
              /\ pool' = pool \ {c}
              /\ task' = [task EXCEPT ![Table(Top)[Top.i + 1]].at = "started"]
              /\ f.kind = "fork" /\ f.live = Top.live /\ f.tbl = Top.tbl
              /\ f.i = Top.i + 1 /\ f.co = c
              /\ stack' = WithTop(f)
<1>1. ~Polling /\ Top.kind = "fork" /\ Top.co = None /\ Top.i + 1 \in DOMAIN Table(Top)
  BY DEF RunFork, InLoop
<1>2. Table(Top) \in ForkTables
  BY <1>1, TopFrame DEF Table, TypeInv
<1>3. Table(Top)[Top.i + 1] \in Task
  BY <1>1, <1>2, TableEntry
<1> DEFINE n == Top.i + 1
<1>4. PICK c \in IF pool # {} THEN pool ELSE Co \ Busy :
        /\ task' = [task EXCEPT ![Table(Top)[n]].at = "started"]
        /\ pool' = pool \ {c}
        /\ stack' = WithTop([Top EXCEPT !.i = n, !.co = c])
  BY DEF RunFork
<1>5. c \in Co
  BY <1>4 DEF TypeInv
<1>6. Top \in Frame /\ n \in Nat
  BY <1>1, TopFrame DEF Frame
<1> DEFINE f == [Top EXCEPT !.i = n, !.co = c]
<1> HIDE DEF n
<1>7. /\ f \in Frame /\ f.kind = Top.kind /\ f.live = Top.live /\ f.tbl = Top.tbl
      /\ f.i = n /\ f.co = c
  BY <1>5, <1>6 DEF Frame
<1>8. stack' = WithTop(f)
  BY <1>4
<1> HIDE DEF f
<1>9. QED
  BY <1>1, <1>2, <1>3, <1>4, <1>5, <1>7, <1>8 DEF n

LEMMA DetachStack ==
  ASSUME TypeInv, NEW k \in {"wakeup", "fork"}, NEW q \in ForkTables \cup Seq(Session)
  PROVE  /\ Detach(k, q) \in Seq(Frame)
         /\ DOMAIN Detach(k, q) = DOMAIN stack
         /\ Len(Detach(k, q)) = Len(stack)
         /\ \A j \in DOMAIN stack :
              /\ Detach(k, q)[j].kind = stack[j].kind
              /\ Detach(k, q)[j].i = stack[j].i
              /\ Detach(k, q)[j].co = stack[j].co
              /\ stack[j].kind = k => ~Detach(k, q)[j].live
              /\ stack[j].kind = k /\ stack[j].live => Detach(k, q)[j].tbl = q
              /\ ~(stack[j].kind = k /\ stack[j].live) => Detach(k, q)[j] = stack[j]
<1> DEFINE D == Detach(k, q)
<1>1. stack \in [1 .. Len(stack) -> Frame] /\ Len(stack) \in Nat
  BY DEF TypeInv
<1>2. \A j \in 1 .. Len(stack) :
        [stack[j] EXCEPT !.live = FALSE, !.tbl = q] \in Frame
  BY <1>1 DEF Frame
<1>3. D \in [1 .. Len(stack) -> Frame]
  BY <1>1, <1>2 DEF Detach
<1>4. D \in Seq(Frame) /\ DOMAIN D = DOMAIN stack /\ Len(D) = Len(stack)
  BY <1>1, <1>3
<1>5. ASSUME NEW j \in DOMAIN stack
      PROVE  /\ D[j].kind = stack[j].kind
             /\ D[j].i = stack[j].i
             /\ D[j].co = stack[j].co
             /\ stack[j].kind = k => ~D[j].live
             /\ stack[j].kind = k /\ stack[j].live => D[j].tbl = q
             /\ ~(stack[j].kind = k /\ stack[j].live) => D[j] = stack[j]
  BY <1>1 DEF Detach, Frame
<1>6. QED
  BY <1>4, <1>5

-----------------------------------------------------------------------------
LEMMA TypeInit == Init => TypeInv
<1> SUFFICES ASSUME Init PROVE TypeInv
  OBVIOUS
<1>1. Handler \in Frame
  BY EmptyTable DEF Handler, Frame
<1>2. stack \in Seq(Frame) /\ Len(stack) = 1 /\ stack[1] = Handler
  BY <1>1 DEF Init
<1>3. \A j \in DOMAIN stack : stack[j].live
  BY <1>2 DEF Handler
<1>4. QED
  BY <1>2, <1>3, EmptyTable DEF Init, TypeInv, FreeSession, FreeTask

LEMMA TypeNext == TypeInv /\ [Next]_vars => TypeInv'
<1> SUFFICES ASSUME TypeInv, [Next]_vars PROVE TypeInv'
  OBVIOUS
<1> USE DEF TypeInv
<1>1. CASE EventBegin
  <2>1. Handler \in Frame
    BY EmptyTable DEF Handler, Frame
  <2>2. stack' \in Seq(Frame) /\ \A j \in DOMAIN stack' : stack'[j].live
    BY <1>1, <2>1 DEF EventBegin, Handler
  <2>3. QED
    BY <1>1, <2>2 DEF EventBegin, FreeSession, FreeTask
<1>2. ASSUME NEW t \in Task, Fork(t) PROVE TypeInv'
  <2>1. forkQ' \in ForkTables
    BY <1>2, InsertTable, BorderIsIndex DEF Fork
  <2>2. QED
    BY <1>2, <2>1 DEF Fork
<1>3. ASSUME NEW s \in Session, Wakeup(s) PROVE TypeInv'
  BY <1>3 DEF Wakeup
<1>4. ASSUME NEW s \in Session, GenSession(s) PROVE TypeInv'
  BY <1>4, TopFrame DEF GenSession, InUserCode, Frame
<1>5. ASSUME NEW f \in Frame, ~Polling, stack' = WithTop(f),
             f.live = Top.live, f.kind = Top.kind,
             f.tbl = Top.tbl \/ (f.tbl \in ForkTables /\ f.kind = "fork")
      PROVE  /\ stack' \in Seq(Frame)
             /\ \A j \in DOMAIN stack' : ~stack'[j].live =>
                  /\ stack'[j].kind = "wakeup" => stack'[j].tbl \in Seq(Session)
                  /\ stack'[j].kind = "fork" => stack'[j].tbl \in ForkTables
                  /\ stack'[j].kind # "handler"
  BY <1>5, TopFrame, WithTopStack, SMTT(30)
<1>6. ASSUME InUserCode, NEW c \in Co \cup {None}, stack' = Running(c)
      PROVE  /\ stack' \in Seq(Frame)
             /\ \A j \in DOMAIN stack' : ~stack'[j].live =>
                  /\ stack'[j].kind = "wakeup" => stack'[j].tbl \in Seq(Session)
                  /\ stack'[j].kind = "fork" => stack'[j].tbl \in ForkTables
                  /\ stack'[j].kind # "handler"
  <2> DEFINE f == [Top EXCEPT !.co = c]
  <2>1. ~Polling /\ f \in Frame /\ f.live = Top.live /\ f.kind = Top.kind /\ f.tbl = Top.tbl
    BY <1>6, TopFrame DEF InUserCode, Frame
  <2>2. stack' = WithTop(f)
    BY <1>6 DEF Running
  <2> HIDE DEF f
  <2>3. QED
    BY <2>1, <2>2, <1>5
<1>7. ASSUME NEW s \in Session, Wait(s) PROVE TypeInv'
  BY <1>7, <1>6, TopFrame DEF Wait, InUserCode, Frame
<1>8. ASSUME NEW c \in Co PROVE Abandoned(c) \in
        [Session -> [by : Co \cup {None}, at : {"free", "made", "waited", "done"}]]
  BY DEF Abandoned
<1>9. CASE Finish
  BY <1>9, <1>6, <1>8, TopFrame DEF Finish, InUserCode, Frame
<1>10. CASE Fail
  BY <1>10, <1>6, <1>8, TopFrame DEF Fail, InUserCode, Frame
<1>11. Loop("wakeup") \in Frame /\ Loop("fork") \in Frame
  BY EmptyTable DEF Loop, Frame
<1>12. CASE SyncDns
  BY <1>12, <1>11 DEF SyncDns, Loop
<1>13. CASE HandlerEnd
  <2>1. \A j \in DOMAIN stack' : ~stack'[j].live => stack'[j] = stack[j] /\ j \in DOMAIN stack
    BY <1>13, <1>11, TopFrame, WithTopStack DEF HandlerEnd, InUserCode, Loop
  <2>2. QED
    BY <1>13, <2>1, <1>11, WithTopStack DEF HandlerEnd, InUserCode
<1>14. CASE RunWakeup
  <2> DEFINE s == Table(Top)[Top.i + 1]
             f == [Top EXCEPT !.i = @ + 1, !.co = waitCo[s]]
  <2>1. ~Polling /\ Top.kind = "wakeup"
    BY <1>14 DEF RunWakeup, InLoop
  <2>2. Table(Top) \in Seq(Session)
    BY <2>1, TopFrame DEF Table
  <2>3. s \in Session
    BY <1>14, <2>2 DEF RunWakeup
  <2>4. f \in Frame /\ f.live = Top.live /\ f.kind = Top.kind /\ f.tbl = Top.tbl
    <3>1. waitCo[s] \in Co \cup {None}
      BY <2>3
    <3>2. Top.i + 1 \in Nat /\ Top \in Frame
      BY <2>1, TopFrame DEF Frame
    <3> DEFINE c == waitCo[s]
    <3> HIDE DEF s, c
    <3>3. QED
      BY <3>1, <3>2 DEF Frame
  <2>5. stack' = WithTop(f)
    BY <1>14 DEF RunWakeup
  <2> HIDE DEF f
  <2>6. /\ stack' \in Seq(Frame)
        /\ \A j \in DOMAIN stack' : ~stack'[j].live =>
             /\ stack'[j].kind = "wakeup" => stack'[j].tbl \in Seq(Session)
             /\ stack'[j].kind = "fork" => stack'[j].tbl \in ForkTables
             /\ stack'[j].kind # "handler"
    BY <2>1, <2>4, <2>5, <1>5
  <2>7. waitCo' = [waitCo EXCEPT ![s] = None]
        /\ sess' = (IF waitCo[s] = None THEN sess ELSE [sess EXCEPT ![s].at = "done"])
        /\ owed' = [owed EXCEPT ![s] = "no"]
    BY <1>14 DEF RunWakeup
  <2>8. forkQ' = forkQ /\ wakeQ' = wakeQ /\ pool' = pool /\ task' = task
    BY <1>14 DEF RunWakeup
  <2> HIDE DEF s
  <2>9. waitCo' \in [Session -> Co \cup {None}]
    BY <2>3, <2>7
  <2>10. sess' \in [Session -> [by : Co \cup {None}, at : {"free", "made", "waited", "done"}]]
    BY <2>3, <2>7
  <2>11. owed' \in [Session -> {"no", "outside", "forking"}]
    BY <2>3, <2>7
  <2>12. QED
    BY <2>6, <2>8, <2>9, <2>10, <2>11
<1>15. CASE RunWakeupEnd
  <2>1. ~Polling
    BY <1>15 DEF RunWakeupEnd, InLoop
  <2> DEFINE D == Detach("wakeup", wakeQ)
  <2>2. /\ D \in Seq(Frame)
        /\ \A j \in DOMAIN D : ~D[j].live =>
             /\ D[j].kind = "wakeup" => D[j].tbl \in Seq(Session)
             /\ D[j].kind = "fork" => D[j].tbl \in ForkTables
             /\ D[j].kind # "handler"
    BY DetachStack
  <2>3. stack' = [D EXCEPT ![Len(stack)] = Loop("fork")]
    BY <1>15 DEF RunWakeupEnd
  <2> HIDE DEF D
  <2>4. stack' \in Seq(Frame) /\ DOMAIN stack' = DOMAIN D
    <3>1. Len(stack) \in DOMAIN D
      BY <2>1, TopFrame, DetachStack DEF D
    <3>2. QED
      BY <2>2, <2>3, <3>1, <1>11
  <2>5. \A j \in DOMAIN stack' : ~stack'[j].live => stack'[j] = D[j]
    BY <2>2, <2>3 DEF Loop
  <2>6. QED
    BY <1>15, <2>2, <2>4, <2>5 DEF RunWakeupEnd
<1>16. CASE RunFork
  <2> DEFINE t == Table(Top)[Top.i + 1]
  <2>1. PICK c \in Co, f \in Frame :
          /\ pool' = pool \ {c} /\ task' = [task EXCEPT ![t].at = "started"]
          /\ f.kind = "fork" /\ f.live = Top.live /\ f.tbl = Top.tbl
          /\ stack' = WithTop(f)
    BY <1>16, RunForkTop
  <2>2. ~Polling /\ Top.kind = "fork" /\ t \in Task
    BY <1>16, RunForkTop
  <2>3. /\ stack' \in Seq(Frame)
        /\ \A j \in DOMAIN stack' : ~stack'[j].live =>
             /\ stack'[j].kind = "wakeup" => stack'[j].tbl \in Seq(Session)
             /\ stack'[j].kind = "fork" => stack'[j].tbl \in ForkTables
             /\ stack'[j].kind # "handler"
    BY <2>1, <2>2, <1>5
  <2>4. forkQ' \in ForkTables
    BY <1>16, RemoveTable DEF RunFork
  <2> HIDE DEF t
  <2>5. task' \in [Task -> [at : {"free", "queued", "started"}, outside : BOOLEAN]]
    BY <2>1, <2>2
  <2>6. QED
    BY <1>16, <2>1, <2>3, <2>4, <2>5 DEF RunFork
<1>17. CASE RunForkEnd
  <2>1. ~Polling
    BY <1>17 DEF RunForkEnd, InLoop
  <2> DEFINE D == Detach("fork", forkQ)
  <2>2. /\ D \in Seq(Frame) /\ Len(D) = Len(stack)
        /\ \A j \in DOMAIN D : ~D[j].live =>
             /\ D[j].kind = "wakeup" => D[j].tbl \in Seq(Session)
             /\ D[j].kind = "fork" => D[j].tbl \in ForkTables
             /\ D[j].kind # "handler"
    BY DetachStack
  <2>3. stack' = SubSeq(D, 1, Len(stack) - 1)
    BY <1>17 DEF RunForkEnd
  <2> HIDE DEF D
  <2>4. stack' \in Seq(Frame) /\ \A j \in DOMAIN stack' : j \in DOMAIN D /\ stack'[j] = D[j]
    BY <2>1, <2>2, <2>3, TopFrame
  <2>5. QED
    BY <1>17, <2>2, <2>4, EmptyTable DEF RunForkEnd
<1>18. CASE UNCHANGED vars
  BY <1>18 DEF vars
<1>19. QED
  BY <1>1, <1>2, <1>3, <1>4, <1>7, <1>9, <1>10, <1>12, <1>13, <1>14, <1>15, <1>16,
     <1>17, <1>18 DEF Next, UserCode, UserReturn, Drain

-----------------------------------------------------------------------------
(* The variables have the values TypeOK says in every reachable state of   *)
(* the scheduler, for any number of coroutines, functions and sessions.    *)
THEOREM TypeCorrect == Spec => []TypeOK
<1>1. TypeInv => TypeOK
  <2> SUFFICES ASSUME TypeInv PROVE TypeOK
    OBVIOUS
  <2>1. DOMAIN forkQ \subseteq Nat \ {0} /\ \A j \in DOMAIN forkQ : forkQ[j] \in Task
    BY TableIndexes, TableEntry DEF TypeInv
  <2>2. ASSUME NEW j \in DOMAIN stack
        PROVE  /\ stack[j].kind \in {"handler", "wakeup", "fork"}
               /\ stack[j].i \in Nat
               /\ stack[j].co \in Co \cup {None}
               /\ stack[j].live \in BOOLEAN
    <3>1. stack[j] \in Frame
      BY DEF TypeInv
    <3>2. QED
      BY <3>1 DEF Frame
  <2>3. QED
    BY <2>1, <2>2 DEF TypeInv, TypeOK
<1>2. QED
  BY <1>1, TypeInit, TypeNext, PTL DEF Spec

-----------------------------------------------------------------------------
(* Steps that move no coroutine: each frame keeps the coroutine it had, or *)
(* has none.                                                               *)
LEMMA HomeKept ==
  ASSUME OneHome, waitCo' = waitCo, pool' = pool,
         \A j \in DOMAIN stack' :
           stack'[j].co = None \/ (j \in DOMAIN stack /\ stack'[j].co = stack[j].co)
  PROVE  OneHome'
<1>1. Active' \subseteq Active /\ Waiting' = Waiting
  BY DEF Active, Waiting
<1>2. QED
  BY <1>1 DEF OneHome, Busy

(* The coroutine of the top frame replaced by c.                           *)
LEMMA TopCo ==
  ASSUME TypeInv, ~Polling, NEW c,
         NEW f \in Frame, f.co = c, stack' = WithTop(f)
  PROVE  /\ DOMAIN stack' = DOMAIN stack
         /\ Len(stack) \in DOMAIN stack
         /\ stack[Len(stack)].co = Top.co
         /\ \A j \in DOMAIN stack :
              stack'[j].co = IF j = Len(stack) THEN c ELSE stack[j].co
BY TopFrame, WithTopStack

LEMMA RunningTop ==
  ASSUME TypeInv, InUserCode, NEW c \in Co \cup {None}, stack' = Running(c)
  PROVE  \E f \in Frame :
           /\ f.co = c /\ f.kind = Top.kind /\ f.i = Top.i /\ f.live = Top.live
           /\ f.tbl = Top.tbl /\ stack' = WithTop(f)
<1> DEFINE f == [Top EXCEPT !.co = c]
<1>1. f \in Frame /\ f.co = c /\ f.kind = Top.kind /\ f.i = Top.i /\ f.live = Top.live
      /\ f.tbl = Top.tbl
  BY TopFrame DEF InUserCode, Frame
<1>2. stack' = WithTop(f)
  BY DEF Running
<1> HIDE DEF f
<1>3. QED
  BY <1>1, <1>2

(* A coroutine put on top that is nowhere, or leaves the place it was in.  *)
LEMMA HomeResume ==
  ASSUME TypeInv, OneHome, ~Polling, Top.co = None,
         NEW c \in Co \cup {None}, NEW f \in Frame, f.co = c, stack' = WithTop(f),
         c \notin Active, c \notin pool', pool' \subseteq pool,
         \A s \in Session : waitCo'[s] = None \/ (waitCo'[s] = waitCo[s] /\ waitCo[s] # c)
  PROVE  OneHome'
<1>1. /\ DOMAIN stack' = DOMAIN stack
      /\ \A j \in DOMAIN stack :
           stack'[j].co = IF j = Len(stack) THEN c ELSE stack[j].co
  BY TopCo
<1>2. Active' \subseteq Active \cup {c}
  BY <1>1 DEF Active
<1>3. Waiting' \subseteq Waiting \ {c}
  BY DEF Waiting
<1>4. \A j, k \in DOMAIN stack' :
        stack'[j].co = stack'[k].co /\ stack'[j].co # None => j = k
  <2> SUFFICES ASSUME NEW j \in DOMAIN stack, NEW k \in DOMAIN stack,
                      stack'[j].co = stack'[k].co, stack'[j].co # None
               PROVE  j = k
    BY <1>1
  <2>1. CASE j = Len(stack) \/ k = Len(stack)
    BY <1>1, <2>1 DEF Active
  <2>2. CASE j # Len(stack) /\ k # Len(stack)
    BY <1>1, <2>2 DEF OneHome
  <2>3. QED
    BY <2>1, <2>2
<1>5. \A s, r \in Session : waitCo'[s] = waitCo'[r] /\ waitCo'[s] # None => s = r
  BY DEF OneHome
<1>6. Active' \cap Waiting' = {} /\ pool' \cap Busy' = {}
  BY <1>2, <1>3 DEF OneHome, Busy
<1>7. QED
  BY <1>4, <1>5, <1>6 DEF OneHome

LEMMA HomeNext == TypeInv /\ OneHome /\ [Next]_vars => OneHome'
<1> SUFFICES ASSUME TypeInv, OneHome, [Next]_vars PROVE OneHome'
  OBVIOUS
<1>1. CASE EventBegin
  BY <1>1, HomeKept DEF EventBegin, Handler
<1>2. ASSUME NEW t \in Task, Fork(t) PROVE OneHome'
  BY <1>2, HomeKept DEF Fork
<1>3. ASSUME NEW s \in Session, Wakeup(s) PROVE OneHome'
  BY <1>3, HomeKept DEF Wakeup
<1>4. ASSUME NEW s \in Session, GenSession(s) PROVE OneHome'
  BY <1>4, HomeKept DEF GenSession
<1>5. ASSUME InUserCode, stack' = Running(None)
      PROVE  /\ DOMAIN stack' = DOMAIN stack
             /\ Len(stack) \in DOMAIN stack
             /\ stack[Len(stack)].co = Top.co
             /\ \A j \in DOMAIN stack :
                  stack'[j].co = IF j = Len(stack) THEN None ELSE stack[j].co
  BY <1>5, RunningTop, TopCo DEF InUserCode
<1>6. ASSUME NEW s \in Session, Wait(s) PROVE OneHome'
  <2>1. InUserCode /\ stack' = Running(None) /\ pool' = pool
        /\ waitCo' = [waitCo EXCEPT ![s] = Top.co]
    BY <1>6 DEF Wait
  <2>2. Active' = Active \ {Top.co}
    BY <2>1, <1>5 DEF Active, OneHome
  <2>3. Waiting' \subseteq Waiting \cup ({Top.co} \ {None})
    BY <2>1 DEF Waiting, TypeInv
  <2>4. Top.co # None => Top.co \in Active
    BY <2>1, <1>5 DEF Active
  <2>5. \A j, k \in DOMAIN stack' :
          stack'[j].co = stack'[k].co /\ stack'[j].co # None => j = k
    BY <2>1, <1>5 DEF OneHome
  <2>6. \A q, r \in Session : waitCo'[q] = waitCo'[r] /\ waitCo'[q] # None => q = r
    BY <2>1, <2>4 DEF OneHome, Waiting, TypeInv
  <2>7. Active' \cap Waiting' = {} /\ pool' \cap Busy' = {}
    BY <2>1, <2>2, <2>3, <2>4 DEF OneHome, Busy
  <2>8. QED
    BY <2>5, <2>6, <2>7 DEF OneHome
<1>7. CASE Finish
  <2>1. InUserCode /\ Top.co # None /\ stack' = Running(None)
        /\ pool' = pool \cup {Top.co} /\ waitCo' = waitCo
    BY <1>7 DEF Finish
  <2>2. Active' = Active \ {Top.co} /\ Waiting' = Waiting
    BY <2>1, <1>5 DEF Active, OneHome, Waiting
  <2>3. Top.co \in Active
    BY <2>1, <1>5 DEF Active
  <2>4. \A j, k \in DOMAIN stack' :
          stack'[j].co = stack'[k].co /\ stack'[j].co # None => j = k
    BY <2>1, <1>5 DEF OneHome
  <2>5. QED
    BY <2>1, <2>2, <2>3, <2>4 DEF OneHome, Busy
<1>8. CASE Fail
  BY <1>8, <1>5, HomeKept DEF Fail
<1>9. Loop("wakeup").co = None /\ Loop("fork").co = None
      /\ Loop("wakeup") \in Frame /\ Loop("fork") \in Frame
  BY EmptyTable DEF Loop, Frame
<1>10. CASE SyncDns
  <2>1. stack' = Append(stack, Loop("wakeup")) /\ stack \in Seq(Frame)
    BY <1>10 DEF SyncDns, TypeInv
  <2>2. ASSUME NEW j \in DOMAIN stack'
        PROVE  stack'[j].co = None \/ (j \in DOMAIN stack /\ stack'[j].co = stack[j].co)
    <3>1. CASE j = Len(stack) + 1
      BY <3>1, <2>1, <1>9
    <3>2. CASE j # Len(stack) + 1
      BY <3>2, <2>1
    <3>3. QED
      BY <3>1, <3>2
  <2>3. waitCo' = waitCo /\ pool' = pool
    BY <1>10 DEF SyncDns
  <2>4. QED
    BY <2>2, <2>3, HomeKept
<1>11. CASE HandlerEnd
  BY <1>11, <1>9, TopCo, HomeKept DEF HandlerEnd, InUserCode
<1>12. CASE RunWakeup
  <2> DEFINE s == Table(Top)[Top.i + 1]
             c == waitCo[s]
             f == [Top EXCEPT !.i = @ + 1, !.co = waitCo[s]]
  <2>1. ~Polling /\ Top.kind = "wakeup" /\ Top.co = None /\ pool' = pool
        /\ Top.i + 1 \in DOMAIN Table(Top)
        /\ waitCo' = [waitCo EXCEPT ![s] = None]
    BY <1>12 DEF RunWakeup, InLoop
  <2>2. s \in Session
    BY <2>1, TopFrame DEF Table, TypeInv
  <2>3. stack' = WithTop(f)
    BY <1>12 DEF RunWakeup
  <2> HIDE DEF s
  <2>4. c \in Co \cup {None}
    BY <2>2 DEF TypeInv
  <2>5. f \in Frame /\ f.co = c
    <3>1. Top.i + 1 \in Nat /\ Top \in Frame /\ waitCo[s] \in Co \cup {None}
      BY <2>1, <2>4, TopFrame DEF Frame
    <3>2. QED
      BY <3>1 DEF Frame
  <2>6. c = None \/ c \in Waiting
    BY <2>2 DEF Waiting
  <2>7. c \notin Active /\ c \notin pool' /\ pool' \subseteq pool
    BY <2>1, <2>6, SchedulerAssumption DEF OneHome, Busy, Active, TypeInv
  <2>8. ASSUME NEW r \in Session
        PROVE  waitCo'[r] = None \/ (waitCo'[r] = waitCo[r] /\ waitCo[r] # c)
    BY <2>1, <2>2 DEF OneHome, TypeInv
  <2> HIDE DEF c, f
  <2>9. QED
    BY <2>1, <2>3, <2>4, <2>5, <2>7, <2>8, HomeResume
<1>13. CASE RunWakeupEnd
  <2>1. ~Polling /\ Top.co = None /\ waitCo' = waitCo /\ pool' = pool
        /\ stack' = [Detach("wakeup", wakeQ) EXCEPT ![Len(stack)] = Loop("fork")]
    BY <1>13 DEF RunWakeupEnd, InLoop
  <2>2. wakeQ \in ForkTables \cup Seq(Session)
    BY DEF TypeInv
  <2>3. \A j \in DOMAIN stack' : j \in DOMAIN stack
          /\ (stack'[j].co = None \/ stack'[j].co = stack[j].co)
    BY <2>1, <2>2, <1>9, DetachStack, TopFrame
  <2>4. QED
    BY <2>1, <2>3, HomeKept
<1>14. CASE RunFork
  <2>1. PICK c \in Co, f \in Frame :
          /\ c \in IF pool # {} THEN pool ELSE Co \ Busy
          /\ pool' = pool \ {c} /\ f.co = c /\ stack' = WithTop(f)
    BY <1>14, RunForkTop
  <2>2. ~Polling /\ Top.co = None
    BY <1>14, RunForkTop
  <2>3. c \notin Busy
    BY <2>1 DEF OneHome
  <2>4. \A s \in Session : waitCo'[s] = waitCo[s] /\ waitCo[s] # c
    BY <1>14, <2>1, <2>3, SchedulerAssumption DEF RunFork, Busy, Waiting
  <2>5. QED
    BY <2>1, <2>2, <2>3, <2>4, HomeResume DEF Busy
<1>15. CASE RunForkEnd
  <2>1. ~Polling /\ waitCo' = waitCo /\ pool' = pool
        /\ stack' = SubSeq(Detach("fork", forkQ), 1, Len(stack) - 1)
    BY <1>15 DEF RunForkEnd, InLoop
  <2>2. forkQ \in ForkTables \cup Seq(Session)
    BY DEF TypeInv
  <2>3. \A j \in DOMAIN stack' : j \in DOMAIN stack /\ stack'[j].co = stack[j].co
    BY <2>1, <2>2, DetachStack, TopFrame
  <2>4. QED
    BY <2>1, <2>3, HomeKept
<1>16. CASE UNCHANGED vars
  BY <1>16, HomeKept DEF vars
<1>17. QED
  BY <1>1, <1>2, <1>3, <1>4, <1>6, <1>7, <1>8, <1>10, <1>11, <1>12, <1>13, <1>14,
     <1>15, <1>16 DEF Next, UserCode, UserReturn, Drain

(* No coroutine is ever in two places: run_wakeup and run_fork resume only *)
(* coroutines that are suspended where the code found them.                *)
THEOREM CoroutineHasOneHome == Spec => []OneHome
<1>1. Init => OneHome
  <2> SUFFICES ASSUME Init PROVE OneHome
    OBVIOUS
  <2>1. DOMAIN stack = {1} /\ stack[1].co = None
    BY DEF Init, Handler
  <2>2. Active = {} /\ Waiting = {}
    BY <2>1 DEF Init, Active, Waiting
  <2>3. QED
    BY <2>1, <2>2 DEF Init, OneHome
<1>2. QED
  BY <1>1, HomeNext, TypeInit, TypeNext, PTL DEF Spec

-----------------------------------------------------------------------------
(* A loop over the global wakeup queue is inside the queue, so an entry    *)
(* put at its end is ahead of the loop.                                    *)
LoopInQueue ==
  \A k \in DOMAIN stack :
    stack[k].kind = "wakeup" /\ stack[k].live => stack[k].i <= Len(wakeQ)

WakeInv == LoopInQueue /\ WakeupInv

(* Steps that leave the queue alone, and whose loops over it are loops     *)
(* that were there, or are at its beginning.                               *)
LEMMA WakeKept ==
  ASSUME TypeInv, WakeInv, wakeQ' = wakeQ, owed' = owed,
         stack' \in Seq(Frame), ~Polling,
         \A k \in DOMAIN stack' : stack'[k].kind = "wakeup" =>
           \/ stack'[k].live /\ stack'[k].i = 0
           \/ /\ k \in DOMAIN stack /\ stack[k].kind = "wakeup"
              /\ stack'[k].i = stack[k].i /\ stack'[k].live = stack[k].live,
         stack[1].kind # "fork" => stack' # <<>> /\ stack'[1].kind # "fork"
  PROVE  WakeInv'
<1>1. LoopInQueue'
  <2> SUFFICES ASSUME NEW k \in DOMAIN stack',
                      stack'[k].kind = "wakeup", stack'[k].live
               PROVE  stack'[k].i <= Len(wakeQ)
    BY DEF LoopInQueue
  <2>1. Len(wakeQ) \in Nat
    BY DEF TypeInv
  <2>2. CASE stack'[k].i = 0
    BY <2>1, <2>2
  <2>3. CASE /\ k \in DOMAIN stack /\ stack[k].kind = "wakeup"
             /\ stack'[k].i = stack[k].i /\ stack'[k].live = stack[k].live
    BY <2>3 DEF WakeInv, LoopInQueue
  <2>4. QED
    BY <2>2, <2>3
<1>2. ASSUME NEW s \in Session, owed'[s] # "no"
      PROVE  /\ ~Detached' /\ Kept(s)'
             /\ owed'[s] = "outside" => ~Polling' /\ stack'[1].kind # "fork"
  <2>1. ~Detached /\ Kept(s)
        /\ (owed[s] = "outside" => ~Polling /\ stack[1].kind # "fork")
    BY <1>2 DEF WakeInv, WakeupInv
  <2>2. ~Detached'
    BY <2>1 DEF Detached
  <2>3. PICK j \in DOMAIN wakeQ :
          /\ wakeQ[j] = s
          /\ \A k \in DOMAIN stack :
               stack[k].kind = "wakeup" /\ stack[k].live => stack[k].i < j
    BY <2>1 DEF Kept
  <2>4. \A k \in DOMAIN stack' :
          stack'[k].kind = "wakeup" /\ stack'[k].live => stack'[k].i < j
    BY <2>3, SMTT(30) DEF TypeInv
  <2>5. Kept(s)'
    BY <2>3, <2>4 DEF Kept
  <2>6. owed'[s] = "outside" => ~Polling' /\ stack'[1].kind # "fork"
    BY <2>1 DEF Polling
  <2>7. QED
    BY <2>2, <2>5, <2>6
<1>3. QED
  BY <1>1, <1>2 DEF WakeInv, WakeupInv

(* A new top frame of a kind that is not "wakeup", or the old one but for  *)
(* its coroutine.                                                          *)
LEMMA WakeKeptTop ==
  ASSUME TypeInv, WakeInv, wakeQ' = wakeQ, owed' = owed, ~Polling,
         NEW f \in Frame, stack' = WithTop(f),
         \/ f.kind = Top.kind /\ f.i = Top.i /\ f.live = Top.live
         \/ f.kind = Top.kind /\ f.kind # "wakeup"
         \/ f.kind = "wakeup" /\ f.i = 0 /\ f.live
  PROVE  WakeInv'
<1>1. stack' \in Seq(Frame) /\ DOMAIN stack' = DOMAIN stack
      /\ Len(stack') = Len(stack)
      /\ \A j \in DOMAIN stack : stack'[j] = IF j = Len(stack) THEN f ELSE stack[j]
  BY WithTopStack
<1>2. stack' # <<>> /\ (stack[1].kind # "fork" => stack'[1].kind # "fork")
  BY <1>1, TopFrame
<1>3. \A k \in DOMAIN stack' : stack'[k].kind = "wakeup" =>
        \/ stack'[k].live /\ stack'[k].i = 0
        \/ /\ k \in DOMAIN stack /\ stack[k].kind = "wakeup"
           /\ stack'[k].i = stack[k].i /\ stack'[k].live = stack[k].live
  BY <1>1, TopFrame
<1>4. QED
  BY <1>1, <1>2, <1>3, WakeKept

LEMMA WakeNext == TypeInv /\ WakeInv /\ [Next]_vars => WakeInv'
<1> SUFFICES ASSUME TypeInv, WakeInv, [Next]_vars PROVE WakeInv'
  OBVIOUS
<1>1. CASE EventBegin
  <2>1. Polling /\ stack' = <<Handler>> /\ wakeQ' = wakeQ /\ owed' = owed
    BY <1>1 DEF EventBegin
  <2>2. \A k \in DOMAIN stack' : stack'[k].kind = "handler"
    BY <2>1 DEF Handler
  <2>3. LoopInQueue'
    BY <2>2 DEF LoopInQueue
  <2>4. ~Detached'
    BY <2>2 DEF Detached
  <2>5. ASSUME NEW s \in Session, owed'[s] # "no"
        PROVE  Kept(s)' /\ owed'[s] # "outside"
    <3>1. Kept(s) /\ owed[s] # "outside"
      BY <2>1, <2>5 DEF WakeInv, WakeupInv
    <3>2. QED
      BY <2>1, <2>2, <3>1 DEF Kept
  <2>6. QED
    BY <2>3, <2>4, <2>5 DEF WakeInv, WakeupInv
<1>2. ASSUME wakeQ' = wakeQ, owed' = owed, stack' = stack PROVE WakeInv'
  BY <1>2 DEF WakeInv, LoopInQueue, WakeupInv, Kept, Detached, Polling
<1>3. ASSUME NEW s \in Session, Wakeup(s) PROVE WakeInv'
  <2>1. ~Polling /\ wakeQ' = Append(wakeQ, s) /\ stack' = stack
    BY <1>3 DEF Wakeup, InUserCode
  <2>2. /\ Len(wakeQ) \in Nat /\ Len(wakeQ') = Len(wakeQ) + 1
        /\ DOMAIN wakeQ \subseteq DOMAIN wakeQ'
        /\ \A j \in DOMAIN wakeQ : wakeQ'[j] = wakeQ[j]
        /\ Len(wakeQ') \in DOMAIN wakeQ' /\ wakeQ'[Len(wakeQ')] = s
    BY <2>1 DEF TypeInv
  <2>3. ASSUME NEW k \in DOMAIN stack PROVE stack[k].i \in Nat
    <3>1. stack[k] \in Frame
      BY DEF TypeInv
    <3>2. QED
      BY <3>1 DEF Frame
  <2>4. ASSUME NEW k \in DOMAIN stack, stack[k].kind = "wakeup", stack[k].live
        PROVE  stack[k].i < Len(wakeQ')
    BY <2>2, <2>3, <2>4 DEF WakeInv, LoopInQueue
  <2>5. LoopInQueue'
    BY <2>1, <2>2, <2>3, <2>4 DEF LoopInQueue
  <2>6. Kept(s)'
    BY <2>1, <2>2, <2>4 DEF Kept
  <2>7. ASSUME NEW r \in Session, owed'[r] # "no"
        PROVE  /\ ~Detached' /\ Kept(r)'
               /\ owed'[r] = "outside" => ~Polling' /\ stack'[1].kind # "fork"
    <3>1. CASE owed'[r] = owed[r]
      <4>1. ~Detached /\ Kept(r)
            /\ (owed[r] = "outside" => ~Polling /\ stack[1].kind # "fork")
        BY <2>7, <3>1 DEF WakeInv, WakeupInv
      <4>2. Kept(r)'
        BY <4>1, <2>1, <2>2 DEF Kept
      <4>3. QED
        BY <2>1, <3>1, <4>1, <4>2 DEF Detached, Polling
    <3>2. CASE owed'[r] # owed[r]
      <4>1. r = s /\ ~Detached /\ owed'[r] = IF Forking THEN "forking" ELSE "outside"
        BY <1>3, <3>2 DEF Wakeup, TypeInv
      <4>2. owed'[r] = "outside" => stack[1].kind # "fork"
        BY <4>1, <2>1, TopFrame DEF Forking
      <4>3. QED
        BY <2>1, <2>6, <4>1, <4>2 DEF Detached, Polling
    <3>3. QED
      BY <3>1, <3>2
  <2>8. QED
    BY <2>5, <2>7 DEF WakeInv, WakeupInv
<1>4. ASSUME InUserCode, stack' = Running(None), wakeQ' = wakeQ, owed' = owed
      PROVE  WakeInv'
  <2>1. ~Polling
    BY <1>4 DEF InUserCode
  <2>2. QED
    BY <2>1, <1>4, RunningTop, WakeKeptTop
<1>5. /\ Loop("wakeup") \in Frame /\ Loop("wakeup").kind = "wakeup"
      /\ Loop("wakeup").i = 0 /\ Loop("wakeup").live
      /\ Loop("fork") \in Frame /\ Loop("fork").kind = "fork"
  BY EmptyTable DEF Loop, Frame
<1>6. CASE SyncDns
  <2> DEFINE n == Len(stack) + 1
  <2>1. /\ ~Polling /\ wakeQ' = wakeQ /\ owed' = owed
        /\ stack' \in Seq(Frame)
        /\ DOMAIN stack' = DOMAIN stack \cup {n}
        /\ \A j \in DOMAIN stack : stack'[j] = stack[j]
        /\ stack'[n] = Loop("wakeup")
    BY <1>6, <1>5 DEF SyncDns, InUserCode, TypeInv
  <2> HIDE DEF n
  <2>2. stack' # <<>> /\ stack'[1] = stack[1]
    BY <2>1, TopFrame
  <2>3. ASSUME NEW k \in DOMAIN stack', stack'[k].kind = "wakeup"
        PROVE  \/ stack'[k].live /\ stack'[k].i = 0
               \/ /\ k \in DOMAIN stack /\ stack[k].kind = "wakeup"
                  /\ stack'[k].i = stack[k].i /\ stack'[k].live = stack[k].live
    <3>1. CASE k = n
      BY <3>1, <2>1, <1>5
    <3>2. CASE k \in DOMAIN stack
      BY <3>2, <2>1, <2>3
    <3>3. QED
      BY <3>1, <3>2, <2>1
  <2>4. QED
    BY <2>1, <2>2, <2>3, WakeKept
<1>7. CASE HandlerEnd
  BY <1>7, <1>5, WakeKeptTop DEF HandlerEnd, InUserCode
<1>8. CASE RunWakeup
  <2> DEFINE s == Table(Top)[Top.i + 1]
             f == [Top EXCEPT !.i = @ + 1, !.co = waitCo[s]]
  <2>1. ~Polling /\ Top.kind = "wakeup" /\ Top.i + 1 \in DOMAIN Table(Top)
        /\ wakeQ' = wakeQ
    BY <1>8 DEF RunWakeup, InLoop
  <2>2. owed' = [owed EXCEPT ![s] = "no"] /\ stack' = WithTop(f)
    BY <1>8 DEF RunWakeup
  <2>3. s \in Session
    BY <2>1, TopFrame DEF Table, TypeInv
  <2>4. Top.live => s = wakeQ[Top.i + 1] /\ Top.i + 1 \in DOMAIN wakeQ
    BY <2>1 DEF Table
  <2> HIDE DEF s
  <2>5. f \in Frame /\ f.kind = "wakeup" /\ f.live = Top.live /\ f.i = Top.i + 1
    <3>1. Top.i + 1 \in Nat /\ Top \in Frame /\ waitCo[s] \in Co \cup {None}
      BY <2>1, <2>3, TopFrame DEF Frame, TypeInv
    <3>2. QED
      BY <3>1, <2>1 DEF Frame
  <2> HIDE DEF f
  <2>6. /\ DOMAIN stack' = DOMAIN stack /\ Len(stack) \in DOMAIN stack
        /\ stack[Len(stack)] = Top
        /\ \A j \in DOMAIN stack : stack'[j] = IF j = Len(stack) THEN f ELSE stack[j]
        /\ stack' # <<>>
    BY <2>1, <2>2, <2>5, TopFrame, WithTopStack DEF Polling
  <2>7. \A j \in DOMAIN stack : stack'[j].kind = stack[j].kind /\ stack'[j].live = stack[j].live
    BY <2>1, <2>5, <2>6
  <2>8. Detached' = Detached
    BY <2>6, <2>7 DEF Detached
  <2>9. LoopInQueue'
    <3> SUFFICES ASSUME NEW k \in DOMAIN stack, stack'[k].kind = "wakeup", stack'[k].live
                 PROVE  stack'[k].i <= Len(wakeQ)
      BY <2>1, <2>6 DEF LoopInQueue
    <3>1. CASE k = Len(stack)
      BY <3>1, <2>4, <2>5, <2>6 DEF TypeInv
    <3>2. CASE k # Len(stack)
      BY <3>2, <2>6, <2>7 DEF WakeInv, LoopInQueue
    <3>3. QED
      BY <3>1, <3>2
  <2>10. ASSUME NEW r \in Session, owed'[r] # "no"
         PROVE  /\ ~Detached' /\ Kept(r)'
                /\ owed'[r] = "outside" => ~Polling' /\ stack'[1].kind # "fork"
    <3>1. r # s /\ owed'[r] = owed[r]
      BY <2>2, <2>3, <2>10 DEF TypeInv
    <3>2. ~Detached /\ Kept(r)
          /\ (owed[r] = "outside" => ~Polling /\ stack[1].kind # "fork")
      BY <2>10, <3>1 DEF WakeInv, WakeupInv
    <3>3. Top.live
      BY <2>1, <2>6, <3>2 DEF Detached
    <3>4. PICK j \in DOMAIN wakeQ :
            /\ wakeQ[j] = r
            /\ \A k \in DOMAIN stack :
                 stack[k].kind = "wakeup" /\ stack[k].live => stack[k].i < j
      BY <3>2 DEF Kept
    <3>5. Top.i + 1 < j
      <4>1. Top.i < j /\ j # Top.i + 1
        BY <2>1, <2>4, <2>6, <3>1, <3>3, <3>4
      <4>2. Top.i \in Nat /\ j \in Nat
        BY <2>1, TopFrame DEF Frame, TypeInv
      <4>3. QED
        BY <4>1, <4>2
    <3>6. \A k \in DOMAIN stack' :
            stack'[k].kind = "wakeup" /\ stack'[k].live => stack'[k].i < j
      <4> SUFFICES ASSUME NEW k \in DOMAIN stack, stack'[k].kind = "wakeup", stack'[k].live
                   PROVE  stack'[k].i < j
        BY <2>6
      <4>1. CASE k = Len(stack)
        BY <4>1, <2>5, <2>6, <3>5
      <4>2. CASE k # Len(stack)
        BY <4>2, <2>6, <2>7, <3>4
      <4>3. QED
        BY <4>1, <4>2
    <3>7. Kept(r)'
      BY <2>1, <3>4, <3>6 DEF Kept
    <3>8. owed'[r] = "outside" => ~Polling' /\ stack'[1].kind # "fork"
      BY <2>1, <2>6, <2>7, <3>1, <3>2, TopFrame DEF Polling
    <3>9. QED
      BY <2>8, <3>2, <3>7, <3>8
  <2>11. QED
    BY <2>9, <2>10 DEF WakeInv, WakeupInv
<1>9. CASE RunWakeupEnd
  <2> DEFINE D == Detach("wakeup", wakeQ)
  <2>1. ~Polling /\ Top.kind = "wakeup" /\ Top.i + 1 \notin DOMAIN Table(Top)
        /\ stack' = [D EXCEPT ![Len(stack)] = Loop("fork")] /\ owed' = owed
    BY <1>9 DEF RunWakeupEnd, InLoop
  <2>2. ASSUME NEW s \in Session PROVE owed[s] = "no"
    <3> SUFFICES ASSUME owed[s] # "no" PROVE FALSE
      OBVIOUS
    <3>1. ~Detached /\ Kept(s)
      BY DEF WakeInv, WakeupInv
    <3>2. Top.live /\ Table(Top) = wakeQ
      BY <2>1, <3>1, TopFrame DEF Detached, Table
    <3>3. PICK j \in DOMAIN wakeQ : Top.i < j
      BY <2>1, <3>1, <3>2, TopFrame DEF Kept
    <3>4. Top.i \in Nat /\ j \in 1 .. Len(wakeQ) /\ Len(wakeQ) \in Nat
          /\ Top.i + 1 \notin 1 .. Len(wakeQ)
      BY <2>1, <3>2, TopFrame DEF Frame, TypeInv
    <3>5. QED
      BY <3>3, <3>4
  <2>3. DOMAIN D = DOMAIN stack /\ \A j \in DOMAIN D : D[j].kind = "wakeup" => ~D[j].live
    <3>1. wakeQ \in ForkTables \cup Seq(Session)
      BY DEF TypeInv
    <3>2. QED
      BY <3>1, DetachStack
  <2> HIDE DEF D
  <2>4. ASSUME NEW k \in DOMAIN stack', stack'[k].kind = "wakeup" PROVE ~stack'[k].live
    BY <2>1, <2>3, <2>4, <1>5
  <2>5. LoopInQueue'
    BY <2>4 DEF LoopInQueue
  <2>6. QED
    BY <2>1, <2>2, <2>5 DEF WakeInv, WakeupInv
<1>10. CASE RunFork
  <2>1. PICK f \in Frame : f.kind = "fork" /\ stack' = WithTop(f)
    BY <1>10, RunForkTop
  <2>2. ~Polling /\ Top.kind = "fork" /\ wakeQ' = wakeQ /\ owed' = owed
    BY <1>10, RunForkTop DEF RunFork
  <2>3. QED
    BY <2>1, <2>2, WakeKeptTop
<1>11. CASE RunForkEnd
  <2> DEFINE D == Detach("fork", forkQ)
  <2>1. ~Polling /\ Top.kind = "fork" /\ wakeQ' = wakeQ /\ owed' = owed
        /\ stack' = SubSeq(D, 1, Len(stack) - 1)
    BY <1>11 DEF RunForkEnd, InLoop
  <2>2. D \in Seq(Frame) /\ Len(D) = Len(stack)
        /\ \A j \in DOMAIN stack : D[j].kind = stack[j].kind
                                   /\ (stack[j].kind = "wakeup" => D[j] = stack[j])
    <3>1. forkQ \in ForkTables \cup Seq(Session)
      BY DEF TypeInv
    <3>2. QED
      BY <3>1, DetachStack
  <2> HIDE DEF D
  <2>3. stack' \in Seq(Frame) /\ Len(stack') = Len(stack) - 1
        /\ \A j \in DOMAIN stack' : j \in DOMAIN stack /\ stack'[j] = D[j]
    BY <2>1, <2>2, TopFrame
  <2>4. stack[1].kind # "fork" => stack' # <<>> /\ stack'[1].kind # "fork"
    <3> SUFFICES ASSUME stack[1].kind # "fork" PROVE stack' # <<>> /\ stack'[1].kind # "fork"
      OBVIOUS
    <3>1. Len(stack) # 1 /\ Len(stack) \in Nat \ {0}
      BY <2>1, TopFrame
    <3>2. 1 \in DOMAIN stack' /\ 1 \in DOMAIN stack
      BY <2>3, <3>1, TopFrame
    <3>3. QED
      BY <2>2, <2>3, <3>2
  <2>5. ASSUME NEW k \in DOMAIN stack', stack'[k].kind = "wakeup"
        PROVE  /\ k \in DOMAIN stack /\ stack[k].kind = "wakeup"
               /\ stack'[k].i = stack[k].i /\ stack'[k].live = stack[k].live
    BY <2>2, <2>3, <2>5
  <2>6. QED
    BY <2>1, <2>3, <2>4, <2>5, WakeKept
<1>12. QED
  BY <1>1, <1>2, <1>3, <1>4, <1>6, <1>7, <1>8, <1>9, <1>10, <1>11
     DEF Next, UserCode, UserReturn, Drain, Fork, GenSession, Wait, Finish, Fail, vars

LEMMA WakeInit == Init => WakeInv
<1> SUFFICES ASSUME Init PROVE WakeInv
  OBVIOUS
<1>1. \A k \in DOMAIN stack : stack[k].kind = "handler"
  BY DEF Init, Handler
<1>2. QED
  BY <1>1 DEF Init, WakeInv, LoopInQueue, WakeupInv

(* A wakeup that is owed is in the global queue, ahead of every loop that  *)
(* iterates it: none is lost, but for those asked for while a loop goes on *)
(* with a table that is no longer the global one.                          *)
THEOREM OwedWakeupKept == Spec => []WakeupKept
<1>1. WakeInv => WakeupKept
  BY DEF WakeInv, WakeupInv, WakeupKept
<1>2. QED
  BY <1>1, WakeInit, WakeNext, TypeInit, TypeNext, PTL DEF Spec

(* When event_dispatch returns, every wakeup that a handler or a resumed   *)
(* coroutine asked for has been handled.                                   *)
THEOREM OwedWakeupPrompt == Spec => []WakeupPrompt
<1>1. WakeInv => WakeupPrompt
  BY DEF WakeInv, WakeupInv, WakeupPrompt
<1>2. QED
  BY <1>1, WakeInit, WakeNext, TypeInit, TypeNext, PTL DEF Spec

-----------------------------------------------------------------------------
(* Frame k is a run_fork that is certain to come to the function t: every  *)
(* index from its own to t's is in its table, and no other loop over the   *)
(* global table has passed t.                                              *)
Ahead(k, t) ==
  /\ stack[k].kind = "fork"
  /\ \E j \in DOMAIN Table(stack[k]) :
       /\ stack[k].i < j
       /\ Table(stack[k])[j] = t
       /\ \A n \in (stack[k].i + 1) .. j : n \in DOMAIN Table(stack[k])
       /\ stack[k].live => \A l \in DOMAIN stack :
            stack[l].kind = "fork" => stack[l].live /\ stack[l].i < j

(* Where a function is that was forked while no run_fork was in progress.  *)
KeptInv ==
  /\ ~Forking => \A j \in DOMAIN forkQ : 1 .. j \subseteq DOMAIN forkQ
  /\ Polling => forkQ = <<>>
  /\ \A t \in Queued : task[t].outside =>
       \/ ~Forking /\ ~Polling /\ \E j \in DOMAIN forkQ : forkQ[j] = t
       \/ \E k \in DOMAIN stack : Ahead(k, t)

(* The indexes that a loop over a table of its own still has to come to.   *)
Rest(f) == {j \in DOMAIN f.tbl : j > f.i}

(* The functions of the global table are queued, each at one index.        *)
QueueSound ==
  /\ \A j \in DOMAIN forkQ : forkQ[j] \in Queued
  /\ \A j, l \in DOMAIN forkQ : forkQ[j] = forkQ[l] => j = l

(* So are those of a table that is no longer the global one, and it shares *)
(* none with the global one.                                               *)
RestSound(f) ==
  \A j \in Rest(f) :
    /\ f.tbl[j] \in Queued
    /\ \A l \in DOMAIN forkQ : f.tbl[j] # forkQ[l]
    /\ \A l \in Rest(f) : f.tbl[j] = f.tbl[l] => j = l

OnceInv ==
  /\ Len(stack) <= MaxDepth
  /\ MaxDepth <= 2 =>
       /\ QueueSound
       /\ \A k \in DOMAIN stack : stack[k].kind = "fork" /\ ~stack[k].live =>
            k = 1 /\ RestSound(stack[k])

ForkInv == KeptInv /\ OnceInv

LEMMA ForkInvExact == TypeInv /\ ForkInv => ForkExact
<1> SUFFICES ASSUME TypeInv, ForkInv PROVE ForkExact
  OBVIOUS
<1>1. ASSUME NEW t \in Queued, task[t].outside PROVE ~Polling /\ t \in Reachable
  <2>1. CASE ~Forking /\ ~Polling /\ \E j \in DOMAIN forkQ : forkQ[j] = t
    BY <2>1 DEF Reachable
  <2>2. ASSUME NEW k \in DOMAIN stack, Ahead(k, t) PROVE ~Polling /\ t \in Reachable
    <3>1. ~Polling
      BY <2>2 DEF Polling
    <3>2. PICK j \in DOMAIN Table(stack[k]) : stack[k].i < j /\ Table(stack[k])[j] = t
      BY <2>2 DEF Ahead
    <3>3. stack[k].kind = "fork" /\ stack[k].i \in Nat
      <4>1. stack[k] \in Frame
        BY DEF TypeInv
      <4>2. QED
        BY <2>2, <4>1 DEF Ahead, Frame
    <3>4. CASE stack[k].live
      BY <3>1, <3>2, <3>3, <3>4 DEF Table, Reachable
    <3>5. CASE ~stack[k].live
      <4> DEFINE f == stack[k]
                 S == {n \in DOMAIN stack : stack[n].kind = "fork" /\ ~stack[n].live}
      <4>1. j \in DOMAIN f.tbl /\ f.tbl[j] = t /\ f.tbl \in ForkTables
        BY <3>2, <3>3, <3>5 DEF Table, TypeInv
      <4>2. j > f.i
        BY <4>1, <3>2, <3>3 DEF ForkTables
      <4>3. t \in {f.tbl[m] : m \in {n \in DOMAIN f.tbl : n > f.i}} /\ k \in S
        BY <4>1, <4>2, <3>3, <3>5
      <4>4. QED
        BY <3>1, <4>3 DEF Reachable
    <3>6. QED
      BY <3>4, <3>5
  <2>3. QED
    BY <1>1, <2>1, <2>2 DEF ForkInv, KeptInv
<1>2. ASSUME MaxDepth <= 2, InLoop("fork"), Top.i + 1 \in DOMAIN Table(Top)
      PROVE  Table(Top)[Top.i + 1] \in Queued
  <2>1. ~Polling /\ Top.kind = "fork" /\ Top = stack[Len(stack)] /\ Len(stack) \in DOMAIN stack
    BY <1>2, TopFrame DEF InLoop
  <2>2. CASE Top.live
    BY <1>2, <2>1, <2>2 DEF Table, ForkInv, OnceInv, QueueSound
  <2>3. CASE ~Top.live
    <3>1. RestSound(Top)
      BY <1>2, <2>1, <2>3 DEF ForkInv, OnceInv
    <3>2. Top.i + 1 \in Rest(Top)
      BY <1>2, <2>1, <2>3, TopFrame DEF Table, Rest, Frame
    <3>3. QED
      BY <2>3, <3>1, <3>2 DEF RestSound, Table
  <2>4. QED
    BY <2>2, <2>3
<1>3. QED
  BY <1>1, <1>2 DEF ForkExact, ForkKept, ForkOnce

LEMMA ForkInvInit == Init => ForkInv
<1> SUFFICES ASSUME Init PROVE ForkInv
  OBVIOUS
<1>1. forkQ = <<>> /\ Queued = {} /\ Len(stack) = 1 /\ ~Polling
      /\ stack = <<Handler>>
  BY DEF Init, Queued, FreeTask, Polling
<1>2. \A k \in DOMAIN stack : stack[k].kind = "handler"
  BY <1>1 DEF Handler
<1>3. KeptInv
  BY <1>1, <1>2 DEF KeptInv
<1>4. OnceInv
  BY <1>1, <1>2, SchedulerAssumption DEF OnceInv, QueueSound
<1>5. QED
  BY <1>3, <1>4 DEF ForkInv

(* Steps that leave the functions alone, and the loops that run them.      *)
LEMMA ForkInvKept ==
  ASSUME TypeInv, ForkInv, ~Polling, stack' \in Seq(Frame), stack' # <<>>,
         forkQ' = forkQ, task' = task, Len(stack') <= MaxDepth,
         \A k \in DOMAIN stack' : stack'[k].kind = "fork" =>
           /\ k \in DOMAIN stack /\ stack[k].kind = "fork"
           /\ stack'[k].i = stack[k].i /\ stack'[k].live = stack[k].live
           /\ stack'[k].tbl = stack[k].tbl,
         \A k \in DOMAIN stack : stack[k].kind = "fork" =>
           k \in DOMAIN stack' /\ stack'[k].kind = "fork"
  PROVE  ForkInv'
<1>1. Forking' = Forking /\ ~Polling' /\ Queued' = Queued
  BY DEF Forking, Polling, Queued
<1>3. ASSUME NEW k \in DOMAIN stack, NEW t, Ahead(k, t) PROVE Ahead(k, t)'
  <2>1. k \in DOMAIN stack' /\ stack'[k].kind = "fork" /\ stack[k].kind = "fork"
    BY <1>3 DEF Ahead
  <2>2. PICK j \in DOMAIN Table(stack[k]) :
          /\ stack[k].i < j
          /\ Table(stack[k])[j] = t
          /\ \A n \in (stack[k].i + 1) .. j : n \in DOMAIN Table(stack[k])
          /\ stack[k].live => \A l \in DOMAIN stack :
               stack[l].kind = "fork" => stack[l].live /\ stack[l].i < j
    BY <1>3 DEF Ahead
  <2>3. Table(stack[k])' = Table(stack[k])
    BY <2>1 DEF Table
  <2>4. QED
    BY <2>1, <2>2, <2>3 DEF Ahead
<1>4. KeptInv'
  <2>1. \A k \in DOMAIN stack : stack[k].kind = "fork" => k \in DOMAIN stack'
    OBVIOUS
  <2>2. ASSUME NEW t \in Queued', task'[t].outside
        PROVE  \/ ~Forking' /\ ~Polling' /\ \E j \in DOMAIN forkQ' : forkQ'[j] = t
               \/ \E k \in DOMAIN stack' : Ahead(k, t)'
    <3>1. \/ ~Forking /\ ~Polling /\ \E j \in DOMAIN forkQ : forkQ[j] = t
          \/ \E k \in DOMAIN stack : Ahead(k, t)
      BY <1>1, <2>2 DEF ForkInv, KeptInv
    <3>2. QED
      BY <1>1, <1>3, <2>1, <3>1 DEF Ahead
  <2>3. ~Forking' => \A j \in DOMAIN forkQ' : 1 .. j \subseteq DOMAIN forkQ'
    BY <1>1 DEF ForkInv, KeptInv
  <2>4. QED
    BY <1>1, <2>2, <2>3 DEF KeptInv
<1>5. ASSUME NEW k \in DOMAIN stack', stack'[k].kind = "fork", RestSound(stack[k])
      PROVE  RestSound(stack[k])'
  <2>1. Rest(stack[k])' = Rest(stack[k])
    BY <1>5 DEF Rest
  <2>2. QED
    BY <1>1, <1>5, <2>1 DEF RestSound
<1>6. QueueSound => QueueSound'
  BY <1>1 DEF QueueSound
<1>7. OnceInv'
  BY <1>5, <1>6 DEF ForkInv, OnceInv
<1>8. QED
  BY <1>4, <1>7 DEF ForkInv

(* A new top frame that runs functions as the old one did, or neither does. *)
LEMMA ForkInvTop ==
  ASSUME TypeInv, ForkInv, ~Polling, forkQ' = forkQ, task' = task,
         NEW f \in Frame, stack' = WithTop(f),
         \/ f.kind # "fork" /\ Top.kind # "fork"
         \/ f.kind = Top.kind /\ f.i = Top.i /\ f.live = Top.live /\ f.tbl = Top.tbl
  PROVE  ForkInv'
<1>1. stack' \in Seq(Frame) /\ DOMAIN stack' = DOMAIN stack /\ stack' # <<>>
      /\ Len(stack') = Len(stack) /\ Top = stack[Len(stack)]
      /\ \A j \in DOMAIN stack : stack'[j] = IF j = Len(stack) THEN f ELSE stack[j]
  BY WithTopStack, TopFrame
<1>2. Len(stack') <= MaxDepth
  BY <1>1 DEF ForkInv, OnceInv
<1>3. ASSUME NEW k \in DOMAIN stack', stack'[k].kind = "fork"
      PROVE  /\ k \in DOMAIN stack /\ stack[k].kind = "fork"
             /\ stack'[k].i = stack[k].i /\ stack'[k].live = stack[k].live
             /\ stack'[k].tbl = stack[k].tbl
  BY <1>1, <1>3
<1>4. ASSUME NEW k \in DOMAIN stack, stack[k].kind = "fork"
      PROVE  k \in DOMAIN stack' /\ stack'[k].kind = "fork"
  BY <1>1, <1>4
<1>5. QED
  BY <1>1, <1>2, <1>3, <1>4, ForkInvKept

LEMMA ForkInvBegin == ASSUME TypeInv, ForkInv, EventBegin PROVE ForkInv'
<1>1. /\ forkQ = <<>> /\ forkQ' = <<>> /\ Queued' = {} /\ Len(stack') = 1
      /\ \A k \in DOMAIN stack' : stack'[k].kind = "handler"
  BY DEF EventBegin, ForkInv, KeptInv, Handler, Queued, FreeTask
<1>2. stack' # <<>>
  BY DEF EventBegin
<1>3. KeptInv'
  BY <1>1, <1>2 DEF KeptInv, Polling
<1>4. OnceInv'
  BY <1>1, SchedulerAssumption DEF OnceInv, QueueSound
<1>5. QED
  BY <1>3, <1>4 DEF ForkInv

LEMMA ForkInvFork ==
  ASSUME TypeInv, ForkInv, NEW t \in Task, Fork(t)
  PROVE  ForkInv'
<1>1. /\ ~Polling /\ task[t].at = "free" /\ stack' = stack
      /\ task' = [task EXCEPT ![t] = [at |-> "queued", outside |-> ~Forking]]
  BY DEF Fork, InUserCode
<1>2. PICK b \in Borders(forkQ) : forkQ' = Insert(forkQ, b + 1, t)
  BY DEF Fork
<1>3. /\ DOMAIN forkQ' = DOMAIN forkQ \cup {b + 1} /\ b + 1 \notin DOMAIN forkQ
      /\ forkQ'[b + 1] = t
      /\ \A j \in DOMAIN forkQ : forkQ'[j] = forkQ[j]
      /\ b + 1 \in Nat \ {0} /\ b \in Nat
      /\ DOMAIN forkQ \subseteq Nat \ {0}
  <2>1. b + 1 \in Nat \ {0}
    BY <1>2, BorderIsIndex DEF TypeInv
  <2>2. DOMAIN forkQ \subseteq Nat \ {0}
    BY TableIndexes DEF TypeInv
  <2>3. b \in Nat /\ b + 1 \notin DOMAIN forkQ
    BY <1>2, <2>2 DEF Borders
  <2>4. QED
    BY <1>2, <2>1, <2>2, <2>3 DEF Insert
<1>4. /\ Forking' = Forking /\ Queued' = Queued \cup {t} /\ t \notin Queued
      /\ task'[t].outside = ~Forking
      /\ \A r \in Queued : task'[r] = task[r]
  BY <1>1 DEF Forking, Queued, TypeInv
<1>5. ASSUME NEW k \in DOMAIN stack, NEW r, Ahead(k, r) PROVE Ahead(k, r)'
  <2>1. stack[k].kind = "fork"
    BY <1>5 DEF Ahead
  <2>2. PICK j \in DOMAIN Table(stack[k]) :
          /\ stack[k].i < j
          /\ Table(stack[k])[j] = r
          /\ \A n \in (stack[k].i + 1) .. j : n \in DOMAIN Table(stack[k])
          /\ stack[k].live => \A l \in DOMAIN stack :
               stack[l].kind = "fork" => stack[l].live /\ stack[l].i < j
    BY <1>5 DEF Ahead
  <2>3. /\ DOMAIN Table(stack[k]) \subseteq DOMAIN Table(stack[k])'
        /\ \A n \in DOMAIN Table(stack[k]) : Table(stack[k])'[n] = Table(stack[k])[n]
    BY <1>1, <1>3, <2>1 DEF Table
  <2>4. QED
    BY <1>1, <2>1, <2>2, <2>3 DEF Ahead
<1>6. KeptInv'
  <2>1. ASSUME ~Forking, NEW j \in DOMAIN forkQ' PROVE 1 .. j \subseteq DOMAIN forkQ'
    <3>1. \A l \in DOMAIN forkQ : 1 .. l \subseteq DOMAIN forkQ
      BY <2>1 DEF ForkInv, KeptInv
    <3>2. CASE j \in DOMAIN forkQ
      BY <3>1, <3>2, <1>3
    <3>3. CASE j = b + 1
      <4>1. b = 0 \/ b \in DOMAIN forkQ
        BY <1>2 DEF Borders
      <4>2. 1 .. b \subseteq DOMAIN forkQ
        BY <3>1, <4>1
      <4>3. QED
        BY <1>3, <3>3, <4>2
    <3>4. QED
      BY <3>2, <3>3, <1>3
  <2>2. ASSUME NEW r \in Queued', task'[r].outside
        PROVE  \/ ~Forking' /\ ~Polling' /\ \E j \in DOMAIN forkQ' : forkQ'[j] = r
               \/ \E k \in DOMAIN stack' : Ahead(k, r)'
    <3>1. ~Polling'
      BY <1>1 DEF Polling
    <3>2. CASE r = t
      BY <1>3, <1>4, <2>2, <3>1, <3>2
    <3>3. CASE r \in Queued
      <4>1. task[r].outside
        BY <1>4, <2>2, <3>3
      <4>2. \/ ~Forking /\ ~Polling /\ \E j \in DOMAIN forkQ : forkQ[j] = r
            \/ \E k \in DOMAIN stack : Ahead(k, r)
        BY <3>3, <4>1 DEF ForkInv, KeptInv
      <4>3. QED
        BY <1>1, <1>3, <1>4, <1>5, <3>1, <4>2
    <3>4. QED
      BY <1>4, <3>2, <3>3
  <2>3. ~Polling'
    BY <1>1 DEF Polling
  <2>4. QED
    BY <1>4, <2>1, <2>2, <2>3 DEF KeptInv
<1>7. ASSUME MaxDepth <= 2 PROVE QueueSound'
  BY <1>3, <1>4, <1>7 DEF ForkInv, OnceInv, QueueSound
<1>8. ASSUME MaxDepth <= 2, NEW k \in DOMAIN stack, RestSound(stack[k])
      PROVE  RestSound(stack[k])'
  <2>1. Rest(stack[k])' = Rest(stack[k])
    BY <1>1 DEF Rest
  <2>2. QED
    BY <1>1, <1>3, <1>4, <1>8, <2>1 DEF RestSound
<1>9. OnceInv'
  BY <1>1, <1>7, <1>8 DEF ForkInv, OnceInv
<1>10. QED
  BY <1>6, <1>9 DEF ForkInv

(* run_fork begins: its frame takes the place of the run_wakeup that ended. *)
LEMMA ForkInvLoopBegin == ASSUME TypeInv, ForkInv, RunWakeupEnd PROVE ForkInv'
<1> DEFINE D == Detach("wakeup", wakeQ)
           m == Len(stack)
<1>1. /\ ~Polling /\ Top.kind = "wakeup" /\ stack[m].kind = "wakeup"
      /\ m \in DOMAIN stack /\ m \in Nat \ {0} /\ DOMAIN stack = 1 .. m
      /\ forkQ' = forkQ /\ task' = task
      /\ stack' = [D EXCEPT ![m] = Loop("fork")]
  BY TopFrame DEF RunWakeupEnd, InLoop
<1>2. /\ DOMAIN D = DOMAIN stack /\ Len(D) = m /\ D \in Seq(Frame)
      /\ \A j \in DOMAIN stack : D[j].kind = stack[j].kind
           /\ (stack[j].kind = "fork" => D[j] = stack[j])
  <2>1. wakeQ \in ForkTables \cup Seq(Session)
    BY DEF TypeInv
  <2>2. QED
    BY <2>1, DetachStack
<1> HIDE DEF D, m
<1>3. /\ DOMAIN stack' = DOMAIN stack /\ stack'[m] = Loop("fork") /\ Len(stack') = m
      /\ stack' # <<>>
      /\ \A j \in DOMAIN stack : j # m /\ stack'[j].kind = "fork"
           => stack[j].kind = "fork"
      /\ \A j \in DOMAIN stack : stack[j].kind = "fork" => j # m /\ stack'[j] = stack[j]
  BY <1>1, <1>2
<1>4. Loop("fork").kind = "fork" /\ Loop("fork").i = 0 /\ Loop("fork").live
  BY DEF Loop
<1>5. Forking' /\ ~Polling' /\ Queued' = Queued
  BY <1>1, <1>3, <1>4 DEF Forking, Polling, Queued
<1>6. DOMAIN forkQ \subseteq Nat \ {0}
  BY TableIndexes DEF TypeInv
<1>8. ASSUME NEW k \in DOMAIN stack, NEW t, Ahead(k, t) PROVE Ahead(k, t)'
  <2>1. stack[k].kind = "fork"
    BY <1>8 DEF Ahead
  <2>2. PICK j \in DOMAIN Table(stack[k]) :
          /\ stack[k].i < j
          /\ Table(stack[k])[j] = t
          /\ \A n \in (stack[k].i + 1) .. j : n \in DOMAIN Table(stack[k])
          /\ stack[k].live => \A l \in DOMAIN stack :
               stack[l].kind = "fork" => stack[l].live /\ stack[l].i < j
    BY <1>8 DEF Ahead
  <2>3. stack'[k] = stack[k]
    BY <1>3, <2>1
  <2>4. Table(stack[k])' = Table(stack[k])
    BY <1>1, <2>1, <2>3 DEF Table
  <2>5. ASSUME stack[k].live, NEW l \in DOMAIN stack', stack'[l].kind = "fork"
        PROVE  stack'[l].live /\ stack'[l].i < j
    <3>1. CASE l = m
      <4>1. j \in DOMAIN forkQ
        BY <2>1, <2>2, <2>5 DEF Table
      <4>2. QED
        BY <1>3, <1>4, <1>6, <3>1, <4>1
    <3>2. CASE l # m
      BY <1>3, <2>2, <2>5, <3>2
    <3>3. QED
      BY <3>1, <3>2
  <2>6. QED
    BY <2>1, <2>2, <2>3, <2>4, <2>5 DEF Ahead
<1>9. ASSUME ~Forking, NEW j \in DOMAIN forkQ, NEW t, forkQ[j] = t
      PROVE  \E k \in DOMAIN stack' : Ahead(k, t)'
  <2>1. 1 .. j \subseteq DOMAIN forkQ /\ j \in Nat \ {0}
    BY <1>6, <1>9 DEF ForkInv, KeptInv
  <2>2. \A l \in DOMAIN stack' : stack'[l].kind = "fork" => l = m
    BY <1>3, <1>9 DEF Forking
  <2>3. PICK k \in DOMAIN stack' : k = m
    BY <1>1, <1>3
  <2>4. stack'[k].kind = "fork" /\ stack'[k].i = 0 /\ stack'[k].live
    BY <1>3, <1>4, <2>3
  <2>5. Table(stack[k])' = forkQ
    BY <1>1, <2>4 DEF Table
  <2>6. \A n \in (stack'[k].i + 1) .. j : n \in DOMAIN forkQ
    BY <2>1, <2>4
  <2>7. \A l \in DOMAIN stack' : stack'[l].kind = "fork" => stack'[l].live /\ stack'[l].i < j
    BY <2>1, <2>2, <2>3, <2>4
  <2>8. Ahead(k, t)'
    BY <1>9, <2>1, <2>4, <2>5, <2>6, <2>7 DEF Ahead
  <2>9. QED
    BY <2>8
<1>10. KeptInv'
  <2>1. ASSUME NEW t \in Queued', task'[t].outside
        PROVE  \E k \in DOMAIN stack' : Ahead(k, t)'
    <3>1. \/ ~Forking /\ ~Polling /\ \E j \in DOMAIN forkQ : forkQ[j] = t
          \/ \E k \in DOMAIN stack : Ahead(k, t)
      BY <1>1, <1>5, <2>1 DEF ForkInv, KeptInv
    <3>2. QED
      BY <1>1, <1>3, <1>8, <1>9, <3>1
  <2>2. QED
    BY <1>5, <2>1 DEF KeptInv
<1>11. QueueSound => QueueSound'
  BY <1>1, <1>5 DEF QueueSound
<1>12. ASSUME NEW k \in DOMAIN stack', stack'[k].kind = "fork", ~stack'[k].live
       PROVE  k \in DOMAIN stack /\ stack[k].kind = "fork" /\ ~stack[k].live
              /\ (RestSound(stack[k]) => RestSound(stack[k])')
  <2>1. k # m
    BY <1>3, <1>4, <1>12
  <2>2. k \in DOMAIN stack /\ stack[k].kind = "fork" /\ stack'[k] = stack[k]
    BY <1>3, <1>12, <2>1
  <2>3. Rest(stack[k])' = Rest(stack[k])
    BY <2>2 DEF Rest
  <2>4. RestSound(stack[k]) => RestSound(stack[k])'
    BY <1>1, <1>5, <2>2, <2>3 DEF RestSound
  <2>5. QED
    BY <1>12, <2>2, <2>4
<1>13. OnceInv'
  BY <1>3, <1>11, <1>12 DEF ForkInv, OnceInv, m
<1>14. QED
  BY <1>10, <1>13 DEF ForkInv

(* One turn of run_fork. A function a frame was certain to come to is      *)
(* started, or is still ahead of that frame or of the frame on top.        *)
LEMMA ForkInvRun == ASSUME TypeInv, ForkInv, RunFork PROVE ForkInv'
<1> DEFINE m == Len(stack)
           n == Top.i + 1
           t == Table(Top)[n]
<1>1. PICK f \in Frame :
        /\ task' = [task EXCEPT ![t].at = "started"]
        /\ f.kind = "fork" /\ f.live = Top.live /\ f.tbl = Top.tbl
        /\ f.i = n /\ stack' = WithTop(f)
  BY RunForkTop
<1>2. /\ ~Polling /\ Top.kind = "fork" /\ n \in DOMAIN Table(Top) /\ t \in Task
      /\ Top = stack[m] /\ m \in DOMAIN stack /\ Top.i \in Nat /\ n \in Nat
      /\ forkQ' = Remove(forkQ, n)
  BY RunForkTop, TopFrame DEF RunFork, Frame
<1>3. /\ DOMAIN stack' = DOMAIN stack /\ Len(stack') = m
      /\ stack'[m] = f
      /\ \A k \in DOMAIN stack : k # m => stack'[k] = stack[k]
  BY <1>1, <1>2, WithTopStack
<1>4. /\ DOMAIN forkQ' = DOMAIN forkQ \ {n}
      /\ \A j \in DOMAIN forkQ : j # n => forkQ'[j] = forkQ[j]
      /\ DOMAIN forkQ \subseteq Nat \ {0}
  BY <1>2, TableIndexes DEF Remove, TypeInv
<1>5. Table(Top) = IF Top.live THEN forkQ ELSE Top.tbl
  BY <1>2 DEF Table
<1>6. n = Top.i + 1
  OBVIOUS
<1> HIDE DEF t, n, m
<1>7. /\ Queued' = Queued \ {t}
      /\ \A r \in Task : task'[r].outside = task[r].outside
  BY <1>1, <1>2 DEF Queued, TypeInv
<1>8. Forking' /\ ~Polling'
  BY <1>1, <1>2, <1>3 DEF Forking, Polling
<1>9. ASSUME NEW k \in DOMAIN stack
      PROVE  stack[k].i \in Nat
  <2>1. stack[k] \in Frame
    BY DEF TypeInv
  <2>2. QED
    BY <2>1 DEF Frame
<1>10. ASSUME NEW r \in Queued', NEW k \in DOMAIN stack, Ahead(k, r)
       PROVE  \E l \in DOMAIN stack' : Ahead(l, r)'
  <2>1. stack[k].kind = "fork" /\ stack[k].i \in Nat
    BY <1>9, <1>10 DEF Ahead
  <2>2. PICK j \in DOMAIN Table(stack[k]) :
          /\ stack[k].i < j
          /\ Table(stack[k])[j] = r
          /\ \A a \in (stack[k].i + 1) .. j : a \in DOMAIN Table(stack[k])
          /\ stack[k].live => \A l \in DOMAIN stack :
               stack[l].kind = "fork" => stack[l].live /\ stack[l].i < j
    BY <1>10 DEF Ahead
  <2>3. r # t
    BY <1>7, <1>10
  <2>4. CASE stack[k].live
    <3>1. /\ j \in DOMAIN forkQ /\ forkQ[j] = r /\ j \in Nat
          /\ \A a \in (stack[k].i + 1) .. j : a \in DOMAIN forkQ
      BY <1>4, <2>1, <2>2, <2>4 DEF Table
    <3>2. Top.live /\ Top.i < j /\ n # j
      BY <1>2, <1>5, <2>2, <2>3, <2>4, <3>1 DEF t
    <3>3. n < j
      BY <1>2, <1>6, <3>1, <3>2
    <3>4. \A l \in DOMAIN stack' : stack'[l].kind = "fork" => stack'[l].live /\ stack'[l].i < j
      BY <1>1, <1>3, <2>2, <2>4, <3>2, <3>3
    <3>5. CASE n > stack[k].i
      <4>1. /\ stack'[m].kind = "fork" /\ stack'[m].live /\ stack'[m].i = n
            /\ m \in DOMAIN stack'
        BY <1>1, <1>2, <1>3, <3>2
      <4>2. \A a \in (n + 1) .. j : a \in DOMAIN forkQ'
        BY <1>2, <1>4, <2>1, <3>1, <3>5
      <4>3. PICK l \in DOMAIN stack' : l = m
        BY <4>1
      <4>4. Table(stack[l])' = forkQ'
        BY <4>1, <4>3 DEF Table
      <4>5. j \in DOMAIN forkQ' /\ forkQ'[j] = r
        BY <1>4, <3>1, <3>2
      <4>6. Ahead(l, r)'
        BY <3>3, <3>4, <4>1, <4>2, <4>3, <4>4, <4>5 DEF Ahead
      <4>7. QED
        BY <4>6
    <3>6. CASE ~(n > stack[k].i)
      <4>1. k # m
        BY <1>2, <1>6, <3>6
      <4>2. stack'[k] = stack[k] /\ k \in DOMAIN stack'
        BY <1>3, <4>1
      <4>3. \A a \in (stack[k].i + 1) .. j : a \in DOMAIN forkQ'
        BY <1>2, <1>4, <2>1, <3>1, <3>6
      <4>4. Table(stack[k])' = forkQ'
        BY <2>1, <2>4, <4>2 DEF Table
      <4>5. j \in DOMAIN forkQ' /\ forkQ'[j] = r
        BY <1>4, <3>1, <3>2
      <4>6. Ahead(k, r)'
        BY <2>1, <2>2, <3>4, <4>2, <4>3, <4>4, <4>5 DEF Ahead
      <4>7. QED
        BY <4>2, <4>6
    <3>7. QED
      BY <3>5, <3>6
  <2>5. CASE ~stack[k].live
    <3>1. /\ j \in DOMAIN stack[k].tbl /\ stack[k].tbl[j] = r
          /\ \A a \in (stack[k].i + 1) .. j : a \in DOMAIN stack[k].tbl
      BY <2>1, <2>2, <2>5 DEF Table
    <3>2. j \in Nat
      <4>1. stack[k].tbl \in ForkTables
        BY <2>1, <2>5 DEF TypeInv
      <4>2. QED
        BY <3>1, <4>1, TableIndexes
    <3>3. CASE k = m
      <4>1. stack'[k].kind = "fork" /\ ~stack'[k].live /\ stack'[k].i = n
            /\ stack'[k].tbl = stack[k].tbl /\ k \in DOMAIN stack'
        BY <1>1, <1>2, <1>3, <2>5, <3>3
      <4>2. n # j
        BY <1>2, <1>5, <2>3, <2>5, <3>1, <3>3 DEF t
      <4>3. n < j /\ \A a \in (n + 1) .. j : a \in (stack[k].i + 1) .. j
        BY <1>2, <1>6, <2>2, <3>2, <3>3, <4>2
      <4>4. Table(stack[k])' = stack[k].tbl
        BY <4>1 DEF Table
      <4>5. Ahead(k, r)'
        BY <3>1, <4>1, <4>3, <4>4 DEF Ahead
      <4>6. QED
        BY <4>1, <4>5
    <3>4. CASE k # m
      <4>1. stack'[k] = stack[k] /\ k \in DOMAIN stack'
        BY <1>3, <3>4
      <4>2. Table(stack[k])' = stack[k].tbl
        BY <2>5, <4>1 DEF Table
      <4>3. Ahead(k, r)'
        BY <2>1, <2>2, <2>5, <3>1, <4>1, <4>2 DEF Ahead
      <4>4. QED
        BY <4>1, <4>3
    <3>5. QED
      BY <3>3, <3>4
  <2>6. QED
    BY <2>4, <2>5
<1>11. KeptInv'
  <2>1. ASSUME NEW r \in Queued', task'[r].outside
        PROVE  \E k \in DOMAIN stack' : Ahead(k, r)'
    <3>1. r \in Queued /\ task[r].outside /\ Forking
      BY <1>2, <1>7, <2>1 DEF Queued, Forking
    <3>2. PICK k \in DOMAIN stack : Ahead(k, r)
      BY <3>1 DEF ForkInv, KeptInv
    <3>3. QED
      BY <2>1, <3>2, <1>10
  <2>2. QED
    BY <1>8, <2>1 DEF KeptInv
<1>12. ASSUME MaxDepth <= 2, ~Top.live PROVE RestSound(Top) /\ n \in Rest(Top) /\ m = 1
  <2>1. RestSound(Top) /\ m = 1
    BY <1>2, <1>12 DEF ForkInv, OnceInv
  <2>2. n \in Rest(Top)
    BY <1>2, <1>5, <1>6, <1>12 DEF Rest
  <2>3. QED
    BY <2>1, <2>2
<1>13. ASSUME MaxDepth <= 2, NEW j \in DOMAIN forkQ, j # n PROVE forkQ[j] # t
  <2>1. CASE Top.live
    BY <1>2, <1>5, <1>13, <2>1 DEF t, ForkInv, OnceInv, QueueSound
  <2>2. CASE ~Top.live
    BY <1>5, <1>12, <1>13, <2>2 DEF t, RestSound
  <2>3. QED
    BY <2>1, <2>2
<1>14. ASSUME MaxDepth <= 2 PROVE QueueSound'
  BY <1>4, <1>7, <1>13, <1>14 DEF ForkInv, OnceInv, QueueSound
<1>15. ASSUME MaxDepth <= 2, NEW k \in DOMAIN stack, stack'[k].kind = "fork", ~stack'[k].live
       PROVE  k = 1 /\ RestSound(stack[k])'
  <2>1. stack[k].kind = "fork" /\ ~stack[k].live /\ stack'[k].tbl = stack[k].tbl
    BY <1>1, <1>2, <1>3, <1>15
  <2>2. k = 1 /\ RestSound(stack[k])
    BY <1>15, <2>1 DEF ForkInv, OnceInv
  <2>3. \A l \in DOMAIN forkQ' : l \in DOMAIN forkQ /\ forkQ'[l] = forkQ[l]
    BY <1>4
  <2>4. Rest(stack[k])' \subseteq Rest(stack[k])
    <3>1. stack[k].i \in Nat /\ stack'[k].i \in Nat /\ stack'[k].i >= stack[k].i
      BY <1>1, <1>2, <1>3, <1>6, <1>9
    <3>2. stack[k].tbl \in ForkTables
      BY <2>1 DEF TypeInv
    <3>3. DOMAIN stack[k].tbl \subseteq Nat
      BY <3>2, TableIndexes
    <3>4. QED
      BY <2>1, <3>1, <3>3 DEF Rest
  <2>5. ASSUME NEW j \in Rest(stack[k])' PROVE stack[k].tbl[j] # t
    <3>1. CASE k = m
      <4>1. j # n
        BY <1>1, <1>2, <1>3, <2>5, <3>1 DEF Rest
      <4>2. QED
        BY <1>2, <1>5, <1>12, <1>15, <2>1, <2>2, <2>4, <2>5, <3>1, <4>1 DEF t, RestSound
    <3>2. CASE k # m
      <4>1. Top.live
        BY <1>12, <1>15, <2>2, <3>2
      <4>2. t = forkQ[n] /\ n \in DOMAIN forkQ
        BY <1>2, <1>5, <4>1 DEF t
      <4>3. QED
        BY <2>2, <2>4, <2>5, <4>2 DEF RestSound
    <3>3. QED
      BY <3>1, <3>2
  <2>6. QED
    BY <1>7, <2>1, <2>2, <2>3, <2>4, <2>5 DEF RestSound
<1>16. OnceInv'
  BY <1>3, <1>14, <1>15 DEF ForkInv, OnceInv, m
<1>17. QED
  BY <1>11, <1>16 DEF ForkInv

(* The end of run_fork. The frame that ends is certain to come to nothing  *)
(* more; another loop over the global table keeps that table, and with two *)
(* activations at most it is the outermost one.                            *)
LEMMA ForkInvEnd == ASSUME TypeInv, ForkInv, RunForkEnd PROVE ForkInv'
<1> DEFINE D == Detach("fork", forkQ)
           m == Len(stack)
<1>1. /\ ~Polling /\ Top.kind = "fork" /\ Top = stack[m] /\ m \in DOMAIN stack
      /\ m \in Nat \ {0} /\ DOMAIN stack = 1 .. m /\ Top.i \in Nat
      /\ Top.i + 1 \notin DOMAIN Table(Top)
      /\ forkQ' = <<>> /\ task' = task
      /\ stack' = SubSeq(D, 1, m - 1)
  BY TopFrame DEF RunForkEnd, InLoop, Frame
<1>2. /\ D \in Seq(Frame) /\ Len(D) = m
      /\ \A j \in DOMAIN stack :
           /\ D[j].kind = stack[j].kind /\ D[j].i = stack[j].i
           /\ stack[j].kind = "fork" => ~D[j].live
           /\ stack[j].kind = "fork" /\ stack[j].live => D[j].tbl = forkQ
           /\ ~(stack[j].kind = "fork" /\ stack[j].live) => D[j] = stack[j]
  <2>1. forkQ \in ForkTables \cup Seq(Session)
    BY DEF TypeInv
  <2>2. QED
    BY <2>1, DetachStack
<1> HIDE DEF D, m
<1>3. /\ stack' \in Seq(Frame) /\ Len(stack') = m - 1
      /\ DOMAIN stack' = 1 .. (m - 1)
      /\ \A j \in DOMAIN stack' : j \in DOMAIN stack /\ stack'[j] = D[j]
  BY <1>1, <1>2
<1>4. Forking /\ Queued' = Queued /\ DOMAIN forkQ' = {}
  BY <1>1 DEF Forking, Queued
<1>5. ASSUME NEW k \in DOMAIN stack, NEW t, Ahead(k, t)
      PROVE  \E l \in DOMAIN stack' : Ahead(l, t)'
  <2>1. stack[k].kind = "fork"
    BY <1>5 DEF Ahead
  <2>2. PICK j \in DOMAIN Table(stack[k]) :
          /\ stack[k].i < j
          /\ Table(stack[k])[j] = t
          /\ \A n \in (stack[k].i + 1) .. j : n \in DOMAIN Table(stack[k])
          /\ stack[k].live => \A l \in DOMAIN stack :
               stack[l].kind = "fork" => stack[l].live /\ stack[l].i < j
    BY <1>5 DEF Ahead
  <2>3. j \in Nat
    <3>1. Table(stack[k]) \in ForkTables
      BY <2>1 DEF Table, TypeInv
    <3>2. QED
      BY <3>1, TableIndexes
  <2>4. k # m
    <3> SUFFICES ASSUME k = m PROVE FALSE
      OBVIOUS
    <3>1. Top.i + 1 \in (stack[k].i + 1) .. j
      BY <1>1, <2>2, <2>3
    <3>2. QED
      BY <1>1, <2>2, <3>1
  <2>5. k \in DOMAIN stack' /\ stack'[k] = D[k]
    BY <1>1, <1>3, <2>4
  <2>6. /\ stack'[k].kind = "fork" /\ stack'[k].i = stack[k].i /\ ~stack'[k].live
        /\ stack'[k].tbl = Table(stack[k])
    BY <1>2, <2>1, <2>5 DEF Table
  <2>7. Table(stack[k])' = Table(stack[k])
    BY <2>6 DEF Table
  <2>8. Ahead(k, t)'
    BY <2>2, <2>6, <2>7 DEF Ahead
  <2>9. QED
    BY <2>5, <2>8
<1>6. KeptInv'
  <2>1. ASSUME NEW t \in Queued', task'[t].outside
        PROVE  \E k \in DOMAIN stack' : Ahead(k, t)'
    <3>1. t \in Queued /\ task[t].outside
      BY <1>1, <1>4, <2>1
    <3>2. PICK k \in DOMAIN stack : Ahead(k, t)
      BY <1>4, <3>1 DEF ForkInv, KeptInv
    <3>3. QED
      BY <3>2, <1>5
  <2>2. QED
    BY <1>1, <1>4, <2>1 DEF KeptInv
<1>7. QueueSound'
  BY <1>4 DEF QueueSound
<1>8. ASSUME MaxDepth <= 2, NEW k \in DOMAIN stack', stack'[k].kind = "fork"
      PROVE  k = 1 /\ RestSound(stack[k])'
  <2>1. k = 1
    BY <1>1, <1>3, <1>8, SchedulerAssumption DEF ForkInv, OnceInv, m
  <2>2. k \in DOMAIN stack /\ stack'[k] = D[k] /\ stack[k].kind = "fork"
        /\ stack'[k].i = stack[k].i
    BY <1>2, <1>3, <1>8
  <2>3. CASE stack[k].live
    <3>1. stack'[k].tbl = forkQ
      BY <1>2, <2>2, <2>3
    <3>2. QueueSound
      BY <1>8 DEF ForkInv, OnceInv
    <3>3. \A j \in Rest(stack[k])' : j \in DOMAIN forkQ
      BY <3>1 DEF Rest
    <3>4. ASSUME NEW j \in Rest(stack[k])'
          PROVE  /\ stack'[k].tbl[j] \in Queued'
                 /\ \A l \in DOMAIN forkQ' : stack'[k].tbl[j] # forkQ'[l]
                 /\ \A l \in Rest(stack[k])' :
                      stack'[k].tbl[j] = stack'[k].tbl[l] => j = l
      <4>1. j \in DOMAIN forkQ /\ \A l \in Rest(stack[k])' : l \in DOMAIN forkQ
        BY <3>3, <3>4
      <4>2. QED
        BY <1>4, <3>1, <3>2, <4>1 DEF QueueSound
    <3>5. QED
      BY <2>1, <3>4 DEF RestSound
  <2>4. CASE ~stack[k].live
    <3>1. stack'[k] = stack[k]
      BY <1>2, <2>2, <2>4
    <3>2. Rest(stack[k])' = Rest(stack[k])
      BY <3>1 DEF Rest
    <3>3. RestSound(stack[k])
      BY <1>8, <2>2, <2>4 DEF ForkInv, OnceInv
    <3>4. QED
      BY <1>4, <2>1, <3>1, <3>2, <3>3 DEF RestSound
  <2>5. QED
    BY <2>1, <2>3, <2>4
<1>9. OnceInv'
  <2>1. Len(stack') <= MaxDepth
    BY <1>1, <1>3, SchedulerAssumption DEF ForkInv, OnceInv, m
  <2>2. QED
    BY <1>7, <1>8, <2>1 DEF OnceInv
<1>10. QED
  BY <1>6, <1>9 DEF ForkInv

LEMMA ForkInvNext == TypeInv /\ ForkInv /\ [Next]_vars => ForkInv'
<1> SUFFICES ASSUME TypeInv, ForkInv, [Next]_vars PROVE ForkInv'
  OBVIOUS
<1>1. ASSUME forkQ' = forkQ, task' = task, stack' = stack PROVE ForkInv'
  <2>1. CASE Polling
    <3>1. DOMAIN stack = {} /\ DOMAIN stack' = {}
      BY <1>1, <2>1 DEF Polling
    <3>2. KeptInv'
      BY <1>1, <3>1 DEF ForkInv, KeptInv, Queued, Forking, Polling
    <3>3. OnceInv'
      BY <1>1, <3>1 DEF ForkInv, OnceInv, QueueSound, Queued
    <3>4. QED
      BY <3>2, <3>3 DEF ForkInv
  <2>2. CASE ~Polling
    <3>1. stack' \in Seq(Frame) /\ stack' # <<>> /\ Len(stack') <= MaxDepth
      BY <1>1, <2>2 DEF TypeInv, Polling, ForkInv, OnceInv
    <3>2. QED
      BY <1>1, <2>2, <3>1, ForkInvKept
  <2>3. QED
    BY <2>1, <2>2
<1>2. ASSUME InUserCode, stack' = Running(None), forkQ' = forkQ, task' = task
      PROVE  ForkInv'
  <2>1. PICK f \in Frame :
          /\ f.kind = Top.kind /\ f.i = Top.i /\ f.live = Top.live /\ f.tbl = Top.tbl
          /\ stack' = WithTop(f)
    BY <1>2, RunningTop
  <2>2. QED
    BY <1>2, <2>1, ForkInvTop DEF InUserCode
<1>3. Loop("wakeup") \in Frame /\ Loop("wakeup").kind = "wakeup"
  BY EmptyTable DEF Loop, Frame
<1>4. CASE SyncDns
  <2> DEFINE n == Len(stack) + 1
  <2>1. /\ ~Polling /\ forkQ' = forkQ /\ task' = task
        /\ stack' \in Seq(Frame) /\ Len(stack') = n
        /\ DOMAIN stack' = DOMAIN stack \cup {n}
        /\ \A j \in DOMAIN stack : stack'[j] = stack[j]
        /\ stack'[n] = Loop("wakeup")
    BY <1>4, <1>3 DEF SyncDns, InUserCode, TypeInv
  <2>2. n <= MaxDepth
    BY <1>4, SchedulerAssumption DEF SyncDns, TypeInv
  <2> HIDE DEF n
  <2>3. stack' # <<>>
    BY <2>1
  <2>4. QED
    BY <2>1, <2>2, <2>3, <1>3, ForkInvKept
<1>5. CASE HandlerEnd
  BY <1>5, <1>3, ForkInvTop DEF HandlerEnd, InUserCode
<1>6. CASE RunWakeup
  <2> DEFINE s == Table(Top)[Top.i + 1]
             f == [Top EXCEPT !.i = @ + 1, !.co = waitCo[s]]
  <2>1. ~Polling /\ Top.kind = "wakeup" /\ Top.i + 1 \in DOMAIN Table(Top)
        /\ forkQ' = forkQ /\ task' = task /\ stack' = WithTop(f)
    BY <1>6 DEF RunWakeup, InLoop
  <2>2. s \in Session
    BY <2>1, TopFrame DEF Table, TypeInv
  <2> HIDE DEF s
  <2>3. f \in Frame /\ f.kind = "wakeup"
    <3>1. Top.i + 1 \in Nat /\ Top \in Frame /\ waitCo[s] \in Co \cup {None}
      BY <2>1, <2>2, TopFrame DEF Frame, TypeInv
    <3>2. QED
      BY <2>1, <3>1 DEF Frame
  <2> HIDE DEF f
  <2>4. QED
    BY <2>1, <2>3, ForkInvTop
<1>7. QED
  BY <1>1, <1>2, <1>4, <1>5, <1>6, ForkInvBegin, ForkInvFork, ForkInvLoopBegin,
     ForkInvRun, ForkInvEnd
     DEF Next, UserCode, UserReturn, Drain, Wakeup, GenSession, Wait, Finish, Fail, vars

(* A function forked while no run_fork is in progress is started before    *)
(* event_dispatch returns, and with at most two nested activations no      *)
(* function is started twice, whatever tables and holes the functions      *)
(* before it leave behind.                                                 *)
THEOREM ForkedRuns == Spec => []ForkExact
<1>1. TypeInv /\ ForkInv => ForkExact
  BY ForkInvExact
<1>2. QED
  BY <1>1, ForkInvInit, ForkInvNext, TypeInit, TypeNext, PTL DEF Spec
=============================================================================
