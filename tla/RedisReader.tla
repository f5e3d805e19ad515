----------------------------- MODULE RedisReader -----------------------------
(***************************************************************************)
(* The redis reply reader of src/redis: reader:feed takes the bytes of a   *)
(* connection as they come, reader:get_reply parses them with a stack of   *)
(* tasks that survives between calls, builds the reply from pooled objects *)
(* and pushes it to Lua.                                                   *)
(*                                                                         *)
(* The loop of redisReaderGetReply is taken item by item; nothing can come *)
(* between its steps. Any allocation of a call may fail. The payloads, the numbers   *)
(* and the texts of errors are abstracted to symbols (module Resp); the    *)
(* limits of the numbers and the buffer's capacity are left out.           *)
(***************************************************************************)
EXTENDS Resp, FiniteSets, SequencesExt

CONSTANTS
  Streams,   (* what a server may write: a set of sequences of items       *)
  Object,    (* the redis_reply structs that may be allocated (a bound)    *)
  Depth,     (* the last index of rstack: 8 in the code                    *)
  Compact,   (* consumed bytes that are discarded: 1024 in the code        *)
  None       (* no object                                                  *)

ASSUME RedisReaderAssumption ==
  /\ None \notin Object
  /\ Depth \in Nat \ {0} /\ Compact \in Nat \ {0}

VARIABLES
  sent,     (* the items the server writes                                 *)
  todo,     (* the symbols of them that are not fed yet                    *)
  buf, pos, (* r->buf and r->pos                                           *)
  stack,    (* rstack[0 .. ridx]                                           *)
  root,     (* r->reply                                                    *)
  err,      (* r->err                                                      *)
  heap,     (* the objects                                                 *)
  fresh,    (* objects never allocated                                     *)
  free,     (* reader->freelist                                            *)
  phase,    (* "script", "reading" in get_reply, "released", or the        *)
            (* process has ended: "aborted" by an assertion, "crashed"     *)
  got,      (* what the calls that took a reply gave to Lua                *)
  idle,     (* the last call found no whole reply, nothing was fed since   *)
  ndebug,   (* the build: assert compiles to nothing                       *)
  oom,      (* history: an allocation failed                               *)
  leaked,   (* history: objects a raising push_reply left behind           *)
  twice     (* history: a string was freed again                           *)

input == <<sent, todo>>
reader == <<buf, pos, stack, root, err>>
pool == <<heap, fresh, free>>
history == <<oom, leaked, twice>>
vars == <<input, reader, pool, history, phase, got, idle, ndebug>>

-----------------------------------------------------------------------------
(* Objects.                                                                *)

Struct == [type |-> "nil", val |-> <<>>, element |-> <<>>, str |-> "none"]
HasText(type) == type \in {"error", "status", "string", "double"}
Children(h, i) == SelectSeq(h[i].element, LAMBDA j : j # None)

(* free_reply: the elements first, each pushed on the free list.           *)
RECURSIVE FreeOrder(_, _)
FreeOrder(h, i) ==
  LET of == Children(h, i)
      Before[n \in 0 .. Len(of)] ==
        IF n = 0 THEN <<>> ELSE Before[n - 1] \o FreeOrder(h, of[n])
  IN Append(Before[Len(of)], i)

Freed(h, gone) ==
  [i \in Object |-> IF i \notin gone THEN h[i]
                    ELSE [h[i] EXCEPT !.element = <<>>,
                            !.str = IF HasText(h[i].type) /\ @ = "live"
                                    THEN "freed" ELSE @]]

FreeReply(h, f, i, already) ==
  LET order == FreeOrder(h, i)
      again == \E j \in ToSet(order) : HasText(h[j].type) /\ h[j].str = "freed"
  IN /\ free' = Reverse(order) \o f
     /\ heap' = Freed(h, ToSet(order))
     /\ twice' = (already \/ again)

(* The value an object tree stands for.                                    *)
RECURSIVE Tree(_, _)
Tree(h, i) ==
  [type |-> h[i].type,
   val |-> IF h[i].type \in Aggregates
             THEN [j \in DOMAIN h[i].element |-> Tree(h, h[i].element[j])]
             ELSE h[i].val]

-----------------------------------------------------------------------------
(* push_reply: the Lua values of a reply. An assertion wants one for each  *)
(* element of an array; where assertions compile to nothing, the elements  *)
(* are not pushed at all and lua_seti meets the reader instead of a table. *)
PushCount(v) ==
  CASE v.type \in {"status", "error"} -> 2 [] v.type \in {"map", "set"} -> 0
    [] OTHER -> 1

RECURSIVE Aborts(_)
Aborts(v) ==
  /\ v.type = "array"
  /\ \E i \in DOMAIN v.val : PushCount(v.val[i]) # 1 \/ Aborts(v.val[i])
Raises(v) == v.type = "array" /\ v.val # <<>>

Raised == [type |-> "raised"]
Pushed(v) == IF v.type \in {"map", "set"} THEN [type |-> "nothing"] ELSE v

Outcome(v, nd) ==
  CASE v = Bad -> Raised
    [] v # Bad /\ nd -> IF Raises(v) THEN Raised ELSE Pushed(v)
    [] OTHER -> IF Aborts(v) THEN [type |-> "aborted"] ELSE Pushed(v)

-----------------------------------------------------------------------------
(* The stack of tasks. A task has the type it read, or "none"; the number  *)
(* of its elements and its object once it is an aggregate; and its index   *)
(* in the one below. idx counts from 1 here, and the root's is not used.   *)

Task(idx) == [type |-> "none", elements |-> 0, idx |-> idx, obj |-> None]
Cur == Last(stack)

(* moveToNextTask: the finished tasks go, the next element's task comes.   *)
NextTask(s) ==
  LET open == {k \in 2 .. Len(s) : s[k].idx # s[k - 1].elements}
      top == Max(open)
  IN IF open = {} THEN <<>> ELSE Append(SubSeq(s, 1, top - 1), Task(s[top].idx + 1))

(* readLine: the first CR LF from pos on.                                  *)
Newlines == {i \in pos + 1 .. Len(buf) - 1 : buf[i] = CR /\ buf[i + 1] = LF}
HasLine == Newlines # {}
Line == SubSeq(buf, pos + 1, Min(Newlines) - 1)
AfterLine == Min(Newlines) + 1

(* Mutant: r->reply still points to what was freed.                        *)
FailKeepsReply(h, f, already) ==
  /\ buf' = <<>> /\ pos' = 0 /\ stack' = <<>> /\ err' = TRUE /\ root' = root
  /\ IF root = None THEN heap' = h /\ free' = f /\ twice' = already
     ELSE FreeReply(h, f, root, already)

(* __redisReaderSetError.                                                  *)
Fail(h, f, already) ==
  /\ buf' = <<>> /\ pos' = 0 /\ stack' = <<>> /\ err' = TRUE /\ root' = None
  /\ IF root = None THEN heap' = h /\ free' = f /\ twice' = already
     ELSE FreeReply(h, f, root, already)

Protocol == Fail(heap, free, twice) /\ UNCHANGED <<fresh, oom, leaked, phase>>

(* create_reply: the struct on top of the free list, or a new one.         *)
Taken == IF free # <<>> THEN Head(free) ELSE CHOOSE i \in fresh : TRUE
Linked(h, i) ==
  IF Len(stack) = 1 THEN h
  ELSE [h EXCEPT ![stack[Len(stack) - 1].obj].element[Cur.idx] = i]

(* create_string, create_array, ...: the object of the current task and    *)
(* what follows it, when everything could be allocated.                    *)
Create(v, elements, after) ==
  LET i == Taken
      text == IF HasText(v.type) THEN "live" ELSE heap[i].str
  IN /\ free # <<>> \/ fresh # {}
     /\ free' = IF free # <<>> THEN Tail(free) ELSE free
     /\ fresh' = fresh \ {i}
     /\ heap' = Linked([heap EXCEPT ![i] =
                 [type |-> v.type, val |-> IF v.type \in Aggregates THEN <<>> ELSE v.val,
                  element |-> [j \in 1 .. elements |-> None], str |-> text]], i)
     /\ root' = IF Len(stack) = 1 THEN i ELSE root
     /\ stack' = IF elements = 0 THEN NextTask(stack)
                 ELSE Append([stack EXCEPT ![Len(stack)] =
                                [@ EXCEPT !.elements = elements, !.obj = i]], Task(1))
     /\ pos' = after
     /\ UNCHANGED <<buf, err, oom, leaked, twice, phase>>

(* The struct cannot be allocated: create_reply writes to it all the same. *)
NoStruct ==
  /\ free = <<>> /\ oom' = TRUE /\ phase' = "crashed"
  /\ UNCHANGED <<reader, pool, leaked, twice>>

(* The struct is there, but not the memory for its text or its elements:   *)
(* it goes to the free list, and a recycled one still has the text of its  *)
(* last use, which free_reply frees again (create_double has cleared it).  *)
NoText(v, elements) ==
  LET i == Taken
      again == HasText(v.type) /\ v.type # "double" /\ heap[i].str = "freed"
      text == IF v.type = "double" THEN "none" ELSE heap[i].str
  IN /\ HasText(v.type) \/ elements > 0
     /\ free # <<>> \/ fresh # {}
     /\ fresh' = fresh \ {i}
     /\ Fail(Freed([heap EXCEPT ![i] = [@ EXCEPT !.type = v.type, !.str = text]], {i}),
             <<i>> \o (IF free # <<>> THEN Tail(free) ELSE <<>>), twice \/ again)
     /\ oom' = TRUE /\ UNCHANGED <<leaked, phase>>

Made(v, elements, after) ==
  \/ Create(v, elements, after)
  \/ NoStruct
  \/ NoText(v, elements)

-----------------------------------------------------------------------------
(* processItem.                                                            *)
Working == phase = "reading" /\ stack # <<>>
Quiet == UNCHANGED <<input, got, idle, ndebug>>

ReadType ==
  /\ Working /\ Cur.type = "none" /\ pos < Len(buf)
  /\ IF buf[pos + 1] \in DOMAIN Kind
       THEN /\ stack' = [stack EXCEPT ![Len(stack)].type = Kind[buf[pos + 1]]]
            /\ pos' = pos + 1
            /\ UNCHANGED <<buf, root, err, pool, history, phase>>
       ELSE Protocol
  /\ Quiet

LineItem ==
  /\ Working /\ Cur.type \in Lines /\ HasLine
  /\ LET v == LineValue(Cur.type, Line)
     IN IF v = Bad THEN Protocol ELSE Made(v, 0, AfterLine)
  /\ Quiet

(* Mutant: the CR LF after the payload is not waited for.                  *)
WholeEarly(n) == AfterLine + n <= Len(buf)

(* A bulk string is taken when all of it is there.                         *)
Whole(n) == AfterLine + n + 2 <= Len(buf)

BulkItem ==
  /\ Working /\ Cur.type = "string" /\ HasLine
  /\ IF ~IsNumber(Line) \/ NumberOf(Line) < -1 THEN Protocol
     ELSE LET n == NumberOf(Line)
          IN IF n = -1 THEN Made(Nil, 0, AfterLine)
             ELSE /\ Whole(n)
                  /\ Made([type |-> "string",
                            val |-> SubSeq(buf, AfterLine + 1, AfterLine + n)],
                          0, AfterLine + n + 2)
  /\ Quiet

TooDeep == Len(stack) = Depth + 1

AggregateItem ==
  /\ Working /\ Cur.type \in Aggregates
  /\ TooDeep \/ HasLine
  /\ IF TooDeep \/ ~IsNumber(Line) \/ NumberOf(Line) < -1 THEN Protocol
     ELSE IF NumberOf(Line) = -1 THEN Made(Nil, 0, AfterLine)
     ELSE Made([type |-> Cur.type], ElementsOf(Cur.type, NumberOf(Line)), AfterLine)
  /\ Quiet

-----------------------------------------------------------------------------
(* The calls of a script.                                                  *)

Init ==
  /\ sent \in Streams
  /\ todo = FoldLeft(LAMBDA s, item : s \o Encode(item), <<>>, sent)
  /\ buf = <<>> /\ pos = 0 /\ stack = <<>> /\ root = None /\ err = FALSE
  /\ heap = [i \in Object |-> Struct] /\ fresh = Object /\ free = <<>>
  /\ phase = "script" /\ got = <<>> /\ idle = TRUE /\ ndebug \in BOOLEAN
  /\ oom = FALSE /\ leaked = {} /\ twice = FALSE

(* reader:feed with the next n bytes; a reader in error drops them.        *)
Feed(n) ==
  /\ phase = "script"
  /\ todo' = SubSeq(todo, n + 1, Len(todo))
  /\ buf' = IF err THEN buf ELSE buf \o SubSeq(todo, 1, n)
  /\ idle' = FALSE
  /\ UNCHANGED <<sent, pos, stack, root, err, pool, history, phase, got, ndebug>>

(* The buffer cannot grow.                                                 *)
FeedFails(n) ==
  /\ phase = "script" /\ ~err
  /\ todo' = SubSeq(todo, n + 1, Len(todo))
  /\ Fail(heap, free, twice) /\ oom' = TRUE
  /\ idle' = FALSE
  /\ UNCHANGED <<sent, fresh, leaked, phase, got, ndebug>>

(* reader:get_reply. One in error raises again and changes nothing, one    *)
(* without bytes gives nothing.                                            *)
GetReply ==
  /\ phase = "script" /\ ~err
  /\ IF buf = <<>> THEN idle' = TRUE /\ UNCHANGED <<stack, phase>>
     ELSE /\ phase' = "reading" /\ idle' = idle
          /\ stack' = IF stack = <<>> THEN <<Task(0)>> ELSE stack
  /\ UNCHANGED <<input, buf, pos, root, err, pool, history, got, ndebug>>

GetReplyFails ==
  /\ phase = "reading" /\ err
  /\ phase' = "script" /\ got' = Append(got, Raised)
  /\ UNCHANGED <<input, reader, pool, history, idle, ndebug>>

Compacted ==
  IF pos >= Compact THEN buf' = SubSeq(buf, pos + 1, Len(buf)) /\ pos' = 0
  ELSE UNCHANGED <<buf, pos>>

(* The bytes end inside an item.                                           *)
Starved ==
  CASE Cur.type = "none" -> pos = Len(buf)
    [] Cur.type \in Lines -> ~HasLine
    [] Cur.type \in Aggregates -> ~TooDeep /\ ~HasLine
    [] OTHER -> HasLine => /\ IsNumber(Line) /\ NumberOf(Line) >= 0
                           /\ ~Whole(NumberOf(Line))

NoReplyYet ==
  /\ Working /\ Starved
  /\ phase' = "script" /\ idle' = TRUE /\ Compacted
  /\ UNCHANGED <<input, stack, root, err, pool, history, got, ndebug>>

(* The reply is whole: it is pushed, then freed, unless push_reply raised  *)
(* or its assertion failed.                                                *)
Emit ==
  LET v == Tree(heap, root)
      result == Outcome(v, ndebug)
  IN /\ phase = "reading" /\ stack = <<>> /\ ~err
     /\ Compacted /\ root' = None
     /\ phase' = IF result.type = "aborted" THEN "aborted" ELSE "script"
     /\ got' = Append(got, result)
     /\ IF result.type \in {"aborted", "raised"}
          THEN leaked' = leaked \cup ToSet(FreeOrder(heap, root)) /\ UNCHANGED <<heap, free, twice>>
          ELSE FreeReply(heap, free, root, twice) /\ leaked' = leaked
     /\ UNCHANGED <<input, stack, err, fresh, idle, ndebug, oom>>

(* The userdata is collected: the reply in progress goes to the free list, *)
(* which nothing frees.                                                    *)
Release ==
  /\ phase = "script" /\ phase' = "released"
  /\ buf' = <<>> /\ pos' = 0 /\ stack' = <<>> /\ root' = None
  /\ IF root = None THEN UNCHANGED <<heap, free, twice>>
     ELSE FreeReply(heap, free, root, twice)
  /\ UNCHANGED <<input, err, fresh, got, idle, ndebug, oom, leaked>>

Next ==
  \/ \E n \in 1 .. Len(todo) : Feed(n) \/ FeedFails(n)
  \/ GetReply \/ GetReplyFails
  \/ ReadType \/ LineItem \/ BulkItem \/ AggregateItem
  \/ NoReplyYet \/ Emit \/ Release

Spec == Init /\ [][Next]_vars

-----------------------------------------------------------------------------
(* Properties.                                                             *)

(* What Lua gets from a stream: an outcome for each item up to the first   *)
(* that is malformed, too deep or pushed through the failing assertion.    *)
Answers ==
  LET all == [i \in DOMAIN sent |-> Outcome(Meaning(sent[i], 0, Depth), ndebug)]
      last == {i \in DOMAIN sent : \/ Meaning(sent[i], 0, Depth) = Bad
                                  \/ all[i].type = "aborted"}
  IN IF last = {} THEN all ELSE SubSeq(all, 1, Min(last))

(* However the bytes are cut into feeds and whenever get_reply is called,  *)
(* Lua gets the replies of the stream in their order, each once and whole; *)
(* and when the last byte was fed and get_reply gives nothing more, it got *)
(* all of them. Only a failed allocation cuts them short. (An array raises *)
(* in a build without assertions and aborts with them if an element is not *)
(* one Lua value; a map or a set is taken and gives nothing, as if none    *)
(* had come.)                                                              *)
RepliesRight ==
  \/ IsPrefix(got, Answers) /\ (idle /\ todo = <<>> /\ phase = "script" => got = Answers)
  \/ oom /\ got # <<>> /\ Last(got) = Raised /\ IsPrefix(Front(got), Answers)

Reach == IF root = None THEN <<>> ELSE FreeOrder(heap, root)

(* Every redis_reply is in one place: once on the free list, once in the   *)
(* reply being built, or left behind by a push that did not return; the    *)
(* tasks build into the reply; and a string is freed again only when the   *)
(* memory for the next text of a recycled object could not be had.         *)
PoolSound ==
  /\ IsInjective(free \o Reach)
  /\ ToSet(free) \cap ToSet(Reach) = {}
  /\ Object \ fresh = ToSet(free) \cup ToSet(Reach) \cup leaked
  /\ leaked \cap (ToSet(free) \cup ToSet(Reach)) = {}
  /\ leaked # {} => \E i \in DOMAIN got : got[i].type \in {"raised", "aborted"}
  /\ \A k \in 1 .. Len(stack) - 1 : stack[k].obj \in ToSet(Reach)
  /\ twice => oom
=============================================================================
