# win32lualib: models and proofs

This directory holds TLA+ models of the event framework of win32lualib
(`event/event.c` and `script/event.lua`), of its socket sessions
(`socket/socket_tcp.c`), its ranked list (`skiplist/`), its redis reply reader
(`redis/`) and its word filters (`filter/`, `trie/`), the TLC runs that check them
on small instances, and TLAPS proofs of the main invariants of the event
framework, of the socket sessions and of the ranked list for every instance. The
repository also holds other Lua modules; they are listed below with the plan for them.

## 1. The system

The repository builds Lua 5.3 modules for Windows with Visual Studio. Its own
code is small next to the vendored libraries (libevent, c-ares, curl, Lua,
lpeg, ...), and its core is the event framework: a program written as Lua
coroutines over one libevent loop, with remote calls between programs.

    program (coroutines)        script/server.lua, test_client.lua, ...
      |  fork, wakeup, wait, sleep, timer, connect, call, send, close
    script/event.lua            scheduler, channels, sleep and timers
      |  levbuffer, levtimer, levlistener, ... userdata     ^ event_dispatch(ev, ...)
    event/event.c               callbacks of libevent, registry references
      |                                                     ^ read/write/event/timer callbacks
    libevent                    bufferevents, timers, evdns, evhttp

Everything runs in one thread. What is hard is that control goes down and up
this stack many times at once: libevent calls back into event.c, that calls the
Lua function `event_dispatch`, which runs user code in a handler or in a
coroutine, which calls event.c again, which may call libevent, which may call
back again before it returns.

### Components

| component | state | operations | modelled by |
|---|---|---|---|
| scheduler, `event.lua` 179-231, 305-326, 421-433 | `_co_pool`, `_wait_co`, `_fork_queue`, `_wakeup_queue`, `_session`; implicitly the Lua stack of `event_dispatch` activations | fork, wakeup, wait, gen_session, event_dispatch (handler, run_wakeup, run_fork), synchronous dns | `Scheduler`, `SchedulerProofs` |
| connections, `event.c` 113-210, 326-432, 577-618 | levbuffer (closed, registry reference), its bufferevent (references, callbacks, pending events, output), the Lua registry | connect, accept, bind, read, write, close(0), close(1); callbacks of data, drain, error, connect | `EvBuffer`, `Registry`, abstract `BufferLife`, `EvBufferProofs` |
| channels, `event.lua` 48-175 | `session_ctx`, `state`/`need`, the queues of the scheduler | call, send, ret, data, disconnect, close, close_immediately, dispatch of requests | `Channel`, abstract `RemoteCall`, `ChannelProofs` |
| timers, `event.c` 213-220, 621-681, 780-791, `event.lua` 288-303, 332-342, 380-389 | levtimer userdata on a free list, the event in each, `_timer_ctx` | sleep, timer, cancel, expiry, end of dispatch, release | `Timer`, `TimerProofs` |
| listeners, httpd, dns requests, `event.c` 183-323, 435-485, 544-574, 684-768, `event.lua` 332-364 | their userdata, registry references and descriptors; the evhttp_request behind each request | listen, accept, httpd, reply, dns, close; callbacks of each; dispatch and what it closes at its end | `Services`, `Registry`, `RegistryProofs`, `ServicesProofs` |
| `socket/` sessions, `socket_tcp.c` 10-28, 61-109, 125-231, 278-285, 335-571 | lists of data_buffer_t for input and output with their totals, the threshold, two events, a free list of headers | bind, read, read to a separator, write, enable, disable, free, clean; callbacks of reading and writing | `SocketSession`, abstract `ByteQueue`, `SocketSessionProofs` |
| `socket/` listeners | one event | bind, accept, free | not modelled |
| `socket/` resolver and curl client | descriptor watches and timers on behalf of c-ares and curl | query, perform, callbacks | planned |
| `skiplist/`, `skiplist.c`, `lskiplist.c` | levels with spans, back links, tail; value and node tables of Lua; the loop of rank_pairs | insert, update, delete, del_by_rank, del_by_rank_range, rank_pairs, collection; all queries | `SkipList`, abstract `Ranking`, `SkipListProofs` |
| `redis/`, `read.c`, `lua-redis.c` | buffer, stack of tasks, reply under construction, free list of objects | feed, get_reply, collection | `RedisReader`, reference `Resp` |
| `filter/`, `trie/` | a tree of code points; lists of lengths by last code point with a set of words | add, delete, filter, search | `Trie`, `FilterCore`, composed in `WordFilters`, reference `Words` |
| `profiler/` | frames per coroutine, chain of coroutines | call, return, resume, yield hooks | planned |
| allocator in `test/` | free lists per size class | alloc, realloc, free | planned |
| `pto/`, `serialize/` | none that lasts between calls | encode, decode | `pto` integers planned; `serialize` not |
| vendored code, demos | | | not modelled, except what event.c relies on (below) |

### What makes each modelled component correct, and what is hard about it

*Scheduler.* A coroutine is never in two places (running, waiting, pooled);
a forked function is started and a wakeup delivered, each once and promptly.
Hard: `run_fork` and `run_wakeup` run user code in the middle of a loop over a
table that this code changes; the loops nest, because `event.dns` of a numeric
host answers before it returns; and the inner loop replaces the tables the outer
one iterates.

*Connections.* A bufferevent is freed once and after its last callback; a
callback finds its own userdata; Lua gets events in a sensible order, with
EV_ERROR before the end unless the program itself closed at once; a lingering
close ends. Hard: user code closes the very buffer whose callback runs, flags
are set after the handler rather than before, and a connect may fail inside the
call that starts it.

*Channels.* A request runs at most once, a caller gets the answer of its own
request or is told that the connection is gone, nobody waits for ever. Hard:
calls in both directions and from inside a request being served, replies out
of order, messages split among reads, the end of the connection at any moment.

*Socket sessions.* What arrives is read, and what is accepted is sent, in order and
each byte once; a separator is found wherever the buffers break; output left
over waits for the socket; a session dies for a reason. Hard: partial reads and
writes in any sequence over lists whose headers come from one free list, and
events that must be added again each time.

*Services.* A callback finds its own userdata while it is needed, and nothing
stays pinned; a reply goes to a request that exists; a socket owns its
descriptor. Hard: five kinds of userdata take and release references of one
registry in different places; a handler may close the listener or the server
whose callback runs; a client may leave before it is answered.

*Skip list.* The list is in order, spans give ranks, both tables agree with it;
a failure half-way costs no other value. Hard: spans are kept by relative
changes, and levels come and go; a comparison is user code and may raise; a
loop keeps a node while its body deletes.

*Redis reader.* Whatever the cuts between feeds, Lua gets the replies of the
stream. Hard: the stack of tasks survives between calls in any state of nested
aggregates, errors free what was half built, objects are used again.

*Word filters.* What is masked depends only on the words added and deleted.
Hard: the scan goes back after a match and not at the end of the text, skips
some code points, and deleted words leave their trees.

*Timers.* A sleeper wakes, once and not before its time; a userdata is never on
the free list twice, nor armed for two; nothing is left when the loop ends.
Hard: a cancelled userdata is used again as the same Lua object, between two
callbacks of one round of the loop.

## 2. Modules

### Scheduler

One state variable per Lua table, and `stack`, the activations of
`event_dispatch` with, for each, where it is (its handler, the loop of
`run_wakeup`, the loop of `run_fork`), the index of the loop, the coroutine it
resumed, and the table it iterates once the global variable no longer holds it
(`live`, `tbl`). `_fork_queue` is a Lua table with holes: `run_fork` sets
entries to nil while it iterates, and `table.insert` may then put a new element
after any border (`Borders`). It sets them in the table the global variable holds
at that time (`_fork_queue[i] = nil`), which is not the table it iterates once an
inner activation has replaced it.

| action | code |
|---|---|
| `EventBegin`, `HandlerEnd` | `event_dispatch` begins; its handler has ended and `run_wakeup` begins |
| `Fork`, `Wakeup`, `GenSession`, `Wait`, `SyncDns` | the calls of user code |
| `Finish`, `Fail` | the forked function returns (the coroutine goes to the pool) or raises |
| `RunWakeup`, `RunWakeupEnd`, `RunFork`, `RunForkEnd` | one turn of each loop, and its end |

`task` and `sess` say what became of a function or session, and `owed` is a
history variable: a wakeup was asked for and is not handled.

Two ways a function or wakeup can get lost were met while modelling. They are
written into the properties as the exceptions, so that everything else is
checked: a function forked *by a forked function* may be put behind the index
of the loop (`ForkKept`, the first half of `ForkExact`, speaks of the others), and a
wakeup asked for while an
outer `run_wakeup` continues with a replaced table goes into a queue that the
outer loop throws away (`Detached` in `Wakeup`). The proof of `ForkExact` brought up a
third: with three activations one inside the other, two loops may be left with the
same replaced table, and both start what is left of it. `ForkOnce`, the other half of
`ForkExact`, is therefore about two activations.

### EvBuffer, Registry, BufferLife

`buf` is a record per levbuffer: the bufferevent's life and reference count,
which callbacks are set, what the socket waits for, whether its read and write
events are pending, units of output, `closed`, and the registry reference.
`stack` holds the callbacks in progress. `Registry` translates `luaL_ref` and
`luaL_unref`, with the free list threaded through the table.

| actions | code |
|---|---|
| `Readable`, `ReadFails`, `Writable`, `WriteFails`, `Connected`, `ConnectFails`, `Accept` | libevent's bufferevent callbacks up to the call into Lua: `read_complete`, `write_complete`, `event_happen`, `connect_complete`, `accept_socket` |
| `Bind`, `Connect`, `ConnectFailsAtOnce`, `Write`, `CloseNow`, `Close` | `_bind`, `_connect`, `_bufferevent_write`, `_bufferevent_close` with 1 and 0 |
| `DataReturns`, `EndReturns`, `ConnectedReturns`, `ConnectedWriteFails`, `FailedReturns`, `OtherReturns` | what the callback does after user code returned, and what libevent does after the callback |

`aborted` is the failure of libevent's assertion on the reference count
(`bufferevent.c:692`); the system stops there. `BufferLife` is the abstract
specification: the events Lua gets for one connection, and in which order.
`EvBuffer` implements it with a connection's life computed from its callbacks
(`Life`).

Bytes and read sizes are left to `Channel`. The watermarks of libevent keep
their defaults, as event.c never sets them.

### Channel, RemoteCall

Two peers, each one thread, and one connection. A message is a record with a
kind, its session, and what the dispatch came to; `wire[p]` is what `p` has
written and the other side has not read. One `Data` step is one EV_DATA: it may
find any number of entire messages and any part of one more. `frame` is
`channel.state`, with "lost" once a message was unpacked from a part of it
(`buff:read(n)` returns what there is, `event.c:335-353`). After the event the
side drains its queues one coroutine at a time (`RunWakeup`, `RunFork`), a
coroutine makes calls (`Call`, `CallRaises`, `Send`), answers (`Reply`,
`ReplyRaises`), waits for something else (`Park`) or closes (`Close`,
`CloseNow`); the buffer is destroyed after the handler of its EV_ERROR has been
drained (`Destroy`).

The main coroutine is one of those that use a channel: the callbacks of timers,
listeners and http servers run in it (`Main`; `Callback` names the sides that
have such callbacks). It cannot wait, but `channel:call` finds this out after it
has written the request (`event.lua:154-156`): `CallInMain` registers the session,
writes, and the call is "unheard", as nobody will take its result.

The queues here are plain sequences. That is what `Scheduler` justifies:
handlers of data and errors fork and wake outside of `run_fork`, and there the
queues lose nothing and keep their order. The order of a connection's events
is that of `BufferLife`.

`RemoteCall` is what a program may rely on: a request runs at most once, only
if it was written, and its caller gets its result after it ran, or is cut off. It
may not rely on an error of `call` to mean that nothing was sent: the request of a
call in the main coroutine runs unheard.

### Timer

`timer`, `free`, `pending` (libevent's heap), `due` (activated in this round and
yet to run), `_timer_ctx` as `ctx`, who sleeps and ticks, and the handle a
program keeps of each of its timers, also after it cancelled it. `Poll` moves any
set of events from the heap to `due`; `FireTick` and `FireSleep` run one.
`Stop` and `Release` are the end of `dispatch`. `young` (armed since the last
poll) and `robbed` (cancelled through an old handle) are history variables.
Intervals are left out, except that those below a microsecond truncate to 0 and
libevent does not reschedule a persistent event of interval 0 (`Zero`).

### SocketSession, ByteQueue

`in` and `out` are sequences of buffers: a header (`node`), the bytes
`data[0..wpos)`, `rpos`. Bytes are numbered in the order they arrive or are
written, so order, loss and duplication show; `Text` gives the letters that
separators are compared with. `free` is the free list. A callback of the session
is always the last thing a function does with it, so the calls user code makes
in it are steps of their own. `_ev_read_cb` makes one step per read: bytes
arrive, and the peer leaves, in between.

| actions | code |
|---|---|
| `StartRead`, `ReadSome`, `ReadBlocks`, `ReadFails` | `_ev_read_cb`: the buffer, a read that returns bytes, EAGAIN, and 0 or an error |
| `WriteCb`, `WriteCbFails` | `_ev_write_cb`, with any number of bytes the socket takes |
| `WriteLater`, `WriteNow`, `WriteFails` | `ev_session_write` with its event pending, or not, and when `socket_write` fails |
| `Read`, `ReadLine` | `ev_session_read`, `ev_session_read_util` with `search_eol` and `check_eol` (`SearchEol`, `CheckEol`) |
| `Bind`, `Free`, `EnableRead`, ..., `Clean` | `ev_session_bind`, `ev_session_free`, `ev_session_enable`, `ev_session_disable`, `loop_ctx_clean` |
| `Arrive`, `PeerGone` | the peer |

`_read` and `write` are taken with the meaning the code's cases of `errno` give
them: bytes, EAGAIN, 0 at the end or for no bytes, an error. Output of a session
that has failed is not accounted for any more. `past` records what the properties except:
a read that filled its buffer, an empty write, a write past waiting output, and
why output waits for no event.

`ByteQueue` is what one direction promises; the input implements it. The output
does so only until a write overtakes what waits, so it has an invariant instead
(`OutputKept`).

### Services

`life` of each userdata, its `ref` in the registry `reg` (module `Registry`, shared
with `EvBuffer`), the descriptor `fd` of each socket and the set `files` of those
that are open, `http` for the evhttp_request behind a request, and `stack`, the
callbacks in progress. Connections appear as far as they take references and
descriptors. `phase` follows `event.dispatch`.

| actions | code |
|---|---|
| `Connect`, `ConnectComplete`, `Bind` | `_connect`, `connect_complete` with what follows its EV_CONNECT, `_bind` |
| `Linger`, `CloseConn`, `Finalize` | `_bufferevent_close` with 0; `_bufferevent_destroy` by a close with 1 or at the end of the callbacks; `bufferevent_finalize_cb_` |
| `CloseGiven` | the program closes a descriptor of its own |
| `Listen`, `Accept`, `AcceptReturns`, `ListenClose` | `_listen`, `listener_read_cb` with `accept_socket`, `_listen_close` |
| `Serve`, `OnHttpdRequest`, `Reply`, `ReplyFreed`, `Sent`, `HttpdClose` | `_httpd`, `on_httpd_request`, `_reply_send` on a request that lives or was freed, `evhttp_send_done`, `_httpd_close` |
| `ClientLeaves`, `ClientSends` | the client goes, or sends more, before the reply |
| `Dns`, `DnsResponse`, `DnsReturns`, `DnsFaults` | `_dns`, `dns_response` before and after the handler, and its end at `evutil_freeaddrinfo(NULL)` |
| `Dispatch`, `LoopEnds`, `DispatchEnds` | `event.dispatch`: the loop, the closing of what is left, the call that raises if a channel is alive |

`stolen` is a history variable: a listener was closed by its own handler and
libevent closed the descriptor it had accepted.

A connection is `connecting` until `connect_complete`: it is pinned, but no channel
stands for it in `_channel_ctx`, so the end of `dispatch` does not meet it; nor does
it meet one that is `lingering`, whose closed flag is set. `_bind` takes a
descriptor that the program opened (`given`) and that is not closed with the
bufferevent. The model assumes of the program that it binds a descriptor to one
connection at a time and keeps it open meanwhile; `FdOwned` rests on this. A connect
that fails in the call that starts it is left to `EvBuffer`.

### SkipList, Ranking

`sl` is the C structure and the two Lua tables as one record: `mem` maps
addresses to nodes (score, `prev`, and `next` and `span` per level). An operation
is one action, since nothing runs in between, but for the Lua comparison that
raises (`InsertRaises`, `UpdateRaises`) and for the loop of `rank_pairs`
(`RankPairs`, `RankIterator`), whose body may do anything to the list. `order`
is the comparison: by score up or down with the address as the last resort, or by
the Lua function of `benchmark.lua`. Heights are chosen freely, addresses too.
A misuse of memory stops the model with `crashed`.

All searches of `skiplist.c` (for insertion, deletion, a rank, a score) are one loop
that goes down the levels and on along each, with different conditions. `Path`
is this loop: the condition is given as the set of places that lie ahead, and
the result is where each level was left, with the rank by the spans passed. `From`
is `SL_NEXT` along the lowest level, `Linked` the nodes after their links were
assigned. `Path` and `From` iterate a function (`Iterate`); no operator is recursive.

`Ranking` says what the list promises: a sequence of values and scores in order,
in which each operation moves its own value only. `SkipList` implements it: the
nodes in order, seen as values and scores (`Entries`), are the ranking, and the values of
nodes that are allocated and not in the list are lost.

### RedisReader, Resp

`stack` is `rstack`, `buf` and `pos` the input, `heap`, `fresh` and `free` the
pooled objects, `got` what Lua was given. The loop of `redisReaderGetReply` is
taken item by item (`ReadType`, `LineItem`, `BulkItem`, `AggregateItem`) until it
runs out of bytes (`NoReplyYet`), fails (`GetReplyFails`) or has a reply (`Emit`,
which is `push_reply` and `free_reply`). `Feed` takes any number of bytes, `Release`
is the collection. Each allocation may fail: `NoStruct`, `NoText`, `FeedFails`.
`ndebug` is the build: `push_reply` works inside assertions.

`Resp` is the reference: items as trees, `Encode` to symbols and `Meaning`, written
without regard to the reader. A text is a symbol, a number one of a few.

### Words, Trie, FilterCore, WordFilters

`Trie` and `FilterCore` are the two filters with their state and the machine that
runs over a text, `WordFilters` a script that uses both. A tree of the trie is
known by the code points that lead to it, so that `tree` is a set of words'
prefixes and `tail` the set of marks. A slot of `FilterCore` keeps the length of its word
in `LengthBits` bits, 8 in the code (`uint8_t`, `lua-filter.c:39`), so long words wrap
(`Kept`); one of length 0 looks at the code point behind the one it ends at, at the
end of the text at whatever the memory holds there (`beyond`). `length_sort` returns 1
or 0 and never says that the left one comes first: `ListAdd` is every order a `qsort`
may make of that, the longest first while a list has no more than `SmallSort` slots (8
in Visual C, which sorts such lists by selection and asks only for what is
greater) and any order of a longer one. `Words` says where words lie in a text and
what should be masked (`Masked`, `Covered`), by quantifiers and not by a scan.

## 3. Runs

| run | instance | distinct states | shows |
|---|---|---|---|
| `scheduler` | 2 coroutines, 3 functions, 2 sessions, queue of 2, 2 nested activations | 524 thousand | `OneHome`, `ForkExact`, `WakeupKept`, `WakeupPrompt`, and `WakeupServed`: a wakeup left over by a forked function is handled by a later event |
| `evbuffer` | 2 buffers, 2 units of output, 2 nested callbacks | 27 thousand | `AbortCause`, `RefOwned`, the refinement `EventOrder`, and `LingerEnds` |
| `evbuffer_refcount` | same | violated | libevent's own assertion `refcnt > 0` fails |
| `evbuffer_close` | same | violated | a close(0) that never completes |
| `channel` | A asks twice, B once, which may be a one-way message or a call in its main coroutine | 1.5 million | `CallerHeld`, `WokenOnce`, `OnePlace`, `InOrder`, the refinement `AtMostOnce` |
| `channel_live` | one call each way, B's perhaps in its main coroutine | 80 thousand | `Answered` |
| `timer` | 2 userdata, 2 sleepers, 2 tickers of which one has interval 0 | 299 thousand | `FreeExact`, `TimerHeld`, `DueOwned`, `AllReleased`, `Woken` |
| `socket_session` | 3 headers, 4 bytes of input in buffers of 2 to 4, 3 of output, input limit 0 or 2, 4 separators | 1.1 million (with symmetry) | `ListsSound`, the refinement `InputQueue`, `OutputKept`, `OutputWaits`, `DeadCause`, `SearchRight` |
| `services` | 2 connections, a listener, a server with 2 requests, a query; 4 userdata, a descriptor of the program, 2 nested callbacks | 2.1 million (with symmetry) | `RefsExact`, `DanglingCause`, `FdOwned` |
| `skiplist` | 3 values, 3 addresses, 2 levels, scores 0 and 1, three orders, loops over ranks 1 to 2 and 2 to 3 | 182 thousand | `ListSound`, `TablesMatch`, `QueriesRight`, `LoopRight`, the refinement `RanksKept` |
| `redis` | every pair of 15 items with 20, cut anywhere, 8 objects, depth 2 | 445 thousand | `RepliesRight`, `PoolSound` |
| `words` | 9 words, up to 4 calls of add, lengths of 2 bits, lists sorted up to 3 slots, all 121 texts of up to 4 code points in each state | 16 thousand | `TrieRight`, `CoreRight` |

Deadlock is checked in the runs of scheduler, connections, channels and socket
sessions and of the skip list. The others may stop: after `_release`, at the end of
the process, when the reader is collected or every byte is read, when the calls of
add are used up.

### Why the bounds are enough

* *Scheduler.* Losing an entry takes a loop in progress, an entry it has handled and
  one that is inserted meanwhile. An insertion ahead of an entry that a loop has
  yet to handle needs a longer queue with holes, which this run does not reach: that
  `ForkExact` holds there is what the theorem `ForkedRuns` shows. A second activation inside the
  first gives all combinations of a live and a replaced table. Two coroutines let
  one wait while the other is pooled and taken again.
* *EvBuffer.* References get confused when one slot is released and taken by
  another object: two buffers. A callback in another one's is the deepest nesting
  in which the inner one can touch the outer one's buffer.
* *Channel.* Two calls of one side give replies out of order, a nested call from
  the other side gives calls inside calls; a third level repeats this. The
  one-way message and the callbacks in the main coroutine are given to the side with
  one request to bound the run; a callback that asks nothing does nothing that
  another coroutine does not.
* *Timer.* A stale handle needs a userdata that is cancelled and used again by a
  stranger: two userdata for up to four owners, so that the list is also found
  empty.
* *SocketSession.* Three headers let both lists hold two buffers, one at a time, with
  the third on the free list or being filled. Four bytes fill a buffer of each
  size and spread a separator of three over two of them, with a false start before
  it; three bytes of output are a part that was sent, one that waits, and one that
  overtakes. A session that was freed is bound again on the same free list. Two
  sessions at once would share only that list.

* *Services.* A reference or a descriptor is confused when a number is released
  and given out again: each kind of userdata appears, two kinds twice, up to four of
  the seven in a behaviour, in any order: a listener, the connection it accepted,
  the one that gets its number, and one more. Each is used once; numbers are what is
  used again. Two callbacks at once let a query that answers at once run inside a
  handler.
* *SkipList.* Two levels make a level appear, vanish and come back; three nodes
  are one before, one inside and one behind an interrupted span. A score of 0 is
  the one the head's cannot be told from, a second score orders the others, and
  ties are broken by the address. The loops begin at the first pair and at a later
  one, and end before the list and with it.
* *RedisReader.* Of two items the first leaves its state to the second. The items
  hold each type on its own and inside an aggregate, nested twice, null, empty and
  malformed; a bulk string holds a line end and a type character. Eight objects are
  as many as two items need at once, so objects are used again. Consumed bytes are
  discarded from 5 on instead of 1024: in the middle of an item as well as after it.
* *WordFilters.* The words are prefixes, suffixes and infixes of one another and
  hold what is skipped, at the start and inside; a text of four code points holds
  two of them, or one broken off. Four calls of add reach the growth of a list
  beyond its first two slots and the same word twice. Lengths of two bits instead of
  eight, and lists that are sorted up to three slots instead of eight, bring what
  happens beyond these limits into reach: a word of four code points, kept with
  length 0, one of five with 1, and lists in every order. The texts are no longer
  than four, so what a word of length 2 after wrapping finds is shown by one of length 1.

The proofs (section 5) remove the bounds for the properties they cover.

### Fairness

* `Scheduler`: the loops of `event_dispatch` are straight code (weak). Events keep
  coming while a listener or a persistent timer is pending (weak). User code
  returns in the end, however often it calls in between (strong on the returns).
  Nothing is assumed about which calls it makes.
* `EvBuffer`: the poll is level-triggered, so a socket that is writable time and
  again is reported (strong on the write event, which also covers its failure).
  A peer that neither reads nor goes away is excluded by this. User code returns.
* `Channel`: data, and the end of a connection the other side has left, are
  reported; a serving coroutine that waits is resumed and answers in the end.
* `Timer`: time passes, so an event in the heap expires and one that was
  activated runs, if this is possible again and again (strong, because the program
  may cancel it in between).

## 4. Findings

1. **A buffer is destroyed twice** (`evbuffer_refcount`, `event.c:603` and `147`).
   When connect(2) fails at once with an error that is neither "in progress" nor
   "refused", libevent calls `connect_complete`, which destroys the buffer, and
   `_connect` destroys it again. Likewise `event_happen` destroys again a buffer that
   its own EV_ERROR handler closed with close(1). `AbortCause` shows that these
   two are the only ways to the failed assertion.
2. **close(0) may never complete** (`evbuffer_close`, `event.c:406`). A connection
   that is closed by the coroutine `event.connect` has just resumed, before anything
   was written, never gets the write callback that `_bufferevent_close` counts on.
   `LingerEnds` shows that a close(0) ends whenever there is output to send, or the
   connection has received something or was accepted or bound. Its exemption is wider
   than the case found: it takes in every connection of `event.connect` that has
   received nothing and has nothing to send, also when it was closed later.

These were met while modelling; each is an outcome in the model named, and the
properties state it as their exception:

3. **A dns answer ends the process** (`event.c:258`, `DnsFaults`): `dns_response`
   hands the end of the list, NULL, to `evutil_freeaddrinfo`, which reads it where
   libevent is built on a getaddrinfo of the system.
4. **Replies that are arrays are lost in a release build** (`lua-redis.c:269`, `Emit`):
   their elements are pushed inside an assertion. In a debug build an array with a
   status, an error, a map or a set aborts.
5. **A failed allocation of a reply** (`lua-redis.c:58`, `NoStruct`) is written to; one
   of its text (`:104`, `NoText`) frees the last text of a recycled object twice.
6. **The word filter of `filter/` forgets its words** (`lua-filter.c:301`, `CoreAdd`):
   what it copies into its set is the end of the word.
   With it go two limits of its slots (among the hazards): the wrapped length of words
   of 256 code points and more, and a comparison that is no order for `qsort`.
7. **Ranks by a Lua comparison** (`skiplist.c:267`, `QueriesRight`): the rank of a value
   of score 0 may be 0.
8. **del_by_rank_range with a Lua comparison** (`skiplist.c:297`, `DelRankRange`)
   ends the process.
9. **score_range of a descending list** (`skiplist.c:309`, `QueriesRight`) is wrong.

Kept among the hazards:
`dispatch` calls `close_immediately` on levbuffers, which have no such method
(`event.lua:358`), so `_event:release()` is not reached with a connection
alive; functions and wakeups may be lost in the two ways named under Scheduler, and
a function may be started twice (`event.lua:211`) when a forked function is resumed in
three nested activations;
a call made in the EV_ERROR handler of its connection, or pending when the
program calls `close_immediately`, waits for ever (`stranded`); a call in the main
coroutine raises after its request was written, which then runs with nobody to hear of
it (`CallInMain`, `event.lua:154`), and its session, like that of a call whose arguments
cannot be encoded, may stay in `session_ctx` (`WokenOnce` allows for this); a message
split inside its head or body puts the connection out of step for good
(`faulty`); an old timer handle cancels a stranger's timer (`robbed`). Of socket
sessions: a partial write of `_ev_write_cb` (`socket_tcp.c:221`) leaves output that waits for
no event and that the next write overtakes, and input that fills the buffer
exactly ends the session (`:134`, a read of no bytes), unless the limit of input stops
the loop before. Of services: a listener closed in the handler of its own
EV_ACCEPT takes the accepted descriptor along (`stolen`), `httpd:close` frees
requests that Lua still holds (`ReplyFreed`), and a client that sends more before
its reply ends the process (`ClientSends`, libevent's `event_errx`). The userdata
that a raised comparison leaves in the tables of a skip list can neither be
deleted nor updated.

## 5. Proofs

All proofs are checked by TLAPS without assumptions other than the named ones
on the constants (`SchedulerAssumption`, `EvBufferAssumption`, `ChannelAssumption`,
`TimerAssumption`, `ServicesAssumption`, `SocketSessionAssumption`, `SkipListAssumption`), which TLC
evaluates in the runs. No recursive operator is used; recursive functions are.

**SchedulerProofs.** `TypeInv` is `TypeOK` with the shape of the frames and of
the tables that loops keep. `CoroutineHasOneHome`: `OneHome` is inductive with
it. `OwedWakeupKept` and `OwedWakeupPrompt` need more: `WakeInv`
says that the index of a live loop over the queue does not pass its end
(`LoopInQueue`), that an owed wakeup excludes a replaced table (`Detached`) and is
ahead of every loop, and that one asked for outside `run_fork` keeps the
outermost activation from being in `run_fork` already. That is the argument why
an event does not end before its wakeups are handled. `ForkedRuns` is `ForkExact`.
Its first half rests on `KeptInv`: a function forked outside `run_fork` is in a queue
without holes, or `Ahead` of some loop, with every index up to its own in the table
of that loop and every other loop over the same table still before it. The second half
rests on `OnceInv`: with two activations only the outer loop can be left with a replaced
table, and what is left of that table and the global one are queued functions, each at
one index and none in both.

**EvBufferProofs.** `Good` relates a buffer to the callbacks of it in progress: the
reference count is one while it has callbacks set and one more while a callback is in
progress or deferred, and it lives as long as the count is positive. `AbortCause` says
nothing about why a count is right, so it needs this; and `Good` needs that a buffer has
at most one callback in progress (`StackInv`), and that user code in a callback can take
the reference of its own buffer only (`RegInv`, from `RegistryProofs`: the registry
holds exactly the userdata of buffers with callbacks). `IInv` holds them until an
assertion has failed. `AbortOnlyTwice`, `CallbacksOwn` and `TypeCorrect` follow, and
`EventsInOrder`: each step of a buffer moves its `Life` as `BufferLife` allows, and no
step moves that of another buffer.

**ChannelProofs.** `CallerHeld` is inductive with `TypeOK` (`HeldKept` for the
side that steps, `OthersStay` for the other). `WokenOnce` and `OnePlace` are only
inductive together: that a reply is new requires that its request ran once, and
that requires that replies and requests are not duplicated. Their conjunction is
split into eight `Parts` per side, each with what can disturb it (`CallsKept`,
`RequestsKept`, `ServingKept`, `QueuesKept`). `ChannelImplements` maps every step
to one of `RemoteCall` or a stutter: `RunFork` to `Begin`, the replies to `End`,
`Call`, `CallRaises`, `CallInMain` and `Send` to `Place`, `RunWakeup` to `Answer` or `Cut`, where `WokenOnce` gives that the answer is what
the other side computed. `RequestsInOrder` is the action property `InOrder`. Its
invariant `Ordered` says for each side that its requests on the wire and those in the
fork queue are sorted, the queue entirely before the wire, that what has begun lies
under both (`Under`), and that sessions have been used from below, so that a new one
is above all of these. A message that is split takes one out of the middle, which
keeps the order.

**TimerProofs.** `TimerInv` adds to the properties that only armed timers are in
the heap (`Place`), that an armed timer's owner waits and has no other (`Owned`),
that who waits has one unless robbed (`Held`), and that the coroutine that runs
does not sleep (`Awake`). Lemmas on `Arm`, `Disarm` and `Stop` say what they do
to the free list; `FreeListExact`, `WaitingTimerHeld`, `DueTimerOwned` and
`TimersReleased` follow.

**RegistryProofs.** `Sound(r)` of a registry: its free list, threaded through the
slots, ends at 0 without meeting a slot twice or one in use. `TakeSound` and
`GiveSound` say that both operations keep it, that a slot given out was free and
not held, and that no other slot changes. The list is described locally: the
successor of a released slot is another released slot or 0, no two have the same
successor, and none is followed by the head. No induction over it is needed.

**ServicesProofs.** `IInv` joins `TypeOK` with four parts. `RefInv`: the registry is
sound and holds exactly the pinned userdata, each at its reference. `DnsFrames`: a
callback of a query is on the stack if and only if the query is being answered, once
(its reference is released when the callback returns, so it must still be its own).
`HttpInv`: a request that was freed while Lua holds it had its server closed.
`SocketInv`: the descriptors of sockets are open and differ, unless `stolen`; those of
the program are open, and none of them is a listener's, so that freeing a listener
leaves them alone. Each
action has a lemma that keeps each part; `RegistryExact`, `DanglesByClose`,
`DescriptorsOwned` and `TypeCorrect` follow for any number of userdata.

**SocketSessionProofs.** The lists hold bytes in buffers, and what they hold is a
recursion over the buffers (`FlattenSeq`, `UsedUp`, `CheckEol`). The induction theorems
of the library take an operator as a parameter, which the provers cannot instantiate;
so facts about all lengths are proved from the least number at which they fail
(`LeastOf`, from `WFMin` and the well-foundedness of the naturals). On them rest
lemmas on what a list holds after a buffer is appended, emptied, or partly read
(`ContentsAppend`, `AfterIs`, `AdvancedIs`). `IInv` joins the properties with three
parts: `Headers`, `NodesApart` pair by pair; `Causes`, that a read has no room only after
it filled its buffer, and that output holds an empty buffer only if one was written;
and `InputSound`, that what was returned, is in the input, in the buffer being read
and on the connection are together the bytes that arrived, in order. One lemma per
action keeps it. `TypeCorrect`, `ListsAreSound`, `OutputIsKept`, `OutputIsWaiting` and
`DeadForCause` follow. `SearchFinds`: `AheadIs` and `OffsetsAre` relate positions in the
list of buffers to positions in the bytes, `MatchExists` and `MatchUnique` give the
recursion of `check_eol` its value, the comparison of the bytes from there on
(`CheckEolIs`), and the first hit in the order of the buffers is the first in the bytes.
`InputIsQueue` is the refinement of `ByteQueue`, from `InputSound`.

**SkipListProofs.** What the properties say of the list is said of `Line(sl)`, which is
computed from the links; to reason about a step they are said of a sequence of nodes
`L` instead. `Listing(s, L)`: from each node of `L` that is high enough for a level, and
from the head, the link of that level leads to the next such node of `L`, and its span
is the difference of the two ranks (`LinkedTo`); back links, tail, size and level fit
`L`. The links of the head on levels the list has not got are part of it, their spans
are not: those keep old values, and that `slInsertNode` does not use them is what the
proof has to show (and what the mutant of `Span` breaks). `Core` adds that
`L` is in order and that the tables mirror one another, and `IInv` that there is such an
`L`, that without a Lua function every node is in it, and that a loop in tune with the list
keeps the node at its place in `L`. `Listing` alone is not inductive, since where a node goes in
is found by comparing; neither is the order, since the comparison by a Lua function
orders equal scores by the values in the table.

The searches: a condition that holds of a beginning of `L` and of no more (`IsCut`) makes
`Path` leave each level at its last node in that beginning, with its rank (`PathEnds`).
The order makes the three comparisons such conditions (`Before`, ranks, scores), apart from
the tie of the head with a score of 0 under a Lua comparison, which is the exception in
`QueriesRight`. From where the levels were left, lemmas on `SlInsertNode` and
`SlDeleteNode` give `Listing` for `L` with one node more (`With`) or less (`Cutout`), level by
level, and others for the tables (`CreatedCore`, `FreedCore`, `ScoredCore`); deleting a range of
ranks is an induction over the nodes deleted. `ListAlwaysSound`, `TablesAlwaysMatch`,
`QueriesAlwaysRight`, `LoopAlwaysRight` and `TypeCorrect` follow from `ListInductive`, the last with a
bound on the size by counting addresses. `RankingRefined`: each operation has a lemma that
names its step of `Ranking` (`InsertPuts`, `UpdateRaisesLoses`, `DelRankRangeRemoves`, ...),
where removing one node from `L` is removing one pair from the ranking.

### Only model-checked

Liveness (`WakeupServed`, `LingerEnds`, `Answered`, `Woken`): out of the
prover's reach, as is `ENABLED` under the fairness they assume. `Resp`, `RedisReader`,
`Words`, `Trie`, `FilterCore` and `WordFilters` compute over trees and texts by
recursive operators, which take the prover its SMT backend, and what they compute
for every text is an induction over data: `RepliesRight`, `PoolSound`, `TrieRight` and
`CoreRight` stay with TLC. Every other property of a run that is expected to pass is a
theorem.

## 6. What is not modelled, and the plan

Abstracted in the modules above: the bytes of messages and their encoding,
intervals of timers, the Lua value stack, memory exhaustion, overflow of session
numbers (they would wrap after 2^63 calls), `read`/`read_line` by subclasses of
channel, and more than one channel over the same two programs (channels share
only the scheduler); in sockets, listeners, connection set-up and the contents of
buffers beyond their letters.

In `Services`, headers and bodies of requests, and connections of http beyond the
request; in `SkipList`, allocation failures and comparisons other than a consistent
one; in `RedisReader`, the widths of integers and lengths and the capacity of the
buffer; in the word filters, the encoding, the growth of tables, and what a `qsort`
other than Visual C's does with a short list under that comparison.

What some properties do not say: `RefsExact` nothing of queries and connects still
pending when `dispatch` releases the event base, beyond that they stay pinned; `RepliesRight` nothing
of what `push_reply` makes of a tree, since `Outcome` stands on both sides (it says that
the tree is the right one); what `past.full` excuses in `SocketSession` it excuses from the
first read that fills its buffer on.

Vendored code is not modelled, but for what event.c relies on: reference
counting and callbacks of bufferevents, the activation of timers, the loop of
listeners, the life of http requests, and `luaL_ref`. It is by far the largest part
of the lines in the repository (libevent, c-ares, curl, lpeg, Lua, cjson), so the
share of all lines that the map covers is small; of the repository's own code
it covers the event framework and the modules named above.

Not modelled of the repository's own code: the resolver and the curl client
(adapters whose states are those of c-ares and curl), the profiler, `serialize` and
`pto` (functions of their input without lasting state), the allocator of `test/`,
the helpers of `socket/`, and the scripts, for which the models take any sequence
of calls.

In this order:

1. The resolver and the curl client as watchers kept in step.
2. `Profiler`, `Allocator`, `PtoInt`: frames per coroutine, size classes, integers
   of small width.
