------------------------------ MODULE Services -------------------------------
(***************************************************************************)
(* What event.c serves besides connections: listeners, http servers and    *)
(* their requests, dns queries; and event.dispatch, which runs the loop    *)
(* and then closes what is left of them. Their userdata share one registry *)
(* with the connections, which appear here as far as that goes: opened,    *)
(* closed, and finalized by libevent later (EvBuffer has their details).   *)
(*                                                                         *)
(* Each userdata is found by libevent's callback through a registry slot,  *)
(* each socket through a descriptor number. Both kinds of number are given *)
(* out again as soon as they are released.                                 *)
(***************************************************************************)
EXTENDS Integers, Sequences, FiniteSets, Registry

CONSTANTS
  Conn, Listener, Httpd, Request, Query,  (* userdata, each used once      *)
  MaxDepth,                               (* callbacks inside one another  *)
  MaxUsed,                                (* userdata in all (a bound)     *)
  Given,                                  (* descriptors of the program's  *)
                                          (* own, for event.bind (a bound) *)
  Nobody                                  (* none of these                 *)

Object == Conn \cup Listener \cup Httpd \cup Request \cup Query

ASSUME ServicesAssumption ==
  /\ MaxDepth \in Nat /\ MaxUsed \in Nat
  /\ Given \subseteq Nat /\ IsFiniteSet(Given)
  /\ Nobody \notin Object
  /\ Object \cap Nat = {}
  /\ Listener \cap Conn = {} /\ Query \cap (Conn \cup Listener) = {}
  /\ Httpd \cap (Conn \cup Listener \cup Query) = {}
  /\ Request \cap (Conn \cup Listener \cup Query \cup Httpd) = {}

VARIABLES
  phase,    (* of the program: before, in and after event.dispatch         *)
  stack,    (* callbacks in progress, innermost last                       *)
  life,     (* of each userdata: "closed" once its closed flag is set      *)
  ref,      (* of each userdata: its registry reference                    *)
  reg,      (* the registry                                                *)
  fd,       (* of each connection and listener: its descriptor             *)
  files,    (* the descriptors that are open                               *)
  given,    (* those of them that the program opened itself                *)
  http,     (* of each request: the evhttp_request, and whose it is        *)
  stolen    (* history: a listener closed the descriptor it had accepted   *)

vars == <<phase, stack, life, ref, reg, fd, files, given, http, stolen>>
places == <<reg, ref, life>>
sockets == <<fd, files, given, stolen>>

Polling == phase = "loop" /\ stack = <<>>
UserCode == phase = "script" \/ (phase = "loop" /\ stack # <<>>)

Push(k, o, c) == Append(stack, [kind |-> k, by |-> o, conn |-> c])
Pop == SubSeq(stack, 1, Len(stack) - 1)
Returns(k, o, c) == stack # <<>> /\ stack[Len(stack)] = [kind |-> k, by |-> o, conn |-> c]
Handling(l) == \E i \in DOMAIN stack : stack[i].kind = "accept" /\ stack[i].by = l

(* A userdata is created and pinned; or its reference is released.         *)
Pin(o, as) ==
  /\ life[o] = "unused"
  /\ Cardinality({p \in Object : life[p] # "unused"}) < MaxUsed
  /\ life' = [life EXCEPT ![o] = as]
  /\ ref' = [ref EXCEPT ![o] = NextRef(reg)]
  /\ reg' = Take(reg, o)

Unpin(o, as) ==
  /\ life' = [life EXCEPT ![o] = as]
  /\ reg' = Give(reg, ref[o])
  /\ UNCHANGED ref

(* The descriptor the system gives a new socket: one that is not open. The *)
(* number of one that has just been closed is given again.                 *)
NextFile == CHOOSE n \in 1 .. Cardinality(files) + 1 : n \notin files
OpenFile(o) ==
  /\ fd' = [fd EXCEPT ![o] = NextFile]
  /\ files' = files \cup {NextFile}
  /\ UNCHANGED <<given, stolen>>

Init ==
  /\ phase = "script" /\ stack = <<>>
  /\ life = [o \in Object |-> "unused"]
  /\ ref = [o \in Object |-> 0]
  /\ reg = EmptyRegistry
  /\ fd = [o \in Conn \cup Listener |-> 0]
  /\ files = Given /\ given = Given
  /\ http = [r \in Request |-> [state |-> "none", by |-> Nobody]]
  /\ stolen = FALSE

-----------------------------------------------------------------------------
(* Connections.                                                            *)

(* Sockets in use: of connections not finalized, of listeners not freed.   *)
Socket ==
  {o \in Conn \cup Listener : life[o] \in {"connecting", "open", "lingering", "closed"}}

(* _connect: libevent opens the socket, which goes with the bufferevent.   *)
Connect(c) ==
  /\ UserCode
  /\ Pin(c, "connecting") /\ OpenFile(c)
  /\ UNCHANGED <<phase, stack, http>>

(* connect_complete, with the handler of EV_CONNECT: the coroutine that    *)
(* asked is given a channel, or the connection is destroyed first.         *)
ConnectComplete(c) ==
  /\ Polling
  /\ life[c] = "connecting"
  /\ \/ life' = [life EXCEPT ![c] = "open"] /\ UNCHANGED <<ref, reg>>
     \/ Unpin(c, "closed")
  /\ stack' = Push("other", Nobody, Nobody)
  /\ UNCHANGED <<phase, http>> /\ UNCHANGED sockets

(* _bind: a descriptor that the program has open and that no other         *)
(* bufferevent uses (the program's part). It stays the program's.          *)
Bind(c) ==
  /\ UserCode
  /\ Pin(c, "open")
  /\ \E n \in given \ {fd[o] : o \in Socket} : fd' = [fd EXCEPT ![c] = n]
  /\ UNCHANGED <<phase, stack, http, files, given, stolen>>

(* The program closes a descriptor of its own that no bufferevent uses.    *)
CloseGiven(n) ==
  /\ UserCode
  /\ n \in given \ {fd[o] : o \in Socket}
  /\ given' = given \ {n} /\ files' = files \ {n}
  /\ UNCHANGED <<phase, stack, http, fd, stolen>> /\ UNCHANGED places

(* _bufferevent_close(0): closed, but held until what it wrote has gone.   *)
Linger(c) ==
  /\ UserCode
  /\ life[c] = "open"
  /\ life' = [life EXCEPT ![c] = "lingering"]
  /\ UNCHANGED <<phase, stack, ref, reg, http>> /\ UNCHANGED sockets

(* _bufferevent_destroy, by _bufferevent_close(1) or, after EV_ERROR, by   *)
(* event_happen or write_complete: the reference goes at once, the         *)
(* bufferevent keeps its descriptor until it is finalized.                 *)
CloseConn(c) ==
  /\ \/ UserCode /\ life[c] = "open"
     \/ Polling /\ life[c] \in {"open", "lingering"}
  /\ Unpin(c, "closed")
  /\ UNCHANGED <<phase, stack, http>> /\ UNCHANGED sockets

(* bufferevent_finalize_cb_, from the loop: be_socket_destruct, which      *)
(* leaves the descriptor of a bound connection alone.                      *)
Finalize(c) ==
  /\ Polling
  /\ life[c] = "closed"
  /\ life' = [life EXCEPT ![c] = "gone"]
  /\ files' = files \ ({fd[c]} \ given)
  /\ UNCHANGED <<phase, stack, ref, reg, fd, given, http, stolen>>

-----------------------------------------------------------------------------
(* Listeners.                                                              *)
Listen(l) ==
  /\ UserCode
  /\ Pin(l, "open") /\ OpenFile(l)
  /\ UNCHANGED <<phase, stack, http>>

(* listener_read_cb and accept_socket.                                     *)
Accept(l, c) ==
  /\ Polling
  /\ life[l] = "open"
  /\ Pin(c, "open") /\ OpenFile(c)
  /\ stack' = Push("accept", l, c)
  /\ UNCHANGED <<phase, http>>

(* Mutant: listener_read_cb takes its own reference for the last one.      *)
AcceptReturnsLast(l, c) ==
  /\ Returns("accept", l, c)
  /\ stack' = Pop
  /\ files' = files \ {fd[c]}
  /\ UNCHANGED <<phase, life, ref, reg, fd, given, http, stolen>>

(* The rest of listener_read_cb. If the handler has closed the listener,   *)
(* the last reference goes here: the listener's socket is closed, and the  *)
(* accepted one too, although its bufferevent has it.                      *)
AcceptReturns(l, c) ==
  /\ Returns("accept", l, c)
  /\ stack' = Pop
  /\ IF life[l] = "closed"
       THEN files' = files \ {fd[l], fd[c]} /\ stolen' = TRUE
       ELSE UNCHANGED <<files, stolen>>
  /\ life' = [life EXCEPT ![l] = IF @ = "closed" THEN "gone" ELSE @]
  /\ UNCHANGED <<phase, ref, reg, fd, given, http>>

(* _listen_close; evconnlistener_free closes the socket with the last      *)
(* reference, of which listener_read_cb holds one.                         *)
ListenClose(l) ==
  /\ UserCode \/ phase = "closing"
  /\ life[l] = "open"
  /\ IF Handling(l)
       THEN Unpin(l, "closed") /\ UNCHANGED files
       ELSE Unpin(l, "gone") /\ files' = files \ {fd[l]}
  /\ UNCHANGED <<phase, stack, fd, given, http, stolen>>

-----------------------------------------------------------------------------
(* Http servers. A request belongs to libevent; Lua has a userdata that    *)
(* points to it until it has replied.                                      *)
Serve(h) ==
  /\ UserCode
  /\ Pin(h, "open")
  /\ UNCHANGED <<phase, stack, http>> /\ UNCHANGED sockets

(* on_httpd_request.                                                       *)
OnHttpdRequest(h, r) ==
  /\ Polling
  /\ life[h] = "open"
  /\ Pin(r, "open")
  /\ http' = [http EXCEPT ![r] = [state |-> "held", by |-> h]]
  /\ stack' = Push("http", h, Nobody)
  /\ UNCHANGED <<phase>> /\ UNCHANGED sockets

(* The client goes before the reply: evhttp_connection_incoming_fail takes *)
(* the request off its connection, the reply has to free it.               *)
ClientLeaves(r) ==
  /\ Polling
  /\ http[r].state = "held"
  /\ http' = [http EXCEPT ![r].state = "detached"]
  /\ UNCHANGED <<phase, stack>> /\ UNCHANGED places /\ UNCHANGED sockets

(* The client sends before the reply: evhttp_read_cb finds EVCON_WRITING,  *)
(* and event_errx ends the process.                                        *)
ClientSends(r) ==
  /\ Polling
  /\ http[r].state = "held"
  /\ phase' = "exited"
  /\ UNCHANGED <<stack, http>> /\ UNCHANGED places /\ UNCHANGED sockets

(* Mutant: the userdata is not marked.                                     *)
ReplyTwice(r) ==
  /\ UserCode \/ phase = "released"
  /\ life[r] = "open" /\ http[r].state \in {"held", "detached"}
  /\ http' = [http EXCEPT ![r].state = IF @ = "held" THEN "sending" ELSE "freed"]
  /\ reg' = Give(reg, ref[r])
  /\ UNCHANGED <<phase, stack, ref, life>> /\ UNCHANGED sockets

(* _reply_send, evhttp_send.                                               *)
Reply(r) ==
  /\ UserCode \/ phase = "released"
  /\ life[r] = "open" /\ http[r].state \in {"held", "detached"}
  /\ Unpin(r, "closed")
  /\ http' = [http EXCEPT ![r].state = IF @ = "held" THEN "sending" ELSE "freed"]
  /\ UNCHANGED <<phase, stack>> /\ UNCHANGED sockets

(* _reply_send or _reply_set_header of a request that libevent has freed:  *)
(* undefined; here the process is gone, or it goes on as if answered.      *)
ReplyFreed(r) ==
  /\ UserCode \/ phase = "released"
  /\ life[r] = "open" /\ http[r].state = "freed"
  /\ Unpin(r, "closed")
  /\ phase' \in {phase, "crashed"}
  /\ UNCHANGED <<stack, http>> /\ UNCHANGED sockets

(* evhttp_send_done, or a failure while sending: the request is freed.     *)
Sent(r) ==
  /\ Polling
  /\ http[r].state = "sending"
  /\ http' = [http EXCEPT ![r].state = "freed"]
  /\ UNCHANGED <<phase, stack>> /\ UNCHANGED places /\ UNCHANGED sockets

(* evhttp_free: the connections go, and the requests on them.              *)
FreedWith(h) ==
  [r \in Request |->
     IF http[r].by = h /\ http[r].state \in {"held", "sending"}
       THEN [http[r] EXCEPT !.state = "freed"] ELSE http[r]]

(* _httpd_close; dispatch comes to it when the listeners are closed.       *)
HttpdClose(h) ==
  /\ \/ UserCode
     \/ phase = "closing" /\ \A l \in Listener : life[l] # "open"
  /\ life[h] = "open"
  /\ Unpin(h, "closed")
  /\ http' = FreedWith(h)
  /\ UNCHANGED <<phase, stack>> /\ UNCHANGED sockets

-----------------------------------------------------------------------------
(* Dns queries.                                                            *)

(* _dns of a name: the query is sent. Of an address: dns_response runs     *)
(* before _dns returns.                                                    *)
Dns(q) ==
  /\ UserCode
  /\ \/ Pin(q, "open") /\ UNCHANGED stack
     \/ Len(stack) < MaxDepth /\ Pin(q, "answering") /\ stack' = Push("dns", q, Nobody)
  /\ UNCHANGED <<phase, http>> /\ UNCHANGED sockets

(* dns_response: an answer, a failure or a timeout of the query.           *)
DnsResponse(q) ==
  /\ Polling
  /\ life[q] = "open"
  /\ life' = [life EXCEPT ![q] = "answering"]
  /\ stack' = Push("dns", q, Nobody)
  /\ UNCHANGED <<phase, ref, reg, http>> /\ UNCHANGED sockets

(* Mutant: the reference is kept.                                          *)
DnsReturnsHolding(q) ==
  /\ Returns("dns", q, Nobody)
  /\ stack' = Pop
  /\ life' = [life EXCEPT ![q] = "closed"]
  /\ UNCHANGED <<phase, ref, reg, http>> /\ UNCHANGED sockets

DnsReturns(q) ==
  /\ Returns("dns", q, Nobody)
  /\ stack' = Pop
  /\ Unpin(q, "closed")
  /\ UNCHANGED <<phase, http>> /\ UNCHANGED sockets

(* An answer with addresses: dns_response has moved ai to the end of their *)
(* list when it hands it to evutil_freeaddrinfo, which looks at it where   *)
(* libevent is built on a getaddrinfo of the system: that ends the process *)
(* before the handler runs. (Elsewhere the list is never freed.)           *)
DnsFaults(q) ==
  /\ \/ Polling /\ life[q] = "open"
     \/ UserCode /\ life[q] = "unused"
  /\ phase' = "exited"
  /\ UNCHANGED <<stack, http>> /\ UNCHANGED places /\ UNCHANGED sockets

-----------------------------------------------------------------------------
(* The loop. Any other callback: a timer, data.                            *)
OtherEvent ==
  /\ Polling
  /\ stack' = Push("other", Nobody, Nobody)
  /\ UNCHANGED <<phase, http>> /\ UNCHANGED places /\ UNCHANGED sockets

Returned ==
  /\ \/ Returns("other", Nobody, Nobody)
     \/ \E h \in Httpd : Returns("http", h, Nobody)
  /\ stack' = Pop
  /\ UNCHANGED <<phase, http>> /\ UNCHANGED places /\ UNCHANGED sockets

(* event.dispatch; again, if the program catches what the last one raised. *)
Dispatch ==
  /\ phase = "script" /\ stack = <<>>
  /\ phase' = "loop"
  /\ UNCHANGED <<stack, http>> /\ UNCHANGED places /\ UNCHANGED sockets

(* event_base_dispatch returns, because nothing is left to wait for or a   *)
(* callback has called event.breakout.                                     *)
LoopEnds ==
  /\ Polling
  /\ phase' = "closing"
  /\ UNCHANGED <<stack, http>> /\ UNCHANGED places /\ UNCHANGED sockets

(* The end of dispatch, once it has closed the listeners and the http      *)
(* servers. With a channel alive, close_immediately raises; a connection   *)
(* that is not connected yet has no channel and is not looked at.          *)
DispatchEnds ==
  /\ phase = "closing"
  /\ \A o \in Listener \cup Httpd : life[o] # "open"
  /\ phase' = IF \E c \in Conn : life[c] = "open" THEN "script" ELSE "released"
  /\ UNCHANGED <<stack, http>> /\ UNCHANGED places /\ UNCHANGED sockets

Next ==
  \/ OtherEvent \/ Returned \/ Dispatch \/ LoopEnds \/ DispatchEnds
  \/ \E c \in Conn :
       Connect(c) \/ ConnectComplete(c) \/ Bind(c) \/ Linger(c) \/ CloseConn(c) \/ Finalize(c)
  \/ \E n \in Given : CloseGiven(n)
  \/ \E l \in Listener :
       Listen(l) \/ ListenClose(l) \/ \E c \in Conn : Accept(l, c) \/ AcceptReturns(l, c)
  \/ \E h \in Httpd : Serve(h) \/ HttpdClose(h) \/ \E r \in Request : OnHttpdRequest(h, r)
  \/ \E r \in Request :
       ClientLeaves(r) \/ ClientSends(r) \/ Reply(r) \/ ReplyFreed(r) \/ Sent(r)
  \/ \E q \in Query : Dns(q) \/ DnsResponse(q) \/ DnsReturns(q) \/ DnsFaults(q)

Spec == Init /\ [][Next]_vars
-----------------------------------------------------------------------------
(* The values of the variables.                                            *)
TypeOK ==
  /\ phase \in {"script", "loop", "closing", "released", "exited", "crashed"}
  /\ stack \in Seq([kind : {"accept", "http", "dns", "other"},
                    by : Object \cup {Nobody}, conn : Conn \cup {Nobody}])
  /\ life \in [Object -> {"unused", "connecting", "open", "answering", "lingering",
                         "closed", "gone"}]
  /\ ref \in [Object -> Nat]
  /\ reg \in [slot : Seq(Object \cup Nat), free : Nat]
  /\ fd \in [Conn \cup Listener -> Nat]
  /\ files \subseteq Nat /\ IsFiniteSet(files) /\ given \subseteq Given
  /\ http \in [Request -> [state : {"none", "held", "detached", "sending", "freed"},
                           by : Httpd \cup {Nobody}]]
  /\ stolen \in BOOLEAN

(* The userdata that libevent, or a client waiting for its reply, needs.   *)
Pinned(o) == life[o] \in {"connecting", "open", "answering", "lingering"}

(* The registry holds each userdata that is still needed at its own        *)
(* reference, and nothing else: every callback finds the userdata it is    *)
(* about (event.c:572 and the like), none is pinned for ever, whatever the *)
(* order in which the five kinds of userdata are opened and released.      *)
RefsExact ==
  \A o \in Object :
    {i \in DOMAIN reg.slot : reg.slot[i] = o} = IF Pinned(o) THEN {ref[o]} ELSE {}

(* A request that Lua may still answer is freed by libevent only with its  *)
(* http server, closed while the request was waiting (the reply then goes  *)
(* to freed memory); a client that leaves early never frees it.            *)
DanglingCause ==
  /\ \A r \in Request :
       (life[r] = "open" /\ http[r].state = "freed") => life[http[r].by] = "closed"
  /\ phase = "crashed" => \E h \in Httpd : life[h] = "closed"

(* Each socket has an open descriptor of its own, unless a handler of      *)
(* EV_ACCEPT has closed its listener: libevent then closes the descriptor  *)
(* of the accepted connection under its bufferevent, and the number may be *)
(* given to another. (A descriptor of the program's own is bound to one    *)
(* connection at a time and stays open meanwhile: see Bind.)               *)
FdOwned ==
  ~stolen => \A o \in Socket : fd[o] \in files /\ \A p \in Socket \ {o} : fd[p] # fd[o]
=============================================================================
