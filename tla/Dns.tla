-------------------------------- MODULE Dns --------------------------------
(***************************************************************************)
(* The resolver of src/src/dns.c.  A request names a host; it is answered   *)
(* from the cache at once, or it joins the queue: on the channel that       *)
(* already looks its host up, on a free channel (a thread then runs         *)
(* getaddrinfo), or waiting for a channel.  A timeout polls each busy       *)
(* channel; when the thread has published its result, the main thread       *)
(* caches it, answers the queue entries of the channel, frees the channel   *)
(* and hands the free channels to the waiting entries, oldest host first.   *)
(*                                                                         *)
(* The threads and the main thread share dns_server[] with no lock, so     *)
(* each store of the thread is a step of its own.  The handlers of the main *)
(* thread are split at the callbacks they make, since a callback may run a  *)
(* nested event loop (Http_send_connect_request calls a_UIcmd_wait):        *)
(* NestedLoop allows that, and frames is then a stack of handlers.          *)
(***************************************************************************)
EXTENDS Integers, Sequences, TLC

CONSTANTS Hosts,        \* host names
          Requests,     \* the (cb_func, cb_data) pairs, each given to one call
          NumServers,   \* D_DNS_MAX_SERVERS: 4 with threads, 1 without
          Threaded,     \* D_DNS_THREADED
          NestedLoop,   \* callbacks may run the event loop
          WeakMemory,   \* the two stores that publish a result may be seen swapped
          None          \* the NULL pointer

ASSUME NumServersAssumption == NumServers \in Nat \ {0}
ASSUME NoneAssumption == None \notin Hosts
ASSUME FlagsAssumption ==
    Threaded \in BOOLEAN /\ NestedLoop \in BOOLEAN /\ WeakMemory \in BOOLEAN

Channels == 0 .. NumServers - 1

\* GDnsQueue.channel of an entry that has no channel yet.
Waiting == -2

VARIABLES in_use,     \* dns_server[].in_use
          ip_ready,   \* dns_server[].ip_ready, stored by both sides
          addr_list,  \* dns_server[].addr_list, named by the host it resolves
          hostname,   \* dns_server[].hostname
          queue,      \* dns_queue
          cache,      \* dns_cache
          timers,     \* pending Dns_timeout_client timeouts of each channel
          thread,     \* where the lookup thread of each channel is
          found,      \* the local "hosts" of that thread
          frames,     \* active Dns_timeout_client handlers, the innermost last
          asked,      \* the host each request has asked for, or None
          answers     \* the answers each request has had: an address list or None

server == <<in_use, ip_ready, addr_list, hostname>>
lookup == <<thread, found>>
vars == <<in_use, ip_ready, addr_list, hostname, queue, cache, timers, thread,
          found, frames, asked, answers>>

Init ==
    /\ in_use = [ch \in Channels |-> FALSE]
    /\ ip_ready = [ch \in Channels |-> FALSE]
    /\ addr_list = [ch \in Channels |-> None]
    /\ hostname = [ch \in Channels |-> None]
    /\ queue = <<>>
    /\ cache = <<>>
    /\ timers = [ch \in Channels |-> 0]
    /\ thread = [ch \in Channels |-> "none"]
    /\ found = [ch \in Channels |-> None]
    /\ frames = <<>>
    /\ asked = [r \in Requests |-> None]
    /\ answers = [r \in Requests |-> <<>>]

----------------------------------------------------------------------------
(* The queue and the cache. *)

Entry(ch, h, r) == [channel |-> ch, host |-> h, req |-> r]

\* Dns_queue_remove: the entries after index move down by one; an index past
\* the end changes nothing.
QueueRemove(q, index) ==
    IF index <= Len(q)
    THEN [i \in 1 .. Len(q) - 1 |-> IF i < index THEN q[i] ELSE q[i + 1]]
    ELSE q

\* Dns_queue_find: the first entry of a host.
FirstOf(q, h, i) == /\ i \in DOMAIN q
                    /\ q[i].host = h
                    /\ \A j \in 1 .. i - 1 : q[j].host # h
\* Seeded bug: the queue is not searched.
Mut_QueueFound(q, h) == FALSE
QueueFound(q, h) == \E i \in DOMAIN q : q[i].host = h
QueueFind(q, h) == CHOOSE i \in DOMAIN q : FirstOf(q, h, i)

Cached(h) == \E i \in DOMAIN cache : cache[i].host = h
CachedAddr(h) == cache[CHOOSE i \in DOMAIN cache : FirstOf(cache, h, i)].addr

\* The first entry at or after index from that is on channel ch.
NextOn(q, ch, from, i) == /\ i \in from .. Len(q)
                          /\ q[i].channel = ch
                          /\ \A j \in from .. i - 1 : q[j].channel # ch
NoneOn(q, ch, from) == \A i \in from .. Len(q) : q[i].channel # ch

----------------------------------------------------------------------------
(* The main thread. *)

\* Without threads a lookup runs inside the handler that starts it.
LookupBlocks == ~Threaded /\ \E ch \in Channels : thread[ch] # "none"

\* The event loop runs: no handler is active, or the active one is inside a
\* callback that runs the loop itself, which only a successful answer leads to.
EventLoop ==
    /\ ~LookupBlocks
    /\ frames # <<>> =>
         /\ NestedLoop
         /\ frames[Len(frames)].pc = "callback"
         /\ addr_list[frames[Len(frames)].ch] # None

\* Seeded bug: the first channel is taken without looking at in_use.
Mut_FreeChannel(ch) == ch = 0
\* A free channel, the one of the smallest index.
FreeChannel(ch) == ~in_use[ch] /\ \A c \in 0 .. ch - 1 : in_use[c]

\* Dns_server_req.  A thread that pthread_create fails to start (the code
\* ignores its result) is one that never takes its steps.
ServerReq(ch, h) ==
    /\ in_use' = [in_use EXCEPT ![ch] = TRUE]
    /\ ip_ready' = [ip_ready EXCEPT ![ch] = FALSE]
    /\ hostname' = [hostname EXCEPT ![ch] = h]
    /\ timers' = [timers EXCEPT ![ch] = @ + 1]
    /\ thread' = [thread EXCEPT ![ch] = "lookup"]
    /\ UNCHANGED <<addr_list, found>>

\* a_Dns_resolve, its four outcomes.
AnswerFromCache(r, h) ==
    /\ Cached(h)
    /\ answers' = [answers EXCEPT ![r] = Append(@, CachedAddr(h))]
    /\ UNCHANGED <<queue, server, lookup, timers>>

JoinQueue(r, h) ==
    /\ ~Cached(h) /\ QueueFound(queue, h)
    /\ queue' = Append(queue, Entry(queue[QueueFind(queue, h)].channel, h, r))
    /\ UNCHANGED <<answers, server, lookup, timers>>

StartLookup(r, h, ch) ==
    /\ ~Cached(h) /\ ~QueueFound(queue, h)
    /\ FreeChannel(ch)
    /\ queue' = Append(queue, Entry(ch, h, r))
    /\ ServerReq(ch, h)
    /\ UNCHANGED answers

WaitForChannel(r, h) ==
    /\ ~Cached(h) /\ ~QueueFound(queue, h)
    /\ \A ch \in Channels : in_use[ch]
    /\ queue' = Append(queue, Entry(Waiting, h, r))
    /\ UNCHANGED <<answers, server, lookup, timers>>

a_Dns_resolve(r, h) ==
    /\ EventLoop
    /\ asked[r] = None
    /\ asked' = [asked EXCEPT ![r] = h]
    /\ \/ AnswerFromCache(r, h)
       \/ JoinQueue(r, h)
       \/ \E ch \in Channels : StartLookup(r, h, ch)
       \/ WaitForChannel(r, h)
    /\ UNCHANGED <<cache, frames>>

\* Seeded bug: a failed lookup is cached too.
Mut_CacheFailure(ch) ==
    /\ EventLoop
    /\ timers[ch] > 0 /\ ip_ready[ch]
    /\ timers' = [timers EXCEPT ![ch] = @ - 1]
    /\ cache' = Append(cache, [host |-> hostname[ch], addr |-> addr_list[ch]])
    /\ frames' = Append(frames, [ch |-> ch, pc |-> "scan", i |-> 1])
    /\ UNCHANGED <<queue, server, lookup, asked, answers>>

\* Seeded bug: the timeout is repeated even when the lookup is done.
Mut_AlwaysRepeat(ch) ==
    /\ EventLoop
    /\ timers[ch] > 0 /\ ip_ready[ch]
    /\ cache' = IF addr_list[ch] # None
                THEN Append(cache, [host |-> hostname[ch], addr |-> addr_list[ch]])
                ELSE cache
    /\ frames' = Append(frames, [ch |-> ch, pc |-> "scan", i |-> 1])
    /\ UNCHANGED <<timers, queue, server, lookup, asked, answers>>

\* Dns_timeout_client on a channel whose lookup is done.  (While it is not, the
\* handler re-arms its timeout and changes nothing.)
Dns_timeout_client(ch) ==
    /\ EventLoop
    /\ timers[ch] > 0 /\ ip_ready[ch]
    /\ timers' = [timers EXCEPT ![ch] = @ - 1]
    /\ cache' = IF addr_list[ch] # None
                THEN Append(cache, [host |-> hostname[ch], addr |-> addr_list[ch]])
                ELSE cache
    /\ frames' = Append(frames, [ch |-> ch, pc |-> "scan", i |-> 1])
    /\ UNCHANGED <<queue, server, lookup, asked, answers>>

\* The rest of the handler, by the innermost frame.
Top == frames[Len(frames)]
SetTop(f) == frames' = [frames EXCEPT ![Len(frames)] = f]
InHandler(pc) == ~LookupBlocks /\ frames # <<>> /\ Top.pc = pc

\* Dns_serve_channel: the next entry on the channel has its callback called.
AnswerEntry ==
    /\ InHandler("scan")
    /\ \E i \in DOMAIN queue :
        /\ NextOn(queue, Top.ch, Top.i, i)
        /\ answers' = [answers EXCEPT ![queue[i].req] = Append(@, addr_list[Top.ch])]
        /\ SetTop([Top EXCEPT !.pc = "callback", !.i = i])
    /\ UNCHANGED <<queue, server, lookup, timers, cache, asked>>

\* The callback returns: what is now at that index leaves the queue, and the
\* scan goes on from the same index (--i, then i++).
CallbackReturns ==
    /\ InHandler("callback")
    /\ queue' = QueueRemove(queue, Top.i)
    /\ SetTop([Top EXCEPT !.pc = "scan"])
    /\ UNCHANGED <<server, lookup, timers, cache, asked, answers>>

\* No entry is left: the channel is free, and Dns_assign_channels starts.
FreeTheChannel ==
    /\ InHandler("scan")
    /\ NoneOn(queue, Top.ch, Top.i)
    /\ in_use' = [in_use EXCEPT ![Top.ch] = FALSE]
    /\ SetTop([Top EXCEPT !.pc = "assign", !.i = 0])
    /\ UNCHANGED <<ip_ready, addr_list, hostname, queue, lookup, timers, cache,
                   asked, answers>>

\* The oldest waiting entry ("we're a FIFO").  Seeded bug: the newest.
Mut_NextWaiting(i) == /\ i \in DOMAIN queue
                      /\ queue[i].channel = Waiting
                      /\ NoneOn(queue, Waiting, i + 1)
NextWaiting(i) == NextOn(queue, Waiting, 1, i)

\* The channel goes to entry i and to every later entry that waits for its host.
Assigned(q, i, ch) ==
    [j \in DOMAIN q |->
        IF j >= i /\ q[j].channel = Waiting /\ q[j].host = q[i].host
        THEN [q[j] EXCEPT !.channel = ch]
        ELSE q[j]]

\* Dns_assign_channels at its loop index: a free channel takes the oldest
\* waiting host and every entry that waits for it.
AssignChannel ==
    /\ InHandler("assign")
    /\ Top.i < NumServers
    /\ ~in_use[Top.i]
    /\ \E i \in DOMAIN queue :
        /\ NextWaiting(i)
        /\ queue' = Assigned(queue, i, Top.i)
        /\ ServerReq(Top.i, queue[i].host)
    /\ SetTop([Top EXCEPT !.i = @ + 1])
    /\ UNCHANGED <<cache, asked, answers>>

SkipBusyChannel ==
    /\ InHandler("assign")
    /\ Top.i < NumServers
    /\ in_use[Top.i]
    /\ SetTop([Top EXCEPT !.i = @ + 1])
    /\ UNCHANGED <<queue, server, lookup, timers, cache, asked, answers>>

\* Seeded bug: nobody is given the channel that was freed.
Mut_HandlerReturns ==
    /\ InHandler("assign")
    /\ frames' = SubSeq(frames, 1, Len(frames) - 1)
    /\ UNCHANGED <<queue, server, lookup, timers, cache, asked, answers>>

\* The loop ends, or returns early since nobody waits.
HandlerReturns ==
    /\ InHandler("assign")
    /\ Top.i < NumServers => ~in_use[Top.i] /\ NoneOn(queue, Waiting, 1)
    /\ frames' = SubSeq(frames, 1, Len(frames) - 1)
    /\ UNCHANGED <<queue, server, lookup, timers, cache, asked, answers>>

ServeStep ==
    \/ AnswerEntry
    \/ CallbackReturns
    \/ FreeTheChannel
    \/ AssignChannel
    \/ SkipBusyChannel
    \/ HandlerReturns

----------------------------------------------------------------------------
(* The lookup thread of a channel: Dns_server. *)

\* getaddrinfo finds addresses, or none (an error, or no usable family).
Lookup(ch) ==
    /\ thread[ch] = "lookup"
    /\ \E a \in {hostname[ch], None} : found' = [found EXCEPT ![ch] = a]
    /\ thread' = [thread EXCEPT ![ch] = "store"]
    /\ UNCHANGED <<server, queue, cache, timers, frames, asked, answers>>

StoreAddr(ch) ==
    /\ thread[ch] = "store"
    /\ addr_list' = [addr_list EXCEPT ![ch] = found[ch]]
    /\ thread' = [thread EXCEPT ![ch] = "publish"]
    /\ UNCHANGED <<in_use, ip_ready, hostname, found, queue, cache, timers,
                   frames, asked, answers>>

Publish(ch) ==
    /\ thread[ch] = "publish"
    /\ ip_ready' = [ip_ready EXCEPT ![ch] = TRUE]
    /\ thread' = [thread EXCEPT ![ch] = "none"]
    /\ UNCHANGED <<in_use, addr_list, hostname, found, queue, cache, timers,
                   frames, asked, answers>>

\* Neither store is atomic or ordered: a weakly ordered machine, or a compiler,
\* may make ip_ready visible before addr_list.
PublishEarly(ch) ==
    /\ WeakMemory
    /\ thread[ch] = "store"
    /\ ip_ready' = [ip_ready EXCEPT ![ch] = TRUE]
    /\ thread' = [thread EXCEPT ![ch] = "late store"]
    /\ UNCHANGED <<in_use, addr_list, hostname, found, queue, cache, timers,
                   frames, asked, answers>>

LateStoreAddr(ch) ==
    /\ thread[ch] = "late store"
    /\ addr_list' = [addr_list EXCEPT ![ch] = found[ch]]
    /\ thread' = [thread EXCEPT ![ch] = "none"]
    /\ UNCHANGED <<in_use, ip_ready, hostname, found, queue, cache, timers,
                   frames, asked, answers>>

Dns_server(ch) ==
    \/ Lookup(ch)
    \/ StoreAddr(ch)
    \/ Publish(ch)
    \/ PublishEarly(ch)
    \/ LateStoreAddr(ch)

----------------------------------------------------------------------------
Next ==
    \/ \E r \in Requests, h \in Hosts : a_Dns_resolve(r, h)
    \/ \E ch \in Channels : Dns_timeout_client(ch)
    \/ ServeStep
    \/ \E ch \in Channels : Dns_server(ch)

\* A thread that was created runs to its end, the event loop keeps firing
\* timeouts, and a handler runs to its end.
Fairness ==
    /\ \A ch \in Channels : WF_vars(Dns_server(ch))
    /\ \A ch \in Channels : WF_vars(Dns_timeout_client(ch))
    /\ WF_vars(ServeStep)

Spec == Init /\ [][Next]_vars
FairSpec == Spec /\ Fairness

----------------------------------------------------------------------------
(* What makes it correct. *)

ThreadPcs == {"none", "lookup", "store", "publish", "late store"}
EntryType == [channel : Channels \cup {Waiting}, host : Hosts, req : Requests]
CacheType == [host : Hosts, addr : Hosts]
FrameType == [ch : Channels, pc : {"scan", "callback", "assign"}, i : Nat]

ServerTypeOk ==
    /\ in_use \in [Channels -> BOOLEAN]
    /\ ip_ready \in [Channels -> BOOLEAN]
    /\ addr_list \in [Channels -> Hosts \cup {None}]
    /\ hostname \in [Channels -> Hosts \cup {None}]
    /\ timers \in [Channels -> Nat]
    /\ thread \in [Channels -> ThreadPcs]
    /\ found \in [Channels -> Hosts \cup {None}]

TypeOk ==
    /\ ServerTypeOk
    /\ queue \in Seq(EntryType)
    /\ cache \in Seq(CacheType)
    /\ frames \in Seq(FrameType)
    /\ asked \in [Requests -> Hosts \cup {None}]
    /\ answers \in [Requests -> Seq(Hosts \cup {None})]

\* The handler that serves the channel, if one is active.
Serving(ch) == \E k \in DOMAIN frames :
                    frames[k].ch = ch /\ frames[k].pc # "assign"

\* A channel is in use exactly while one timeout polls it or one handler serves
\* it, and its thread runs only under that timeout and before ip_ready: no
\* channel is polled twice, leaked, or handed to a second thread.
OneLookupPerChannel ==
    \A ch \in Channels :
        /\ in_use[ch] <=> timers[ch] = 1 \/ Serving(ch)
        /\ timers[ch] <= 1
        /\ ~(timers[ch] = 1 /\ Serving(ch))
        /\ thread[ch] # "none" => timers[ch] = 1 /\ ~ip_ready[ch]

\* An entry on a channel waits for the lookup that channel does: the answer it
\* gets is for the host it named.
EntryOnItsChannel ==
    \A i \in DOMAIN queue :
        queue[i].channel # Waiting =>
            /\ in_use[queue[i].channel]
            /\ hostname[queue[i].channel] = queue[i].host

\* A host is looked up by one channel at a time, and all the requests for it
\* share that channel (or wait together): a_Dns_resolve's "hit in queue".  Nor
\* is a cached host looked up again, so it is cached once.
OneLookupPerHost ==
    /\ \A c, d \in Channels :
         in_use[c] /\ in_use[d] /\ hostname[c] = hostname[d] => c = d
    /\ \A i, j \in DOMAIN queue :
         queue[i].host = queue[j].host => queue[i].channel = queue[j].channel
    /\ \A i, j \in DOMAIN cache : cache[i].host = cache[j].host => i = j

\* Between handlers nobody waits while a channel is free.
NoIdleChannel ==
    frames = <<>> /\ (\E i \in DOMAIN queue : queue[i].channel = Waiting)
        => \A ch \in Channels : in_use[ch]

\* Every callback is called exactly once: a request is in the queue (once) until
\* its answer, and stays there only during the callback that answers it.
AnsweredOnce ==
    /\ \A i, j \in DOMAIN queue : queue[i].req = queue[j].req => i = j
    /\ \A r \in Requests :
        LET queued == {i \in DOMAIN queue : queue[i].req = r}
        IN  /\ Len(answers[r]) <= 1
            /\ asked[r] # None => queued # {} \/ answers[r] # <<>>
            /\ queued # {} /\ answers[r] # <<>> =>
                 InHandler("callback") /\ Top.i \in queued

\* Nobody is given the addresses of another host, now or later from the cache.
RightAddress ==
    /\ \A r \in Requests : \A k \in DOMAIN answers[r] :
         answers[r][k] \in {asked[r], None}
    /\ \A i \in DOMAIN cache : cache[i].addr = cache[i].host

\* The queue of waiting entries is a FIFO: when entries get a channel, no older
\* entry is left waiting.
OldestHostFirst ==
    [][\A i \in DOMAIN queue :
         /\ queue[i].channel = Waiting
         /\ Len(queue') = Len(queue)
         /\ queue'[i].channel # Waiting
         => \E j \in 1 .. i :
              /\ queue'[j].channel = queue'[i].channel
              /\ \A k \in 1 .. j - 1 : queue'[k].channel # Waiting]_vars

\* A channel is one lookup, from the handler that takes it to the one that frees
\* it, and the entries on it are the ones that asked for what it looks up.
ChannelsAreRight ==
    /\ TypeOk
    /\ OneLookupPerChannel
    /\ EntryOnItsChannel

\* What requests are owed: a lookup as soon as there is a channel, one for all
\* the requests of a host, and one answer each.
RequestsAreRight ==
    /\ OneLookupPerHost
    /\ NoIdleChannel
    /\ AnsweredOnce

\* Even when a thread publishes its result early, nothing is answered twice or
\* from the wrong channel, and nobody overtakes in the queue.
QueueIsFair ==
    /\ [](EntryOnItsChannel /\ AnsweredOnce)
    /\ OldestHostFirst

\* Every request is answered in the end.
EventuallyAnswered == \A r \in Requests : asked[r] # None ~> answers[r] # <<>>

----------------------------------------------------------------------------
(* The resolver implements DnsService. *)

Result(r) ==
    IF answers[r] = <<>> THEN "none"
    ELSE IF Head(answers[r]) = None THEN "failed" ELSE "found"

Promise == INSTANCE DnsService
             WITH result <- [r \in Requests |-> Result(r)],
                  known <- {h \in Hosts : Cached(h)}

\* Every step of the threads, the queue and the channels is a step of the
\* abstract service or invisible to it.  (Its liveness is EventuallyAnswered.)
ImplementsService == Promise!Service

\* Requests are interchangeable, and so are hosts: for runs without liveness.
Symmetry == Permutations(Hosts) \cup Permutations(Requests)
=============================================================================
