-------------------------------- MODULE Http --------------------------------
(***************************************************************************)
(* The connection pool of src/src/IO/http.c.  Capi starts a fetch; the http *)
(* module allocates a socket for it, asks the resolver for the address of   *)
(* its host (or of the proxy), then queues the socket for that host.  At    *)
(* most http_max_conns sockets of a host are connected; each that closes    *)
(* lets the next ones in.                                                   *)
(*                                                                         *)
(* A fetch belongs to a cache entry, and a cache entry has clients: the one *)
(* that opened it, whose web structure the socket refers to, and others     *)
(* that joined later.  Clients leave at any time (a_Capi_stop_client); the  *)
(* last one to leave aborts the fetch.                                      *)
(*                                                                         *)
(* Http_connect_queued_sockets is a loop that calls out of the module, so   *)
(* each of its iterations is a step.  Its activations are a stack: with     *)
(* NestedLoop the connection of an https socket through a proxy runs the    *)
(* event loop (a_UIcmd_wait) and other handlers run in the middle.          *)
(***************************************************************************)
EXTENDS Integers, Sequences, FiniteSets

CONSTANTS Hosts,           \* the servers, or the proxy, that sockets connect to
          Socks,           \* the SocketData_t structures: one per fetch
          MaxConns,        \* prefs.http_max_conns, any integer of dplusrc
          SharedEntries,   \* other clients may join the cache entry of a fetch
          NestedLoop,      \* a connection may run the event loop
          FreedLinkIntact, \* a freed ChainLink still holds its LocalKey
          None             \* the NULL pointer

ASSUME MaxConnsAssumption == MaxConns \in Int
ASSUME NoneAssumption ==
    /\ None \notin Hosts /\ None \notin Socks
    /\ None \notin [active : Nat, queue : Seq(Socks)]
ASSUME FlagsAssumption ==
    /\ SharedEntries \in BOOLEAN
    /\ NestedLoop \in BOOLEAN
    /\ FreedLinkIntact \in BOOLEAN

VARIABLES pool,       \* host_connections: the connection count and the queue of a host
          valid,      \* ValidSocks
          queued,     \* sockets with HTTP_SOCKET_QUEUED
          doomed,     \* sockets with HTTP_SOCKET_TO_BE_FREED
          connected,  \* SocketData_t.connected_to
          freed,      \* how many times each socket has been freed
          host,       \* the host a socket is for
          resolving,  \* sockets whose Http_dns_cb has not been called
          chain,      \* the chain of each fetch: "none", "open" or "closed"
          web,        \* sockets whose web structure is valid (the opener is there)
          others,     \* fetches another client waits for too
          frames      \* active Http_connect_queued_sockets, the innermost last

sockets == <<valid, queued, doomed, connected, freed>>
clients == <<chain, web, others>>
vars == <<pool, valid, queued, doomed, connected, freed, host, resolving, chain,
          web, others, frames>>

Init ==
    /\ pool = [h \in Hosts |-> None]
    /\ valid = {} /\ queued = {} /\ doomed = {}
    /\ connected = [s \in Socks |-> None]
    /\ freed = [s \in Socks |-> 0]
    /\ host = [s \in Socks |-> None]
    /\ resolving = {}
    /\ chain = [s \in Socks |-> "none"]
    /\ web = {} /\ others = {}
    /\ frames = <<>>

----------------------------------------------------------------------------
(* The pool. *)

\* Http_host_connection_get: a new host has no connection and an empty queue.
HostConnection(h) == IF pool[h] = None THEN [active |-> 0, queue |-> <<>>] ELSE pool[h]

\* An activation of Http_connect_queued_sockets.  freeing: the socket whose
\* Http_socket_free made the call, if it was one; sock: the socket whose
\* connection runs the event loop; stale: its HostConnection_t was deallocated.
Frame(h, s) == [host |-> h, freeing |-> s, sock |-> None, stale |-> FALSE]
Top == frames[Len(frames)]
Pop == SubSeq(frames, 1, Len(frames) - 1)
SetTop(f) == [frames EXCEPT ![Len(frames)] = f]

\* The event loop runs: no handler is active, or the active one waits for the proxy.
EventLoop == frames # <<>> => NestedLoop /\ Top.sock # None

\* The sockets connected to a host, as the code counts them: a socket counts
\* until Http_socket_free takes it out of ValidSocks.
ConnectedTo(h) == {s \in valid : connected[s] = h}

\* dFree(S).
Free(s) == freed' = [freed EXCEPT ![s] = @ + 1]

\* Seeded bug: the place of a connected socket is not given to the queue.
Mut_NoRefill(s) ==
    /\ valid' = valid \ {s}
    /\ doomed' = doomed \cup ({s} \cap valid \cap queued)
    /\ IF s \in valid \ queued THEN Free(s) ELSE UNCHANGED freed
    /\ pool' = IF s \in valid /\ connected[s] # None
               THEN [pool EXCEPT ![connected[s]].active = @ - 1]
               ELSE pool
    /\ UNCHANGED frames

\* Http_socket_free.  A queued socket is only marked; a connected one leaves
\* its place to the queue before it is freed.
SocketFree(s) ==
    /\ valid' = valid \ {s}
    /\ \/ /\ s \notin valid
          /\ UNCHANGED <<pool, frames, doomed, freed>>
       \/ /\ s \in valid \cap queued
          /\ doomed' = doomed \cup {s}
          /\ UNCHANGED <<pool, frames, freed>>
       \/ /\ s \in valid \ queued
          /\ connected[s] = None
          /\ Free(s)
          /\ UNCHANGED <<pool, frames, doomed>>
       \/ /\ s \in valid \ queued
          /\ connected[s] # None
          /\ pool' = [pool EXCEPT ![connected[s]] =
                         [HostConnection(connected[s]) EXCEPT !.active = @ - 1]]
          /\ frames' = Append(frames, Frame(connected[s], s))
          /\ UNCHANGED <<doomed, freed>>

\* The chain of a fetch closes and its cache entry goes with all its clients
\* (a_Cache_entry_remove_by_url).
CloseChain(s) ==
    /\ chain' = [chain EXCEPT ![s] = "closed"]
    /\ web' = web \ {s}
    /\ others' = others \ {s}

----------------------------------------------------------------------------
(* The calls of capi and of the resolver. *)

\* a_Http_ccc, OpStart: a socket for a new fetch, waiting for the resolver.
Start(s, h) ==
    /\ EventLoop
    /\ chain[s] = "none"
    /\ chain' = [chain EXCEPT ![s] = "open"]
    /\ web' = web \cup {s}
    /\ valid' = valid \cup {s}
    /\ host' = [host EXCEPT ![s] = h]
    /\ resolving' = resolving \cup {s}
    /\ UNCHANGED <<pool, queued, doomed, connected, freed, others, frames>>

\* Http_dns_cb, when the socket was freed while the resolver worked.
DnsAnswersNobody(s) ==
    /\ s \notin valid
    /\ UNCHANGED <<pool, sockets, clients, frames>>

\* Http_dns_cb, when the address is known: the socket queues for its host.
DnsQueues(s) ==
    /\ s \in valid \cap web
    /\ queued' = queued \cup {s}
    /\ pool' = [pool EXCEPT ![host[s]] =
                   [HostConnection(host[s]) EXCEPT !.queue = Append(@, s)]]
    /\ frames' = Append(frames, Frame(host[s], None))
    /\ UNCHANGED <<valid, doomed, connected, freed, clients>>

\* Http_dns_cb, when the web structure is gone or the host has no address: the
\* chain is aborted in both directions.
DnsAborts(s) ==
    /\ s \in valid
    /\ CloseChain(s)
    /\ SocketFree(s)
    /\ UNCHANGED <<queued, connected>>

Http_dns_cb(s) ==
    /\ EventLoop
    /\ s \in resolving
    /\ resolving' = resolving \ {s}
    /\ UNCHANGED host
    /\ DnsAnswersNobody(s) \/ DnsQueues(s) \/ DnsAborts(s)

\* a_Http_ccc, OpEnd or OpAbort from capi: the answer is complete, or the
\* fetch is aborted (reload, a type that is not viewable).
CloseFetch(s) ==
    /\ chain[s] = "open"
    /\ CloseChain(s)
    /\ SocketFree(s)
    /\ UNCHANGED <<queued, connected, host, resolving>>

End(s) == EventLoop /\ connected[s] # None /\ CloseFetch(s)
Abort(s) == EventLoop /\ CloseFetch(s)

\* a_Cache_open_url: another client finds the entry in the cache and joins it.
Join(s) ==
    /\ EventLoop
    /\ SharedEntries
    /\ chain[s] = "open"
    /\ others' = others \cup {s}
    /\ UNCHANGED <<pool, sockets, host, resolving, chain, web, frames>>

\* a_Cache_stop_client alone: the client goes, the fetch goes on.
OnlyDequeue(s, c) ==
    /\ IF c = "opener" THEN web' = web \ {s} /\ UNCHANGED others
                       ELSE others' = others \ {s} /\ UNCHANGED web
    /\ UNCHANGED <<pool, sockets, host, resolving, chain, frames>>

\* a_Capi_stop_client: the last client aborts the fetch, unless it has had data
\* already and the stop is not forced.
StopClient(s, c) ==
    LET unique == ~(s \in web /\ s \in others)
    IN  /\ EventLoop
        /\ chain[s] = "open"
        /\ s \in (IF c = "opener" THEN web ELSE others)
        /\ \/ unique /\ CloseFetch(s)
           \/ (unique => connected[s] # None) /\ OnlyDequeue(s, c)

----------------------------------------------------------------------------
(* Http_connect_queued_sockets. *)

Conns == HostConnection(Top.host)

\* Seeded bug: a connection too many.
Mut_RoomForOne == Conns.active <= MaxConns
RoomForOne == Conns.active < MaxConns

\* The frame runs: it does not wait, and what it points to is still allocated.
Running == frames # <<>> /\ Top.sock = None /\ ~Top.stale

\* The condition of the loop, and Http_socket_dequeue.
Dequeue(s) ==
    /\ Running
    /\ RoomForOne
    /\ Conns.queue # <<>>
    /\ s = Head(Conns.queue)
    /\ queued' = queued \ {s}
    /\ pool' = [pool EXCEPT ![Top.host] = [Conns EXCEPT !.queue = Tail(@)]]

\* A socket marked to be freed.
FreeDoomed(s) ==
    /\ Dequeue(s)
    /\ s \in doomed
    /\ Free(s)
    /\ UNCHANGED <<valid, doomed, connected, clients, host, resolving, frames>>

\* A socket whose web structure is gone: nothing more is done for it.
SkipInvalid(s) ==
    /\ Dequeue(s)
    /\ s \notin doomed \cup web
    /\ UNCHANGED <<valid, doomed, connected, freed, clients, host, resolving, frames>>

\* Http_connect_socket starts.  It returns in ConnectOk or ConnectFails; until
\* then only a nested event loop lets anything else run.
Http_connect_socket(s) ==
    /\ Dequeue(s)
    /\ s \in web \ doomed
    /\ frames' = SetTop([Top EXCEPT !.sock = s])
    /\ UNCHANGED <<valid, doomed, connected, freed, clients, host, resolving>>

\* Http_connect_socket returns, and the structures it used are still there.
ConnectReturns ==
    /\ frames # <<>>
    /\ Top.sock # None
    /\ ~Top.stale
    /\ freed[Top.sock] = 0

ConnectOk ==
    /\ ConnectReturns
    /\ connected' = [connected EXCEPT ![Top.sock] = Top.host]
    /\ pool' = [pool EXCEPT ![Top.host] = [Conns EXCEPT !.active = @ + 1]]
    /\ frames' = SetTop([Top EXCEPT !.sock = None])
    /\ UNCHANGED <<valid, queued, doomed, freed, clients, host, resolving>>

\* The connection fails: the chain is aborted and its link freed, then
\* Http_socket_free gets the key that is read from the freed link.
ConnectFails ==
    /\ ConnectReturns
    /\ LET s == Top.sock
       IN  /\ CloseChain(s)
           /\ \/ valid' = valid \ {s} /\ Free(s)
              \/ ~FreedLinkIntact /\ UNCHANGED <<valid, freed>>
    /\ frames' = SetTop([Top EXCEPT !.sock = None])
    /\ UNCHANGED <<pool, queued, doomed, connected, host, resolving>>

\* Seeded bug: the host is removed whenever a socket is freed.
Mut_LoopEnds ==
    /\ Running
    /\ ~(RoomForOne /\ Conns.queue # <<>>)
    /\ IF Top.freeing # None
       THEN /\ Free(Top.freeing)
            /\ pool' = [pool EXCEPT ![Top.host] = None]
       ELSE UNCHANGED <<pool, freed>>
    /\ frames' = Pop
    /\ UNCHANGED <<valid, queued, doomed, connected, clients, host, resolving>>

\* The end of the loop, and the rest of Http_socket_free if it made the call:
\* a host without connections is removed, and the socket is freed.
LoopEnds ==
    /\ Running
    /\ ~(RoomForOne /\ Conns.queue # <<>>)
    /\ LET last == Top.freeing # None /\ Conns.active = 0
       IN  /\ pool' = IF last THEN [pool EXCEPT ![Top.host] = None] ELSE pool
           /\ frames' = [i \in DOMAIN Pop |->
                 [Pop[i] EXCEPT !.stale = @ \/ (last /\ Pop[i].host = Top.host)]]
    /\ IF Top.freeing # None THEN Free(Top.freeing) ELSE UNCHANGED freed
    /\ UNCHANGED <<valid, queued, doomed, connected, clients, host, resolving>>

LoopStep ==
    \/ \E s \in Socks : FreeDoomed(s) \/ SkipInvalid(s) \/ Http_connect_socket(s)
    \/ ConnectOk
    \/ ConnectFails
    \/ LoopEnds

Next ==
    \/ \E s \in Socks, h \in Hosts : Start(s, h)
    \/ \E s \in Socks : Http_dns_cb(s) \/ End(s) \/ Abort(s) \/ Join(s)
    \/ \E s \in Socks, c \in {"opener", "other"} : StopClient(s, c)
    \/ LoopStep

\* The resolver answers (DnsService), the main thread finishes its handlers, and
\* a server that is connected to closes the connection in the end.
Fairness ==
    /\ WF_vars(LoopStep)
    /\ \A s \in Socks : WF_vars(Http_dns_cb(s)) /\ WF_vars(End(s))

Spec == Init /\ [][Next]_vars
FairSpec == Spec /\ Fairness

----------------------------------------------------------------------------
(* Properties. *)

FrameType == [host : Hosts, freeing : Socks \cup {None}, sock : Socks \cup {None},
              stale : BOOLEAN]
PoolType == [active : Nat, queue : Seq(Socks)]

\* The variables have the types of the C structures.
TypeOk ==
    /\ pool \in [Hosts -> {None} \cup PoolType]
    /\ valid \subseteq Socks /\ queued \subseteq Socks /\ doomed \subseteq Socks
    /\ connected \in [Socks -> Hosts \cup {None}]
    /\ freed \in [Socks -> Nat]
    /\ host \in [Socks -> Hosts \cup {None}]
    /\ resolving \subseteq Socks
    /\ chain \in [Socks -> {"none", "open", "closed"}]
    /\ web \subseteq Socks /\ others \subseteq Socks
    /\ frames \in Seq(FrameType)

\* active_connections is the number of sockets connected to the host, and never
\* more than http_max_conns: what Http_connect_queued_sockets adds on success
\* Http_socket_free takes away, whatever order fetches end, fail and abort in.
CountIsRight == \A h \in Hosts :
    LET n == HostConnection(h).active
    IN  n = Cardinality(ConnectedTo(h)) /\ (n > 0 => n <= MaxConns)

\* A queue holds each waiting socket of its host once, among them the ones that
\* are marked, and all of them are still allocated: Http_socket_free must not
\* free a socket that Http_socket_dequeue will return.
QueueIsSound ==
    /\ \A h \in Hosts : LET q == HostConnection(h).queue
                        IN  \A i \in DOMAIN q :
                              /\ q[i] \in queued /\ host[q[i]] = h /\ freed[q[i]] = 0
                              /\ \A j \in DOMAIN q : q[i] = q[j] => i = j
    /\ \A s \in queued : \E i \in DOMAIN HostConnection(host[s]).queue :
                           HostConnection(host[s]).queue[i] = s
    /\ queued \ valid = queued \cap doomed

\* When the handlers have returned, a socket waits only if its host has
\* http_max_conns connections: every way to close one lets the next one in.
NoIdleConnection == frames = <<>> =>
    \A h \in Hosts : HostConnection(h).queue # <<>> => HostConnection(h).active >= MaxConns

\* A socket is freed once, after it has left ValidSocks; and when its chain is
\* closed and nothing is in progress, it has been freed, unless it is queued.
FreedOnce == \A s \in Socks :
    /\ freed[s] <= 1
    /\ s \in valid => freed[s] = 0
    /\ chain[s] = "closed" /\ frames = <<>> /\ s \notin queued => freed[s] = 1

\* A fetch whose opener still waits makes progress, whatever else the pool does:
\* it waits for the resolver, for a place, or is connected.
OpenerIsServed == \A s \in Socks :
    chain[s] = "open" /\ s \in web =>
      \/ s \in resolving \cup queued
      \/ connected[s] # None
      \/ \E i \in DOMAIN frames : frames[i].sock = s

\* A fetch that has clients makes progress: it waits for the resolver, for a
\* place, or is connected.  ("S->web is checked to assert the operation wasn't
\* aborted while waiting": a socket with an invalid web is one that was aborted.)
NothingForgotten == \A s \in Socks :
    chain[s] = "open" /\ s \in web \cup others =>
      \/ s \in resolving \cup queued
      \/ connected[s] # None
      \/ \E i \in DOMAIN frames : frames[i].sock = s

\* "ValidSocks: Active sockets list": when the handlers have returned, a valid
\* socket has a chain.
ValidHasChain == frames = <<>> => \A s \in valid : chain[s] = "open"

\* The pool never loses count of a host, a socket or a fetch.  So a host that is
\* removed has nothing queued (assert(hc->queue.head == NULL)) and no connection:
\* without a host a queue is empty and a count 0.
PoolIsRight ==
    /\ TypeOk
    /\ CountIsRight
    /\ QueueIsSound
    /\ NoIdleConnection
    /\ FreedOnce
    /\ OpenerIsServed
    /\ ValidHasChain

\* Every fetch ends, or its opener leaves it to the clients that joined: none
\* waits for ever behind the limit.
EventuallyClosed == \A s \in Socks :
    chain[s] = "open" ~> chain[s] = "closed" \/ s \notin web

\* The pool is a counting semaphore per host that every fetch passes.
Semaphore == INSTANCE HttpService WITH
    state <- [s \in Socks |-> IF chain[s] = "open" /\ connected[s] # None
                              THEN "connected" ELSE chain[s]],
    server <- host
ImplementsHttpService == Semaphore!Service
=============================================================================
