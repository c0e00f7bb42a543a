----------------------------- MODULE HttpProofs -----------------------------
(***************************************************************************)
(* Safety of the connection pool for any number of hosts and sockets and    *)
(* any http_max_conns, when no connection runs the event loop; that every    *)
(* socket is freed also needs that a freed chain link still holds its key.  *)
(* Then the pool implements HttpService.                                    *)
(***************************************************************************)
EXTENDS Http, FiniteSetTheorems, SequenceTheorems, TLAPS

Active(h) == HostConnection(h).active
Queue(h) == HostConnection(h).queue

\* One activation at a time, which nobody deallocates the host of.
OneFrame ==
    /\ Len(frames) <= 1
    /\ frames # <<>> => ~frames[1].stale

Freeing(s) == frames # <<>> /\ frames[1].freeing = s
Connecting(s) == frames # <<>> /\ frames[1].sock = s

\* The life of a fetch.  A socket whose chain is closed is freed, or will be when
\* its turn in the queue comes or its place is given on; only where the key of a
\* freed link is not read back may it stay in ValidSocks for ever.
FetchInv(s) ==
    /\ chain[s] = "none" <=> host[s] = None
    /\ chain[s] = "none" => s \notin valid \cup resolving \cup queued \cup doomed
    /\ chain[s] = "open" => s \in valid
    /\ s \in web \cup others => chain[s] = "open"
    /\ s \in doomed => s \notin valid
    /\ s \in queued /\ s \notin valid => s \in doomed
    /\ s \in valid /\ chain[s] = "closed" =>
         /\ ~FreedLinkIntact
         /\ connected[s] = None
         /\ s \notin resolving \cup queued
    /\ freed[s] = IF chain[s] = "closed" /\ s \notin valid \cup queued /\ ~Freeing(s)
                  THEN 1 ELSE 0

\* A socket waits for the resolver, then in the queue, then is connecting, then
\* is connected; the place that one gives up is there for the queue.
StageInv(s) ==
    /\ s \in resolving => s \notin queued
    /\ connected[s] # None =>
         s \notin resolving \cup queued /\ connected[s] = host[s]
    /\ Freeing(s) =>
         /\ chain[s] = "closed"
         /\ s \notin valid \cup queued
         /\ MaxConns > 0
    /\ Connecting(s) =>
         /\ s \in web
         /\ connected[s] = None
         /\ s \notin resolving \cup queued
         /\ host[s] = frames[1].host
         /\ Active(host[s]) < MaxConns
    /\ s \in web => \/ s \in resolving \cup queued
                    \/ connected[s] # None
                    \/ Connecting(s)

\* The sockets connected to a host are counted, and at most http_max_conns.
CountInv(h) ==
    /\ IsFiniteSet(ConnectedTo(h))
    /\ Active(h) = Cardinality(ConnectedTo(h))
    /\ Active(h) > 0 => Active(h) <= MaxConns

\* The queue of a host holds its waiting sockets once each.
QueueInv(h) ==
    /\ \A i \in 1 .. Len(Queue(h)) : Queue(h)[i] \in queued /\ host[Queue(h)[i]] = h
    /\ \A i, j \in 1 .. Len(Queue(h)) : Queue(h)[i] = Queue(h)[j] => i = j
    /\ \A s \in queued : host[s] = h => \E i \in 1 .. Len(Queue(h)) : Queue(h)[i] = s

\* Only the host whose queue is being served has both a queue and a free place.
PlaceInv(h) ==
    Queue(h) # <<>> /\ Active(h) < MaxConns => frames # <<>> /\ frames[1].host = h

PoolInv ==
    /\ TypeOk
    /\ OneFrame
    /\ \A s \in Socks : FetchInv(s) /\ StageInv(s)
    /\ \A h \in Hosts : CountInv(h) /\ QueueInv(h) /\ PlaceInv(h)

----------------------------------------------------------------------------
(* The pool and the stack of activations. *)

\* Http_host_connection_get returns a well-formed host.
LEMMA ConnectionType ==
    ASSUME TypeOk, NEW h \in Hosts
    PROVE  /\ HostConnection(h) \in PoolType
           /\ Active(h) \in Nat
           /\ Queue(h) \in Seq(Socks)
<1>1. [active |-> 0, queue |-> <<>>] \in PoolType
  BY EmptySeq DEF PoolType
<1>2. HostConnection(h) \in PoolType
  BY <1>1 DEF HostConnection, TypeOk
<1>3. QED
  BY <1>2 DEF PoolType, Active, Queue

\* What a host becomes changes no other host.
LEMMA PoolSet ==
    ASSUME TypeOk, NEW h \in Hosts, NEW c \in PoolType,
           pool' = [pool EXCEPT ![h] = c]
    PROVE  /\ pool' \in [Hosts -> {None} \cup PoolType]
           /\ Active(h)' = c.active /\ Queue(h)' = c.queue
           /\ \A g \in Hosts \ {h} : Active(g)' = Active(g) /\ Queue(g)' = Queue(g)
<1>1. c # None
  BY NoneAssumption DEF PoolType
<1>2. pool \in [Hosts -> {None} \cup PoolType]
  BY DEF TypeOk
<1>3. HostConnection(h)' = c
  BY <1>1, <1>2 DEF HostConnection
<1>4. \A g \in Hosts \ {h} : HostConnection(g)' = HostConnection(g)
  BY <1>2 DEF HostConnection
<1>5. QED
  BY <1>2, <1>3, <1>4 DEF Active, Queue

\* An empty host without connections may be removed: nothing is forgotten.
LEMMA PoolRemove ==
    ASSUME TypeOk, NEW h \in Hosts, pool' = [pool EXCEPT ![h] = None],
           Active(h) = 0, Queue(h) = <<>>
    PROVE  /\ pool' \in [Hosts -> {None} \cup PoolType]
           /\ \A g \in Hosts : Active(g)' = Active(g) /\ Queue(g)' = Queue(g)
<1>1. pool \in [Hosts -> {None} \cup PoolType]
  BY DEF TypeOk
<1>2. HostConnection(h)' = [active |-> 0, queue |-> <<>>]
  BY <1>1 DEF HostConnection
<1>3. \A g \in Hosts \ {h} : HostConnection(g)' = HostConnection(g)
  BY <1>1 DEF HostConnection
<1>4. QED
  BY <1>1, <1>2, <1>3 DEF Active, Queue

\* An unchanged list keeps every host.
LEMMA PoolKept ==
    ASSUME NEW h, pool' = pool
    PROVE  Active(h)' = Active(h) /\ Queue(h)' = Queue(h)
BY DEF Active, Queue, HostConnection

\* With one activation the innermost is the only one.
LEMMA OnlyFrame ==
    ASSUME TypeOk, OneFrame, frames # <<>>
    PROVE  /\ Len(frames) = 1 /\ Top = frames[1] /\ frames[1] \in FrameType
           /\ ~frames[1].stale
           /\ DOMAIN Pop = {}
           /\ \A f \in FrameType : /\ SetTop(f) \in Seq(FrameType)
                                   /\ SetTop(f) # <<>>
                                   /\ Len(SetTop(f)) = 1 /\ SetTop(f)[1] = f
<1>1. frames \in Seq(FrameType) /\ Len(frames) \in Nat /\ frames \in [1 .. Len(frames) -> FrameType]
  BY LenProperties DEF TypeOk
<1>2. Len(frames) # 0
  BY <1>1, EmptySeq
<1>3. Len(frames) = 1
  BY <1>1, <1>2 DEF OneFrame
<1>4. Top = frames[1] /\ frames[1] \in FrameType
  BY <1>1, <1>3 DEF Top
<1>5. DOMAIN Pop = {}
  BY <1>1, <1>3 DEF Pop
<1>6. ASSUME NEW f \in FrameType
      PROVE  /\ SetTop(f) \in Seq(FrameType) /\ SetTop(f) # <<>>
             /\ Len(SetTop(f)) = 1 /\ SetTop(f)[1] = f
  BY <1>1, <1>3 DEF SetTop
<1>7. QED
  BY <1>3, <1>4, <1>5, <1>6 DEF OneFrame

\* Handlers do not run in the middle of one another.
LEMMA NoActivation ==
    ASSUME ~NestedLoop, EventLoop
    PROVE  frames = <<>>
BY DEF EventLoop

\* An activation begins.
LEMMA FirstFrame ==
    ASSUME NEW h \in Hosts, NEW s \in Socks \cup {None}, frames = <<>>,
           frames' = Append(frames, Frame(h, s))
    PROVE  /\ frames' \in Seq(FrameType) /\ frames' # <<>> /\ Len(frames') = 1
           /\ frames'[1] = Frame(h, s) /\ Frame(h, s) \in FrameType
<1>1. Frame(h, s) \in FrameType
  BY DEF Frame, FrameType
<1>2. frames' = <<Frame(h, s)>>
  OBVIOUS
<1>3. QED
  BY <1>1, <1>2

----------------------------------------------------------------------------
(* What a step leaves alone keeps its part of the invariant. *)

\* A host whose connections and count are unchanged is still counted.
LEMMA CountKept ==
    ASSUME NEW h, CountInv(h), ConnectedTo(h)' = ConnectedTo(h), Active(h)' = Active(h)
    PROVE  CountInv(h)'
BY DEF CountInv

\* A queue that is unchanged still holds the sockets that wait for its host.
LEMMA QueueKept ==
    ASSUME NEW h, QueueInv(h), Queue(h)' = Queue(h), queued' = queued,
           \A s \in queued : host'[s] = host[s]
    PROVE  QueueInv(h)'
BY DEF QueueInv

\* A host that got neither a place nor a socket needs no activation.
LEMMA PlaceKept ==
    ASSUME NEW h, PlaceInv(h), Queue(h)' = Queue(h), Active(h)' = Active(h),
           frames # <<>> => frames' # <<>> /\ frames'[1].host = frames[1].host
    PROVE  PlaceInv(h)'
BY DEF PlaceInv

----------------------------------------------------------------------------
(* Each operation preserves the invariant. *)

\* At the start there is no host and no fetch.
LEMMA InitPoolInv == Init => PoolInv
<1> SUFFICES ASSUME Init PROVE PoolInv
  OBVIOUS
<1>1. TypeOk /\ OneFrame
  BY EmptySeq DEF Init, TypeOk, OneFrame
<1>2. \A s \in Socks : FetchInv(s) /\ StageInv(s)
  BY NoneAssumption DEF Init, FetchInv, StageInv, Freeing, Connecting
<1>3. ASSUME NEW h \in Hosts PROVE CountInv(h) /\ QueueInv(h) /\ PlaceInv(h)
  <2>1. Active(h) = 0 /\ Queue(h) = <<>>
    BY DEF Init, Active, Queue, HostConnection
  <2>2. ConnectedTo(h) = {}
    BY DEF Init, ConnectedTo
  <2>3. QED
    BY <2>1, <2>2, FS_EmptySet DEF Init, CountInv, QueueInv, PlaceInv
<1>4. QED
  BY <1>1, <1>2, <1>3 DEF PoolInv

\* A stuttering step keeps the invariant.
LEMMA StutterKeeps ==
    ASSUME PoolInv, UNCHANGED vars
    PROVE  PoolInv'
<1>1. TypeOk' /\ OneFrame'
  BY DEF PoolInv, TypeOk, OneFrame, vars
<1>2. \A h : Active(h)' = Active(h) /\ Queue(h)' = Queue(h)
  BY PoolKept DEF vars
<1>3. \A s \in Socks : FetchInv(s)' /\ StageInv(s)'
  BY <1>2 DEF PoolInv, FetchInv, StageInv, Freeing, Connecting, vars
<1>4. ASSUME NEW h \in Hosts PROVE CountInv(h)' /\ QueueInv(h)' /\ PlaceInv(h)'
  <2>1. ConnectedTo(h)' = ConnectedTo(h)
    BY DEF ConnectedTo, vars
  <2>2. QED
    BY <1>2, <2>1, CountKept, QueueKept, PlaceKept DEF PoolInv, vars
<1>5. QED
  BY <1>1, <1>3, <1>4 DEF PoolInv

\* A new fetch waits for the resolver.
LEMMA StartKeeps ==
    ASSUME PoolInv, ~NestedLoop, NEW s \in Socks, NEW h \in Hosts, Start(s, h)
    PROVE  PoolInv'
<1>1. /\ frames = <<>> /\ chain[s] = "none" /\ FetchInv(s) /\ StageInv(s) /\ TypeOk
  BY NoActivation DEF PoolInv, Start
<1>2. TypeOk' /\ OneFrame'
  BY <1>1 DEF TypeOk, OneFrame, Start, PoolInv
<1>3. \A g : Active(g)' = Active(g) /\ Queue(g)' = Queue(g)
  BY PoolKept DEF Start
<1>4. connected[s] = None
  BY <1>1 DEF FetchInv, StageInv
<1>5. ASSUME NEW t \in Socks PROVE FetchInv(t)' /\ StageInv(t)'
  <2>1. FetchInv(t) /\ StageInv(t)
    BY DEF PoolInv
  <2>2. CASE t = s
    BY <1>1, <1>4, <2>2, NoneAssumption
    DEF Start, FetchInv, StageInv, Freeing, Connecting, TypeOk
  <2>3. CASE t # s
    BY <1>1, <1>3, <2>1, <2>3
    DEF Start, FetchInv, StageInv, Freeing, Connecting, TypeOk
  <2>4. QED
    BY <2>2, <2>3
<1>6. ASSUME NEW g \in Hosts PROVE CountInv(g)' /\ QueueInv(g)' /\ PlaceInv(g)'
  <2>1. ConnectedTo(g)' = ConnectedTo(g)
    BY <1>1, <1>4, NoneAssumption DEF Start, ConnectedTo
  <2>2. \A t \in queued : host'[t] = host[t]
    BY <1>1 DEF Start, FetchInv, TypeOk
  <2>3. QED
    BY <1>1, <1>3, <2>1, <2>2, CountKept, QueueKept, PlaceKept DEF PoolInv, Start
<1>7. QED
  BY <1>2, <1>5, <1>6 DEF PoolInv

\* The resolver answers for a socket that is gone.
LEMMA DnsAnswersNobodyKeeps ==
    ASSUME PoolInv, NEW s \in Socks, resolving' = resolving \ {s}, UNCHANGED host,
           DnsAnswersNobody(s)
    PROVE  PoolInv'
<1>1. TypeOk' /\ OneFrame'
  BY DEF PoolInv, TypeOk, OneFrame, DnsAnswersNobody, sockets, clients
<1>2. \A g : Active(g)' = Active(g) /\ Queue(g)' = Queue(g)
  BY PoolKept DEF DnsAnswersNobody
<1>3. ASSUME NEW t \in Socks PROVE FetchInv(t)' /\ StageInv(t)'
  <2>1. FetchInv(t) /\ StageInv(t) /\ FetchInv(s)
    BY DEF PoolInv
  <2>2. s \notin web
    BY <2>1 DEF DnsAnswersNobody, FetchInv
  <2>3. QED
    BY <1>2, <2>1, <2>2
    DEF DnsAnswersNobody, FetchInv, StageInv, Freeing, Connecting, sockets, clients
<1>4. ASSUME NEW g \in Hosts PROVE CountInv(g)' /\ QueueInv(g)' /\ PlaceInv(g)'
  <2>1. ConnectedTo(g)' = ConnectedTo(g)
    BY DEF ConnectedTo, DnsAnswersNobody, sockets
  <2>2. QED
    BY <1>2, <2>1, CountKept, QueueKept, PlaceKept
    DEF PoolInv, DnsAnswersNobody, sockets
<1>5. QED
  BY <1>1, <1>3, <1>4 DEF PoolInv

\* A socket joins the queue of its host, once.
LEMMA DnsQueuesKeeps ==
    ASSUME PoolInv, NEW s \in resolving, frames = <<>>,
           resolving' = resolving \ {s}, UNCHANGED host, DnsQueues(s)
    PROVE  PoolInv'
<1>1. /\ s \in Socks /\ s \in valid /\ s \in web /\ s \notin queued
      /\ FetchInv(s) /\ StageInv(s) /\ TypeOk
  BY DEF PoolInv, TypeOk, DnsQueues, StageInv
<1>2. host[s] \in Hosts /\ connected[s] = None /\ chain[s] = "open" /\ s \notin doomed
  BY <1>1 DEF FetchInv, StageInv, TypeOk
<1> DEFINE h == host[s]
<1> DEFINE c == [HostConnection(h) EXCEPT !.queue = Append(@, s)]
<1>3. /\ c \in PoolType /\ c.active = Active(h) /\ c.queue = Append(Queue(h), s)
      /\ Queue(h) \in Seq(Socks)
  <2>1. HostConnection(h) \in PoolType /\ Queue(h) \in Seq(Socks)
    BY <1>1, <1>2, ConnectionType
  <2>2. Append(Queue(h), s) \in Seq(Socks)
    BY <1>1, <2>1
  <2>3. QED
    BY <2>1, <2>2 DEF PoolType, Active, Queue
<1>4. /\ pool' \in [Hosts -> {None} \cup PoolType]
      /\ Active(h)' = Active(h) /\ Queue(h)' = Append(Queue(h), s)
      /\ \A g \in Hosts \ {h} : Active(g)' = Active(g) /\ Queue(g)' = Queue(g)
  BY <1>1, <1>2, <1>3, PoolSet DEF DnsQueues
<1>5. /\ frames' \in Seq(FrameType) /\ frames' # <<>> /\ Len(frames') = 1
      /\ frames'[1] = Frame(h, None)
  BY <1>2, FirstFrame DEF DnsQueues
<1>6. TypeOk' /\ OneFrame'
  BY <1>1, <1>4, <1>5 DEF TypeOk, OneFrame, DnsQueues, clients, Frame
<1>7. ASSUME NEW t \in Socks PROVE FetchInv(t)' /\ StageInv(t)'
  <2>1. FetchInv(t) /\ StageInv(t)
    BY DEF PoolInv
  <2>2. ~Freeing(t) /\ ~Freeing(t)' /\ ~Connecting(t) /\ ~Connecting(t)'
    BY <1>5, NoneAssumption DEF Freeing, Connecting, Frame
  <2>3. QED
    BY <1>1, <1>2, <2>1, <2>2 DEF DnsQueues, FetchInv, StageInv, clients
<1>8. ASSUME NEW g \in Hosts PROVE CountInv(g)' /\ QueueInv(g)' /\ PlaceInv(g)'
  <2>1. CountInv(g) /\ QueueInv(g) /\ PlaceInv(g) /\ QueueInv(h)
    BY <1>2 DEF PoolInv
  <2>2. CountInv(g)'
    <3>1. ConnectedTo(g)' = ConnectedTo(g)
      BY DEF DnsQueues, ConnectedTo
    <3>2. QED
      BY <1>4, <2>1, <3>1, CountKept
  <2>3. PlaceInv(g)'
    BY <1>4, <1>5, <2>1 DEF PlaceInv, Frame
  <2>4. CASE g = h
    <3>1. /\ Len(Append(Queue(h), s)) = Len(Queue(h)) + 1 /\ Len(Queue(h)) \in Nat
          /\ Append(Queue(h), s)[Len(Queue(h)) + 1] = s
          /\ \A i \in 1 .. Len(Queue(h)) : Append(Queue(h), s)[i] = Queue(h)[i]
      BY <1>1, <1>3
    <3>2. queued' = queued \cup {s}
      BY DEF DnsQueues
    <3>3. \A i \in 1 .. Len(Queue(h)) : Queue(h)[i] # s
      BY <1>1, <2>1 DEF QueueInv
    <3>4. QueueInv(h)'
      BY SMTT(20), <1>4, <2>1, <3>1, <3>2, <3>3 DEF QueueInv
    <3>5. QED
      BY <2>2, <2>3, <2>4, <3>4
  <2>5. CASE g # h
    BY <1>4, <2>1, <2>2, <2>3, <2>5 DEF QueueInv, DnsQueues
  <2>6. QED
    BY <2>4, <2>5
<1>9. QED
  BY <1>6, <1>7, <1>8 DEF PoolInv

\* The chain of a fetch closes: its socket is freed at once, in its turn, or when
\* its place has been given to the queue.
LEMMA CloseKeeps ==
    ASSUME PoolInv, NEW s \in Socks, frames = <<>>, chain[s] = "open",
           CloseChain(s), SocketFree(s), UNCHANGED <<queued, connected, host>>,
           resolving' = resolving \/ resolving' = resolving \ {s}
    PROVE  PoolInv'
<1>1. TypeOk /\ FetchInv(s) /\ StageInv(s) /\ s \in valid /\ valid' = valid \ {s}
  BY DEF PoolInv, FetchInv, SocketFree
<1>2. /\ freed[s] = 0 /\ s \notin doomed /\ host[s] \in Hosts
      /\ chain' = [chain EXCEPT ![s] = "closed"]
      /\ web' = web \ {s} /\ others' = others \ {s}
  BY <1>1 DEF FetchInv, TypeOk, CloseChain
<1>3. \A t \in Socks : ~Freeing(t) /\ ~Connecting(t)
  BY DEF Freeing, Connecting
<1>4. ASSUME pool' \in [Hosts -> {None} \cup PoolType],
             frames' \in Seq(FrameType), doomed' \subseteq Socks, freed' \in [Socks -> Nat]
      PROVE  TypeOk'
  BY <1>1, <1>2, <1>4 DEF TypeOk
<1>5. CASE s \in queued
  <2>1. doomed' = doomed \cup {s} /\ UNCHANGED <<pool, frames, freed>>
    BY <1>1, <1>5 DEF SocketFree
  <2>2. connected[s] = None
    BY <1>1, <1>5 DEF StageInv
  <2>3. TypeOk' /\ OneFrame'
    BY <1>1, <1>4, <2>1 DEF TypeOk, OneFrame
  <2>4. ASSUME NEW t \in Socks PROVE FetchInv(t)' /\ StageInv(t)'
    <3>1. FetchInv(t) /\ StageInv(t) /\ ~Freeing(t)' /\ ~Connecting(t)'
      BY <2>1 DEF PoolInv, Freeing, Connecting
    <3>2. QED
      BY <1>1, <1>2, <1>3, <1>5, <2>1, <3>1 DEF FetchInv, StageInv, TypeOk
  <2>5. ASSUME NEW g \in Hosts PROVE CountInv(g)' /\ QueueInv(g)' /\ PlaceInv(g)'
    <3>1. ConnectedTo(g)' = ConnectedTo(g)
      BY <1>1, <2>2, NoneAssumption DEF ConnectedTo
    <3>2. Active(g)' = Active(g) /\ Queue(g)' = Queue(g)
      BY <2>1, PoolKept
    <3>3. QED
      BY <2>1, <3>1, <3>2, CountKept, QueueKept, PlaceKept DEF PoolInv
  <2>6. QED
    BY <2>3, <2>4, <2>5 DEF PoolInv
<1>6. CASE s \notin queued /\ connected[s] = None
  <2>1. Free(s) /\ UNCHANGED <<pool, frames, doomed>>
    BY <1>1, <1>6 DEF SocketFree
  <2>2. freed' \in [Socks -> Nat] /\ freed' = [freed EXCEPT ![s] = 1]
    BY <1>1, <1>2, <2>1 DEF Free, TypeOk
  <2>3. TypeOk' /\ OneFrame'
    BY <1>1, <1>4, <2>1, <2>2 DEF TypeOk, OneFrame
  <2>4. ASSUME NEW t \in Socks PROVE FetchInv(t)' /\ StageInv(t)'
    <3>1. FetchInv(t) /\ StageInv(t) /\ ~Freeing(t)' /\ ~Connecting(t)'
      BY <2>1 DEF PoolInv, Freeing, Connecting
    <3>2. QED
      BY <1>1, <1>2, <1>3, <1>6, <2>1, <2>2, <3>1 DEF FetchInv, StageInv, TypeOk
  <2>5. ASSUME NEW g \in Hosts PROVE CountInv(g)' /\ QueueInv(g)' /\ PlaceInv(g)'
    <3>1. ConnectedTo(g)' = ConnectedTo(g)
      BY <1>1, <1>6, NoneAssumption DEF ConnectedTo
    <3>2. Active(g)' = Active(g) /\ Queue(g)' = Queue(g)
      BY <2>1, PoolKept
    <3>3. QED
      BY <2>1, <3>1, <3>2, CountKept, QueueKept, PlaceKept DEF PoolInv
  <2>6. QED
    BY <2>3, <2>4, <2>5 DEF PoolInv
<1>7. CASE s \notin queued /\ connected[s] # None
  <2> DEFINE h == connected[s]
  <2> DEFINE c == [HostConnection(h) EXCEPT !.active = @ - 1]
  <2>1. /\ h \in Hosts /\ h = host[s]
        /\ pool' = [pool EXCEPT ![h] = c]
        /\ frames' = Append(frames, Frame(h, s))
        /\ UNCHANGED <<doomed, freed>>
    BY <1>1, <1>7 DEF SocketFree, TypeOk, StageInv
  <2>2. /\ CountInv(h) /\ HostConnection(h) \in PoolType
        /\ Active(h) \in Nat /\ Queue(h) \in Seq(Socks)
    BY <1>1, <2>1, ConnectionType DEF PoolInv
  <2>3. s \in ConnectedTo(h)
    BY <1>1 DEF ConnectedTo
  <2>4. /\ Cardinality(ConnectedTo(h) \ {s}) = Active(h) - 1
        /\ IsFiniteSet(ConnectedTo(h) \ {s})
        /\ Active(h) > 0 /\ MaxConns > 0
    <3>1. Cardinality(ConnectedTo(h)) # 0
      BY <2>2, <2>3, FS_EmptySet DEF CountInv
    <3>2. QED
      BY <2>2, <2>3, <3>1, FS_RemoveElement, MaxConnsAssumption DEF CountInv
  <2>5. c \in PoolType /\ c.active = Active(h) - 1 /\ c.queue = Queue(h)
    BY <2>2, <2>4 DEF PoolType, Active, Queue
  <2>6. /\ pool' \in [Hosts -> {None} \cup PoolType]
        /\ Active(h)' = Active(h) - 1 /\ Queue(h)' = Queue(h)
        /\ \A g \in Hosts \ {h} : Active(g)' = Active(g) /\ Queue(g)' = Queue(g)
    BY <1>1, <2>1, <2>5, PoolSet
  <2>7. /\ frames' \in Seq(FrameType) /\ frames' # <<>> /\ Len(frames') = 1
        /\ frames'[1] = Frame(h, s)
    BY <2>1, FirstFrame
  <2>8. TypeOk' /\ OneFrame'
    BY <1>1, <1>4, <2>1, <2>6, <2>7 DEF TypeOk, OneFrame, Frame
  <2>9. ASSUME NEW t \in Socks PROVE FetchInv(t)' /\ StageInv(t)'
    <3>1. FetchInv(t) /\ StageInv(t)
      BY DEF PoolInv
    <3>2. ~Connecting(t)' /\ (Freeing(t)' <=> t = s)
      BY <2>7, NoneAssumption DEF Freeing, Connecting, Frame
    <3>3. QED
      BY <1>1, <1>2, <1>3, <1>7, <2>1, <2>4, <3>1, <3>2 DEF FetchInv, StageInv, TypeOk
  <2>10. ASSUME NEW g \in Hosts PROVE CountInv(g)' /\ QueueInv(g)' /\ PlaceInv(g)'
    <3>1. CountInv(g) /\ QueueInv(g) /\ PlaceInv(g)
      BY DEF PoolInv
    <3>2. CASE g = h
      <4>1. ConnectedTo(h)' = ConnectedTo(h) \ {s}
        BY <1>1 DEF ConnectedTo
      <4>2. CountInv(h)'
        BY <2>2, <2>4, <2>6, <4>1, MaxConnsAssumption DEF CountInv
      <4>3. QueueInv(h)'
        BY <2>6, <3>1, <3>2, QueueKept
      <4>4. PlaceInv(h)'
        BY <2>7 DEF PlaceInv, Frame
      <4>5. QED
        BY <3>2, <4>2, <4>3, <4>4
    <3>3. CASE g # h
      <4>1. ConnectedTo(g)' = ConnectedTo(g)
        BY <1>1, <3>3 DEF ConnectedTo
      <4>2. QED
        BY <2>6, <2>7, <3>1, <3>3, <4>1, CountKept, QueueKept, PlaceKept
    <3>4. QED
      BY <3>2, <3>3
  <2>11. QED
    BY <2>8, <2>9, <2>10 DEF PoolInv
<1>8. QED
  BY <1>5, <1>6, <1>7

\* OpEnd and OpAbort close a fetch from the event loop.
LEMMA CloseFetchKeeps ==
    ASSUME PoolInv, ~NestedLoop, NEW s \in Socks, EventLoop, CloseFetch(s)
    PROVE  PoolInv'
BY NoActivation, CloseKeeps DEF CloseFetch

\* Http_dns_cb, whatever it finds.
LEMMA DnsKeeps ==
    ASSUME PoolInv, ~NestedLoop, NEW s \in Socks, Http_dns_cb(s)
    PROVE  PoolInv'
<1>1. frames = <<>> /\ s \in resolving /\ resolving' = resolving \ {s} /\ UNCHANGED host
  BY NoActivation DEF Http_dns_cb
<1>2. CASE DnsAnswersNobody(s)
  BY <1>1, <1>2, DnsAnswersNobodyKeeps
<1>3. CASE DnsQueues(s)
  BY <1>1, <1>3, DnsQueuesKeeps
<1>4. CASE DnsAborts(s)
  <2>1. chain[s] = "open"
    BY <1>1, <1>4 DEF DnsAborts, PoolInv, FetchInv, TypeOk
  <2>2. QED
    BY <1>1, <1>4, <2>1, CloseKeeps DEF DnsAborts
<1>5. QED
  BY <1>2, <1>3, <1>4 DEF Http_dns_cb

\* Clients come and go: the socket does not notice.
LEMMA ClientKeeps ==
    ASSUME PoolInv, ~NestedLoop, NEW s \in Socks, EventLoop, chain[s] = "open",
           web' \in {web, web \ {s}}, others' \in {others, others \ {s}, others \cup {s}},
           UNCHANGED <<pool, sockets, host, resolving, chain, frames>>
    PROVE  PoolInv'
<1>1. frames = <<>> /\ TypeOk
  BY NoActivation DEF PoolInv
<1>2. TypeOk' /\ OneFrame'
  BY <1>1 DEF PoolInv, TypeOk, OneFrame, sockets
<1>3. \A g : Active(g)' = Active(g) /\ Queue(g)' = Queue(g)
  BY PoolKept
<1>4. ASSUME NEW t \in Socks PROVE FetchInv(t)' /\ StageInv(t)'
  <2>1. FetchInv(t) /\ StageInv(t) /\ ~Freeing(t) /\ ~Connecting(t)
    BY <1>1 DEF PoolInv, Freeing, Connecting
  <2>2. ~Freeing(t)' /\ ~Connecting(t)'
    BY <1>1 DEF Freeing, Connecting
  <2>3. QED
    BY <2>1, <2>2 DEF FetchInv, StageInv, sockets
<1>5. ASSUME NEW g \in Hosts PROVE CountInv(g)' /\ QueueInv(g)' /\ PlaceInv(g)'
  <2>1. ConnectedTo(g)' = ConnectedTo(g)
    BY DEF ConnectedTo, sockets
  <2>2. QED
    BY <1>3, <2>1, CountKept, QueueKept, PlaceKept DEF PoolInv, sockets
<1>6. QED
  BY <1>2, <1>4, <1>5 DEF PoolInv

\* a_Capi_stop_client closes the fetch or only takes a client away.
LEMMA StopClientKeeps ==
    ASSUME PoolInv, ~NestedLoop, NEW s \in Socks, NEW c \in {"opener", "other"},
           StopClient(s, c)
    PROVE  PoolInv'
<1>1. EventLoop /\ chain[s] = "open"
  BY DEF StopClient
<1>2. CASE CloseFetch(s)
  BY <1>1, <1>2, CloseFetchKeeps
<1>3. CASE OnlyDequeue(s, c)
  BY <1>1, <1>3, ClientKeeps DEF OnlyDequeue
<1>4. QED
  BY <1>2, <1>3 DEF StopClient

----------------------------------------------------------------------------
(* The loop of Http_connect_queued_sockets. *)

\* Http_socket_dequeue takes the oldest socket of the host's queue, once.
LEMMA DequeueKeeps ==
    ASSUME PoolInv, NEW s \in Socks, Dequeue(s), host' = host
    PROVE  \E h \in Hosts :
               /\ h = frames[1].host /\ host[s] = h /\ s \in queued
               /\ Active(h) < MaxConns
               /\ frames # <<>> /\ frames[1] \in FrameType /\ frames[1].sock = None
               /\ pool' \in [Hosts -> {None} \cup PoolType]
               /\ queued' = queued \ {s}
               /\ \A g \in Hosts : Active(g)' = Active(g) /\ QueueInv(g)'
               /\ \A g \in Hosts \ {h} : Queue(g)' = Queue(g)
<1>1. frames # <<>> /\ TypeOk /\ OneFrame
  BY DEF PoolInv, Dequeue, Running
<1>2. PICK h \in Hosts : /\ h = frames[1].host /\ Top = frames[1]
                         /\ frames[1] \in FrameType /\ Conns = HostConnection(h)
  BY <1>1, OnlyFrame DEF FrameType, Conns
<1> DEFINE q == Queue(h)
<1> DEFINE c == [HostConnection(h) EXCEPT !.queue = Tail(@)]
<1>3. /\ frames[1].sock = None /\ Active(h) < MaxConns /\ q # <<>> /\ s = Head(q)
      /\ queued' = queued \ {s}
      /\ pool' = [pool EXCEPT ![h] = c]
  BY <1>2 DEF Dequeue, Running, RoomForOne, Active, Queue
<1>4. HostConnection(h) \in PoolType /\ q \in Seq(Socks) /\ QueueInv(h)
  BY <1>1, <1>2, ConnectionType DEF PoolInv
<1>5. /\ Len(q) \in Nat \ {0} /\ s = q[1]
      /\ Tail(q) \in Seq(Socks) /\ Len(Tail(q)) = Len(q) - 1
      /\ \A i \in 1 .. Len(q) - 1 : Tail(q)[i] = q[i + 1]
  BY <1>3, <1>4, HeadTailProperties
<1>6. c \in PoolType /\ c.active = Active(h) /\ c.queue = Tail(q)
  BY <1>4, <1>5 DEF PoolType, Active, Queue
<1>7. /\ pool' \in [Hosts -> {None} \cup PoolType]
      /\ Active(h)' = Active(h) /\ Queue(h)' = Tail(q)
      /\ \A g \in Hosts \ {h} : Active(g)' = Active(g) /\ Queue(g)' = Queue(g)
  BY <1>1, <1>2, <1>3, <1>6, PoolSet
<1>8. s \in queued /\ host[s] = h
  BY <1>4, <1>5 DEF QueueInv
<1>9. QueueInv(h)'
  <2>1. \A i \in 1 .. Len(q) - 1 : q[i + 1] # s /\ q[i + 1] \in queued /\ host[q[i + 1]] = h
    BY <1>4, <1>5 DEF QueueInv
  <2>2. \A i, j \in 1 .. Len(q) - 1 : q[i + 1] = q[j + 1] => i = j
    BY <1>4, <1>5 DEF QueueInv
  <2>3. ASSUME NEW t \in queued \ {s}, host[t] = h
        PROVE  \E i \in 1 .. Len(q) - 1 : q[i + 1] = t
    <3>1. PICK k \in 1 .. Len(q) : q[k] = t
      BY <1>4, <2>3 DEF QueueInv
    <3>2. k - 1 \in 1 .. Len(q) - 1 /\ q[(k - 1) + 1] = t
      BY <1>5, <2>3, <3>1
    <3>3. QED
      BY <3>2
  <2>4. QED
    BY <1>3, <1>5, <1>7, <2>1, <2>2, <2>3 DEF QueueInv
<1>10. ASSUME NEW g \in Hosts \ {h} PROVE QueueInv(g)'
  BY <1>3, <1>7, <1>8 DEF QueueInv, PoolInv
<1>11. QED
  BY <1>1, <1>2, <1>3, <1>7, <1>8, <1>9, <1>10

\* The places of the other hosts while the loop goes on for its own.
LEMMA PlaceLoop ==
    ASSUME NEW g \in Hosts, PlaceInv(g), frames # <<>>, frames' # <<>>,
           frames'[1].host = frames[1].host,
           g # frames[1].host => Active(g)' = Active(g) /\ Queue(g)' = Queue(g)
    PROVE  PlaceInv(g)'
BY DEF PlaceInv

\* A socket that was marked while it waited is freed.
LEMMA FreeDoomedKeeps ==
    ASSUME PoolInv, NEW s \in Socks, FreeDoomed(s)
    PROVE  PoolInv'
<1>1. PICK h \in Hosts :
      /\ h = frames[1].host /\ host[s] = h /\ s \in queued /\ frames # <<>>
      /\ pool' \in [Hosts -> {None} \cup PoolType]
      /\ queued' = queued \ {s}
      /\ \A g \in Hosts : Active(g)' = Active(g) /\ QueueInv(g)'
      /\ \A g \in Hosts \ {h} : Queue(g)' = Queue(g)
  BY DequeueKeeps DEF FreeDoomed
<1>2. FetchInv(s) /\ StageInv(s) /\ TypeOk
  BY DEF PoolInv
<1>3. freed' = [freed EXCEPT ![s] = 1] /\ chain[s] = "closed"
  <2>1. s \in doomed /\ s \notin valid
    BY <1>2 DEF FreeDoomed, FetchInv
  <2>2. chain[s] = "closed" /\ freed[s] = 0
    BY <1>1, <1>2, <2>1 DEF FetchInv, TypeOk
  <2>3. QED
    BY <1>2, <2>2 DEF FreeDoomed, Free, TypeOk
<1>4. TypeOk' /\ OneFrame'
  BY <1>1, <1>2, <1>3 DEF TypeOk, PoolInv, OneFrame, FreeDoomed, clients
<1>5. ASSUME NEW t \in Socks PROVE FetchInv(t)' /\ StageInv(t)'
  <2>1. FetchInv(t) /\ StageInv(t) /\ (Freeing(t)' <=> Freeing(t))
        /\ (Connecting(t)' <=> Connecting(t))
    BY DEF PoolInv, Freeing, Connecting, FreeDoomed
  <2>2. Connecting(t) => host[t] \in Hosts
    BY <1>1, <2>1 DEF StageInv
  <2>3. CASE t = s
    BY <1>1, <1>2, <1>3, <2>1, <2>3 DEF FreeDoomed, FetchInv, StageInv, clients, TypeOk
  <2>4. CASE t # s
    BY <1>1, <1>2, <1>3, <2>1, <2>2, <2>4 DEF FreeDoomed, FetchInv, StageInv, clients, TypeOk
  <2>5. QED
    BY <2>3, <2>4
<1>6. ASSUME NEW g \in Hosts PROVE CountInv(g)' /\ QueueInv(g)' /\ PlaceInv(g)'
  <2>1. ConnectedTo(g)' = ConnectedTo(g)
    BY DEF ConnectedTo, FreeDoomed
  <2>2. frames' = frames
    BY DEF FreeDoomed
  <2>3. QED
    BY <1>1, <2>1, <2>2, CountKept, PlaceLoop DEF PoolInv
<1>7. QED
  BY <1>4, <1>5, <1>6 DEF PoolInv

\* A socket whose opener has gone is forgotten.
LEMMA SkipInvalidKeeps ==
    ASSUME PoolInv, NEW s \in Socks, SkipInvalid(s)
    PROVE  PoolInv'
<1>1. PICK h \in Hosts :
      /\ h = frames[1].host /\ host[s] = h /\ s \in queued /\ frames # <<>>
      /\ pool' \in [Hosts -> {None} \cup PoolType]
      /\ queued' = queued \ {s}
      /\ \A g \in Hosts : Active(g)' = Active(g) /\ QueueInv(g)'
      /\ \A g \in Hosts \ {h} : Queue(g)' = Queue(g)
  BY DequeueKeeps DEF SkipInvalid
<1>2. FetchInv(s) /\ StageInv(s) /\ TypeOk /\ s \notin doomed \cup web
  BY DEF PoolInv, SkipInvalid
<1>3. TypeOk' /\ OneFrame'
  BY <1>1, <1>2 DEF TypeOk, PoolInv, OneFrame, SkipInvalid, clients
<1>4. ASSUME NEW t \in Socks PROVE FetchInv(t)' /\ StageInv(t)'
  <2>1. FetchInv(t) /\ StageInv(t) /\ (Freeing(t)' <=> Freeing(t))
        /\ (Connecting(t)' <=> Connecting(t))
    BY DEF PoolInv, Freeing, Connecting, SkipInvalid
  <2>2. Connecting(t) => host[t] \in Hosts
    BY <1>1, <2>1 DEF StageInv
  <2>3. QED
    BY <1>1, <1>2, <2>1, <2>2 DEF SkipInvalid, FetchInv, StageInv, clients, TypeOk
<1>5. ASSUME NEW g \in Hosts PROVE CountInv(g)' /\ QueueInv(g)' /\ PlaceInv(g)'
  <2>1. ConnectedTo(g)' = ConnectedTo(g)
    BY DEF ConnectedTo, SkipInvalid
  <2>2. frames' = frames
    BY DEF SkipInvalid
  <2>3. QED
    BY <1>1, <2>1, <2>2, CountKept, PlaceLoop DEF PoolInv
<1>6. QED
  BY <1>3, <1>4, <1>5 DEF PoolInv

\* The connection of the oldest socket begins.
LEMMA ConnectKeeps ==
    ASSUME PoolInv, NEW s \in Socks, Http_connect_socket(s)
    PROVE  PoolInv'
<1> DEFINE f == [frames[1] EXCEPT !.sock = s]
<1>1. PICK h \in Hosts :
      /\ h = frames[1].host /\ host[s] = h /\ s \in queued /\ Active(h) < MaxConns
      /\ frames # <<>> /\ frames[1] \in FrameType
      /\ pool' \in [Hosts -> {None} \cup PoolType]
      /\ queued' = queued \ {s}
      /\ \A g \in Hosts : Active(g)' = Active(g) /\ QueueInv(g)'
      /\ \A g \in Hosts \ {h} : Queue(g)' = Queue(g)
      /\ frames[1].sock = None
  BY DequeueKeeps DEF Http_connect_socket
<1>2. FetchInv(s) /\ StageInv(s) /\ TypeOk /\ OneFrame /\ s \in web \ doomed
  BY DEF PoolInv, Http_connect_socket
<1>3. f \in FrameType /\ f.host = h /\ f.sock = s /\ f.freeing = frames[1].freeing
      /\ f.stale = frames[1].stale
  BY <1>1 DEF FrameType
<1>4. /\ frames' \in Seq(FrameType) /\ frames' # <<>> /\ Len(frames') = 1
      /\ frames'[1] = f /\ ~frames'[1].stale /\ frames'[1].host = h
  BY <1>1, <1>2, <1>3, OnlyFrame DEF Http_connect_socket
<1> HIDE DEF f
<1>5. TypeOk' /\ OneFrame'
  BY <1>1, <1>2, <1>4 DEF TypeOk, OneFrame, Http_connect_socket, clients
<1>6. ASSUME NEW t \in Socks PROVE FetchInv(t)' /\ StageInv(t)'
  <2>1. /\ FetchInv(t) /\ StageInv(t) /\ (Freeing(t)' <=> Freeing(t))
        /\ (Connecting(t)' <=> t = s) /\ ~Connecting(t)
    BY <1>1, <1>3, <1>4, NoneAssumption DEF PoolInv, Freeing, Connecting
  <2>2. QED
    BY <1>1, <1>2, <1>4, <2>1
    DEF Http_connect_socket, FetchInv, StageInv, clients, TypeOk
<1>7. ASSUME NEW g \in Hosts PROVE CountInv(g)' /\ QueueInv(g)' /\ PlaceInv(g)'
  <2>1. ConnectedTo(g)' = ConnectedTo(g)
    BY DEF ConnectedTo, Http_connect_socket
  <2>2. QED
    BY <1>1, <1>3, <1>4, <2>1, CountKept, PlaceLoop DEF PoolInv
<1>8. QED
  BY <1>5, <1>6, <1>7 DEF PoolInv

\* The socket whose connection ends still waits for it, and there is room.
LEMMA ConnectingSocket ==
    ASSUME PoolInv, ConnectReturns
    PROVE  LET f == [frames[1] EXCEPT !.sock = None]
           IN  \E s \in Socks, h \in Hosts :
               /\ s = frames[1].sock /\ h = frames[1].host
               /\ Connecting(s) /\ StageInv(s) /\ FetchInv(s)
               /\ frames # <<>> /\ Len(frames) = 1 /\ Top = frames[1]
               /\ frames[1] \in FrameType /\ ~frames[1].stale
               /\ f \in FrameType /\ f.host = frames[1].host /\ f.sock = None
               /\ f.freeing = frames[1].freeing /\ ~f.stale
               /\ SetTop([Top EXCEPT !.sock = None]) \in Seq(FrameType)
               /\ SetTop([Top EXCEPT !.sock = None]) # <<>>
               /\ Len(SetTop([Top EXCEPT !.sock = None])) = 1
               /\ SetTop([Top EXCEPT !.sock = None])[1] = f
<1> DEFINE f == [frames[1] EXCEPT !.sock = None]
<1>1. frames # <<>> /\ TypeOk /\ OneFrame
  BY DEF PoolInv, ConnectReturns
<1>2. /\ Len(frames) = 1 /\ Top = frames[1] /\ frames[1] \in FrameType
      /\ ~frames[1].stale
  BY <1>1, OnlyFrame
<1>3. f \in FrameType /\ f.host = frames[1].host /\ f.sock = None
      /\ f.freeing = frames[1].freeing /\ ~f.stale
  BY <1>2 DEF FrameType
<1>4. frames[1].sock \in Socks /\ frames[1].host \in Hosts
  BY <1>2 DEF ConnectReturns, FrameType
<1>5. Connecting(frames[1].sock)
  BY <1>1 DEF Connecting
<1>6. QED
  BY <1>1, <1>2, <1>3, <1>4, <1>5, OnlyFrame DEF PoolInv

\* A connection takes a place of its host.
LEMMA ConnectOkKeeps ==
    ASSUME PoolInv, ConnectOk
    PROVE  PoolInv'
<1> DEFINE f == [frames[1] EXCEPT !.sock = None]
<1>1. PICK s \in Socks, h \in Hosts :
      /\ s = frames[1].sock /\ h = frames[1].host
      /\ Connecting(s) /\ StageInv(s) /\ FetchInv(s)
      /\ frames # <<>> /\ Top = frames[1] /\ frames[1] \in FrameType
      /\ f.host = h /\ f.sock = None
      /\ f.freeing = frames[1].freeing /\ ~f.stale
      /\ frames' \in Seq(FrameType) /\ frames' # <<>> /\ Len(frames') = 1
      /\ frames'[1] = f /\ ~frames'[1].stale /\ frames'[1].host = h
  BY ConnectingSocket DEF ConnectOk
<1> HIDE DEF f
<1> DEFINE c == [HostConnection(h) EXCEPT !.active = @ + 1]
<1>2. /\ s \in web /\ connected[s] = None /\ s \notin resolving \cup queued
      /\ h \in Hosts /\ host[s] = h /\ Active(h) < MaxConns
      /\ chain[s] = "open" /\ s \in valid
  BY <1>1 DEF StageInv, FetchInv, FrameType
<1>3. /\ TypeOk /\ HostConnection(h) \in PoolType /\ Active(h) \in Nat
      /\ Queue(h) \in Seq(Socks) /\ CountInv(h) /\ QueueInv(h)
  BY <1>2, ConnectionType DEF PoolInv
<1>4. c \in PoolType /\ c.active = Active(h) + 1 /\ c.queue = Queue(h)
  BY <1>3 DEF PoolType, Active, Queue
<1>5. pool' = [pool EXCEPT ![h] = c] /\ connected' = [connected EXCEPT ![s] = h]
  BY <1>1 DEF ConnectOk, Conns
<1>6. /\ pool' \in [Hosts -> {None} \cup PoolType]
      /\ Active(h)' = Active(h) + 1 /\ Queue(h)' = Queue(h)
      /\ \A g \in Hosts \ {h} : Active(g)' = Active(g) /\ Queue(g)' = Queue(g)
  BY <1>2, <1>3, <1>4, <1>5, PoolSet
<1>7. TypeOk' /\ OneFrame'
  <2>1. connected' \in [Socks -> Hosts \cup {None}]
    BY <1>2, <1>3, <1>5 DEF TypeOk
  <2>2. OneFrame'
    BY <1>1 DEF OneFrame
  <2>3. QED
    BY <1>1, <1>3, <1>6, <2>1, <2>2 DEF TypeOk, ConnectOk, clients
<1>8. ASSUME NEW t \in Socks PROVE FetchInv(t)' /\ StageInv(t)'
  <2>1. /\ FetchInv(t) /\ StageInv(t) /\ (Freeing(t)' <=> Freeing(t))
        /\ ~Connecting(t)' /\ (Connecting(t) <=> t = s)
    BY <1>1, NoneAssumption DEF PoolInv, Freeing, Connecting
  <2>2. QED
    BY <1>2, <1>3, <1>5, <2>1, NoneAssumption
    DEF ConnectOk, FetchInv, StageInv, clients, TypeOk
<1>9. ASSUME NEW g \in Hosts PROVE CountInv(g)' /\ QueueInv(g)' /\ PlaceInv(g)'
  <2>1. CountInv(g) /\ QueueInv(g) /\ PlaceInv(g)
    BY DEF PoolInv
  <2>2. QueueInv(g)' /\ PlaceInv(g)'
    BY <1>1, <1>6, <2>1, QueueKept, PlaceLoop DEF ConnectOk
  <2>3. CASE g = h
    <3>1. ConnectedTo(h)' = ConnectedTo(h) \cup {s} /\ s \notin ConnectedTo(h)
      BY <1>2, <1>3, <1>5, NoneAssumption DEF ConnectedTo, ConnectOk, TypeOk
    <3>2. /\ IsFiniteSet(ConnectedTo(h) \cup {s})
          /\ Cardinality(ConnectedTo(h) \cup {s}) = Active(h) + 1
      BY <1>3, <3>1, FS_AddElement DEF CountInv
    <3>3. Active(h) + 1 <= MaxConns
      BY <1>2, <1>3, MaxConnsAssumption
    <3>4. QED
      BY <1>6, <2>2, <2>3, <3>1, <3>2, <3>3 DEF CountInv
  <2>4. CASE g # h
    <3>1. ConnectedTo(g)' = ConnectedTo(g)
      BY <1>2, <1>3, <1>5, <2>4, NoneAssumption DEF ConnectedTo, ConnectOk, TypeOk
    <3>2. QED
      BY <1>6, <2>1, <2>2, <2>4, <3>1, CountKept
  <2>5. QED
    BY <2>3, <2>4
<1>10. QED
  BY <1>7, <1>8, <1>9 DEF PoolInv

\* A connection that fails leaves its place to the next socket of the queue.
LEMMA ConnectFailsKeeps ==
    ASSUME PoolInv, ConnectFails
    PROVE  PoolInv'
<1> DEFINE f == [frames[1] EXCEPT !.sock = None]
<1>1. PICK s \in Socks, h \in Hosts :
      /\ s = frames[1].sock /\ h = frames[1].host
      /\ Connecting(s) /\ StageInv(s) /\ FetchInv(s)
      /\ frames # <<>> /\ Top = frames[1]
      /\ f.host = h /\ f.sock = None
      /\ f.freeing = frames[1].freeing /\ ~f.stale
      /\ frames' \in Seq(FrameType) /\ frames' # <<>> /\ Len(frames') = 1
      /\ frames'[1] = f /\ ~frames'[1].stale /\ frames'[1].host = h
  BY ConnectingSocket DEF ConnectFails
<1> HIDE DEF f
<1>2. /\ s \in web /\ connected[s] = None /\ s \notin resolving \cup queued
      /\ chain[s] = "open" /\ s \in valid /\ freed[s] = 0 /\ TypeOk
  BY <1>1 DEF StageInv, FetchInv, PoolInv
<1>3. /\ chain' = [chain EXCEPT ![s] = "closed"]
      /\ web' = web \ {s} /\ others' = others \ {s}
      /\ \/ valid' = valid \ {s} /\ freed' = [freed EXCEPT ![s] = 1]
         \/ ~FreedLinkIntact /\ UNCHANGED <<valid, freed>>
      /\ UNCHANGED <<pool, queued, doomed, connected, host, resolving>>
  BY <1>1, <1>2 DEF ConnectFails, CloseChain, Free, TypeOk
<1>4. TypeOk' /\ OneFrame'
  BY <1>1, <1>2, <1>3 DEF TypeOk, OneFrame
<1>5. \A g : Active(g)' = Active(g) /\ Queue(g)' = Queue(g)
  BY <1>3, PoolKept
<1>6. ASSUME NEW t \in Socks PROVE FetchInv(t)' /\ StageInv(t)'
  <2>1. /\ FetchInv(t) /\ StageInv(t) /\ (Freeing(t)' <=> Freeing(t))
        /\ ~Connecting(t)' /\ (Connecting(t) <=> t = s)
    BY <1>1, NoneAssumption DEF PoolInv, Freeing, Connecting
  <2>2. CASE t = s
    BY <1>2, <1>3, <2>1, <2>2 DEF FetchInv, StageInv, TypeOk
  <2>3. CASE t # s
    BY <1>2, <1>3, <2>1, <2>3 DEF FetchInv, StageInv, TypeOk
  <2>4. QED
    BY <2>2, <2>3
<1>7. ASSUME NEW g \in Hosts PROVE CountInv(g)' /\ QueueInv(g)' /\ PlaceInv(g)'
  <2>1. ConnectedTo(g)' = ConnectedTo(g)
    BY <1>2, <1>3, NoneAssumption DEF ConnectedTo
  <2>2. QED
    BY <1>1, <1>3, <1>5, <2>1, CountKept, QueueKept, PlaceLoop DEF PoolInv
<1>8. QED
  BY <1>4, <1>6, <1>7 DEF PoolInv

\* The loop ends when the host is full or nobody waits for it; if a socket gave
\* its place up, the socket is freed now.
LEMMA LoopEndsKeeps ==
    ASSUME PoolInv, LoopEnds
    PROVE  PoolInv'
<1>1. frames # <<>> /\ TypeOk /\ OneFrame
  BY DEF PoolInv, LoopEnds, Running
<1>2. PICK h \in Hosts, s \in Socks \cup {None} :
      /\ h = frames[1].host /\ s = frames[1].freeing
      /\ Top = frames[1] /\ frames[1] \in FrameType
      /\ DOMAIN Pop = {} /\ Conns = HostConnection(h)
  BY <1>1, OnlyFrame DEF FrameType, Conns
<1> DEFINE last == s # None /\ Active(h) = 0
<1>3. /\ frames[1].sock = None
      /\ ~(Active(h) < MaxConns /\ Queue(h) # <<>>)
      /\ pool' = IF last THEN [pool EXCEPT ![h] = None] ELSE pool
      /\ freed' = IF s # None THEN [freed EXCEPT ![s] = @ + 1] ELSE freed
  BY <1>2 DEF LoopEnds, Running, RoomForOne, Active, Queue, Free
<1>4. frames' = <<>>
  <2>1. frames' = [i \in DOMAIN Pop |->
            [Pop[i] EXCEPT !.stale = @ \/ (Top.freeing # None /\ Conns.active = 0
                                           /\ Pop[i].host = Top.host)]]
    BY DEF LoopEnds
  <2>2. \A S : S = {} => [i \in S |->
            [Pop[i] EXCEPT !.stale = @ \/ (Top.freeing # None /\ Conns.active = 0
                                           /\ Pop[i].host = Top.host)]] = <<>>
    OBVIOUS
  <2>3. QED
    BY <1>2, <2>1, <2>2
<1>5. s # None => /\ s \in Socks /\ Freeing(s) /\ FetchInv(s) /\ StageInv(s)
                  /\ MaxConns > 0 /\ freed[s] = 0
  BY <1>1, <1>2 DEF PoolInv, Freeing, StageInv, FetchInv
<1>6. /\ pool' \in [Hosts -> {None} \cup PoolType]
      /\ \A g \in Hosts : Active(g)' = Active(g) /\ Queue(g)' = Queue(g)
  <2>1. CASE last
    <3>1. Active(h) = 0 /\ Queue(h) = <<>>
      BY <1>3, <1>5, <2>1, MaxConnsAssumption
    <3>2. QED
      BY <1>1, <1>2, <1>3, <2>1, <3>1, PoolRemove
  <2>2. CASE ~last
    BY <1>1, <1>3, <2>2, PoolKept DEF TypeOk
  <2>3. QED
    BY <2>1, <2>2
<1>7. TypeOk' /\ OneFrame'
  <2>1. freed' \in [Socks -> Nat]
    BY <1>1, <1>3, <1>5 DEF TypeOk
  <2>2. frames' \in Seq(FrameType) /\ OneFrame'
    BY <1>4, EmptySeq DEF OneFrame
  <2>3. QED
    BY <1>1, <1>6, <2>1, <2>2 DEF TypeOk, LoopEnds, clients
<1>8. ASSUME NEW t \in Socks PROVE FetchInv(t)' /\ StageInv(t)'
  <2>1. /\ FetchInv(t) /\ StageInv(t) /\ ~Connecting(t) /\ (Freeing(t) <=> t = s)
        /\ ~Freeing(t)' /\ ~Connecting(t)'
    BY <1>1, <1>2, <1>3, <1>4, NoneAssumption DEF PoolInv, Freeing, Connecting
  <2>2. CASE t = s
    BY <1>1, <1>3, <1>5, <2>1, <2>2, NoneAssumption
    DEF LoopEnds, FetchInv, StageInv, clients, TypeOk
  <2>3. CASE t # s
    BY <1>1, <1>3, <1>5, <2>1, <2>3 DEF LoopEnds, FetchInv, StageInv, clients, TypeOk
  <2>4. QED
    BY <2>2, <2>3
<1>9. ASSUME NEW g \in Hosts PROVE CountInv(g)' /\ QueueInv(g)' /\ PlaceInv(g)'
  <2>1. CountInv(g) /\ QueueInv(g) /\ PlaceInv(g)
    BY DEF PoolInv
  <2>2. ConnectedTo(g)' = ConnectedTo(g)
    BY DEF ConnectedTo, LoopEnds
  <2>3. PlaceInv(g)'
    BY <1>2, <1>3, <1>6, <2>1 DEF PlaceInv
  <2>4. QED
    BY <1>6, <2>1, <2>2, <2>3, CountKept, QueueKept DEF LoopEnds
<1>10. QED
  BY <1>7, <1>8, <1>9 DEF PoolInv

----------------------------------------------------------------------------
(* Every step preserves the invariant. *)

\* An iteration of Http_connect_queued_sockets keeps the invariant.
LEMMA LoopKeeps ==
    ASSUME PoolInv, LoopStep
    PROVE  PoolInv'
<1>1. ASSUME NEW s \in Socks, FreeDoomed(s) \/ SkipInvalid(s) \/ Http_connect_socket(s)
      PROVE  PoolInv'
  BY <1>1, FreeDoomedKeeps, SkipInvalidKeeps, ConnectKeeps
<1>2. QED
  BY <1>1, ConnectOkKeeps, ConnectFailsKeeps, LoopEndsKeeps DEF LoopStep

\* So does every handler.
LEMMA NextKeeps ==
    ASSUME PoolInv, ~NestedLoop, [Next]_vars
    PROVE  PoolInv'
<1>1. ASSUME NEW s \in Socks, NEW h \in Hosts, Start(s, h)
      PROVE  PoolInv'
  BY <1>1, StartKeeps
<1>2. ASSUME NEW s \in Socks, Http_dns_cb(s)
      PROVE  PoolInv'
  BY <1>2, DnsKeeps
<1>3. ASSUME NEW s \in Socks, End(s) \/ Abort(s)
      PROVE  PoolInv'
  BY <1>3, CloseFetchKeeps DEF End, Abort
<1>4. ASSUME NEW s \in Socks, Join(s)
      PROVE  PoolInv'
  <2>1. web' = web /\ others' = others \cup {s}
    BY <1>4 DEF Join
  <2>2. QED
    BY <1>4, <2>1, ClientKeeps DEF Join
<1>5. ASSUME NEW s \in Socks, NEW c \in {"opener", "other"}, StopClient(s, c)
      PROVE  PoolInv'
  BY <1>5, StopClientKeeps
<1>6. CASE UNCHANGED vars
  BY <1>6, StutterKeeps
<1>7. QED
  BY <1>1, <1>2, <1>3, <1>4, <1>5, <1>6, LoopKeeps DEF Next

\* The invariant of the pool, for any number of hosts and sockets and any limit.
THEOREM PoolInvariant ==
    ASSUME ~NestedLoop
    PROVE  Spec => []PoolInv
<1>1. PoolInv /\ [Next]_vars => PoolInv'
  BY NextKeeps
<1>2. QED
  BY <1>1, InitPoolInv, PTL DEF Spec

----------------------------------------------------------------------------
(* What follows from the invariant. *)

\* active_connections is right for every host.
LEMMA CountsAreRight ==
    ASSUME PoolInv
    PROVE  CountIsRight
BY DEF PoolInv, CountInv, CountIsRight, Active

\* The queues hold the sockets that wait, none of them freed.
LEMMA QueuesAreSound ==
    ASSUME PoolInv
    PROVE  QueueIsSound
<1>1. ASSUME NEW s \in queued
      PROVE  /\ s \in Socks /\ host[s] \in Hosts /\ freed[s] = 0
             /\ s \notin valid <=> s \in doomed
  BY DEF PoolInv, FetchInv, TypeOk
<1>2. ASSUME NEW h \in Hosts
      PROVE  /\ DOMAIN Queue(h) = 1 .. Len(Queue(h))
             /\ QueueInv(h)
  <2>1. Queue(h) \in Seq(Socks)
    BY ConnectionType DEF PoolInv
  <2>2. QED
    BY <2>1 DEF PoolInv
<1>3. \A h \in Hosts : LET q == HostConnection(h).queue
                       IN  \A i \in DOMAIN q :
                             /\ q[i] \in queued /\ host[q[i]] = h /\ freed[q[i]] = 0
                             /\ \A j \in DOMAIN q : q[i] = q[j] => i = j
  BY <1>1, <1>2 DEF QueueInv, Queue
<1>4. \A s \in queued : \E i \in DOMAIN HostConnection(host[s]).queue :
                           HostConnection(host[s]).queue[i] = s
  BY SMTT(20), <1>1, <1>2 DEF QueueInv, Queue
<1>5. queued \ valid = queued \cap doomed
  BY <1>1
<1>6. QED
  BY <1>3, <1>4, <1>5 DEF QueueIsSound

\* No socket waits for a host that has a free place.
LEMMA NoConnectionIsIdle ==
    ASSUME PoolInv
    PROVE  NoIdleConnection
<1> SUFFICES ASSUME frames = <<>>, NEW h \in Hosts, Queue(h) # <<>>
             PROVE  Active(h) >= MaxConns
  BY DEF NoIdleConnection, Queue, Active
<1>1. Active(h) \in Nat /\ PlaceInv(h)
  BY ConnectionType DEF PoolInv
<1>2. QED
  BY <1>1, MaxConnsAssumption DEF PlaceInv

\* A fetch whose opener is there waits for something or is connected.
LEMMA OpenersAreServed ==
    ASSUME PoolInv
    PROVE  OpenerIsServed
<1> SUFFICES ASSUME NEW s \in Socks, s \in web
             PROVE  \/ s \in resolving \cup queued
                    \/ connected[s] # None
                    \/ \E i \in DOMAIN frames : frames[i].sock = s
  BY DEF OpenerIsServed
<1>1. Connecting(s) => \E i \in DOMAIN frames : frames[i].sock = s
  <2>1. frames # <<>> => 1 \in DOMAIN frames
    BY OnlyFrame, LenProperties DEF PoolInv, TypeOk
  <2>2. QED
    BY <2>1 DEF Connecting
<1>2. QED
  BY <1>1 DEF PoolInv, StageInv

\* A socket is in ValidSocks until it is freed, when the key of a freed link is
\* still read back.
LEMMA SocketsAreFreedOnce ==
    ASSUME PoolInv, FreedLinkIntact
    PROVE  FreedOnce /\ ValidHasChain
<1> SUFFICES ASSUME NEW s \in Socks
             PROVE  /\ freed[s] <= 1
                    /\ s \in valid => freed[s] = 0
                    /\ chain[s] = "closed" /\ frames = <<>> /\ s \notin queued => freed[s] = 1
                    /\ s \in valid => chain[s] = "open"
  BY DEF FreedOnce, ValidHasChain, PoolInv, TypeOk
<1>1. FetchInv(s) /\ chain[s] \in {"none", "open", "closed"}
  BY DEF PoolInv, TypeOk
<1>2. s \in valid => chain[s] = "open"
  BY <1>1 DEF FetchInv
<1>3. QED
  BY <1>1, <1>2 DEF FetchInv, Freeing

\* http.c: the pool counts connections and queues sockets as its comments and its
\* assertions say, whatever order fetches begin, fail, end and are aborted in, if
\* no connection runs the event loop and a freed link keeps its contents.
THEOREM PoolRight ==
    ASSUME ~NestedLoop, FreedLinkIntact
    PROVE  Spec => []PoolIsRight
<1>1. PoolInv => PoolIsRight
  BY CountsAreRight, QueuesAreSound, NoConnectionIsIdle, OpenersAreServed,
     SocketsAreFreedOnce
  DEF PoolIsRight, PoolInv
<1>2. QED
  BY <1>1, PoolInvariant, PTL

\* Whatever is read from a freed link, no connection is miscounted, none is idle
\* while a socket waits for it, and no queue holds a freed socket.
THEOREM PoolSafe ==
    ASSUME ~NestedLoop
    PROVE  Spec => [](CountIsRight /\ QueueIsSound /\ NoIdleConnection /\ OpenerIsServed)
<1>1. PoolInv => CountIsRight /\ QueueIsSound /\ NoIdleConnection /\ OpenerIsServed
  BY CountsAreRight, QueuesAreSound, NoConnectionIsIdle, OpenersAreServed
<1>2. QED
  BY <1>1, PoolInvariant, PTL

----------------------------------------------------------------------------
(* The pool implements HttpService: a fetch is connected in the service when its *)
(* socket is and its chain is open.                                              *)

State == [s \in Socks |-> IF chain[s] = "open" /\ connected[s] # None
                          THEN "connected" ELSE chain[s]]

\* A step that neither opens, connects nor closes a fetch is none of the service.
LEMMA StateKept ==
    ASSUME UNCHANGED <<chain, connected, host>>
    PROVE  UNCHANGED Semaphore!svars
BY DEF Semaphore!svars

\* OpStart asks the service for a place.
LEMMA StateAsks ==
    ASSUME PoolInv, NEW s \in Socks, NEW h \in Hosts, Start(s, h)
    PROVE  Semaphore!Ask(s, h)
<1>1. /\ chain[s] = "none" /\ connected[s] = None /\ chain \in [Socks -> {"none", "open", "closed"}]
      /\ chain' = [chain EXCEPT ![s] = "open"] /\ connected' = connected
      /\ host' = [host EXCEPT ![s] = h]
  BY DEF Start, PoolInv, FetchInv, StageInv, TypeOk
<1>2. State' = [State EXCEPT ![s] = "open"] /\ State[s] = "none"
  BY <1>1 DEF State
<1>3. QED
  BY <1>1, <1>2 DEF Semaphore!Ask, State

\* A chain that closes gives its place back.
LEMMA StateCloses ==
    ASSUME TypeOk, NEW s \in Socks, chain[s] = "open", CloseChain(s),
           UNCHANGED <<connected, host>>
    PROVE  Semaphore!Close(s)
<1>1. /\ chain \in [Socks -> {"none", "open", "closed"}]
      /\ chain' = [chain EXCEPT ![s] = "closed"]
  BY DEF TypeOk, CloseChain
<1>2. State' = [State EXCEPT ![s] = "closed"] /\ State[s] \in {"open", "connected"}
  BY <1>1 DEF State
<1>3. QED
  BY <1>1, <1>2 DEF Semaphore!Close, State

\* The fetches that are connected to a host are the sockets that it counts.
LEMMA SameConnections ==
    ASSUME PoolInv, NEW h \in Hosts
    PROVE  Semaphore!ConnectedTo(h) = ConnectedTo(h)
<1>1. \A s \in Socks : FetchInv(s) /\ StageInv(s) /\ chain[s] \in {"none", "open", "closed"}
  BY DEF PoolInv, TypeOk
<1>2. valid \subseteq Socks /\ h # None
  BY NoneAssumption DEF PoolInv, TypeOk
<1>3. \A s \in Socks : (s \in valid /\ connected[s] = h)
                       <=> (chain[s] = "open" /\ connected[s] # None /\ host[s] = h)
  BY <1>1, <1>2 DEF FetchInv, StageInv
<1>4. \A s \in Socks : State[s] = "connected" <=> chain[s] = "open" /\ connected[s] # None
  BY <1>1 DEF State
<1>5. QED
  BY <1>2, <1>3, <1>4 DEF Semaphore!ConnectedTo, ConnectedTo, State

\* The service counts as the pool does.
LEMMA SameCardinality ==
    ASSUME NEW S
    PROVE  Semaphore!Cardinality(S) = Cardinality(S)
BY DEF Semaphore!Cardinality, Cardinality

\* Http_connect_socket takes a place that is free.
LEMMA StateConnects ==
    ASSUME PoolInv, ConnectOk
    PROVE  \E s \in Socks : Semaphore!Connect(s)
<1>1. PICK s \in Socks, h \in Hosts :
      /\ s = frames[1].sock /\ h = frames[1].host
      /\ Connecting(s) /\ StageInv(s) /\ FetchInv(s) /\ Top = frames[1]
  BY ConnectingSocket DEF ConnectOk
<1>2. /\ host[s] = h /\ Active(h) < MaxConns /\ chain[s] = "open" /\ connected[s] = None
      /\ connected \in [Socks -> Hosts \cup {None}]
      /\ chain \in [Socks -> {"none", "open", "closed"}]
  BY <1>1 DEF StageInv, FetchInv, PoolInv, TypeOk
<1>3. connected' = [connected EXCEPT ![s] = h] /\ UNCHANGED <<chain, host>>
  BY <1>1 DEF ConnectOk, clients
<1>4. State' = [State EXCEPT ![s] = "connected"] /\ State[s] = "open"
  BY <1>2, <1>3, NoneAssumption DEF State
<1>5. Semaphore!Cardinality(Semaphore!ConnectedTo(host[s])) < MaxConns
  BY <1>2, SameConnections, SameCardinality DEF PoolInv, CountInv
<1>6. Semaphore!Connect(s)
  BY <1>3, <1>4, <1>5 DEF Semaphore!Connect, State
<1>7. QED
  BY <1>6

\* An iteration of Http_connect_queued_sockets is a step of the service.
LEMMA LoopImplements ==
    ASSUME PoolInv, LoopStep
    PROVE  [Semaphore!SNext]_Semaphore!svars
<1>1. ASSUME NEW s \in Socks, FreeDoomed(s) \/ SkipInvalid(s) \/ Http_connect_socket(s)
      PROVE  UNCHANGED <<chain, connected, host>>
  BY <1>1 DEF FreeDoomed, SkipInvalid, Http_connect_socket, clients
<1>2. CASE ConnectOk
  BY <1>2, StateConnects DEF Semaphore!SNext
<1>3. CASE ConnectFails
  <2>1. PICK s \in Socks : s = Top.sock /\ chain[s] = "open" /\ TypeOk
    <3>1. PICK s \in Socks : s = frames[1].sock /\ Connecting(s) /\ StageInv(s) /\ FetchInv(s)
                             /\ Top = frames[1]
      BY <1>3, ConnectingSocket DEF ConnectFails
    <3>2. QED
      BY <3>1 DEF StageInv, FetchInv, PoolInv
  <2>2. QED
    BY <1>3, <2>1, StateCloses DEF ConnectFails, Semaphore!SNext
<1>4. CASE LoopEnds
  BY <1>4, StateKept DEF LoopEnds, clients
<1>5. QED
  BY <1>1, <1>2, <1>3, <1>4, StateKept DEF LoopStep

\* Every handler is a step of the service or none.
LEMMA StepImplements ==
    ASSUME PoolInv, [Next]_vars
    PROVE  [Semaphore!SNext]_Semaphore!svars
<1>1. ASSUME NEW s \in Socks, NEW h \in Hosts, Start(s, h)
      PROVE  Semaphore!SNext
  BY <1>1, StateAsks DEF Semaphore!SNext
<1>2. ASSUME NEW s \in Socks, CloseFetch(s)
      PROVE  Semaphore!SNext
  BY <1>2, StateCloses DEF CloseFetch, PoolInv, Semaphore!SNext
<1>3. ASSUME NEW s \in Socks, Http_dns_cb(s)
      PROVE  [Semaphore!SNext]_Semaphore!svars
  <2>1. CASE DnsAborts(s)
    <3>1. chain[s] = "open"
      BY <1>3, <2>1 DEF DnsAborts, Http_dns_cb, PoolInv, FetchInv, TypeOk
    <3>2. QED
      BY <1>3, <2>1, <3>1, StateCloses DEF Http_dns_cb, DnsAborts, PoolInv, Semaphore!SNext
  <2>2. CASE DnsAnswersNobody(s) \/ DnsQueues(s)
    BY <1>3, <2>2, StateKept DEF Http_dns_cb, DnsAnswersNobody, DnsQueues, sockets, clients
  <2>3. QED
    BY <1>3, <2>1, <2>2 DEF Http_dns_cb
<1>4. ASSUME NEW s \in Socks, Join(s)
      PROVE  UNCHANGED Semaphore!svars
  BY <1>4, StateKept DEF Join, sockets
<1>5. ASSUME NEW s \in Socks, NEW c \in {"opener", "other"}, StopClient(s, c)
      PROVE  [Semaphore!SNext]_Semaphore!svars
  <2>1. CASE OnlyDequeue(s, c)
    BY <2>1, StateKept DEF OnlyDequeue, sockets
  <2>2. QED
    BY <1>2, <1>5, <2>1 DEF StopClient
<1>6. CASE UNCHANGED vars
  BY <1>6, StateKept DEF vars
<1>7. QED
  BY <1>1, <1>2, <1>3, <1>4, <1>5, <1>6, LoopImplements DEF Next, End, Abort

\* http.c passes every fetch through a counting semaphore of http_max_conns places
\* per host: a socket is connected only when fewer than that are.
THEOREM PoolImplementsService ==
    ASSUME ~NestedLoop
    PROVE  Spec => ImplementsHttpService
<1>1. Init => Semaphore!SInit
  BY DEF Init, Semaphore!SInit
<1>2. PoolInv /\ [Next]_vars => [Semaphore!SNext]_Semaphore!svars
  BY StepImplements
<1>3. QED
  BY <1>1, <1>2, PoolInvariant, PTL
  DEF Spec, ImplementsHttpService, Semaphore!Service
=============================================================================
