----------------------------- MODULE DnsProofs -----------------------------
(***************************************************************************)
(* Safety of the resolver for any number of channels, hosts and requests.  *)
(* The invariant is built in layers: the types; OrderlyInv, how handlers,  *)
(* channels and queue entries belong together; OwedInv, which adds what    *)
(* requests are owed; SafeInv, which adds whose addresses they get.  Only  *)
(* the last one needs the stores of a thread to be seen in program order;  *)
(* all but the types need callbacks that do not run the event loop.  Each  *)
(* layer has a lemma for each action, and the shape of the handler stack   *)
(* after an action is a lemma of its own (the ...Frame lemmas).            *)
(***************************************************************************)
EXTENDS Dns, SequenceTheorems, WellFoundedInduction, TLAPS

----------------------------------------------------------------------------
(* The sequence helpers. *)

\* Dns_queue_remove shortens the queue by one and keeps its order.
LEMMA QueueRemoveShape ==
    ASSUME NEW S, NEW q \in Seq(S), NEW index \in 1 .. Len(q)
    PROVE  /\ QueueRemove(q, index) \in Seq(S)
           /\ Len(QueueRemove(q, index)) = Len(q) - 1
           /\ DOMAIN QueueRemove(q, index) = 1 .. Len(q) - 1
           /\ \A i \in 1 .. Len(q) - 1 :
                QueueRemove(q, index)[i] = IF i < index THEN q[i] ELSE q[i + 1]
<1> DEFINE r == [i \in 1 .. Len(q) - 1 |-> IF i < index THEN q[i] ELSE q[i + 1]]
<1>1. Len(q) \in Nat /\ q \in [1 .. Len(q) -> S] /\ Len(q) - 1 \in Nat
  BY LenProperties
<1>2. QueueRemove(q, index) = r
  BY <1>1 DEF QueueRemove
<1>3. r \in [1 .. Len(q) - 1 -> S]
  BY <1>1
<1>4. r \in Seq(S)
  BY <1>1, <1>3, SeqDef
<1>5. Len(r) = Len(q) - 1 /\ DOMAIN r = 1 .. Len(q) - 1
  BY <1>1, <1>3, <1>4, LenProperties
<1>6. QED
  BY <1>2, <1>4, <1>5

\* (Index 0 is no entry, but removing there drops one too.)
LEMMA QueueRemoveZero ==
    ASSUME NEW S, NEW q \in Seq(S)
    PROVE  /\ QueueRemove(q, 0) \in Seq(S)
           /\ Len(q) > 0 => Len(QueueRemove(q, 0)) = Len(q) - 1
<1> DEFINE r == [i \in 1 .. Len(q) - 1 |-> IF i < 0 THEN q[i] ELSE q[i + 1]]
<1>1. Len(q) \in Nat /\ q \in [1 .. Len(q) -> S]
  BY LenProperties
<1>2. QueueRemove(q, 0) = r
  BY <1>1 DEF QueueRemove
<1>3. CASE Len(q) = 0
  <2>1. 1 .. Len(q) - 1 = {} /\ 1 .. 0 = {}
    BY <1>3
  <2>2. r \in [1 .. 0 -> S]
    BY <2>1
  <2>3. r \in Seq(S)
    BY <2>2, SeqDef
  <2>4. ~(Len(q) > 0)
    BY <1>3
  <2> HIDE DEF r
  <2>5. QED
    BY <1>2, <2>3, <2>4
<1>4. CASE Len(q) > 0
  <2>1. Len(q) - 1 \in Nat
    BY <1>1, <1>4
  <2>2. \A i \in 1 .. Len(q) - 1 : r[i] = q[i + 1] /\ i + 1 \in 1 .. Len(q)
    BY <1>1, <2>1
  <2>3. r \in [1 .. Len(q) - 1 -> S]
    BY <1>1, <2>2
  <2>4. r \in Seq(S) /\ DOMAIN r = 1 .. Len(q) - 1
    BY <2>1, <2>3, SeqDef
  <2>5. Len(r) = Len(q) - 1
    BY <2>1, <2>4, LenProperties
  <2>6. QED
    BY <1>2, <2>4, <2>5
<1>5. Len(q) = 0 \/ Len(q) > 0
  BY <1>1
<1>6. QED
  BY <1>3, <1>4, <1>5

\* A search that can succeed has a first hit, so the CHOOSE in Dns_queue_find
\* and in the cache search denotes an index of the sequence.
LEMMA FirstExists ==
    ASSUME NEW S, NEW q \in Seq(S), NEW h,
           \E i \in DOMAIN q : q[i].host = h
    PROVE  \E i \in DOMAIN q : FirstOf(q, h, i)
<1> DEFINE T == {i \in DOMAIN q : q[i].host = h}
<1>1. Len(q) \in Nat /\ DOMAIN q = 1 .. Len(q)
  BY LenProperties
<1>2. T \subseteq Nat /\ T # {}
  BY <1>1
<1>3. PICK x \in T : \A y \in T : ~ (<<y, x>> \in OpToRel(<, Nat))
  BY <1>2, NatLessThanWellFounded, WFMin
<1>4. \A y \in T : ~ (y < x)
  BY <1>2, <1>3 DEF OpToRel
<1>5. \A j \in 1 .. x - 1 : q[j].host # h
  BY <1>1, <1>4
<1>6. QED
  BY <1>5 DEF FirstOf

\* The host found is the one searched.
LEMMA FindsHost ==
    ASSUME NEW S, NEW q \in Seq(S), NEW h,
           \E i \in DOMAIN q : q[i].host = h
    PROVE  LET i == CHOOSE k \in DOMAIN q : FirstOf(q, h, k)
           IN  i \in DOMAIN q /\ q[i].host = h
<1>1. \E i \in DOMAIN q : FirstOf(q, h, i)
  BY FirstExists
<1>2. QED
  BY <1>1 DEF FirstOf

----------------------------------------------------------------------------
(* Type correctness, for every build: with or without threads, nested event  *)
(* loops and reordered stores.                                               *)

LEMMA InitTypeOk == Init => TypeOk
<1> SUFFICES ASSUME Init PROVE TypeOk
  OBVIOUS
<1>1. ServerTypeOk
  BY DEF Init, ServerTypeOk, ThreadPcs
<1>2. queue \in Seq(EntryType) /\ cache \in Seq(CacheType) /\ frames \in Seq(FrameType)
  BY EmptySeq DEF Init
<1>3. asked \in [Requests -> Hosts \cup {None}]
  BY DEF Init
<1>4. answers \in [Requests -> Seq(Hosts \cup {None})]
  BY EmptySeq DEF Init
<1>5. QED
  BY <1>1, <1>2, <1>3, <1>4 DEF TypeOk

\* A step that leaves the channels alone.
LEMMA ServerUnchanged ==
    ServerTypeOk /\ UNCHANGED <<server, lookup, timers>> => ServerTypeOk'
BY DEF ServerTypeOk, server, lookup

\* Dns_server_req keeps the types of the channel tables.
LEMMA ServerReqTypeOk ==
    ASSUME ServerTypeOk, NEW ch \in Channels, NEW h \in Hosts, ServerReq(ch, h)
    PROVE  ServerTypeOk'
<1>1. in_use' \in [Channels -> BOOLEAN]
  BY DEF ServerTypeOk, ServerReq
<1>2. ip_ready' \in [Channels -> BOOLEAN]
  BY DEF ServerTypeOk, ServerReq
<1>3. addr_list' \in [Channels -> Hosts \cup {None}]
  BY DEF ServerTypeOk, ServerReq
<1>4. hostname' \in [Channels -> Hosts \cup {None}]
  BY DEF ServerTypeOk, ServerReq
<1>5. timers' \in [Channels -> Nat]
  BY DEF ServerTypeOk, ServerReq
<1>6. thread' \in [Channels -> ThreadPcs]
  BY DEF ServerTypeOk, ServerReq, ThreadPcs
<1>7. found' \in [Channels -> Hosts \cup {None}]
  BY DEF ServerTypeOk, ServerReq
<1>8. QED
  BY <1>1, <1>2, <1>3, <1>4, <1>5, <1>6, <1>7 DEF ServerTypeOk

LEMMA ResolveTypeOk ==
    ASSUME TypeOk, NEW r \in Requests, NEW h \in Hosts, a_Dns_resolve(r, h)
    PROVE  TypeOk'
<1>1. /\ ServerTypeOk /\ queue \in Seq(EntryType)
      /\ cache' \in Seq(CacheType) /\ frames' \in Seq(FrameType)
  BY DEF TypeOk, a_Dns_resolve
<1>2. asked' \in [Requests -> Hosts \cup {None}]
  BY DEF TypeOk, a_Dns_resolve
<1>3. answers \in [Requests -> Seq(Hosts \cup {None})]
  BY DEF TypeOk
<1>4. \A c \in Channels \cup {Waiting} : Entry(c, h, r) \in EntryType
  BY DEF Entry, EntryType
<1>5. CASE AnswerFromCache(r, h)
  <2>1. cache \in Seq(CacheType) /\ \E i \in DOMAIN cache : cache[i].host = h
    BY <1>5 DEF AnswerFromCache, Cached, TypeOk
  <2>2. CachedAddr(h) \in Hosts
    <3> DEFINE k == CHOOSE i \in DOMAIN cache : FirstOf(cache, h, i)
    <3>1. k \in DOMAIN cache
      BY <2>1, FindsHost
    <3>2. cache[k] \in CacheType
      BY <2>1, <3>1, ElementOfSeq, LenProperties
    <3>3. QED
      BY <3>2 DEF CachedAddr, CacheType
  <2>3. \A s \in Seq(Hosts \cup {None}) : Append(s, CachedAddr(h)) \in Seq(Hosts \cup {None})
    BY <2>2, AppendProperties
  <2>4. answers' = [answers EXCEPT ![r] = Append(answers[r], CachedAddr(h))]
    BY <1>5 DEF AnswerFromCache
  <2>5. answers' \in [Requests -> Seq(Hosts \cup {None})]
    BY <1>3, <2>3, <2>4
  <2>6. ServerTypeOk' /\ queue' \in Seq(EntryType)
    BY <1>1, <1>5, ServerUnchanged DEF AnswerFromCache, server, lookup
  <2>7. QED
    BY <1>1, <1>2, <2>5, <2>6 DEF TypeOk
<1>6. CASE JoinQueue(r, h)
  <2> DEFINE k == QueueFind(queue, h)
  <2>1. k \in DOMAIN queue
    BY <1>1, <1>6, FindsHost DEF JoinQueue, QueueFound, QueueFind
  <2>2. queue[k] \in EntryType
    BY <1>1, <2>1, ElementOfSeq, LenProperties
  <2>3. queue[k].channel \in Channels \cup {Waiting}
    BY <2>2 DEF EntryType
  <2>4. queue' = Append(queue, Entry(queue[k].channel, h, r))
    BY <1>6 DEF JoinQueue
  <2>5. queue' \in Seq(EntryType)
    BY <1>1, <1>4, <2>3, <2>4, AppendProperties
  <2>6. ServerTypeOk' /\ answers' = answers
    BY <1>1, <1>6, ServerUnchanged DEF JoinQueue, server, lookup
  <2>7. QED
    BY <1>1, <1>2, <1>3, <2>5, <2>6 DEF TypeOk
<1>7. ASSUME NEW ch \in Channels, StartLookup(r, h, ch) PROVE TypeOk'
  <2>1. queue' \in Seq(EntryType)
    BY <1>1, <1>4, <1>7, AppendProperties DEF StartLookup
  <2>2. ServerTypeOk' /\ answers' = answers
    BY <1>1, <1>7, ServerReqTypeOk DEF StartLookup
  <2>3. QED
    BY <1>1, <1>2, <1>3, <2>1, <2>2 DEF TypeOk
<1>8. CASE WaitForChannel(r, h)
  <2>1. queue' \in Seq(EntryType)
    BY <1>1, <1>4, <1>8, AppendProperties DEF WaitForChannel
  <2>2. ServerTypeOk' /\ answers' = answers
    BY <1>1, <1>8, ServerUnchanged DEF WaitForChannel, server, lookup
  <2>3. QED
    BY <1>1, <1>2, <1>3, <2>1, <2>2 DEF TypeOk
<1>9. QED
  BY <1>5, <1>6, <1>7, <1>8 DEF a_Dns_resolve

\* What Dns_timeout_client needs to cache a pair of hosts: a channel that has
\* addresses, or whose thread runs, has had a host name.
Named ==
    \A ch \in Channels :
        thread[ch] # "none" \/ addr_list[ch] # None => hostname[ch] # None

LEMMA TimeoutTypeOk ==
    ASSUME TypeOk, Named, NEW ch \in Channels, Dns_timeout_client(ch)
    PROVE  TypeOk'
<1>1. /\ ServerTypeOk /\ timers \in [Channels -> Nat]
      /\ cache \in Seq(CacheType) /\ frames \in Seq(FrameType)
  BY DEF TypeOk, ServerTypeOk
<1>2. ServerTypeOk'
  <2>1. timers[ch] - 1 \in Nat
    BY <1>1 DEF Dns_timeout_client
  <2>2. timers' = [timers EXCEPT ![ch] = timers[ch] - 1]
    BY DEF Dns_timeout_client
  <2>3. timers' \in [Channels -> Nat]
    BY <1>1, <2>1, <2>2
  <2>4. UNCHANGED <<server, lookup>>
    BY DEF Dns_timeout_client
  <2>5. QED
    BY <1>1, <2>3, <2>4 DEF ServerTypeOk, server, lookup
<1>3. cache' \in Seq(CacheType)
  <2>1. CASE addr_list[ch] = None
    BY <1>1, <2>1 DEF Dns_timeout_client
  <2>2. CASE addr_list[ch] # None
    <3> DEFINE c == [host |-> hostname[ch], addr |-> addr_list[ch]]
    <3>1. c \in CacheType
      BY <1>1, <2>2 DEF Named, CacheType, ServerTypeOk
    <3>2. cache' = Append(cache, c)
      BY <2>2 DEF Dns_timeout_client
    <3>3. QED
      BY <1>1, <3>1, <3>2, AppendProperties
  <2>3. QED
    BY <2>1, <2>2
<1>4. frames' \in Seq(FrameType)
  <2>1. [ch |-> ch, pc |-> "scan", i |-> 1] \in FrameType
    BY DEF FrameType
  <2>2. QED
    BY <1>1, <2>1, AppendProperties DEF Dns_timeout_client
<1>5. QED
  BY <1>2, <1>3, <1>4 DEF TypeOk, Dns_timeout_client

\* The innermost frame, when a handler is active, and what replaces it.
LEMMA TopType ==
    ASSUME TypeOk, frames # <<>>
    PROVE  /\ Len(frames) \in 1 .. Len(frames)
           /\ Top \in FrameType /\ Top.ch \in Channels /\ Top.i \in Nat
<1>1. frames \in Seq(FrameType)
  BY DEF TypeOk
<1>2. Len(frames) \in 1 .. Len(frames)
  BY <1>1, EmptySeq, LenProperties
<1>3. Top \in FrameType
  BY <1>1, <1>2, ElementOfSeq DEF Top
<1>4. QED
  BY <1>2, <1>3 DEF FrameType

LEMMA SetTopType ==
    ASSUME TypeOk, frames # <<>>, NEW f \in FrameType, SetTop(f)
    PROVE  frames' \in Seq(FrameType)
BY TopType, ExceptSeq DEF SetTop, TypeOk

LEMMA AnswerEntryTypeOk ==
    ASSUME TypeOk, AnswerEntry PROVE TypeOk'
<1>1. /\ frames # <<>> /\ Top \in FrameType /\ Top.ch \in Channels
      /\ queue \in Seq(EntryType) /\ ServerTypeOk
      /\ answers \in [Requests -> Seq(Hosts \cup {None})]
  BY TopType DEF AnswerEntry, InHandler, TypeOk
<1>2. PICK i \in DOMAIN queue :
        /\ answers' = [answers EXCEPT ![queue[i].req] = Append(@, addr_list[Top.ch])]
        /\ SetTop([Top EXCEPT !.pc = "callback", !.i = i])
  BY DEF AnswerEntry
<1>3. i \in Nat /\ queue[i] \in EntryType
  BY <1>1, <1>2, ElementOfSeq, LenProperties
<1>4. [Top EXCEPT !.pc = "callback", !.i = i] \in FrameType
  BY <1>1, <1>3 DEF FrameType
<1>5. frames' \in Seq(FrameType)
  BY <1>1, <1>2, <1>4, SetTopType
<1>6. addr_list[Top.ch] \in Hosts \cup {None} /\ queue[i].req \in Requests
  BY <1>1, <1>3 DEF ServerTypeOk, EntryType
<1>7. \A s \in Seq(Hosts \cup {None}) :
        Append(s, addr_list[Top.ch]) \in Seq(Hosts \cup {None})
  BY <1>6, AppendProperties
<1>8. answers' \in [Requests -> Seq(Hosts \cup {None})]
  BY <1>1, <1>2, <1>6, <1>7
<1>9. ServerTypeOk'
  BY <1>1, ServerUnchanged DEF AnswerEntry, server, lookup
<1>10. QED
  BY <1>5, <1>8, <1>9 DEF AnswerEntry, TypeOk

LEMMA CallbackReturnsTypeOk ==
    ASSUME TypeOk, CallbackReturns PROVE TypeOk'
<1>1. /\ frames # <<>> /\ Top \in FrameType /\ Top.i \in Nat
      /\ queue \in Seq(EntryType) /\ ServerTypeOk
  BY TopType DEF CallbackReturns, InHandler, TypeOk
<1>2. [Top EXCEPT !.pc = "scan"] \in FrameType
  BY <1>1 DEF FrameType
<1>3. frames' \in Seq(FrameType)
  BY <1>1, <1>2, SetTopType DEF CallbackReturns
<1>4. queue' \in Seq(EntryType)
  <2>1. Len(queue) \in Nat /\ queue' = QueueRemove(queue, Top.i)
    BY <1>1, LenProperties DEF CallbackReturns
  <2>2. CASE Top.i \in 1 .. Len(queue)
    BY <1>1, <2>1, <2>2, QueueRemoveShape
  <2>3. CASE Top.i > Len(queue)
    BY <1>1, <2>1, <2>3 DEF QueueRemove
  <2>4. CASE Top.i = 0
    BY <1>1, <2>1, <2>4, QueueRemoveZero
  <2>5. QED
    BY <1>1, <2>1, <2>2, <2>3, <2>4
<1>5. ServerTypeOk'
  BY <1>1, ServerUnchanged DEF CallbackReturns, server, lookup
<1>6. QED
  BY <1>3, <1>4, <1>5 DEF CallbackReturns, TypeOk


LEMMA FreeTheChannelTypeOk ==
    ASSUME TypeOk, FreeTheChannel PROVE TypeOk'
<1>1. /\ frames # <<>> /\ Top \in FrameType /\ Top.ch \in Channels /\ ServerTypeOk
  BY TopType DEF FreeTheChannel, InHandler, TypeOk
<1>2. [Top EXCEPT !.pc = "assign", !.i = 0] \in FrameType
  BY <1>1 DEF FrameType
<1>3. frames' \in Seq(FrameType)
  BY <1>1, <1>2, SetTopType DEF FreeTheChannel
<1>4. in_use' \in [Channels -> BOOLEAN]
  BY <1>1 DEF FreeTheChannel, ServerTypeOk
<1>5. ServerTypeOk'
  BY <1>1, <1>4 DEF FreeTheChannel, ServerTypeOk, lookup
<1>6. QED
  BY <1>3, <1>5 DEF FreeTheChannel, TypeOk

\* A channel is given to entries of the queue: the queue keeps its shape.
LEMMA AssignedQueue ==
    ASSUME NEW q \in Seq(EntryType), NEW i \in DOMAIN q, NEW ch \in Channels
    PROVE  LET r == Assigned(q, i, ch)
           IN  /\ r \in Seq(EntryType) /\ Len(r) = Len(q) /\ DOMAIN r = DOMAIN q
               /\ \A j \in DOMAIN q :
                    /\ r[j].host = q[j].host /\ r[j].req = q[j].req
                    /\ r[j].channel # q[j].channel =>
                         q[j].channel = Waiting /\ r[j].channel = ch /\ q[j].host = q[i].host
<1> DEFINE r == Assigned(q, i, ch)
<1>1. Len(q) \in Nat /\ DOMAIN q = 1 .. Len(q) /\ \A j \in DOMAIN q : q[j] \in EntryType
  BY ElementOfSeq, LenProperties
<1>2. \A j \in DOMAIN q : [q[j] EXCEPT !.channel = ch] \in EntryType
  BY <1>1 DEF EntryType
<1>3. \A j \in DOMAIN q : r[j] \in EntryType
  BY <1>1, <1>2 DEF Assigned
<1>4. r \in [1 .. Len(q) -> EntryType]
  BY <1>1, <1>3 DEF Assigned
<1>5. r \in Seq(EntryType)
  BY <1>1, <1>4, SeqDef
<1>6. DOMAIN r = 1 .. Len(q) /\ Len(r) = Len(q)
  BY <1>1, <1>4, <1>5, LenProperties
<1>7. \A j \in DOMAIN q :
        /\ r[j].host = q[j].host /\ r[j].req = q[j].req
        /\ r[j].channel # q[j].channel =>
             q[j].channel = Waiting /\ r[j].channel = ch /\ q[j].host = q[i].host
  <2> TAKE j \in DOMAIN q
  <2> DEFINE taken == j >= i /\ q[j].channel = Waiting /\ q[j].host = q[i].host
  <2>1. r[j] = IF taken THEN [q[j] EXCEPT !.channel = ch] ELSE q[j]
    BY DEF Assigned
  <2>2. q[j] = [channel |-> q[j].channel, host |-> q[j].host, req |-> q[j].req]
    BY <1>1 DEF EntryType
  <2>3. CASE taken
    <3>1. r[j] = [channel |-> ch, host |-> q[j].host, req |-> q[j].req]
      BY <2>1, <2>2, <2>3
    <3>2. QED
      BY <2>3, <3>1
  <2>4. CASE ~taken
    <3>1. r[j] = q[j]
      BY <2>1, <2>4
    <3>2. QED
      BY <3>1
  <2>5. QED
    BY <2>3, <2>4
<1>8. QED
  BY <1>1, <1>5, <1>6, <1>7

LEMMA AssignChannelTypeOk ==
    ASSUME TypeOk, AssignChannel PROVE TypeOk'
<1>1. /\ frames # <<>> /\ Top \in FrameType /\ Top.i \in Nat /\ ServerTypeOk
      /\ queue \in Seq(EntryType)
  BY TopType DEF AssignChannel, InHandler, TypeOk
<1>2. Top.i \in Channels
  BY <1>1, NumServersAssumption DEF AssignChannel, Channels
<1>3. PICK i \in DOMAIN queue :
        /\ queue' = Assigned(queue, i, Top.i)
        /\ ServerReq(Top.i, queue[i].host)
  BY DEF AssignChannel
<1>4. queue' \in Seq(EntryType)
  BY <1>1, <1>2, <1>3, AssignedQueue
<1>5. queue[i] \in EntryType
  BY <1>1, <1>3, ElementOfSeq, LenProperties
<1>6. queue[i].host \in Hosts
  BY <1>5 DEF EntryType
<1>7. ServerTypeOk'
  BY <1>1, <1>2, <1>3, <1>6, ServerReqTypeOk
<1>8. [Top EXCEPT !.i = @ + 1] \in FrameType
  BY <1>1 DEF FrameType
<1>9. frames' \in Seq(FrameType)
  BY <1>1, <1>8, SetTopType DEF AssignChannel
<1>10. QED
  BY <1>4, <1>7, <1>9 DEF AssignChannel, TypeOk

LEMMA SkipBusyChannelTypeOk ==
    ASSUME TypeOk, SkipBusyChannel PROVE TypeOk'
<1>1. frames # <<>> /\ Top \in FrameType /\ Top.i \in Nat /\ ServerTypeOk
  BY TopType DEF SkipBusyChannel, InHandler, TypeOk
<1>2. [Top EXCEPT !.i = @ + 1] \in FrameType
  BY <1>1 DEF FrameType
<1>3. frames' \in Seq(FrameType)
  BY <1>1, <1>2, SetTopType DEF SkipBusyChannel
<1>4. ServerTypeOk'
  BY <1>1, ServerUnchanged DEF SkipBusyChannel, server, lookup
<1>5. QED
  BY <1>3, <1>4 DEF SkipBusyChannel, TypeOk

LEMMA HandlerReturnsTypeOk ==
    ASSUME TypeOk, HandlerReturns PROVE TypeOk'
<1>1. frames \in Seq(FrameType) /\ Len(frames) \in Nat /\ ServerTypeOk
  BY LenProperties DEF TypeOk
<1>2. \A i \in 1 .. Len(frames) - 1 : frames[i] \in FrameType
  BY <1>1, ElementOfSeq
<1>3. SubSeq(frames, 1, Len(frames) - 1) \in Seq(FrameType)
  BY <1>1, <1>2, SubSeqProperties
<1>4. ServerTypeOk'
  BY <1>1, ServerUnchanged DEF HandlerReturns, server, lookup
<1>5. QED
  BY <1>3, <1>4 DEF HandlerReturns, TypeOk

\* The steps of the lookup thread.
LEMMA DnsServerTypeOk ==
    ASSUME TypeOk, Named, NEW ch \in Channels, Dns_server(ch) PROVE TypeOk'
<1>1. ServerTypeOk
  BY DEF TypeOk
<1>2. CASE Lookup(ch)
  <2>1. found' \in [Channels -> Hosts \cup {None}] /\ thread' \in [Channels -> ThreadPcs]
    BY <1>1, <1>2 DEF Lookup, ServerTypeOk, ThreadPcs
  <2>2. ServerTypeOk'
    BY <1>1, <1>2, <2>1 DEF Lookup, ServerTypeOk, server
  <2>3. QED
    BY <1>2, <2>2 DEF Lookup, TypeOk
<1>3. CASE StoreAddr(ch)
  <2>1. addr_list' \in [Channels -> Hosts \cup {None}] /\ thread' \in [Channels -> ThreadPcs]
    BY <1>1, <1>3 DEF StoreAddr, ServerTypeOk, ThreadPcs
  <2>2. ServerTypeOk'
    BY <1>1, <1>3, <2>1 DEF StoreAddr, ServerTypeOk
  <2>3. QED
    BY <1>3, <2>2 DEF StoreAddr, TypeOk
<1>4. CASE Publish(ch)
  <2>1. ip_ready' \in [Channels -> BOOLEAN] /\ thread' \in [Channels -> ThreadPcs]
    BY <1>1, <1>4 DEF Publish, ServerTypeOk, ThreadPcs
  <2>2. ServerTypeOk'
    BY <1>1, <1>4, <2>1 DEF Publish, ServerTypeOk
  <2>3. QED
    BY <1>4, <2>2 DEF Publish, TypeOk
<1>5. CASE PublishEarly(ch)
  <2>1. ip_ready' \in [Channels -> BOOLEAN] /\ thread' \in [Channels -> ThreadPcs]
    BY <1>1, <1>5 DEF PublishEarly, ServerTypeOk, ThreadPcs
  <2>2. ServerTypeOk'
    BY <1>1, <1>5, <2>1 DEF PublishEarly, ServerTypeOk
  <2>3. QED
    BY <1>5, <2>2 DEF PublishEarly, TypeOk
<1>6. CASE LateStoreAddr(ch)
  <2>1. addr_list' \in [Channels -> Hosts \cup {None}] /\ thread' \in [Channels -> ThreadPcs]
    BY <1>1, <1>6 DEF LateStoreAddr, ServerTypeOk, ThreadPcs
  <2>2. ServerTypeOk'
    BY <1>1, <1>6, <2>1 DEF LateStoreAddr, ServerTypeOk
  <2>3. QED
    BY <1>6, <2>2 DEF LateStoreAddr, TypeOk
<1>7. QED
  BY <1>2, <1>3, <1>4, <1>5, <1>6 DEF Dns_server


----------------------------------------------------------------------------
(* The inductive part that types need, and the first theorem. *)

LEMMA ServerReqNamed ==
    ASSUME ServerTypeOk, Named, NEW ch \in Channels, NEW h \in Hosts, ServerReq(ch, h)
    PROVE  Named'
<1> SUFFICES ASSUME NEW c \in Channels, thread'[c] # "none" \/ addr_list'[c] # None
             PROVE  hostname'[c] # None
  BY DEF Named
<1>1. CASE c = ch
  BY <1>1, NoneAssumption DEF ServerReq, ServerTypeOk
<1>2. CASE c # ch
  BY <1>2 DEF ServerReq, ServerTypeOk, Named
<1>3. QED
  BY <1>1, <1>2

LEMMA NamedStep == TypeOk /\ Named /\ [Next]_vars => Named'
<1> SUFFICES ASSUME TypeOk, Named, [Next]_vars PROVE Named'
  OBVIOUS
<1>0. ServerTypeOk
  BY DEF TypeOk
<1>1. ASSUME UNCHANGED <<thread, addr_list, hostname>> PROVE Named'
  BY <1>1 DEF Named
<1>2. ASSUME NEW r \in Requests, NEW h \in Hosts, a_Dns_resolve(r, h) PROVE Named'
  <2>1. CASE \E ch \in Channels : StartLookup(r, h, ch)
    BY <1>0, <2>1, ServerReqNamed DEF StartLookup
  <2>2. CASE ~ \E ch \in Channels : StartLookup(r, h, ch)
    BY <1>1, <1>2, <2>2
       DEF a_Dns_resolve, AnswerFromCache, JoinQueue, WaitForChannel, server, lookup
  <2>3. QED
    BY <2>1, <2>2
<1>3. ASSUME NEW ch \in Channels, Dns_timeout_client(ch) PROVE Named'
  BY <1>1, <1>3 DEF Dns_timeout_client, server, lookup
<1>4. CASE AnswerEntry
  BY <1>1, <1>4 DEF AnswerEntry, server, lookup
<1>5. CASE CallbackReturns
  BY <1>1, <1>5 DEF CallbackReturns, server, lookup
<1>6. CASE FreeTheChannel
  BY <1>1, <1>6 DEF FreeTheChannel, lookup
<1>7. CASE AssignChannel
  <2>1. frames # <<>> /\ Top.i \in Channels /\ queue \in Seq(EntryType)
    BY <1>7, TopType, NumServersAssumption DEF AssignChannel, InHandler, Channels, TypeOk
  <2>2. PICK i \in DOMAIN queue : ServerReq(Top.i, queue[i].host)
    BY <1>7 DEF AssignChannel
  <2>3. queue[i] \in EntryType
    BY <2>1, <2>2, ElementOfSeq, LenProperties
  <2>4. queue[i].host \in Hosts
    BY <2>3 DEF EntryType
  <2>5. QED
    BY <1>0, <2>1, <2>2, <2>4, ServerReqNamed
<1>8. CASE SkipBusyChannel
  BY <1>1, <1>8 DEF SkipBusyChannel, server, lookup
<1>9. CASE HandlerReturns
  BY <1>1, <1>9 DEF HandlerReturns, server, lookup
<1>10. ASSUME NEW ch \in Channels, Dns_server(ch) PROVE Named'
  <2>1. CASE Lookup(ch)
    BY <1>0, <2>1 DEF Lookup, Named, ServerTypeOk, server
  <2>2. CASE StoreAddr(ch)
    BY <1>0, <2>2 DEF StoreAddr, Named, ServerTypeOk
  <2>3. CASE Publish(ch)
    BY <1>0, <2>3 DEF Publish, Named, ServerTypeOk
  <2>4. CASE PublishEarly(ch)
    BY <1>0, <2>4 DEF PublishEarly, Named, ServerTypeOk
  <2>5. CASE LateStoreAddr(ch)
    BY <1>0, <2>5 DEF LateStoreAddr, Named, ServerTypeOk
  <2>6. QED
    BY <1>10, <2>1, <2>2, <2>3, <2>4, <2>5 DEF Dns_server
<1>11. CASE UNCHANGED vars
  BY <1>1, <1>11 DEF vars
<1>12. QED
  BY <1>2, <1>3, <1>4, <1>5, <1>6, <1>7, <1>8, <1>9, <1>10, <1>11 DEF Next, ServeStep

LEMMA TypeStep == TypeOk /\ Named /\ [Next]_vars => TypeOk'
<1> SUFFICES ASSUME TypeOk, Named, [Next]_vars PROVE TypeOk'
  OBVIOUS
<1>1. CASE \E r \in Requests, h \in Hosts : a_Dns_resolve(r, h)
  BY <1>1, ResolveTypeOk
<1>2. CASE \E ch \in Channels : Dns_timeout_client(ch)
  BY <1>2, TimeoutTypeOk
<1>3. CASE ServeStep
  BY <1>3, AnswerEntryTypeOk, CallbackReturnsTypeOk, FreeTheChannelTypeOk,
     AssignChannelTypeOk, SkipBusyChannelTypeOk, HandlerReturnsTypeOk DEF ServeStep
<1>4. CASE \E ch \in Channels : Dns_server(ch)
  BY <1>4, DnsServerTypeOk
<1>5. CASE UNCHANGED vars
  <2>1. ServerTypeOk'
    BY <1>5, ServerUnchanged DEF vars, server, lookup, TypeOk
  <2>2. QED
    BY <1>5, <2>1 DEF vars, TypeOk
<1>6. QED
  BY <1>1, <1>2, <1>3, <1>4, <1>5 DEF Next

\* The tables of the resolver always hold values of their types, whatever the
\* number of channels and however the event loop and the threads interleave: in
\* particular a cached address list is never NULL and has a host name.
THEOREM TypeCorrect == Spec => []TypeOk
<1>1. Init => TypeOk /\ Named
  BY InitTypeOk DEF Init, Named
<1>2. TypeOk /\ Named /\ [Next]_vars => TypeOk' /\ Named'
  BY TypeStep, NamedStep
<1>3. QED
  BY <1>1, <1>2, PTL DEF Spec


----------------------------------------------------------------------------
(* The order of the channels and the queue, when callbacks do not run the    *)
(* event loop.  It holds whenever the stores of a thread become visible.     *)

\* At most one handler is active.
OneFrame == Len(frames) <= 1

\* A channel is in use while one timeout polls it or one handler serves it.
\* (OneLookupPerChannel without what it says of the threads.)
Polled ==
    \A ch \in Channels :
        /\ in_use[ch] <=> timers[ch] = 1 \/ Serving(ch)
        /\ timers[ch] <= 1
        /\ ~(timers[ch] = 1 /\ Serving(ch))

\* What the scan of Dns_serve_channel has passed is not on its channel, and the
\* entry in the callback is still where it was found.
ScanOk ==
    frames # <<>> /\ Top.pc # "assign" =>
        /\ \A j \in DOMAIN queue : j < Top.i => queue[j].channel # Top.ch
        /\ Top.pc = "callback" =>
             Top.i \in DOMAIN queue /\ queue[Top.i].channel = Top.ch

\* A queue entry is there for the host its request asked for.
AskedOk == \A i \in DOMAIN queue : asked[queue[i].req] = queue[i].host

Orderly ==
    /\ OneFrame
    /\ Polled
    /\ ScanOk
    /\ EntryOnItsChannel
    /\ AskedOk

OrderlyInv == TypeOk /\ Named /\ Orderly

\* Frames, when at most one handler is active.
LEMMA ServingShape ==
    ASSUME NEW fs \in Seq(FrameType), Len(fs) <= 1, NEW ch
    PROVE  (\E k \in DOMAIN fs : fs[k].ch = ch /\ fs[k].pc # "assign")
             <=> fs # <<>> /\ fs[Len(fs)].ch = ch /\ fs[Len(fs)].pc # "assign"
<1>1. Len(fs) \in Nat /\ DOMAIN fs = 1 .. Len(fs)
  BY LenProperties
<1>2. CASE fs = <<>>
  BY <1>2
<1>3. CASE fs # <<>>
  <2>1. Len(fs) = 1
    BY <1>1, <1>3, EmptySeq
  <2>2. DOMAIN fs = {1}
    BY <1>1, <2>1
  <2>3. QED
    BY <1>3, <2>1, <2>2
<1>4. QED
  BY <1>2, <1>3

LEMMA ServingTop ==
    ASSUME TypeOk, OneFrame, NEW ch
    PROVE  Serving(ch) <=> frames # <<>> /\ Top.ch = ch /\ Top.pc # "assign"
BY ServingShape DEF TypeOk, OneFrame, Serving, Top

LEMMA ServingTopNext ==
    ASSUME TypeOk', OneFrame', NEW ch
    PROVE  Serving(ch)' <=> frames' # <<>> /\ Top'.ch = ch /\ Top'.pc # "assign"
BY ServingShape DEF TypeOk, OneFrame, Serving, Top

LEMMA TopAfterSet ==
    ASSUME TypeOk, OneFrame, frames # <<>>, NEW f \in FrameType, SetTop(f)
    PROVE  frames' # <<>> /\ OneFrame' /\ Top' = f
<1>0. frames \in Seq(FrameType)
  BY DEF TypeOk
<1>1. Len(frames) = 1
  <2> DEFINE n == Len(frames)
  <2>1. n \in Nat /\ n # 0
    BY <1>0, EmptySeq
  <2>2. n <= 1
    BY DEF OneFrame
  <2> HIDE DEF n
  <2>3. n = 1
    BY <2>1, <2>2
  <2>4. QED
    BY <2>3 DEF n
<1>2. frames' = [frames EXCEPT ![1] = f]
  BY <1>1 DEF SetTop
<1>3. frames' \in Seq(FrameType) /\ Len(frames') = 1 /\ frames'[1] = f
  <2>1. 1 \in 1 .. Len(frames)
    BY <1>1
  <2>2. QED
    BY <1>0, <1>1, <1>2, <2>1, ExceptSeq
<1>4. frames' # <<>>
  BY <1>3, EmptySeq
<1>5. QED
  BY <1>3, <1>4 DEF OneFrame, Top

LEMMA TopAfterPush ==
    ASSUME frames = <<>>, NEW f \in FrameType, frames' = Append(frames, f)
    PROVE  frames' # <<>> /\ OneFrame' /\ Top' = f
<1>1. <<>> \in Seq(FrameType) /\ Len(<<>>) = 0 /\ frames' = Append(<<>>, f)
  BY EmptySeq
<1>2. frames' \in Seq(FrameType) /\ frames' # <<>> /\ Len(frames') = 1 /\ frames'[1] = f
  BY <1>1, AppendProperties
<1>3. QED
  BY <1>2 DEF OneFrame, Top

LEMMA NoFrame ==
    ASSUME TypeOk, OneFrame, HandlerReturns
    PROVE  frames' = <<>> /\ OneFrame'
<1>0. frames \in Seq(FrameType)
  BY DEF TypeOk
<1>1. Len(frames) \in Nat /\ Len(frames) <= 1
  BY <1>0, LenProperties DEF OneFrame
<1>2. frames' = SubSeq(frames, 1, Len(frames) - 1)
  BY DEF HandlerReturns
<1>3. frames' = <<>>
  BY <1>1, <1>2, SubSeqEmpty
<1>4. QED
  BY <1>3, EmptySeq DEF OneFrame

----------------------------------------------------------------------------
(* Each part of the invariant, over the steps that disturb it. *)

\* Dns_server_req on a free channel.
LEMMA ServerReqPolled ==
    ASSUME TypeOk, Polled,
           NEW ch \in Channels, ~in_use[ch], NEW h \in Hosts, ServerReq(ch, h),
           \A c \in Channels : Serving(c) <=> Serving(c)'
    PROVE  Polled'
<1> SUFFICES ASSUME NEW c \in Channels
             PROVE  /\ in_use'[c] <=> timers'[c] = 1 \/ Serving(c)'
                    /\ timers'[c] <= 1
                    /\ ~(timers'[c] = 1 /\ Serving(c)')
  BY DEF Polled
<1>1. /\ in_use[c] <=> timers[c] = 1 \/ Serving(c)
      /\ timers[c] <= 1 /\ timers[c] \in Nat
      /\ ~(timers[c] = 1 /\ Serving(c))
      /\ Serving(c) <=> Serving(c)'
  BY DEF Polled, TypeOk, ServerTypeOk
<1>2. CASE c = ch
  <2>1. timers[c] = 0 /\ ~Serving(c)
    BY <1>1, <1>2
  <2>2. in_use'[c] = TRUE /\ timers'[c] = timers[c] + 1
    BY <1>2 DEF ServerReq, TypeOk, ServerTypeOk
  <2>3. QED
    BY <1>1, <2>1, <2>2
<1>3. CASE c # ch
  <2>1. in_use'[c] = in_use[c] /\ timers'[c] = timers[c]
    BY <1>3 DEF ServerReq, TypeOk, ServerTypeOk
  <2>2. QED
    BY <1>1, <2>1
<1>4. QED
  BY <1>2, <1>3

\* A free channel has no entry, so its host name can be overwritten.
LEMMA ServerReqEntries ==
    ASSUME TypeOk, EntryOnItsChannel,
           NEW ch \in Channels, ~in_use[ch], NEW h \in Hosts, ServerReq(ch, h),
           NEW i \in DOMAIN queue, queue[i].channel # Waiting
    PROVE  /\ in_use'[queue[i].channel]
           /\ hostname'[queue[i].channel] = queue[i].host
<1>1. queue[i] \in EntryType
  BY ElementOfSeq, LenProperties DEF TypeOk
<1>2. queue[i].channel \in Channels
  BY <1>1 DEF EntryType
<1>3. in_use[queue[i].channel] /\ hostname[queue[i].channel] = queue[i].host
  BY DEF EntryOnItsChannel
<1>4. queue[i].channel # ch
  BY <1>3
<1>5. QED
  BY <1>2, <1>3, <1>4 DEF ServerReq, TypeOk, ServerTypeOk


----------------------------------------------------------------------------
(* One lemma per action: Orderly is preserved. *)

\* Between handlers no channel is being served.
LEMMA LoopIdle ==
    ASSUME ~NestedLoop, EventLoop
    PROVE  frames = <<>> /\ \A ch : ~Serving(ch)
BY DEF EventLoop, Serving

\* An entry that joins the queue, for the request that is made.
LEMMA EntryAppended ==
    ASSUME TypeOk, AskedOk,
           NEW r \in Requests, NEW h \in Hosts, asked[r] = None,
           asked' = [asked EXCEPT ![r] = h],
           NEW c \in Channels \cup {Waiting}, queue' = Append(queue, Entry(c, h, r)),
           c # Waiting => in_use'[c] /\ hostname'[c] = h,
           \A i \in DOMAIN queue : queue[i].channel # Waiting =>
             in_use'[queue[i].channel] /\ hostname'[queue[i].channel] = queue[i].host
    PROVE  AskedOk' /\ EntryOnItsChannel'
<1>1. queue \in Seq(EntryType) /\ Entry(c, h, r) \in EntryType
  BY DEF TypeOk, Entry, EntryType
<1>2. /\ Len(queue') = Len(queue) + 1 /\ Len(queue) \in Nat
      /\ DOMAIN queue' = 1 .. Len(queue) + 1 /\ DOMAIN queue = 1 .. Len(queue)
      /\ \A i \in 1 .. Len(queue) : queue'[i] = queue[i] /\ queue[i] \in EntryType
      /\ queue'[Len(queue) + 1] = Entry(c, h, r)
  BY <1>1, AppendProperties, LenProperties, ElementOfSeq
<1>3. ASSUME NEW i \in DOMAIN queue' PROVE asked'[queue'[i].req] = queue'[i].host
  <2>1. CASE i \in DOMAIN queue
    <3>1. queue'[i] = queue[i] /\ queue[i].req \in Requests /\ queue[i].host \in Hosts
      BY <1>2, <2>1 DEF EntryType
    <3>2. asked[queue[i].req] = queue[i].host
      BY <2>1 DEF AskedOk
    <3>3. queue[i].req # r
      BY <3>1, <3>2, NoneAssumption
    <3>4. QED
      BY <3>1, <3>2, <3>3 DEF TypeOk
  <2>2. CASE i = Len(queue) + 1
    BY <1>2, <2>2 DEF Entry, TypeOk
  <2>3. QED
    BY <1>2, <1>3, <2>1, <2>2
<1>4. ASSUME NEW i \in DOMAIN queue', queue'[i].channel # Waiting
      PROVE  in_use'[queue'[i].channel] /\ hostname'[queue'[i].channel] = queue'[i].host
  <2>1. CASE i \in DOMAIN queue
    BY <1>2, <1>4, <2>1
  <2>2. CASE i = Len(queue) + 1
    BY <1>2, <1>4, <2>2 DEF Entry
  <2>3. QED
    BY <1>2, <1>4, <2>1, <2>2
<1>5. QED
  BY <1>3, <1>4 DEF AskedOk, EntryOnItsChannel


LEMMA ResolveOrderly ==
    ASSUME ~NestedLoop, OrderlyInv, TypeOk',
           NEW r \in Requests, NEW h \in Hosts, a_Dns_resolve(r, h)
    PROVE  Orderly'
<1>1. TypeOk /\ OneFrame /\ Polled /\ EntryOnItsChannel /\ AskedOk
  BY DEF OrderlyInv, Orderly
<1>2. /\ frames = <<>> /\ frames' = <<>> /\ \A ch : ~Serving(ch)
      /\ asked[r] = None /\ asked' = [asked EXCEPT ![r] = h]
  BY LoopIdle DEF a_Dns_resolve
<1>3. OneFrame' /\ ScanOk' /\ \A ch : ~Serving(ch)'
  BY <1>1, <1>2 DEF OneFrame, ScanOk, Serving
<1>4. CASE AnswerFromCache(r, h)
  <2>1. UNCHANGED <<queue, server, lookup, timers>>
    BY <1>4 DEF AnswerFromCache
  <2>2. Polled' /\ EntryOnItsChannel'
    BY <1>1, <1>2, <1>3, <2>1 DEF Polled, EntryOnItsChannel, server
  <2>3. AskedOk'
    <3> SUFFICES ASSUME NEW i \in DOMAIN queue PROVE asked'[queue[i].req] = queue[i].host
      BY <2>1 DEF AskedOk
    <3>1. queue[i] \in EntryType
      BY <1>1, ElementOfSeq, LenProperties DEF TypeOk
    <3>2. queue[i].req \in Requests /\ queue[i].host \in Hosts
      BY <3>1 DEF EntryType
    <3>3. asked[queue[i].req] = queue[i].host
      BY <1>1 DEF AskedOk
    <3>4. queue[i].req # r
      BY <1>2, <3>2, <3>3, NoneAssumption
    <3>5. QED
      BY <1>1, <1>2, <3>2, <3>3, <3>4 DEF TypeOk
  <2>4. QED
    BY <1>3, <2>2, <2>3 DEF Orderly
<1>5. CASE JoinQueue(r, h)
  <2> DEFINE k == QueueFind(queue, h)
  <2>1. UNCHANGED <<answers, server, lookup, timers>>
    BY <1>5 DEF JoinQueue
  <2>2. Polled'
    BY <1>1, <1>2, <1>3, <2>1 DEF Polled, server
  <2>3. k \in DOMAIN queue /\ queue[k].host = h /\ queue[k] \in EntryType
    <3>1. queue \in Seq(EntryType) /\ \E i \in DOMAIN queue : queue[i].host = h
      BY <1>1, <1>5 DEF JoinQueue, QueueFound, TypeOk
    <3>2. k \in DOMAIN queue /\ queue[k].host = h
      BY <3>1, FindsHost DEF QueueFind
    <3>3. queue[k] \in EntryType
      BY <3>1, <3>2, ElementOfSeq, LenProperties
    <3>4. QED
      BY <3>2, <3>3
  <2>4. queue[k].channel \in Channels \cup {Waiting}
    BY <2>3 DEF EntryType
  <2>5. queue' = Append(queue, Entry(queue[k].channel, h, r))
    BY <1>5 DEF JoinQueue
  <2>6. queue[k].channel # Waiting =>
          in_use'[queue[k].channel] /\ hostname'[queue[k].channel] = h
    BY <1>1, <2>1, <2>3 DEF EntryOnItsChannel, server
  <2>7. \A i \in DOMAIN queue : queue[i].channel # Waiting =>
          in_use'[queue[i].channel] /\ hostname'[queue[i].channel] = queue[i].host
    BY <1>1, <2>1 DEF EntryOnItsChannel, server
  <2> HIDE DEF k
  <2>8. AskedOk' /\ EntryOnItsChannel'
    BY <1>1, <1>2, <2>4, <2>5, <2>6, <2>7, EntryAppended
  <2>9. QED
    BY <1>3, <2>2, <2>8 DEF Orderly
<1>6. ASSUME NEW ch \in Channels, StartLookup(r, h, ch) PROVE Orderly'
  <2>1. ~in_use[ch] /\ ServerReq(ch, h) /\ queue' = Append(queue, Entry(ch, h, r))
    BY <1>6 DEF StartLookup, FreeChannel
  <2>2. Polled'
    BY <1>1, <1>2, <1>3, <2>1, ServerReqPolled
  <2>3. in_use'[ch] /\ hostname'[ch] = h
    BY <1>1, <2>1 DEF ServerReq, TypeOk, ServerTypeOk
  <2>4. \A i \in DOMAIN queue : queue[i].channel # Waiting =>
          in_use'[queue[i].channel] /\ hostname'[queue[i].channel] = queue[i].host
    BY <1>1, <2>1, ServerReqEntries
  <2>5. AskedOk' /\ EntryOnItsChannel'
    BY <1>1, <1>2, <2>1, <2>3, <2>4, EntryAppended
  <2>6. QED
    BY <1>3, <2>2, <2>5 DEF Orderly
<1>7. CASE WaitForChannel(r, h)
  <2>1. /\ UNCHANGED <<server, timers>>
        /\ queue' = Append(queue, Entry(Waiting, h, r))
    BY <1>7 DEF WaitForChannel
  <2>2. Polled'
    BY <1>1, <1>2, <1>3, <2>1 DEF Polled, server
  <2>3. \A i \in DOMAIN queue : queue[i].channel # Waiting =>
          in_use'[queue[i].channel] /\ hostname'[queue[i].channel] = queue[i].host
    BY <1>1, <2>1 DEF EntryOnItsChannel, server
  <2>4. AskedOk' /\ EntryOnItsChannel'
    BY <1>1, <1>2, <2>1, <2>3, EntryAppended
  <2>5. QED
    BY <1>3, <2>2, <2>4 DEF Orderly
<1>8. QED
  BY <1>4, <1>5, <1>6, <1>7 DEF a_Dns_resolve

\* The handler that a timeout starts: it takes over the channel from its timeout.
LEMMA TimeoutFrame ==
    ASSUME ~NestedLoop, OrderlyInv, TypeOk',
           NEW ch \in Channels, Dns_timeout_client(ch)
    PROVE  /\ frames = <<>> /\ frames' # <<>> /\ OneFrame'
           /\ Top'.ch = ch /\ Top'.pc = "scan" /\ Top'.i = 1
           /\ \A c : ~Serving(c)
           /\ \A c : Serving(c)' <=> c = ch
           /\ timers[ch] = 1 /\ timers'[ch] = 0 /\ in_use[ch]
           /\ \A c \in Channels : c # ch => timers'[c] = timers[c]
<1>1. TypeOk /\ OneFrame /\ Polled /\ timers \in [Channels -> Nat]
  BY DEF OrderlyInv, Orderly, TypeOk, ServerTypeOk
<1>2. /\ frames = <<>> /\ (\A c : ~Serving(c)) /\ timers[ch] > 0
      /\ timers' = [timers EXCEPT ![ch] = @ - 1]
  BY LoopIdle DEF Dns_timeout_client
<1>3. timers[ch] = 1 /\ in_use[ch]
  BY <1>1, <1>2 DEF Polled
<1>4. timers'[ch] = 0 /\ \A c \in Channels : c # ch => timers'[c] = timers[c]
  BY <1>1, <1>2, <1>3
<1> DEFINE f == [ch |-> ch, pc |-> "scan", i |-> 1]
<1>5. f \in FrameType /\ frames' = Append(frames, f)
  BY DEF FrameType, Dns_timeout_client
<1>6. frames' # <<>> /\ OneFrame' /\ Top' = f
  BY <1>2, <1>5, TopAfterPush
<1>7. Top'.ch = ch /\ Top'.pc = "scan" /\ Top'.i = 1
  BY <1>6
<1>8. \A c : Serving(c)' <=> c = ch
  BY <1>6, <1>7, ServingTopNext
<1>9. QED
  BY <1>2, <1>3, <1>4, <1>6, <1>7, <1>8

LEMMA TimeoutOrderly ==
    ASSUME ~NestedLoop, OrderlyInv, TypeOk',
           NEW ch \in Channels, Dns_timeout_client(ch)
    PROVE  Orderly'
<1>1. TypeOk /\ Polled /\ EntryOnItsChannel /\ AskedOk
  BY DEF OrderlyInv, Orderly
<1>2. UNCHANGED <<queue, server, lookup, asked>>
  BY DEF Dns_timeout_client
<1>3. /\ frames' # <<>> /\ OneFrame' /\ Top'.ch = ch /\ Top'.pc = "scan" /\ Top'.i = 1
      /\ (\A c : ~Serving(c)) /\ (\A c : Serving(c)' <=> c = ch)
      /\ timers[ch] = 1 /\ timers'[ch] = 0 /\ in_use[ch]
      /\ \A c \in Channels : c # ch => timers'[c] = timers[c]
  BY TimeoutFrame
<1>4. ScanOk'
  <2>1. \A j \in DOMAIN queue' : ~(j < 1)
    BY <1>1, <1>2, LenProperties DEF TypeOk
  <2>2. QED
    BY <1>3, <2>1 DEF ScanOk
<1>5. Polled'
  <2> SUFFICES ASSUME NEW c \in Channels
               PROVE  /\ in_use'[c] <=> timers'[c] = 1 \/ Serving(c)'
                      /\ timers'[c] <= 1
                      /\ ~(timers'[c] = 1 /\ Serving(c)')
    BY DEF Polled
  <2>1. /\ in_use[c] <=> timers[c] = 1 \/ Serving(c)
        /\ timers[c] <= 1
        /\ in_use'[c] = in_use[c]
    BY <1>1, <1>2 DEF Polled, server
  <2>2. QED
    BY <1>3, <2>1
<1>6. EntryOnItsChannel' /\ AskedOk'
  BY <1>1, <1>2 DEF EntryOnItsChannel, AskedOk, server
<1>7. QED
  BY <1>3, <1>4, <1>5, <1>6 DEF Orderly

\* The frame after Dns_serve_channel has called an entry's callback.
LEMMA AnswerEntryFrame ==
    ASSUME OrderlyInv, AnswerEntry
    PROVE  /\ frames # <<>> /\ Top.ch \in Channels /\ Top.pc = "scan"
           /\ frames' # <<>> /\ OneFrame'
           /\ \E i \in DOMAIN queue :
                /\ NextOn(queue, Top.ch, Top.i, i)
                /\ answers' = [answers EXCEPT ![queue[i].req] = Append(@, addr_list[Top.ch])]
                /\ queue[i] \in EntryType /\ queue[i].channel = Top.ch
                /\ Top'.ch = Top.ch /\ Top'.pc = "callback" /\ Top'.i = i
<1>1. TypeOk /\ OneFrame /\ queue \in Seq(EntryType)
  BY DEF OrderlyInv, Orderly, TypeOk
<1>2. frames # <<>> /\ Top.pc = "scan" /\ Top \in FrameType /\ Top.ch \in Channels
  BY <1>1, TopType DEF AnswerEntry, InHandler
<1>3. PICK i \in DOMAIN queue :
        /\ NextOn(queue, Top.ch, Top.i, i)
        /\ answers' = [answers EXCEPT ![queue[i].req] = Append(@, addr_list[Top.ch])]
        /\ SetTop([Top EXCEPT !.pc = "callback", !.i = i])
  BY DEF AnswerEntry
<1>4. queue[i] \in EntryType /\ queue[i].channel = Top.ch /\ i \in Nat
  BY <1>1, <1>3, ElementOfSeq, LenProperties DEF NextOn
<1> DEFINE f == [Top EXCEPT !.pc = "callback", !.i = i]
<1>5. f \in FrameType /\ f.ch = Top.ch /\ f.pc = "callback" /\ f.i = i
  BY <1>2, <1>4 DEF FrameType
<1>6. frames' # <<>> /\ OneFrame' /\ Top' = f
  BY <1>1, <1>2, <1>3, <1>5, TopAfterSet
<1>7. Top'.ch = Top.ch /\ Top'.pc = "callback" /\ Top'.i = i
  BY <1>5, <1>6
<1>8. QED
  BY <1>2, <1>3, <1>4, <1>6, <1>7

LEMMA AnswerEntryOrderly ==
    ASSUME OrderlyInv, TypeOk', AnswerEntry PROVE Orderly'
<1>1. TypeOk /\ OneFrame /\ Polled /\ EntryOnItsChannel /\ AskedOk /\ ScanOk
  BY DEF OrderlyInv, Orderly
<1>2. /\ frames # <<>> /\ Top.ch \in Channels /\ Top.pc = "scan" /\ Top.i \in Nat
      /\ frames' # <<>> /\ OneFrame'
      /\ UNCHANGED <<queue, server, lookup, timers, cache, asked>>
  BY <1>1, AnswerEntryFrame, TopType DEF AnswerEntry
<1>3. PICK i \in DOMAIN queue :
        /\ NextOn(queue, Top.ch, Top.i, i) /\ queue[i].channel = Top.ch
        /\ Top'.ch = Top.ch /\ Top'.pc = "callback" /\ Top'.i = i
  BY AnswerEntryFrame
<1>4. \A c : Serving(c)' <=> Serving(c)
  BY <1>1, <1>2, <1>3, ServingTop, ServingTopNext
<1>5. Polled' /\ EntryOnItsChannel' /\ AskedOk'
  BY <1>1, <1>2, <1>4 DEF Polled, EntryOnItsChannel, AskedOk, server
<1>6. ScanOk'
  <2>1. \A j \in DOMAIN queue : j < Top.i => queue[j].channel # Top.ch
    BY <1>1, <1>2 DEF ScanOk
  <2>2. \A j \in DOMAIN queue : j < i => queue[j].channel # Top.ch
    <3> SUFFICES ASSUME NEW j \in DOMAIN queue, j < i PROVE queue[j].channel # Top.ch
      OBVIOUS
    <3>1. j \in Nat /\ i \in Nat
      BY <1>1, LenProperties DEF TypeOk
    <3>2. CASE j < Top.i
      BY <2>1, <3>2
    <3>3. CASE j >= Top.i
      BY <1>2, <1>3, <3>1, <3>3 DEF NextOn
    <3>4. QED
      BY <1>2, <3>1, <3>2, <3>3
  <2>3. QED
    BY <1>2, <1>3, <2>2 DEF ScanOk
<1>7. QED
  BY <1>2, <1>5, <1>6 DEF Orderly

\* The frame after a callback, and the queue: every entry that stays was in the
\* queue, at its index or one above.
LEMMA CallbackReturnsFrame ==
    ASSUME OrderlyInv, CallbackReturns
    PROVE  /\ frames # <<>> /\ Top.pc = "callback" /\ Top.ch \in Channels
           /\ Top.i \in DOMAIN queue /\ queue[Top.i].channel = Top.ch
           /\ frames' # <<>> /\ OneFrame'
           /\ Top'.ch = Top.ch /\ Top'.pc = "scan" /\ Top'.i = Top.i
           /\ Len(queue) \in Nat /\ DOMAIN queue = 1 .. Len(queue)
           /\ DOMAIN queue' = 1 .. Len(queue) - 1
           /\ \A i \in 1 .. Len(queue) - 1 :
                queue'[i] = IF i < Top.i THEN queue[i] ELSE queue[i + 1]
           /\ \A i \in DOMAIN queue' : \E j \in DOMAIN queue : queue'[i] = queue[j]
<1>1. TypeOk /\ OneFrame /\ ScanOk
  BY DEF OrderlyInv, Orderly
<1>2. /\ frames # <<>> /\ Top.pc = "callback" /\ Top \in FrameType /\ Top.ch \in Channels
      /\ SetTop([Top EXCEPT !.pc = "scan"])
      /\ queue' = QueueRemove(queue, Top.i)
  BY <1>1, TopType DEF CallbackReturns, InHandler
<1> DEFINE f == [Top EXCEPT !.pc = "scan"]
<1>3. f \in FrameType /\ f.ch = Top.ch /\ f.pc = "scan" /\ f.i = Top.i
  BY <1>2 DEF FrameType
<1>4. frames' # <<>> /\ OneFrame' /\ Top' = f
  BY <1>1, <1>2, <1>3, TopAfterSet
<1>5. Top'.ch = Top.ch /\ Top'.pc = "scan" /\ Top'.i = Top.i
  BY <1>3, <1>4
<1>6. /\ queue \in Seq(EntryType) /\ Len(queue) \in Nat /\ DOMAIN queue = 1 .. Len(queue)
      /\ Top.i \in 1 .. Len(queue) /\ queue[Top.i].channel = Top.ch
  BY <1>1, <1>2, LenProperties DEF TypeOk, ScanOk
<1>7. /\ DOMAIN queue' = 1 .. Len(queue) - 1
      /\ \A i \in 1 .. Len(queue) - 1 :
           queue'[i] = IF i < Top.i THEN queue[i] ELSE queue[i + 1]
  BY <1>2, <1>6, QueueRemoveShape
<1>8. \A i \in DOMAIN queue' : \E j \in DOMAIN queue : queue'[i] = queue[j]
  <2> SUFFICES ASSUME NEW i \in 1 .. Len(queue) - 1
               PROVE  \E j \in 1 .. Len(queue) : queue'[i] = queue[j]
    BY <1>6, <1>7
  <2>1. i \in 1 .. Len(queue) /\ i + 1 \in 1 .. Len(queue)
    BY <1>6
  <2>2. QED
    BY <1>7, <2>1
<1>9. QED
  BY <1>2, <1>4, <1>5, <1>6, <1>7, <1>8

LEMMA CallbackReturnsOrderly ==
    ASSUME OrderlyInv, TypeOk', CallbackReturns PROVE Orderly'
<1>1. TypeOk /\ OneFrame /\ Polled /\ EntryOnItsChannel /\ AskedOk /\ ScanOk
  BY DEF OrderlyInv, Orderly
<1>2. UNCHANGED <<server, lookup, timers, cache, asked, answers>>
  BY DEF CallbackReturns
<1>3. /\ frames # <<>> /\ Top.pc = "callback"
      /\ frames' # <<>> /\ OneFrame'
      /\ Top'.ch = Top.ch /\ Top'.pc = "scan" /\ Top'.i = Top.i
  BY CallbackReturnsFrame
<1>4. /\ Len(queue) \in Nat /\ DOMAIN queue = 1 .. Len(queue)
      /\ Top.i \in DOMAIN queue
      /\ DOMAIN queue' = 1 .. Len(queue) - 1
      /\ \A i \in 1 .. Len(queue) - 1 :
           queue'[i] = IF i < Top.i THEN queue[i] ELSE queue[i + 1]
      /\ \A i \in DOMAIN queue' : \E j \in DOMAIN queue : queue'[i] = queue[j]
  BY CallbackReturnsFrame
<1>5. \A c : Serving(c)' <=> Serving(c)
  BY <1>1, <1>3, ServingTop, ServingTopNext
<1>6. Polled' /\ EntryOnItsChannel' /\ AskedOk'
  BY <1>1, <1>2, <1>4, <1>5 DEF Polled, EntryOnItsChannel, AskedOk, server
<1>7. ScanOk'
  <2>1. \A j \in DOMAIN queue : j < Top.i => queue[j].channel # Top.ch
    BY <1>1, <1>3 DEF ScanOk
  <2>2. \A j \in DOMAIN queue' : j < Top.i => queue'[j].channel # Top.ch
    BY <1>4, <2>1
  <2>3. QED
    BY <1>3, <2>2 DEF ScanOk
<1>8. QED
  BY <1>3, <1>6, <1>7 DEF Orderly

\* The frame after the channel is freed; the scan has passed every entry, so
\* none is left on the channel.
LEMMA FreeTheChannelFrame ==
    ASSUME OrderlyInv, TypeOk', FreeTheChannel
    PROVE  /\ frames # <<>> /\ Top.ch \in Channels /\ Top.pc = "scan"
           /\ frames' # <<>> /\ OneFrame' /\ Top'.pc = "assign" /\ Top'.i = 0
           /\ (\A c : Serving(c) <=> c = Top.ch) /\ (\A c : ~Serving(c)')
           /\ ~in_use'[Top.ch] /\ \A c \in Channels : c # Top.ch => in_use'[c] = in_use[c]
           /\ \A j \in DOMAIN queue : queue[j].channel # Top.ch
<1>1. TypeOk /\ OneFrame /\ ScanOk
  BY DEF OrderlyInv, Orderly
<1>2. /\ frames # <<>> /\ Top.pc = "scan" /\ Top \in FrameType /\ Top.ch \in Channels
      /\ Top.i \in Nat
      /\ NoneOn(queue, Top.ch, Top.i)
      /\ SetTop([Top EXCEPT !.pc = "assign", !.i = 0])
      /\ in_use' = [in_use EXCEPT ![Top.ch] = FALSE]
  BY <1>1, TopType DEF FreeTheChannel, InHandler
<1> DEFINE f == [Top EXCEPT !.pc = "assign", !.i = 0]
<1>3. f \in FrameType /\ f.ch = Top.ch /\ f.pc = "assign" /\ f.i = 0
  BY <1>2 DEF FrameType
<1>4. frames' # <<>> /\ OneFrame' /\ Top' = f
  BY <1>1, <1>2, <1>3, TopAfterSet
<1>5. (\A c : Serving(c) <=> c = Top.ch) /\ (\A c : ~Serving(c)')
  BY <1>1, <1>2, <1>3, <1>4, ServingTop, ServingTopNext
<1>6. ~in_use'[Top.ch] /\ \A c \in Channels : c # Top.ch => in_use'[c] = in_use[c]
  BY <1>1, <1>2 DEF TypeOk, ServerTypeOk
<1>7. ASSUME NEW j \in DOMAIN queue PROVE queue[j].channel # Top.ch
  <2>1. j \in 1 .. Len(queue) /\ Len(queue) \in Nat
    BY <1>1, <1>7, LenProperties DEF TypeOk
  <2>2. CASE j < Top.i
    BY <1>1, <1>2, <2>2 DEF ScanOk
  <2>3. CASE j >= Top.i
    BY <1>2, <2>1, <2>3 DEF NoneOn
  <2>4. QED
    BY <1>2, <2>1, <2>2, <2>3
<1>8. Top'.pc = "assign" /\ Top'.i = 0
  BY <1>3, <1>4
<1>9. QED
  BY <1>2, <1>4, <1>5, <1>6, <1>7, <1>8

LEMMA FreeTheChannelOrderly ==
    ASSUME OrderlyInv, TypeOk', FreeTheChannel PROVE Orderly'
<1>1. TypeOk /\ Polled /\ EntryOnItsChannel /\ AskedOk
  BY DEF OrderlyInv, Orderly
<1>2. UNCHANGED <<hostname, queue, timers, asked>>
  BY DEF FreeTheChannel
<1>3. /\ Top.ch \in Channels /\ frames' # <<>> /\ OneFrame' /\ Top'.pc = "assign"
      /\ (\A c : Serving(c) <=> c = Top.ch) /\ (\A c : ~Serving(c)')
      /\ ~in_use'[Top.ch] /\ \A c \in Channels : c # Top.ch => in_use'[c] = in_use[c]
      /\ \A j \in DOMAIN queue : queue[j].channel # Top.ch
  BY FreeTheChannelFrame
<1>4. Polled'
  BY <1>1, <1>2, <1>3 DEF Polled
<1>5. EntryOnItsChannel'
  <2> SUFFICES ASSUME NEW j \in DOMAIN queue, queue[j].channel # Waiting
               PROVE  /\ in_use'[queue[j].channel]
                      /\ hostname[queue[j].channel] = queue[j].host
    BY <1>2 DEF EntryOnItsChannel
  <2>1. queue[j] \in EntryType
    BY <1>1, ElementOfSeq, LenProperties DEF TypeOk
  <2>2. queue[j].channel \in Channels /\ queue[j].channel # Top.ch
    BY <1>3, <2>1 DEF EntryType
  <2>3. QED
    BY <1>1, <1>3, <2>2 DEF EntryOnItsChannel
<1>6. AskedOk' /\ ScanOk'
  BY <1>1, <1>2, <1>3 DEF AskedOk, ScanOk
<1>7. QED
  BY <1>3, <1>4, <1>5, <1>6 DEF Orderly

\* The frame, the channel and the queue after a free channel is handed out.
LEMMA AssignChannelFrame ==
    ASSUME OrderlyInv, TypeOk', AssignChannel
    PROVE  /\ frames # <<>> /\ Top.pc = "assign" /\ Top.i \in Channels /\ ~in_use[Top.i]
           /\ frames' # <<>> /\ OneFrame' /\ Top'.pc = "assign" /\ Top'.i = Top.i + 1
           /\ \A c : ~Serving(c) /\ ~Serving(c)'
           /\ \E i \in DOMAIN queue :
                /\ NextWaiting(i) /\ queue[i].host \in Hosts
                /\ queue' = Assigned(queue, i, Top.i)
                /\ ServerReq(Top.i, queue[i].host)
<1>1. TypeOk /\ OneFrame
  BY DEF OrderlyInv, Orderly
<1>2. /\ frames # <<>> /\ Top.pc = "assign" /\ Top \in FrameType /\ Top.i \in Channels
      /\ ~in_use[Top.i]
      /\ SetTop([Top EXCEPT !.i = @ + 1])
  BY <1>1, TopType, NumServersAssumption DEF AssignChannel, InHandler, Channels
<1>3. PICK i \in DOMAIN queue :
        /\ NextWaiting(i)
        /\ queue' = Assigned(queue, i, Top.i)
        /\ ServerReq(Top.i, queue[i].host)
  BY DEF AssignChannel
<1>4. queue[i] \in EntryType
  BY <1>1, <1>3, ElementOfSeq, LenProperties DEF TypeOk
<1>5. queue[i].host \in Hosts
  BY <1>4 DEF EntryType
<1> DEFINE f == [Top EXCEPT !.i = @ + 1]
<1>6. f \in FrameType /\ f.pc = "assign" /\ f.i = Top.i + 1
  BY <1>2 DEF FrameType
<1>7. frames' # <<>> /\ OneFrame' /\ Top' = f
  BY <1>1, <1>2, <1>6, TopAfterSet
<1>8. \A c : ~Serving(c) /\ ~Serving(c)'
  BY <1>1, <1>2, <1>6, <1>7, ServingTop, ServingTopNext
<1>9. Top'.pc = "assign" /\ Top'.i = Top.i + 1
  BY <1>6, <1>7
<1>10. QED
  BY <1>2, <1>3, <1>5, <1>7, <1>8, <1>9

LEMMA AssignChannelOrderly ==
    ASSUME OrderlyInv, TypeOk', AssignChannel PROVE Orderly'
<1>1. TypeOk /\ OneFrame /\ Polled /\ EntryOnItsChannel /\ AskedOk /\ asked' = asked
  BY DEF OrderlyInv, Orderly, AssignChannel
<1>2. /\ Top.i \in Channels /\ ~in_use[Top.i]
      /\ frames' # <<>> /\ OneFrame' /\ Top'.pc = "assign"
      /\ \A c : ~Serving(c) /\ ~Serving(c)'
  BY AssignChannelFrame
<1>3. PICK i \in DOMAIN queue :
        /\ queue[i].host \in Hosts
        /\ queue' = Assigned(queue, i, Top.i)
        /\ ServerReq(Top.i, queue[i].host)
  BY AssignChannelFrame
<1>4. Polled'
  BY <1>1, <1>2, <1>3, ServerReqPolled
<1>5. /\ DOMAIN queue' = DOMAIN queue
      /\ \A j \in DOMAIN queue :
           /\ queue'[j].host = queue[j].host /\ queue'[j].req = queue[j].req
           /\ queue'[j].channel # queue[j].channel =>
                queue'[j].channel = Top.i /\ queue[j].host = queue[i].host
  BY <1>1, <1>2, <1>3, AssignedQueue DEF TypeOk
<1>6. EntryOnItsChannel'
  <2> SUFFICES ASSUME NEW j \in DOMAIN queue, queue'[j].channel # Waiting
               PROVE  /\ in_use'[queue'[j].channel]
                      /\ hostname'[queue'[j].channel] = queue'[j].host
    BY <1>5 DEF EntryOnItsChannel
  <2>1. CASE queue'[j].channel = queue[j].channel
    BY <1>1, <1>2, <1>3, <1>5, <2>1, ServerReqEntries
  <2>2. CASE queue'[j].channel # queue[j].channel
    <3>1. in_use'[Top.i] /\ hostname'[Top.i] = queue[i].host
      BY <1>1, <1>2, <1>3 DEF ServerReq, TypeOk, ServerTypeOk
    <3>2. QED
      BY <1>5, <2>2, <3>1
  <2>3. QED
    BY <2>1, <2>2
<1>7. AskedOk' /\ ScanOk'
  BY <1>1, <1>2, <1>5 DEF AskedOk, ScanOk
<1>8. QED
  BY <1>2, <1>4, <1>6, <1>7 DEF Orderly

\* The loop of Dns_assign_channels passes a busy channel, or ends.
LEMMA EndOfHandlerFrame ==
    ASSUME OrderlyInv, TypeOk', SkipBusyChannel \/ HandlerReturns
    PROVE  /\ frames # <<>> /\ Top.pc = "assign" /\ Top.i \in Nat
           /\ OneFrame' /\ \A c : ~Serving(c) /\ ~Serving(c)'
           /\ SkipBusyChannel =>
                frames' # <<>> /\ Top'.pc = "assign" /\ Top'.i = Top.i + 1
           /\ HandlerReturns => frames' = <<>>
<1>1. TypeOk /\ OneFrame
  BY DEF OrderlyInv, Orderly
<1>2. frames # <<>> /\ Top.pc = "assign" /\ Top \in FrameType /\ Top.i \in Nat
  BY <1>1, TopType DEF SkipBusyChannel, HandlerReturns, InHandler
<1>3. ASSUME SkipBusyChannel
      PROVE  /\ frames' # <<>> /\ OneFrame' /\ Top'.pc = "assign" /\ Top'.i = Top.i + 1
             /\ \A c : ~Serving(c)'
  <2> DEFINE f == [Top EXCEPT !.i = @ + 1]
  <2>1. f \in FrameType /\ f.pc = "assign" /\ f.i = Top.i + 1 /\ SetTop(f)
    BY <1>2, <1>3 DEF FrameType, SkipBusyChannel
  <2>2. frames' # <<>> /\ OneFrame' /\ Top' = f
    BY <1>1, <1>2, <2>1, TopAfterSet
  <2>3. Top'.pc = "assign" /\ Top'.i = Top.i + 1
    BY <2>1, <2>2
  <2>4. QED
    BY <2>2, <2>3, ServingTopNext
<1>4. ASSUME HandlerReturns
      PROVE  frames' = <<>> /\ OneFrame' /\ \A c : ~Serving(c)'
  <2>1. frames' = <<>> /\ OneFrame'
    BY <1>1, <1>4, NoFrame
  <2>2. QED
    BY <2>1 DEF Serving
<1>5. \A c : ~Serving(c)
  BY <1>1, <1>2, ServingTop
<1>6. QED
  BY <1>2, <1>3, <1>4, <1>5

LEMMA EndOfHandlerOrderly ==
    ASSUME OrderlyInv, TypeOk', SkipBusyChannel \/ HandlerReturns PROVE Orderly'
<1>1. /\ Polled /\ EntryOnItsChannel /\ AskedOk
      /\ UNCHANGED <<queue, server, timers, asked>>
  BY DEF OrderlyInv, Orderly, SkipBusyChannel, HandlerReturns
<1>2. /\ OneFrame' /\ (\A c : ~Serving(c) /\ ~Serving(c)')
      /\ frames' = <<>> \/ Top'.pc = "assign"
  BY EndOfHandlerFrame
<1>3. QED
  BY <1>1, <1>2 DEF Orderly, Polled, ScanOk, EntryOnItsChannel, AskedOk, server

\* A thread touches neither the queue nor what says that a channel is in use.
LEMMA DnsServerFrame ==
    ASSUME NEW ch \in Channels, Dns_server(ch)
    PROVE  UNCHANGED <<in_use, hostname, queue, cache, timers, frames, asked, answers>>
BY DEF Dns_server, Lookup, StoreAddr, Publish, PublishEarly, LateStoreAddr, server

LEMMA OrderlyUnchanged ==
    ASSUME Orderly, UNCHANGED <<in_use, hostname, queue, timers, frames, asked>>
    PROVE  Orderly'
<1>1. \A c : Serving(c)' <=> Serving(c)
  BY DEF Serving
<1>2. QED
  BY <1>1 DEF Orderly, OneFrame, Polled, ScanOk, EntryOnItsChannel, AskedOk, Top

LEMMA OrderlyStep ==
    ASSUME ~NestedLoop
    PROVE  OrderlyInv /\ [Next]_vars => OrderlyInv'
<1> SUFFICES ASSUME OrderlyInv, [Next]_vars PROVE OrderlyInv'
  OBVIOUS
<1>1. TypeOk' /\ Named'
  BY TypeStep, NamedStep DEF OrderlyInv
<1>2. CASE \E r \in Requests, h \in Hosts : a_Dns_resolve(r, h)
  BY <1>1, <1>2, ResolveOrderly DEF OrderlyInv
<1>3. CASE \E ch \in Channels : Dns_timeout_client(ch)
  BY <1>1, <1>3, TimeoutOrderly DEF OrderlyInv
<1>4. CASE ServeStep
  BY <1>1, <1>4, AnswerEntryOrderly, CallbackReturnsOrderly, FreeTheChannelOrderly,
     AssignChannelOrderly, EndOfHandlerOrderly DEF ServeStep, OrderlyInv
<1>5. CASE \E ch \in Channels : Dns_server(ch)
  BY <1>1, <1>5, DnsServerFrame, OrderlyUnchanged DEF OrderlyInv
<1>6. CASE UNCHANGED vars
  BY <1>1, <1>6, OrderlyUnchanged DEF OrderlyInv, vars
<1>7. QED
  BY <1>2, <1>3, <1>4, <1>5, <1>6 DEF Next

LEMMA OrderlyInit == Init => OrderlyInv
<1> SUFFICES ASSUME Init PROVE OrderlyInv
  OBVIOUS
<1>1. TypeOk /\ Named
  BY InitTypeOk DEF Init, Named
<1>2. DOMAIN <<>> = {} /\ Len(<<>>) = 0
  BY EmptySeq, LenProperties
<1>3. OneFrame /\ ScanOk /\ EntryOnItsChannel /\ AskedOk
  BY <1>2 DEF Init, OneFrame, ScanOk, EntryOnItsChannel, AskedOk
<1>4. Polled
  BY <1>2 DEF Init, Polled, Serving
<1>5. QED
  BY <1>1, <1>3, <1>4 DEF OrderlyInv, Orderly

----------------------------------------------------------------------------
(* What requests are owed: one lookup, one answer, and no wait while a       *)
(* channel is free.  Like the order of the channels this does not depend on  *)
(* when the stores of a thread become visible.                               *)

\* Entry i is in its callback.
InCallback(i) == frames # <<>> /\ Top.pc = "callback" /\ Top.i = i

\* Each request is in the queue once, and answered at most once; from its call on
\* it is in the queue or answered, and it is both only in its own callback.
OnceOk ==
    /\ \A i, j \in DOMAIN queue : queue[i].req = queue[j].req => i = j
    /\ \A r \in Requests :
         /\ Len(answers[r]) <= 1
         /\ asked[r] = None => answers[r] = <<>>
         /\ asked[r] # None => answers[r] # <<>> \/ \E i \in DOMAIN queue : queue[i].req = r
    /\ \A i \in DOMAIN queue : answers[queue[i].req] # <<>> <=> InCallback(i)
    /\ frames # <<>> /\ Top.pc = "callback" => ~LookupBlocks

\* A channel that is polled has an entry, and nobody waits for, or looks up, a
\* host that is cached.
PerHostOk ==
    /\ OneLookupPerHost
    /\ \A c \in Channels : timers[c] = 1 =>
         /\ \E i \in DOMAIN queue : queue[i].channel = c
         /\ ~Cached(hostname[c])
    /\ \A i \in DOMAIN queue : queue[i].channel = Waiting => ~Cached(queue[i].host)

SomeoneWaits == \E i \in DOMAIN queue : queue[i].channel = Waiting

\* While somebody waits, the channels that Dns_assign_channels has passed are in
\* use, and between handlers all of them are.
IdleOk ==
    /\ NoIdleChannel
    /\ frames # <<>> /\ Top.pc = "assign" /\ SomeoneWaits =>
         \A c \in Channels : c < Top.i => in_use[c]

OwedInv == OrderlyInv /\ OnceOk /\ PerHostOk /\ IdleOk

\* The queue after a request joins it.
LEMMA AppendedShape ==
    ASSUME TypeOk, NEW r \in Requests, NEW h \in Hosts,
           NEW c \in Channels \cup {Waiting}, queue' = Append(queue, Entry(c, h, r))
    PROVE  /\ \A i \in DOMAIN queue : i \in DOMAIN queue' /\ queue'[i] = queue[i]
           /\ \E n \in DOMAIN queue' :
                /\ queue'[n].channel = c /\ queue'[n].host = h /\ queue'[n].req = r
                /\ n \notin DOMAIN queue
                /\ DOMAIN queue' = DOMAIN queue \cup {n}
<1>1. queue \in Seq(EntryType) /\ Entry(c, h, r) \in EntryType
  BY DEF TypeOk, Entry, EntryType
<1>2. /\ Len(queue) \in Nat
      /\ DOMAIN queue' = 1 .. Len(queue) + 1 /\ DOMAIN queue = 1 .. Len(queue)
      /\ \A i \in 1 .. Len(queue) : queue'[i] = queue[i]
      /\ queue'[Len(queue) + 1] = Entry(c, h, r)
  BY <1>1, AppendProperties, LenProperties
<1> DEFINE n == Len(queue) + 1
<1>3. queue'[n].channel = c /\ queue'[n].host = h /\ queue'[n].req = r
  BY <1>2 DEF Entry
<1>4. n \in DOMAIN queue' /\ n \notin DOMAIN queue /\ DOMAIN queue' = DOMAIN queue \cup {n}
  BY <1>2
<1>5. QED
  BY <1>2, <1>3, <1>4

\* An entry that asks has a request that has asked.
LEMMA QueuedAsked ==
    ASSUME TypeOk, AskedOk, NEW i \in DOMAIN queue
    PROVE  /\ queue[i] \in EntryType /\ queue[i].req \in Requests /\ queue[i].host \in Hosts
           /\ queue[i].channel \in Channels \cup {Waiting}
           /\ asked[queue[i].req] = queue[i].host /\ asked[queue[i].req] # None
<1>1. queue[i] \in EntryType
  BY ElementOfSeq, LenProperties DEF TypeOk
<1>2. /\ queue[i].req \in Requests /\ queue[i].host \in Hosts
      /\ queue[i].channel \in Channels \cup {Waiting}
  BY <1>1 DEF EntryType
<1>3. asked[queue[i].req] = queue[i].host
  BY DEF AskedOk
<1>4. QED
  BY <1>1, <1>2, <1>3, NoneAssumption

\* A channel number is not the mark of an entry that waits.
LEMMA WaitingIsNoChannel == Waiting \notin Channels
BY NumServersAssumption DEF Waiting, Channels

----------------------------------------------------------------------------
(* One answer for each request. *)

LEMMA ResolveOnce ==
    ASSUME ~NestedLoop, OwedInv, NEW r \in Requests, NEW h \in Hosts, a_Dns_resolve(r, h)
    PROVE  OnceOk'
<1>1. /\ TypeOk /\ AskedOk /\ OnceOk /\ answers \in [Requests -> Seq(Hosts \cup {None})]
      /\ asked \in [Requests -> Hosts \cup {None}]
  BY DEF OwedInv, OrderlyInv, Orderly, TypeOk
<1>2. /\ frames = <<>> /\ frames' = <<>> /\ cache' = cache
      /\ asked[r] = None /\ asked' = [asked EXCEPT ![r] = h]
  BY LoopIdle DEF a_Dns_resolve
<1>3. answers[r] = <<>> /\ \A i \in DOMAIN queue : queue[i].req # r
  BY <1>1, <1>2, QueuedAsked DEF OnceOk
<1>4. asked'[r] = h /\ h # None /\ \A q \in Requests : q # r => asked'[q] = asked[q]
  BY <1>1, <1>2, NoneAssumption
<1>5. CASE AnswerFromCache(r, h)
  <2>1. queue' = queue /\ answers' = [answers EXCEPT ![r] = Append(@, CachedAddr(h))]
    BY <1>5 DEF AnswerFromCache
  <2>2. answers'[r] = Append(<<>>, CachedAddr(h))
    BY <1>1, <1>3, <2>1
  <2>3. Len(answers'[r]) <= 1 /\ answers'[r] # <<>>
    <3>1. Append(<<>>, CachedAddr(h)) = <<CachedAddr(h)>>
      OBVIOUS
    <3>2. QED
      BY <2>2, <3>1
  <2>4. \A q \in Requests : q # r => answers'[q] = answers[q]
    BY <1>1, <2>1
  <2>5. \A q \in Requests :
          /\ Len(answers'[q]) <= 1
          /\ asked'[q] = None => answers'[q] = <<>>
          /\ asked'[q] # None => answers'[q] # <<>> \/ \E i \in DOMAIN queue : queue[i].req = q
    BY <1>1, <1>4, <2>3, <2>4 DEF OnceOk
  <2>6. \A i \in DOMAIN queue : answers'[queue[i].req] = <<>>
    BY <1>1, <1>2, <1>3, <2>4, QueuedAsked DEF OnceOk, InCallback
  <2>7. QED
    BY <1>1, <1>2, <2>1, <2>5, <2>6 DEF OnceOk, InCallback
<1>6. ASSUME NEW c \in Channels \cup {Waiting}, queue' = Append(queue, Entry(c, h, r)),
             answers' = answers
      PROVE  OnceOk'
  <2>1. \A i \in DOMAIN queue : i \in DOMAIN queue' /\ queue'[i] = queue[i]
    BY <1>1, <1>6, AppendedShape
  <2>2. PICK n \in DOMAIN queue' : /\ queue'[n].req = r /\ n \notin DOMAIN queue
                                   /\ DOMAIN queue' = DOMAIN queue \cup {n}
    BY <1>1, <1>6, AppendedShape
  <2>3. \A i, j \in DOMAIN queue' : queue'[i].req = queue'[j].req => i = j
    BY <1>1, <1>3, <2>1, <2>2 DEF OnceOk
  <2>4. \A q \in Requests :
          /\ Len(answers[q]) <= 1
          /\ asked'[q] = None => answers[q] = <<>>
          /\ asked'[q] # None => answers[q] # <<>> \/ \E i \in DOMAIN queue' : queue'[i].req = q
    BY <1>1, <1>4, <2>1, <2>2 DEF OnceOk
  <2>5. \A i \in DOMAIN queue' : answers[queue'[i].req] = <<>>
    BY <1>1, <1>2, <1>3, <2>1, <2>2 DEF OnceOk, InCallback
  <2>6. QED
    BY <1>2, <1>6, <2>3, <2>4, <2>5 DEF OnceOk, InCallback
<1>7. CASE JoinQueue(r, h)
  <2>1. queue \in Seq(EntryType) /\ \E i \in DOMAIN queue : queue[i].host = h
    BY <1>1, <1>7 DEF JoinQueue, QueueFound, TypeOk
  <2>2. QueueFind(queue, h) \in DOMAIN queue
    BY <2>1, FindsHost DEF QueueFind
  <2>3. queue[QueueFind(queue, h)].channel \in Channels \cup {Waiting}
    BY <1>1, <2>2, QueuedAsked
  <2>4. QED
    BY <1>6, <1>7, <2>3 DEF JoinQueue
<1>8. CASE \E ch \in Channels : StartLookup(r, h, ch)
  BY <1>6, <1>8 DEF StartLookup
<1>9. CASE WaitForChannel(r, h)
  BY <1>6, <1>9 DEF WaitForChannel
<1>10. QED
  BY <1>5, <1>7, <1>8, <1>9 DEF a_Dns_resolve

LEMMA TimeoutOnce ==
    ASSUME ~NestedLoop, OwedInv, TypeOk', NEW ch \in Channels, Dns_timeout_client(ch)
    PROVE  OnceOk'
<1>1. OnceOk /\ UNCHANGED <<queue, asked, answers>>
  BY DEF OwedInv, Dns_timeout_client
<1>2. frames = <<>> /\ frames' # <<>> /\ Top'.pc = "scan"
  BY TimeoutFrame DEF OwedInv
<1>3. QED
  BY <1>1, <1>2 DEF OnceOk, InCallback

LEMMA AnswerEntryOnce ==
    ASSUME OwedInv, AnswerEntry PROVE OnceOk'
<1>1. TypeOk /\ AskedOk /\ OnceOk /\ answers \in [Requests -> Seq(Hosts \cup {None})]
  BY DEF OwedInv, OrderlyInv, Orderly, TypeOk
<1>2. Top.pc = "scan" /\ frames' # <<>> /\ UNCHANGED <<queue, thread, asked>> /\ ~LookupBlocks
  BY AnswerEntryFrame DEF OwedInv, AnswerEntry, lookup, InHandler
<1>3. PICK i \in DOMAIN queue :
        /\ answers' = [answers EXCEPT ![queue[i].req] = Append(@, addr_list[Top.ch])]
        /\ Top'.pc = "callback" /\ Top'.i = i
  BY AnswerEntryFrame DEF OwedInv
<1> DEFINE r == queue[i].req
<1>4. r \in Requests /\ asked[r] # None /\ answers[r] = <<>>
  BY <1>1, <1>2, QueuedAsked DEF OnceOk, InCallback
<1>5. answers'[r] = Append(<<>>, addr_list[Top.ch])
  BY <1>1, <1>3, <1>4
<1>6. Len(answers'[r]) <= 1 /\ answers'[r] # <<>>
  <2>1. Append(<<>>, addr_list[Top.ch]) = <<addr_list[Top.ch]>>
    OBVIOUS
  <2>2. QED
    BY <1>5, <2>1
<1>7. \A q \in Requests : q # r => answers'[q] = answers[q]
  BY <1>1, <1>3
<1>8. \A q \in Requests :
        /\ Len(answers'[q]) <= 1
        /\ asked[q] = None => answers'[q] = <<>>
        /\ asked[q] # None => answers'[q] # <<>> \/ \E j \in DOMAIN queue : queue[j].req = q
  BY <1>1, <1>4, <1>6, <1>7 DEF OnceOk
<1>9. ASSUME NEW j \in DOMAIN queue PROVE answers'[queue[j].req] # <<>> <=> InCallback(j)'
  <2>1. InCallback(j)' <=> i = j
    BY <1>2, <1>3 DEF InCallback
  <2>2. CASE j = i
    BY <1>6, <2>1, <2>2
  <2>3. CASE j # i
    <3>1. queue[j].req # r /\ queue[j].req \in Requests
      BY <1>1, <2>3, QueuedAsked DEF OnceOk
    <3>2. answers[queue[j].req] = <<>>
      BY <1>1, <1>2 DEF OnceOk, InCallback
    <3>3. QED
      BY <1>7, <2>1, <2>3, <3>1, <3>2
  <2>4. QED
    BY <2>2, <2>3
<1>10. ~LookupBlocks'
  BY <1>2 DEF LookupBlocks
<1>11. QED
  BY <1>1, <1>2, <1>8, <1>9, <1>10 DEF OnceOk

LEMMA CallbackReturnsOnce ==
    ASSUME OwedInv, CallbackReturns PROVE OnceOk'
<1>1. TypeOk /\ OnceOk /\ UNCHANGED <<asked, answers>>
  BY DEF OwedInv, OrderlyInv, CallbackReturns
<1>2. /\ frames # <<>> /\ Top.pc = "callback" /\ Top.i \in DOMAIN queue
      /\ frames' # <<>> /\ Top'.pc = "scan"
  BY CallbackReturnsFrame DEF OwedInv
<1>3. /\ Len(queue) \in Nat /\ DOMAIN queue = 1 .. Len(queue)
      /\ DOMAIN queue' = 1 .. Len(queue) - 1
      /\ \A i \in 1 .. Len(queue) - 1 :
           queue'[i] = IF i < Top.i THEN queue[i] ELSE queue[i + 1]
  BY CallbackReturnsFrame DEF OwedInv
\* An index of the shortened queue, in the queue as it was.
<1> DEFINE old(i) == IF i < Top.i THEN i ELSE i + 1
<1>4. \A i \in DOMAIN queue' :
        old(i) \in DOMAIN queue /\ old(i) # Top.i /\ queue'[i] = queue[old(i)]
  BY <1>2, <1>3
<1>5. \A j \in DOMAIN queue : j # Top.i => \E i \in DOMAIN queue' : old(i) = j
  <2> SUFFICES ASSUME NEW j \in DOMAIN queue, j # Top.i
               PROVE  \E i \in DOMAIN queue' : old(i) = j
    OBVIOUS
  <2>1. CASE j < Top.i
    <3>1. j \in DOMAIN queue' /\ old(j) = j
      BY <1>2, <1>3, <2>1
    <3>2. QED
      BY <3>1
  <2>2. CASE j > Top.i
    <3>1. j - 1 \in DOMAIN queue' /\ old(j - 1) = j
      BY <1>2, <1>3, <2>2
    <3>2. QED
      BY <3>1
  <2>3. QED
    BY <1>2, <1>3, <2>1, <2>2
<1>6. \A i, j \in DOMAIN queue' : old(i) = old(j) => i = j
  BY <1>2, <1>3
<1> HIDE DEF old
<1>7. \A i, j \in DOMAIN queue' : queue'[i].req = queue'[j].req => i = j
  BY <1>1, <1>4, <1>6 DEF OnceOk
<1>8. answers[queue[Top.i].req] # <<>>
  BY <1>1, <1>2 DEF OnceOk, InCallback
<1>9. ASSUME NEW q \in Requests, asked[q] # None
      PROVE  answers[q] # <<>> \/ \E i \in DOMAIN queue' : queue'[i].req = q
  BY <1>1, <1>4, <1>5, <1>8, <1>9 DEF OnceOk
<1>10. \A i \in DOMAIN queue' : answers[queue'[i].req] = <<>>
  BY <1>1, <1>4 DEF OnceOk, InCallback
<1>11. \A i : ~InCallback(i)'
  BY <1>2 DEF InCallback
<1>12. QED
  BY <1>1, <1>2, <1>7, <1>9, <1>10, <1>11 DEF OnceOk

\* The rest of the handler runs outside callbacks.
LEMMA RestOfHandlerOnce ==
    ASSUME OwedInv, TypeOk', FreeTheChannel \/ SkipBusyChannel \/ HandlerReturns
    PROVE  OnceOk'
<1>1. OnceOk /\ UNCHANGED <<queue, asked, answers>>
  BY DEF OwedInv, FreeTheChannel, SkipBusyChannel, HandlerReturns
<1>2. Top.pc # "callback"
  BY FreeTheChannelFrame, EndOfHandlerFrame DEF OwedInv
<1>3. frames' = <<>> \/ Top'.pc # "callback"
  BY FreeTheChannelFrame, EndOfHandlerFrame DEF OwedInv
<1>4. \A i : ~InCallback(i) /\ ~InCallback(i)'
  BY <1>2, <1>3 DEF InCallback
<1>5. QED
  BY <1>1, <1>3, <1>4 DEF OnceOk

LEMMA AssignChannelOnce ==
    ASSUME OwedInv, TypeOk', AssignChannel PROVE OnceOk'
<1>1. TypeOk /\ OnceOk /\ UNCHANGED <<asked, answers>>
  BY DEF OwedInv, OrderlyInv, AssignChannel
<1>2. Top.pc = "assign" /\ Top'.pc = "assign" /\ Top.i \in Channels
  BY AssignChannelFrame DEF OwedInv
<1>3. PICK i \in DOMAIN queue : queue' = Assigned(queue, i, Top.i)
  BY AssignChannelFrame DEF OwedInv
<1>4. DOMAIN queue' = DOMAIN queue /\ \A j \in DOMAIN queue : queue'[j].req = queue[j].req
  BY <1>1, <1>2, <1>3, AssignedQueue DEF TypeOk
<1>5. \A j : ~InCallback(j) /\ ~InCallback(j)'
  BY <1>2 DEF InCallback
<1>6. QED
  BY <1>1, <1>2, <1>4, <1>5 DEF OnceOk

\* A thread ends a lookup, it never starts one.
LEMMA DnsServerOnce ==
    ASSUME OwedInv, NEW ch \in Channels, Dns_server(ch) PROVE OnceOk'
<1>1. /\ OnceOk /\ thread \in [Channels -> ThreadPcs]
      /\ UNCHANGED <<queue, frames, asked, answers>>
  BY DnsServerFrame DEF OwedInv, OrderlyInv, TypeOk, ServerTypeOk
<1>2. thread[ch] # "none" /\ \A c \in Channels : c # ch => thread'[c] = thread[c]
  BY <1>1 DEF Dns_server, Lookup, StoreAddr, Publish, PublishEarly, LateStoreAddr
<1>3. LookupBlocks' => LookupBlocks
  BY <1>2 DEF LookupBlocks
<1>4. QED
  BY <1>1, <1>3 DEF OnceOk, InCallback, Top

----------------------------------------------------------------------------
(* One lookup for each host. *)

\* Between handlers no channel is in use without an entry, so a host that is
\* neither cached nor queued is not being looked up.
LEMMA NotLookedUp ==
    ASSUME ~NestedLoop, OwedInv, EventLoop, NEW h \in Hosts, ~QueueFound(queue, h),
           NEW c \in Channels, in_use[c]
    PROVE  hostname[c] # h
<1>1. Polled /\ EntryOnItsChannel /\ PerHostOk
  BY DEF OwedInv, OrderlyInv, Orderly
<1>2. timers[c] = 1
  BY <1>1, LoopIdle DEF Polled
<1>3. PICK i \in DOMAIN queue : queue[i].channel = c
  BY <1>1, <1>2 DEF PerHostOk
<1>4. queue[i].host = hostname[c]
  BY <1>1, <1>3, WaitingIsNoChannel DEF EntryOnItsChannel
<1>5. QED
  BY <1>3, <1>4 DEF QueueFound

LEMMA ResolvePerHost ==
    ASSUME ~NestedLoop, OwedInv, NEW r \in Requests, NEW h \in Hosts, a_Dns_resolve(r, h)
    PROVE  PerHostOk'
<1>1. TypeOk /\ ServerTypeOk /\ PerHostOk /\ OneLookupPerHost
  BY DEF OwedInv, OrderlyInv, TypeOk, PerHostOk
<1>2. EventLoop /\ cache' = cache
  BY DEF a_Dns_resolve
<1>3. \A g : Cached(g)' <=> Cached(g)
  BY <1>2 DEF Cached
<1>4. CASE AnswerFromCache(r, h)
  BY <1>1, <1>2, <1>3, <1>4 DEF AnswerFromCache, PerHostOk, OneLookupPerHost, server
\* An entry joins the entries of its host, if there are any.
<1>5. ASSUME NEW c \in Channels \cup {Waiting}, queue' = Append(queue, Entry(c, h, r)),
             \A i \in DOMAIN queue : queue[i].host = h => queue[i].channel = c,
             ~Cached(h)
      PROVE  /\ \A i, j \in DOMAIN queue' :
                  queue'[i].host = queue'[j].host => queue'[i].channel = queue'[j].channel
             /\ \A i, j \in DOMAIN cache' : cache'[i].host = cache'[j].host => i = j
             /\ \A i \in DOMAIN queue' :
                  queue'[i].channel = Waiting => ~Cached(queue'[i].host)
             /\ \A d : (\E i \in DOMAIN queue : queue[i].channel = d)
                         => \E i \in DOMAIN queue' : queue'[i].channel = d
             /\ \E i \in DOMAIN queue' : queue'[i].channel = c
  <2>1. \A i \in DOMAIN queue : i \in DOMAIN queue' /\ queue'[i] = queue[i]
    BY <1>1, <1>5, AppendedShape
  <2>2. PICK n \in DOMAIN queue' : /\ queue'[n].channel = c /\ queue'[n].host = h
                                   /\ DOMAIN queue' = DOMAIN queue \cup {n}
    BY <1>1, <1>5, AppendedShape
  <2>3. \A i, j \in DOMAIN queue' :
          queue'[i].host = queue'[j].host => queue'[i].channel = queue'[j].channel
    BY <1>1, <1>5, <2>1, <2>2 DEF OneLookupPerHost
  <2>4. \A i \in DOMAIN queue' : queue'[i].channel = Waiting => ~Cached(queue'[i].host)
    BY <1>1, <1>5, <2>1, <2>2 DEF PerHostOk
  <2>5. \A i, j \in DOMAIN cache' : cache'[i].host = cache'[j].host => i = j
    BY <1>1, <1>2 DEF OneLookupPerHost
  <2>6. QED
    BY <1>3, <2>1, <2>2, <2>3, <2>4, <2>5
<1>6. CASE JoinQueue(r, h)
  <2> DEFINE k == QueueFind(queue, h)
  <2>1. queue \in Seq(EntryType) /\ \E i \in DOMAIN queue : queue[i].host = h
    BY <1>1, <1>6 DEF JoinQueue, QueueFound, TypeOk
  <2>2. k \in DOMAIN queue /\ queue[k].host = h
    BY <2>1, FindsHost DEF QueueFind
  <2>3. queue[k].channel \in Channels \cup {Waiting}
    BY <2>2, QueuedAsked DEF OwedInv, OrderlyInv, Orderly
  <2>4. \A i \in DOMAIN queue : queue[i].host = h => queue[i].channel = queue[k].channel
    BY <1>1, <2>2 DEF OneLookupPerHost
  <2>5. /\ queue' = Append(queue, Entry(queue[k].channel, h, r)) /\ ~Cached(h)
        /\ UNCHANGED <<server, timers>>
    BY <1>6 DEF JoinQueue
  <2> HIDE DEF k
  <2>6. QED
    BY <1>1, <1>3, <1>5, <2>3, <2>4, <2>5 DEF PerHostOk, OneLookupPerHost, server
<1>7. ASSUME NEW ch \in Channels, StartLookup(r, h, ch) PROVE PerHostOk'
  <2>1. /\ ~Cached(h) /\ ~QueueFound(queue, h) /\ ServerReq(ch, h)
        /\ queue' = Append(queue, Entry(ch, h, r))
    BY <1>7 DEF StartLookup
  <2>2. \A i \in DOMAIN queue : queue[i].host # h
    BY <2>1 DEF QueueFound
  <2>3. /\ hostname'[ch] = h
        /\ \A c \in Channels : c # ch =>
             /\ in_use'[c] = in_use[c] /\ hostname'[c] = hostname[c]
             /\ timers'[c] = timers[c]
    BY <1>1, <2>1 DEF ServerReq, ServerTypeOk
  <2>4. \A c \in Channels : in_use[c] => hostname[c] # h
    BY <1>2, <2>1, NotLookedUp
  <2>5. \A c, d \in Channels :
          in_use'[c] /\ in_use'[d] /\ hostname'[c] = hostname'[d] => c = d
    BY <1>1, <2>3, <2>4 DEF OneLookupPerHost
  <2>6. ASSUME NEW c \in Channels, timers'[c] = 1
        PROVE  (\E i \in DOMAIN queue' : queue'[i].channel = c) /\ ~Cached(hostname'[c])
    <3>1. CASE c = ch
      BY <1>5, <2>1, <2>2, <2>3, <3>1
    <3>2. CASE c # ch
      <4>1. (\E i \in DOMAIN queue : queue[i].channel = c) /\ ~Cached(hostname[c])
        BY <1>1, <2>3, <2>6, <3>2 DEF PerHostOk
      <4>2. QED
        BY <1>5, <2>1, <2>2, <2>3, <3>2, <4>1
    <3>3. QED
      BY <3>1, <3>2
  <2>7. QED
    BY <1>3, <1>5, <2>1, <2>2, <2>5, <2>6 DEF PerHostOk, OneLookupPerHost
<1>8. CASE WaitForChannel(r, h)
  <2>1. /\ ~Cached(h) /\ queue' = Append(queue, Entry(Waiting, h, r))
        /\ UNCHANGED <<server, timers>>
    BY <1>8 DEF WaitForChannel
  <2>2. \A i \in DOMAIN queue : queue[i].host # h
    BY <1>8 DEF WaitForChannel, QueueFound
  <2>3. QED
    BY <1>1, <1>3, <1>5, <2>1, <2>2 DEF PerHostOk, OneLookupPerHost, server
<1>9. QED
  BY <1>4, <1>6, <1>7, <1>8 DEF a_Dns_resolve

\* What Dns_timeout_client adds to the cache: the host of its channel, when it has
\* addresses.
LEMMA CachedAfter ==
    ASSUME TypeOk, TypeOk', NEW ch \in Channels, Dns_timeout_client(ch)
    PROVE  /\ \A h : Cached(h)' <=> Cached(h) \/ (addr_list[ch] # None /\ h = hostname[ch])
           /\ ~Cached(hostname[ch]) /\ (\A i, j \in DOMAIN cache : cache[i].host = cache[j].host => i = j)
                => \A i, j \in DOMAIN cache' : cache'[i].host = cache'[j].host => i = j
<1>1. CASE addr_list[ch] = None
  <2>1. cache' = cache
    BY <1>1 DEF Dns_timeout_client
  <2>2. QED
    BY <1>1, <2>1 DEF Cached
<1>2. CASE addr_list[ch] # None
  <2> DEFINE e == [host |-> hostname[ch], addr |-> addr_list[ch]]
             n == Len(cache) + 1
  <2>1. /\ cache' = Append(cache, e) /\ e.host = hostname[ch]
        /\ cache \in Seq(CacheType) /\ cache' \in Seq(CacheType)
    BY <1>2 DEF Dns_timeout_client, TypeOk
  <2> HIDE DEF e
  <2>2. cache \in Seq(CacheType \cup {e}) /\ e \in CacheType \cup {e}
    <3>1. \A i \in 1 .. Len(cache) : cache[i] \in CacheType \cup {e}
      BY <2>1, ElementOfSeq
    <3>2. Len(cache) \in Nat /\ cache \in [1 .. Len(cache) -> CacheType \cup {e}]
      BY <2>1, <3>1, LenProperties
    <3>3. QED
      BY <3>2, SeqDef
  <2>3. /\ DOMAIN cache = 1 .. Len(cache) /\ Len(cache) \in Nat
        /\ DOMAIN cache' = 1 .. n
        /\ cache'[n] = e
        /\ \A m \in 1 .. Len(cache) : cache'[m] = cache[m]
    BY <2>1, <2>2, AppendProperties, LenProperties
  <2>4. DOMAIN cache' = DOMAIN cache \cup {n} /\ n \notin DOMAIN cache
    BY <2>3
  <2>5. \A h : Cached(h)' <=> Cached(h) \/ h = hostname[ch]
    BY <2>1, <2>3, <2>4 DEF Cached
  <2>6. ASSUME ~Cached(hostname[ch]),
               \A i, j \in DOMAIN cache : cache[i].host = cache[j].host => i = j,
               NEW i \in DOMAIN cache', NEW j \in DOMAIN cache',
               cache'[i].host = cache'[j].host
        PROVE  i = j
    BY <2>1, <2>3, <2>4, <2>6 DEF Cached
  <2>7. QED
    BY <1>2, <2>5, <2>6
<1>3. QED
  BY <1>1, <1>2

LEMMA TimeoutPerHost ==
    ASSUME ~NestedLoop, OwedInv, TypeOk', NEW ch \in Channels, Dns_timeout_client(ch)
    PROVE  PerHostOk'
<1>1. TypeOk /\ EntryOnItsChannel /\ Polled /\ PerHostOk /\ OneLookupPerHost
  BY DEF OwedInv, OrderlyInv, Orderly, PerHostOk
<1>2. UNCHANGED <<queue, in_use, hostname>>
  BY DEF Dns_timeout_client, server
<1>3. /\ timers[ch] = 1 /\ timers'[ch] = 0 /\ in_use[ch]
      /\ \A c \in Channels : c # ch => timers'[c] = timers[c]
  BY TimeoutFrame DEF OwedInv
<1>4. ~Cached(hostname[ch])
  BY <1>1, <1>3 DEF PerHostOk
<1>5. \A h : Cached(h)' => Cached(h) \/ h = hostname[ch]
  BY <1>1, CachedAfter
<1>6. \A i, j \in DOMAIN cache' : cache'[i].host = cache'[j].host => i = j
  BY <1>1, <1>4, CachedAfter DEF OneLookupPerHost
<1>7. ASSUME NEW c \in Channels, timers'[c] = 1
      PROVE  (\E i \in DOMAIN queue : queue[i].channel = c) /\ ~Cached(hostname[c])'
  <2>1. c # ch /\ timers[c] = 1
    BY <1>3, <1>7
  <2>2. in_use[c] /\ hostname[c] # hostname[ch]
    BY <1>1, <1>3, <2>1 DEF Polled, OneLookupPerHost
  <2>3. QED
    BY <1>1, <1>2, <1>5, <2>1, <2>2 DEF PerHostOk
<1>8. ASSUME NEW i \in DOMAIN queue, queue[i].channel = Waiting
      PROVE  ~Cached(queue[i].host)'
  <2>1. PICK j \in DOMAIN queue : queue[j].channel = ch
    BY <1>1, <1>3 DEF PerHostOk
  <2>2. queue[j].host = hostname[ch]
    BY <1>1, <2>1, WaitingIsNoChannel DEF EntryOnItsChannel
  <2>3. queue[i].host # hostname[ch]
    BY <1>1, <1>8, <2>1, <2>2, WaitingIsNoChannel DEF OneLookupPerHost
  <2>4. QED
    BY <1>1, <1>2, <1>5, <1>8, <2>3 DEF PerHostOk
<1>9. QED
  BY <1>1, <1>2, <1>6, <1>7, <1>8 DEF PerHostOk, OneLookupPerHost

LEMMA CallbackReturnsPerHost ==
    ASSUME OwedInv, CallbackReturns PROVE PerHostOk'
<1>1. TypeOk /\ OneFrame /\ Polled /\ PerHostOk /\ OneLookupPerHost
  BY DEF OwedInv, OrderlyInv, Orderly, PerHostOk
<1>2. UNCHANGED <<server, timers, cache>>
  BY DEF CallbackReturns
<1>3. /\ frames # <<>> /\ Top.pc = "callback" /\ Top.ch \in Channels
      /\ Top.i \in DOMAIN queue /\ queue[Top.i].channel = Top.ch
      /\ Len(queue) \in Nat /\ DOMAIN queue = 1 .. Len(queue)
      /\ DOMAIN queue' = 1 .. Len(queue) - 1
      /\ \A i \in 1 .. Len(queue) - 1 :
           queue'[i] = IF i < Top.i THEN queue[i] ELSE queue[i + 1]
      /\ \A i \in DOMAIN queue' : \E j \in DOMAIN queue : queue'[i] = queue[j]
  BY CallbackReturnsFrame DEF OwedInv
<1>4. \A h : Cached(h)' <=> Cached(h)
  BY <1>2 DEF Cached
<1>5. ASSUME NEW c \in Channels, timers[c] = 1
      PROVE  \E i \in DOMAIN queue' : queue'[i].channel = c
  <2>1. PICK j \in DOMAIN queue : queue[j].channel = c
    BY <1>1, <1>5 DEF PerHostOk
  <2>2. c # Top.ch
    BY <1>1, <1>3, <1>5, ServingTop DEF Polled
  <2>3. CASE j < Top.i
    BY <1>3, <2>1, <2>3
  <2>4. CASE j > Top.i
    <3>1. j - 1 \in DOMAIN queue' /\ queue'[j - 1] = queue[j]
      BY <1>3, <2>4
    <3>2. QED
      BY <2>1, <3>1
  <2>5. QED
    BY <1>3, <2>1, <2>2, <2>3, <2>4
<1>6. \A i, j \in DOMAIN queue' :
        queue'[i].host = queue'[j].host => queue'[i].channel = queue'[j].channel
  BY <1>1, <1>3 DEF OneLookupPerHost
<1>7. \A i \in DOMAIN queue' : queue'[i].channel = Waiting => ~Cached(queue'[i].host)
  BY <1>1, <1>3 DEF PerHostOk
<1>8. QED
  BY <1>1, <1>2, <1>4, <1>5, <1>6, <1>7 DEF PerHostOk, OneLookupPerHost, server

\* Steps that move no entry, start no lookup and cache nothing.
LEMMA PerHostKept ==
    ASSUME PerHostOk, UNCHANGED <<hostname, queue, timers, cache>>,
           \A c \in Channels : in_use'[c] => in_use[c]
    PROVE  PerHostOk'
<1>1. \A h : Cached(h)' <=> Cached(h)
  BY DEF Cached
<1>2. QED
  BY <1>1 DEF PerHostOk, OneLookupPerHost

\* Who Dns_assign_channels gives the channel to.
LEMMA AssignedChannel ==
    ASSUME NEW q \in Seq(EntryType), NEW i \in DOMAIN q, NEW ch, NEW j \in DOMAIN q
    PROVE  Assigned(q, i, ch)[j].channel =
             IF j >= i /\ q[j].channel = Waiting /\ q[j].host = q[i].host
             THEN ch ELSE q[j].channel
<1>1. q[j] \in EntryType
  BY ElementOfSeq, LenProperties
<1>2. q[j] = [channel |-> q[j].channel, host |-> q[j].host, req |-> q[j].req]
  BY <1>1 DEF EntryType
<1>3. CASE j >= i /\ q[j].channel = Waiting /\ q[j].host = q[i].host
  <2>1. Assigned(q, i, ch)[j] = [q[j] EXCEPT !.channel = ch]
    BY <1>3 DEF Assigned
  <2>2. [q[j] EXCEPT !.channel = ch] = [channel |-> ch, host |-> q[j].host, req |-> q[j].req]
    BY <1>2
  <2>3. QED
    BY <1>3, <2>1, <2>2
<1>4. CASE ~(j >= i /\ q[j].channel = Waiting /\ q[j].host = q[i].host)
  <2>1. Assigned(q, i, ch)[j] = q[j]
    BY <1>4 DEF Assigned
  <2>2. QED
    BY <1>4, <2>1
<1>5. QED
  BY <1>3, <1>4

LEMMA AssignChannelPerHost ==
    ASSUME OwedInv, TypeOk', AssignChannel PROVE PerHostOk'
<1>1. /\ TypeOk /\ ServerTypeOk /\ Polled /\ EntryOnItsChannel /\ PerHostOk /\ OneLookupPerHost
      /\ queue \in Seq(EntryType) /\ Len(queue) \in Nat /\ DOMAIN queue = 1 .. Len(queue)
  BY LenProperties DEF OwedInv, OrderlyInv, Orderly, PerHostOk, TypeOk
<1>2. cache' = cache /\ \A h : Cached(h)' <=> Cached(h)
  BY DEF AssignChannel, Cached
<1>3. Top.i \in Channels /\ ~in_use[Top.i] /\ \A c : ~Serving(c)
  BY AssignChannelFrame DEF OwedInv
<1>4. PICK i \in DOMAIN queue :
        /\ NextWaiting(i) /\ queue[i].host \in Hosts
        /\ queue' = Assigned(queue, i, Top.i)
        /\ ServerReq(Top.i, queue[i].host)
  BY AssignChannelFrame DEF OwedInv
<1> DEFINE h == queue[i].host
<1>5. queue[i].channel = Waiting /\ \A j \in 1 .. i - 1 : queue[j].channel # Waiting
  BY <1>4 DEF NextWaiting, NextOn
\* All the entries of that host wait, and all of them are given the channel.
<1>6. \A j \in DOMAIN queue : queue[j].host = h => queue[j].channel = Waiting /\ j >= i
  BY <1>1, <1>5 DEF OneLookupPerHost
<1>7. /\ DOMAIN queue' = DOMAIN queue
      /\ \A j \in DOMAIN queue :
           /\ queue'[j].host = queue[j].host
           /\ queue'[j].channel = IF queue[j].host = h THEN Top.i ELSE queue[j].channel
  <2>1. DOMAIN queue' = DOMAIN queue /\ \A j \in DOMAIN queue : queue'[j].host = queue[j].host
    BY SMTT(20), <1>1, <1>3, <1>4, AssignedQueue
  <2>2. \A j \in DOMAIN queue :
          queue'[j].channel = IF j >= i /\ queue[j].channel = Waiting /\ queue[j].host = h
                              THEN Top.i ELSE queue[j].channel
    BY <1>1, <1>4, AssignedChannel
  <2>3. QED
    BY <1>6, <2>1, <2>2
<1>8. /\ hostname'[Top.i] = h
      /\ \A c \in Channels : c # Top.i =>
           /\ in_use'[c] = in_use[c] /\ hostname'[c] = hostname[c]
           /\ timers'[c] = timers[c]
  BY <1>1, <1>3, <1>4 DEF ServerReq, ServerTypeOk
<1>9. ASSUME NEW c \in Channels, in_use[c] PROVE hostname[c] # h
  <2>1. timers[c] = 1
    BY <1>1, <1>3, <1>9 DEF Polled
  <2>2. PICK j \in DOMAIN queue : queue[j].channel = c
    BY <1>1, <2>1 DEF PerHostOk
  <2>3. queue[j].host = hostname[c]
    BY <1>1, <2>2, WaitingIsNoChannel DEF EntryOnItsChannel
  <2>4. QED
    BY <1>6, <2>2, <2>3, WaitingIsNoChannel
<1>10. \A c, d \in Channels :
          in_use'[c] /\ in_use'[d] /\ hostname'[c] = hostname'[d] => c = d
  BY <1>1, <1>8, <1>9 DEF OneLookupPerHost
<1>11. ASSUME NEW c \in Channels, timers'[c] = 1
       PROVE  (\E j \in DOMAIN queue' : queue'[j].channel = c) /\ ~Cached(hostname'[c])
  <2>1. CASE c = Top.i
    <3>1. ~Cached(h)
      BY <1>1, <1>5 DEF PerHostOk
    <3>2. QED
      BY <1>7, <1>8, <2>1, <3>1
  <2>2. CASE c # Top.i
    <3>1. PICK j \in DOMAIN queue : queue[j].channel = c
      BY <1>1, <1>8, <1>11, <2>2 DEF PerHostOk
    <3>2. queue'[j].channel = c
      BY <1>6, <1>7, <3>1, WaitingIsNoChannel
    <3>3. ~Cached(hostname'[c])
      BY <1>1, <1>8, <1>11, <2>2 DEF PerHostOk
    <3>4. QED
      BY <1>7, <3>1, <3>2, <3>3
  <2>3. QED
    BY <2>1, <2>2
<1>12. \A j \in DOMAIN queue' : queue'[j].channel = Waiting => ~Cached(queue'[j].host)
  BY <1>1, <1>3, <1>7, WaitingIsNoChannel DEF PerHostOk
<1>13. \A j, k \in DOMAIN queue' :
         queue'[j].host = queue'[k].host => queue'[j].channel = queue'[k].channel
  BY <1>1, <1>7 DEF OneLookupPerHost
<1> HIDE DEF h
<1>14. QED
  BY <1>1, <1>2, <1>10, <1>11, <1>12, <1>13 DEF PerHostOk, OneLookupPerHost

----------------------------------------------------------------------------
(* No wait while a channel is free. *)

LEMMA ResolveIdle ==
    ASSUME ~NestedLoop, OwedInv, NEW r \in Requests, NEW h \in Hosts, a_Dns_resolve(r, h)
    PROVE  IdleOk'
<1>1. TypeOk /\ AskedOk /\ IdleOk /\ OneLookupPerHost /\ in_use \in [Channels -> BOOLEAN]
  BY DEF OwedInv, OrderlyInv, Orderly, PerHostOk, TypeOk, ServerTypeOk
<1>2. frames = <<>> /\ frames' = <<>>
  BY LoopIdle DEF a_Dns_resolve
<1>3. SomeoneWaits => \A c \in Channels : in_use[c]
  BY <1>1, <1>2 DEF IdleOk, NoIdleChannel, SomeoneWaits
<1> SUFFICES ASSUME SomeoneWaits' PROVE \A c \in Channels : in_use'[c]
  BY <1>2 DEF IdleOk, NoIdleChannel, SomeoneWaits
<1>4. ASSUME NEW c \in Channels \cup {Waiting}, queue' = Append(queue, Entry(c, h, r))
      PROVE  SomeoneWaits \/ c = Waiting
  BY <1>1, <1>4, AppendedShape DEF SomeoneWaits
<1>5. CASE AnswerFromCache(r, h)
  BY <1>3, <1>5 DEF AnswerFromCache, SomeoneWaits, server
<1>6. CASE JoinQueue(r, h)
  <2>1. queue \in Seq(EntryType) /\ \E i \in DOMAIN queue : queue[i].host = h
    BY <1>1, <1>6 DEF JoinQueue, QueueFound, TypeOk
  <2>2. QueueFind(queue, h) \in DOMAIN queue
    BY <2>1, FindsHost DEF QueueFind
  <2>3. queue[QueueFind(queue, h)].channel \in Channels \cup {Waiting}
    BY <1>1, <2>2, QueuedAsked
  <2>4. SomeoneWaits
    BY <1>4, <1>6, <2>2, <2>3 DEF JoinQueue, SomeoneWaits
  <2>5. QED
    BY <1>3, <1>6, <2>4 DEF JoinQueue, server
<1>7. ASSUME NEW ch \in Channels, StartLookup(r, h, ch)
      PROVE  \A c \in Channels : in_use'[c]
  <2>1. SomeoneWaits
    BY <1>4, <1>7, WaitingIsNoChannel DEF StartLookup
  <2>2. QED
    BY <1>1, <1>3, <1>7, <2>1 DEF StartLookup, ServerReq
<1>8. CASE WaitForChannel(r, h)
  BY <1>8 DEF WaitForChannel, server
<1>9. QED
  BY <1>5, <1>6, <1>7, <1>8 DEF a_Dns_resolve

\* Until Dns_assign_channels starts, its loop has passed no channel.
LEMMA ServeIdle ==
    ASSUME ~NestedLoop, OwedInv, TypeOk',
           \/ \E ch \in Channels : Dns_timeout_client(ch)
           \/ AnswerEntry \/ CallbackReturns \/ FreeTheChannel
    PROVE  IdleOk'
<1>1. frames' # <<>> /\ (Top'.pc # "assign" \/ Top'.i = 0)
  BY TimeoutFrame, AnswerEntryFrame, CallbackReturnsFrame, FreeTheChannelFrame DEF OwedInv
<1>2. \A c \in Channels : ~(c < 0)
  BY NumServersAssumption DEF Channels
<1>3. QED
  BY <1>1, <1>2 DEF IdleOk, NoIdleChannel

LEMMA AssignChannelIdle ==
    ASSUME OwedInv, TypeOk', AssignChannel PROVE IdleOk'
<1>1. TypeOk /\ IdleOk /\ in_use \in [Channels -> BOOLEAN]
  BY DEF OwedInv, OrderlyInv, TypeOk, ServerTypeOk
<1>2. /\ frames # <<>> /\ Top.pc = "assign" /\ Top.i \in Channels
      /\ frames' # <<>> /\ Top'.pc = "assign" /\ Top'.i = Top.i + 1
  BY AssignChannelFrame DEF OwedInv
<1>3. PICK i \in DOMAIN queue :
        /\ NextWaiting(i)
        /\ ServerReq(Top.i, queue[i].host)
  BY AssignChannelFrame DEF OwedInv
<1>4. SomeoneWaits
  BY <1>3 DEF NextWaiting, NextOn, SomeoneWaits
<1>5. \A c \in Channels : c < Top.i => in_use[c]
  BY <1>1, <1>2, <1>4 DEF IdleOk
<1>6. ASSUME NEW c \in Channels, c < Top.i + 1 PROVE in_use'[c]
  <2>1. c = Top.i \/ c < Top.i
    BY <1>2, <1>6, NumServersAssumption DEF Channels
  <2>2. QED
    BY <1>1, <1>3, <1>5, <2>1 DEF ServerReq
<1>7. QED
  BY <1>2, <1>6 DEF IdleOk, NoIdleChannel

LEMMA EndOfHandlerIdle ==
    ASSUME OwedInv, TypeOk', SkipBusyChannel \/ HandlerReturns PROVE IdleOk'
<1>1. IdleOk /\ UNCHANGED <<queue, in_use>> /\ (SomeoneWaits' <=> SomeoneWaits)
  BY DEF OwedInv, SkipBusyChannel, HandlerReturns, SomeoneWaits, server
<1>2. frames # <<>> /\ Top.pc = "assign" /\ Top.i \in Nat
  BY EndOfHandlerFrame DEF OwedInv
<1>3. SomeoneWaits => \A c \in Channels : c < Top.i => in_use[c]
  BY <1>1, <1>2 DEF IdleOk
<1>4. CASE SkipBusyChannel
  <2>1. frames' # <<>> /\ Top'.pc = "assign" /\ Top'.i = Top.i + 1 /\ in_use[Top.i]
    BY <1>4, EndOfHandlerFrame DEF OwedInv, SkipBusyChannel
  <2>2. \A c \in Channels : c < Top.i + 1 => c = Top.i \/ c < Top.i
    BY <1>2, NumServersAssumption DEF Channels
  <2>3. QED
    BY <1>1, <1>3, <2>1, <2>2 DEF IdleOk, NoIdleChannel
<1>5. CASE HandlerReturns
  <2>1. frames' = <<>>
    BY <1>5, EndOfHandlerFrame DEF OwedInv
  <2>2. ASSUME SomeoneWaits, NEW c \in Channels PROVE in_use[c]
    <3>1. ~NoneOn(queue, Waiting, 1)
      <4>1. DOMAIN queue = 1 .. Len(queue)
        BY LenProperties DEF OwedInv, OrderlyInv, TypeOk
      <4>2. QED
        BY <2>2, <4>1 DEF SomeoneWaits, NoneOn
    <3>2. ~(Top.i < NumServers)
      BY <1>5, <3>1 DEF HandlerReturns
    <3>3. c < Top.i
      BY <1>2, <3>2, NumServersAssumption DEF Channels
    <3>4. QED
      BY <1>3, <2>2, <3>3
  <2>3. QED
    BY <1>1, <2>1, <2>2 DEF IdleOk, NoIdleChannel, SomeoneWaits
<1>6. QED
  BY <1>4, <1>5

----------------------------------------------------------------------------
(* The invariant of the requests, and the theorems. *)

LEMMA OwedUnchanged ==
    ASSUME OwedInv, UNCHANGED <<in_use, hostname, queue, cache, timers, frames, asked, answers>>
    PROVE  PerHostOk' /\ IdleOk'
<1>1. PerHostOk'
  BY PerHostKept DEF OwedInv
<1>2. QED
  BY <1>1 DEF OwedInv, IdleOk, NoIdleChannel, SomeoneWaits, Top

LEMMA OwedStep ==
    ASSUME ~NestedLoop
    PROVE  OwedInv /\ [Next]_vars => OwedInv'
<1> SUFFICES ASSUME OwedInv, [Next]_vars PROVE OwedInv'
  OBVIOUS
<1>1. OrderlyInv' /\ TypeOk'
  BY OrderlyStep DEF OwedInv, OrderlyInv
<1>2. CASE \E r \in Requests, h \in Hosts : a_Dns_resolve(r, h)
  BY <1>1, <1>2, ResolveOnce, ResolvePerHost, ResolveIdle DEF OwedInv
<1>3. CASE \E ch \in Channels : Dns_timeout_client(ch)
  BY <1>1, <1>3, TimeoutOnce, TimeoutPerHost, ServeIdle DEF OwedInv
<1>4. CASE AnswerEntry
  <2>1. UNCHANGED <<queue, in_use, hostname, timers, cache>>
    BY <1>4 DEF AnswerEntry, server
  <2>2. PerHostOk'
    BY <2>1, PerHostKept DEF OwedInv
  <2>3. QED
    BY <1>1, <1>4, <2>2, AnswerEntryOnce, ServeIdle DEF OwedInv
<1>5. CASE CallbackReturns
  BY <1>1, <1>5, CallbackReturnsOnce, CallbackReturnsPerHost, ServeIdle DEF OwedInv
<1>6. CASE FreeTheChannel
  <2>1. UNCHANGED <<queue, hostname, timers, cache>>
    BY <1>6 DEF FreeTheChannel
  <2>2. \A c \in Channels : in_use'[c] => in_use[c]
    BY <1>1, <1>6, FreeTheChannelFrame DEF OwedInv
  <2>3. PerHostOk'
    BY <2>1, <2>2, PerHostKept DEF OwedInv
  <2>4. QED
    BY <1>1, <1>6, <2>3, RestOfHandlerOnce, ServeIdle DEF OwedInv
<1>7. CASE AssignChannel
  BY <1>1, <1>7, AssignChannelOnce, AssignChannelPerHost, AssignChannelIdle DEF OwedInv
<1>8. CASE SkipBusyChannel \/ HandlerReturns
  <2>1. UNCHANGED <<queue, in_use, hostname, timers, cache>>
    BY <1>8 DEF SkipBusyChannel, HandlerReturns, server
  <2>2. PerHostOk'
    BY <2>1, PerHostKept DEF OwedInv
  <2>3. QED
    BY <1>1, <1>8, <2>2, RestOfHandlerOnce, EndOfHandlerIdle DEF OwedInv
<1>9. CASE \E ch \in Channels : Dns_server(ch)
  BY <1>1, <1>9, DnsServerOnce, DnsServerFrame, OwedUnchanged DEF OwedInv
<1>10. CASE UNCHANGED vars
  <2>1. OnceOk'
    BY <1>10 DEF OwedInv, OnceOk, InCallback, LookupBlocks, Top, vars, lookup
  <2>2. PerHostOk' /\ IdleOk'
    BY <1>10, OwedUnchanged DEF vars
  <2>3. QED
    BY <1>1, <2>1, <2>2 DEF OwedInv
<1>11. QED
  BY <1>2, <1>3, <1>4, <1>5, <1>6, <1>7, <1>8, <1>9, <1>10 DEF Next, ServeStep

LEMMA OwedInit == Init => OwedInv
<1> SUFFICES ASSUME Init PROVE OwedInv
  OBVIOUS
<1>1. DOMAIN <<>> = {} /\ Len(<<>>) = 0
  BY EmptySeq, LenProperties
<1>2. OnceOk
  BY <1>1 DEF Init, OnceOk
<1>3. PerHostOk
  BY <1>1 DEF Init, PerHostOk, OneLookupPerHost
<1>4. IdleOk
  BY <1>1 DEF Init, IdleOk, NoIdleChannel, SomeoneWaits
<1>5. QED
  BY <1>2, <1>3, <1>4, OrderlyInit DEF OwedInv

\* A request that is queued and answered is the one in the callback.
LEMMA OnceMeansOnce == OnceOk => AnsweredOnce
<1> SUFFICES ASSUME OnceOk PROVE AnsweredOnce
  OBVIOUS
<1>1. ASSUME NEW r \in Requests, NEW i \in DOMAIN queue, queue[i].req = r, answers[r] # <<>>
      PROVE  InHandler("callback") /\ Top.i = i
  BY <1>1 DEF OnceOk, InCallback, InHandler
<1>2. QED
  BY <1>1 DEF OnceOk, AnsweredOnce

\* When callbacks do not run the event loop, and whenever the stores of a lookup
\* thread become visible: every request gets one answer, through the one lookup of
\* its host, and waits for a channel only while all of them are busy.
THEOREM RequestsRight ==
    ASSUME ~NestedLoop
    PROVE  Spec => []RequestsAreRight
<1>1. OwedInv => RequestsAreRight
  BY OnceMeansOnce DEF OwedInv, PerHostOk, IdleOk, RequestsAreRight
<1>2. QED
  BY <1>1, OwedInit, OwedStep, PTL DEF Spec

\* Only Dns_assign_channels gives entries that wait a channel, and it starts at the
\* oldest.
LEMMA OldestFirstStep ==
    ASSUME TypeOk, [Next]_vars,
           NEW i \in DOMAIN queue, queue[i].channel = Waiting,
           Len(queue') = Len(queue), queue'[i].channel # Waiting
    PROVE  \E j \in 1 .. i : /\ queue'[j].channel = queue'[i].channel
                             /\ \A k \in 1 .. j - 1 : queue'[k].channel # Waiting
<1>1. queue \in Seq(EntryType) /\ Len(queue) \in Nat /\ DOMAIN queue = 1 .. Len(queue)
  BY LenProperties DEF TypeOk
<1>2. queue' # queue
  OBVIOUS
<1>3. \A e \in EntryType : queue' # Append(queue, e)
  <2>1. \A e \in EntryType : Len(Append(queue, e)) = Len(queue) + 1
    BY <1>1, AppendProperties
  <2>2. QED
    BY <1>1, <2>1
<1>4. \A h \in Hosts, r \in Requests, c \in Channels \cup {Waiting} : Entry(c, h, r) \in EntryType
  BY DEF Entry, EntryType
<1>5. ASSUME NEW r \in Requests, NEW h \in Hosts, a_Dns_resolve(r, h) PROVE FALSE
  <2>1. CASE JoinQueue(r, h)
    <3>1. \E k \in DOMAIN queue : queue[k].host = h
      BY <2>1 DEF JoinQueue, QueueFound
    <3>2. QueueFind(queue, h) \in DOMAIN queue
      BY <1>1, <3>1, FindsHost DEF QueueFind
    <3>3. queue[QueueFind(queue, h)] \in EntryType
      BY <1>1, <3>2, ElementOfSeq
    <3>4. queue[QueueFind(queue, h)].channel \in Channels \cup {Waiting}
      BY <3>3 DEF EntryType
    <3>5. QED
      BY <1>3, <1>4, <2>1, <3>4 DEF JoinQueue
  <2>2. CASE ~JoinQueue(r, h)
    BY <1>2, <1>3, <1>4, <1>5, <2>2
       DEF a_Dns_resolve, AnswerFromCache, StartLookup, WaitForChannel
  <2>3. QED
    BY <2>1, <2>2
<1>6. ASSUME CallbackReturns PROVE FALSE
  <2>1. Top.i \in Nat /\ queue' = QueueRemove(queue, Top.i)
    BY <1>6, TopType DEF CallbackReturns, InHandler
  <2>2. CASE Top.i \in 1 .. Len(queue)
    <3>1. Len(queue') = Len(queue) - 1
      BY <1>1, <2>1, <2>2, QueueRemoveShape
    <3>2. QED
      BY <1>1, <3>1
  <2>3. CASE Top.i > Len(queue)
    <3>1. ~(Top.i <= Len(queue))
      BY <1>1, <2>1, <2>3
    <3>2. QED
      BY <1>2, <2>1, <3>1 DEF QueueRemove
  <2>4. CASE Top.i = 0
    <3>1. Len(queue') = Len(queue) - 1
      BY <1>1, <2>1, <2>4, QueueRemoveZero
    <3>2. QED
      BY <1>1, <3>1
  <2>5. QED
    BY <1>1, <2>1, <2>2, <2>3, <2>4
<1>7. CASE AssignChannel
  <2>1. frames # <<>> /\ Top.i \in Channels
    BY <1>7, TopType, NumServersAssumption DEF AssignChannel, InHandler, Channels
  <2>2. PICK j \in DOMAIN queue : NextWaiting(j) /\ queue' = Assigned(queue, j, Top.i)
    BY <1>7 DEF AssignChannel
  <2>3. queue[j].channel = Waiting /\ \A k \in 1 .. j - 1 : queue[k].channel # Waiting
    BY <2>2 DEF NextWaiting, NextOn
  <2>4. \A k \in DOMAIN queue :
          queue'[k].channel = IF k >= j /\ queue[k].channel = Waiting /\ queue[k].host = queue[j].host
                              THEN Top.i ELSE queue[k].channel
    BY <1>1, <2>2, AssignedChannel
  <2>5. j \in 1 .. i /\ queue'[i].channel = Top.i
    BY <1>1, <2>3, <2>4
  <2>6. queue'[j].channel = Top.i
    BY <1>1, <2>2, <2>3, <2>4
  <2>7. \A k \in 1 .. j - 1 : queue'[k].channel # Waiting
    BY <1>1, <2>3, <2>4, <2>5
  <2>8. QED
    BY <2>5, <2>6, <2>7
<1>8. QED
  BY <1>2, <1>5, <1>6, <1>7, DnsServerFrame
     DEF Next, ServeStep, vars, Dns_timeout_client, AnswerEntry, FreeTheChannel,
         SkipBusyChannel, HandlerReturns

\* In every build, with or without threads, nested event loops and reordered
\* stores: the entries that wait for a channel are served oldest first.
THEOREM OldestFirst == Spec => OldestHostFirst
<1> DEFINE A == \A i \in DOMAIN queue :
         /\ queue[i].channel = Waiting
         /\ Len(queue') = Len(queue)
         /\ queue'[i].channel # Waiting
         => \E j \in 1 .. i :
              /\ queue'[j].channel = queue'[i].channel
              /\ \A k \in 1 .. j - 1 : queue'[k].channel # Waiting
<1>1. TypeOk /\ [Next]_vars => [A]_vars
  BY OldestFirstStep
<1>2. QED
  BY <1>1, TypeCorrect, PTL DEF Spec, OldestHostFirst

\* Even when a thread publishes its result early, nobody is answered twice or from
\* the wrong channel, and nobody overtakes in the queue.
THEOREM QueueFair ==
    ASSUME ~NestedLoop
    PROVE  Spec => QueueIsFair
<1>1. OwedInv => EntryOnItsChannel /\ AnsweredOnce
  BY OnceMeansOnce DEF OwedInv, OrderlyInv, Orderly
<1>2. QED
  BY <1>1, OwedInit, OwedStep, OldestFirst, PTL DEF Spec, QueueIsFair

----------------------------------------------------------------------------
(* Whose addresses a request gets, when callbacks do not run the event loop  *)
(* and the result of a lookup is published in program order.                 *)

\* A thread runs under the timeout of its channel, before ip_ready.
ThreadOk ==
    \A ch \in Channels : thread[ch] # "none" => timers[ch] = 1 /\ ~ip_ready[ch]

\* What a thread has found, and what a channel offers, is for its host name.
LookupOk ==
    \A ch \in Channels :
        /\ thread[ch] # "late store"
        /\ thread[ch] \in {"store", "publish"} => found[ch] \in {hostname[ch], None}
        /\ thread[ch] = "publish" \/ (in_use[ch] /\ ip_ready[ch]) =>
             addr_list[ch] \in {hostname[ch], None}

\* While a channel is served its result stands: it is ready, and its host is
\* cached exactly if there are addresses.
ServedOk ==
    frames # <<>> /\ Top.pc # "assign" =>
        /\ ip_ready[Top.ch]
        /\ Cached(hostname[Top.ch]) <=> addr_list[Top.ch] # None

AddressOk == ThreadOk /\ LookupOk /\ ServedOk /\ RightAddress

SafeInv == OwedInv /\ AddressOk

\* Dns_server_req on a free channel: no thread has run on it since it was freed.
LEMMA ServerReqAddress ==
    ASSUME OwedInv, AddressOk,
           NEW ch \in Channels, ~in_use[ch], NEW h \in Hosts, ServerReq(ch, h)
    PROVE  ThreadOk' /\ LookupOk'
<1>1. TypeOk /\ ServerTypeOk /\ Polled
  BY DEF OwedInv, OrderlyInv, Orderly, TypeOk
<1>2. timers[ch] = 0
  BY <1>1 DEF Polled, ServerTypeOk
<1>3. /\ thread'[ch] = "lookup" /\ ip_ready'[ch] = FALSE /\ timers'[ch] = 1
      /\ \A c \in Channels : c # ch =>
           /\ thread'[c] = thread[c] /\ timers'[c] = timers[c]
           /\ in_use'[c] = in_use[c] /\ ip_ready'[c] = ip_ready[c]
           /\ hostname'[c] = hostname[c]
      /\ addr_list' = addr_list /\ found' = found
  BY <1>1, <1>2 DEF ServerReq, ServerTypeOk
<1>4. ThreadOk'
  BY <1>3 DEF ThreadOk, AddressOk
<1>5. LookupOk'
  <2> SUFFICES ASSUME NEW c \in Channels
               PROVE  /\ thread'[c] # "late store"
                      /\ thread'[c] \in {"store", "publish"} =>
                           found'[c] \in {hostname'[c], None}
                      /\ thread'[c] = "publish" \/ (in_use'[c] /\ ip_ready'[c]) =>
                           addr_list'[c] \in {hostname'[c], None}
    BY DEF LookupOk
  <2>1. CASE c = ch
    BY <1>3, <2>1
  <2>2. CASE c # ch
    BY <1>3, <2>2 DEF LookupOk, AddressOk
  <2>3. QED
    BY <2>1, <2>2
<1>6. QED
  BY <1>4, <1>5

\* A request that had not asked has no answer yet.
LEMMA AskedAnswers ==
    ASSUME TypeOk, OnceOk, RightAddress, UNCHANGED <<answers, cache>>,
           NEW r \in Requests, NEW h \in Hosts, asked[r] = None,
           asked' = [asked EXCEPT ![r] = h]
    PROVE  RightAddress'
<1>1. answers[r] = <<>> /\ \A q \in Requests : q # r => asked'[q] = asked[q]
  BY DEF OnceOk, TypeOk
<1>2. QED
  BY <1>1 DEF RightAddress

\* A request gets its only answer.
LEMMA OneAnswerRight ==
    ASSUME RightAddress, answers \in [Requests -> Seq(Hosts \cup {None})],
           NEW r \in Requests, answers[r] = <<>>, NEW a, a \in {asked'[r], None},
           answers' = [answers EXCEPT ![r] = Append(@, a)],
           \A q \in Requests : q # r => asked'[q] = asked[q], cache' = cache
    PROVE  RightAddress'
<1>1. answers'[r] = Append(<<>>, a) /\ \A q \in Requests : q # r => answers'[q] = answers[q]
  OBVIOUS
<1>2. Append(<<>>, a) = <<a>>
  OBVIOUS
<1>3. \A k \in DOMAIN answers'[r] : answers'[r][k] = a
  BY <1>1, <1>2
<1>4. \A q \in Requests : \A k \in DOMAIN answers'[q] : answers'[q][k] \in {asked'[q], None}
  BY <1>1, <1>3 DEF RightAddress
<1>5. QED
  BY <1>4 DEF RightAddress

LEMMA ResolveAddress ==
    ASSUME ~NestedLoop, SafeInv, NEW r \in Requests, NEW h \in Hosts, a_Dns_resolve(r, h)
    PROVE  AddressOk'
<1>1. /\ TypeOk /\ OnceOk /\ OwedInv /\ AddressOk /\ ThreadOk /\ LookupOk /\ RightAddress
      /\ answers \in [Requests -> Seq(Hosts \cup {None})]
      /\ asked \in [Requests -> Hosts \cup {None}]
  BY DEF SafeInv, OwedInv, OrderlyInv, AddressOk, TypeOk
<1>2. /\ frames = <<>> /\ frames' = <<>> /\ cache' = cache
      /\ asked[r] = None /\ asked' = [asked EXCEPT ![r] = h]
  BY LoopIdle DEF a_Dns_resolve
<1>3. ServedOk'
  BY <1>2 DEF ServedOk
<1>4. CASE AnswerFromCache(r, h)
  <2> DEFINE k == CHOOSE i \in DOMAIN cache : FirstOf(cache, h, i)
  <2>1. cache \in Seq(CacheType) /\ \E i \in DOMAIN cache : cache[i].host = h
    BY <1>1, <1>4 DEF AnswerFromCache, Cached, TypeOk
  <2>2. k \in DOMAIN cache /\ cache[k].host = h
    BY <2>1, FindsHost
  <2>3. CachedAddr(h) = h
    BY <1>1, <2>2 DEF CachedAddr, RightAddress
  <2>4. /\ answers' = [answers EXCEPT ![r] = Append(@, h)]
        /\ UNCHANGED <<server, lookup, timers>>
    BY <1>4, <2>3 DEF AnswerFromCache
  <2>5. answers[r] = <<>> /\ asked'[r] = h /\ \A q \in Requests : q # r => asked'[q] = asked[q]
    BY <1>1, <1>2 DEF OnceOk
  <2>6. RightAddress'
    BY <1>1, <1>2, <2>4, <2>5, OneAnswerRight
  <2>7. ThreadOk' /\ LookupOk'
    BY <1>1, <2>4 DEF ThreadOk, LookupOk, server, lookup
  <2>8. QED
    BY <1>3, <2>6, <2>7 DEF AddressOk
<1>5. CASE JoinQueue(r, h) \/ WaitForChannel(r, h)
  <2>1. UNCHANGED <<answers, server, lookup, timers>>
    BY <1>5 DEF JoinQueue, WaitForChannel
  <2>2. ThreadOk' /\ LookupOk'
    BY <1>1, <2>1 DEF ThreadOk, LookupOk, server, lookup
  <2>3. RightAddress'
    BY <1>1, <1>2, <2>1, AskedAnswers
  <2>4. QED
    BY <1>3, <2>2, <2>3 DEF AddressOk
<1>6. ASSUME NEW ch \in Channels, StartLookup(r, h, ch) PROVE AddressOk'
  <2>1. ~in_use[ch] /\ ServerReq(ch, h) /\ answers' = answers
    BY <1>6 DEF StartLookup, FreeChannel
  <2>2. ThreadOk' /\ LookupOk'
    BY <1>1, <2>1, ServerReqAddress
  <2>3. RightAddress'
    BY <1>1, <1>2, <2>1, AskedAnswers
  <2>4. QED
    BY <1>3, <2>2, <2>3 DEF AddressOk
<1>7. QED
  BY <1>4, <1>5, <1>6 DEF a_Dns_resolve

LEMMA TimeoutAddress ==
    ASSUME ~NestedLoop, SafeInv, TypeOk', NEW ch \in Channels, Dns_timeout_client(ch)
    PROVE  AddressOk'
<1>1. /\ TypeOk /\ PerHostOk /\ OneLookupPerHost
      /\ ThreadOk /\ LookupOk /\ RightAddress
  BY DEF SafeInv, OwedInv, OrderlyInv, PerHostOk, AddressOk
<1>2. UNCHANGED <<server, lookup, asked, answers>> /\ ip_ready[ch]
  BY DEF Dns_timeout_client
<1>3. /\ frames' # <<>> /\ Top'.ch = ch
      /\ timers[ch] = 1 /\ timers'[ch] = 0 /\ in_use[ch]
      /\ \A c \in Channels : c # ch => timers'[c] = timers[c]
  BY TimeoutFrame DEF SafeInv, OwedInv
<1>4. ThreadOk' /\ LookupOk'
  BY <1>1, <1>2, <1>3 DEF ThreadOk, LookupOk, server, lookup
<1>5. ServedOk'
  <2>1. ~Cached(hostname[ch])
    BY <1>1, <1>3 DEF PerHostOk
  <2>2. \A h : Cached(h)' <=> Cached(h) \/ (addr_list[ch] # None /\ h = hostname[ch])
    BY <1>1, CachedAfter
  <2>3. Cached(hostname[ch])' <=> addr_list[ch] # None
    BY <1>2, <2>1, <2>2 DEF server
  <2>4. QED
    BY <1>2, <1>3, <2>3 DEF ServedOk, server
<1>6. RightAddress'
  <2>1. addr_list[ch] \in {hostname[ch], None}
    BY <1>1, <1>2, <1>3 DEF LookupOk
  <2>2. \A i \in DOMAIN cache' : cache'[i].addr = cache'[i].host
    <3>1. CASE addr_list[ch] = None
      BY <1>1, <3>1 DEF Dns_timeout_client, RightAddress
    <3>2. CASE addr_list[ch] # None
      <4> DEFINE e == [host |-> hostname[ch], addr |-> addr_list[ch]]
      <4>1. cache' = Append(cache, e)
        BY <3>2 DEF Dns_timeout_client
      <4>2. e \in CacheType /\ e.addr = e.host /\ cache \in Seq(CacheType)
        BY <1>1, <2>1, <3>2 DEF TypeOk, ServerTypeOk, CacheType
      <4> HIDE DEF e
      <4>3. /\ DOMAIN cache = 1 .. Len(cache) /\ Len(cache) \in Nat
            /\ DOMAIN cache' = 1 .. Len(cache) + 1
            /\ cache'[Len(cache) + 1] = e
            /\ \A m \in 1 .. Len(cache) : cache'[m] = cache[m]
        BY <4>1, <4>2, AppendProperties, LenProperties
      <4>4. QED
        BY <1>1, <4>2, <4>3 DEF RightAddress
    <3>3. QED
      BY <3>1, <3>2
  <2>3. QED
    BY <1>1, <1>2, <2>2 DEF RightAddress
<1>7. QED
  BY <1>4, <1>5, <1>6 DEF AddressOk

\* What a callback is given: the entry's host was the one looked up.
LEMMA AnswerIsFor ==
    ASSUME SafeInv, frames # <<>>, Top.pc = "scan", Top.ch \in Channels,
           NEW i \in DOMAIN queue, queue[i].channel = Top.ch
    PROVE  /\ queue[i].req \in Requests
           /\ asked[queue[i].req] = hostname[Top.ch]
           /\ addr_list[Top.ch] \in {hostname[Top.ch], None}
<1>1. /\ TypeOk /\ AskedOk /\ EntryOnItsChannel /\ LookupOk /\ ServedOk
  BY DEF SafeInv, OwedInv, OrderlyInv, Orderly, AddressOk
<1>2. in_use[Top.ch] /\ hostname[Top.ch] = queue[i].host /\ ip_ready[Top.ch]
  BY <1>1, WaitingIsNoChannel DEF EntryOnItsChannel, ServedOk
<1>3. queue[i].req \in Requests /\ asked[queue[i].req] = queue[i].host
  BY <1>1, QueuedAsked
<1>4. QED
  BY <1>1, <1>2, <1>3 DEF LookupOk

LEMMA AnswerEntryAddress ==
    ASSUME SafeInv, AnswerEntry PROVE AddressOk'
<1>1. /\ TypeOk /\ OnceOk /\ ThreadOk /\ LookupOk /\ ServedOk /\ RightAddress
      /\ answers \in [Requests -> Seq(Hosts \cup {None})]
  BY DEF SafeInv, OwedInv, OrderlyInv, AddressOk, TypeOk
<1>2. /\ UNCHANGED <<queue, server, lookup, timers, cache, asked>>
      /\ frames # <<>> /\ Top.ch \in Channels /\ Top.pc = "scan"
  BY AnswerEntryFrame DEF AnswerEntry, SafeInv, OwedInv
<1>3. PICK i \in DOMAIN queue :
        /\ answers' = [answers EXCEPT ![queue[i].req] = Append(@, addr_list[Top.ch])]
        /\ queue[i].channel = Top.ch
        /\ Top'.ch = Top.ch
  BY AnswerEntryFrame DEF SafeInv, OwedInv
<1>4. /\ queue[i].req \in Requests
      /\ addr_list[Top.ch] \in {asked[queue[i].req], None}
  BY <1>2, <1>3, AnswerIsFor
<1>5. answers[queue[i].req] = <<>>
  BY <1>1, <1>2 DEF OnceOk, InCallback
<1>6. RightAddress'
  BY <1>1, <1>2, <1>3, <1>4, <1>5, OneAnswerRight
<1>7. ThreadOk' /\ LookupOk'
  BY <1>1, <1>2 DEF ThreadOk, LookupOk, server, lookup
<1>8. ServedOk'
  <2>1. \A h : Cached(h)' <=> Cached(h)
    BY <1>2 DEF Cached
  <2>2. QED
    BY <1>1, <1>2, <1>3, <2>1 DEF ServedOk, server
<1>9. QED
  BY <1>6, <1>7, <1>8 DEF AddressOk

\* The steps of the handler that neither look up nor answer.
LEMMA AddressKept ==
    ASSUME AddressOk,
           UNCHANGED <<ip_ready, addr_list, hostname, lookup, timers, cache, asked, answers>>,
           \A c \in Channels : in_use'[c] => in_use[c],
           \/ frames' = <<>>
           \/ Top'.pc = "assign"
           \/ frames # <<>> /\ Top.pc # "assign" /\ Top'.ch = Top.ch
    PROVE  AddressOk'
<1>1. \A h : Cached(h)' <=> Cached(h)
  BY DEF Cached
<1>2. ServedOk'
  BY <1>1 DEF AddressOk, ServedOk
<1>3. ThreadOk' /\ LookupOk'
  BY DEF AddressOk, ThreadOk, LookupOk, lookup
<1>4. RightAddress'
  BY DEF AddressOk, RightAddress
<1>5. QED
  BY <1>2, <1>3, <1>4 DEF AddressOk

LEMMA RestOfHandlerAddress ==
    ASSUME SafeInv, TypeOk',
           CallbackReturns \/ FreeTheChannel \/ SkipBusyChannel \/ HandlerReturns
    PROVE  AddressOk'
<1>1. AddressOk /\ OrderlyInv
  BY DEF SafeInv, OwedInv
<1>2. CASE CallbackReturns
  <2>1. frames # <<>> /\ Top.pc = "callback" /\ Top'.ch = Top.ch
    BY <1>1, <1>2, CallbackReturnsFrame
  <2>2. QED
    BY <1>1, <1>2, <2>1, AddressKept DEF CallbackReturns, server
<1>3. CASE FreeTheChannel
  <2>1. Top'.pc = "assign" /\ \A c \in Channels : in_use'[c] => in_use[c]
    BY <1>1, <1>3, FreeTheChannelFrame
  <2>2. QED
    BY <1>1, <1>3, <2>1, AddressKept DEF FreeTheChannel
<1>4. CASE SkipBusyChannel \/ HandlerReturns
  <2>1. frames' = <<>> \/ Top'.pc = "assign"
    BY <1>1, <1>4, EndOfHandlerFrame
  <2>2. QED
    BY <1>1, <1>4, <2>1, AddressKept DEF SkipBusyChannel, HandlerReturns, server
<1>5. QED
  BY <1>2, <1>3, <1>4

LEMMA AssignChannelAddress ==
    ASSUME SafeInv, TypeOk', AssignChannel PROVE AddressOk'
<1>1. OwedInv /\ OrderlyInv /\ AddressOk /\ UNCHANGED <<cache, asked, answers>>
  BY DEF SafeInv, OwedInv, AssignChannel
<1>2. Top.i \in Channels /\ ~in_use[Top.i] /\ Top'.pc = "assign"
  BY <1>1, AssignChannelFrame
<1>3. PICK i \in DOMAIN queue : queue[i].host \in Hosts /\ ServerReq(Top.i, queue[i].host)
  BY <1>1, AssignChannelFrame
<1>4. ThreadOk' /\ LookupOk'
  BY <1>1, <1>2, <1>3, ServerReqAddress
<1>5. RightAddress' /\ ServedOk'
  BY <1>1, <1>2 DEF AddressOk, RightAddress, ServedOk
<1>6. QED
  BY <1>4, <1>5 DEF AddressOk

\* A thread only touches its own channel, which is polled and not yet ready.
LEMMA DnsServerAddress ==
    ASSUME ~WeakMemory, SafeInv, NEW ch \in Channels, Dns_server(ch)
    PROVE  AddressOk'
<1>1. /\ TypeOk /\ ServerTypeOk /\ OneFrame /\ Polled /\ AddressOk
      /\ ThreadOk /\ LookupOk /\ ServedOk /\ RightAddress
  BY DEF SafeInv, OwedInv, OrderlyInv, Orderly, TypeOk, AddressOk
<1>2. thread[ch] \in {"lookup", "store", "publish"}
      /\ UNCHANGED <<in_use, hostname, queue, cache, timers, frames, asked, answers>>
  BY <1>1 DEF Dns_server, Lookup, StoreAddr, Publish, PublishEarly, LateStoreAddr,
              LookupOk, server
<1>3. timers[ch] = 1 /\ ~ip_ready[ch] /\ in_use[ch]
  BY <1>1, <1>2 DEF ThreadOk, Polled
<1>4. ASSUME NEW c \in Channels, c # ch
      PROVE  /\ thread'[c] = thread[c] /\ found'[c] = found[c]
             /\ ip_ready'[c] = ip_ready[c] /\ addr_list'[c] = addr_list[c]
  BY <1>1, <1>4 DEF Dns_server, Lookup, StoreAddr, Publish, PublishEarly, LateStoreAddr,
              ServerTypeOk, server
<1>5. /\ thread'[ch] # "none" => ~ip_ready'[ch]
      /\ thread'[ch] # "late store"
      /\ thread'[ch] \in {"store", "publish"} => found'[ch] \in {hostname[ch], None}
      /\ thread'[ch] = "publish" \/ ip_ready'[ch] => addr_list'[ch] \in {hostname[ch], None}
  <2>1. CASE Lookup(ch)
    <3>1. /\ thread'[ch] = "store" /\ found'[ch] \in {hostname[ch], None}
          /\ ip_ready' = ip_ready
      BY <1>1, <2>1 DEF Lookup, ServerTypeOk, server
    <3>2. QED
      BY <1>3, <3>1
  <2>2. CASE StoreAddr(ch)
    <3>1. found[ch] \in {hostname[ch], None}
      BY <1>1, <2>2 DEF StoreAddr, LookupOk
    <3>2. /\ thread'[ch] = "publish" /\ addr_list'[ch] = found[ch] /\ found' = found
          /\ ip_ready' = ip_ready
      BY <1>1, <2>2 DEF StoreAddr, ServerTypeOk
    <3>3. QED
      BY <1>3, <3>1, <3>2
  <2>3. CASE Publish(ch)
    <3>1. addr_list[ch] \in {hostname[ch], None}
      BY <1>1, <2>3 DEF Publish, LookupOk
    <3>2. thread'[ch] = "none" /\ addr_list' = addr_list
      BY <1>1, <2>3 DEF Publish, ServerTypeOk
    <3>3. QED
      BY <3>1, <3>2
  <2>4. QED
    BY <1>2, <2>1, <2>2, <2>3 DEF Dns_server, PublishEarly, LateStoreAddr
<1>6. ThreadOk'
  <2> SUFFICES ASSUME NEW c \in Channels, thread'[c] # "none"
               PROVE  timers'[c] = 1 /\ ~ip_ready'[c]
    BY DEF ThreadOk
  <2>1. CASE c = ch
    BY <1>2, <1>3, <1>5, <2>1
  <2>2. CASE c # ch
    BY <1>1, <1>2, <1>4, <2>2 DEF ThreadOk
  <2>3. QED
    BY <2>1, <2>2
<1>7. LookupOk'
  <2> SUFFICES ASSUME NEW c \in Channels
               PROVE  /\ thread'[c] # "late store"
                      /\ thread'[c] \in {"store", "publish"} =>
                           found'[c] \in {hostname'[c], None}
                      /\ thread'[c] = "publish" \/ (in_use'[c] /\ ip_ready'[c]) =>
                           addr_list'[c] \in {hostname'[c], None}
    BY DEF LookupOk
  <2>1. CASE c = ch
    BY <1>2, <1>5, <2>1
  <2>2. CASE c # ch
    BY <1>1, <1>2, <1>4, <2>2 DEF LookupOk
  <2>3. QED
    BY <2>1, <2>2
<1>8. ServedOk'
  <2> SUFFICES ASSUME frames # <<>>, Top.pc # "assign"
               PROVE  /\ ip_ready'[Top.ch]
                      /\ Cached(hostname[Top.ch]) <=> addr_list'[Top.ch] # None
    BY <1>2 DEF ServedOk, Top, Cached
  <2>1. Top.ch \in Channels /\ Top.ch # ch
    BY <1>1, <1>3, TopType, ServingTop DEF Polled
  <2>2. QED
    BY <1>1, <1>4, <2>1 DEF ServedOk
<1>9. RightAddress'
  BY <1>1, <1>2 DEF RightAddress
<1>10. QED
  BY <1>6, <1>7, <1>8, <1>9 DEF AddressOk

LEMMA SafeStep ==
    ASSUME ~NestedLoop, ~WeakMemory
    PROVE  SafeInv /\ [Next]_vars => SafeInv'
<1> SUFFICES ASSUME SafeInv, [Next]_vars PROVE SafeInv'
  OBVIOUS
<1>1. OwedInv' /\ TypeOk'
  BY OwedStep DEF SafeInv, OwedInv, OrderlyInv
<1>2. CASE \E r \in Requests, h \in Hosts : a_Dns_resolve(r, h)
  BY <1>1, <1>2, ResolveAddress DEF SafeInv
<1>3. CASE \E ch \in Channels : Dns_timeout_client(ch)
  BY <1>1, <1>3, TimeoutAddress DEF SafeInv
<1>4. CASE ServeStep
  BY <1>1, <1>4, AnswerEntryAddress, RestOfHandlerAddress, AssignChannelAddress
     DEF ServeStep, SafeInv
<1>5. CASE \E ch \in Channels : Dns_server(ch)
  BY <1>1, <1>5, DnsServerAddress DEF SafeInv
<1>6. CASE UNCHANGED vars
  <2>1. ThreadOk' /\ LookupOk' /\ RightAddress'
    BY <1>6 DEF SafeInv, AddressOk, ThreadOk, LookupOk, RightAddress, vars
  <2>2. ServedOk'
    BY <1>6 DEF SafeInv, AddressOk, ServedOk, Cached, Top, vars
  <2>3. QED
    BY <1>1, <2>1, <2>2 DEF SafeInv, AddressOk
<1>7. QED
  BY <1>2, <1>3, <1>4, <1>5, <1>6 DEF Next

LEMMA SafeInit == Init => SafeInv
<1> SUFFICES ASSUME Init PROVE SafeInv
  OBVIOUS
<1>1. DOMAIN <<>> = {}
  BY EmptySeq, LenProperties
<1>2. ThreadOk /\ LookupOk /\ ServedOk
  BY DEF Init, ThreadOk, LookupOk, ServedOk
<1>3. RightAddress
  BY <1>1 DEF Init, RightAddress
<1>4. QED
  BY <1>2, <1>3, OwedInit DEF SafeInv, AddressOk

\* When callbacks do not run the event loop and a result is published in program
\* order: nobody is given the addresses of a host that was not asked for, now or
\* later from the cache.
THEOREM AnswersSafe ==
    ASSUME ~NestedLoop, ~WeakMemory
    PROVE  Spec => []RightAddress
<1>1. SafeInv => RightAddress
  BY DEF SafeInv, AddressOk
<1>2. QED
  BY <1>1, SafeInit, SafeStep, PTL DEF Spec

\* Under the same conditions, with any number of hosts, requests and channels: no
\* channel is leaked, polled twice or given to a second thread, and every entry
\* waits on the channel that looks its host up.
THEOREM ChannelsRight ==
    ASSUME ~NestedLoop, ~WeakMemory
    PROVE  Spec => []ChannelsAreRight
<1>1. SafeInv => ChannelsAreRight
  BY DEF SafeInv, OwedInv, OrderlyInv, Orderly, AddressOk, ThreadOk, Polled,
         OneLookupPerChannel, ChannelsAreRight
<1>2. QED
  BY <1>1, SafeInit, SafeStep, PTL DEF Spec

----------------------------------------------------------------------------
(* The resolver implements DnsService. *)

\* Steps of the queue, the channels and the threads are invisible.
LEMMA PromiseKept ==
    ASSUME UNCHANGED <<asked, answers, cache>>
    PROVE  UNCHANGED Promise!svars
BY DEF Promise!svars, Result, Cached

\* What a request that gets its first answer sees.
LEMMA FirstAnswer ==
    ASSUME NEW r \in Requests, NEW a, answers \in [Requests -> Seq(Hosts \cup {None})],
           answers[r] = <<>>, answers' = [answers EXCEPT ![r] = Append(@, a)]
    PROVE  /\ Result(r) = "none"
           /\ [q \in Requests |-> Result(q)]' =
                [[q \in Requests |-> Result(q)] EXCEPT ![r] = IF a = None THEN "failed" ELSE "found"]
<1>1. answers'[r] = Append(<<>>, a) /\ \A q \in Requests : q # r => answers'[q] = answers[q]
  OBVIOUS
<1>2. Append(<<>>, a) = <<a>> /\ <<a>> # <<>> /\ Head(<<a>>) = a
  OBVIOUS
<1>3. Result(r)' = IF a = None THEN "failed" ELSE "found"
  BY <1>1, <1>2 DEF Result
<1>4. \A q \in Requests : q # r => Result(q)' = Result(q)
  BY <1>1 DEF Result
<1>5. QED
  BY <1>3, <1>4 DEF Result

LEMMA ResolveImplements ==
    ASSUME ~NestedLoop, SafeInv, NEW r \in Requests, NEW h \in Hosts, a_Dns_resolve(r, h)
    PROVE  Promise!SNext
<1>1. /\ TypeOk /\ OnceOk /\ RightAddress /\ answers \in [Requests -> Seq(Hosts \cup {None})]
  BY DEF SafeInv, OwedInv, OrderlyInv, AddressOk, TypeOk
<1>2. asked[r] = None /\ asked' = [asked EXCEPT ![r] = h] /\ cache' = cache
  BY DEF a_Dns_resolve
<1>3. answers[r] = <<>>
  BY <1>1, <1>2 DEF OnceOk
<1>4. {g \in Hosts : Cached(g)}' = {g \in Hosts : Cached(g)}
  BY <1>2 DEF Cached
<1>5. CASE AnswerFromCache(r, h)
  <2> DEFINE k == CHOOSE i \in DOMAIN cache : FirstOf(cache, h, i)
  <2>1. cache \in Seq(CacheType) /\ \E i \in DOMAIN cache : cache[i].host = h
    BY <1>1, <1>5 DEF AnswerFromCache, Cached, TypeOk
  <2>2. k \in DOMAIN cache /\ cache[k].host = h
    BY <2>1, FindsHost
  <2>3. CachedAddr(h) = h /\ h # None
    BY <1>1, <2>2, NoneAssumption DEF CachedAddr, RightAddress
  <2>4. answers' = [answers EXCEPT ![r] = Append(@, h)] /\ h \in {g \in Hosts : Cached(g)}
    BY <1>5, <2>3 DEF AnswerFromCache
  <2>5. [q \in Requests |-> Result(q)]' = [[q \in Requests |-> Result(q)] EXCEPT ![r] = "found"]
    BY <1>1, <1>3, <2>3, <2>4, FirstAnswer
  <2>6. Promise!Ask(r, h)
    BY <1>2, <1>4, <2>4, <2>5 DEF Promise!Ask
  <2>7. QED
    BY <2>6 DEF Promise!SNext
<1>6. CASE ~AnswerFromCache(r, h)
  <2>1. answers' = answers /\ h \notin {g \in Hosts : Cached(g)}
    BY <1>6 DEF a_Dns_resolve, JoinQueue, StartLookup, WaitForChannel
  <2>2. [q \in Requests |-> Result(q)]' = [q \in Requests |-> Result(q)]
    BY <2>1 DEF Result
  <2>3. Promise!Ask(r, h)
    BY <1>2, <1>4, <2>1, <2>2 DEF Promise!Ask
  <2>4. QED
    BY <2>3 DEF Promise!SNext
<1>7. QED
  BY <1>5, <1>6

LEMMA TimeoutImplements ==
    ASSUME ~NestedLoop, SafeInv, TypeOk', NEW ch \in Channels, Dns_timeout_client(ch)
    PROVE  [Promise!SNext]_Promise!svars
<1>1. /\ TypeOk /\ ServerTypeOk /\ Named /\ AskedOk /\ EntryOnItsChannel /\ OnceOk /\ PerHostOk
  BY DEF SafeInv, OwedInv, OrderlyInv, Orderly, TypeOk
<1>2. UNCHANGED <<asked, answers>>
  BY DEF Dns_timeout_client
<1>3. frames = <<>> /\ timers[ch] = 1
  BY TimeoutFrame DEF SafeInv, OwedInv
<1>4. CASE addr_list[ch] = None
  BY <1>2, <1>4, PromiseKept DEF Dns_timeout_client
<1>5. CASE addr_list[ch] # None
  <2> DEFINE h == hostname[ch]
  <2>1. h \in Hosts /\ ~Cached(h)
    BY <1>1, <1>3, <1>5 DEF Named, ServerTypeOk, PerHostOk
  <2>2. {g \in Hosts : Cached(g)}' = {g \in Hosts : Cached(g)} \cup {h}
    <3>1. \A g : Cached(g)' <=> Cached(g) \/ g = h
      BY <1>1, <1>5, CachedAfter
    <3>2. QED
      BY <2>1, <3>1
  <2>3. \E q \in Requests : asked[q] = h /\ Result(q) = "none"
    <3>1. PICK i \in DOMAIN queue : queue[i].channel = ch
      BY <1>1, <1>3 DEF PerHostOk
    <3>2. queue[i].host = h
      BY <1>1, <3>1, WaitingIsNoChannel DEF EntryOnItsChannel
    <3>3. queue[i].req \in Requests /\ asked[queue[i].req] = h
      BY <1>1, <3>2, QueuedAsked
    <3>4. answers[queue[i].req] = <<>>
      BY <1>1, <1>3 DEF OnceOk, InCallback
    <3>5. QED
      BY <3>3, <3>4 DEF Result
  <2>4. [q \in Requests |-> Result(q)]' = [q \in Requests |-> Result(q)]
    BY <1>2 DEF Result
  <2> HIDE DEF h
  <2>5. Promise!Learn(h)
    BY <1>2, <2>1, <2>2, <2>3, <2>4 DEF Promise!Learn
  <2>6. QED
    BY <2>1, <2>5 DEF Promise!SNext
<1>6. QED
  BY <1>4, <1>5

LEMMA AnswerImplements ==
    ASSUME SafeInv, AnswerEntry
    PROVE  Promise!SNext
<1>1. /\ TypeOk /\ AskedOk /\ OnceOk /\ ServedOk
      /\ answers \in [Requests -> Seq(Hosts \cup {None})]
  BY DEF SafeInv, OwedInv, OrderlyInv, Orderly, AddressOk, TypeOk
<1>2. /\ UNCHANGED <<cache, asked>>
      /\ frames # <<>> /\ Top.ch \in Channels /\ Top.pc = "scan"
  BY AnswerEntryFrame DEF AnswerEntry, SafeInv, OwedInv
<1> DEFINE a == addr_list[Top.ch]
<1>3. PICK i \in DOMAIN queue :
        /\ answers' = [answers EXCEPT ![queue[i].req] = Append(@, a)]
        /\ queue[i].channel = Top.ch
  BY AnswerEntryFrame DEF SafeInv, OwedInv
<1> DEFINE r == queue[i].req
<1>4. r \in Requests /\ asked[r] = hostname[Top.ch]
  BY <1>2, <1>3, AnswerIsFor
<1>5. answers[r] = <<>> /\ asked[r] # None /\ asked[r] \in Hosts
  BY <1>1, <1>2, QueuedAsked DEF OnceOk, InCallback
<1>6. asked[r] \in {g \in Hosts : Cached(g)} <=> a # None
  BY <1>1, <1>2, <1>4, <1>5 DEF ServedOk
<1>7. {g \in Hosts : Cached(g)}' = {g \in Hosts : Cached(g)}
  BY <1>2 DEF Cached
<1> HIDE DEF a, r
<1>8. answers' = [answers EXCEPT ![r] = Append(@, a)]
  BY <1>3 DEF r
<1>9. /\ Result(r) = "none"
      /\ [q \in Requests |-> Result(q)]' =
           [[q \in Requests |-> Result(q)] EXCEPT ![r] = IF a = None THEN "failed" ELSE "found"]
  BY <1>1, <1>4, <1>5, <1>8, FirstAnswer
<1>10. Promise!Answer(r)
  BY <1>2, <1>4, <1>5, <1>6, <1>7, <1>9 DEF Promise!Answer
<1>11. QED
  BY <1>4, <1>10 DEF Promise!SNext

\* Every step of the resolver is a step of the service or none.
LEMMA StepImplements ==
    ASSUME ~NestedLoop, SafeInv, [Next]_vars
    PROVE  [Promise!SNext]_Promise!svars
<1>1. TypeOk'
  BY TypeStep DEF SafeInv, OwedInv, OrderlyInv
<1>2. CASE \E r \in Requests, h \in Hosts : a_Dns_resolve(r, h)
  BY <1>2, ResolveImplements
<1>3. CASE \E ch \in Channels : Dns_timeout_client(ch)
  BY <1>1, <1>3, TimeoutImplements
<1>4. CASE AnswerEntry
  BY <1>4, AnswerImplements
<1>5. CASE CallbackReturns \/ FreeTheChannel \/ AssignChannel \/ SkipBusyChannel \/ HandlerReturns
  BY <1>5, PromiseKept
     DEF CallbackReturns, FreeTheChannel, AssignChannel, SkipBusyChannel, HandlerReturns
<1>6. CASE \E ch \in Channels : Dns_server(ch)
  BY <1>6, DnsServerFrame, PromiseKept
<1>7. CASE UNCHANGED vars
  BY <1>7, PromiseKept DEF vars
<1>8. QED
  BY <1>2, <1>3, <1>4, <1>5, <1>6, <1>7 DEF Next, ServeStep

\* The resolver implements the safety of DnsService: each request is answered once,
\* with addresses exactly if its host is known by then, and only a host that is
\* waited for becomes known.  (That requests are answered at all is left to TLC.)
THEOREM ServiceImplemented ==
    ASSUME ~NestedLoop, ~WeakMemory
    PROVE  Spec => ImplementsService
<1>1. Init => Promise!SInit
  <2> SUFFICES ASSUME Init PROVE Promise!SInit
    OBVIOUS
  <2>1. [r \in Requests |-> Result(r)] = [r \in Requests |-> "none"]
    BY DEF Init, Result
  <2>2. {h \in Hosts : Cached(h)} = {}
    <3>1. DOMAIN <<>> = {}
      BY EmptySeq, LenProperties
    <3>2. QED
      BY <3>1 DEF Init, Cached
  <2>3. QED
    BY <2>1, <2>2 DEF Init, Promise!SInit
<1>2. SafeInv /\ [Next]_vars => [Promise!SNext]_Promise!svars
  BY StepImplements
<1>3. QED
  BY <1>1, <1>2, SafeInit, SafeStep, PTL
  DEF Spec, ImplementsService, Promise!Service

=============================================================================
