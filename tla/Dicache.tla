------------------------------ MODULE Dicache -------------------------------
(***************************************************************************)
(* The cache of decoded images, src/src/dicache.c, with its callers: the     *)
(* part of Cache_process_queue (cache.c) that feeds image clients, the       *)
(* images of image.cc, the buffers of imgbuf.cc and dw/fltkimgbuf.cc, and    *)
(* the decoders (png.c, jpeg.c, gif.c) as far as they call the dicache.      *)
(*                                                                         *)
(* Several clients of one URL share one entry: the first pass of a client    *)
(* over new data decodes it, the others only draw the rows that changed.     *)
(* An image arrives in Scans passes over Rows rows; the file is a script of  *)
(* AllSteps decoding steps, and an amount of data is the steps it is enough for. *)
(* The bytes of a row are the number of the scan that wrote it.              *)
(***************************************************************************)
EXTENDS Integers, Sequences, FiniteSets, SequencesExt

CONSTANTS Urls,
          Keys,     \* client keys, reused
          NumRows, NumScans,
          Null

ASSUME DicacheBounds == NumRows \in Nat \ {0} /\ NumScans \in Nat \ {0}

Rows == 1..NumRows
AllSteps == NumScans * (NumRows + 1)   \* parameters, then rows with a new scan between

VARIABLES node,     \* CachedIMGs: per URL a DICacheNode or Null
          total,    \* dicache_size_total, in images
          clients,  \* the image clients of ClientQueue
          data,     \* amount of data in the cache entry of each URL
          done,     \* CA_GotData
          delayed,  \* URLs in DelayedQueue
          stray     \* a decoder was called without its work area

dicacheVars == <<node, total, clients, data, done, delayed, stray>>

States == <<"Empty", "SetParms", "Write", "Close">>
Before(st, limit) ==
    \E i, j \in DOMAIN States : i < j /\ States[i] = st /\ States[j] = limit

\* Dicache_entry_new, with the decoder of the first client: decoder is the callback,
\* work its DecoderData (Null: NULL, once the decoder has freed it).
NewEntry(version) ==
    [version |-> version, refs |-> 1, st |-> "Empty", decoder |-> TRUE, work |-> "alive",
     decoded |-> 0, scan |-> 0, bits |-> {}, buf |-> [y \in Rows |-> 0], sized |-> FALSE]

\* A client with its DilloImage; seen: the bytes of each row when it was last drawn.
NewClient(k, u) ==
    [key |-> k, url |-> u, version |-> 0, called |-> FALSE, parms |-> FALSE,
     scan |-> 0, bits |-> {}, seen |-> [y \in Rows |-> 0]]

DicacheInit ==
    /\ node = [u \in Urls |-> Null] /\ total = 0
    /\ clients = <<>>
    /\ data = [u \in Urls |-> 0] /\ done = [u \in Urls |-> FALSE]
    /\ delayed = {} /\ stray = FALSE

----------------------------------------------------------------------------
(* dicache.c: from a store to a store. *)

Store == [node |-> node, total |-> total, clients |-> clients, stray |-> stray]

LastOf(s, u) ==
    IF s.node[u] = Null \/ ~s.node[u].valid THEN Null
    ELSE s.node[u].versions[Len(s.node[u].versions)]

VersionOf(s, u, v) ==
    IF s.node[u] = Null \/ \A i \in DOMAIN s.node[u].versions : s.node[u].versions[i].version # v
    THEN Null
    ELSE SelectSeq(s.node[u].versions, LAMBDA e : e.version = v)[1]

\* Dicache_add_entry: at the end of the list of its URL.
AddEntry(s, u) ==
    LET n == s.node[u] IN
    [s EXCEPT !.node[u] =
        IF n = Null THEN [valid |-> TRUE, versions |-> <<NewEntry(1)>>]
        ELSE [valid |-> TRUE,
              versions |-> Append(n.versions, NewEntry(n.versions[Len(n.versions)].version + 1))]]

PutEntry(s, u, e) ==
    [s EXCEPT !.node[u].versions =
        [i \in DOMAIN @ |-> IF @[i].version = e.version THEN e ELSE @[i]]]

\* Seeded bug: the size of a removed image stays in the total.
Mut_RemoveEntry(s, u, v) ==
    LET rest == SelectSeq(s.node[u].versions, LAMBDA x : x.version # v)
    IN  [s EXCEPT !.node[u] = IF rest = <<>> THEN Null ELSE [@ EXCEPT !.versions = rest]]

\* Dicache_remove.  The decoder is told to abort, which frees its work area.
RemoveEntry(s, u, v) ==
    LET e == VersionOf(s, u, v)
        rest == SelectSeq(s.node[u].versions, LAMBDA x : x.version # v)
    IN  [s EXCEPT !.node[u] = IF rest = <<>> THEN Null ELSE [@ EXCEPT !.versions = rest],
                  !.total = IF e.sized THEN @ - 1 ELSE @,
                  !.stray = @ \/ (e.decoder /\ e.work = Null)]

\* a_Dicache_unref: nothing for version 0 and for one that is gone.
Unref(s, u, v) ==
    LET e == VersionOf(s, u, v) IN
    IF v = 0 \/ e = Null THEN s
    ELSE IF e.refs = 1 THEN RemoveEntry(s, u, v)
    ELSE PutEntry(s, u, [e EXCEPT !.refs = @ - 1])

\* One step of a decoder: a_Dicache_set_parms, a_Dicache_new_scan, a_Dicache_write.
DecodeStep(e, n) ==
    LET r == ((n - 2) % (NumRows + 1)) + 1 IN
    IF n = 1 THEN [e EXCEPT !.st = "SetParms", !.sized = TRUE]
    ELSE IF r > NumRows THEN [e EXCEPT !.bits = {}, !.scan = @ + 1]
    ELSE [e EXCEPT !.buf[r] = e.scan + 1, !.bits = @ \cup {r}, !.st = "Write"]

Decode(e, upto) ==
    [FoldLeft(DecodeStep, e, [i \in 1..(upto - e.decoded) |-> e.decoded + i])
        EXCEPT !.decoded = upto]

\* a_Dicache_close, when the decoding is over or was over before.
CloseEntry(s, u, e) ==
    LET closed == IF e.st = "Close" THEN e
                  ELSE [e EXCEPT !.st = "Close", !.decoder = FALSE, !.work = Null]
    IN  Unref(PutEntry(s, u, closed), u, e.version)

\* Dicache_image: the viewer of image types; the decoder callback is set each time.
Dispatch(s, c) ==
    LET e == LastOf(s, c.url)
        s1 == IF e = Null THEN AddEntry(s, c.url)
              ELSE PutEntry(s, c.url, [e EXCEPT !.refs = @ + 1])
    IN  PutEntry(s1, c.url, [LastOf(s1, c.url) EXCEPT !.decoder = TRUE])

----------------------------------------------------------------------------
(* a_Dicache_callback. *)

\* The rows that are drawn again: those decoded since, or that this image missed.
DrawnRows(e, c) ==
    IF e.scan = c.scan THEN e.bits \ c.bits
    ELSE {y \in Rows : y \in e.bits \/ y \notin c.bits \/ e.scan > c.scan + 1}

Draw(e, c) ==
    IF e.st # "Write" THEN c
    ELSE [c EXCEPT !.seen = [y \in Rows |-> IF y \in DrawnRows(e, c) THEN e.buf[y] ELSE @[y]],
                   !.bits = IF e.scan = c.scan THEN @ \cup e.bits ELSE e.bits,
                   !.scan = e.scan]

PutClient(s, c) ==
    [s EXCEPT !.clients = [i \in DOMAIN @ |-> IF @[i].key = c.key THEN c ELSE @[i]]]

\* CA_Send: the data is decoded unless another client has done it.
SendImage(s, c, n) ==
    LET e == LastOf(s, c.url)
        e1 == IF Before(e.st, "Close") /\ e.decoded < n THEN Decode(e, n) ELSE e
        c1 == [c EXCEPT !.version = IF @ = 0 THEN e.version ELSE @]
        c2 == IF e1.sized THEN Draw(e1, [c1 EXCEPT !.parms = TRUE]) ELSE c1
        s1 == IF e1.sized # e.sized THEN [s EXCEPT !.total = @ + 1] ELSE s
    IN  PutClient(PutEntry(s1, c.url, e1), c2)

\* CA_Close, and the client leaves the queue.
Close(s, c) ==
    LET s1 == CloseEntry(s, c.url, LastOf(s, c.url))
    IN  [s1 EXCEPT !.clients = SelectSeq(@, LAMBDA x : x.key # c.key)]

\* Cache_process_queue for one client.
Serve(s, c, n, end) ==
    LET s1 == IF c.called THEN s
              ELSE PutClient(Dispatch(s, c), [c EXCEPT !.called = TRUE])
        s2 == IF n > 0 THEN SendImage(s1, SelectSeq(s1.clients, LAMBDA x : x.key = c.key)[1], n)
              ELSE s1
    IN  IF end THEN Close(s2, c) ELSE s2

\* a_Dicache_cleanup, when no client is left: the entries that have a buffer go.
Cleanup(s) ==
    LET buffers(u) == SelectSeq(s.node[u].versions, LAMBDA e : e.sized)
        sweep(t, u) == IF t.node[u] = Null THEN t
                       ELSE FoldLeft(LAMBDA r, e : RemoveEntry(r, u, e.version), t, buffers(u))
    IN  IF s.clients = <<>> THEN FoldLeft(sweep, s, SetToSeq(Urls)) ELSE s

\* The type of an entry is known when it has data, or never will have more.
ProcessQueue(s, u, n, end) ==
    IF n = 0 /\ ~end THEN s
    ELSE Cleanup(FoldLeft(LAMBDA t, c : Serve(t, c, n, end), s,
                          SelectSeq(s.clients, LAMBDA c : c.url = u)))

\* a_Cache_stop_client: the reference is given back by the version of the client.
StopOne(s, c) ==
    [Unref(s, c.url, c.version) EXCEPT !.clients = SelectSeq(@, LAMBDA x : x.key # c.key)]

----------------------------------------------------------------------------
(* Actions. *)

DicacheBecomes(s) ==
    node' = s.node /\ total' = s.total /\ clients' = s.clients /\ stray' = s.stray

\* a_Cache_open_url: a client of an entry that exists is served by a timeout.
OpenImage(k, u) ==
    /\ \A i \in DOMAIN clients : clients[i].key # k
    /\ clients' = Append(clients, NewClient(k, u))
    /\ delayed' = IF data[u] > 0 \/ done[u] THEN delayed \cup {u} ELSE delayed
    /\ UNCHANGED <<node, total, data, done, stray>>

Receive(u, n) ==
    /\ ~done[u] /\ n \in (data[u] + 1)..AllSteps
    /\ data' = [data EXCEPT ![u] = n]
    /\ DicacheBecomes(ProcessQueue(Store, u, n, FALSE))
    /\ UNCHANGED <<done, delayed>>

EndOfData(u) ==
    /\ ~done[u]
    /\ done' = [done EXCEPT ![u] = TRUE]
    /\ DicacheBecomes(ProcessQueue(Store, u, data[u], TRUE))
    /\ UNCHANGED <<data, delayed>>

ServeDelayed(u) ==
    /\ u \in delayed
    /\ delayed' = delayed \ {u}
    /\ DicacheBecomes(ProcessQueue(Store, u, data[u], done[u]))
    /\ UNCHANGED <<data, done>>

StopClient(i) ==
    /\ i \in DOMAIN clients
    /\ DicacheBecomes(StopOne(Store, clients[i]))
    /\ delayed' = delayed \ {clients[i].url}
    /\ UNCHANGED <<data, done>>

\* Cache_entry_remove: a reload, or an abort of the connection.
RemoveCached(u) ==
    /\ data[u] > 0 \/ done[u]
    /\ LET s == FoldLeft(StopOne, Store, SelectSeq(clients, LAMBDA c : c.url = u))
       IN  DicacheBecomes([s EXCEPT !.node[u] = IF @ = Null THEN Null ELSE [@ EXCEPT !.valid = FALSE]])
    /\ data' = [data EXCEPT ![u] = 0] /\ done' = [done EXCEPT ![u] = FALSE]
    /\ delayed' = delayed \ {u}

DicacheNext ==
    \/ \E u \in Urls :
          \/ EndOfData(u) \/ ServeDelayed(u) \/ RemoveCached(u)
          \/ \E k \in Keys : OpenImage(k, u)
          \/ \E n \in 1..AllSteps : Receive(u, n)
    \/ \E i \in 1..Cardinality(Keys) : StopClient(i)

DicacheSpec == DicacheInit /\ [][DicacheNext]_dicacheVars

----------------------------------------------------------------------------
(* Properties. *)

Entries(u) == IF node[u] = Null THEN {} ELSE Range(node[u].versions)

DicacheTypeOk ==
    /\ \A u \in Urls : data[u] \in 0..AllSteps /\ done[u] \in BOOLEAN
    /\ \A u \in Urls : node[u] # Null => node[u].versions # <<>>
    /\ \A i, j \in DOMAIN clients : i # j => clients[i].key # clients[j].key

\* dicache_size_total is the sum of the sizes of the images in the dicache
\* (the invariant that dicache.c states).
SizeIsSum ==
    total = Cardinality(UNION {{<<u, e.version>> : e \in {x \in Entries(u) : x.sized}} : u \in Urls})

\* The references of an entry are the clients that were dispatched to it.  So no
\* entry is left when no client is: a_Dicache_cleanup, which goes on from an entry
\* that it has just freed, never finds one.
EntriesAreUsed ==
    \A u \in Urls : \A e \in Entries(u) :
        /\ e.refs > 0
        /\ e.refs = Cardinality({i \in DOMAIN clients :
                clients[i].url = u /\ clients[i].called /\ clients[i].version = e.version})

\* Dicache_remove tells the decoder that an entry has to free its work area: none is
\* set on an entry whose decoding is over, though Dicache_image sets it each time,
\* because a finished entry is gone before the next new client is served.
DecoderIsAlive ==
    /\ ~stray
    /\ \A u \in Urls : \A e \in Entries(u) : e.decoder => e.work = "alive" /\ e.st # "Close"

\* A client that has been sent all the data shows every row as it was last decoded,
\* whichever client the decoder worked for, and however many scans it missed.
UpToDate ==
    \A i \in DOMAIN clients :
        LET c == clients[i] IN
        c.called /\ c.url \notin delayed => \A e \in Entries(c.url) : c.seen = e.buf

\* dicache.c: the versions of an image, their sizes, clients and decoders agree, and every
\* client shows the image as it was last decoded.
DicacheIsRight == DicacheTypeOk /\ SizeIsSum /\ EntriesAreUsed /\ DecoderIsAlive /\ UpToDate
=============================================================================
