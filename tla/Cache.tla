------------------------------- MODULE Cache --------------------------------
(***************************************************************************)
(* The memory cache, src/src/cache.c, with the parts of capi.c, nav.c and    *)
(* bw.c that open and stop its clients.  An entry is filled by a connection  *)
(* and feeds the clients in ClientQueue that wait for its URL; a client of   *)
(* an entry that is cached already is served later, by a timeout that goes   *)
(* through DelayedQueue.                                                     *)
(*                                                                         *)
(* Cache_process_queue walks ClientQueue by index and calls viewers, which   *)
(* open other URLs, and the redirection handler, which stops the clients of  *)
(* a window and opens another page: one step per client, and frame is the    *)
(* activation.  The C functions that change several structures at once are   *)
(* operators from a store (the record Store) to a store.                     *)
(***************************************************************************)
EXTENDS Integers, Sequences, SequencesExt

CONSTANTS Windows,        \* browser windows
          Urls,           \* URLs without their fragments
          Files,          \* those of the file scheme, which no connection feeds
          RedirectLimit,  \* the number in Cache_redirect: 5
          MaxOpens,       \* bound on the clients opened, redirections apart
          Fragments,      \* a redirection may name a fragment of the same page
          None            \* the NULL pointer

ASSUME FilesAssumption == Files \subseteq Urls
ASSUME LimitAssumption == RedirectLimit \in Nat \ {0} /\ MaxOpens \in Nat
ASSUME FragmentsAssumption == Fragments \in BOOLEAN

VARIABLES entries,   \* CachedURLs
          queue,     \* ClientQueue
          delayed,   \* DelayedQueue
          timer,     \* DelayedQueueIdleId
          feeding,   \* the window that opened the connection of each URL, while
                     \* it may send data (InfoRecv is set), or None
          expect,    \* nav_expect_url of each window
          level,     \* redirect_level of each window
          lost,      \* URLs that left DelayedQueue with a client that still waits
          opens,     \* clients opened so far
          frame      \* the active Cache_process_queue, or None

vars == <<entries, queue, delayed, timer, feeding, expect, level, lost, opens, frame>>

\* CacheEntry_t.  empty: no header yet; typed: CA_GotContentType; done:
\* CA_GotData; void: CA_GotData without CA_GotHeader.
Kinds == {"page", "unviewable", "mismatch", "301", "302"}
Entries == [st : {"empty", "typed", "done", "void"}, kind : Kinds,
            to : Urls \cup {None}, loop : BOOLEAN]
Clients == [url : Urls, bw : Windows, root : BOOLEAN, hops : Nat,
            cb : {"none", "null", "viewer"}, sent : BOOLEAN]
Frames == [url : Urls \cup {None}, via : {"read", "close", "delayed"}, i : Nat,
           mismatch : BOOLEAN, abort : BOOLEAN, offer : BOOLEAN, stale : BOOLEAN]

ASSUME NoneAssumption == None \notin Urls \cup Windows \cup Entries \cup Frames

NewEntry == [st |-> "empty", kind |-> "page", to |-> None, loop |-> FALSE]
Redirects(e) == e.kind \in {"301", "302"}

Init ==
    /\ entries = [u \in Urls |-> None]
    /\ queue = <<>> /\ delayed = <<>> /\ timer = FALSE
    /\ lost = {}
    /\ feeding = [u \in Urls |-> None]
    /\ expect = [w \in Windows |-> None]
    /\ level = [w \in Windows |-> 0]
    /\ opens = 0
    /\ frame = None

----------------------------------------------------------------------------
(* Stores: the structures a call changes, and the entries it has removed. *)

Store == [entries |-> entries, queue |-> queue, delayed |-> delayed, timer |-> timer,
          feeding |-> feeding, expect |-> expect, lost |-> lost, removed |-> {}]

Becomes(s) ==
    /\ entries' = s.entries /\ queue' = s.queue /\ delayed' = s.delayed
    /\ timer' = s.timer /\ feeding' = s.feeding /\ expect' = s.expect
    /\ lost' = s.lost

\* A list without the items in S.
Drop(list, S) ==
    LET kept[i \in 0 .. Len(list)] ==
          IF i = 0 THEN <<>>
          ELSE IF list[i] \in S THEN kept[i - 1] ELSE Append(kept[i - 1], list[i])
    IN  kept[Len(list)]

Waiting(s, u) == {i \in DOMAIN s.queue : s.queue[i].url = u}
Undelay(s, us) == Drop(s.delayed, us)

\* Seeded bug: the clients of the entry are left in the queue.
Mut_RemoveEntry(s, u) ==
    IF s.entries[u] = None \/ u \in Files THEN s
    ELSE [s EXCEPT !.entries[u] = None,
                   !.delayed = Undelay(s, {u}),
                   !.lost = @ \ {u},
                   !.removed = @ \cup {u}]

\* Cache_entry_remove: the entry goes, with all its clients; an internal URL stays.
RemoveEntry(s, u) ==
    IF s.entries[u] = None \/ u \in Files THEN s
    ELSE [s EXCEPT !.entries[u] = None,
                   !.queue = Drop(@, {c \in ToSet(@) : c.url = u}),
                   !.delayed = Undelay(s, {u}),
                   !.lost = @ \ {u},
                   !.removed = @ \cup {u}]

\* a_Capi_conn_abort_by_url: the answer branch removes the cache entry.
AbortConn(s, u) ==
    IF s.feeding[u] = None THEN s
    ELSE RemoveEntry([s EXCEPT !.feeding[u] = None], u)

\* a_Cache_open_url, file scheme: the contents are injected.
Inject(s, u, kind) ==
    IF u \in Files /\ s.entries[u] = None
    THEN [s EXCEPT !.entries[u] = [NewEntry EXCEPT !.st = "done", !.kind = kind]]
    ELSE s

\* Cache_delayed_process_queue.
Delay(s, u) ==
    [s EXCEPT !.delayed = IF Contains(@, u) THEN @ ELSE Append(@, u),
              !.lost = @ \ {u},
              !.timer = TRUE]

Client(w, u, root, hops) ==
    [url |-> u, bw |-> w, root |-> root, hops |-> hops, cb |-> "none", sent |-> FALSE]

\* Seeded bug: a client of a cached entry is not put in DelayedQueue.
Mut_Enqueue(s, u, c) ==
    [s EXCEPT !.queue = Append(@, c),
              !.entries[u] = IF @ = None THEN NewEntry ELSE @]

\* The rest of a_Cache_open_url: a hit is served later, a miss waits for data.
Enqueue(s, u, c) ==
    IF s.entries[u] # None
    THEN Delay([s EXCEPT !.queue = Append(@, c)], u)
    ELSE [s EXCEPT !.queue = Append(@, c), !.entries[u] = NewEntry]

\* a_Capi_open_url.  reload: a connection is started, and it may fail before the
\* call returns (the resolver may answer at once), which opens no client.
Open(s, u, c, e2e, fails, kind) ==
    LET reload == u \notin Files /\ (s.entries[u] = None \/ e2e)
        s1 == IF reload THEN AbortConn(s, u) ELSE s
        s2 == IF reload THEN [s1 EXCEPT !.feeding[u] = c.bw] ELSE s1
        s3 == IF e2e THEN RemoveEntry(s2, u) ELSE s2
    IN  IF reload /\ fails
        THEN [RemoveEntry(s1, u) EXCEPT
                 !.expect[c.bw] = IF @ = u THEN None ELSE @]
        ELSE Enqueue(Inject(s3, u, kind), u, c)

\* The URLs whose last client a_Bw_stop_clients stops, and whose connection it
\* aborts: the stop is forced, or that client has had no data.
Mine(s, w, u) == {i \in Waiting(s, u) : s.queue[i].bw = w}
LastStopped(s, w, u) ==
    IF \E i \in Mine(s, w, u) : ~s.queue[i].root
    THEN CHOOSE i \in Mine(s, w, u) : ~s.queue[i].root
    ELSE CHOOSE i \in Mine(s, w, u) : TRUE
AbortedByStop(s, w, force) ==
    {u \in Urls : /\ s.feeding[u] # None
                  /\ Mine(s, w, u) # {}
                  /\ Waiting(s, u) = Mine(s, w, u)
                  /\ (force \/ ~s.queue[LastStopped(s, w, u)].sent)}

\* a_Bw_stop_clients: root first, then images.  a_Cache_stop_client takes the
\* whole entry out of DelayedQueue, whoever else waits for it.
StopClients(s, w, force) ==
    LET aborted == AbortedByStop(s, w, force)
        stopped == {u \in Urls : Mine(s, w, u) # {}}
    IN  [s EXCEPT
          !.entries = [u \in Urls |-> IF u \in aborted THEN None ELSE @[u]],
          !.feeding = [u \in Urls |-> IF u \in aborted THEN None ELSE @[u]],
          !.removed = @ \cup aborted,
          !.queue = Drop(@, {c \in ToSet(@) : c.bw = w}),
          !.delayed = Undelay(s, stopped),
          !.lost = @ \cup {u \in stopped : /\ Contains(s.delayed, u)
                                           /\ Waiting(s, u) # Mine(s, w, u)}]

\* a_Nav_push of another page than the expected one, and Nav_open_url.
Push(s, w, u, hops, e2e, fails, kind) ==
    Open(StopClients([s EXCEPT !.expect[w] = u], w, FALSE),
         u, Client(w, u, TRUE, hops), e2e, fails, kind)

----------------------------------------------------------------------------
(* The user. *)

Idle == frame = None
MayOpen == opens < MaxOpens /\ opens' = opens + 1
FileKinds == {"page", "unviewable"}

\* A link is followed; the expected page is not asked for twice.
a_Nav_push(w, u) ==
    /\ Idle /\ MayOpen
    /\ expect[w] # u
    /\ \E fails \in BOOLEAN, kind \in FileKinds :
          Becomes(Push(Store, w, u, 0, FALSE, fails, kind))
    /\ UNCHANGED <<level, frame>>

\* The page is reloaded end to end.
a_Nav_reload(w, u) ==
    /\ Idle /\ MayOpen
    /\ \E fails \in BOOLEAN, kind \in FileKinds :
          Becomes(Push(Store, w, u, 0, TRUE, fails, kind))
    /\ UNCHANGED <<level, frame>>

\* The stop button.
a_UIcmd_stop(w) ==
    /\ Idle
    /\ Becomes(StopClients([Store EXCEPT !.expect[w] = None], w, TRUE))
    /\ UNCHANGED <<level, opens, frame>>

----------------------------------------------------------------------------
(* Data arrives: a_Cache_process_dbuf. *)

Frame(u, via, mismatch) ==
    [url |-> u, via |-> via, i |-> 1, mismatch |-> mismatch, abort |-> FALSE,
     offer |-> FALSE, stale |-> FALSE]

\* What a header and the first data may say.
Answers == [kind : Kinds \ {"301", "302"}, to : {None}] \cup [kind : {"301", "302"}, to : Urls]

\* The type is known, or was already; st: the new state of the entry.
Typed(u, st, via) ==
    \/ /\ entries[u] # None /\ entries[u].st = "empty"
       /\ \E a \in Answers :
             /\ entries' = [entries EXCEPT ![u] = [st |-> st, kind |-> a.kind,
                                                  to |-> a.to, loop |-> FALSE]]
             /\ frame' = Frame(u, via, a.kind = "mismatch")
    \/ /\ entries[u] # None /\ entries[u].st = "typed"
       /\ entries' = [entries EXCEPT ![u].st = st]
       /\ frame' = Frame(u, via, FALSE)

\* IORead.  (Part of a header, or of what tells the type, changes nothing.)
Read(u) ==
    /\ Idle
    /\ feeding[u] # None
    /\ Typed(u, "typed", "read")
    /\ UNCHANGED <<queue, delayed, timer, feeding, expect, level, lost, opens>>

\* IOClose.
Close(u) ==
    /\ Idle
    /\ feeding[u] # None
    /\ feeding' = [feeding EXCEPT ![u] = None]
    /\ Typed(u, "done", "close")
    /\ UNCHANGED <<queue, delayed, timer, expect, level, lost, opens>>

\* IOClose before the header is complete: Cache_process_queue returns at once.
CloseEmpty(u) ==
    /\ Idle
    /\ feeding[u] # None
    /\ entries[u] # None /\ entries[u].st = "empty"
    /\ feeding' = [feeding EXCEPT ![u] = None]
    /\ entries' = [entries EXCEPT ![u].st = "void"]
    /\ UNCHANGED <<queue, delayed, timer, expect, level, lost, opens, frame>>

\* The connection fails and aborts from its side (OpAbort 1F).
ConnFails(u) ==
    /\ Idle
    /\ feeding[u] # None
    /\ Becomes([AbortConn(Store, u) EXCEPT
                  !.expect[feeding[u]] = IF @ = u THEN None ELSE @])
    /\ UNCHANGED <<level, opens, frame>>

----------------------------------------------------------------------------
(* Cache_process_queue. *)

Entry == entries[frame.url]

\* Becomes, when the call was made by the frame.
BecomesIn(s, f) ==
    /\ Becomes(s)
    /\ frame' = [f EXCEPT !.stale = f.url \in s.removed]

\* The loop finds its next client.
NextClient(i) == /\ i \in frame.i .. Len(queue)
                 /\ queue[i].url = frame.url
                 /\ \A j \in frame.i .. i - 1 : queue[j].url # frame.url

\* redirect_level after the client was looked at.
NewLevel(c) ==
    IF ~c.root THEN level[c.bw]
    ELSE IF ~Redirects(Entry) THEN 0
    ELSE IF c.cb = "none" THEN level[c.bw] + 1 ELSE level[c.bw]

\* What the first call for a client decides: abort the entry (and offer to
\* download it), or which callback it gets.
Unset(c) == c.cb = "none" /\ ~Redirects(Entry)
NotViewable(c) == Unset(c) /\ c.root /\ ~frame.mismatch /\ Entry.kind = "unviewable"
Aborts(c) == Unset(c) /\ (frame.abort \/ frame.mismatch \/ NotViewable(c))
Viewed(c) == Unset(c) /\ ~frame.mismatch /\ (c.root => Entry.kind # "unviewable")
NewCallback(c) ==
    IF c.cb # "none" THEN c.cb
    ELSE IF Viewed(c) /\ Entry.kind # "unviewable" THEN "viewer" ELSE "null"

\* a_Web_dispatch_by_type tells nav, for the page, that it has come
\* (a_Nav_expect_done); an aborted page is not expected any more.
NewExpect(c) ==
    IF ~c.root THEN expect
    ELSE [expect EXCEPT ![c.bw] = IF Viewed(c) \/ (Aborts(c) /\ @ = c.url)
                                  THEN None ELSE @]

\* The client is dequeued: the entry is going to be aborted.
AbortClient(i) ==
    LET c == queue[i]
    IN  /\ NextClient(i)
        /\ Aborts(c)
        /\ queue' = RemoveAt(queue, i)
        /\ expect' = NewExpect(c)
        /\ level' = [level EXCEPT ![c.bw] = NewLevel(c)]
        /\ frame' = [frame EXCEPT !.i = i,
                        !.abort = TRUE,
                        !.offer = @ \/ (c.root /\ (frame.mismatch \/ NotViewable(c)))]
        /\ UNCHANGED <<entries, delayed, timer, feeding, lost, opens>>

\* The client has had the data: its callback is set, and nav knows.
Sent(i) == [Store EXCEPT !.queue[i].cb = NewCallback(queue[i]),
                         !.queue[i].sent = TRUE,
                         !.expect = NewExpect(queue[i])]

\* What the viewer of a page does to the cache: nothing, or it asks for an
\* image (once for each page).
Viewing(i) ==
    LET c == queue[i]
        asks == NewCallback(c) = "viewer" /\ c.root /\ opens < MaxOpens
    IN  {Sent(i)} \cup
        {Open(Sent(i), u, Client(c.bw, u, FALSE, 0), FALSE, fails, kind) :
            u \in {v \in Urls : asks /\ \A j \in Mine(Store, c.bw, v) : queue[j].root},
            fails \in BOOLEAN, kind \in FileKinds}

\* A client that has more to come.
SendData(i) ==
    /\ NextClient(i)
    /\ ~Aborts(queue[i])
    /\ Entry.st = "typed"
    /\ \E s \in Viewing(i) :
          /\ BecomesIn(s, [frame EXCEPT !.i = i + 1])
          /\ opens' = IF s = Sent(i) THEN opens ELSE opens + 1
    /\ level' = [level EXCEPT ![queue[i].bw] = NewLevel(queue[i])]

\* CA_Close: the client is done, and so is its page.
SendLast(i) ==
    /\ NextClient(i)
    /\ ~Aborts(queue[i])
    /\ Entry.st = "done" /\ ~Redirects(Entry)
    /\ \E s \in Viewing(i) :
          /\ BecomesIn([s EXCEPT !.queue = RemoveAt(@, i)], [frame EXCEPT !.i = i])
          /\ opens' = IF s = Sent(i) THEN opens ELSE opens + 1
    /\ level' = [level EXCEPT ![queue[i].bw] = NewLevel(queue[i])]

\* Cache_redirect: the limit is reached, or the entry was part of a loop before.
Looping(i) == NewLevel(queue[i]) >= RedirectLimit \/ Entry.loop

Closed(i) == [Sent(i) EXCEPT !.queue = RemoveAt(@, i)]

RedirectLoops(i) ==
    /\ NextClient(i)
    /\ Entry.st = "done" /\ Redirects(Entry) /\ Looping(i)
    /\ BecomesIn([Closed(i) EXCEPT !.entries[frame.url].loop = TRUE],
                 [frame EXCEPT !.i = i])
    /\ level' = [level EXCEPT ![queue[i].bw] = 0]
    /\ UNCHANGED opens

\* a_Nav_push ignores the page that is expected, unless the fragments differ;
\* 302 is "end to end".
Follow(i) ==
    LET c == queue[i]
        expected == expect[c.bw] = Entry.to
    IN  {Closed(i) : x \in {y \in {0} : ~c.root \/ expected}}
        \cup {Push(Closed(i), c.bw, Entry.to, c.hops + 1, Entry.kind = "302", fails, kind) :
                 fails \in {b \in BOOLEAN : c.root /\ (~expected \/ Fragments)},
                 kind \in FileKinds}

Redirect(i) ==
    /\ NextClient(i)
    /\ Entry.st = "done" /\ Redirects(Entry) /\ ~Looping(i)
    /\ \E s \in Follow(i) : BecomesIn(s, [frame EXCEPT !.i = i])
    /\ level' = [level EXCEPT ![queue[i].bw] = NewLevel(queue[i])]
    /\ UNCHANGED opens

LoopHead == [Frame(None, "delayed", FALSE) EXCEPT !.i = 0]
Return == IF frame.via = "delayed" THEN LoopHead ELSE None

\* Seeded bug: the entry is not taken out of DelayedQueue when it was served.
Mut_Served == Store

\* The entry has served its clients; those that the index passed over still wait.
Served ==
    [Store EXCEPT
        !.delayed = IF frame.via = "delayed" THEN Undelay(Store, {frame.url}) ELSE @,
        !.lost = @ \cup {u \in {frame.url} : Entry.st = "done" /\ Waiting(Store, u) # {}}]

\* The loop is over: the entry is aborted, or it leaves DelayedQueue.
Finish ==
    /\ \A i \in frame.i .. Len(queue) : queue[i].url # frame.url
    /\ LET s == AbortConn(Store, frame.url)
       IN  Becomes(IF ~frame.abort THEN Served
                   ELSE IF frame.offer THEN RemoveEntry(s, frame.url) ELSE s)
    /\ frame' = Return
    /\ UNCHANGED <<level, opens>>

ProcessQueue ==
    /\ frame # None /\ ~frame.stale /\ frame.url # None
    /\ \/ \E i \in DOMAIN queue :
             AbortClient(i) \/ SendData(i) \/ SendLast(i) \/ RedirectLoops(i) \/ Redirect(i)
       \/ Finish

----------------------------------------------------------------------------
(* Cache_delayed_process_queue_callback. *)

DelayedCallback ==
    /\ Idle /\ timer
    /\ frame' = LoopHead
    /\ UNCHANGED <<entries, queue, delayed, timer, feeding, expect, level, lost, opens>>

AtLoopHead == frame # None /\ ~frame.stale /\ frame.url = None

\* The head of DelayedQueue is processed, unless its header is missing.
DelayedNext ==
    /\ AtLoopHead /\ delayed # <<>>
    /\ IF entries[Head(delayed)].st \in {"empty", "void"}
       THEN delayed' = Tail(delayed) /\ UNCHANGED frame
       ELSE frame' = Frame(Head(delayed), "delayed", FALSE) /\ UNCHANGED delayed
    /\ UNCHANGED <<entries, queue, timer, feeding, expect, level, lost, opens>>

DelayedEnd ==
    /\ AtLoopHead /\ delayed = <<>>
    /\ timer' = FALSE
    /\ frame' = None
    /\ UNCHANGED <<entries, queue, delayed, feeding, expect, level, lost, opens>>

Next ==
    \/ \E w \in Windows :
          a_UIcmd_stop(w) \/ \E u \in Urls : a_Nav_push(w, u) \/ a_Nav_reload(w, u)
    \/ \E u \in Urls : Read(u) \/ Close(u) \/ CloseEmpty(u) \/ ConnFails(u)
    \/ ProcessQueue
    \/ DelayedCallback \/ DelayedNext \/ DelayedEnd

Spec == Init /\ [][Next]_vars

\* The main loop runs its timeouts, a call runs to its end, and a server closes
\* its connection in the end.
Fairness ==
    /\ WF_vars(ProcessQueue \/ DelayedNext \/ DelayedEnd)
    /\ SF_vars(DelayedCallback)
    /\ \A u \in Urls \ Files : SF_vars(Close(u) \/ CloseEmpty(u) \/ ConnFails(u))

FairSpec == Spec /\ Fairness

----------------------------------------------------------------------------
(* Properties. *)

\* The type of the cache's structures (cache.c:78-85).
TypeOk ==
    /\ entries \in [Urls -> Entries \cup {None}]
    /\ queue \in Seq(Clients)
    /\ delayed \in Seq(Urls) /\ timer \in BOOLEAN
    /\ feeding \in [Urls -> Windows \cup {None}]
    /\ expect \in [Windows -> Urls \cup {None}]
    /\ level \in [Windows -> Nat]
    /\ lost \subseteq Urls /\ opens \in 0 .. MaxOpens
    /\ frame \in Frames \cup {None}

\* Cache_process_queue never comes back from a viewer or from the redirection
\* handler to an entry that was removed (cache.c:1206, 1239).
NoFreedEntry == frame # None => ~frame.stale

\* The URL of a client and the members of DelayedQueue are pointers into the
\* entries: none is left when its entry goes (cache.c:80, 359-377).
NothingDangles ==
    /\ \A i \in DOMAIN queue : entries[queue[i].url] # None
    /\ \A i \in DOMAIN delayed : entries[delayed[i]] # None
    /\ \A i, j \in DOMAIN delayed : delayed[i] = delayed[j] => i = j

\* In the main loop, an entry that is not complete has a connection that fills
\* it and a connection has such an entry, so that no client waits for data that
\* nobody sends (capi.c:240-290, cache.c:1257).
EntryIsFed ==
    Idle => \A u \in Urls :
               feeding[u] # None <=> entries[u] # None /\ entries[u].st \in {"empty", "typed"}

\* In the main loop, the clients of a complete entry are going to be served by
\* the timeout: its URL is in DelayedQueue and the timeout is set.
ServedSoon(u) == Contains(delayed, u) /\ timer
Complete(u) == entries[u] # None /\ entries[u].st = "done"

\* ... all of them (Cache_process_queue: "look if new data is available and pass
\* it to client functions", cache.c:1100), but those that a stop in another window
\* or the index of the loop passed over (cache.c:1130, 1349).
OnlyLostForgotten ==
    Idle => \A u \in Urls :
               Complete(u) /\ Waiting(Store, u) # {} => ServedSoon(u) \/ u \in lost

\* A page is at most five redirections away from the link that was followed
\* (cache.c:962: "if there's a redirect loop, stop now").
RedirectionsEnd == \A i \in DOMAIN queue : queue[i].hops < RedirectLimit

\* The entries, the clients that point into them and the connections that fill
\* them agree, whatever is stopped, aborted or redirected in the middle.
EntriesAreSound ==
    /\ TypeOk
    /\ NoFreedEntry
    /\ NothingDangles
    /\ EntryIsFed
    /\ RedirectionsEnd

\* A client does not wait for ever: it is served, stopped or aborted, unless its
\* page was lost as above, or the server closed before the header was complete
\* (then Cache_process_queue returns at once and nobody tells the clients,
\* cache.c:1123).
EventuallyServed ==
    \A u \in Urls :
       Waiting(Store, u) # {} ~>
          \/ Waiting(Store, u) = {}
          \/ u \in lost
          \/ entries[u] # None /\ entries[u].st = "void"
=============================================================================
