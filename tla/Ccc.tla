-------------------------------- MODULE Ccc ---------------------------------
(***************************************************************************)
(* The concomitant control chain of a fetch: chain.c, capi.c, IO/dpi.c and   *)
(* IO/IO.c.  Capi builds two branches per connection, 1 (capi, http, IO) for *)
(* the query and 2 (capi, dpi, IO) for the answer, holds one reference for  *)
(* each, and passes the descriptor of the socket from the first to the      *)
(* second.  Ends and aborts run along the branches and from one to the      *)
(* other; freeing a socket lets another fetch connect (Http), in the middle. *)
(*                                                                         *)
(* A handler is a tree of calls.  todo holds the calls that are still to be *)
(* made, in order: a step makes the first one and puts the calls it makes   *)
(* in its place, so handlers run to completion but every intermediate state *)
(* is there.                                                                *)
(***************************************************************************)
EXTENDS Integers, Sequences, FiniteSets, SequencesExt

CONSTANTS Fetches,        \* the capi_conn_t structures
          MaxConns,       \* prefs.http_max_conns; all fetches are for one host
          NumFDs,         \* descriptors the process may have open
          ReuseInHandler, \* a descriptor may be reused as soon as it is closed
          None            \* the NULL pointer

FDs == 0 .. NumFDs - 1
Unset == -1                 \* IOData_t.FD before OpSend "FD"

ASSUME NumFDsAssumption == NumFDs \in Nat /\ MaxConns \in Nat
ASSUME NoneAssumption == None \notin Fetches \cup FDs \cup {Unset}
ASSUME FlagAssumption == ReuseInHandler \in BOOLEAN

VARIABLES started,   \* fetches that were opened
          ref,       \* capi_conn_t.Ref
          send,      \* fetches whose InfoSend is set: branch 1 is open
          recv,      \* fetches whose InfoRecv is set: branch 2 is open
          wr,        \* IOData_t of branch 1: its FD, or None when freed
          rd,        \* IOData_t of branch 2: its FD, or None when freed
          socket,    \* the fetch whose socket each descriptor is, or None
          watch,     \* the fetch whose callback watches (descriptor, event)
          resolving, \* fetches that wait for the resolver
          waiting,   \* sockets queued for the host
          active,    \* sockets connected to the host
          outcome,   \* what the cache was told: IOClose ("closed"), removed or none
          closed,    \* descriptors closed in this handler
          todo,      \* calls still to be made by the handler in progress
          broken     \* fetches whose read() has failed for good (ECONNRESET), a history

conns == <<started, ref, send, recv>>
ios == <<wr, rd, socket, watch, closed>>
pool == <<resolving, waiting, active>>
vars == <<started, ref, send, recv, wr, rd, socket, watch, resolving, waiting,
          active, outcome, closed, todo, broken>>

Init ==
    /\ started = {} /\ send = {} /\ recv = {}
    /\ ref = [f \in Fetches |-> 0]
    /\ wr = [f \in Fetches |-> None]
    /\ rd = [f \in Fetches |-> None]
    /\ socket = [fd \in FDs |-> None]
    /\ watch = [fd \in FDs |-> [read |-> None, write |-> None]]
    /\ resolving = {} /\ waiting = <<>> /\ active = {}
    /\ outcome = [f \in Fetches |-> "none"]
    /\ closed = {}
    /\ todo = <<>>
    /\ broken = {}

----------------------------------------------------------------------------
(* Calls. *)

Call(op, f) == [op |-> op, f |-> f]
Idle == todo = <<>>
Doing(op) == todo # <<>> /\ Head(todo).op = op
This == Head(todo).f

\* The call is replaced by the calls it makes.
Then(calls) == todo' = calls \o Tail(todo)
If(cond, calls) == IF cond THEN calls ELSE <<>>

\* A handler starts.
Handle(calls) == Idle /\ todo' = calls /\ closed' = {}

----------------------------------------------------------------------------
(* IO.c *)

Opens(fd) == fd \in FDs

Unwatch(fd, read, write) ==
    watch' = IF Opens(fd)
             THEN [watch EXCEPT ![fd] = [read |-> IF read THEN None ELSE @.read,
                                         write |-> IF write THEN None ELSE @.write]]
             ELSE watch

\* IO_close_fd with IO_StopRdWr: the descriptor is closed, whoever has it now.
CloseFd(fd) ==
    /\ socket' = IF Opens(fd) THEN [socket EXCEPT ![fd] = None] ELSE socket
    /\ closed' = closed \cup (FDs \cap {fd})
    /\ Unwatch(fd, TRUE, TRUE)

\* a_IO_ccc OpEnd 2F, after the rest of the branch has been told.
CloseAnswer ==
    /\ Doing("close_answer")
    /\ CloseFd(rd[This])
    /\ rd' = [rd EXCEPT ![This] = None]
    /\ Then(<<>>)
    /\ UNCHANGED <<conns, wr, pool, outcome, broken>>

\* IO_fd_read_cb, IO_read: the data read, then the end of the file or an error
\* that nobody is told of, and the watch goes unless there may be more.  The
\* watch is known by its descriptor.
IO_fd_read_cb(fd) ==
    LET f == watch[fd].read
    IN  /\ f # None
        /\ rd[f] \in FDs
        /\ socket[rd[f]] # None
        /\ \E data \in BOOLEAN :
              \/ /\ data
                 /\ Handle(<<Call("data", f)>>)
                 /\ UNCHANGED broken
              \/ /\ Handle(If(data, <<Call("data", f)>>)
                            \o <<Call("eof", f), Call("unwatch", fd)>>)
                 /\ UNCHANGED broken
              \/ /\ Handle(If(data, <<Call("data", f)>>) \o <<Call("unwatch", fd)>>)
                 /\ broken' = broken \cup {f}
        /\ UNCHANGED <<conns, wr, rd, socket, watch, pool, outcome>>

\* IO_fd_write_cb, IO_write: the query is sent, or cannot be.
IO_fd_write_cb(fd) ==
    /\ watch[fd].write # None
    /\ Handle(<<>>)
    /\ Unwatch(fd, FALSE, TRUE)
    /\ UNCHANGED <<conns, wr, rd, socket, pool, outcome, broken>>

\* The rest of IO_fd_read_cb.
UnwatchRead ==
    /\ Doing("unwatch")
    /\ Unwatch(This, TRUE, FALSE)
    /\ Then(<<>>)
    /\ UNCHANGED <<conns, wr, rd, socket, closed, pool, outcome, broken>>

\* Seeded bug: IO_read does not look whether the data aborted the chain.
Mut_ReadEof ==
    /\ Doing("eof")
    /\ Then(<<Call("end_answer", This), Call("close_answer", This)>>)
    /\ UNCHANGED <<conns, ios, pool, outcome, broken>>

\* IO_read, end of file: the io is looked up again, since the data may have
\* aborted the chain.
ReadEof ==
    /\ Doing("eof")
    /\ Then(If(rd[This] # None,
               <<Call("end_answer", This), Call("close_answer", This)>>))
    /\ UNCHANGED <<conns, ios, pool, outcome, broken>>

----------------------------------------------------------------------------
(* http.c, in short (module Http). *)

\* A socket that is freed in the queue is passed over when its turn comes: it is as
\* if it had left.
Without(s, f) ==
    IF \E i \in DOMAIN s : s[i] = f THEN RemoveAt(s, CHOOSE i \in DOMAIN s : s[i] = f) ELSE s

\* Seeded bug: the queue is not looked at when a socket is freed.
Mut_Http_socket_free ==
    /\ Doing("free_socket")
    /\ active' = active \ {This}
    /\ waiting' = Without(waiting, This)
    /\ resolving' = resolving \ {This}
    /\ Then(<<>>)
    /\ UNCHANGED <<conns, ios, outcome, broken>>

\* Http_socket_free: a socket leaves its place to the next ones.
Http_socket_free ==
    /\ Doing("free_socket")
    /\ active' = active \ {This}
    /\ waiting' = Without(waiting, This)
    /\ resolving' = resolving \ {This}
    /\ Then(If(This \in active, <<Call("connect_queued", None)>>))
    /\ UNCHANGED <<conns, ios, outcome, broken>>

RoomForOne == Cardinality(active) < MaxConns /\ waiting # <<>>

\* What socket() may return: the lowest descriptor that is not open.
Free(fd) == socket[fd] = None /\ (ReuseInHandler \/ fd \notin closed)
NextFd(fd) == fd \in FDs /\ Free(fd) /\ \A g \in 0 .. fd - 1 : ~Free(g)

\* Http_connect_socket: both ends get the descriptor, and the query is sent.
Connect(fd) ==
    /\ Doing("connect_queued") /\ RoomForOne
    /\ NextFd(fd)
    /\ LET f == Head(waiting)
       IN  /\ socket' = [socket EXCEPT ![fd] = f]
           /\ wr' = [wr EXCEPT ![f] = fd]
           /\ rd' = [rd EXCEPT ![f] = fd]
           /\ watch' = [watch EXCEPT ![fd] = [read |-> f, write |-> f]]
           /\ active' = active \cup {f}
    /\ waiting' = Tail(waiting)
    /\ UNCHANGED <<conns, closed, resolving, outcome, todo, broken>>

\* No descriptor, or connect() fails: the chain is aborted in both directions.
ConnectFails ==
    /\ Doing("connect_queued") /\ RoomForOne
    /\ waiting' = Tail(waiting)
    /\ Then(<<Call("abort_from_http", Head(waiting)), Head(todo)>>)
    /\ UNCHANGED <<conns, ios, resolving, active, outcome, broken>>

ConnectReturns ==
    /\ Doing("connect_queued") /\ ~RoomForOne
    /\ Then(<<>>)
    /\ UNCHANGED <<conns, ios, pool, outcome, broken>>

\* Http_dns_cb.
Http_dns_cb(f) ==
    /\ f \in resolving
    /\ resolving' = resolving \ {f}
    /\ \/ Handle(<<Call("abort_from_http", f)>>) /\ UNCHANGED waiting
       \/ Handle(<<Call("connect_queued", None)>>) /\ waiting' = Append(waiting, f)
    /\ UNCHANGED <<conns, wr, rd, socket, watch, active, outcome, broken>>

----------------------------------------------------------------------------
(* capi.c and dpi.c. *)

\* a_Capi_open_url: the answer branch first, then the query.
a_Capi_open_url(f) ==
    /\ Handle(<<>>)
    /\ f \notin started
    /\ started' = started \cup {f}
    /\ ref' = [ref EXCEPT ![f] = 2]
    /\ send' = send \cup {f}
    /\ recv' = recv \cup {f}
    /\ wr' = [wr EXCEPT ![f] = Unset]
    /\ rd' = [rd EXCEPT ![f] = Unset]
    /\ resolving' = resolving \cup {f}
    /\ UNCHANGED <<socket, watch, waiting, active, outcome, broken>>

\* a_Capi_conn_abort_by_url finds the connection in CapiConns.
Listed(f) == ref[f] > 0

\* The body of a_Capi_conn_abort_by_url.
AbortCalls(f) == <<Call("abort_query", f), Call("abort_answer", f)>>

\* The user stops or reloads (a_Capi_stop_client, a_Capi_open_url).
a_Capi_conn_abort_by_url(f) ==
    /\ Listed(f)
    /\ Handle(AbortCalls(f))
    /\ UNCHANGED <<conns, wr, rd, socket, watch, pool, outcome, broken>>

\* What the clients of the cache do with what they are given: nothing to the
\* chains, or the abort of one (the type is not viewable, a reload).
ClientsReact == {<<>>} \cup {AbortCalls(f) : f \in {g \in Fetches : Listed(g)}}

\* OpSend 2F: IO, dpi, capi, a_Cache_process_dbuf(IORead).
Data ==
    /\ Doing("data")
    /\ \E calls \in ClientsReact : Then(calls)
    /\ UNCHANGED <<conns, ios, pool, outcome, broken>>

\* OpEnd 2F in capi: a_Cache_process_dbuf(IOClose), then the query branch ends.
EndAnswer ==
    /\ Doing("end_answer")
    /\ recv' = recv \ {This}
    /\ outcome' = [outcome EXCEPT ![This] = "closed"]
    /\ \E calls \in ClientsReact :
          Then(calls \o <<Call("end_query", This), Call("unref", This)>>)
    /\ UNCHANGED <<started, ref, send, ios, pool, broken>>

\* Seeded bug: the branch is ended although it was aborted meanwhile.
Mut_EndQuery ==
    /\ Doing("end_query")
    /\ send' = send \ {This}
    /\ wr' = [wr EXCEPT ![This] = None]
    /\ Then(<<Call("free_socket", This), Call("unref", This)>>)
    /\ UNCHANGED <<started, ref, recv, rd, socket, watch, closed, pool, outcome, broken>>

\* OpEnd 1B: IO_close_fd with IO_StopWr, which closes nothing.
EndQuery ==
    /\ Doing("end_query")
    /\ IF This \in send
       THEN /\ send' = send \ {This}
            /\ Unwatch(wr[This], FALSE, TRUE)
            /\ wr' = [wr EXCEPT ![This] = None]
            /\ Then(<<Call("free_socket", This), Call("unref", This)>>)
       ELSE Then(<<>>) /\ UNCHANGED <<send, watch, wr>>
    /\ UNCHANGED <<started, ref, recv, rd, socket, closed, pool, outcome, broken>>

\* OpAbort 1B, if the branch is open: the descriptor is closed.
AbortQuery ==
    /\ Doing("abort_query")
    /\ IF This \in send
       THEN /\ send' = send \ {This}
            /\ CloseFd(wr[This])
            /\ wr' = [wr EXCEPT ![This] = None]
            /\ Then(<<Call("free_socket", This), Call("unref", This)>>)
       ELSE Then(<<>>) /\ UNCHANGED <<send, socket, watch, wr, closed>>
    /\ UNCHANGED <<started, ref, recv, rd, pool, outcome, broken>>

\* OpAbort 2B, if the branch is open: the descriptor is closed, again if the
\* query was aborted, and the cache entry is removed.
AbortAnswer ==
    /\ Doing("abort_answer")
    /\ IF This \in recv
       THEN /\ recv' = recv \ {This}
            /\ CloseFd(rd[This])
            /\ rd' = [rd EXCEPT ![This] = None]
            /\ outcome' = [outcome EXCEPT ![This] = "removed"]
            /\ Then(<<Call("unref", This)>>)
       ELSE Then(<<>>) /\ UNCHANGED <<recv, socket, watch, rd, closed, outcome>>
    /\ UNCHANGED <<started, ref, send, wr, pool, broken>>

\* a_Chain_bfcb(OpAbort, "Both"): IO backwards, then capi forwards, which
\* aborts the answer.
AbortFromHttp ==
    /\ Doing("abort_from_http")
    /\ CloseFd(wr[This])
    /\ wr' = [wr EXCEPT ![This] = None]
    /\ send' = send \ {This}
    /\ Then(<<Call("abort_answer", This), Call("unref", This)>>)
    /\ UNCHANGED <<started, ref, recv, rd, pool, outcome, broken>>

Capi_conn_unref ==
    /\ Doing("unref")
    /\ ref' = [ref EXCEPT ![This] = @ - 1]
    /\ Then(<<>>)
    /\ UNCHANGED <<started, send, recv, ios, pool, outcome, broken>>

----------------------------------------------------------------------------
Step ==
    \/ CloseAnswer \/ UnwatchRead \/ ReadEof
    \/ Http_socket_free \/ ConnectFails \/ ConnectReturns
    \/ (\E fd \in FDs : Connect(fd))
    \/ Data \/ EndAnswer \/ EndQuery \/ AbortQuery \/ AbortAnswer
    \/ AbortFromHttp \/ Capi_conn_unref

Next ==
    \/ Step
    \/ \E fd \in FDs : IO_fd_read_cb(fd) \/ IO_fd_write_cb(fd)
    \/ \E f \in Fetches : \/ a_Capi_open_url(f)
                          \/ Http_dns_cb(f)
                          \/ a_Capi_conn_abort_by_url(f)

\* The server closes the connection in the end: read() returns 0, or fails.
ServerCloses(fd) == IO_fd_read_cb(fd) /\ Len(todo') >= 1 /\ Head(todo').op # "data"

Fairness ==
    /\ WF_vars(Step)
    /\ \A f \in Fetches : WF_vars(Http_dns_cb(f))
    /\ \A fd \in FDs : SF_vars(ServerCloses(fd))

Spec == Init /\ [][Next]_vars
FairSpec == Spec /\ Fairness

----------------------------------------------------------------------------
(* Properties. *)

Ops == {"data", "eof", "unwatch", "end_answer", "close_answer", "end_query",
        "abort_query", "abort_answer", "abort_from_http", "free_socket",
        "connect_queued", "unref"}

\* The variables have the types of the C structures.
TypeOk ==
    /\ started \subseteq Fetches /\ send \subseteq Fetches /\ recv \subseteq Fetches
    /\ ref \in [Fetches -> 0 .. 2]
    /\ wr \in [Fetches -> FDs \cup {Unset, None}]
    /\ rd \in [Fetches -> FDs \cup {Unset, None}]
    /\ socket \in [FDs -> Fetches \cup {None}]
    /\ watch \in [FDs -> [read : Fetches \cup {None}, write : Fetches \cup {None}]]
    /\ resolving \subseteq Fetches /\ active \subseteq Fetches
    /\ waiting \in Seq(Fetches)
    /\ outcome \in [Fetches -> {"none", "closed", "removed"}]
    /\ closed \subseteq FDs
    /\ todo \in Seq([op : Ops, f : Fetches \cup FDs \cup {None}])
    /\ broken \subseteq started

\* The calls in progress that read the connection or one of its links.
Uses(call, f) ==
    call.f = f /\ call.op \in {"end_answer", "end_query", "unref", "abort_query",
                               "abort_answer", "abort_from_http"}

\* A connection is freed (its last reference given back) only when no call in
\* progress will look at it again: a_Capi_conn_abort_by_url reads InfoRecv after
\* the abort of the query branch returns.
NoUseAfterFree == \A f \in Fetches :
    ref[f] = 0 => \A i \in DOMAIN todo : ~Uses(todo[i], f)

\* When the handlers have returned, both branches of a connection are open, with
\* a reference each, or neither is and the connection is freed.
BranchesTogether == Idle =>
    /\ send = recv
    /\ \A f \in Fetches : ref[f] = IF f \in recv THEN 2 ELSE 0

\* The cache learns the end of every fetch that is over, from one call: either
\* the answer is complete or the entry is removed.
OutcomeKnown == \A f \in Fetches :
    Idle => (outcome[f] = "none" <=> f \notin started \/ f \in recv)

\* The end that the cache was told of is final.
OutcomeIsFinal == [][\A f \in Fetches : outcome[f] # "none" => outcome'[f] = outcome[f]]_vars

\* A fetch that is over leaves no descriptor open
\* ("IO_StopRd would leak FDs").
NothingLeaks == Idle =>
    \A fd \in FDs : socket[fd] # None => socket[fd] \in recv /\ rd[socket[fd]] = fd

\* "There should be no more events on already closed FDs": what is watched is an
\* open branch of the fetch that watches it.
NoEventOnClosed == Idle => \A fd \in FDs :
    /\ watch[fd].read # None => rd[watch[fd].read] = fd
    /\ watch[fd].write # None => wr[watch[fd].write] = fd

\* The descriptor of an open fetch is its own socket: nobody else closes it
\* ("The file descriptor is closed twice, and it could be reused for something
\* else in between").
OwnDescriptor == Idle => \A f \in recv : rd[f] \in FDs => socket[rd[f]] = f

\* A connected fetch is watched, so that its end will be noticed, unless its
\* read() has failed.
Watched == Idle => \A f \in recv :
    rd[f] \in FDs => watch[rd[f]].read = f \/ f \in broken

\* What the calls of a fetch owe to one another, whichever end of the chain an
\* end or an abort starts from, and whatever the clients do in the middle of it.
TransfersAreSound ==
    /\ TypeOk
    /\ NoUseAfterFree
    /\ BranchesTogether
    /\ OutcomeKnown
    /\ NothingLeaks
    /\ NoEventOnClosed
    /\ OwnDescriptor
    /\ Watched

\* Every fetch is told to the cache as complete or removed in the end, but the
\* ones whose read() failed, and the ones that wait for the places they keep.
EventuallyOver == \A f \in Fetches :
    f \in started ~> \/ outcome[f] # "none"
                     \/ f \in broken
                     \/ Cardinality(broken) >= MaxConns
=============================================================================
