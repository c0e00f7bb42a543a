----------------------------- MODULE CccProofs ------------------------------
(* Proofs about the control chains (Ccc), for every number of fetches, places  *)
(* and descriptors: no connection is used after it is freed, both branches of  *)
(* a chain are open or neither is, the cache is told how every fetch ended,    *)
(* once, and no descriptor leaks, is watched when closed, or is closed by      *)
(* another.                                                                    *)
(*                                                                             *)
(* The properties speak of the moments when no handler runs; what holds in the *)
(* middle of a handler is in the calls it still has to make.  ChainInv says    *)
(* what every call may count on when its turn comes, and what the calls after  *)
(* it owe to it: a reference taken by a branch is held by the branch or by an  *)
(* "unref" to come, the end of the query or the abort of the answer is to come *)
(* when one branch is closed before the other, a descriptor that is still      *)
(* named is the fetch's own or was closed in this very handler.                *)
(*                                                                             *)
(* Assumed: no descriptor is reused within the handler that closed it          *)
(* (~ReuseInHandler).  IO.c:142 closes the descriptor of an aborted fetch      *)
(* twice, and with reuse the second close hits another fetch.                  *)
EXTENDS Ccc, FiniteSetTheorems, SequenceTheorems, TLAPS

\* The calls of Ccc.
Calls == [op : Ops, f : Fetches \cup FDs \cup {None}]

\* The places of the calls to come; 1 is the call whose turn it is.
Positions == 1 .. Len(todo)

\* The call at a place.
Is(i, op, f) == todo[i].op = op /\ todo[i].f = f

\* A call to come, whose turn it is or later.
Pending(op, f) == \E i \in Positions : Is(i, op, f)

\* The call whose turn it is.
First(op, f) == todo # <<>> /\ Is(1, op, f)

\* A call to come after a place.
After(i, op, f) == \E j \in Positions : i < j /\ Is(j, op, f)

\* A call to come before a place.
Before(i, op, f) == \E j \in Positions : j < i /\ Is(j, op, f)

\* The references that calls to come will give back.
Unrefs(f) == {i \in Positions : Is(i, "unref", f)}

\* The sockets in the queue of Http.
Queued == {waiting[i] : i \in 1 .. Len(waiting)}

\* Calls that are made as soon as they are put.
FirstOnly == {"data", "end_answer", "abort_query", "abort_from_http", "free_socket"}

\* Calls have arguments of their type.
TodoOk ==
    /\ todo \in Seq(Calls)
    /\ \A i \in Positions : todo[i].op = "unwatch" => todo[i].f \in FDs
    /\ \A i \in Positions : todo[i].op = "connect_queued" => todo[i].f = None
    /\ \A i \in Positions : todo[i].op \notin {"unwatch", "connect_queued"} => todo[i].f \in Fetches
    /\ \A i \in Positions : todo[i].op \in FirstOnly => i = 1

\* Nothing but the rest of IO_read follows the data, the end of the file and the
\* end of the answer.
OrderOk ==
    /\ \A i, j \in Positions : i < j /\ todo[i].op = "data" => todo[j].op \in {"eof", "unwatch"}
    /\ \A i, j \in Positions : i < j /\ todo[i].op = "eof" => todo[j].op = "unwatch"
    /\ \A i, j \in Positions : i < j /\ todo[i].op = "end_answer" => todo[j].op \in {"close_answer", "unwatch"}

\* A reference of a connection (capi_conn_t.Ref) is held by a branch that is open
\* or by a call of a_Capi_conn_unref to come.
RefsOk == \A f \in Fetches :
    ref[f] = (IF f \in send THEN 1 ELSE 0) + (IF f \in recv THEN 1 ELSE 0) + Cardinality(Unrefs(f))

\* The end of an answer: its branch is open, and its descriptor is closed next.
EndAnswerOk ==
    /\ \A i \in Positions : todo[i].op = "eof" => rd[todo[i].f] \in FDs \cup {None}
    /\ \A f \in Fetches : First("end_answer", f) =>
          f \in recv /\ rd[f] \in FDs /\ 2 \in Positions /\ Is(2, "close_answer", f)

\* The end of a query: the answer has ended, and the connection is still there.
EndQueryOk == \A i \in Positions : todo[i].op = "end_query" =>
    /\ todo[i].f \notin recv
    /\ After(i, "unref", todo[i].f)

\* The abort of a query: the connection is still there, and the answer is next.
AbortQueryOk == \A f \in Fetches : First("abort_query", f) =>
    ref[f] > 0 /\ 2 \in Positions /\ Is(2, "abort_answer", f)

\* The abort of an answer: the query has been aborted or is about to be, the
\* connection is still there, and no other abort of it is to come.
AbortAnswerOk ==
    /\ \A i \in Positions : todo[i].op = "abort_answer" =>
          \/ todo[i].f \notin send
          \/ i = 2 /\ First("abort_query", todo[i].f)
    /\ \A i \in Positions : todo[i].op = "abort_answer" =>
          \/ todo[i].f \in recv
          \/ After(i, "unref", todo[i].f)
    /\ \A i, j \in Positions :
          todo[i].op = "abort_answer" /\ todo[j].op = "abort_answer" /\ todo[i].f = todo[j].f => i = j

\* The descriptor that is closed at the end of an answer: it is open, the answer is
\* told first, and so is the query.
CloseAnswerOk ==
    /\ \A i \in Positions : todo[i].op = "close_answer" => rd[todo[i].f] \in FDs
    /\ \A i \in Positions : todo[i].op = "close_answer" =>
          todo[i].f \notin recv \/ First("end_answer", todo[i].f)
    /\ \A i \in Positions : todo[i].op = "close_answer" =>
          \/ todo[i].f \notin send
          \/ Before(i, "end_answer", todo[i].f)
          \/ Before(i, "end_query", todo[i].f)
    /\ \A i, j \in Positions :
          todo[i].op = "close_answer" /\ todo[j].op = "close_answer" /\ todo[i].f = todo[j].f => i = j

\* A connection that cannot be made: the chain is whole, has no descriptor and has
\* left the pool.
AbortHttpOk == \A f \in Fetches : First("abort_from_http", f) =>
    /\ f \in send /\ f \in recv
    /\ wr[f] = Unset
    /\ f \notin resolving /\ f \notin Queued /\ f \notin active

\* The watch that IO_fd_read_cb gives up: its descriptor was not reused, and the
\* fetch it was for ends first, unless its read failed.
UnwatchOk ==
    /\ \A i \in Positions : todo[i].op = "unwatch" => socket[todo[i].f] # None \/ todo[i].f \in closed
    /\ \A i \in Positions : \A f \in Fetches :
          todo[i].op = "unwatch" /\ watch[todo[i].f].read = f =>
          \/ f \in broken
          \/ Before(i, "eof", f)
          \/ Before(i, "end_answer", f)
          \/ Before(i, "close_answer", f)

\* A branch that is open alone has its end or its abort to come.
BranchesOk ==
    /\ send \subseteq started /\ recv \subseteq started
    /\ \A f \in send : f \in recv \/ Pending("end_query", f)
    /\ \A f \in recv : f \in send \/ Pending("abort_answer", f)

\* The cache is told an outcome when the answer branch is closed, and only then.
OutcomeOk == \A f \in Fetches : outcome[f] = "none" <=> f \notin started \/ f \in recv

\* The two branches name the same descriptor, as long as they are open.
LinksOk ==
    /\ \A f \in Fetches : f \in send <=> wr[f] # None
    /\ \A f \in send : rd[f] = wr[f]
    /\ \A f \in recv : rd[f] # None
    /\ \A f \in Fetches : rd[f] # None => f \in recv \/ Pending("close_answer", f)

\* A descriptor that a fetch names is its own socket, or was closed in this handler.
SocketsOk ==
    /\ \A fd \in closed : socket[fd] = None
    /\ \A f \in Fetches : rd[f] \in FDs => socket[rd[f]] = f \/ (f \notin send /\ rd[f] \in closed)
    /\ \A fd \in FDs : socket[fd] # None => rd[socket[fd]] = fd

\* A watched descriptor is named by the fetch that watches it.
WatchesOk ==
    /\ \A fd \in FDs : watch[fd].read # None => rd[watch[fd].read] = fd
    /\ \A fd \in FDs : watch[fd].write # None => wr[watch[fd].write] = fd
    /\ \A f \in send : rd[f] \in FDs => watch[rd[f]].read = f \/ f \in broken

\* A socket of Http is in one place, and is of a query that is open or that is being
\* freed.
PoolOk ==
    /\ resolving \cap Queued = {}
    /\ \A i, j \in 1 .. Len(waiting) : waiting[i] = waiting[j] => i = j
    /\ \A f \in resolving \cup Queued \cup active : f \in send \/ First("free_socket", f)
    /\ \A f \in resolving \cup Queued : f \in send => wr[f] = Unset
    /\ \A f \in active : f \in send => wr[f] \in FDs
    /\ \A f \in Fetches : First("free_socket", f) => f \notin send

\* The inductive invariant.
ChainInv ==
    /\ TypeOk /\ TodoOk /\ OrderOk /\ RefsOk /\ EndAnswerOk /\ EndQueryOk
    /\ AbortQueryOk /\ AbortAnswerOk /\ CloseAnswerOk /\ AbortHttpOk /\ UnwatchOk
    /\ BranchesOk /\ OutcomeOk /\ LinksOk /\ SocketsOk /\ WatchesOk /\ PoolOk

----------------------------------------------------------------------------
(* A step that makes the first call: what it leaves of todo. *)

\* The first call gives way to n others, and the calls after it move.
Moves(n) ==
    /\ \A i \in Positions : i \in Nat /\ i >= 1
    /\ \A i \in Positions' : i \in Nat /\ i >= 1
    /\ \A i \in Positions' : i > n =>
          i - n + 1 \in Positions /\ i - n + 1 > 1 /\ todo'[i] = todo[i - n + 1]

\* They keep what is before and after them, but the first call.
KeepsAfter(n) == \A i \in Positions' : \A op, f :
    i > n /\ After(i - n + 1, op, f) => After(i, op, f)'
\* What is before a call stays before it, but the first call.
KeepsBefore(n) == \A i \in Positions' : \A op, f :
    i > n /\ Before(i - n + 1, op, f) /\ ~First(op, f) => Before(i, op, f)'
\* And the calls to come stay to come.
KeepsPending == \A op, f : Pending(op, f) /\ ~First(op, f) => Pending(op, f)'

\* All of it, with the length of todo.
Shifts(n) ==
    /\ todo' \in Seq(Calls) /\ Len(todo') = Len(todo) + n - 1
    /\ \A i \in Positions : i > 1 => i + n - 1 \in Positions' /\ todo'[i + n - 1] = todo[i]
    /\ Moves(n) /\ KeepsAfter(n) /\ KeepsBefore(n) /\ KeepsPending

\* One if b, to count references.
OneIf(b) == IF b THEN 1 ELSE 0
\* The references that the calls c give back.
UnrefsIn(c, f) == {i \in 1 .. Len(c) : c[i] = Call("unref", f)}

\* What Call makes.
LEMMA CallFields == \A op, f : Call(op, f).op = op /\ Call(op, f).f = f
  BY DEF Call

\* A call is known by its two fields.
LEMMA CallEquals == \A c \in Calls : \A op, f : c = Call(op, f) <=> c.op = op /\ c.f = f
  BY DEF Calls, Call

\* A handler in progress has a first call.
LEMMA TodoLength ==
  ASSUME TodoOk, todo # <<>>
  PROVE  /\ todo \in Seq(Calls) /\ Len(todo) \in Nat /\ Len(todo) > 0
         /\ 1 \in 1 .. Len(todo) /\ todo[1] = Head(todo) /\ todo[1] \in Calls
<1>1. todo \in Seq(Calls)
  BY DEF TodoOk
<1>2. Len(todo) \in Nat /\ Len(todo) # 0
  BY <1>1, EmptySeq
<1> QED BY <1>1, <1>2

\* Then(c) puts the calls c in the place of the first one (the steps of every
\* handler of the chain).
LEMMA ThenShifts ==
  ASSUME TodoOk, todo # <<>>, NEW c \in Seq(Calls), Then(c)
  PROVE  /\ Shifts(Len(c))
         /\ \A i \in 1 .. Len(c) : i \in Positions' /\ todo'[i] = c[i]
<1> DEFINE n == Len(c)
<1>1. /\ n \in Nat /\ Len(todo) \in Nat /\ todo \in Seq(Calls) /\ Len(todo) > 0
  BY TodoLength
<1>2. /\ todo' = c \o Tail(todo)
      /\ Tail(todo) \in Seq(Calls)
      /\ Len(Tail(todo)) = Len(todo) - 1
      /\ \A i \in 1 .. Len(todo) - 1 : Tail(todo)[i] = todo[i + 1]
  BY <1>1 DEF Then
<1>3. /\ todo' \in Seq(Calls)
      /\ Len(todo') = n + Len(todo) - 1
      /\ \A i \in 1 .. n : todo'[i] = c[i]
      /\ \A i \in n + 1 .. Len(todo') : todo'[i] = Tail(todo)[i - n]
  BY <1>1, <1>2
<1>4. \A i \in 1 .. n : i \in Positions'
  BY <1>1, <1>3 DEF Positions
<1>5. \A i \in Positions' : i > n =>
         i - n + 1 \in Positions /\ i - n + 1 > 1 /\ todo'[i] = todo[i - n + 1]
  BY <1>1, <1>2, <1>3 DEF Positions
<1>6. \A i \in Positions : i > 1 => i + n - 1 \in Positions' /\ todo'[i + n - 1] = todo[i]
  BY <1>1, <1>2, <1>3 DEF Positions
<1>7. \A i \in Positions : i \in Nat /\ i >= 1
  BY <1>1 DEF Positions
<1>8. \A i \in Positions' : i \in Nat /\ i >= 1
  BY <1>1, <1>3 DEF Positions
<1> HIDE DEF n
<1>9. ASSUME NEW i \in Positions', NEW op, NEW f, i > n, After(i - n + 1, op, f)
      PROVE  After(i, op, f)'
  <2>1. PICK j \in Positions : i - n + 1 < j /\ Is(j, op, f)
    BY <1>9 DEF After
  <2>2. j + n - 1 \in Positions' /\ todo'[j + n - 1] = todo[j] /\ i < j + n - 1
    BY <2>1, <1>1, <1>6, <1>7, <1>8, <1>9
  <2> QED BY <2>1, <2>2 DEF After, Is
<1>10. ASSUME NEW i \in Positions', NEW op, NEW f, i > n, Before(i - n + 1, op, f), ~First(op, f)
       PROVE  Before(i, op, f)'
  <2>1. PICK j \in Positions : j < i - n + 1 /\ Is(j, op, f)
    BY <1>10 DEF Before
  <2>2. j # 1
    BY <2>1, <1>10 DEF First
  <2>3. j + n - 1 \in Positions' /\ todo'[j + n - 1] = todo[j] /\ j + n - 1 < i
    BY <2>1, <2>2, <1>1, <1>6, <1>7, <1>8
  <2> QED BY <2>1, <2>3 DEF Before, Is
<1>11. ASSUME NEW op, NEW f, Pending(op, f), ~First(op, f)
       PROVE  Pending(op, f)'
  <2>1. PICK j \in Positions : Is(j, op, f)
    BY <1>11 DEF Pending
  <2>2. j # 1
    BY <2>1, <1>11 DEF First
  <2>3. j + n - 1 \in Positions' /\ todo'[j + n - 1] = todo[j]
    BY <2>2, <1>1, <1>6, <1>7
  <2> QED BY <2>1, <2>3 DEF Pending, Is
<1>12. Moves(n) /\ KeepsAfter(n) /\ KeepsBefore(n) /\ KeepsPending
  BY <1>5, <1>7, <1>8, <1>9, <1>10, <1>11 DEF Moves, KeepsAfter, KeepsBefore, KeepsPending
<1> QED BY <1>1, <1>3, <1>4, <1>6, <1>12 DEF Shifts, n

\* Then(c) changes the references to be given back by the ones c gives back, less
\* the one that the first call gave back.
LEMMA ThenCounts ==
  ASSUME TodoOk, todo # <<>>, NEW c \in Seq(Calls), Then(c), NEW f
  PROVE  /\ Cardinality(Unrefs(f)) \in Nat
         /\ Cardinality(Unrefs(f)') =
               Cardinality(UnrefsIn(c, f)) + Cardinality(Unrefs(f)) - OneIf(First("unref", f))
<1> DEFINE U == Unrefs(f)
           C == UnrefsIn(c, f)
           R == {i \in Len(c) + 1 .. Len(todo') : todo'[i] = Call("unref", f)}
           T == {i \in 2 .. Len(todo) : todo[i] = Call("unref", f)}
           m == [i \in R |-> i - Len(c) + 1]
<1>1. /\ todo' \in Seq(Calls)
      /\ Len(todo') = Len(c) + Len(todo) - 1
      /\ \A i \in 1 .. Len(c) : todo'[i] = c[i]
      /\ \A i \in 2 .. Len(todo) : todo'[i + Len(c) - 1] = todo[i]
      /\ \A i \in Len(c) + 1 .. Len(todo') :
            i - Len(c) + 1 \in 2 .. Len(todo) /\ todo'[i] = todo[i - Len(c) + 1]
  <2>1. Shifts(Len(c)) /\ \A i \in 1 .. Len(c) : todo'[i] = c[i]
    BY ThenShifts
  <2>2. Len(c) \in Nat /\ Len(todo) \in Nat
    BY TodoLength
  <2>3. Moves(Len(c)) /\ todo' \in Seq(Calls) /\ Len(todo') = Len(todo) + Len(c) - 1
    BY <2>1 DEF Shifts
  <2>4. \A i \in Positions : i > 1 => todo'[i + Len(c) - 1] = todo[i]
    BY <2>1 DEF Shifts
  <2>5. \A i \in Positions' : i > Len(c) =>
           i - Len(c) + 1 \in Positions /\ i - Len(c) + 1 > 1 /\ todo'[i] = todo[i - Len(c) + 1]
    BY <2>3 DEF Moves
  <2>6. \A i \in 2 .. Len(todo) : todo'[i + Len(c) - 1] = todo[i]
    BY <2>2, <2>4 DEF Positions
  <2>7. \A i \in Len(c) + 1 .. Len(todo') :
           i - Len(c) + 1 \in 2 .. Len(todo) /\ todo'[i] = todo[i - Len(c) + 1]
    BY <2>2, <2>3, <2>5 DEF Positions
  <2> QED BY <2>1, <2>2, <2>3, <2>6, <2>7
<1>2. /\ Len(c) \in Nat /\ Len(todo) \in Nat /\ Len(todo) > 0
      /\ todo \in Seq(Calls) /\ Len(todo') \in Nat
  BY <1>1, TodoLength
<1>3. /\ U = {i \in 1 .. Len(todo) : todo[i] = Call("unref", f)}
      /\ U' = {i \in 1 .. Len(todo') : todo'[i] = Call("unref", f)}
      /\ First("unref", f) <=> todo[1] = Call("unref", f)
  <2>1. /\ \A i \in 1 .. Len(todo) : todo[i] \in Calls
        /\ \A i \in 1 .. Len(todo') : todo'[i] \in Calls
        /\ todo[1] \in Calls
    BY <1>1, <1>2
  <2> QED BY <2>1, CallEquals DEF Unrefs, Is, Positions, First
<1>4. /\ IsFiniteSet(C) /\ IsFiniteSet(R) /\ IsFiniteSet(T) /\ IsFiniteSet(U)
  <2>1. IsFiniteSet(1 .. Len(c)) /\ IsFiniteSet(1 .. Len(todo')) /\ IsFiniteSet(1 .. Len(todo))
    BY <1>2, FS_Interval
  <2>2. /\ C \subseteq 1 .. Len(c) /\ R \subseteq 1 .. Len(todo')
        /\ T \subseteq 1 .. Len(todo) /\ U \subseteq 1 .. Len(todo)
    BY <1>1, <1>2, <1>3 DEF UnrefsIn
  <2> QED BY <2>1, <2>2, FS_Subset
<1>5. U' = C \cup R /\ C \cap R = {}
  BY <1>1, <1>2, <1>3 DEF UnrefsIn
<1>6. U = T \cup (IF First("unref", f) THEN {1} ELSE {}) /\ 1 \notin T
  BY <1>2, <1>3
<1>7. m \in Bijection(R, T)
  <2>1. m \in [R -> T]
    BY <1>1, <1>2
  <2>2. \A i, j \in R : m[i] = m[j] => i = j
    BY <1>1, <1>2
  <2>3. \A j \in T : \E i \in R : m[i] = j
    <3> SUFFICES ASSUME NEW j \in T PROVE j + Len(c) - 1 \in R /\ m[j + Len(c) - 1] = j
      OBVIOUS
    <3> QED BY <1>1, <1>2
  <2> HIDE DEF m, R, T
  <2> QED BY <2>1, <2>2, <2>3 DEF Bijection, Injection, Surjection, IsInjective
<1>8. Cardinality(R) = Cardinality(T)
  BY <1>7, <1>4, FS_Bijection DEF ExistsBijection
<1>9. Cardinality(C) \in Nat /\ Cardinality(R) \in Nat /\ Cardinality(T) \in Nat /\ Cardinality(U) \in Nat
  BY <1>4, FS_CardinalityType
<1>10. Cardinality(U') = Cardinality(C) + Cardinality(R)
  <2>1. Cardinality(C \cap R) = 0
    BY <1>5, FS_EmptySet
  <2>2. Cardinality(C \cup R) = Cardinality(C) + Cardinality(R) - Cardinality(C \cap R)
    BY <1>4, FS_Union
  <2> QED BY <2>1, <2>2, <1>9, <1>5
<1>11. Cardinality(U) = Cardinality(T) + OneIf(First("unref", f))
  <2>1. CASE First("unref", f)
    <3>1. U = T \cup {1}
      BY <2>1, <1>6
    <3> QED BY <3>1, <2>1, <1>4, <1>6, FS_AddElement DEF OneIf
  <2>2. CASE ~First("unref", f)
    <3>1. U = T
      BY <2>2, <1>6
    <3> QED BY <3>1, <1>9, <2>2 DEF OneIf
  <2> QED BY <2>1, <2>2
<1>12. OneIf(First("unref", f)) \in {0, 1}
  BY DEF OneIf
<1> HIDE DEF U, C, R, T
<1>13. Cardinality(U') = Cardinality(C) + Cardinality(U) - OneIf(First("unref", f))
  BY <1>8, <1>9, <1>10, <1>11, <1>12
<1> QED BY <1>9, <1>13 DEF U, C

\* The call returns.
LEMMA Push0 ==
  ASSUME TodoOk, todo # <<>>, Then(<<>>)
  PROVE  /\ Shifts(0)
         /\ \A f : /\ Cardinality(Unrefs(f)) \in Nat
                   /\ Cardinality(Unrefs(f)') = Cardinality(Unrefs(f)) - OneIf(First("unref", f))
<1>1. <<>> \in Seq(Calls) /\ Len(<<>>) = 0
  OBVIOUS
<1>2. \A f : UnrefsIn(<<>>, f) = {}
  BY DEF UnrefsIn
<1>3. Cardinality({}) = 0
  BY FS_EmptySet
<1>4. Shifts(0)
  BY <1>1, ThenShifts
<1>5. ASSUME NEW f
      PROVE  /\ Cardinality(Unrefs(f)) \in Nat
             /\ Cardinality(Unrefs(f)') = Cardinality(Unrefs(f)) - OneIf(First("unref", f))
  <2>1. /\ Cardinality(Unrefs(f)) \in Nat
        /\ Cardinality(Unrefs(f)') =
               Cardinality(UnrefsIn(<<>>, f)) + Cardinality(Unrefs(f)) - OneIf(First("unref", f))
    BY <1>1, ThenCounts
  <2>2. Cardinality(UnrefsIn(<<>>, f)) = 0
    BY <1>2, <1>3
  <2> QED BY <2>1, <2>2 DEF OneIf
<1> QED BY <1>4, <1>5

\* One call in the place of the first.
LEMMA Push1 ==
  ASSUME TodoOk, todo # <<>>, NEW a \in Calls, Then(<<a>>)
  PROVE  /\ Shifts(1) /\ todo'[1] = a /\ 1 \in Positions'
         /\ \A f : /\ Cardinality(Unrefs(f)) \in Nat
                   /\ Cardinality(Unrefs(f)') = Cardinality(Unrefs(f))
                         + OneIf(a.op = "unref" /\ a.f = f) - OneIf(First("unref", f))
<1> DEFINE c == <<a>>
<1>1. c \in Seq(Calls) /\ Len(c) = 1 /\ c[1] = a
  OBVIOUS
<1>2. \A f : UnrefsIn(c, f) = IF a.op = "unref" /\ a.f = f THEN {1} ELSE {}
  <2>1. \A f : a = Call("unref", f) <=> a.op = "unref" /\ a.f = f
    BY CallEquals
  <2> HIDE DEF c
  <2> QED BY <1>1, <2>1 DEF UnrefsIn
<1>3. Cardinality({}) = 0 /\ Cardinality({1}) = 1
  BY FS_EmptySet, FS_Singleton
<1> HIDE DEF c
<1>4. Then(c)
  BY DEF c
<1>5. Shifts(1) /\ todo'[1] = a /\ 1 \in Positions'
  <2>1. Shifts(Len(c)) /\ \A i \in 1 .. Len(c) : i \in Positions' /\ todo'[i] = c[i]
    BY <1>1, <1>4, ThenShifts
  <2> QED BY <1>1, <2>1
<1>6. ASSUME NEW f
      PROVE  /\ Cardinality(Unrefs(f)) \in Nat
             /\ Cardinality(Unrefs(f)') = Cardinality(Unrefs(f))
                         + OneIf(a.op = "unref" /\ a.f = f) - OneIf(First("unref", f))
  <2>1. /\ Cardinality(Unrefs(f)) \in Nat
        /\ Cardinality(Unrefs(f)') =
               Cardinality(UnrefsIn(c, f)) + Cardinality(Unrefs(f)) - OneIf(First("unref", f))
    BY <1>1, <1>4, ThenCounts
  <2>2. Cardinality(UnrefsIn(c, f)) = OneIf(a.op = "unref" /\ a.f = f)
    BY <1>2, <1>3 DEF OneIf
  <2> QED BY <2>1, <2>2 DEF OneIf
<1> QED BY <1>5, <1>6


\* Two calls in the place of the first.
LEMMA Push2 ==
  ASSUME TodoOk, todo # <<>>, NEW a \in Calls, NEW b \in Calls, Then(<<a, b>>), a.op # "unref"
  PROVE  /\ Shifts(2) /\ todo'[1] = a /\ todo'[2] = b
         /\ 1 \in Positions' /\ 2 \in Positions'
         /\ \A f : /\ Cardinality(Unrefs(f)) \in Nat
                   /\ Cardinality(Unrefs(f)') = Cardinality(Unrefs(f))
                         + OneIf(b.op = "unref" /\ b.f = f) - OneIf(First("unref", f))
<1> DEFINE c == <<a, b>>
<1>1. c \in Seq(Calls) /\ Len(c) = 2 /\ c[1] = a /\ c[2] = b
  OBVIOUS
<1>2. \A f : UnrefsIn(c, f) = IF b.op = "unref" /\ b.f = f THEN {2} ELSE {}
  <2>1. \A f : a # Call("unref", f) /\ (b = Call("unref", f) <=> b.op = "unref" /\ b.f = f)
    BY CallEquals
  <2> HIDE DEF c
  <2> QED BY <1>1, <2>1 DEF UnrefsIn
<1>3. Cardinality({}) = 0 /\ Cardinality({2}) = 1
  BY FS_EmptySet, FS_Singleton
<1> HIDE DEF c
<1>4. Then(c)
  BY DEF c
<1>5. /\ Shifts(2) /\ todo'[1] = a /\ todo'[2] = b
      /\ 1 \in Positions' /\ 2 \in Positions'
  <2>1. Shifts(Len(c)) /\ \A i \in 1 .. Len(c) : i \in Positions' /\ todo'[i] = c[i]
    BY <1>1, <1>4, ThenShifts
  <2> QED BY <1>1, <2>1
<1>6. ASSUME NEW f
      PROVE  /\ Cardinality(Unrefs(f)) \in Nat
             /\ Cardinality(Unrefs(f)') = Cardinality(Unrefs(f))
                   + OneIf(b.op = "unref" /\ b.f = f) - OneIf(First("unref", f))
  <2>1. /\ Cardinality(Unrefs(f)) \in Nat
        /\ Cardinality(Unrefs(f)') =
               Cardinality(UnrefsIn(c, f)) + Cardinality(Unrefs(f)) - OneIf(First("unref", f))
    BY <1>1, <1>4, ThenCounts
  <2>2. Cardinality(UnrefsIn(c, f)) = OneIf(b.op = "unref" /\ b.f = f)
    BY <1>2, <1>3 DEF OneIf
  <2> QED BY <2>1, <2>2 DEF OneIf
<1> QED BY <1>5, <1>6

\* The same when no reference is given back.
LEMMA Push2Other ==
  ASSUME TodoOk, todo # <<>>, NEW a \in Calls, NEW b \in Calls, Then(<<a, b>>),
         a.op # "unref", b.op # "unref", todo[1].op # "unref"
  PROVE  /\ Shifts(2) /\ todo'[1] = a /\ todo'[2] = b
         /\ 1 \in Positions' /\ 2 \in Positions'
         /\ \A f : /\ Cardinality(Unrefs(f)) \in Nat
                   /\ Cardinality(Unrefs(f)') = Cardinality(Unrefs(f))
<1>1. /\ Shifts(2) /\ todo'[1] = a /\ todo'[2] = b
      /\ 1 \in Positions' /\ 2 \in Positions'
      /\ \A f : /\ Cardinality(Unrefs(f)) \in Nat
                /\ Cardinality(Unrefs(f)') = Cardinality(Unrefs(f))
                      + OneIf(b.op = "unref" /\ b.f = f) - OneIf(First("unref", f))
  BY Push2
<1>2. \A f : OneIf(b.op = "unref" /\ b.f = f) = 0 /\ OneIf(First("unref", f)) = 0
  BY DEF OneIf, First, Is
<1>3. ASSUME NEW f
      PROVE  Cardinality(Unrefs(f)') = Cardinality(Unrefs(f))
  <2>1. Cardinality(Unrefs(f)') = Cardinality(Unrefs(f)) + 0 - 0
    BY <1>1, <1>2, Zenon
  <2> QED BY <1>1, <2>1
<1> QED BY <1>1, <1>3

\* Four calls in the place of the first: a client aborts a chain at the end of an
\* answer.
LEMMA Push4 ==
  ASSUME TodoOk, todo # <<>>,
         NEW a \in Calls, NEW b \in Calls, NEW d \in Calls, NEW e \in Calls, Then(<<a, b, d, e>>),
         a.op # "unref", b.op # "unref", d.op # "unref"
  PROVE  /\ Shifts(4) /\ todo'[1] = a /\ todo'[2] = b /\ todo'[3] = d /\ todo'[4] = e
         /\ 1 \in Positions' /\ 2 \in Positions'
         /\ 3 \in Positions' /\ 4 \in Positions'
         /\ \A f : /\ Cardinality(Unrefs(f)) \in Nat
                   /\ Cardinality(Unrefs(f)') = Cardinality(Unrefs(f))
                         + OneIf(e.op = "unref" /\ e.f = f) - OneIf(First("unref", f))
<1> DEFINE c == <<a, b, d, e>>
<1>1. /\ c \in Seq(Calls) /\ Len(c) = 4
      /\ c[1] = a /\ c[2] = b /\ c[3] = d /\ c[4] = e
  OBVIOUS
<1>2. \A f : UnrefsIn(c, f) = IF e.op = "unref" /\ e.f = f THEN {4} ELSE {}
  <2>1. \A f : /\ a # Call("unref", f) /\ b # Call("unref", f) /\ d # Call("unref", f)
               /\ e = Call("unref", f) <=> e.op = "unref" /\ e.f = f
    BY CallEquals
  <2> HIDE DEF c
  <2> QED BY <1>1, <2>1 DEF UnrefsIn
<1>3. Cardinality({}) = 0 /\ Cardinality({4}) = 1
  BY FS_EmptySet, FS_Singleton
<1> HIDE DEF c
<1>4. Then(c)
  BY DEF c
<1>5. /\ Shifts(4) /\ todo'[1] = a /\ todo'[2] = b /\ todo'[3] = d /\ todo'[4] = e
      /\ 1 \in Positions' /\ 2 \in Positions' /\ 3 \in Positions' /\ 4 \in Positions'
  <2>1. Shifts(Len(c)) /\ \A i \in 1 .. Len(c) : i \in Positions' /\ todo'[i] = c[i]
    BY <1>1, <1>4, ThenShifts
  <2> QED BY <1>1, <2>1
<1>6. ASSUME NEW f
      PROVE  /\ Cardinality(Unrefs(f)) \in Nat
             /\ Cardinality(Unrefs(f)') = Cardinality(Unrefs(f))
                   + OneIf(e.op = "unref" /\ e.f = f) - OneIf(First("unref", f))
  <2>1. /\ Cardinality(Unrefs(f)) \in Nat
        /\ Cardinality(Unrefs(f)') =
               Cardinality(UnrefsIn(c, f)) + Cardinality(Unrefs(f)) - OneIf(First("unref", f))
    BY <1>1, <1>4, ThenCounts
  <2>2. Cardinality(UnrefsIn(c, f)) = OneIf(e.op = "unref" /\ e.f = f)
    BY <1>2, <1>3 DEF OneIf
  <2> QED BY <2>1, <2>2 DEF OneIf
<1> QED BY <1>5, <1>6

----------------------------------------------------------------------------
(* What the calls that are not made yet keep. *)

\* The calls that were pushed are about the ends of the chain, not its data.
Plain(n) == \A i \in Positions' : i <= n =>
    todo'[i].op \in {"unref", "connect_queued", "free_socket", "abort_from_http", "abort_answer"}

\* Calls keep their arguments when others are put before them.
LEMMA TodoFrame ==
  ASSUME TodoOk, NEW n \in Nat, Moves(n), todo' \in Seq(Calls),
         \A i \in Positions' : i <= n => /\ todo'[i].op = "unwatch" => todo'[i].f \in FDs
                                         /\ todo'[i].op = "connect_queued" => todo'[i].f = None
                                         /\ todo'[i].op \notin {"unwatch", "connect_queued"} => todo'[i].f \in Fetches
                                         /\ todo'[i].op \in FirstOnly => i = 1
  PROVE  TodoOk'
<1>1. ASSUME NEW i \in Positions'
      PROVE  i <= n \/ \E j \in Positions : j > 1 /\ todo'[i] = todo[j]
  BY DEF Moves
<1>2. ASSUME NEW i \in Positions'
      PROVE  /\ todo'[i].op = "unwatch" => todo'[i].f \in FDs
             /\ todo'[i].op = "connect_queued" => todo'[i].f = None
             /\ todo'[i].op \notin {"unwatch", "connect_queued"} => todo'[i].f \in Fetches
             /\ todo'[i].op \in FirstOnly => i = 1
  <2>1. CASE i <= n
    BY <2>1
  <2>2. CASE ~(i <= n)
    <3>1. PICK j \in Positions : j > 1 /\ todo'[i] = todo[j]
      BY <1>1, <2>2
    <3>2. j # 1
      BY <3>1 DEF Moves
    <3> QED BY <3>1, <3>2 DEF TodoOk
  <2> QED BY <2>1, <2>2
<1> QED BY <1>2 DEF TodoOk

\* And their order.
LEMMA OrderFrame ==
  ASSUME OrderOk, NEW n \in Nat, Moves(n), Plain(n)
  PROVE  OrderOk'
<1>1. ASSUME NEW i \in Positions', NEW j \in Positions', i < j, i > n
      PROVE  \E k, m \in Positions : k < m /\ todo'[i] = todo[k] /\ todo'[j] = todo[m]
  <2>1. i \in Nat /\ j \in Nat
    BY DEF Moves
  <2>2. j > n
    BY <1>1, <2>1
  <2>3. /\ i - n + 1 \in Positions /\ todo'[i] = todo[i - n + 1]
        /\ j - n + 1 \in Positions /\ todo'[j] = todo[j - n + 1]
    BY <1>1, <2>2 DEF Moves
  <2>4. i - n + 1 < j - n + 1
    BY <1>1, <2>1
  <2> QED BY <2>3, <2>4
<1>2. ASSUME NEW i \in Positions', NEW j \in Positions', i < j, ~(i > n)
      PROVE  todo'[i].op \notin {"data", "eof", "end_answer"}
  <2>1. i <= n
    BY <1>2 DEF Moves
  <2> QED BY <2>1 DEF Plain
<1>3. ASSUME NEW i \in Positions', NEW j \in Positions', i < j
      PROVE  /\ todo'[i].op = "data" => todo'[j].op \in {"eof", "unwatch"}
             /\ todo'[i].op = "eof" => todo'[j].op = "unwatch"
             /\ todo'[i].op = "end_answer" => todo'[j].op \in {"close_answer", "unwatch"}
  <2>1. CASE i > n
    <3>1. PICK k, m \in Positions : k < m /\ todo'[i] = todo[k] /\ todo'[j] = todo[m]
      BY <1>1, <1>3, <2>1
    <3> QED BY <3>1 DEF OrderOk
  <2>2. CASE ~(i > n)
    BY <1>2, <1>3, <2>2
  <2> QED BY <2>1, <2>2
<1> QED BY <1>3 DEF OrderOk

\* Only a pushed call is one that is made at once.
LEMMA FirstFrame ==
  ASSUME TodoOk, NEW n \in Nat, Moves(n), todo' \in Seq(Calls),
         NEW op, NEW f, op \in FirstOnly, First(op, f)'
  PROVE  1 \in Positions' /\ 1 <= n /\ todo'[1].op = op /\ todo'[1].f = f
<1>1. 1 \in Positions' /\ todo'[1].op = op /\ todo'[1].f = f
  BY EmptySeq DEF First, Is, Positions
<1>2. ASSUME 1 > n PROVE FALSE
  <2>1. n = 0
    BY <1>2
  <2>2. 2 \in Positions /\ todo'[1] = todo[2]
    BY <1>1, <2>1 DEF Moves
  <2> QED BY <1>1, <2>2 DEF TodoOk
<1> QED BY <1>1, <1>2

\* The first call that was put is the one that is made next.
LEMMA FirstPushed ==
  ASSUME todo' \in Seq(Calls), 1 \in Positions', NEW op, NEW f, todo'[1].op = op, todo'[1].f = f
  PROVE  First(op, f)'
<1>1. Len(todo') # 0
  BY DEF Positions
<1>2. todo' # <<>>
  BY <1>1
<1> QED BY <1>2 DEF First, Is

\* The ends of the file that are still to be told.
LEMMA EndAnswerFrame ==
  ASSUME TodoOk, EndAnswerOk, NEW n \in Nat, Moves(n), Plain(n), todo' \in Seq(Calls),
         \A f \in Fetches : rd'[f] \in {rd[f], None}
  PROVE  EndAnswerOk'
<1>1. \A f \in Fetches : ~First("end_answer", f)'
  <2> SUFFICES ASSUME NEW f \in Fetches, First("end_answer", f)' PROVE FALSE
    OBVIOUS
  <2>1. 1 \in Positions' /\ 1 <= n /\ todo'[1].op = "end_answer"
    BY FirstFrame DEF FirstOnly
  <2> QED BY <2>1 DEF Plain
<1>2. ASSUME NEW i \in Positions', todo'[i].op = "eof"
      PROVE  rd'[todo'[i].f] \in FDs \cup {None}
  <2>1. ~(i <= n)
    BY <1>2 DEF Plain
  <2>2. i > n
    BY <2>1 DEF Moves
  <2>3. i - n + 1 \in Positions /\ todo'[i] = todo[i - n + 1]
    BY <2>2 DEF Moves
  <2>4. rd[todo'[i].f] \in FDs \cup {None} /\ todo'[i].f \in Fetches
    BY <1>2, <2>3 DEF EndAnswerOk, TodoOk
  <2> QED BY <2>4
<1> QED BY <1>1, <1>2 DEF EndAnswerOk

\* The queries that are still to end.
LEMMA EndQueryFrame ==
  ASSUME EndQueryOk, NEW n \in Nat, Moves(n), Plain(n), KeepsAfter(n), recv' \subseteq recv
  PROVE  EndQueryOk'
<1>1. ASSUME NEW i \in Positions', NEW f, todo'[i].op = "end_query", todo'[i].f = f
      PROVE  f \notin recv' /\ After(i, "unref", f)'
  <2>1. ~(i <= n)
    BY <1>1 DEF Plain
  <2>2. i > n
    BY <2>1 DEF Moves
  <2>3. i - n + 1 \in Positions /\ todo'[i] = todo[i - n + 1]
    BY <2>2 DEF Moves
  <2>4. f \notin recv /\ After(i - n + 1, "unref", f)
    BY <1>1, <2>3 DEF EndQueryOk
  <2> QED BY <2>2, <2>4 DEF KeepsAfter
<1> QED BY <1>1 DEF EndQueryOk, After, Is

\* No abort of a query is left over: it is made as soon as it is put.
LEMMA AbortQueryFrame ==
  ASSUME TodoOk, NEW n \in Nat, Moves(n), Plain(n), todo' \in Seq(Calls)
  PROVE  AbortQueryOk'
<1> SUFFICES ASSUME NEW f \in Fetches, First("abort_query", f)' PROVE FALSE
  BY DEF AbortQueryOk
<1>1. 1 \in Positions' /\ 1 <= n /\ todo'[1].op = "abort_query"
  BY FirstFrame DEF FirstOnly
<1> QED BY <1>1 DEF Plain

\* The aborts of answers that are still to come.
LEMMA AbortAnswerRest ==
  ASSUME AbortAnswerOk, NEW n \in Nat, Moves(n), KeepsAfter(n), todo # <<>>,
         send' \subseteq send,
         \A f : First("abort_query", f) => f \notin send',
         \A i \in Positions : i > 1 /\ todo[i].op = "abort_answer" /\ todo[i].f \in recv => todo[i].f \in recv',
         NEW i \in Positions', NEW f, i > n, todo'[i].op = "abort_answer", todo'[i].f = f
  PROVE  /\ f \notin send'
         /\ f \in recv' \/ After(i, "unref", f)'
         /\ \A j \in Positions' : j > n /\ todo'[j].op = "abort_answer" /\ todo'[j].f = f => j = i
<1>1. /\ i - n + 1 \in Positions /\ i - n + 1 > 1
      /\ todo'[i] = todo[i - n + 1]
  BY DEF Moves
<1>2. f \notin send'
  BY <1>1 DEF AbortAnswerOk
<1>3. f \in recv' \/ After(i, "unref", f)'
  <2>1. f \in recv \/ After(i - n + 1, "unref", f)
    BY <1>1 DEF AbortAnswerOk
  <2> QED BY <1>1, <2>1 DEF KeepsAfter
<1>4. ASSUME NEW j \in Positions', j > n, todo'[j].op = "abort_answer", todo'[j].f = f
      PROVE  i = j
  <2>1. j - n + 1 \in Positions /\ todo'[j] = todo[j - n + 1]
    BY <1>4 DEF Moves
  <2>2. i - n + 1 = j - n + 1
    BY <1>1, <1>4, <2>1 DEF AbortAnswerOk
  <2> QED BY <2>2 DEF Moves
<1> QED BY <1>2, <1>3, <1>4

\* The aborts of answers, when none was put.
LEMMA AbortAnswerFrame ==
  ASSUME AbortAnswerOk, NEW n \in Nat, Moves(n), KeepsAfter(n), todo # <<>>,
         \A i \in Positions' : i <= n => todo'[i].op # "abort_answer",
         send' \subseteq send,
         \A f : First("abort_query", f) => f \notin send',
         \A i \in Positions : i > 1 /\ todo[i].op = "abort_answer" /\ todo[i].f \in recv => todo[i].f \in recv'
  PROVE  AbortAnswerOk'
<1>1. ASSUME NEW i \in Positions', todo'[i].op = "abort_answer"
      PROVE  i > n
  <2>1. ~(i <= n)
    BY <1>1
  <2> QED BY <2>1 DEF Moves
<1>2. ASSUME NEW i \in Positions', NEW f, todo'[i].op = "abort_answer", todo'[i].f = f
      PROVE  /\ f \notin send'
             /\ f \in recv' \/ After(i, "unref", f)'
             /\ \A j \in Positions' : todo'[j].op = "abort_answer" /\ todo'[j].f = f => j = i
  <2>1. i > n
    BY <1>1, <1>2
  <2>2. /\ f \notin send'
        /\ f \in recv' \/ After(i, "unref", f)'
        /\ \A j \in Positions' : j > n /\ todo'[j].op = "abort_answer" /\ todo'[j].f = f => j = i
    BY <1>2, <2>1, AbortAnswerRest
  <2> QED BY <1>1, <2>2
<1>3. \A i \in Positions' : todo'[i].op = "abort_answer" =>
         \/ todo'[i].f \in recv'
         \/ \E j \in Positions' : i < j /\ todo'[j].op = "unref" /\ todo'[j].f = todo'[i].f
  BY <1>2 DEF After, Is
<1>4. \A i \in Positions' : todo'[i].op = "abort_answer" => todo'[i].f \notin send'
  BY <1>2
<1>5. \A i, j \in Positions' :
         todo'[i].op = "abort_answer" /\ todo'[j].op = "abort_answer" /\ todo'[i].f = todo'[j].f => i = j
  BY <1>2
<1> QED BY <1>3, <1>4, <1>5 DEF AbortAnswerOk, After, Is

\* The descriptors that are still to be closed.
LEMMA CloseAnswerFrame ==
  ASSUME TodoOk, CloseAnswerOk, NEW n \in Nat, Moves(n), Plain(n), KeepsBefore(n), todo # <<>>,
         todo[1].op # "end_answer",
         \A f \in Fetches : First("end_query", f) => f \notin send',
         send' \subseteq send, recv' \subseteq recv,
         \A i \in Positions : i > 1 /\ todo[i].op = "close_answer" => rd'[todo[i].f] = rd[todo[i].f]
  PROVE  CloseAnswerOk'
<1>1. ASSUME NEW i \in Positions', todo'[i].op = "close_answer"
      PROVE  /\ i > n /\ i - n + 1 \in Positions /\ i - n + 1 > 1
             /\ todo'[i] = todo[i - n + 1] /\ todo'[i].f \in Fetches
  <2>1. ~(i <= n)
    BY <1>1 DEF Plain
  <2>2. i > n
    BY <2>1 DEF Moves
  <2>3. i - n + 1 \in Positions /\ i - n + 1 > 1 /\ todo'[i] = todo[i - n + 1]
    BY <2>2 DEF Moves
  <2> QED BY <1>1, <2>2, <2>3 DEF TodoOk
<1>2. \A f : ~First("end_answer", f)
  BY DEF First, Is
<1>3. ASSUME NEW i \in Positions', NEW f, todo'[i].op = "close_answer", todo'[i].f = f
      PROVE  /\ rd'[f] \in FDs /\ f \notin recv'
             /\ f \notin send' \/ Before(i, "end_answer", f)' \/ Before(i, "end_query", f)'
  <2>1. /\ i > n /\ i - n + 1 \in Positions /\ i - n + 1 > 1
        /\ todo'[i] = todo[i - n + 1] /\ todo'[i].f \in Fetches
    BY <1>1, <1>3
  <2>2. /\ rd[f] \in FDs /\ f \notin recv
        /\ f \notin send \/ Before(i - n + 1, "end_answer", f) \/ Before(i - n + 1, "end_query", f)
    BY <1>2, <1>3, <2>1 DEF CloseAnswerOk
  <2>3. rd'[f] = rd[f]
    BY <1>3, <2>1
  <2> QED BY <1>2, <1>3, <2>1, <2>2, <2>3 DEF KeepsBefore
<1>4. ASSUME NEW i \in Positions', NEW j \in Positions',
             todo'[i].op = "close_answer", todo'[j].op = "close_answer", todo'[i].f = todo'[j].f
      PROVE  i = j
  <2>1. i - n + 1 = j - n + 1
    BY <1>1, <1>4 DEF CloseAnswerOk
  <2> QED BY <2>1 DEF Moves
<1>5. \A i \in Positions' : todo'[i].op = "close_answer" =>
         \/ todo'[i].f \notin send'
         \/ \E j \in Positions' : j < i /\ todo'[j].op = "end_answer" /\ todo'[j].f = todo'[i].f
         \/ \E j \in Positions' : j < i /\ todo'[j].op = "end_query" /\ todo'[j].f = todo'[i].f
  BY <1>3 DEF Before, Is
<1>6. \A i \in Positions' : todo'[i].op = "close_answer" =>
         rd'[todo'[i].f] \in FDs /\ todo'[i].f \notin recv'
  BY <1>3
<1> QED BY <1>4, <1>5, <1>6 DEF CloseAnswerOk, Before, Is

\* The watch that is still to be given up.
LEMMA UnwatchFrame ==
  ASSUME TodoOk, UnwatchOk, NEW n \in Nat, Moves(n), Plain(n), KeepsBefore(n), todo # <<>>,
         \A fd \in FDs : socket[fd] # None \/ fd \in closed => socket'[fd] # None \/ fd \in closed',
         \A fd \in FDs : watch'[fd].read \in {watch[fd].read, None},
         broken \subseteq broken',
         \A f \in Fetches, op \in {"eof", "end_answer", "close_answer"} :
            First(op, f) => \A fd \in FDs : watch'[fd].read # f
  PROVE  UnwatchOk'
<1>1. ASSUME NEW i \in Positions', todo'[i].op = "unwatch"
      PROVE  /\ i > n /\ i - n + 1 \in Positions
             /\ todo'[i] = todo[i - n + 1] /\ todo'[i].f \in FDs
  <2>1. ~(i <= n)
    BY <1>1 DEF Plain
  <2>2. i > n
    BY <2>1 DEF Moves
  <2>3. i - n + 1 \in Positions /\ todo'[i] = todo[i - n + 1]
    BY <2>2 DEF Moves
  <2> QED BY <1>1, <2>2, <2>3 DEF TodoOk
<1>2. ASSUME NEW i \in Positions', todo'[i].op = "unwatch"
      PROVE  socket'[todo'[i].f] # None \/ todo'[i].f \in closed'
  BY <1>1, <1>2 DEF UnwatchOk
<1>3. ASSUME NEW i \in Positions', NEW f \in Fetches,
             todo'[i].op = "unwatch", watch'[todo'[i].f].read = f
      PROVE  \/ f \in broken'
             \/ Before(i, "eof", f)' \/ Before(i, "end_answer", f)' \/ Before(i, "close_answer", f)'
  <2>1. /\ i > n /\ i - n + 1 \in Positions
        /\ todo'[i] = todo[i - n + 1] /\ todo'[i].f \in FDs
    BY <1>1, <1>3
  <2>2. watch[todo'[i].f].read = f
    BY <1>3, <2>1, NoneAssumption
  <2>3. \/ f \in broken
        \/ Before(i - n + 1, "eof", f) \/ Before(i - n + 1, "end_answer", f)
        \/ Before(i - n + 1, "close_answer", f)
    BY <1>3, <2>1, <2>2 DEF UnwatchOk
  <2>4. ~First("eof", f) /\ ~First("end_answer", f) /\ ~First("close_answer", f)
    BY <1>3, <2>1
  <2> QED BY <2>1, <2>3, <2>4 DEF KeepsBefore
<1> QED BY <1>2, <1>3 DEF UnwatchOk

\* The queue is left alone.
LEMMA QueuedFrame ==
  ASSUME UNCHANGED waiting
  PROVE  Queued' = Queued
  BY DEF Queued

----------------------------------------------------------------------------
(* A call that finds nothing to do. *)

\* The end of the file of an answer that the data aborted, the end of a query that
\* was aborted, the abort of a branch that is closed: nothing happens, and the
\* invariant does not mind.
LEMMA ReturnsOk ==
  ASSUME ChainInv, todo # <<>>, Then(<<>>), UNCHANGED <<conns, ios, pool, outcome, broken>>,
         todo[1].op \in {"eof", "end_query", "abort_query", "abort_answer", "connect_queued", "data"},
         todo[1].op = "eof" => rd[todo[1].f] = None,
         todo[1].op = "end_query" => todo[1].f \notin send,
         todo[1].op = "abort_query" => todo[1].f \notin send,
         todo[1].op = "abort_answer" => todo[1].f \notin recv
  PROVE  ChainInv'
<1>1. /\ TypeOk /\ TodoOk /\ OrderOk /\ RefsOk /\ EndAnswerOk /\ EndQueryOk
      /\ AbortQueryOk /\ AbortAnswerOk /\ CloseAnswerOk /\ AbortHttpOk /\ UnwatchOk
      /\ BranchesOk /\ OutcomeOk /\ LinksOk /\ SocketsOk /\ WatchesOk /\ PoolOk
  BY DEF ChainInv
<1>2. /\ Shifts(0)
      /\ \A f : /\ Cardinality(Unrefs(f)) \in Nat
                /\ Cardinality(Unrefs(f)') = Cardinality(Unrefs(f)) - OneIf(First("unref", f))
  BY <1>1, Push0
<1>3. Moves(0) /\ KeepsAfter(0) /\ KeepsBefore(0) /\ KeepsPending /\ todo' \in Seq(Calls)
  BY <1>2 DEF Shifts
<1>4. UNCHANGED <<started, ref, send, recv, wr, rd, socket, watch, closed, resolving, waiting,
                  active, outcome, broken>>
  BY DEF conns, ios, pool
<1>5. \A i \in Positions' : todo'[i].op \notin FirstOnly
  BY <1>1, <1>3 DEF Moves, TodoOk
<1>6. \A op, f : op \in FirstOnly => ~First(op, f)'
  BY <1>3, <1>5, EmptySeq DEF First, Is, Positions
<1>7. \A f : First("unref", f) = FALSE /\ First("close_answer", f) = FALSE /\ First("end_answer", f) = FALSE
  BY DEF First, Is
<1>10. TypeOk'
  BY <1>1, <1>3, <1>4 DEF TypeOk, Calls
<1>11. TodoOk'
  BY <1>1, <1>3, <1>5 DEF TodoOk, Moves
<1>12. OrderOk'
  <2>1. ASSUME NEW i \in Positions', NEW j \in Positions', i < j
        PROVE  /\ i + 1 \in Positions /\ j + 1 \in Positions /\ i + 1 < j + 1
               /\ todo'[i] = todo[i + 1] /\ todo'[j] = todo[j + 1]
    BY <1>3, <2>1 DEF Moves
  <2> QED BY <1>1, <2>1 DEF OrderOk
<1>13. RefsOk'
  BY <1>1, <1>2, <1>4, <1>7 DEF RefsOk, OneIf
<1>14. EndAnswerOk'
  BY <1>1, <1>3, <1>4, <1>6 DEF EndAnswerOk, Moves, FirstOnly
<1>15. EndQueryOk'
  BY <1>1, <1>3, <1>4 DEF EndQueryOk, Moves, KeepsAfter
<1>16. AbortQueryOk'
  BY <1>6 DEF AbortQueryOk, FirstOnly
<1>17. AbortAnswerOk'
  BY <1>1, <1>3, <1>4 DEF AbortAnswerOk, Moves, KeepsAfter, First, Is
<1>18. CloseAnswerOk'
  BY SMTT(20), <1>1, <1>3, <1>4, <1>7 DEF CloseAnswerOk, Moves, KeepsBefore, First, Is
<1>19. AbortHttpOk'
  BY <1>6 DEF AbortHttpOk, FirstOnly
<1>20. UnwatchOk'
  <2>1. \A i \in Positions' : todo'[i].op = "unwatch" => socket[todo'[i].f] # None \/ todo'[i].f \in closed
    BY <1>1, <1>3 DEF UnwatchOk, Moves
  <2>2. ASSUME NEW i \in Positions', NEW f \in Fetches,
               todo'[i].op = "unwatch", watch[todo'[i].f].read = f
        PROVE  f \in broken \/ Before(i, "eof", f)' \/ Before(i, "end_answer", f)' \/ Before(i, "close_answer", f)'
    <3>1. i + 1 \in Positions /\ todo'[i] = todo[i + 1]
      BY <1>3 DEF Moves
    <3>2. \/ f \in broken
          \/ Before(i + 1, "eof", f) \/ Before(i + 1, "end_answer", f) \/ Before(i + 1, "close_answer", f)
      BY <1>1, <2>2, <3>1 DEF UnwatchOk
    <3>3. ~First("eof", f)
      <4>1. rd[f] = todo[i + 1].f /\ rd[f] # None
        BY <1>1, <2>2, <3>1, NoneAssumption DEF WatchesOk, TodoOk
      <4> QED BY <4>1 DEF First, Is
    <3> QED BY <1>3, <1>7, <3>2, <3>3 DEF KeepsBefore, Moves
  <2> QED BY <1>4, <2>1, <2>2 DEF UnwatchOk
<1>21. BranchesOk'
  BY <1>1, <1>3, <1>4 DEF BranchesOk, KeepsPending, First, Is
<1>22. OutcomeOk'
  BY <1>1, <1>4 DEF OutcomeOk
<1>23. LinksOk'
  BY <1>1, <1>3, <1>4, <1>7 DEF LinksOk, KeepsPending
<1>24. SocketsOk'
  BY <1>1, <1>4 DEF SocketsOk
<1>25. WatchesOk'
  BY <1>1, <1>4 DEF WatchesOk
<1>26. PoolOk'
  <2>1. Queued' = Queued
    BY <1>4 DEF Queued
  <2>2. \A f : ~First("free_socket", f)
    BY DEF First, Is
  <2>3. \A f : ~First("free_socket", f)'
    BY <1>6 DEF FirstOnly
  <2> QED BY <1>1, <1>4, <2>1, <2>2, <2>3 DEF PoolOk
<1> QED BY <1>10, <1>11, <1>12, <1>13, <1>14, <1>15, <1>16, <1>17, <1>18, <1>19, <1>20, <1>21,
   <1>22, <1>23, <1>24, <1>25, <1>26 DEF ChainInv

----------------------------------------------------------------------------
(* The calls. *)

\* The parts of the invariant.
LEMMA InvParts ==
  ASSUME ChainInv
  PROVE  /\ TypeOk /\ TodoOk /\ OrderOk /\ RefsOk /\ EndAnswerOk /\ EndQueryOk
         /\ AbortQueryOk /\ AbortAnswerOk /\ CloseAnswerOk /\ AbortHttpOk /\ UnwatchOk
         /\ BranchesOk /\ OutcomeOk /\ LinksOk /\ SocketsOk /\ WatchesOk /\ PoolOk
  BY DEF ChainInv

\* The call that is made, and its argument.
LEMMA DoingIs ==
  ASSUME TodoOk, NEW op, Doing(op)
  PROVE  /\ todo # <<>> /\ todo[1].op = op /\ This = todo[1].f /\ 1 \in Positions
         /\ \A q, g : First(q, g) <=> q = op /\ g = This
         /\ op = "unwatch" => This \in FDs
         /\ op \notin {"unwatch", "connect_queued"} => This \in Fetches
<1>1. todo # <<>> /\ todo[1] = Head(todo) /\ 1 \in Positions
  BY TodoLength DEF Doing, Positions
<1>2. todo[1].op = op /\ This = todo[1].f
  BY <1>1 DEF Doing, This
<1>3. \A q, g : First(q, g) <=> q = op /\ g = This
  BY <1>1, <1>2 DEF First, Is
<1> QED BY <1>1, <1>2, <1>3 DEF TodoOk

\* What is left of the watches (a_IOwatch_remove_fd).
LEMMA UnwatchIs ==
  ASSUME TypeOk, NEW fd, NEW read \in BOOLEAN, NEW write \in BOOLEAN, Unwatch(fd, read, write)
  PROVE  /\ watch' \in [FDs -> [read : Fetches \cup {None}, write : Fetches \cup {None}]]
         /\ \A g \in FDs : g # fd => watch'[g] = watch[g]
         /\ fd \in FDs =>
               /\ watch'[fd].read = IF read THEN None ELSE watch[fd].read
               /\ watch'[fd].write = IF write THEN None ELSE watch[fd].write
<1>1. CASE fd \in FDs
  <2>1. watch' = [watch EXCEPT ![fd] = [read |-> IF read THEN None ELSE watch[fd].read,
                                        write |-> IF write THEN None ELSE watch[fd].write]]
    BY <1>1 DEF Unwatch, Opens
  <2>2. watch[fd].read \in Fetches \cup {None} /\ watch[fd].write \in Fetches \cup {None}
    BY <1>1 DEF TypeOk
  <2> QED BY <1>1, <2>1, <2>2 DEF TypeOk
<1>2. CASE fd \notin FDs
  BY <1>2 DEF Unwatch, Opens, TypeOk
<1> QED BY <1>1, <1>2

\* IO_close_fd: the descriptor is free and not watched.
LEMMA CloseFdIs ==
  ASSUME TypeOk, NEW fd, CloseFd(fd)
  PROVE  /\ socket' \in [FDs -> Fetches \cup {None}]
         /\ \A g \in FDs : socket'[g] = IF g = fd THEN None ELSE socket[g]
         /\ watch' \in [FDs -> [read : Fetches \cup {None}, write : Fetches \cup {None}]]
         /\ \A g \in FDs : /\ watch'[g].read = IF g = fd THEN None ELSE watch[g].read
                           /\ watch'[g].write = IF g = fd THEN None ELSE watch[g].write
         /\ closed' = closed \cup (FDs \cap {fd}) /\ closed' \subseteq FDs
<1>1. Unwatch(fd, TRUE, TRUE)
  BY DEF CloseFd
<1>2. /\ watch' \in [FDs -> [read : Fetches \cup {None}, write : Fetches \cup {None}]]
      /\ \A g \in FDs : g # fd => watch'[g] = watch[g]
      /\ fd \in FDs => watch'[fd].read = None /\ watch'[fd].write = None
  BY <1>1, UnwatchIs
<1>3. \A g \in FDs : /\ watch'[g].read = IF g = fd THEN None ELSE watch[g].read
                     /\ watch'[g].write = IF g = fd THEN None ELSE watch[g].write
  BY <1>2
<1>4. socket' = IF fd \in FDs THEN [socket EXCEPT ![fd] = None] ELSE socket
  BY DEF CloseFd, Opens
<1>5. /\ socket' \in [FDs -> Fetches \cup {None}]
      /\ \A g \in FDs : socket'[g] = IF g = fd THEN None ELSE socket[g]
  BY <1>4 DEF TypeOk
<1>6. closed' = closed \cup (FDs \cap {fd}) /\ closed' \subseteq FDs
  BY DEF CloseFd, TypeOk
<1> QED BY <1>2, <1>3, <1>5, <1>6

\* Capi_conn_unref: a reference is given back that a branch had left.
LEMMA UnrefStep ==
  ASSUME ChainInv, Capi_conn_unref, NEW f, f = This
  PROVE  ChainInv'
<1>1. /\ TypeOk /\ TodoOk /\ OrderOk /\ RefsOk /\ EndAnswerOk /\ EndQueryOk
      /\ AbortQueryOk /\ AbortAnswerOk /\ CloseAnswerOk /\ AbortHttpOk /\ UnwatchOk
      /\ BranchesOk /\ OutcomeOk /\ LinksOk /\ SocketsOk /\ WatchesOk /\ PoolOk
  BY InvParts
<1>2. /\ todo # <<>> /\ todo[1].op = "unref" /\ f = todo[1].f /\ 1 \in Positions
      /\ \A q, g : First(q, g) <=> q = "unref" /\ g = f
      /\ f \in Fetches
  BY <1>1, DoingIs DEF Capi_conn_unref
<1>3. /\ Shifts(0)
      /\ \A g : /\ Cardinality(Unrefs(g)) \in Nat
                /\ Cardinality(Unrefs(g)') = Cardinality(Unrefs(g)) - OneIf(First("unref", g))
  BY <1>1, <1>2, Push0 DEF Capi_conn_unref
<1>4. Moves(0) /\ KeepsAfter(0) /\ KeepsBefore(0) /\ KeepsPending /\ todo' \in Seq(Calls)
  BY <1>3 DEF Shifts
<1>5. /\ ref' = [ref EXCEPT ![f] = @ - 1]
      /\ UNCHANGED <<started, send, recv, wr, rd, socket, watch, closed, resolving, waiting,
                     active, outcome, broken>>
  BY DEF Capi_conn_unref, ios, pool
<1>6. Plain(0) /\ \A i \in Positions' : ~(i <= 0)
  BY <1>4 DEF Plain, Moves
<1>7. \A op, g : op \in FirstOnly => ~First(op, g)'
  BY <1>1, <1>4, FirstFrame
<1>10. TypeOk' /\ RefsOk'
  <2>2. ref[f] >= 1
    <3>1. Unrefs(f) # {} /\ IsFiniteSet(Unrefs(f))
      <4>1. 1 \in Unrefs(f)
        BY <1>2 DEF Unrefs, Is
      <4>2. Len(todo) \in Nat
        BY <1>1, <1>2, TodoLength
      <4>3. IsFiniteSet(1 .. Len(todo))
        BY <4>2, FS_Interval
      <4> QED BY <4>1, <4>3, FS_Subset DEF Unrefs, Positions
    <3>2. Cardinality(Unrefs(f)) # 0
      BY <3>1, FS_EmptySet
    <3> QED BY <1>1, <1>2, <1>3, <3>2 DEF RefsOk
  <2>3. ref'[f] = ref[f] - 1 /\ \A g \in Fetches : g # f => ref'[g] = ref[g]
    BY <1>1, <1>2, <1>5 DEF TypeOk
  <2>4. ref' \in [Fetches -> 0 .. 2]
    BY <1>1, <1>2, <1>5, <2>2 DEF TypeOk
  <2>5. RefsOk'
    <3> SUFFICES ASSUME NEW g \in Fetches
                 PROVE  ref'[g] = (IF g \in send' THEN 1 ELSE 0) + (IF g \in recv' THEN 1 ELSE 0)
                                     + Cardinality(Unrefs(g)')
      BY DEF RefsOk
    <3>1. /\ Cardinality(Unrefs(g)) \in Nat
          /\ Cardinality(Unrefs(g)') = Cardinality(Unrefs(g)) - OneIf(First("unref", g))
      BY <1>3
    <3>2. ref[g] = (IF g \in send THEN 1 ELSE 0) + (IF g \in recv THEN 1 ELSE 0)
                      + Cardinality(Unrefs(g))
      BY <1>1 DEF RefsOk
    <3>3. CASE g = f
      BY <1>2, <1>5, <2>3, <3>1, <3>2, <3>3 DEF OneIf
    <3>4. CASE g # f
      BY <1>2, <1>5, <2>3, <3>1, <3>2, <3>4 DEF OneIf
    <3> QED BY <3>3, <3>4
  <2> QED BY <1>1, <1>4, <1>5, <2>4, <2>5 DEF TypeOk, Calls
<1>11. TodoOk'
  BY <1>1, <1>4, <1>6, TodoFrame
<1>12. OrderOk'
  BY <1>1, <1>4, <1>6, OrderFrame
<1>14. EndAnswerOk'
  BY <1>1, <1>4, <1>5, <1>6, EndAnswerFrame
<1>15. EndQueryOk'
  BY <1>1, <1>4, <1>5, <1>6, EndQueryFrame
<1>16. AbortQueryOk'
  BY <1>7 DEF AbortQueryOk, FirstOnly
<1>17. AbortAnswerOk'
  BY <1>1, <1>2, <1>4, <1>5, <1>6, AbortAnswerFrame
<1>18. CloseAnswerOk'
  BY <1>1, <1>2, <1>4, <1>5, <1>6, CloseAnswerFrame
<1>19. AbortHttpOk'
  BY <1>7 DEF AbortHttpOk, FirstOnly
<1>20. UnwatchOk'
  BY <1>1, <1>2, <1>4, <1>5, <1>6, UnwatchFrame
<1>21. BranchesOk'
  BY <1>1, <1>2, <1>4, <1>5 DEF BranchesOk, KeepsPending
<1>22. OutcomeOk'
  BY <1>1, <1>5 DEF OutcomeOk
<1>23. LinksOk'
  BY <1>1, <1>2, <1>4, <1>5 DEF LinksOk, KeepsPending
<1>24. SocketsOk' /\ WatchesOk'
  BY <1>1, <1>5 DEF SocketsOk, WatchesOk
<1>25. PoolOk'
  <2>1. \A g : ~First("free_socket", g) /\ ~First("free_socket", g)'
    BY <1>2, <1>7 DEF FirstOnly
  <2> QED BY <1>1, <1>5, <2>1, QueuedFrame DEF PoolOk
<1> QED BY <1>10, <1>11, <1>12, <1>14, <1>15, <1>16, <1>17, <1>18, <1>19, <1>20, <1>21,
   <1>22, <1>23, <1>24, <1>25 DEF ChainInv

\* The end of the answer branch closes the descriptor of the fetch, which nobody
\* else has.
LEMMA CloseAnswerStep ==
  ASSUME ChainInv, CloseAnswer, NEW f, f = This
  PROVE  ChainInv'
<1> DEFINE fd == rd[f]
<1>1. /\ TypeOk /\ TodoOk /\ OrderOk /\ RefsOk /\ EndAnswerOk /\ EndQueryOk
      /\ AbortQueryOk /\ AbortAnswerOk /\ CloseAnswerOk /\ AbortHttpOk /\ UnwatchOk
      /\ BranchesOk /\ OutcomeOk /\ LinksOk /\ SocketsOk /\ WatchesOk /\ PoolOk
  BY InvParts
<1>2. /\ todo # <<>> /\ todo[1].op = "close_answer" /\ f = todo[1].f /\ 1 \in Positions
      /\ \A q, g : First(q, g) <=> q = "close_answer" /\ g = f
      /\ f \in Fetches
  BY <1>1, DoingIs DEF CloseAnswer
<1>3. /\ Shifts(0)
      /\ \A g : /\ Cardinality(Unrefs(g)) \in Nat
                /\ Cardinality(Unrefs(g)') = Cardinality(Unrefs(g)) - OneIf(First("unref", g))
  BY <1>1, <1>2, Push0 DEF CloseAnswer
<1>4. Moves(0) /\ KeepsAfter(0) /\ KeepsBefore(0) /\ KeepsPending /\ todo' \in Seq(Calls)
  BY <1>3 DEF Shifts
<1>5. /\ rd' = [rd EXCEPT ![f] = None]
      /\ UNCHANGED <<started, ref, send, recv, wr, resolving, waiting, active, outcome, broken>>
  BY DEF CloseAnswer, conns, pool
<1>6. CloseFd(fd)
  BY DEF CloseAnswer
<1>7. /\ socket' \in [FDs -> Fetches \cup {None}]
      /\ \A g \in FDs : socket'[g] = IF g = fd THEN None ELSE socket[g]
      /\ watch' \in [FDs -> [read : Fetches \cup {None}, write : Fetches \cup {None}]]
      /\ \A g \in FDs : /\ watch'[g].read = IF g = fd THEN None ELSE watch[g].read
                        /\ watch'[g].write = IF g = fd THEN None ELSE watch[g].write
      /\ closed' = closed \cup (FDs \cap {fd}) /\ closed' \subseteq FDs
  BY <1>1, <1>6, CloseFdIs
<1>8. /\ \A g \in Fetches : rd'[g] = IF g = f THEN None ELSE rd[g]
      /\ rd' \in [Fetches -> FDs \cup {Unset, None}]
  BY <1>1, <1>2, <1>5 DEF TypeOk
<1>9. /\ fd \in FDs
      /\ f \notin recv /\ f \notin send
  <2>1. ~First("end_answer", f)
    BY <1>2
  <2>2. ~Before(1, "end_answer", f) /\ ~Before(1, "end_query", f)
    BY <1>4 DEF Before, Moves
  <2> QED BY <1>1, <1>2, <2>1, <2>2 DEF CloseAnswerOk
<1> HIDE DEF fd
<1>10. Plain(0) /\ \A i \in Positions' : ~(i <= 0)
  BY <1>4 DEF Plain, Moves
<1>11. \A op, g : op \in FirstOnly => ~First(op, g)'
  BY <1>1, <1>4, FirstFrame
<1>12. TypeOk'
  BY <1>1, <1>4, <1>5, <1>7, <1>8 DEF TypeOk, Calls
<1>13. RefsOk'
  BY <1>1, <1>2, <1>3, <1>5 DEF RefsOk, OneIf
<1>14. TodoOk'
  BY <1>1, <1>4, <1>10, TodoFrame
<1>15. OrderOk'
  BY <1>1, <1>4, <1>10, OrderFrame
<1>16. EndAnswerOk'
  BY <1>1, <1>4, <1>8, <1>10, EndAnswerFrame
<1>17. EndQueryOk'
  BY <1>1, <1>4, <1>5, <1>10, EndQueryFrame
<1>18. AbortQueryOk' /\ AbortHttpOk'
  BY <1>11 DEF AbortQueryOk, AbortHttpOk, FirstOnly
<1>19. AbortAnswerOk'
  BY <1>1, <1>2, <1>4, <1>5, <1>10, AbortAnswerFrame
<1>20. CloseAnswerOk'
  <2>1. ASSUME NEW i \in Positions, i > 1, todo[i].op = "close_answer"
        PROVE  rd'[todo[i].f] = rd[todo[i].f]
    <3>1. todo[i].f # f /\ todo[i].f \in Fetches
      BY <1>1, <1>2, <2>1 DEF CloseAnswerOk, TodoOk
    <3> QED BY <1>8, <3>1
  <2> QED BY <1>1, <1>2, <1>4, <1>5, <1>10, <2>1, CloseAnswerFrame
<1>21. UnwatchOk'
  <2>1. \A g \in FDs : socket[g] # None \/ g \in closed => socket'[g] # None \/ g \in closed'
    BY <1>7
  <2>2. \A g \in FDs : watch'[g].read \in {watch[g].read, None}
    BY <1>7
  <2>3. \A g \in FDs : watch'[g].read # f
    <3> SUFFICES ASSUME NEW g \in FDs, watch'[g].read = f PROVE FALSE
      OBVIOUS
    <3>1. g # fd /\ watch[g].read = f
      BY <1>2, <1>7, NoneAssumption
    <3> QED BY <1>1, <1>2, <3>1, NoneAssumption DEF WatchesOk, fd
  <2> QED BY <1>1, <1>2, <1>4, <1>5, <1>10, <2>1, <2>2, <2>3, UnwatchFrame
<1>22. BranchesOk'
  BY <1>1, <1>2, <1>4, <1>5 DEF BranchesOk, KeepsPending
<1>23. OutcomeOk'
  BY <1>1, <1>5 DEF OutcomeOk
<1>24. LinksOk'
  <2>1. \A g \in Fetches : Pending("close_answer", g) /\ g # f => Pending("close_answer", g)'
    BY <1>2, <1>4 DEF KeepsPending
  <2> QED BY <1>1, <1>5, <1>8, <1>9, <2>1 DEF LinksOk, TypeOk
<1>25. SocketsOk'
  <2>1. \A g \in Fetches : rd[g] = fd => g \notin send
    BY <1>1, <1>2, <1>9, NoneAssumption DEF SocketsOk, fd
  <2>2. \A g \in FDs : g # fd => socket[g] # f
    BY <1>1, <1>2, NoneAssumption DEF SocketsOk, fd
  <2> QED BY <1>1, <1>5, <1>7, <1>8, <1>9, <2>1, <2>2, NoneAssumption DEF SocketsOk, TypeOk
<1>26. WatchesOk'
  <2>1. \A g \in Fetches : rd[g] = fd => g \notin send
    BY <1>1, <1>2, <1>9, NoneAssumption DEF SocketsOk, fd
  <2>2. \A g \in FDs : g # fd => watch[g].read # f
    BY <1>1, <1>2, NoneAssumption DEF WatchesOk, fd
  <2> QED BY <1>1, <1>5, <1>7, <1>8, <1>9, <2>1, <2>2, NoneAssumption DEF WatchesOk, TypeOk
<1>27. PoolOk'
  <2>1. \A g : ~First("free_socket", g) /\ ~First("free_socket", g)'
    BY <1>2, <1>11 DEF FirstOnly
  <2> QED BY <1>1, <1>5, <2>1, QueuedFrame DEF PoolOk
<1> QED BY <1>12, <1>13, <1>14, <1>15, <1>16, <1>17, <1>18, <1>19, <1>20, <1>21,
   <1>22, <1>23, <1>24, <1>25, <1>26, <1>27 DEF ChainInv

\* Aborting the query closes the descriptor, while the end of the answer still
\* names it: the descriptor is not open, nor reused, when it is closed again.
LEMMA AbortQueryStep ==
  ASSUME ChainInv, AbortQuery, NEW f, f = This
  PROVE  ChainInv'
<1> DEFINE fd == wr[f]
<1>1. /\ TypeOk /\ TodoOk /\ OrderOk /\ RefsOk /\ EndAnswerOk /\ EndQueryOk
      /\ AbortQueryOk /\ AbortAnswerOk /\ CloseAnswerOk /\ AbortHttpOk /\ UnwatchOk
      /\ BranchesOk /\ OutcomeOk /\ LinksOk /\ SocketsOk /\ WatchesOk /\ PoolOk
  BY InvParts
<1>2. /\ todo # <<>> /\ todo[1].op = "abort_query" /\ f = todo[1].f /\ 1 \in Positions
      /\ \A q, g : First(q, g) <=> q = "abort_query" /\ g = f
      /\ f \in Fetches
  BY <1>1, DoingIs DEF AbortQuery
<1>a. CASE f \notin send
  <2>1. Then(<<>>) /\ UNCHANGED <<conns, ios, pool, outcome, broken>>
    BY <1>a DEF AbortQuery, conns, ios
  <2> QED BY <1>2, <1>a, <2>1, ReturnsOk
<1>b. CASE f \in send
<2>1. /\ Call("free_socket", f) \in Calls /\ Call("unref", f) \in Calls
      /\ Then(<<Call("free_socket", f), Call("unref", f)>>)
      /\ send' = send \ {f}
      /\ CloseFd(fd)
      /\ wr' = [wr EXCEPT ![f] = None]
      /\ UNCHANGED <<started, ref, recv, rd, resolving, waiting, active, outcome, broken>>
  BY <1>2, <1>b DEF AbortQuery, pool, Calls, Call, Ops
<2>2. /\ Shifts(2)
      /\ todo'[1].op = "free_socket" /\ todo'[1].f = f
      /\ todo'[2].op = "unref" /\ todo'[2].f = f
      /\ 1 \in Positions' /\ 2 \in Positions'
      /\ \A g : /\ Cardinality(Unrefs(g)) \in Nat
                /\ Cardinality(Unrefs(g)') = Cardinality(Unrefs(g)) + OneIf(f = g) - OneIf(First("unref", g))
  BY <1>1, <1>2, <2>1, Push2, CallFields
<2>3. Moves(2) /\ KeepsAfter(2) /\ KeepsBefore(2) /\ KeepsPending /\ todo' \in Seq(Calls)
  BY <2>2 DEF Shifts
<2>4. /\ socket' \in [FDs -> Fetches \cup {None}]
      /\ \A g \in FDs : socket'[g] = IF g = fd THEN None ELSE socket[g]
      /\ watch' \in [FDs -> [read : Fetches \cup {None}, write : Fetches \cup {None}]]
      /\ \A g \in FDs : /\ watch'[g].read = IF g = fd THEN None ELSE watch[g].read
                        /\ watch'[g].write = IF g = fd THEN None ELSE watch[g].write
      /\ closed' = closed \cup (FDs \cap {fd}) /\ closed' \subseteq FDs
  BY <1>1, <2>1, CloseFdIs
<2>5. /\ \A g \in Fetches : wr'[g] = IF g = f THEN None ELSE wr[g]
      /\ wr' \in [Fetches -> FDs \cup {Unset, None}]
  BY <1>1, <1>2, <2>1 DEF TypeOk
<2>6. fd = rd[f] /\ fd # None
  BY <1>1, <1>2, <1>b DEF LinksOk
<2> HIDE DEF fd
<2>7. \A i \in Positions' : i <= 2 => i = 1 \/ i = 2
  BY <2>3 DEF Moves
<2>8. Plain(2)
  BY <2>2, <2>7 DEF Plain
<2>9. \A op, g : op \in FirstOnly /\ First(op, g)' => op = "free_socket" /\ g = f
  <3> SUFFICES ASSUME NEW op, NEW g, op \in FirstOnly, First(op, g)'
               PROVE  op = "free_socket" /\ g = f
    OBVIOUS
  <3>1. todo'[1].op = op /\ todo'[1].f = g
    BY <1>1, <2>3, FirstFrame
  <3> QED BY <2>2, <3>1
<2>10. /\ 2 \in Positions /\ Is(2, "abort_answer", f)
  BY <1>1, <1>2 DEF AbortQueryOk
<2>12. TypeOk'
  BY <1>1, <1>2, <2>1, <2>3, <2>4, <2>5 DEF TypeOk, Calls
<2>13. RefsOk'
  <3> SUFFICES ASSUME NEW g \in Fetches
               PROVE  ref'[g] = (IF g \in send' THEN 1 ELSE 0) + (IF g \in recv' THEN 1 ELSE 0)
                                   + Cardinality(Unrefs(g)')
    BY DEF RefsOk
  <3>1. /\ Cardinality(Unrefs(g)) \in Nat
        /\ Cardinality(Unrefs(g)') = Cardinality(Unrefs(g)) + OneIf(f = g) - OneIf(First("unref", g))
    BY <2>2
  <3>2. ref[g] = (IF g \in send THEN 1 ELSE 0) + (IF g \in recv THEN 1 ELSE 0)
                    + Cardinality(Unrefs(g))
    BY <1>1 DEF RefsOk
  <3>3. OneIf(First("unref", g)) = 0 /\ OneIf(f = g) = IF g = f THEN 1 ELSE 0
    BY <1>2 DEF OneIf
  <3> QED BY <1>b, <2>1, <3>1, <3>2, <3>3
<2>14. TodoOk'
  BY <1>1, <1>2, <2>2, <2>3, <2>7, TodoFrame DEF FirstOnly
<2>15. OrderOk'
  BY <1>1, <2>3, <2>8, OrderFrame
<2>16. EndAnswerOk'
  BY <1>1, <2>1, <2>3, <2>8, EndAnswerFrame
<2>17. EndQueryOk'
  BY <1>1, <2>1, <2>3, <2>8, EndQueryFrame
<2>18. AbortQueryOk' /\ AbortHttpOk'
  BY <2>9 DEF AbortQueryOk, AbortHttpOk, FirstOnly
<2>19. AbortAnswerOk'
  BY <1>1, <1>2, <2>1, <2>2, <2>3, <2>7, AbortAnswerFrame
<2>20. CloseAnswerOk'
  BY <1>1, <1>2, <2>1, <2>3, <2>8, CloseAnswerFrame
<2>21. UnwatchOk'
  <3>1. \A g \in FDs : socket[g] # None \/ g \in closed => socket'[g] # None \/ g \in closed'
    BY <2>4
  <3>2. \A g \in FDs : watch'[g].read \in {watch[g].read, None}
    BY <2>4
  <3> QED BY <1>1, <1>2, <2>1, <2>3, <2>8, <3>1, <3>2, UnwatchFrame
<2>22. BranchesOk'
  <3>1. \A g \in recv : Pending("abort_answer", g) => Pending("abort_answer", g)'
    BY <1>2, <2>3 DEF KeepsPending
  <3>2. Pending("abort_answer", f)
    BY <2>10 DEF Pending
  <3>3. \A g : Pending("end_query", g) => Pending("end_query", g)'
    BY <1>2, <2>3 DEF KeepsPending
  <3> QED BY <1>1, <2>1, <3>1, <3>2, <3>3 DEF BranchesOk
<2>23. OutcomeOk'
  BY <1>1, <2>1 DEF OutcomeOk
<2>24. LinksOk'
  <3>1. \A g : Pending("close_answer", g) => Pending("close_answer", g)'
    BY <1>2, <2>3 DEF KeepsPending
  <3> QED BY <1>1, <2>1, <2>5, <3>1 DEF LinksOk
<2>25. SocketsOk'
  <3>1. \A g \in Fetches : rd[g] = fd /\ fd \in FDs => g \notin send'
    BY <1>1, <1>2, <1>b, <2>1, <2>6, NoneAssumption DEF SocketsOk
  <3> QED BY <1>1, <2>1, <2>4, <3>1, NoneAssumption DEF SocketsOk, TypeOk
<2>26. WatchesOk'
  <3>1. \A g \in Fetches : rd[g] = fd /\ fd \in FDs => g \notin send'
    BY <1>1, <1>2, <1>b, <2>1, <2>6, NoneAssumption DEF SocketsOk
  <3>2. \A g \in FDs : g # fd => watch[g].write # f
    BY <1>1, <1>2, NoneAssumption DEF WatchesOk, fd
  <3>3. \A g \in send' : g \in send /\ g \in Fetches
    BY <1>1, <2>1 DEF TypeOk
  <3> QED BY SMTT(20), <1>1, <2>1, <2>4, <2>5, <3>1, <3>2, <3>3, NoneAssumption DEF WatchesOk, TypeOk
<2>27. PoolOk'
  <3>1. \A g : ~First("free_socket", g)
    BY <1>2
  <3>2. First("free_socket", f)'
    BY <2>2, <2>3, FirstPushed
  <3>3. \A g : First("free_socket", g)' => g = f
    BY <2>9 DEF FirstOnly
  <3>4. Queued' = Queued
    BY <2>1, QueuedFrame
  <3>5. \A g \in resolving \cup Queued \cup active : g \in Fetches
    BY <1>1 DEF TypeOk, Queued
  <3> QED BY <1>1, <2>1, <2>5, <3>1, <3>2, <3>3, <3>4, <3>5 DEF PoolOk
<2> QED BY <2>12, <2>13, <2>14, <2>15, <2>16, <2>17, <2>18, <2>19, <2>20, <2>21,
   <2>22, <2>23, <2>24, <2>25, <2>26, <2>27 DEF ChainInv
<1> QED BY <1>a, <1>b

\* Ending the query closes nothing: the descriptor is open for the answer.
LEMMA EndQueryStep ==
  ASSUME ChainInv, EndQuery, NEW f, f = This
  PROVE  ChainInv'
<1> DEFINE fd == wr[f]
<1>1. /\ TypeOk /\ TodoOk /\ OrderOk /\ RefsOk /\ EndAnswerOk /\ EndQueryOk
      /\ AbortQueryOk /\ AbortAnswerOk /\ CloseAnswerOk /\ AbortHttpOk /\ UnwatchOk
      /\ BranchesOk /\ OutcomeOk /\ LinksOk /\ SocketsOk /\ WatchesOk /\ PoolOk
  BY InvParts
<1>2. /\ todo # <<>> /\ todo[1].op = "end_query" /\ f = todo[1].f /\ 1 \in Positions
      /\ \A q, g : First(q, g) <=> q = "end_query" /\ g = f
      /\ f \in Fetches
  BY <1>1, DoingIs DEF EndQuery
<1>a. CASE f \notin send
  <2>1. Then(<<>>) /\ UNCHANGED <<conns, ios, pool, outcome, broken>>
    BY <1>a DEF EndQuery, conns, ios
  <2> QED BY <1>2, <1>a, <2>1, ReturnsOk
<1>b. CASE f \in send
<2>1. /\ Call("free_socket", f) \in Calls /\ Call("unref", f) \in Calls
      /\ Then(<<Call("free_socket", f), Call("unref", f)>>)
      /\ send' = send \ {f}
      /\ Unwatch(fd, FALSE, TRUE)
      /\ wr' = [wr EXCEPT ![f] = None]
      /\ UNCHANGED <<started, ref, recv, rd, socket, closed, resolving, waiting, active, outcome, broken>>
  BY <1>2, <1>b DEF EndQuery, pool, Calls, Call, Ops
<2>2. /\ Shifts(2)
      /\ todo'[1].op = "free_socket" /\ todo'[1].f = f
      /\ todo'[2].op = "unref" /\ todo'[2].f = f
      /\ 1 \in Positions' /\ 2 \in Positions'
      /\ \A g : /\ Cardinality(Unrefs(g)) \in Nat
                /\ Cardinality(Unrefs(g)') = Cardinality(Unrefs(g)) + OneIf(f = g) - OneIf(First("unref", g))
  BY <1>1, <1>2, <2>1, Push2, CallFields
<2>3. Moves(2) /\ KeepsAfter(2) /\ KeepsBefore(2) /\ KeepsPending /\ todo' \in Seq(Calls)
  BY <2>2 DEF Shifts
<2>4. /\ watch' \in [FDs -> [read : Fetches \cup {None}, write : Fetches \cup {None}]]
      /\ \A g \in FDs : /\ watch'[g].read = watch[g].read
                        /\ watch'[g].write = IF g = fd THEN None ELSE watch[g].write
  <3>1. /\ watch' \in [FDs -> [read : Fetches \cup {None}, write : Fetches \cup {None}]]
        /\ \A g \in FDs : g # fd => watch'[g] = watch[g]
        /\ fd \in FDs => watch'[fd].read = watch[fd].read /\ watch'[fd].write = None
    BY <1>1, <2>1, UnwatchIs
  <3> QED BY <3>1
<2>5. /\ \A g \in Fetches : wr'[g] = IF g = f THEN None ELSE wr[g]
      /\ wr' \in [Fetches -> FDs \cup {Unset, None}]
  BY <1>1, <1>2, <2>1 DEF TypeOk
<2>6. fd = rd[f] /\ fd # None
  BY <1>1, <1>2, <1>b DEF LinksOk
<2> HIDE DEF fd
<2>7. \A i \in Positions' : i <= 2 => i = 1 \/ i = 2
  BY <2>3 DEF Moves
<2>8. Plain(2)
  BY <2>2, <2>7 DEF Plain
<2>9. \A op, g : op \in FirstOnly /\ First(op, g)' => op = "free_socket" /\ g = f
  <3> SUFFICES ASSUME NEW op, NEW g, op \in FirstOnly, First(op, g)'
               PROVE  op = "free_socket" /\ g = f
    OBVIOUS
  <3>1. todo'[1].op = op /\ todo'[1].f = g
    BY <1>1, <2>3, FirstFrame
  <3> QED BY <2>2, <3>1
<2>10. f \notin recv
  BY <1>1, <1>2 DEF EndQueryOk
<2>12. TypeOk'
  BY <1>1, <1>2, <2>1, <2>3, <2>4, <2>5 DEF TypeOk, Calls
<2>13. RefsOk'
  <3> SUFFICES ASSUME NEW g \in Fetches
               PROVE  ref'[g] = (IF g \in send' THEN 1 ELSE 0) + (IF g \in recv' THEN 1 ELSE 0)
                                   + Cardinality(Unrefs(g)')
    BY DEF RefsOk
  <3>1. /\ Cardinality(Unrefs(g)) \in Nat
        /\ Cardinality(Unrefs(g)') = Cardinality(Unrefs(g)) + OneIf(f = g) - OneIf(First("unref", g))
    BY <2>2
  <3>2. ref[g] = (IF g \in send THEN 1 ELSE 0) + (IF g \in recv THEN 1 ELSE 0)
                    + Cardinality(Unrefs(g))
    BY <1>1 DEF RefsOk
  <3>3. OneIf(First("unref", g)) = 0 /\ OneIf(f = g) = IF g = f THEN 1 ELSE 0
    BY <1>2 DEF OneIf
  <3> QED BY <1>b, <2>1, <3>1, <3>2, <3>3
<2>14. TodoOk'
  BY <1>1, <1>2, <2>2, <2>3, <2>7, TodoFrame DEF FirstOnly
<2>15. OrderOk'
  BY <1>1, <2>3, <2>8, OrderFrame
<2>16. EndAnswerOk'
  BY <1>1, <2>1, <2>3, <2>8, EndAnswerFrame
<2>17. EndQueryOk'
  BY <1>1, <2>1, <2>3, <2>8, EndQueryFrame
<2>18. AbortQueryOk' /\ AbortHttpOk'
  BY <2>9 DEF AbortQueryOk, AbortHttpOk, FirstOnly
<2>19. AbortAnswerOk'
  BY <1>1, <1>2, <2>1, <2>2, <2>3, <2>7, AbortAnswerFrame
<2>20. CloseAnswerOk'
  BY <1>1, <1>2, <2>1, <2>3, <2>8, CloseAnswerFrame
<2>21. UnwatchOk'
  <3>1. \A g \in FDs : watch'[g].read \in {watch[g].read, None}
    BY <2>4
  <3> QED BY <1>1, <1>2, <2>1, <2>3, <2>8, <3>1, UnwatchFrame
<2>22. BranchesOk'
  <3>1. \A g : Pending("abort_answer", g) => Pending("abort_answer", g)'
    BY <1>2, <2>3 DEF KeepsPending
  <3>2. \A g : g # f /\ Pending("end_query", g) => Pending("end_query", g)'
    BY <1>2, <2>3 DEF KeepsPending
  <3> QED BY <1>1, <2>1, <2>10, <3>1, <3>2 DEF BranchesOk
<2>23. OutcomeOk'
  BY <1>1, <2>1 DEF OutcomeOk
<2>24. LinksOk'
  <3>1. \A g : Pending("close_answer", g) => Pending("close_answer", g)'
    BY <1>2, <2>3 DEF KeepsPending
  <3> QED BY <1>1, <2>1, <2>5, <3>1 DEF LinksOk
<2>25. SocketsOk'
  BY <1>1, <2>1, NoneAssumption DEF SocketsOk, TypeOk
<2>26. WatchesOk'
  <3>2. \A g \in FDs : g # fd => watch[g].write # f
    BY <1>1, <1>2, NoneAssumption DEF WatchesOk, fd
  <3>3. \A g \in send' : g \in send /\ g \in Fetches
    BY <1>1, <2>1 DEF TypeOk
  <3> QED BY <1>1, <2>1, <2>4, <2>5, <3>2, <3>3, NoneAssumption DEF WatchesOk, TypeOk
<2>27. PoolOk'
  <3>1. \A g : ~First("free_socket", g)
    BY <1>2
  <3>2. First("free_socket", f)'
    BY <2>2, <2>3, FirstPushed
  <3>3. \A g : First("free_socket", g)' => g = f
    BY <2>9 DEF FirstOnly
  <3>4. Queued' = Queued
    BY <2>1, QueuedFrame
  <3>5. \A g \in resolving \cup Queued \cup active : g \in Fetches
    BY <1>1 DEF TypeOk, Queued
  <3> QED BY <1>1, <2>1, <2>5, <3>1, <3>2, <3>3, <3>4, <3>5 DEF PoolOk
<2> QED BY <2>12, <2>13, <2>14, <2>15, <2>16, <2>17, <2>18, <2>19, <2>20, <2>21,
   <2>22, <2>23, <2>24, <2>25, <2>26, <2>27 DEF ChainInv
<1> QED BY <1>a, <1>b

\* Aborting the answer closes its descriptor, for the second time if the query
\* was aborted before.
LEMMA AbortAnswerStep ==
  ASSUME ChainInv, AbortAnswer, NEW f, f = This
  PROVE  ChainInv'
<1> DEFINE fd == rd[f]
<1>1. /\ TypeOk /\ TodoOk /\ OrderOk /\ RefsOk /\ EndAnswerOk /\ EndQueryOk
      /\ AbortQueryOk /\ AbortAnswerOk /\ CloseAnswerOk /\ AbortHttpOk /\ UnwatchOk
      /\ BranchesOk /\ OutcomeOk /\ LinksOk /\ SocketsOk /\ WatchesOk /\ PoolOk
  BY InvParts
<1>2. /\ todo # <<>> /\ todo[1].op = "abort_answer" /\ f = todo[1].f /\ 1 \in Positions
      /\ \A q, g : First(q, g) <=> q = "abort_answer" /\ g = f
      /\ f \in Fetches
  BY <1>1, DoingIs DEF AbortAnswer
<1>a. CASE f \notin recv
  <2>1. Then(<<>>) /\ UNCHANGED <<conns, ios, pool, outcome, broken>>
    BY <1>a DEF AbortAnswer, conns, ios
  <2> QED BY <1>2, <1>a, <2>1, ReturnsOk
<1>b. CASE f \in recv
<2>1. /\ Call("unref", f) \in Calls
      /\ Then(<<Call("unref", f)>>)
      /\ recv' = recv \ {f}
      /\ CloseFd(fd)
      /\ rd' = [rd EXCEPT ![f] = None]
      /\ outcome' = [outcome EXCEPT ![f] = "removed"]
      /\ UNCHANGED <<started, ref, send, wr, resolving, waiting, active, broken>>
  BY <1>2, <1>b DEF AbortAnswer, pool, Calls, Call, Ops
<2>2. /\ Shifts(1)
      /\ todo'[1].op = "unref" /\ todo'[1].f = f /\ 1 \in Positions'
      /\ \A g : /\ Cardinality(Unrefs(g)) \in Nat
                /\ Cardinality(Unrefs(g)') = Cardinality(Unrefs(g)) + OneIf(f = g) - OneIf(First("unref", g))
  BY <1>1, <1>2, <2>1, Push1, CallFields
<2>3. Moves(1) /\ KeepsAfter(1) /\ KeepsBefore(1) /\ KeepsPending /\ todo' \in Seq(Calls)
  BY <2>2 DEF Shifts
<2>4. /\ socket' \in [FDs -> Fetches \cup {None}]
      /\ \A g \in FDs : socket'[g] = IF g = fd THEN None ELSE socket[g]
      /\ watch' \in [FDs -> [read : Fetches \cup {None}, write : Fetches \cup {None}]]
      /\ \A g \in FDs : /\ watch'[g].read = IF g = fd THEN None ELSE watch[g].read
                        /\ watch'[g].write = IF g = fd THEN None ELSE watch[g].write
      /\ closed' = closed \cup (FDs \cap {fd}) /\ closed' \subseteq FDs
  BY <1>1, <2>1, CloseFdIs
<2>5. /\ \A g \in Fetches : rd'[g] = IF g = f THEN None ELSE rd[g]
      /\ rd' \in [Fetches -> FDs \cup {Unset, None}]
      /\ \A g \in Fetches : outcome'[g] = IF g = f THEN "removed" ELSE outcome[g]
      /\ outcome' \in [Fetches -> {"none", "closed", "removed"}]
  BY <1>1, <1>2, <2>1 DEF TypeOk
<2>6. f \notin send
  BY <1>1, <1>2 DEF AbortAnswerOk
<2> HIDE DEF fd
<2>7. \A i \in Positions' : i <= 1 => i = 1
  BY <2>3 DEF Moves
<2>8. Plain(1)
  BY <2>2, <2>7 DEF Plain
<2>9. \A op, g : op \in FirstOnly => ~First(op, g)'
  <3> SUFFICES ASSUME NEW op, NEW g, op \in FirstOnly, First(op, g)'
               PROVE  FALSE
    OBVIOUS
  <3>1. todo'[1].op = op
    BY <1>1, <2>3, FirstFrame
  <3> QED BY <2>2, <3>1 DEF FirstOnly
<2>12. TypeOk'
  BY <1>1, <1>2, <2>1, <2>3, <2>4, <2>5 DEF TypeOk, Calls
<2>13. RefsOk'
  <3> SUFFICES ASSUME NEW g \in Fetches
               PROVE  ref'[g] = (IF g \in send' THEN 1 ELSE 0) + (IF g \in recv' THEN 1 ELSE 0)
                                   + Cardinality(Unrefs(g)')
    BY DEF RefsOk
  <3>1. /\ Cardinality(Unrefs(g)) \in Nat
        /\ Cardinality(Unrefs(g)') = Cardinality(Unrefs(g)) + OneIf(f = g) - OneIf(First("unref", g))
    BY <2>2
  <3>2. ref[g] = (IF g \in send THEN 1 ELSE 0) + (IF g \in recv THEN 1 ELSE 0)
                    + Cardinality(Unrefs(g))
    BY <1>1 DEF RefsOk
  <3>3. OneIf(First("unref", g)) = 0 /\ OneIf(f = g) = IF g = f THEN 1 ELSE 0
    BY <1>2 DEF OneIf
  <3> QED BY <1>b, <2>1, <3>1, <3>2, <3>3
<2>14. TodoOk'
  BY <1>1, <1>2, <2>2, <2>3, <2>7, TodoFrame DEF FirstOnly
<2>15. OrderOk'
  BY <1>1, <2>3, <2>8, OrderFrame
<2>16. EndAnswerOk'
  BY <1>1, <2>3, <2>5, <2>8, EndAnswerFrame
<2>17. EndQueryOk'
  BY <1>1, <2>1, <2>3, <2>8, EndQueryFrame
<2>18. AbortQueryOk' /\ AbortHttpOk'
  BY <2>9 DEF AbortQueryOk, AbortHttpOk, FirstOnly
<2>19. AbortAnswerOk'
  <3>1. ASSUME NEW i \in Positions, i > 1, todo[i].op = "abort_answer"
        PROVE  todo[i].f # f
    <4>1. i # 1
      BY <2>3, <3>1 DEF Moves
    <4> QED BY <1>1, <1>2, <3>1, <4>1 DEF AbortAnswerOk
  <3> QED BY <1>1, <1>2, <2>1, <2>2, <2>3, <2>7, <3>1, AbortAnswerFrame
<2>20. CloseAnswerOk'
  <3>1. ASSUME NEW i \in Positions, i > 1, todo[i].op = "close_answer"
        PROVE  rd'[todo[i].f] = rd[todo[i].f]
    <4>1. ~First("end_answer", todo[i].f)
      BY <1>2
    <4>2. todo[i].f # f /\ todo[i].f \in Fetches
      BY <1>1, <1>b, <3>1, <4>1 DEF CloseAnswerOk, TodoOk
    <4> QED BY <2>5, <4>2
  <3> QED BY <1>1, <1>2, <2>1, <2>3, <2>8, <3>1, CloseAnswerFrame
<2>21. UnwatchOk'
  <3>1. \A g \in FDs : socket[g] # None \/ g \in closed => socket'[g] # None \/ g \in closed'
    BY <2>4
  <3>2. \A g \in FDs : watch'[g].read \in {watch[g].read, None}
    BY <2>4
  <3> QED BY <1>1, <1>2, <2>1, <2>3, <2>8, <3>1, <3>2, UnwatchFrame
<2>22. BranchesOk'
  <3>1. \A g : g # f /\ Pending("abort_answer", g) => Pending("abort_answer", g)'
    BY <1>2, <2>3 DEF KeepsPending
  <3>2. \A g : Pending("end_query", g) => Pending("end_query", g)'
    BY <1>2, <2>3 DEF KeepsPending
  <3> QED BY <1>1, <2>1, <2>6, <3>1, <3>2 DEF BranchesOk
<2>23. OutcomeOk'
  <3>1. f \in started
    BY <1>1, <1>b DEF BranchesOk
  <3> QED BY <1>1, <2>1, <2>5, <3>1 DEF OutcomeOk
<2>24. LinksOk'
  <3>1. \A g : Pending("close_answer", g) => Pending("close_answer", g)'
    BY <1>2, <2>3 DEF KeepsPending
  <3>2. \A g \in send \cup recv : g \in Fetches
    BY <1>1 DEF TypeOk
  <3> QED BY <1>1, <2>1, <2>5, <2>6, <3>1, <3>2 DEF LinksOk
<2>25. SocketsOk'
  <3>1. \A g \in Fetches : rd[g] = fd /\ fd \in FDs => g \notin send
    BY <1>1, <1>2, <2>6, NoneAssumption DEF SocketsOk, fd
  <3>2. \A g \in FDs : g # fd => socket[g] # f
    BY <1>1, <1>2, NoneAssumption DEF SocketsOk, fd
  <3> QED BY <1>1, <2>1, <2>4, <2>5, <3>1, <3>2, NoneAssumption DEF SocketsOk, TypeOk
<2>26. WatchesOk'
  <3>1. \A g \in Fetches : rd[g] = fd /\ fd \in FDs => g \notin send
    BY <1>1, <1>2, <2>6, NoneAssumption DEF SocketsOk, fd
  <3>2. \A g \in FDs : g # fd => watch[g].read # f
    BY <1>1, <1>2, NoneAssumption DEF WatchesOk, fd
  <3>3. /\ \A g \in FDs : watch'[g].read # None => watch[g].read = watch'[g].read /\ g # fd
        /\ \A g \in FDs : watch'[g].write # None => watch[g].write = watch'[g].write
        /\ \A g \in FDs : watch[g].read \in Fetches \cup {None}
    BY <1>1, <2>4 DEF TypeOk
  <3>4. \A g \in FDs : watch'[g].read # None => rd'[watch'[g].read] = g
    BY <1>1, <2>5, <3>2, <3>3 DEF WatchesOk
  <3>5. \A g \in FDs : watch'[g].write # None => wr'[watch'[g].write] = g
    BY <1>1, <2>1, <3>3 DEF WatchesOk
  <3>6. \A g \in send' : rd'[g] \in FDs => watch'[rd'[g]].read = g \/ g \in broken'
    <4>1. \A g \in send : g \in Fetches /\ g # f
      BY <1>1, <2>6 DEF TypeOk
    <4> QED BY <1>1, <2>1, <2>4, <2>5, <3>1, <4>1 DEF WatchesOk
  <3> QED BY <3>4, <3>5, <3>6 DEF WatchesOk
<2>27. PoolOk'
  <3>1. \A g : ~First("free_socket", g) /\ ~First("free_socket", g)'
    BY <1>2, <2>9 DEF FirstOnly
  <3> QED BY <1>1, <2>1, <3>1, QueuedFrame DEF PoolOk
<2> QED BY <2>12, <2>13, <2>14, <2>15, <2>16, <2>17, <2>18, <2>19, <2>20, <2>21,
   <2>22, <2>23, <2>24, <2>25, <2>26, <2>27 DEF ChainInv
<1> QED BY <1>a, <1>b

\* A connection that fails to be made has no descriptor yet: there is nothing to
\* close, and the answer is aborted next.
LEMMA AbortFromHttpStep ==
  ASSUME ChainInv, AbortFromHttp, NEW f, f = This
  PROVE  ChainInv'
<1>1. /\ TypeOk /\ TodoOk /\ OrderOk /\ RefsOk /\ EndAnswerOk /\ EndQueryOk
      /\ AbortQueryOk /\ AbortAnswerOk /\ CloseAnswerOk /\ AbortHttpOk /\ UnwatchOk
      /\ BranchesOk /\ OutcomeOk /\ LinksOk /\ SocketsOk /\ WatchesOk /\ PoolOk
  BY InvParts
<1>2. /\ todo # <<>> /\ todo[1].op = "abort_from_http" /\ f = todo[1].f /\ 1 \in Positions
      /\ \A q, g : First(q, g) <=> q = "abort_from_http" /\ g = f
      /\ f \in Fetches
  BY <1>1, DoingIs DEF AbortFromHttp
<1>3. /\ f \in send /\ f \in recv /\ wr[f] = Unset
      /\ f \notin resolving /\ f \notin Queued /\ f \notin active
  BY <1>1, <1>2 DEF AbortHttpOk
<1>4. Unset \notin FDs
  BY NumFDsAssumption DEF FDs, Unset
<1>5. /\ Call("abort_answer", f) \in Calls /\ Call("unref", f) \in Calls
      /\ Then(<<Call("abort_answer", f), Call("unref", f)>>)
      /\ send' = send \ {f}
      /\ wr' = [wr EXCEPT ![f] = None]
      /\ UNCHANGED <<started, ref, recv, rd, resolving, waiting, active, outcome, broken>>
  BY <1>2 DEF AbortFromHttp, pool, Calls, Call, Ops
<1>6. UNCHANGED <<socket, watch, closed>>
  <2>1. CloseFd(Unset)
    BY <1>2, <1>3 DEF AbortFromHttp
  <2> QED BY <2>1, <1>4 DEF CloseFd, Opens, Unwatch
<1>7. /\ Shifts(2)
      /\ todo'[1].op = "abort_answer" /\ todo'[1].f = f
      /\ todo'[2].op = "unref" /\ todo'[2].f = f
      /\ 1 \in Positions' /\ 2 \in Positions'
      /\ \A g : /\ Cardinality(Unrefs(g)) \in Nat
                /\ Cardinality(Unrefs(g)') = Cardinality(Unrefs(g)) + OneIf(f = g) - OneIf(First("unref", g))
  BY <1>1, <1>2, <1>5, Push2, CallFields
<1>8. Moves(2) /\ KeepsAfter(2) /\ KeepsBefore(2) /\ KeepsPending /\ todo' \in Seq(Calls)
  BY <1>7 DEF Shifts
<1>9. \A g \in Fetches : wr'[g] = IF g = f THEN None ELSE wr[g]
  BY <1>1, <1>2, <1>5 DEF TypeOk
<1>10. \A i \in Positions' : i <= 2 => i = 1 \/ i = 2
  BY <1>8 DEF Moves
<1>11. Plain(2)
  BY <1>7, <1>10 DEF Plain
<1>12. \A op, g : op \in FirstOnly => ~First(op, g)'
  <2> SUFFICES ASSUME NEW op, NEW g, op \in FirstOnly, First(op, g)'
               PROVE  FALSE
    OBVIOUS
  <2>1. todo'[1].op = op
    BY <1>1, <1>8, FirstFrame
  <2> QED BY <1>7, <2>1 DEF FirstOnly
<1>13. TypeOk'
  <2>1. wr' \in [Fetches -> FDs \cup {Unset, None}]
    BY <1>1, <1>2, <1>5 DEF TypeOk
  <2> QED BY <1>1, <1>5, <1>6, <1>8, <2>1 DEF TypeOk, Calls
<1>14. RefsOk'
  <2> SUFFICES ASSUME NEW g \in Fetches
               PROVE  ref'[g] = (IF g \in send' THEN 1 ELSE 0) + (IF g \in recv' THEN 1 ELSE 0)
                                   + Cardinality(Unrefs(g)')
    BY DEF RefsOk
  <2>1. /\ Cardinality(Unrefs(g)) \in Nat
        /\ Cardinality(Unrefs(g)') = Cardinality(Unrefs(g)) + OneIf(f = g) - OneIf(First("unref", g))
    BY <1>7
  <2>2. ref[g] = (IF g \in send THEN 1 ELSE 0) + (IF g \in recv THEN 1 ELSE 0)
                    + Cardinality(Unrefs(g))
    BY <1>1 DEF RefsOk
  <2>3. OneIf(First("unref", g)) = 0 /\ OneIf(f = g) = IF g = f THEN 1 ELSE 0
    BY <1>2 DEF OneIf
  <2> QED BY <1>3, <1>5, <2>1, <2>2, <2>3
<1>15. TodoOk'
  BY <1>1, <1>2, <1>7, <1>8, <1>10, TodoFrame DEF FirstOnly
<1>16. OrderOk'
  BY <1>1, <1>8, <1>11, OrderFrame
<1>17. EndAnswerOk'
  BY <1>1, <1>5, <1>8, <1>11, EndAnswerFrame
<1>18. EndQueryOk'
  BY <1>1, <1>5, <1>8, <1>11, EndQueryFrame
<1>19. AbortQueryOk' /\ AbortHttpOk'
  BY <1>12 DEF AbortQueryOk, AbortHttpOk, FirstOnly
<1>20. AbortAnswerOk'
  <2>1. ASSUME NEW i \in Positions, todo[i].op = "abort_answer"
        PROVE  todo[i].f # f
    BY <1>1, <1>2, <1>3, <2>1 DEF AbortAnswerOk
  <2>2. ASSUME NEW i \in Positions', i > 2, NEW g, todo'[i].op = "abort_answer", todo'[i].f = g
        PROVE  /\ g \notin send' /\ g # f
               /\ g \in recv' \/ After(i, "unref", g)'
               /\ \A j \in Positions' : j > 2 /\ todo'[j].op = "abort_answer" /\ todo'[j].f = g => j = i
    <3>1. i - 2 + 1 \in Positions /\ todo'[i] = todo[i - 2 + 1]
      BY <1>8, <2>2 DEF Moves
    <3>2. g # f
      BY <2>1, <2>2, <3>1
    <3> QED BY <1>1, <1>2, <1>5, <1>8, <2>2, <3>2, AbortAnswerRest
  <2>3. \A i \in Positions' : i = 1 \/ i = 2 \/ i > 2
    BY <1>8 DEF Moves
  <2>4. ASSUME NEW i \in Positions', NEW g, todo'[i].op = "abort_answer", todo'[i].f = g
        PROVE  /\ g \notin send'
               /\ g \in recv' \/ After(i, "unref", g)'
               /\ \A j \in Positions' : todo'[j].op = "abort_answer" /\ todo'[j].f = g => j = i
    <3>1. CASE i = 1
      BY <1>3, <1>5, <1>7, <2>2, <2>3, <2>4, <3>1
    <3>2. CASE i > 2
      BY <1>7, <2>2, <2>3, <2>4, <3>2
    <3> QED BY <1>7, <2>3, <2>4, <3>1, <3>2
  <2>5. \A i \in Positions' : todo'[i].op = "abort_answer" =>
           \/ todo'[i].f \in recv'
           \/ \E j \in Positions' : i < j /\ todo'[j].op = "unref" /\ todo'[j].f = todo'[i].f
    BY <2>4 DEF After, Is
  <2>6. \A i \in Positions' : todo'[i].op = "abort_answer" => todo'[i].f \notin send'
    BY <2>4
  <2>7. \A i, j \in Positions' :
           todo'[i].op = "abort_answer" /\ todo'[j].op = "abort_answer" /\ todo'[i].f = todo'[j].f => i = j
    BY <2>4
  <2> QED BY <2>5, <2>6, <2>7 DEF AbortAnswerOk, After, Is
<1>21. CloseAnswerOk'
  BY <1>1, <1>2, <1>5, <1>8, <1>11, CloseAnswerFrame
<1>22. UnwatchOk'
  <2>1. \A g \in FDs : socket[g] # None \/ g \in closed => socket'[g] # None \/ g \in closed'
    BY <1>6
  <2>2. \A g \in FDs : watch'[g].read \in {watch[g].read, None}
    BY <1>6
  <2> QED BY <1>1, <1>2, <1>5, <1>8, <1>11, <2>1, <2>2, UnwatchFrame
<1>23. BranchesOk'
  <2>1. \A g : Pending("abort_answer", g) => Pending("abort_answer", g)'
    BY <1>2, <1>8 DEF KeepsPending
  <2>2. Pending("abort_answer", f)'
    BY <1>7 DEF Pending, Is
  <2>3. \A g : Pending("end_query", g) => Pending("end_query", g)'
    BY <1>2, <1>8 DEF KeepsPending
  <2> QED BY <1>1, <1>5, <2>1, <2>2, <2>3 DEF BranchesOk
<1>24. OutcomeOk'
  BY <1>1, <1>5 DEF OutcomeOk
<1>25. LinksOk'
  <2>1. \A g : Pending("close_answer", g) => Pending("close_answer", g)'
    BY <1>2, <1>8 DEF KeepsPending
  <2> QED BY <1>1, <1>5, <1>9, <2>1 DEF LinksOk
<1>26. SocketsOk'
  BY <1>1, <1>5, <1>6 DEF SocketsOk
<1>27. WatchesOk'
  <2>1. \A g \in FDs : watch[g].write # f
    BY <1>1, <1>2, <1>3, <1>4, NoneAssumption DEF WatchesOk
  <2>2. \A g \in FDs : watch[g].write \in Fetches \cup {None}
    BY <1>1 DEF TypeOk
  <2> QED BY <1>1, <1>5, <1>6, <1>9, <2>1, <2>2 DEF WatchesOk
<1>28. PoolOk'
  <2>1. \A g : ~First("free_socket", g) /\ ~First("free_socket", g)'
    BY <1>2, <1>12 DEF FirstOnly
  <2>2. Queued' = Queued
    BY <1>5, QueuedFrame
  <2>3. \A g \in resolving \cup Queued \cup active : g \in Fetches /\ g # f
    BY <1>1, <1>3 DEF TypeOk, Queued
  <2> QED BY <1>1, <1>5, <1>9, <2>1, <2>2, <2>3 DEF PoolOk
<1> QED BY <1>13, <1>14, <1>15, <1>16, <1>17, <1>18, <1>19, <1>20, <1>21,
   <1>22, <1>23, <1>24, <1>25, <1>26, <1>27, <1>28 DEF ChainInv

\* The watch of a descriptor goes after its last read: the fetch that it was for
\* has ended, or its read failed.
LEMMA UnwatchReadStep ==
  ASSUME ChainInv, UnwatchRead, NEW fd, fd = This
  PROVE  ChainInv'
<1>1. /\ TypeOk /\ TodoOk /\ OrderOk /\ RefsOk /\ EndAnswerOk /\ EndQueryOk
      /\ AbortQueryOk /\ AbortAnswerOk /\ CloseAnswerOk /\ AbortHttpOk /\ UnwatchOk
      /\ BranchesOk /\ OutcomeOk /\ LinksOk /\ SocketsOk /\ WatchesOk /\ PoolOk
  BY InvParts
<1>2. /\ todo # <<>> /\ todo[1].op = "unwatch" /\ fd = todo[1].f /\ 1 \in Positions
      /\ \A q, g : First(q, g) <=> q = "unwatch" /\ g = fd
      /\ fd \in FDs
  BY <1>1, DoingIs DEF UnwatchRead
<1>3. /\ Shifts(0)
      /\ \A g : /\ Cardinality(Unrefs(g)) \in Nat
                /\ Cardinality(Unrefs(g)') = Cardinality(Unrefs(g)) - OneIf(First("unref", g))
  BY <1>1, <1>2, Push0 DEF UnwatchRead
<1>4. Moves(0) /\ KeepsAfter(0) /\ KeepsBefore(0) /\ KeepsPending /\ todo' \in Seq(Calls)
  BY <1>3 DEF Shifts
<1>5. UNCHANGED <<started, ref, send, recv, wr, rd, socket, closed, resolving, waiting,
                  active, outcome, broken>>
  BY DEF UnwatchRead, conns, pool
<1>6. /\ watch' \in [FDs -> [read : Fetches \cup {None}, write : Fetches \cup {None}]]
      /\ \A g \in FDs : g # fd => watch'[g] = watch[g]
      /\ watch'[fd].read = None /\ watch'[fd].write = watch[fd].write
  <2>1. Unwatch(fd, TRUE, FALSE)
    BY DEF UnwatchRead
  <2> QED BY <1>1, <1>2, <2>1, UnwatchIs
<1>7. Plain(0) /\ \A i \in Positions' : ~(i <= 0)
  BY <1>4 DEF Plain, Moves
<1>8. \A op, g : op \in FirstOnly => ~First(op, g)'
  BY <1>1, <1>4, FirstFrame
<1>9. ASSUME NEW g \in Fetches, watch[fd].read = g
      PROVE  g \in broken
  <2>1. \A q : ~Before(1, q, g)
    BY <1>4 DEF Before, Moves
  <2> QED BY <1>1, <1>2, <1>9, <2>1 DEF UnwatchOk
<1>10. TypeOk'
  BY <1>1, <1>4, <1>5, <1>6 DEF TypeOk, Calls
<1>11. RefsOk'
  BY <1>1, <1>2, <1>3, <1>5 DEF RefsOk, OneIf
<1>12. TodoOk'
  BY <1>1, <1>4, <1>7, TodoFrame
<1>13. OrderOk'
  BY <1>1, <1>4, <1>7, OrderFrame
<1>14. EndAnswerOk'
  BY <1>1, <1>4, <1>5, <1>7, EndAnswerFrame
<1>15. EndQueryOk'
  BY <1>1, <1>4, <1>5, <1>7, EndQueryFrame
<1>16. AbortQueryOk' /\ AbortHttpOk'
  BY <1>8 DEF AbortQueryOk, AbortHttpOk, FirstOnly
<1>17. AbortAnswerOk'
  BY <1>1, <1>2, <1>4, <1>5, <1>7, AbortAnswerFrame
<1>18. CloseAnswerOk'
  BY <1>1, <1>2, <1>4, <1>5, <1>7, CloseAnswerFrame
<1>19. UnwatchOk'
  <2>1. \A g \in FDs : socket[g] # None \/ g \in closed => socket'[g] # None \/ g \in closed'
    BY <1>5
  <2>2. \A g \in FDs : watch'[g].read \in {watch[g].read, None}
    BY <1>6
  <2> QED BY <1>1, <1>2, <1>4, <1>5, <1>7, <2>1, <2>2, UnwatchFrame
<1>20. BranchesOk'
  BY <1>1, <1>2, <1>4, <1>5 DEF BranchesOk, KeepsPending
<1>21. OutcomeOk'
  BY <1>1, <1>5 DEF OutcomeOk
<1>22. LinksOk'
  BY <1>1, <1>2, <1>4, <1>5 DEF LinksOk, KeepsPending
<1>23. SocketsOk'
  BY <1>1, <1>5 DEF SocketsOk
<1>24. WatchesOk'
  <2>1. \A g \in send : rd[g] \in FDs => watch'[rd[g]].read = g \/ g \in broken
    <3>1. \A g \in send : g \in Fetches
      BY <1>1 DEF TypeOk
    <3> QED BY <1>1, <1>6, <1>9, <3>1 DEF WatchesOk
  <2> QED BY <1>1, <1>5, <1>6, <2>1 DEF WatchesOk
<1>25. PoolOk'
  <2>1. \A g : ~First("free_socket", g) /\ ~First("free_socket", g)'
    BY <1>2, <1>8 DEF FirstOnly
  <2> QED BY <1>1, <1>5, <2>1, QueuedFrame DEF PoolOk
<1> QED BY <1>10, <1>11, <1>12, <1>13, <1>14, <1>15, <1>16, <1>17, <1>18, <1>19, <1>20,
   <1>21, <1>22, <1>23, <1>24, <1>25 DEF ChainInv

\* The end of the file goes up the answer branch, and the descriptor is closed
\* when the whole chain has been told: nothing is in between.
LEMMA ReadEofStep ==
  ASSUME ChainInv, ReadEof, NEW f, f = This
  PROVE  ChainInv'
<1>1. /\ TypeOk /\ TodoOk /\ OrderOk /\ RefsOk /\ EndAnswerOk /\ EndQueryOk
      /\ AbortQueryOk /\ AbortAnswerOk /\ CloseAnswerOk /\ AbortHttpOk /\ UnwatchOk
      /\ BranchesOk /\ OutcomeOk /\ LinksOk /\ SocketsOk /\ WatchesOk /\ PoolOk
  BY InvParts
<1>2. /\ todo # <<>> /\ todo[1].op = "eof" /\ f = todo[1].f /\ 1 \in Positions
      /\ \A q, g : First(q, g) <=> q = "eof" /\ g = f
      /\ f \in Fetches
  BY <1>1, DoingIs DEF ReadEof
<1>3. UNCHANGED <<conns, ios, pool, outcome, broken>>
  BY DEF ReadEof
<1>a. CASE rd[f] = None
  <2>1. Then(<<>>)
    BY <1>a DEF ReadEof, If
  <2> QED BY <1>2, <1>3, <1>a, <2>1, ReturnsOk
<1>b. CASE rd[f] # None
<2>1. /\ Call("end_answer", f) \in Calls /\ Call("close_answer", f) \in Calls
      /\ Then(<<Call("end_answer", f), Call("close_answer", f)>>)
      /\ UNCHANGED <<started, ref, send, recv, wr, rd, socket, watch, closed, resolving, waiting,
                     active, outcome, broken>>
  BY <1>2, <1>3, <1>b DEF ReadEof, If, conns, ios, pool, Calls, Call, Ops
<2>2. /\ Shifts(2)
      /\ todo'[1].op = "end_answer" /\ todo'[1].f = f
      /\ todo'[2].op = "close_answer" /\ todo'[2].f = f
      /\ 1 \in Positions' /\ 2 \in Positions'
      /\ \A g : /\ Cardinality(Unrefs(g)) \in Nat
                /\ Cardinality(Unrefs(g)') = Cardinality(Unrefs(g))
  BY <1>1, <1>2, <2>1, Push2Other, CallFields
<2>3. Moves(2) /\ KeepsAfter(2) /\ KeepsBefore(2) /\ KeepsPending /\ todo' \in Seq(Calls)
  BY <2>2 DEF Shifts
<2>4. \A i \in Positions' : i = 1 \/ i = 2 \/ i > 2
  BY <2>3 DEF Moves
<2>5. ASSUME NEW i \in Positions', i > 2
      PROVE  /\ i - 1 \in Positions /\ todo'[i] = todo[i - 1] /\ todo'[i].op = "unwatch"
             /\ todo'[i].f \in FDs
  <3>1. i - 1 \in Positions /\ todo'[i] = todo[i - 1] /\ i - 1 > 1
    BY <2>3, <2>5 DEF Moves
  <3> QED BY <1>1, <1>2, <3>1 DEF OrderOk, TodoOk
<2>6. ASSUME NEW op, NEW g, Pending(op, g), op # "eof"
      PROVE  op = "unwatch"
  <3>1. PICK j \in Positions : Is(j, op, g)
    BY <2>6 DEF Pending
  <3>2. j > 1
    BY <1>2, <2>3, <2>6, <3>1 DEF Is, Moves
  <3> QED BY <1>1, <1>2, <3>1, <3>2 DEF OrderOk, Is
<2>7. rd[f] \in FDs /\ f \in recv
  BY <1>1, <1>2, <1>b, <2>6 DEF EndAnswerOk, LinksOk
<2>8. ASSUME NEW op, NEW g, op \in FirstOnly, First(op, g)'
      PROVE  op = "end_answer" /\ g = f
  <3>1. todo'[1].op = op /\ todo'[1].f = g
    BY <1>1, <2>3, <2>8, FirstFrame
  <3> QED BY <2>2, <3>1
<2>9. First("end_answer", f)'
  BY <2>2, <2>3, FirstPushed
<2>12. TypeOk'
  BY <1>1, <2>1, <2>3 DEF TypeOk, Calls
<2>13. RefsOk'
  BY <1>1, <1>2, <2>1, <2>2 DEF RefsOk, OneIf
<2>14. TodoOk'
  <3>1. \A i \in Positions' : i <= 2 => i = 1 \/ i = 2
    BY <2>3 DEF Moves
  <3> QED BY <1>1, <1>2, <2>2, <2>3, <3>1, TodoFrame DEF FirstOnly
<2>15. OrderOk'
  <3>1. ASSUME NEW i \in Positions', NEW j \in Positions', i < j
        PROVE  /\ todo'[i].op \notin {"data", "eof"}
               /\ todo'[i].op = "end_answer" => todo'[j].op \in {"close_answer", "unwatch"}
    <4>1. i = 1 \/ i = 2 \/ i > 2
      BY <2>4
    <4>2. j = 2 \/ j > 2
      BY <2>3, <2>4, <3>1 DEF Moves
    <4>3. todo'[i].op \in {"end_answer", "close_answer", "unwatch"}
      BY <2>2, <2>5, <4>1
    <4>4. todo'[j].op \in {"close_answer", "unwatch"}
      BY <2>2, <2>5, <4>2
    <4> QED BY <4>3, <4>4
  <3> QED BY <3>1 DEF OrderOk
<2>16. EndAnswerOk'
  <3>1. \A i \in Positions' : todo'[i].op # "eof"
    BY <2>2, <2>4, <2>5
  <3>2. \A g \in Fetches : First("end_answer", g)' => g = f
    BY <2>8 DEF FirstOnly
  <3> QED BY <2>1, <2>2, <2>7, <3>1, <3>2 DEF EndAnswerOk, Is
<2>17. EndQueryOk'
  <3>1. \A i \in Positions' : todo'[i].op # "end_query"
    BY <2>2, <2>4, <2>5
  <3> QED BY <3>1 DEF EndQueryOk
<2>18. AbortQueryOk' /\ AbortHttpOk'
  BY <2>8 DEF AbortQueryOk, AbortHttpOk, FirstOnly
<2>19. AbortAnswerOk'
  <3>1. \A i \in Positions' : todo'[i].op # "abort_answer"
    BY <2>2, <2>4, <2>5
  <3> QED BY <3>1 DEF AbortAnswerOk
<2>20. CloseAnswerOk'
  <3>1. \A i \in Positions' : todo'[i].op = "close_answer" => i = 2
    BY <2>2, <2>4, <2>5
  <3>2. Before(2, "end_answer", f)'
    <4>1. 1 < 2
      OBVIOUS
    <4> QED BY <2>2, <4>1 DEF Before, Is
  <3>3. \A i \in Positions' : todo'[i].op = "close_answer" => rd'[todo'[i].f] \in FDs
    BY <2>1, <2>2, <2>7, <3>1
  <3>4. ASSUME NEW i \in Positions', todo'[i].op = "close_answer"
        PROVE  First("end_answer", todo[i].f)' /\ Before(i, "end_answer", todo[i].f)'
    <4>1. i = 2 /\ todo'[i].f = f
      BY <2>2, <3>1, <3>4
    <4> QED BY <2>9, <3>2, <4>1 DEF Before, Is, First
  <3> QED BY <3>1, <3>3, <3>4 DEF CloseAnswerOk
<2>21. UnwatchOk'
  <3>1. \A i \in Positions' : todo'[i].op = "unwatch" => socket[todo'[i].f] # None \/ todo'[i].f \in closed
    BY <1>1, <2>2, <2>4, <2>5 DEF UnwatchOk
  <3>2. ASSUME NEW i \in Positions', NEW g \in Fetches,
               todo'[i].op = "unwatch", watch[todo'[i].f].read = g
        PROVE  g \in broken \/ Before(i, "end_answer", g)'
    <4>1. i > 2 /\ i - 1 \in Positions /\ todo'[i] = todo[i - 1]
      BY <2>2, <2>4, <2>5, <3>2
    <4>2. \/ g \in broken
          \/ Before(i - 1, "eof", g) \/ Before(i - 1, "end_answer", g) \/ Before(i - 1, "close_answer", g)
      BY <1>1, <3>2, <4>1 DEF UnwatchOk
    <4>3. ~Pending("end_answer", g) /\ ~Pending("close_answer", g)
      BY <2>6
    <4>4. ~Before(i - 1, "end_answer", g) /\ ~Before(i - 1, "close_answer", g)
      BY <4>3 DEF Before, Pending
    <4>5. CASE g \in broken
      BY <4>5
    <4>6. CASE Before(i - 1, "eof", g)
      <5>1. PICK j \in Positions : j < i - 1 /\ Is(j, "eof", g)
        BY <4>6 DEF Before
      <5>2. j = 1
        <6>1. j > 1 => todo[j].op = "unwatch"
          BY <1>1, <1>2 DEF OrderOk
        <6> QED BY <2>3, <5>1, <6>1 DEF Moves, Is
      <5>3. g = f
        BY <1>2, <5>1, <5>2 DEF Is
      <5>4. 1 < i
        BY <4>1, <2>3 DEF Moves
      <5> QED BY <2>2, <5>3, <5>4 DEF Before, Is
    <4> QED BY <4>2, <4>4, <4>5, <4>6
  <3> QED BY <2>1, <3>1, <3>2 DEF UnwatchOk
<2>22. BranchesOk'
  <3>1. \A g : Pending("end_query", g) => Pending("end_query", g)'
    BY <1>2, <2>3 DEF KeepsPending
  <3>2. \A g : Pending("abort_answer", g) => Pending("abort_answer", g)'
    BY <1>2, <2>3 DEF KeepsPending
  <3> QED BY <1>1, <2>1, <3>1, <3>2 DEF BranchesOk
<2>23. OutcomeOk'
  BY <1>1, <2>1 DEF OutcomeOk
<2>24. LinksOk'
  <3>1. \A g : Pending("close_answer", g) => Pending("close_answer", g)'
    BY <1>2, <2>3 DEF KeepsPending
  <3> QED BY <1>1, <2>1, <3>1 DEF LinksOk
<2>25. SocketsOk' /\ WatchesOk'
  BY <1>1, <2>1 DEF SocketsOk, WatchesOk
<2>26. PoolOk'
  <3>1. \A g : ~First("free_socket", g) /\ ~First("free_socket", g)'
    BY <1>2, <2>8 DEF FirstOnly
  <3> QED BY <1>1, <2>1, <3>1, QueuedFrame DEF PoolOk
<2> QED BY <2>12, <2>13, <2>14, <2>15, <2>16, <2>17, <2>18, <2>19, <2>20, <2>21,
   <2>22, <2>23, <2>24, <2>25, <2>26 DEF ChainInv
<1> QED BY <1>a, <1>b

\* A queue that a socket leaves keeps the others, each once.
LEMMA WithoutIs ==
  ASSUME NEW S, NEW s \in Seq(S), NEW f, \A i, j \in 1 .. Len(s) : s[i] = s[j] => i = j
  PROVE  /\ Without(s, f) \in Seq(S)
         /\ \A i \in 1 .. Len(Without(s, f)) :
               \E j \in 1 .. Len(s) : Without(s, f)[i] = s[j] /\ s[j] # f
         /\ \A i, j \in 1 .. Len(Without(s, f)) : Without(s, f)[i] = Without(s, f)[j] => i = j
<1> SUFFICES ASSUME NEW w, w = Without(s, f)
             PROVE  /\ w \in Seq(S)
                    /\ \A i \in 1 .. Len(w) : \E j \in 1 .. Len(s) : w[i] = s[j] /\ s[j] # f
                    /\ \A i, j \in 1 .. Len(w) : w[i] = w[j] => i = j
  OBVIOUS
<1>1. DOMAIN s = 1 .. Len(s) /\ Len(s) \in Nat
  OBVIOUS
<1>2. CASE \E i \in DOMAIN s : s[i] = f
  <2> DEFINE k == CHOOSE i \in DOMAIN s : s[i] = f
             a == SubSeq(s, 1, k - 1)
             b == SubSeq(s, k + 1, Len(s))
  <2>1. k \in 1 .. Len(s) /\ s[k] = f
    BY <1>1, <1>2
  <2> HIDE DEF k
  <2>2. a \in Seq(S) /\ Len(a) = k - 1 /\ \A i \in 1 .. k - 1 : a[i] = s[i]
    BY <1>1, <2>1
  <2>3. b \in Seq(S) /\ Len(b) = Len(s) - k /\ \A i \in 1 .. Len(s) - k : b[i] = s[k + i]
    <3>1. k + 1 \in Int /\ Len(s) \in Int /\ \A i \in k + 1 .. Len(s) : s[i] \in S
      BY <1>1, <2>1
    <3>2. /\ b \in Seq(S)
          /\ Len(b) = IF k + 1 <= Len(s) THEN Len(s) - (k + 1) + 1 ELSE 0
          /\ \A i \in 1 .. Len(s) - (k + 1) + 1 : b[i] = s[k + 1 + i - 1]
      BY <3>1, SubSeqProperties DEF b
    <3> HIDE DEF b
    <3>3. \A i \in 1 .. Len(s) - k : i \in 1 .. Len(s) - (k + 1) + 1 /\ k + 1 + i - 1 = k + i
      BY <1>1, <2>1
    <3>4. Len(b) = Len(s) - k
      <4>1. CASE k + 1 <= Len(s)
        BY <1>1, <2>1, <3>2, <4>1
      <4>2. CASE ~(k + 1 <= Len(s))
        <5>0. k \in Nat /\ Len(s) \in Nat /\ k <= Len(s)
          BY <1>1, <2>1
        <5>1. k = Len(s)
          BY <5>0, <4>2
        <5>2. Len(b) = 0
          BY <3>2, <4>2
        <5> QED BY <1>1, <5>1, <5>2
      <4> QED BY <4>1, <4>2
    <3> QED BY <3>2, <3>3, <3>4
  <2>4. w = a \o b
    BY <1>2 DEF Without, RemoveAt, k
  <2> HIDE DEF a, b
  <2>5. /\ a \o b \in Seq(S) /\ Len(a \o b) = Len(s) - 1
        /\ \A i \in 1 .. k - 1 : (a \o b)[i] = s[i]
        /\ \A i \in k .. Len(s) - 1 : (a \o b)[i] = s[i + 1]
    <3>1. /\ a \o b \in Seq(S) /\ Len(a \o b) = Len(a) + Len(b)
          /\ \A i \in 1 .. Len(a) + Len(b) :
                (a \o b)[i] = IF i <= Len(a) THEN a[i] ELSE b[i - Len(a)]
      BY ZenonT(30), <2>2, <2>3, ConcatProperties
    <3>2. Len(a \o b) = Len(s) - 1
      BY <1>1, <2>1, <2>2, <2>3, <3>1
    <3>3. \A i \in 1 .. k - 1 : (a \o b)[i] = s[i]
      BY <1>1, <2>1, <2>2, <2>3, <3>1
    <3>4. ASSUME NEW i \in k .. Len(s) - 1
          PROVE  (a \o b)[i] = s[i + 1]
      <4>1. /\ i \in 1 .. Len(a) + Len(b) /\ ~(i <= Len(a))
            /\ i - Len(a) \in 1 .. Len(s) - k /\ k + (i - Len(a)) = i + 1
        BY <1>1, <2>1, <2>2, <2>3
      <4> QED BY <2>3, <3>1, <4>1
    <3> QED BY <3>1, <3>2, <3>3, <3>4
  <2>11. /\ w \in Seq(S) /\ Len(w) = Len(s) - 1
         /\ \A i \in 1 .. k - 1 : w[i] = s[i]
         /\ \A i \in k .. Len(s) - 1 : w[i] = s[i + 1]
    BY <2>4, <2>5
  <2>6. ASSUME NEW i \in 1 .. Len(w)
        PROVE  \/ i < k /\ i \in 1 .. Len(s) /\ w[i] = s[i]
               \/ i >= k /\ i + 1 \in 1 .. Len(s) /\ w[i] = s[i + 1]
    BY <1>1, <2>1, <2>11
  <2>7. ASSUME NEW i \in 1 .. Len(w)
        PROVE  \E j \in 1 .. Len(s) : w[i] = s[j] /\ s[j] # f
    <3>1. k \in Nat /\ i \in Nat
      BY <2>1, <2>11
    <3>2. CASE i < k /\ i \in 1 .. Len(s) /\ w[i] = s[i]
      BY <2>1, <3>1, <3>2
    <3>3. CASE i >= k /\ i + 1 \in 1 .. Len(s) /\ w[i] = s[i + 1]
      <4>1. i + 1 # k
        BY <3>1, <3>3
      <4> QED BY <2>1, <3>3, <4>1
    <3> QED BY <2>6, <3>2, <3>3
  <2>8. ASSUME NEW i \in 1 .. Len(w), NEW j \in 1 .. Len(w), w[i] = w[j]
        PROVE  i = j
    <3>1. i \in Nat /\ j \in Nat /\ k \in Nat
      BY <2>1, <2>11
    <3>2. /\ \/ i < k /\ i \in 1 .. Len(s) /\ w[i] = s[i]
             \/ i >= k /\ i + 1 \in 1 .. Len(s) /\ w[i] = s[i + 1]
          /\ \/ j < k /\ j \in 1 .. Len(s) /\ w[j] = s[j]
             \/ j >= k /\ j + 1 \in 1 .. Len(s) /\ w[j] = s[j + 1]
      BY <2>6
    <3> QED BY <2>8, <3>1, <3>2
  <2>9. \A i, j \in 1 .. Len(w) : w[i] = w[j] => i = j
    BY <2>8
  <2>10. \A i \in 1 .. Len(w) : \E j \in 1 .. Len(s) : w[i] = s[j] /\ s[j] # f
    BY <2>7
  <2> QED BY <2>11, <2>9, <2>10
<1>3. CASE ~\E i \in DOMAIN s : s[i] = f
  BY <1>1, <1>3 DEF Without
<1> QED BY <1>2, <1>3

\* A socket that is freed leaves the pool, and its place to the next ones.
LEMMA FreeSocketStep ==
  ASSUME ChainInv, Http_socket_free, NEW f, f = This
  PROVE  ChainInv'
<1>1. /\ TypeOk /\ TodoOk /\ OrderOk /\ RefsOk /\ EndAnswerOk /\ EndQueryOk
      /\ AbortQueryOk /\ AbortAnswerOk /\ CloseAnswerOk /\ AbortHttpOk /\ UnwatchOk
      /\ BranchesOk /\ OutcomeOk /\ LinksOk /\ SocketsOk /\ WatchesOk /\ PoolOk
  BY InvParts
<1>2. /\ todo # <<>> /\ todo[1].op = "free_socket" /\ f = todo[1].f /\ 1 \in Positions
      /\ \A q, g : First(q, g) <=> q = "free_socket" /\ g = f
      /\ f \in Fetches
  BY <1>1, DoingIs DEF Http_socket_free
<1>3. /\ active' = active \ {f}
      /\ waiting' = Without(waiting, f)
      /\ resolving' = resolving \ {f}
      /\ UNCHANGED <<started, ref, send, recv, wr, rd, socket, watch, closed, outcome, broken>>
  BY <1>2 DEF Http_socket_free, conns, ios
<1>4. \E n \in Nat :
         /\ Shifts(n)
         /\ \A i \in Positions' : i <= n => todo'[i].op = "connect_queued" /\ todo'[i].f = None
         /\ \A g : /\ Cardinality(Unrefs(g)) \in Nat
                   /\ Cardinality(Unrefs(g)') = Cardinality(Unrefs(g))
  <2>1. \A g : OneIf(First("unref", g)) = 0
    BY <1>2 DEF OneIf
  <2>2. CASE f \in active
    <3>1. /\ Call("connect_queued", None) \in Calls
          /\ Then(<<Call("connect_queued", None)>>)
      BY <1>2, <2>2 DEF Http_socket_free, If, Calls, Call, Ops
    <3>2. /\ Shifts(1) /\ todo'[1].op = "connect_queued" /\ todo'[1].f = None
          /\ \A g : /\ Cardinality(Unrefs(g)) \in Nat
                    /\ Cardinality(Unrefs(g)') = Cardinality(Unrefs(g))
                          + OneIf(Call("connect_queued", None).op = "unref" /\ Call("connect_queued", None).f = g)
                          - OneIf(First("unref", g))
      BY <1>1, <1>2, <3>1, Push1, CallFields
    <3>3. \A g : OneIf(Call("connect_queued", None).op = "unref" /\ Call("connect_queued", None).f = g) = 0
      BY CallFields DEF OneIf
    <3>4. ASSUME NEW g
          PROVE  /\ Cardinality(Unrefs(g)) \in Nat
                 /\ Cardinality(Unrefs(g)') = Cardinality(Unrefs(g))
      <4>1. /\ Cardinality(Unrefs(g)) \in Nat
            /\ Cardinality(Unrefs(g)') = Cardinality(Unrefs(g))
                  + OneIf(Call("connect_queued", None).op = "unref" /\ Call("connect_queued", None).f = g)
                  - OneIf(First("unref", g))
        BY <3>2
      <4>2. Cardinality(Unrefs(g)') = Cardinality(Unrefs(g)) + 0 - 0
        BY <4>1, <2>1, <3>3, Zenon
      <4> QED BY <4>1, <4>2
    <3>5. \A i \in Positions' : i <= 1 => i = 1
      BY <3>2 DEF Shifts, Moves
    <3>6. 1 \in Nat
      OBVIOUS
    <3> QED BY <3>2, <3>4, <3>5, <3>6
  <2>3. CASE f \notin active
    <3>1. Then(<<>>)
      BY <1>2, <2>3 DEF Http_socket_free, If
    <3>2. /\ Shifts(0)
          /\ \A g : /\ Cardinality(Unrefs(g)) \in Nat
                    /\ Cardinality(Unrefs(g)') = Cardinality(Unrefs(g)) - OneIf(First("unref", g))
      BY <1>1, <1>2, <3>1, Push0
    <3>3. \A g : /\ Cardinality(Unrefs(g)) \in Nat
                 /\ Cardinality(Unrefs(g)') = Cardinality(Unrefs(g))
      BY <2>1, <3>2
    <3>4. \A i \in Positions' : ~(i <= 0)
      BY <3>2 DEF Shifts, Moves
    <3>5. 0 \in Nat
      OBVIOUS
    <3> QED BY <3>2, <3>3, <3>4, <3>5
  <2> QED BY <2>2, <2>3
<1>5. PICK n \in Nat :
         /\ Shifts(n)
         /\ \A i \in Positions' : i <= n => todo'[i].op = "connect_queued" /\ todo'[i].f = None
         /\ \A g : /\ Cardinality(Unrefs(g)) \in Nat
                   /\ Cardinality(Unrefs(g)') = Cardinality(Unrefs(g))
  BY <1>4
<1>6. Moves(n) /\ KeepsAfter(n) /\ KeepsBefore(n) /\ KeepsPending /\ todo' \in Seq(Calls)
  BY <1>5 DEF Shifts
<1>7. Plain(n)
  BY <1>5 DEF Plain
<1>8. ASSUME NEW op, NEW g, op \in FirstOnly, First(op, g)'
      PROVE  FALSE
  <2>1. 1 \in Positions' /\ 1 <= n /\ todo'[1].op = op
    BY <1>1, <1>6, <1>8, FirstFrame
  <2> QED BY <1>5, <1>8, <2>1 DEF FirstOnly
<1>9. /\ waiting' \in Seq(Fetches)
      /\ Queued' \subseteq Queued \ {f}
      /\ \A i, j \in 1 .. Len(waiting') : waiting'[i] = waiting'[j] => i = j
  <2>1. waiting \in Seq(Fetches) /\ \A i, j \in 1 .. Len(waiting) : waiting[i] = waiting[j] => i = j
    BY <1>1 DEF TypeOk, PoolOk
  <2>2. /\ waiting' \in Seq(Fetches)
        /\ \A i \in 1 .. Len(waiting') : \E j \in 1 .. Len(waiting) : waiting'[i] = waiting[j] /\ waiting[j] # f
        /\ \A i, j \in 1 .. Len(waiting') : waiting'[i] = waiting'[j] => i = j
    BY <1>3, <2>1, WithoutIs
  <2> QED BY <2>2 DEF Queued
<1>10. TypeOk'
  BY <1>1, <1>3, <1>6, <1>9 DEF TypeOk, Calls
<1>11. RefsOk'
  BY <1>1, <1>3, <1>5 DEF RefsOk
<1>12. TodoOk'
  BY <1>1, <1>5, <1>6, TodoFrame DEF FirstOnly
<1>13. OrderOk'
  BY <1>1, <1>6, <1>7, OrderFrame
<1>14. EndAnswerOk'
  BY <1>1, <1>3, <1>6, <1>7, EndAnswerFrame
<1>15. EndQueryOk'
  BY <1>1, <1>3, <1>6, <1>7, EndQueryFrame
<1>16. AbortQueryOk' /\ AbortHttpOk'
  BY <1>8 DEF AbortQueryOk, AbortHttpOk, FirstOnly
<1>17. AbortAnswerOk'
  BY <1>1, <1>2, <1>3, <1>5, <1>6, AbortAnswerFrame
<1>18. CloseAnswerOk'
  BY <1>1, <1>2, <1>3, <1>6, <1>7, CloseAnswerFrame
<1>19. UnwatchOk'
  <2>1. \A g \in FDs : socket[g] # None \/ g \in closed => socket'[g] # None \/ g \in closed'
    BY <1>3
  <2>2. \A g \in FDs : watch'[g].read \in {watch[g].read, None}
    BY <1>3
  <2> QED BY <1>1, <1>2, <1>3, <1>6, <1>7, <2>1, <2>2, UnwatchFrame
<1>20. BranchesOk'
  BY <1>1, <1>2, <1>3, <1>6 DEF BranchesOk, KeepsPending
<1>21. OutcomeOk'
  BY <1>1, <1>3 DEF OutcomeOk
<1>22. LinksOk'
  BY <1>1, <1>2, <1>3, <1>6 DEF LinksOk, KeepsPending
<1>23. SocketsOk' /\ WatchesOk'
  BY <1>1, <1>3 DEF SocketsOk, WatchesOk
<1>24. PoolOk'
  <2>1. \A g : ~First("free_socket", g)'
    BY <1>8 DEF FirstOnly
  <2>2. \A g : g # f => ~First("free_socket", g)
    BY <1>2
  <2> QED BY <1>1, <1>3, <1>9, <2>1, <2>2 DEF PoolOk
<1> QED BY <1>10, <1>11, <1>12, <1>13, <1>14, <1>15, <1>16, <1>17, <1>18, <1>19, <1>20,
   <1>21, <1>22, <1>23, <1>24 DEF ChainInv

\* The socket at the head of the queue is one that waits for its connection.
LEMMA HeadWaits ==
  ASSUME ChainInv, Doing("connect_queued"), waiting # <<>>
  PROVE  /\ Head(waiting) \in send /\ Head(waiting) \in recv /\ Head(waiting) \in Fetches
         /\ wr[Head(waiting)] = Unset /\ rd[Head(waiting)] = Unset
         /\ Head(waiting) \notin resolving /\ Head(waiting) \notin active
         /\ Tail(waiting) \in Seq(Fetches)
         /\ \A i, j \in 1 .. Len(Tail(waiting)) : Tail(waiting)[i] = Tail(waiting)[j] => i = j
         /\ {Tail(waiting)[i] : i \in 1 .. Len(Tail(waiting))} \subseteq Queued \ {Head(waiting)}
<1> DEFINE h == Head(waiting)
           t == Tail(waiting)
<1>1. /\ TypeOk /\ TodoOk /\ CloseAnswerOk /\ EndQueryOk /\ BranchesOk /\ LinksOk /\ PoolOk
  BY InvParts
<1>2. \A g : ~First("free_socket", g)
  BY <1>1, DoingIs
<1>3. /\ waiting \in Seq(Fetches) /\ Len(waiting) \in Nat /\ Len(waiting) # 0
      /\ \A i, j \in 1 .. Len(waiting) : waiting[i] = waiting[j] => i = j
  BY <1>1, EmptySeq DEF TypeOk, PoolOk
<1>4. /\ 1 \in 1 .. Len(waiting) /\ h = waiting[1] /\ h \in Fetches
      /\ t \in Seq(Fetches) /\ Len(t) = Len(waiting) - 1
      /\ \A i \in 1 .. Len(t) : t[i] = waiting[i + 1]
  BY <1>3
<1> HIDE DEF h, t
<1>5. \A i \in 1 .. Len(t) : i + 1 \in 1 .. Len(waiting) /\ i + 1 # 1
  BY <1>3, <1>4
<1>6. \A i, j \in 1 .. Len(t) : t[i] = t[j] => i = j
  <2> SUFFICES ASSUME NEW i \in 1 .. Len(t), NEW j \in 1 .. Len(t), t[i] = t[j] PROVE i = j
    OBVIOUS
  <2>1. i + 1 = j + 1
    BY <1>3, <1>4, <1>5
  <2> QED BY <2>1
<1>7. \A i \in 1 .. Len(t) : t[i] \in Queued /\ t[i] # h
  BY <1>3, <1>4, <1>5 DEF Queued
<1>8. h \in Queued
  BY <1>4 DEF Queued
<1>9. h \in send /\ h \notin resolving
  BY <1>1, <1>2, <1>8 DEF PoolOk
<1>10. wr[h] = Unset /\ rd[h] = Unset
  BY <1>1, <1>4, <1>8, <1>9 DEF PoolOk, LinksOk
<1>11. Unset \notin FDs /\ Unset # None
  BY NumFDsAssumption, NoneAssumption DEF FDs, Unset
<1>12. h \notin active
  BY <1>1, <1>9, <1>10, <1>11 DEF PoolOk
<1>13. h \in recv
  <2>1. ~Pending("close_answer", h)
    BY <1>1, <1>10, <1>11 DEF Pending, Is, CloseAnswerOk
  <2> QED BY <1>1, <1>4, <1>10, <1>11, <2>1 DEF LinksOk
<1> QED BY <1>4, <1>6, <1>7, <1>9, <1>10, <1>12, <1>13 DEF h, t

\* A connection that cannot be made leaves the queue, and its chain is aborted.
LEMMA ConnectFailsStep ==
  ASSUME ChainInv, ConnectFails, NEW h, h = Head(waiting)
  PROVE  ChainInv'
<1>1. /\ TypeOk /\ TodoOk /\ OrderOk /\ RefsOk /\ EndAnswerOk /\ EndQueryOk
      /\ AbortQueryOk /\ AbortAnswerOk /\ CloseAnswerOk /\ AbortHttpOk /\ UnwatchOk
      /\ BranchesOk /\ OutcomeOk /\ LinksOk /\ SocketsOk /\ WatchesOk /\ PoolOk
  BY InvParts
<1>2. /\ todo # <<>> /\ todo[1].op = "connect_queued" /\ 1 \in Positions
      /\ \A q, g : First(q, g) => q = "connect_queued"
      /\ todo[1] \in Calls /\ todo[1] = Head(todo) /\ todo[1].f = None
  <2>1. Doing("connect_queued")
    BY DEF ConnectFails
  <2>2. /\ todo # <<>> /\ todo[1].op = "connect_queued" /\ 1 \in Positions
        /\ \A q, g : First(q, g) => q = "connect_queued"
    BY <1>1, <2>1, DoingIs
  <2> QED BY <1>1, <2>2, TodoLength DEF TodoOk
<1>3. /\ h \in send /\ h \in recv /\ h \in Fetches /\ wr[h] = Unset
      /\ h \notin resolving /\ h \notin active
      /\ Tail(waiting) \in Seq(Fetches)
      /\ \A i, j \in 1 .. Len(Tail(waiting)) : Tail(waiting)[i] = Tail(waiting)[j] => i = j
      /\ {Tail(waiting)[i] : i \in 1 .. Len(Tail(waiting))} \subseteq Queued \ {h}
  BY HeadWaits DEF ConnectFails, RoomForOne
<1>4. /\ Call("abort_from_http", h) \in Calls
      /\ Then(<<Call("abort_from_http", h), todo[1]>>)
      /\ waiting' = Tail(waiting)
      /\ UNCHANGED <<started, ref, send, recv, wr, rd, socket, watch, closed, resolving, active,
                     outcome, broken>>
  BY <1>2, <1>3 DEF ConnectFails, conns, ios, Calls, Call, Ops
<1>5. /\ Shifts(2)
      /\ todo'[1].op = "abort_from_http" /\ todo'[1].f = h
      /\ todo'[2].op = "connect_queued" /\ todo'[2].f = None
      /\ 1 \in Positions' /\ 2 \in Positions'
      /\ \A g : /\ Cardinality(Unrefs(g)) \in Nat
                /\ Cardinality(Unrefs(g)') = Cardinality(Unrefs(g))
  BY <1>1, <1>2, <1>4, Push2Other, CallFields
<1>6. Moves(2) /\ KeepsAfter(2) /\ KeepsBefore(2) /\ KeepsPending /\ todo' \in Seq(Calls)
  BY <1>5 DEF Shifts
<1>7. /\ waiting' \in Seq(Fetches)
      /\ Queued' \subseteq Queued \ {h}
      /\ \A i, j \in 1 .. Len(waiting') : waiting'[i] = waiting'[j] => i = j
  BY <1>3, <1>4 DEF Queued
<1>8. \A i \in Positions' : i <= 2 => i = 1 \/ i = 2
  BY <1>6 DEF Moves
<1>9. Plain(2)
  BY <1>5, <1>8 DEF Plain
<1>10. ASSUME NEW op, NEW g, op \in FirstOnly, First(op, g)'
       PROVE  op = "abort_from_http" /\ g = h
  <2>1. todo'[1].op = op /\ todo'[1].f = g
    BY <1>1, <1>6, <1>10, FirstFrame
  <2> QED BY <1>5, <2>1
<1>11. TypeOk'
  BY <1>1, <1>4, <1>6, <1>7 DEF TypeOk, Calls
<1>12. RefsOk'
  BY <1>1, <1>4, <1>5 DEF RefsOk
<1>13. TodoOk'
  BY <1>1, <1>3, <1>5, <1>6, <1>8, TodoFrame DEF FirstOnly
<1>14. OrderOk'
  BY <1>1, <1>6, <1>9, OrderFrame
<1>15. EndAnswerOk'
  BY <1>1, <1>4, <1>6, <1>9, EndAnswerFrame
<1>16. EndQueryOk'
  BY <1>1, <1>4, <1>6, <1>9, EndQueryFrame
<1>17. AbortQueryOk'
  BY <1>10 DEF AbortQueryOk, FirstOnly
<1>18. AbortHttpOk'
  <2>1. \A g \in Fetches : First("abort_from_http", g)' => g = h
    BY <1>10 DEF FirstOnly
  <2> QED BY <1>3, <1>4, <1>7, <2>1 DEF AbortHttpOk
<1>19. AbortAnswerOk'
  BY <1>1, <1>2, <1>4, <1>5, <1>6, <1>8, AbortAnswerFrame
<1>20. CloseAnswerOk'
  BY <1>1, <1>2, <1>4, <1>6, <1>9, CloseAnswerFrame
<1>21. UnwatchOk'
  <2>1. \A g \in FDs : socket[g] # None \/ g \in closed => socket'[g] # None \/ g \in closed'
    BY <1>4
  <2>2. \A g \in FDs : watch'[g].read \in {watch[g].read, None}
    BY <1>4
  <2> QED BY <1>1, <1>2, <1>4, <1>6, <1>9, <2>1, <2>2, UnwatchFrame
<1>22. BranchesOk'
  BY <1>1, <1>2, <1>4, <1>6 DEF BranchesOk, KeepsPending
<1>23. OutcomeOk'
  BY <1>1, <1>4 DEF OutcomeOk
<1>24. LinksOk'
  BY <1>1, <1>2, <1>4, <1>6 DEF LinksOk, KeepsPending
<1>25. SocketsOk' /\ WatchesOk'
  BY <1>1, <1>4 DEF SocketsOk, WatchesOk
<1>26. PoolOk'
  <2>1. \A g : ~First("free_socket", g) /\ ~First("free_socket", g)'
    BY <1>2, <1>10 DEF FirstOnly
  <2> QED BY <1>1, <1>4, <1>7, <2>1 DEF PoolOk
<1> QED BY <1>11, <1>12, <1>13, <1>14, <1>15, <1>16, <1>17, <1>18, <1>19, <1>20,
   <1>21, <1>22, <1>23, <1>24, <1>25, <1>26 DEF ChainInv

\* No room, or nobody in the queue.
LEMMA ConnectReturnsStep ==
  ASSUME ChainInv, ConnectReturns
  PROVE  ChainInv'
<1>1. TodoOk
  BY InvParts
<1>2. todo # <<>> /\ todo[1].op = "connect_queued"
  BY <1>1, DoingIs DEF ConnectReturns
<1> QED BY <1>2, ReturnsOk DEF ConnectReturns

\* A connection: the socket takes a descriptor that nobody else has, nor will
\* close.
LEMMA ConnectStep ==
  ASSUME ChainInv, ~ReuseInHandler, NEW fd \in FDs, Connect(fd), NEW h, h = Head(waiting)
  PROVE  ChainInv'
<1>1. /\ TypeOk /\ TodoOk /\ OrderOk /\ RefsOk /\ EndAnswerOk /\ EndQueryOk
      /\ AbortQueryOk /\ AbortAnswerOk /\ CloseAnswerOk /\ AbortHttpOk /\ UnwatchOk
      /\ BranchesOk /\ OutcomeOk /\ LinksOk /\ SocketsOk /\ WatchesOk /\ PoolOk
  BY InvParts
<1>2. /\ todo # <<>> /\ todo[1].op = "connect_queued" /\ 1 \in Positions
      /\ \A q, g : First(q, g) => q = "connect_queued"
  BY <1>1, DoingIs DEF Connect
<1>3. /\ h \in send /\ h \in recv /\ h \in Fetches /\ wr[h] = Unset /\ rd[h] = Unset
      /\ h \notin resolving /\ h \notin active
      /\ Tail(waiting) \in Seq(Fetches)
      /\ \A i, j \in 1 .. Len(Tail(waiting)) : Tail(waiting)[i] = Tail(waiting)[j] => i = j
      /\ {Tail(waiting)[i] : i \in 1 .. Len(Tail(waiting))} \subseteq Queued \ {h}
  BY HeadWaits DEF Connect, RoomForOne
<1>4. /\ socket' = [socket EXCEPT ![fd] = h]
      /\ wr' = [wr EXCEPT ![h] = fd]
      /\ rd' = [rd EXCEPT ![h] = fd]
      /\ watch' = [watch EXCEPT ![fd] = [read |-> h, write |-> h]]
      /\ active' = active \cup {h}
      /\ waiting' = Tail(waiting)
      /\ UNCHANGED <<started, ref, send, recv, closed, resolving, outcome, todo, broken>>
  BY DEF Connect, conns
<1>5. /\ \A g \in FDs : socket'[g] = IF g = fd THEN h ELSE socket[g]
      /\ \A g \in Fetches : wr'[g] = IF g = h THEN fd ELSE wr[g]
      /\ \A g \in Fetches : rd'[g] = IF g = h THEN fd ELSE rd[g]
      /\ \A g \in FDs : watch'[g].read = IF g = fd THEN h ELSE watch[g].read
      /\ \A g \in FDs : watch'[g].write = IF g = fd THEN h ELSE watch[g].write
  BY <1>1, <1>3, <1>4 DEF TypeOk
<1>6. socket[fd] = None /\ fd \notin closed
  BY DEF Connect, NextFd, Free
<1>7. fd # None /\ h # None /\ Unset \notin FDs /\ Unset # None
  BY <1>3, NoneAssumption, NumFDsAssumption DEF FDs, Unset
<1>8. /\ waiting' \in Seq(Fetches)
      /\ Queued' \subseteq Queued \ {h}
      /\ \A i, j \in 1 .. Len(waiting') : waiting'[i] = waiting'[j] => i = j
  BY <1>3, <1>4 DEF Queued
<1>9. \A g \in Fetches : rd[g] # fd
  BY <1>1, <1>6, NoneAssumption DEF SocketsOk
<1>10. TypeOk'
  BY <1>1, <1>3, <1>4, <1>8 DEF TypeOk
<1>11. TodoOk' /\ OrderOk' /\ RefsOk' /\ EndQueryOk' /\ AbortQueryOk' /\ AbortAnswerOk' /\ BranchesOk'
  BY <1>1, <1>4 DEF TodoOk, OrderOk, RefsOk, EndQueryOk, AbortQueryOk, AbortAnswerOk, BranchesOk,
     Positions, Is, First, After, Pending, Unrefs
<1>12. EndAnswerOk'
  <2>1. \A f \in Fetches : ~First("end_answer", f)'
    BY <1>2, <1>4 DEF First, Is
  <2>2. ASSUME NEW i \in Positions, todo[i].op = "eof"
        PROVE  rd'[todo[i].f] \in FDs \cup {None}
    <3>1. todo[i].f \in Fetches /\ rd[todo[i].f] \in FDs \cup {None}
      BY <1>1, <2>2 DEF TodoOk, EndAnswerOk
    <3> QED BY <1>5, <3>1
  <2> QED BY <1>4, <2>1, <2>2 DEF EndAnswerOk, Positions
<1>13. CloseAnswerOk'
  <2>1. ASSUME NEW i \in Positions, todo[i].op = "close_answer"
        PROVE  rd'[todo[i].f] \in FDs
    <3>1. todo[i].f \in Fetches /\ rd[todo[i].f] \in FDs
      BY <1>1, <2>1 DEF TodoOk, CloseAnswerOk
    <3> QED BY <1>5, <3>1
  <2> QED BY <1>1, <1>4, <2>1 DEF CloseAnswerOk, Positions, First, Before, Is
<1>14. AbortHttpOk'
  BY <1>2, <1>4 DEF AbortHttpOk, First, Is
<1>15. UnwatchOk'
  <2>1. ASSUME NEW i \in Positions, todo[i].op = "unwatch"
        PROVE  todo[i].f \in FDs /\ todo[i].f # fd /\ (socket[todo[i].f] # None \/ todo[i].f \in closed)
    BY <1>1, <1>6, <2>1 DEF UnwatchOk, TodoOk
  <2>2. \A i \in Positions : todo[i].op = "unwatch" => socket'[todo[i].f] # None \/ todo[i].f \in closed
    BY <1>5, <2>1
  <2>3. \A i \in Positions : \A f \in Fetches :
           todo[i].op = "unwatch" /\ watch'[todo[i].f].read = f =>
              f \in broken \/ Before(i, "eof", f) \/ Before(i, "end_answer", f) \/ Before(i, "close_answer", f)
    BY <1>1, <1>5, <2>1 DEF UnwatchOk
  <2> QED BY <1>4, <2>2, <2>3 DEF UnwatchOk, Positions, Before, Is
<1>16. OutcomeOk'
  BY <1>1, <1>4 DEF OutcomeOk
<1>17. LinksOk'
  <2>1. \A g : Pending("close_answer", g)' <=> Pending("close_answer", g)
    BY <1>4 DEF Pending, Positions, Is
  <2>2. \A g \in send \cup recv : g \in Fetches
    BY <1>1 DEF TypeOk
  <2> QED BY <1>1, <1>3, <1>4, <1>5, <1>7, <2>1, <2>2 DEF LinksOk
<1>18. SocketsOk'
  <2>1. \A g \in closed : socket'[g] = None
    BY <1>1, <1>5, <1>6 DEF SocketsOk, TypeOk
  <2>2. ASSUME NEW f \in Fetches, rd'[f] \in FDs
        PROVE  socket'[rd'[f]] = f \/ (f \notin send /\ rd'[f] \in closed)
    BY <1>1, <1>3, <1>5, <1>9, <2>2 DEF SocketsOk
  <2>3. ASSUME NEW g \in FDs, socket'[g] # None
        PROVE  rd'[socket'[g]] = g
    <3>1. CASE g = fd
      BY <1>3, <1>5, <3>1
    <3>2. CASE g # fd
      <4>1. socket'[g] = socket[g] /\ socket[g] \in Fetches /\ rd[socket[g]] = g
        BY <1>1, <1>5, <2>3, <3>2 DEF SocketsOk, TypeOk
      <4> QED BY <1>3, <1>5, <1>7, <4>1
    <3> QED BY <3>1, <3>2
  <2> QED BY <1>4, <2>1, <2>2, <2>3 DEF SocketsOk
<1>19. WatchesOk'
  <2>1. \A g \in FDs : watch[g].read \in Fetches \cup {None} /\ watch[g].write \in Fetches \cup {None}
    BY <1>1 DEF TypeOk
  <2>2. \A g \in FDs : watch[g].read # h /\ watch[g].write # h
    BY <1>1, <1>3, <1>7 DEF WatchesOk
  <2>3. \A g \in FDs : watch'[g].read # None => rd'[watch'[g].read] = g
    BY <1>1, <1>3, <1>5, <2>1, <2>2 DEF WatchesOk
  <2>4. \A g \in FDs : watch'[g].write # None => wr'[watch'[g].write] = g
    BY <1>1, <1>3, <1>5, <2>1, <2>2 DEF WatchesOk
  <2>5. \A g \in send : rd'[g] \in FDs => watch'[rd'[g]].read = g \/ g \in broken
    <3>1. \A g \in send : g \in Fetches
      BY <1>1 DEF TypeOk
    <3> QED BY <1>1, <1>3, <1>5, <1>9, <3>1 DEF WatchesOk
  <2> QED BY <1>4, <2>3, <2>4, <2>5 DEF WatchesOk
<1>20. PoolOk'
  <2>1. \A g : ~First("free_socket", g) /\ ~First("free_socket", g)'
    BY <1>2, <1>4 DEF First, Is
  <2>2. \A g \in resolving \cup Queued \cup active : g \in Fetches
    BY <1>1 DEF TypeOk, Queued
  <2>3. \A g \in resolving \cup Queued' : g # h /\ g \in resolving \cup Queued
    BY <1>3, <1>8
  <2> QED BY <1>1, <1>3, <1>4, <1>5, <1>8, <2>1, <2>2, <2>3 DEF PoolOk
<1> QED BY <1>10, <1>11, <1>12, <1>13, <1>14, <1>15, <1>16, <1>17, <1>18, <1>19, <1>20 DEF ChainInv

\* The clients may abort a chain, their own or another, when they are given data.
LEMMA DataStep ==
  ASSUME ChainInv, Data
  PROVE  ChainInv'
<1>1. /\ TypeOk /\ TodoOk /\ OrderOk /\ RefsOk /\ EndAnswerOk /\ EndQueryOk
      /\ AbortQueryOk /\ AbortAnswerOk /\ CloseAnswerOk /\ AbortHttpOk /\ UnwatchOk
      /\ BranchesOk /\ OutcomeOk /\ LinksOk /\ SocketsOk /\ WatchesOk /\ PoolOk
  BY InvParts
<1>2. /\ todo # <<>> /\ todo[1].op = "data" /\ 1 \in Positions
      /\ \A q, g : First(q, g) => q = "data"
  BY <1>1, DoingIs DEF Data
<1>3. UNCHANGED <<conns, ios, pool, outcome, broken>>
  BY DEF Data
<1>a. CASE Then(<<>>)
  BY <1>2, <1>3, <1>a, ReturnsOk
<1>b. ASSUME NEW g \in Fetches, ref[g] > 0, Then(AbortCalls(g))
      PROVE  ChainInv'
<2>1. /\ Call("abort_query", g) \in Calls /\ Call("abort_answer", g) \in Calls
      /\ Then(<<Call("abort_query", g), Call("abort_answer", g)>>)
      /\ UNCHANGED <<started, ref, send, recv, wr, rd, socket, watch, closed, resolving, waiting,
                     active, outcome, broken>>
  BY <1>b, <1>3 DEF AbortCalls, conns, ios, pool, Calls, Call, Ops
<2>2. /\ Shifts(2)
      /\ todo'[1].op = "abort_query" /\ todo'[1].f = g
      /\ todo'[2].op = "abort_answer" /\ todo'[2].f = g
      /\ 1 \in Positions' /\ 2 \in Positions'
      /\ \A f : /\ Cardinality(Unrefs(f)) \in Nat
                /\ Cardinality(Unrefs(f)') = Cardinality(Unrefs(f))
  BY <1>1, <1>2, <2>1, Push2Other, CallFields
<2>3. Moves(2) /\ KeepsAfter(2) /\ KeepsBefore(2) /\ KeepsPending /\ todo' \in Seq(Calls)
  BY <2>2 DEF Shifts
<2>4. \A i \in Positions' : i \in Nat /\ (i = 1 \/ i = 2 \/ i > 2)
  BY <2>3 DEF Moves
<2>5. ASSUME NEW i \in Positions', i > 2
      PROVE  /\ i - 1 \in Positions /\ todo'[i] = todo[i - 1] /\ i - 1 > 1
             /\ todo'[i].op \in {"eof", "unwatch"}
  <3>1. i - 1 \in Positions /\ todo'[i] = todo[i - 1] /\ i - 1 > 1
    BY <2>3, <2>5 DEF Moves
  <3> QED BY <1>1, <1>2, <3>1 DEF OrderOk
<2>6. ASSUME NEW op, NEW f, Pending(op, f), op # "data"
      PROVE  op \in {"eof", "unwatch"}
  <3>1. PICK j \in Positions : Is(j, op, f)
    BY <2>6 DEF Pending
  <3>2. j > 1
    BY <1>2, <2>3, <2>6, <3>1 DEF Is, Moves
  <3> QED BY <1>1, <1>2, <3>1, <3>2 DEF OrderOk, Is
<2>7. g \in recv
  <3>1. Unrefs(g) = {}
    BY <2>6 DEF Unrefs, Pending
  <3>2. Cardinality(Unrefs(g)) = 0
    BY <3>1, FS_EmptySet
  <3>3. g \in send \/ g \in recv
    BY <1>1, <1>b, <3>2 DEF RefsOk
  <3>4. ~Pending("end_query", g)
    BY <2>6
  <3> QED BY <1>1, <3>3, <3>4 DEF BranchesOk
<2>8. ASSUME NEW op, NEW f, op \in FirstOnly, First(op, f)'
      PROVE  op = "abort_query" /\ f = g
  <3>1. todo'[1].op = op /\ todo'[1].f = f
    BY <1>1, <2>3, <2>8, FirstFrame
  <3> QED BY <2>2, <3>1
<2>9. First("abort_query", g)'
  BY <2>2, <2>3, FirstPushed
<2>10. TypeOk'
  BY <1>1, <2>1, <2>3 DEF TypeOk, Calls
<2>11. RefsOk'
  BY <1>1, <2>1, <2>2 DEF RefsOk
<2>12. TodoOk'
  <3>1. \A i \in Positions' : i <= 2 => i = 1 \/ i = 2
    BY <2>3 DEF Moves
  <3> QED BY <1>1, <2>2, <2>3, <3>1, TodoFrame DEF FirstOnly
<2>13. OrderOk'
  <3>1. ASSUME NEW i \in Positions', NEW j \in Positions', i < j
        PROVE  /\ todo'[i].op \notin {"data", "end_answer"}
               /\ todo'[i].op = "eof" => todo'[j].op = "unwatch"
    <4>1. CASE i > 2
      <5>1. j > 2
        BY <2>4, <3>1, <4>1
      <5>2. i - 1 < j - 1
        BY <2>4, <3>1
      <5> QED BY <1>1, <2>5, <4>1, <5>1, <5>2 DEF OrderOk
    <4>2. CASE i = 1 \/ i = 2
      BY <2>2, <4>2
    <4> QED BY <2>4, <4>1, <4>2
  <3> QED BY <3>1 DEF OrderOk
<2>14. EndAnswerOk'
  <3>1. \A f \in Fetches : ~First("end_answer", f)'
    BY <2>8 DEF FirstOnly
  <3>2. \A i \in Positions' : todo'[i].op = "eof" => rd[todo'[i].f] \in FDs \cup {None}
    BY <1>1, <2>2, <2>4, <2>5 DEF EndAnswerOk
  <3> QED BY <2>1, <3>1, <3>2 DEF EndAnswerOk
<2>15. EndQueryOk'
  <3>1. \A i \in Positions' : todo'[i].op # "end_query"
    BY <2>2, <2>4, <2>5
  <3> QED BY <3>1 DEF EndQueryOk
<2>16. AbortQueryOk' /\ AbortHttpOk'
  <3>1. \A f \in Fetches : First("abort_query", f)' => f = g
    BY <2>8 DEF FirstOnly
  <3>2. \A f \in Fetches : ~First("abort_from_http", f)'
    BY <2>8 DEF FirstOnly
  <3> QED BY <1>b, <2>1, <2>2, <3>1, <3>2 DEF AbortQueryOk, AbortHttpOk, Is
<2>17. AbortAnswerOk'
  <3>1. \A i \in Positions' : todo'[i].op = "abort_answer" => i = 2 /\ todo'[i].f = g
    BY <2>2, <2>4, <2>5
  <3>2. ASSUME NEW i \in Positions', todo'[i].op = "abort_answer"
        PROVE  i = 2 /\ First("abort_query", todo[i].f)' /\ todo'[i].f \in recv'
    BY <2>1, <2>7, <2>9, <3>1, <3>2 DEF First, Is
  <3> QED BY <3>1, <3>2 DEF AbortAnswerOk
<2>18. CloseAnswerOk'
  <3>1. \A i \in Positions' : todo'[i].op # "close_answer"
    BY <2>2, <2>4, <2>5
  <3> QED BY <3>1 DEF CloseAnswerOk
<2>19. UnwatchOk'
  <3>1. \A i \in Positions' : todo'[i].op = "unwatch" => socket[todo'[i].f] # None \/ todo'[i].f \in closed
    BY <1>1, <2>2, <2>4, <2>5 DEF UnwatchOk
  <3>2. ASSUME NEW i \in Positions', NEW f \in Fetches,
               todo'[i].op = "unwatch", watch[todo'[i].f].read = f
        PROVE  f \in broken \/ Before(i, "eof", f)' \/ Before(i, "end_answer", f)' \/ Before(i, "close_answer", f)'
    <4>1. i > 2 /\ i - 2 + 1 \in Positions /\ todo'[i] = todo[i - 2 + 1]
      BY <2>2, <2>3, <2>4, <3>2 DEF Moves
    <4>2. \/ f \in broken
          \/ Before(i - 2 + 1, "eof", f) \/ Before(i - 2 + 1, "end_answer", f)
          \/ Before(i - 2 + 1, "close_answer", f)
      BY <1>1, <3>2, <4>1 DEF UnwatchOk
    <4>3. ~First("eof", f) /\ ~First("end_answer", f) /\ ~First("close_answer", f)
      BY <1>2
    <4> QED BY <2>3, <4>1, <4>2, <4>3 DEF KeepsBefore
  <3> QED BY <2>1, <3>1, <3>2 DEF UnwatchOk
<2>20. BranchesOk'
  BY <1>1, <1>2, <2>1, <2>3 DEF BranchesOk, KeepsPending
<2>21. OutcomeOk'
  BY <1>1, <2>1 DEF OutcomeOk
<2>22. LinksOk'
  BY <1>1, <1>2, <2>1, <2>3 DEF LinksOk, KeepsPending
<2>23. SocketsOk' /\ WatchesOk'
  BY <1>1, <2>1 DEF SocketsOk, WatchesOk
<2>24. PoolOk'
  <3>1. \A f : ~First("free_socket", f) /\ ~First("free_socket", f)'
    BY <1>2, <2>8 DEF FirstOnly
  <3> QED BY <1>1, <2>1, <3>1, QueuedFrame DEF PoolOk
<2> QED BY <2>10, <2>11, <2>12, <2>13, <2>14, <2>15, <2>16, <2>17, <2>18, <2>19, <2>20,
   <2>21, <2>22, <2>23, <2>24 DEF ChainInv
<1> QED BY <1>a, <1>b DEF Data, ClientsReact, Listed

\* The calls that follow the end of an answer: its clients' abort of a chain g, if
\* any, then the end of the query.
EndCalls(n, f, g) ==
    /\ \/ n = 2
       \/ n = 4 /\ ref[g] > 0 /\ Is(1, "abort_query", g)' /\ Is(2, "abort_answer", g)'
    /\ n - 1 \in Positions' /\ todo'[n - 1].op = "end_query" /\ todo'[n - 1].f = f
    /\ n \in Positions' /\ todo'[n].op = "unref" /\ todo'[n].f = f
    /\ 1 \in Positions' /\ 2 \in Positions'
    /\ \A h : /\ Cardinality(Unrefs(h)) \in Nat
              /\ Cardinality(Unrefs(h)') = Cardinality(Unrefs(h)) + OneIf(f = h)

\* The end of an answer puts these calls.
LEMMA EndAnswerCalls ==
  ASSUME ChainInv, EndAnswer, NEW f, f = This
  PROVE  \E n \in Nat : \E g \in Fetches : Shifts(n) /\ EndCalls(n, f, g)
<1>1. TodoOk
  BY InvParts
<1>2. /\ todo # <<>> /\ f \in Fetches
      /\ \A q, g : First(q, g) => q = "end_answer"
  BY <1>1, DoingIs DEF EndAnswer
<1>3. \A h : OneIf(First("unref", h)) = 0
  BY <1>2 DEF OneIf
<1>4. Call("end_query", f) \in Calls /\ Call("unref", f) \in Calls
  BY <1>2 DEF Calls, Call, Ops
<1>a. CASE Then(<<>> \o <<Call("end_query", f), Call("unref", f)>>)
  <2>1. Then(<<Call("end_query", f), Call("unref", f)>>)
    BY <1>a DEF Then
  <2>2. /\ Shifts(2)
        /\ todo'[1].op = "end_query" /\ todo'[1].f = f
        /\ todo'[2].op = "unref" /\ todo'[2].f = f
        /\ 1 \in Positions' /\ 2 \in Positions'
        /\ \A h : /\ Cardinality(Unrefs(h)) \in Nat
                  /\ Cardinality(Unrefs(h)') = Cardinality(Unrefs(h)) + OneIf(f = h) - OneIf(First("unref", h))
    BY <1>1, <1>2, <1>4, <2>1, Push2, CallFields
  <2>3. ASSUME NEW h
        PROVE  /\ Cardinality(Unrefs(h)) \in Nat
               /\ Cardinality(Unrefs(h)') = Cardinality(Unrefs(h)) + OneIf(f = h)
    <3>1. /\ Cardinality(Unrefs(h)) \in Nat
          /\ Cardinality(Unrefs(h)') = Cardinality(Unrefs(h)) + OneIf(f = h) - OneIf(First("unref", h))
      BY <2>2
    <3>2. OneIf(First("unref", h)) = 0 /\ OneIf(f = h) = IF h = f THEN 1 ELSE 0
      BY <1>3 DEF OneIf
    <3> QED BY <3>1, <3>2
  <2>4. EndCalls(2, f, f)
    <3>1. 2 - 1 = 1
      OBVIOUS
    <3> QED BY <2>2, <2>3, <3>1 DEF EndCalls
  <2>5. 2 \in Nat
    OBVIOUS
  <2> QED BY <1>2, <2>2, <2>4, <2>5
<1>b. ASSUME NEW g \in Fetches, ref[g] > 0,
             Then(AbortCalls(g) \o <<Call("end_query", f), Call("unref", f)>>)
      PROVE  \E n \in Nat : Shifts(n) /\ EndCalls(n, f, g)
  <2>1. /\ Call("abort_query", g) \in Calls /\ Call("abort_answer", g) \in Calls
        /\ Then(<<Call("abort_query", g), Call("abort_answer", g), Call("end_query", f), Call("unref", f)>>)
    BY <1>b DEF AbortCalls, Then, Calls, Call, Ops
  <2>2. /\ Shifts(4)
        /\ todo'[1].op = "abort_query" /\ todo'[1].f = g
        /\ todo'[2].op = "abort_answer" /\ todo'[2].f = g
        /\ todo'[3].op = "end_query" /\ todo'[3].f = f
        /\ todo'[4].op = "unref" /\ todo'[4].f = f
        /\ 1 \in Positions' /\ 2 \in Positions' /\ 3 \in Positions' /\ 4 \in Positions'
        /\ \A h : /\ Cardinality(Unrefs(h)) \in Nat
                  /\ Cardinality(Unrefs(h)') = Cardinality(Unrefs(h)) + OneIf(f = h) - OneIf(First("unref", h))
    BY <1>1, <1>2, <1>4, <2>1, Push4, CallFields
  <2>3. ASSUME NEW h
        PROVE  /\ Cardinality(Unrefs(h)) \in Nat
               /\ Cardinality(Unrefs(h)') = Cardinality(Unrefs(h)) + OneIf(f = h)
    <3>1. /\ Cardinality(Unrefs(h)) \in Nat
          /\ Cardinality(Unrefs(h)') = Cardinality(Unrefs(h)) + OneIf(f = h) - OneIf(First("unref", h))
      BY <2>2
    <3>2. OneIf(First("unref", h)) = 0 /\ OneIf(f = h) = IF h = f THEN 1 ELSE 0
      BY <1>3 DEF OneIf
    <3> QED BY <3>1, <3>2
  <2>4. EndCalls(4, f, g)
    BY <1>b, <2>2, <2>3 DEF EndCalls, Is
  <2>5. 4 \in Nat
    OBVIOUS
  <2> QED BY <2>2, <2>4, <2>5
<1> QED BY <1>a, <1>b DEF EndAnswer, ClientsReact, Listed

\* The end of the answer is told to the cache, and the query ends after what the
\* clients do with it, whatever that is.
LEMMA EndAnswerStep ==
  ASSUME ChainInv, EndAnswer, NEW f, f = This
  PROVE  ChainInv'
<1>1. /\ TypeOk /\ TodoOk /\ OrderOk /\ RefsOk /\ EndAnswerOk /\ EndQueryOk
      /\ AbortQueryOk /\ AbortAnswerOk /\ CloseAnswerOk /\ AbortHttpOk /\ UnwatchOk
      /\ BranchesOk /\ OutcomeOk /\ LinksOk /\ SocketsOk /\ WatchesOk /\ PoolOk
  BY InvParts
<1>2. /\ todo # <<>> /\ todo[1].op = "end_answer" /\ todo[1].f = f /\ 1 \in Positions
      /\ \A q, g : First(q, g) <=> q = "end_answer" /\ g = f
      /\ f \in Fetches
  BY <1>1, DoingIs DEF EndAnswer
<1>3. /\ recv' = recv \ {f}
      /\ outcome' = [outcome EXCEPT ![f] = "closed"]
      /\ UNCHANGED <<started, ref, send, wr, rd, socket, watch, closed, resolving, waiting, active, broken>>
  BY <1>2 DEF EndAnswer, ios, pool
<1>4. f \in recv /\ rd[f] \in FDs /\ 2 \in Positions /\ Is(2, "close_answer", f)
  BY <1>1, <1>2 DEF EndAnswerOk
<1>5. PICK n \in Nat, g \in Fetches : Shifts(n) /\ EndCalls(n, f, g)
  BY EndAnswerCalls
<1>6. Moves(n) /\ KeepsAfter(n) /\ KeepsBefore(n) /\ KeepsPending /\ todo' \in Seq(Calls)
  BY <1>5 DEF Shifts
<1>7. n = 2 \/ n = 4
  BY <1>5 DEF EndCalls
<1>8. /\ n - 1 \in Positions' /\ todo'[n - 1].op = "end_query" /\ todo'[n - 1].f = f
      /\ n \in Positions' /\ todo'[n].op = "unref" /\ todo'[n].f = f
      /\ 1 \in Positions' /\ 2 \in Positions'
      /\ n = 4 => /\ ref[g] > 0
                  /\ todo'[1].op = "abort_query" /\ todo'[1].f = g
                  /\ todo'[2].op = "abort_answer" /\ todo'[2].f = g
  BY <1>5 DEF EndCalls, Is
<1>9. \A h : /\ Cardinality(Unrefs(h)) \in Nat
             /\ Cardinality(Unrefs(h)') = Cardinality(Unrefs(h)) + OneIf(f = h)
  BY <1>5 DEF EndCalls
<1>10. \A i \in Positions' : i \in Nat /\ (i > n \/ i = n \/ i = n - 1 \/ (n = 4 /\ i \in {1, 2}))
  BY <1>6, <1>7 DEF Moves
<1>11. ASSUME NEW i \in Positions', i > n
       PROVE  /\ i - n + 1 \in Positions /\ todo'[i] = todo[i - n + 1] /\ i - n + 1 > 1
              /\ todo'[i].op \in {"close_answer", "unwatch"}
  <2>1. i - n + 1 \in Positions /\ todo'[i] = todo[i - n + 1] /\ i - n + 1 > 1
    BY <1>6, <1>11 DEF Moves
  <2> QED BY <1>1, <1>2, <2>1 DEF OrderOk
<1>12. ASSUME NEW op, NEW h, Pending(op, h), op # "end_answer"
       PROVE  op \in {"close_answer", "unwatch"}
  <2>1. PICK j \in Positions : Is(j, op, h)
    BY <1>12 DEF Pending
  <2>2. j > 1
    BY <1>2, <1>6, <1>12, <2>1 DEF Is, Moves
  <2> QED BY <1>1, <1>2, <2>1, <2>2 DEF OrderOk, Is
<1>13. ASSUME n = 4
       PROVE  g \in recv
  <2>1. Unrefs(g) = {}
    BY <1>12 DEF Unrefs, Pending
  <2>2. Cardinality(Unrefs(g)) = 0
    BY <2>1, FS_EmptySet
  <2>3. ref[g] > 0
    BY <1>8, <1>13
  <2>4. g \in send \/ g \in recv
    BY <1>1, <2>2, <2>3 DEF RefsOk
  <2>5. ~Pending("end_query", g)
    BY <1>12
  <2> QED BY <1>1, <2>4, <2>5 DEF BranchesOk
<1>14. ASSUME NEW op, NEW h, op \in FirstOnly, First(op, h)'
       PROVE  op = "abort_query" /\ h = g /\ n = 4
  <2>1. todo'[1].op = op /\ todo'[1].f = h
    BY <1>1, <1>6, <1>14, FirstFrame
  <2>2. n = 2 => n - 1 = 1
    OBVIOUS
  <2> QED BY <1>7, <1>8, <1>14, <2>1, <2>2 DEF FirstOnly
<1>15. n = 4 => First("abort_query", g)'
  BY <1>6, <1>8, FirstPushed
<1>16. TypeOk'
  BY <1>1, <1>2, <1>3, <1>6 DEF TypeOk, Calls
<1>17. RefsOk'
  <2> SUFFICES ASSUME NEW h \in Fetches
               PROVE  ref'[h] = (IF h \in send' THEN 1 ELSE 0) + (IF h \in recv' THEN 1 ELSE 0)
                                   + Cardinality(Unrefs(h)')
    BY DEF RefsOk
  <2>1. /\ Cardinality(Unrefs(h)) \in Nat
        /\ Cardinality(Unrefs(h)') = Cardinality(Unrefs(h)) + OneIf(f = h)
    BY <1>9
  <2>2. ref[h] = (IF h \in send THEN 1 ELSE 0) + (IF h \in recv THEN 1 ELSE 0)
                    + Cardinality(Unrefs(h))
    BY <1>1 DEF RefsOk
  <2>3. OneIf(f = h) = IF h = f THEN 1 ELSE 0
    BY DEF OneIf
  <2> QED BY <1>3, <1>4, <2>1, <2>2, <2>3
<1>18. TodoOk'
  <2>1. \A i \in Positions' : i <= n => i = n \/ i = n - 1 \/ (n = 4 /\ i \in {1, 2})
    BY <1>10
  <2> QED BY <1>1, <1>2, <1>6, <1>8, <2>1, TodoFrame DEF FirstOnly
<1>19. \A i \in Positions' : todo'[i].op \in
          {"abort_query", "abort_answer", "end_query", "unref", "close_answer", "unwatch"}
  BY <1>8, <1>10, <1>11
<1>20. OrderOk'
  BY <1>19 DEF OrderOk
<1>21. EndAnswerOk'
  <2>1. \A h \in Fetches : ~First("end_answer", h)'
    BY <1>14 DEF FirstOnly
  <2> QED BY <1>19, <2>1 DEF EndAnswerOk
<1>22. EndQueryOk'
  <2>1. ASSUME NEW i \in Positions', todo'[i].op = "end_query"
        PROVE  i = n - 1
    BY <1>8, <1>10, <1>11, <2>1
  <2>2. n - 1 < n
    OBVIOUS
  <2>3. ASSUME NEW i \in Positions', todo'[i].op = "end_query"
        PROVE  todo'[i].f \notin recv' /\ \E j \in Positions' : i < j /\ todo'[j].op = "unref" /\ todo'[j].f = todo'[i].f
    BY <1>3, <1>8, <2>1, <2>2, <2>3
  <2> QED BY <2>3 DEF EndQueryOk, After, Is
<1>23. AbortQueryOk' /\ AbortHttpOk'
  <2>1. \A h \in Fetches : First("abort_query", h)' => h = g /\ n = 4
    BY <1>14 DEF FirstOnly
  <2>2. \A h \in Fetches : ~First("abort_from_http", h)'
    BY <1>14 DEF FirstOnly
  <2> QED BY <1>3, <1>8, <2>1, <2>2 DEF AbortQueryOk, AbortHttpOk, Is
<1>24. AbortAnswerOk'
  <2>1. ASSUME NEW i \in Positions', todo'[i].op = "abort_answer"
        PROVE  n = 4 /\ i = 2 /\ todo'[i].f = g
    BY <1>8, <1>10, <1>11, <2>1
  <2>2. ASSUME NEW i \in Positions', todo'[i].op = "abort_answer"
        PROVE  i = 2 /\ First("abort_query", todo[i].f)'
    BY <1>15, <2>1, <2>2 DEF First, Is
  <2>3. ASSUME NEW i \in Positions', todo'[i].op = "abort_answer"
        PROVE  \/ todo'[i].f \in recv'
               \/ \E j \in Positions' : i < j /\ todo'[j].op = "unref" /\ todo'[j].f = todo'[i].f
    <3>1. n = 4 /\ i = 2 /\ todo'[i].f = g
      BY <2>1, <2>3
    <3>2. CASE g = f
      <4>1. 2 < n
        BY <3>1
      <4> QED BY <1>8, <3>1, <3>2, <4>1
    <3>3. CASE g # f
      BY <1>3, <1>13, <3>1, <3>3
    <3> QED BY <3>2, <3>3
  <2> QED BY <2>1, <2>2, <2>3 DEF AbortAnswerOk, After, Is
<1>25. CloseAnswerOk'
  <2>1. ASSUME NEW i \in Positions', todo'[i].op = "close_answer"
        PROVE  i > n /\ i - n + 1 \in Positions /\ todo'[i] = todo[i - n + 1]
    BY <1>8, <1>10, <1>11, <2>1
  <2>2. ASSUME NEW i \in Positions', todo'[i].op = "close_answer"
        PROVE  rd'[todo'[i].f] \in FDs /\ todo'[i].f \notin recv'
    BY <1>1, <1>2, <1>3, <2>1, <2>2 DEF CloseAnswerOk
  <2>3. ASSUME NEW i \in Positions', NEW h, todo'[i].op = "close_answer", todo'[i].f = h
        PROVE  h \notin send' \/ \E j \in Positions' : j < i /\ todo'[j].op = "end_query" /\ todo'[j].f = h
    <3>1. i > n /\ i - n + 1 \in Positions /\ todo'[i] = todo[i - n + 1]
      BY <2>1, <2>3
    <3>2. h \notin send \/ Before(i - n + 1, "end_answer", h) \/ Before(i - n + 1, "end_query", h)
      BY <1>1, <2>3, <3>1 DEF CloseAnswerOk
    <3>3. CASE Before(i - n + 1, "end_answer", h)
      <4>1. PICK j \in Positions : Is(j, "end_answer", h)
        BY <3>3 DEF Before
      <4>2. h = f
        BY <1>1, <1>2, <4>1 DEF Is, TodoOk, FirstOnly
      <4>3. n - 1 < i
        BY <1>10, <3>1
      <4> QED BY <1>8, <4>2, <4>3
    <3>4. CASE Before(i - n + 1, "end_query", h)
      <4>1. Pending("end_query", h)
        BY <3>4 DEF Before, Pending
      <4> QED BY <1>12, <4>1
    <3> QED BY <1>3, <3>2, <3>3, <3>4
  <2>4. ASSUME NEW i \in Positions', NEW j \in Positions',
               todo'[i].op = "close_answer", todo'[j].op = "close_answer", todo'[i].f = todo'[j].f
        PROVE  i = j
    <3>1. i - n + 1 = j - n + 1
      BY <1>1, <2>1, <2>4 DEF CloseAnswerOk
    <3> QED BY <1>10, <3>1
  <2> QED BY <2>2, <2>3, <2>4 DEF CloseAnswerOk, Before, Is
<1>26. UnwatchOk'
  <2>1. ASSUME NEW i \in Positions', todo'[i].op = "unwatch"
        PROVE  i > n /\ i - n + 1 \in Positions /\ todo'[i] = todo[i - n + 1]
    BY <1>8, <1>10, <1>11, <2>1
  <2>2. \A i \in Positions' : todo'[i].op = "unwatch" => socket[todo'[i].f] # None \/ todo'[i].f \in closed
    BY <1>1, <2>1 DEF UnwatchOk
  <2>3. ASSUME NEW i \in Positions', NEW h \in Fetches,
               todo'[i].op = "unwatch", watch[todo'[i].f].read = h
        PROVE  h \in broken \/ Before(i, "close_answer", h)'
    <3>1. i > n /\ i - n + 1 \in Positions /\ todo'[i] = todo[i - n + 1]
      BY <2>1, <2>3
    <3>2. \/ h \in broken
          \/ Before(i - n + 1, "eof", h) \/ Before(i - n + 1, "end_answer", h)
          \/ Before(i - n + 1, "close_answer", h)
      BY <1>1, <2>3, <3>1 DEF UnwatchOk
    <3>3. CASE Before(i - n + 1, "eof", h)
      <4>1. Pending("eof", h)
        BY <3>3 DEF Before, Pending
      <4> QED BY <1>12, <4>1
    <3>4. CASE Before(i - n + 1, "end_answer", h)
      <4>1. PICK j \in Positions : Is(j, "end_answer", h)
        BY <3>4 DEF Before
      <4>2. h = f
        BY <1>1, <1>2, <4>1 DEF Is, TodoOk, FirstOnly
      <4>3. i - n + 1 > 1 /\ i - n + 1 # 2
        BY <1>4, <1>11, <2>3, <3>1 DEF Is
      <4>4. 2 < i - n + 1
        BY <1>10, <4>3
      <4>5. Before(i - n + 1, "close_answer", h)
        BY <1>4, <4>2, <4>4 DEF Before
      <4> QED BY <1>2, <1>6, <3>1, <4>5 DEF KeepsBefore
    <3>5. CASE Before(i - n + 1, "close_answer", h)
      BY <1>2, <1>6, <3>1, <3>5 DEF KeepsBefore
    <3> QED BY <3>2, <3>3, <3>4, <3>5
  <2> QED BY <1>3, <2>2, <2>3 DEF UnwatchOk
<1>27. BranchesOk'
  <2>1. \A h : Pending("end_query", h) => Pending("end_query", h)'
    BY <1>2, <1>6 DEF KeepsPending
  <2>2. \A h : Pending("abort_answer", h) => Pending("abort_answer", h)'
    BY <1>2, <1>6 DEF KeepsPending
  <2>3. Pending("end_query", f)'
    BY <1>8 DEF Pending, Is
  <2> QED BY <1>1, <1>3, <2>1, <2>2, <2>3 DEF BranchesOk
<1>28. OutcomeOk'
  <2>1. f \in started
    BY <1>1, <1>4 DEF BranchesOk
  <2>2. \A h \in Fetches : outcome'[h] = IF h = f THEN "closed" ELSE outcome[h]
    BY <1>1, <1>3 DEF TypeOk
  <2> QED BY <1>1, <1>3, <2>1, <2>2 DEF OutcomeOk
<1>29. LinksOk'
  <2>1. \A h : Pending("close_answer", h) => Pending("close_answer", h)'
    BY <1>2, <1>6 DEF KeepsPending
  <2>2. Pending("close_answer", f)
    BY <1>4 DEF Pending
  <2> QED BY <1>1, <1>3, <2>1, <2>2 DEF LinksOk
<1>30. SocketsOk' /\ WatchesOk'
  BY <1>1, <1>3 DEF SocketsOk, WatchesOk
<1>31. PoolOk'
  <2>1. \A h : ~First("free_socket", h) /\ ~First("free_socket", h)'
    BY <1>2, <1>14 DEF FirstOnly
  <2> QED BY <1>1, <1>3, <2>1, QueuedFrame DEF PoolOk
<1> QED BY <1>16, <1>17, <1>18, <1>20, <1>21, <1>22, <1>23, <1>24, <1>25, <1>26, <1>27,
   <1>28, <1>29, <1>30, <1>31 DEF ChainInv

----------------------------------------------------------------------------
(* The handlers: they start when no call is in progress. *)

\* When no call is to come both branches are open, or neither.
LEMMA IdleIs ==
  ASSUME ChainInv, todo = <<>>
  PROVE  /\ \A op, f : ~First(op, f) /\ ~Pending(op, f)
         /\ send = recv /\ recv \subseteq started
         /\ \A f \in Fetches : ref[f] = IF f \in recv THEN 2 ELSE 0
         /\ \A f \in Fetches : rd[f] # None <=> f \in recv
         /\ \A f \in Fetches : wr[f] = rd[f]
         /\ \A f \in Fetches : rd[f] \in FDs => socket[rd[f]] = f
         /\ \A f \in resolving \cup Queued \cup active : f \in recv
<1>1. /\ TypeOk /\ RefsOk /\ BranchesOk /\ LinksOk /\ SocketsOk /\ PoolOk
  BY InvParts
<1>2. Positions = {}
  BY DEF Positions
<1>3. \A op, f : ~First(op, f) /\ ~Pending(op, f)
  BY <1>2 DEF First, Pending
<1>4. send = recv /\ recv \subseteq started
  BY <1>1, <1>3 DEF BranchesOk
<1>5. \A f : Cardinality(Unrefs(f)) = 0
  <2>1. \A f : Unrefs(f) = {}
    BY <1>2 DEF Unrefs
  <2> QED BY <2>1, FS_EmptySet
<1>6. \A f \in Fetches : ref[f] = IF f \in recv THEN 2 ELSE 0
  BY <1>1, <1>4, <1>5 DEF RefsOk
<1>7. \A f \in Fetches : (rd[f] # None <=> f \in recv) /\ wr[f] = rd[f]
  BY <1>1, <1>3, <1>4 DEF LinksOk
<1>8. \A f \in Fetches : rd[f] \in FDs => socket[rd[f]] = f
  BY <1>1, <1>4, <1>7, NoneAssumption DEF SocketsOk
<1>9. \A f \in resolving \cup Queued \cup active : f \in recv
  BY <1>1, <1>3, <1>4 DEF PoolOk
<1> QED BY <1>3, <1>4, <1>6, <1>7, <1>8, <1>9

\* A handler that starts gives no reference back.
LEMMA NoUnrefs ==
  ASSUME \A i \in Positions' : todo'[i].op # "unref"
  PROVE  \A f : Cardinality(Unrefs(f)') = 0
<1>1. \A f : Unrefs(f)' = {}
  BY DEF Unrefs, Is
<1> QED BY <1>1, FS_EmptySet

\* What a handler calls first.
Starts == {"data", "eof", "unwatch", "abort_query", "abort_answer", "abort_from_http", "connect_queued"}

\* What holds of the fetches is not disturbed by a handler that starts.
LEMMA StartFrame ==
  ASSUME ChainInv, todo = <<>>, closed' = {}, UNCHANGED <<conns, wr, rd, socket, outcome>>,
         todo' \in Seq(Calls), \A i \in Positions' : todo'[i].op \in Starts
  PROVE  /\ RefsOk' /\ EndQueryOk' /\ CloseAnswerOk' /\ BranchesOk' /\ OutcomeOk' /\ LinksOk' /\ SocketsOk'
         /\ \A f : ~First("end_answer", f)' /\ ~First("free_socket", f)'
<1>1. /\ TypeOk /\ OutcomeOk /\ LinksOk /\ SocketsOk
  BY InvParts
<1>2. /\ send = recv /\ recv \subseteq started
      /\ \A f \in Fetches : ref[f] = IF f \in recv THEN 2 ELSE 0
      /\ \A f \in Fetches : rd[f] # None <=> f \in recv
      /\ \A f \in Fetches : wr[f] = rd[f]
      /\ \A f \in Fetches : rd[f] \in FDs => socket[rd[f]] = f
  BY IdleIs
<1>3. UNCHANGED <<started, ref, send, recv, wr, rd, socket, outcome>>
  BY DEF conns
<1>4. \A i \in Positions' : todo'[i].op \notin {"unref", "end_query", "close_answer", "end_answer", "free_socket"}
  BY DEF Starts
<1>5. RefsOk'
  <2>1. \A f : Cardinality(Unrefs(f)') = 0
    BY <1>4, NoUnrefs
  <2> QED BY <1>2, <1>3, <2>1 DEF RefsOk
<1>6. EndQueryOk' /\ CloseAnswerOk'
  BY <1>4 DEF EndQueryOk, CloseAnswerOk
<1>7. BranchesOk'
  BY <1>2, <1>3 DEF BranchesOk
<1>8. OutcomeOk'
  BY <1>1, <1>3 DEF OutcomeOk
<1>9. LinksOk'
  BY <1>1, <1>2, <1>3 DEF LinksOk
<1>10. SocketsOk'
  BY <1>1, <1>2, <1>3 DEF SocketsOk
<1>11. ASSUME NEW op, NEW f, First(op, f)'
       PROVE  op \notin {"end_answer", "free_socket"}
  <2>1. 1 \in Positions' /\ todo'[1].op = op
    BY <1>11, EmptySeq DEF First, Is, Positions
  <2> QED BY <1>4, <2>1
<1> QED BY <1>5, <1>6, <1>7, <1>8, <1>9, <1>10, <1>11

\* The rest, when the handler makes no call.
LEMMA NothingStarts ==
  ASSUME todo' = <<>>
  PROVE  /\ todo' \in Seq(Calls) /\ Positions' = {} /\ \A op, f : ~First(op, f)'
         /\ TodoOk' /\ OrderOk' /\ EndAnswerOk' /\ EndQueryOk' /\ AbortQueryOk' /\ AbortAnswerOk'
         /\ CloseAnswerOk' /\ AbortHttpOk' /\ UnwatchOk'
<1>1. todo' \in Seq(Calls) /\ Positions' = {}
  BY DEF Positions
<1>2. \A op, f : ~First(op, f)'
  BY DEF First
<1> QED BY <1>1, <1>2 DEF TodoOk, OrderOk, EndAnswerOk, EndQueryOk, AbortQueryOk, AbortAnswerOk,
        CloseAnswerOk, AbortHttpOk, UnwatchOk

\* IO_fd_write_cb: the query is sent, or cannot be, and is not watched for any more.
LEMMA WriteStep ==
  ASSUME ChainInv, NEW fd \in FDs, IO_fd_write_cb(fd)
  PROVE  ChainInv'
<1>1. TypeOk /\ WatchesOk /\ PoolOk
  BY InvParts
<1>2. /\ todo = <<>> /\ todo' = <<>> /\ closed' = {}
      /\ UNCHANGED <<started, ref, send, recv, wr, rd, socket, resolving, waiting, active, outcome, broken>>
  BY DEF IO_fd_write_cb, Handle, Idle, conns, pool
<1>3. /\ watch' \in [FDs -> [read : Fetches \cup {None}, write : Fetches \cup {None}]]
      /\ \A g \in FDs : g # fd => watch'[g] = watch[g]
      /\ watch'[fd].read = watch[fd].read /\ watch'[fd].write = None
  <2>1. Unwatch(fd, FALSE, TRUE)
    BY DEF IO_fd_write_cb
  <2> QED BY <1>1, <2>1, UnwatchIs
<1>4. /\ todo' \in Seq(Calls) /\ Positions' = {} /\ \A op, f : ~First(op, f)'
      /\ TodoOk' /\ OrderOk' /\ EndAnswerOk' /\ EndQueryOk' /\ AbortQueryOk' /\ AbortAnswerOk'
      /\ CloseAnswerOk' /\ AbortHttpOk' /\ UnwatchOk'
  BY <1>2, NothingStarts
<1>5. RefsOk' /\ BranchesOk' /\ OutcomeOk' /\ LinksOk' /\ SocketsOk'
  BY <1>2, <1>4, StartFrame DEF conns
<1>6. TypeOk'
  BY <1>1, <1>2, <1>3, <1>4 DEF TypeOk, Calls
<1>7. WatchesOk'
  BY <1>1, <1>2, <1>3 DEF WatchesOk
<1>8. PoolOk'
  <2>1. \A f : ~First("free_socket", f)
    BY <1>2, IdleIs
  <2> QED BY <1>1, <1>2, <1>4, <2>1, QueuedFrame DEF PoolOk
<1> QED BY <1>4, <1>5, <1>6, <1>7, <1>8 DEF ChainInv

\* a_Capi_open_url: a chain is built, with a reference for each branch.
LEMMA OpenStep ==
  ASSUME ChainInv, NEW f \in Fetches, a_Capi_open_url(f)
  PROVE  ChainInv'
<1>1. TypeOk /\ OutcomeOk /\ LinksOk /\ SocketsOk /\ WatchesOk /\ PoolOk
  BY InvParts
<1>2. /\ todo = <<>> /\ todo' = <<>> /\ closed' = {} /\ f \notin started
      /\ started' = started \cup {f} /\ send' = send \cup {f} /\ recv' = recv \cup {f}
      /\ ref' = [ref EXCEPT ![f] = 2]
      /\ wr' = [wr EXCEPT ![f] = Unset] /\ rd' = [rd EXCEPT ![f] = Unset]
      /\ resolving' = resolving \cup {f}
      /\ UNCHANGED <<socket, watch, waiting, active, outcome, broken>>
  BY DEF a_Capi_open_url, Handle, Idle
<1>3. /\ \A op, g : ~First(op, g)
      /\ send = recv /\ recv \subseteq started
      /\ \A g \in Fetches : ref[g] = IF g \in recv THEN 2 ELSE 0
      /\ \A g \in Fetches : rd[g] # None <=> g \in recv
      /\ \A g \in Fetches : wr[g] = rd[g]
      /\ \A g \in Fetches : rd[g] \in FDs => socket[rd[g]] = g
      /\ \A g \in resolving \cup Queued \cup active : g \in recv
  BY <1>2, IdleIs
<1>4. /\ todo' \in Seq(Calls) /\ Positions' = {} /\ \A op, g : ~First(op, g)'
      /\ TodoOk' /\ OrderOk' /\ EndAnswerOk' /\ EndQueryOk' /\ AbortQueryOk' /\ AbortAnswerOk'
      /\ CloseAnswerOk' /\ AbortHttpOk' /\ UnwatchOk'
  BY <1>2, NothingStarts
<1>5. f \notin send /\ f \notin recv /\ rd[f] = None /\ wr[f] = None
  BY <1>2, <1>3
<1>6. Unset \notin FDs /\ Unset # None /\ None \notin FDs /\ f # None
  BY NumFDsAssumption, NoneAssumption DEF FDs, Unset
<1>7. /\ \A g \in Fetches : ref'[g] = IF g = f THEN 2 ELSE ref[g]
      /\ \A g \in Fetches : wr'[g] = IF g = f THEN Unset ELSE wr[g]
      /\ \A g \in Fetches : rd'[g] = IF g = f THEN Unset ELSE rd[g]
  BY <1>1, <1>2 DEF TypeOk
<1>8. TypeOk'
  BY <1>1, <1>2, <1>4 DEF TypeOk, Calls
<1>9. RefsOk'
  <2>1. \A g : Cardinality(Unrefs(g)') = 0
    BY <1>4, NoUnrefs
  <2> QED BY <1>2, <1>3, <1>5, <1>7, <2>1 DEF RefsOk
<1>10. BranchesOk'
  BY <1>2, <1>3 DEF BranchesOk
<1>11. OutcomeOk'
  BY <1>1, <1>2 DEF OutcomeOk
<1>12. LinksOk'
  <2>1. \A g \in send' \cup recv' : g \in Fetches
    BY <1>8 DEF TypeOk
  <2> QED BY <1>2, <1>3, <1>5, <1>6, <1>7, <2>1 DEF LinksOk
<1>13. SocketsOk'
  <2>1. \A g \in FDs : socket[g] # f /\ socket[g] \in Fetches \cup {None}
    BY <1>1, <1>5, <1>6 DEF SocketsOk, TypeOk
  <2> QED BY <1>1, <1>2, <1>3, <1>6, <1>7, <2>1 DEF SocketsOk
<1>14. WatchesOk'
  <2>1. \A g \in FDs : /\ watch[g].read # f /\ watch[g].read \in Fetches \cup {None}
                       /\ watch[g].write # f /\ watch[g].write \in Fetches \cup {None}
    BY <1>1, <1>5, <1>6 DEF WatchesOk, TypeOk
  <2>2. \A g \in send : g \in Fetches
    BY <1>1 DEF TypeOk
  <2> QED BY <1>1, <1>2, <1>6, <1>7, <2>1, <2>2 DEF WatchesOk
<1>15. PoolOk'
  <2>1. Queued' = Queued
    BY <1>2, QueuedFrame
  <2>2. \A g \in resolving \cup Queued \cup active : g # f /\ g \in Fetches
    BY <1>1, <1>3, <1>5 DEF TypeOk
  <2> QED BY <1>1, <1>2, <1>3, <1>4, <1>7, <2>1, <2>2 DEF PoolOk
<1> QED BY <1>4, <1>8, <1>9, <1>10, <1>11, <1>12, <1>13, <1>14, <1>15 DEF ChainInv

\* a_Capi_conn_abort_by_url: a listed connection has both branches.
LEMMA AbortByUrlStep ==
  ASSUME ChainInv, NEW f \in Fetches, a_Capi_conn_abort_by_url(f)
  PROVE  ChainInv'
<1>1. TypeOk /\ WatchesOk /\ PoolOk
  BY InvParts
<1>2. /\ todo = <<>> /\ closed' = {} /\ ref[f] > 0
      /\ todo' = <<Call("abort_query", f), Call("abort_answer", f)>>
      /\ UNCHANGED <<conns, wr, rd, socket, watch, pool, outcome, broken>>
  BY DEF a_Capi_conn_abort_by_url, Handle, Idle, AbortCalls, Listed
<1>3. UNCHANGED <<started, ref, send, recv, resolving, waiting, active>>
  BY <1>2 DEF conns, pool
<1>4. Call("abort_query", f) \in Calls /\ Call("abort_answer", f) \in Calls
  BY DEF Calls, Call, Ops
<1>5. /\ todo' \in Seq(Calls) /\ Len(todo') = 2
      /\ todo'[1] = Call("abort_query", f) /\ todo'[2] = Call("abort_answer", f)
  BY <1>2, <1>4
<1>6. /\ 1 \in Positions' /\ 2 \in Positions'
      /\ \A i \in Positions' : i = 1 \/ i = 2
  BY <1>5 DEF Positions
<1>7. /\ todo'[1].op = "abort_query" /\ todo'[1].f = f
      /\ todo'[2].op = "abort_answer" /\ todo'[2].f = f
  BY <1>5, CallFields
<1>8. RefsOk' /\ EndQueryOk' /\ CloseAnswerOk' /\ BranchesOk' /\ OutcomeOk' /\ LinksOk' /\ SocketsOk'
      /\ \A g : ~First("end_answer", g)' /\ ~First("free_socket", g)'
  BY <1>2, <1>5, <1>6, <1>7, StartFrame DEF Starts
<1>9. f \in recv
  <2>1. ref[f] = IF f \in recv THEN 2 ELSE 0
    BY <1>2, IdleIs
  <2> QED BY <1>2, <2>1
<1>10. TypeOk'
  BY <1>1, <1>2, <1>3, <1>5 DEF TypeOk, Calls
<1>11. TodoOk'
  BY <1>5, <1>6, <1>7 DEF TodoOk, FirstOnly
<1>12. OrderOk' /\ EndAnswerOk' /\ UnwatchOk'
  BY <1>6, <1>7, <1>8 DEF OrderOk, EndAnswerOk, UnwatchOk
<1>13. \A q, g : First(q, g)' <=> q = "abort_query" /\ g = f
  <2>1. todo' # <<>>
    BY <1>2
  <2> QED BY <1>7, <2>1 DEF First, Is
<1>14. AbortQueryOk' /\ AbortHttpOk'
  <2>1. Is(2, "abort_answer", f)'
    BY <1>7 DEF Is
  <2>2. \A g \in Fetches : First("abort_query", g)' => g = f
    BY <1>13
  <2> QED BY <1>2, <1>3, <1>6, <1>13, <2>1, <2>2 DEF AbortQueryOk, AbortHttpOk, Is
<1>15. AbortAnswerOk'
  <2>1. ASSUME NEW i \in Positions', todo'[i].op = "abort_answer"
        PROVE  i = 2 /\ todo'[i].f = f
    BY <1>6, <1>7, <2>1
  <2>2. ASSUME NEW i \in Positions', todo'[i].op = "abort_answer"
        PROVE  i = 2 /\ First("abort_query", todo[i].f)' /\ todo'[i].f \in recv'
    <3>1. i = 2 /\ todo'[i].f = f
      BY <2>1, <2>2
    <3>2. First("abort_query", f)'
      BY <1>13
    <3> QED BY <1>3, <1>9, <3>1, <3>2 DEF First, Is
  <2> QED BY <2>1, <2>2 DEF AbortAnswerOk
<1>16. WatchesOk'
  BY <1>1, <1>2, <1>3 DEF WatchesOk
<1>17. PoolOk'
  <2>1. \A g : ~First("free_socket", g)
    BY <1>2, IdleIs
  <2> QED BY <1>1, <1>2, <1>3, <1>8, <2>1, QueuedFrame DEF PoolOk
<1> QED BY <1>8, <1>10, <1>11, <1>12, <1>14, <1>15, <1>16, <1>17 DEF ChainInv

\* The rest, when the handler makes one call of Http.
LEMMA HttpStarts ==
  ASSUME NEW op \in {"abort_from_http", "connect_queued"}, NEW f \in Fetches \cup {None},
         todo' = <<Call(op, f)>>, op = "connect_queued" => f = None,
         op = "abort_from_http" => f \in Fetches
  PROVE  /\ todo' \in Seq(Calls) /\ \A i \in Positions' : todo'[i].op \in Starts
         /\ \A q, g : First(q, g)' <=> q = op /\ g = f
         /\ TodoOk' /\ OrderOk' /\ EndAnswerOk' /\ AbortQueryOk' /\ AbortAnswerOk' /\ UnwatchOk'
<1>1. Call(op, f) \in Calls
  BY DEF Calls, Call, Ops
<1>2. todo' \in Seq(Calls) /\ Len(todo') = 1 /\ todo'[1] = Call(op, f) /\ todo' # <<>>
  BY <1>1
<1>3. todo'[1].op = op /\ todo'[1].f = f
  BY <1>2, CallFields
<1>4. \A i \in Positions' : i = 1
  BY <1>2 DEF Positions
<1>5. \A i \in Positions' : todo'[i].op = op /\ todo'[i].f = f
  BY <1>3, <1>4
<1>6. \A q, g : First(q, g)' <=> q = op /\ g = f
  BY <1>2, <1>3 DEF First, Is
<1>7. TodoOk'
  BY <1>2, <1>4, <1>5 DEF TodoOk, FirstOnly
<1>8. OrderOk' /\ EndAnswerOk' /\ AbortAnswerOk' /\ UnwatchOk'
  BY <1>5, <1>6 DEF OrderOk, EndAnswerOk, AbortAnswerOk, UnwatchOk
<1>9. AbortQueryOk'
  BY <1>6 DEF AbortQueryOk
<1> QED BY <1>2, <1>5, <1>6, <1>7, <1>8, <1>9 DEF Starts

\* Http_dns_cb: a chain that waits for its host has no descriptor; it joins the
\* queue or is aborted.
LEMMA DnsStep ==
  ASSUME ChainInv, NEW f \in Fetches, Http_dns_cb(f)
  PROVE  ChainInv'
<1>1. TypeOk /\ WatchesOk /\ PoolOk
  BY InvParts
<1>2. /\ todo = <<>> /\ closed' = {} /\ f \in resolving
      /\ resolving' = resolving \ {f}
      /\ UNCHANGED <<conns, started, ref, send, recv, wr, rd, socket, watch, active, outcome, broken>>
  BY DEF Http_dns_cb, Handle, Idle, conns
<1>3. \/ todo' = <<Call("abort_from_http", f)>> /\ UNCHANGED waiting
      \/ todo' = <<Call("connect_queued", None)>> /\ waiting' = Append(waiting, f)
  BY DEF Http_dns_cb, Handle
<1>4. /\ \A q, g : ~First(q, g)
      /\ send = recv
      /\ \A g \in resolving \cup Queued \cup active : g \in recv
  BY <1>2, IdleIs
<1>5. f \in send /\ f \in recv /\ wr[f] = Unset /\ f \notin Queued /\ Unset \notin FDs
  BY <1>1, <1>2, <1>4, NumFDsAssumption DEF PoolOk, FDs, Unset
<1>6. f \notin active
  BY <1>1, <1>5 DEF PoolOk
<1>7. WatchesOk'
  BY <1>1, <1>2 DEF WatchesOk
<1>a. CASE todo' = <<Call("abort_from_http", f)>> /\ UNCHANGED waiting
  <2>1. /\ todo' \in Seq(Calls) /\ \A i \in Positions' : todo'[i].op \in Starts
        /\ \A q, g : First(q, g)' <=> q = "abort_from_http" /\ g = f
        /\ TodoOk' /\ OrderOk' /\ EndAnswerOk' /\ AbortQueryOk' /\ AbortAnswerOk' /\ UnwatchOk'
    BY <1>a, HttpStarts
  <2>2. /\ RefsOk' /\ EndQueryOk' /\ CloseAnswerOk' /\ BranchesOk' /\ OutcomeOk' /\ LinksOk' /\ SocketsOk'
        /\ \A g : ~First("free_socket", g)'
    BY <1>2, <2>1, StartFrame
  <2>3. Queued' = Queued
    BY <1>a, QueuedFrame
  <2>4. TypeOk'
    BY <1>1, <1>2, <1>a, <2>1 DEF TypeOk, Calls
  <2>5. AbortHttpOk'
    <3>1. \A g \in Fetches : First("abort_from_http", g)' => g = f
      BY <2>1
    <3> QED BY <1>2, <1>5, <1>6, <2>3, <3>1 DEF AbortHttpOk
  <2>6. PoolOk'
    BY <1>1, <1>2, <1>4, <1>a, <2>2, <2>3 DEF PoolOk
  <2> QED BY <1>7, <2>1, <2>2, <2>4, <2>5, <2>6 DEF ChainInv
<1>b. CASE todo' = <<Call("connect_queued", None)>> /\ waiting' = Append(waiting, f)
  <2>1. /\ todo' \in Seq(Calls) /\ \A i \in Positions' : todo'[i].op \in Starts
        /\ \A q, g : First(q, g)' <=> q = "connect_queued" /\ g = None
        /\ TodoOk' /\ OrderOk' /\ EndAnswerOk' /\ AbortQueryOk' /\ AbortAnswerOk' /\ UnwatchOk'
    BY <1>b, HttpStarts
  <2>2. /\ RefsOk' /\ EndQueryOk' /\ CloseAnswerOk' /\ BranchesOk' /\ OutcomeOk' /\ LinksOk' /\ SocketsOk'
        /\ \A g : ~First("free_socket", g)'
    BY <1>2, <2>1, StartFrame
  <2>3. /\ waiting' \in Seq(Fetches) /\ Len(waiting') = Len(waiting) + 1 /\ Len(waiting) \in Nat
        /\ \A i \in 1 .. Len(waiting) : waiting'[i] = waiting[i]
        /\ waiting'[Len(waiting) + 1] = f
    BY <1>1, <1>b DEF TypeOk
  <2>4. Queued' = Queued \cup {f}
    <3>1. \A i \in 1 .. Len(waiting') : i \in 1 .. Len(waiting) \/ i = Len(waiting) + 1
      BY <2>3
    <3>2. \A i \in 1 .. Len(waiting) : i \in 1 .. Len(waiting')
      BY <2>3
    <3>3. Len(waiting) + 1 \in 1 .. Len(waiting')
      BY <2>3
    <3> QED BY <2>3, <3>1, <3>2, <3>3 DEF Queued
  <2>5. \A i, j \in 1 .. Len(waiting') : waiting'[i] = waiting'[j] => i = j
    <3>1. \A i \in 1 .. Len(waiting) : waiting[i] # f
      BY <1>5 DEF Queued
    <3>2. \A i \in 1 .. Len(waiting') : i \in 1 .. Len(waiting) \/ i = Len(waiting) + 1
      BY <2>3
    <3> QED BY <1>1, <2>3, <3>1, <3>2 DEF PoolOk
  <2>6. TypeOk'
    BY <1>1, <1>2, <2>1, <2>3 DEF TypeOk, Calls
  <2>7. AbortHttpOk'
    BY <2>1 DEF AbortHttpOk
  <2>8. PoolOk'
    BY <1>1, <1>2, <1>4, <1>5, <2>2, <2>4, <2>5 DEF PoolOk
  <2> QED BY <1>7, <2>1, <2>2, <2>6, <2>7, <2>8 DEF ChainInv
<1> QED BY <1>3, <1>a, <1>b

\* What IO_fd_read_cb calls: the data, then the end of the file, then the watch of
\* the descriptor goes if the end was read or the read failed.
ReadCalls(f, fd) ==
    /\ todo' \in Seq(Calls)
    /\ \A i \in Positions' : i \in Nat
    /\ \A i \in Positions' : \/ todo'[i].op = "data" /\ todo'[i].f = f /\ i = 1
                             \/ todo'[i].op = "eof" /\ todo'[i].f = f
                             \/ todo'[i].op = "unwatch" /\ todo'[i].f = fd
    /\ \A i, j \in Positions' : i < j => /\ todo'[i].op # "unwatch"
                                         /\ todo'[i].op = "eof" => todo'[j].op = "unwatch"
    /\ \A i \in Positions' : todo'[i].op = "unwatch" => f \in broken' \/ Before(i, "eof", f)'

\* The three ways IO_read ends.
LEMMA ReadStarts ==
  ASSUME NEW fd \in FDs, NEW f \in Fetches, IO_fd_read_cb(fd), f = watch[fd].read
  PROVE  ReadCalls(f, fd) /\ broken' \in {broken, broken \cup {f}}
<1> DEFINE d == Call("data", f)
           e == Call("eof", f)
           u == Call("unwatch", fd)
<1>1. d \in Calls /\ e \in Calls /\ u \in Calls
  BY DEF Calls, Call, Ops
<1>2. /\ d.op = "data" /\ d.f = f /\ e.op = "eof" /\ e.f = f /\ u.op = "unwatch" /\ u.f = fd
  BY CallFields
<1> HIDE DEF d, e, u
<1>3. \/ todo' = <<d>> /\ broken' = broken
      \/ /\ todo' \in Seq(Calls) /\ Len(todo') = 3 /\ todo'[1] = d /\ todo'[2] = e /\ todo'[3] = u
         /\ broken' = broken
      \/ todo' = <<e, u>> /\ broken' = broken
      \/ /\ todo' \in Seq(Calls) /\ Len(todo') = 2 /\ todo'[1] = d /\ todo'[2] = u
         /\ broken' = broken \cup {f}
      \/ todo' = <<u>> /\ broken' = broken \cup {f}
  <2>1. PICK data \in BOOLEAN :
           \/ data /\ todo' = <<d>> /\ broken' = broken
           \/ todo' = If(data, <<d>>) \o <<e, u>> /\ broken' = broken
           \/ todo' = If(data, <<d>>) \o <<u>> /\ broken' = broken \cup {f}
    BY DEF IO_fd_read_cb, Handle, d, e, u
  <2>2. CASE data
    <3>1. If(data, <<d>>) = <<d>>
      BY <2>2 DEF If
    <3>2. LET s == <<d>> \o <<e, u>>
          IN  s \in Seq(Calls) /\ Len(s) = 3 /\ s[1] = d /\ s[2] = e /\ s[3] = u
      BY <1>1
    <3>3. LET s == <<d>> \o <<u>> IN s \in Seq(Calls) /\ Len(s) = 2 /\ s[1] = d /\ s[2] = u
      BY <1>1
    <3> QED BY <2>1, <3>1, <3>2, <3>3
  <2>3. CASE ~data
    <3>1. If(data, <<d>>) = <<>>
      BY <2>3 DEF If
    <3>2. <<>> \o <<e, u>> = <<e, u>> /\ <<>> \o <<u>> = <<u>>
      OBVIOUS
    <3> QED BY <2>1, <2>3, <3>1, <3>2
  <2> QED BY <2>2, <2>3
<1>4. CASE todo' = <<d>> /\ broken' = broken
  <2>1. todo' \in Seq(Calls) /\ Len(todo') = 1 /\ todo'[1] = d
    BY <1>1, <1>4
  <2>2. \A i \in Positions' : i = 1
    BY <2>1 DEF Positions
  <2> QED BY <1>2, <1>4, <2>1, <2>2 DEF ReadCalls
<1>5. CASE /\ todo' \in Seq(Calls) /\ Len(todo') = 3 /\ todo'[1] = d /\ todo'[2] = e /\ todo'[3] = u
           /\ broken' = broken
  <2>2. /\ \A i \in Positions' : i \in Nat /\ (i = 1 \/ i = 2 \/ i = 3)
        /\ 2 \in Positions'
    BY <1>5 DEF Positions
  <2>3. \A i \in Positions' : todo'[i].op = "unwatch" => Before(i, "eof", f)'
    BY <1>2, <1>5, <2>2 DEF Before, Is
  <2> QED BY <1>2, <1>5, <2>2, <2>3 DEF ReadCalls
<1>6. CASE todo' = <<e, u>> /\ broken' = broken
  <2>1. todo' \in Seq(Calls) /\ Len(todo') = 2 /\ todo'[1] = e /\ todo'[2] = u
    BY <1>1, <1>6
  <2>2. /\ \A i \in Positions' : i \in Nat /\ (i = 1 \/ i = 2)
        /\ 1 \in Positions'
    BY <2>1 DEF Positions
  <2>3. \A i \in Positions' : todo'[i].op = "unwatch" => Before(i, "eof", f)'
    BY <1>2, <2>1, <2>2 DEF Before, Is
  <2> QED BY <1>2, <1>6, <2>1, <2>2, <2>3 DEF ReadCalls
<1>7. CASE /\ todo' \in Seq(Calls) /\ Len(todo') = 2 /\ todo'[1] = d /\ todo'[2] = u
           /\ broken' = broken \cup {f}
  <2>2. \A i \in Positions' : i \in Nat /\ (i = 1 \/ i = 2)
    BY <1>7 DEF Positions
  <2> QED BY <1>2, <1>7, <2>2 DEF ReadCalls
<1>8. CASE todo' = <<u>> /\ broken' = broken \cup {f}
  <2>1. todo' \in Seq(Calls) /\ Len(todo') = 1 /\ todo'[1] = u
    BY <1>1, <1>8
  <2>2. \A i \in Positions' : i = 1
    BY <2>1 DEF Positions
  <2> QED BY <1>2, <1>8, <2>1, <2>2 DEF ReadCalls
<1> QED BY <1>3, <1>4, <1>5, <1>6, <1>7, <1>8

\* IO_fd_read_cb: the fetch that watches a descriptor is the one that has it.
LEMMA ReadStep ==
  ASSUME ChainInv, NEW fd \in FDs, IO_fd_read_cb(fd), NEW f, f = watch[fd].read
  PROVE  ChainInv'
<1>1. TypeOk /\ WatchesOk /\ PoolOk
  BY InvParts
<1>2. /\ todo = <<>> /\ closed' = {} /\ f # None
      /\ UNCHANGED <<conns, started, ref, send, recv, wr, rd, socket, watch, pool, resolving, waiting,
                     active, outcome>>
  BY DEF IO_fd_read_cb, Handle, Idle, conns, pool
<1>3. f \in Fetches /\ rd[f] = fd
  BY <1>1, <1>2 DEF TypeOk, WatchesOk
<1>4. /\ \A q, g : ~First(q, g)
      /\ f \in recv /\ f \in started /\ socket[fd] = f
  BY <1>2, <1>3, NoneAssumption, IdleIs
<1>5. ReadCalls(f, fd) /\ broken' \in {broken, broken \cup {f}}
  BY <1>3, ReadStarts
<1>6. /\ todo' \in Seq(Calls)
      /\ \A i \in Positions' : \/ todo'[i].op = "data" /\ todo'[i].f = f /\ i = 1
                               \/ todo'[i].op = "eof" /\ todo'[i].f = f
                               \/ todo'[i].op = "unwatch" /\ todo'[i].f = fd
  BY <1>5 DEF ReadCalls
<1>7. \A i \in Positions' : todo'[i].op \in {"data", "eof", "unwatch"}
  BY <1>6
<1>8. /\ RefsOk' /\ EndQueryOk' /\ CloseAnswerOk' /\ BranchesOk' /\ OutcomeOk' /\ LinksOk' /\ SocketsOk'
      /\ \A g : ~First("end_answer", g)' /\ ~First("free_socket", g)'
  BY <1>2, <1>6, <1>7, StartFrame DEF Starts
<1>9. TypeOk'
  BY <1>1, <1>2, <1>4, <1>5, <1>6 DEF TypeOk, Calls
<1>10. TodoOk'
  BY <1>3, <1>6 DEF TodoOk, FirstOnly
<1>11. OrderOk'
  <2>1. \A i, j \in Positions' : i < j => /\ todo'[i].op # "unwatch"
                                          /\ todo'[i].op = "eof" => todo'[j].op = "unwatch"
    BY <1>5 DEF ReadCalls
  <2>2. ASSUME NEW i \in Positions', NEW j \in Positions', i < j, todo'[i].op = "data"
        PROVE  todo'[j].op \in {"eof", "unwatch"}
    <3>1. i = 1
      BY <1>6, <2>2
    <3>2. j # 1
      BY <2>2, <3>1
    <3> QED BY <1>6, <3>2
  <2> QED BY <1>7, <2>1, <2>2 DEF OrderOk
<1>12. EndAnswerOk'
  <2>1. \A i \in Positions' : todo'[i].op = "eof" => rd[todo'[i].f] \in FDs
    BY <1>3, <1>6
  <2> QED BY <1>2, <1>8, <2>1 DEF EndAnswerOk
<1>13. \A g : ~First("abort_query", g)' /\ ~First("abort_from_http", g)'
  <2> SUFFICES ASSUME NEW op \in {"abort_query", "abort_from_http"}, NEW g, First(op, g)' PROVE FALSE
    OBVIOUS
  <2>1. 1 \in Positions' /\ todo'[1].op = op
    BY <1>6, EmptySeq DEF First, Is, Positions
  <2> QED BY <1>7, <2>1
<1>14. AbortQueryOk' /\ AbortHttpOk' /\ AbortAnswerOk'
  BY <1>7, <1>13 DEF AbortQueryOk, AbortHttpOk, AbortAnswerOk
<1>15. UnwatchOk'
  <2>1. \A i \in Positions' : todo'[i].op = "unwatch" => todo'[i].f = fd
    BY <1>6
  <2>2. \A i \in Positions' : todo'[i].op = "unwatch" => f \in broken' \/ Before(i, "eof", f)'
    BY <1>5 DEF ReadCalls
  <2>3. \A i \in Positions' : todo'[i].op = "unwatch" => socket'[todo'[i].f] # None
    BY <1>2, <1>4, <2>1
  <2>4. ASSUME NEW i \in Positions', NEW g \in Fetches, todo'[i].op = "unwatch", watch'[todo'[i].f].read = g
        PROVE  g \in broken' \/ Before(i, "eof", g)'
    <3>1. g = f
      BY <1>2, <2>1, <2>4
    <3> QED BY <2>2, <2>4, <3>1
  <2> QED BY <2>3, <2>4 DEF UnwatchOk
<1>16. WatchesOk'
  BY <1>1, <1>2, <1>5 DEF WatchesOk
<1>17. PoolOk'
  BY <1>1, <1>2, <1>4, <1>8, QueuedFrame DEF PoolOk
<1> QED BY <1>8, <1>9, <1>10, <1>11, <1>12, <1>14, <1>15, <1>16, <1>17 DEF ChainInv

----------------------------------------------------------------------------
(* The invariant and the properties. *)

\* Nothing is open at the start.
LEMMA ChainInit ==
  ASSUME Init
  PROVE  ChainInv
<1>1. /\ todo = <<>> /\ started = {} /\ send = {} /\ recv = {} /\ resolving = {} /\ active = {}
      /\ waiting = <<>> /\ broken = {} /\ closed = {}
  BY DEF Init
<1>2. Positions = {} /\ Queued = {} /\ todo \in Seq(Calls) /\ waiting \in Seq(Fetches)
  BY <1>1 DEF Positions, Queued
<1>3. \A op, f : ~First(op, f)
  BY <1>1 DEF First
<1>4. TypeOk
  BY <1>1, <1>2 DEF Init, TypeOk, Calls
<1>5. RefsOk
  <2>1. \A f : Unrefs(f) = {}
    BY <1>2 DEF Unrefs
  <2>2. \A f : Cardinality(Unrefs(f)) = 0
    BY <2>1, FS_EmptySet
  <2> QED BY <1>1, <2>2 DEF Init, RefsOk
<1>6. /\ TodoOk /\ OrderOk /\ EndAnswerOk /\ EndQueryOk /\ AbortQueryOk /\ AbortAnswerOk
      /\ CloseAnswerOk /\ AbortHttpOk /\ UnwatchOk
  BY <1>2, <1>3 DEF TodoOk, OrderOk, EndAnswerOk, EndQueryOk, AbortQueryOk, AbortAnswerOk,
     CloseAnswerOk, AbortHttpOk, UnwatchOk
<1>7. BranchesOk /\ OutcomeOk /\ LinksOk
  BY <1>1 DEF Init, BranchesOk, OutcomeOk, LinksOk
<1>8. SocketsOk /\ WatchesOk
  BY <1>1, NoneAssumption DEF Init, SocketsOk, WatchesOk
<1>9. PoolOk
  BY <1>1, <1>2, <1>3 DEF PoolOk
<1> QED BY <1>4, <1>5, <1>6, <1>7, <1>8, <1>9 DEF ChainInv

\* Every step keeps the invariant: the calls first, then the handlers.
LEMMA ChainNext ==
  ASSUME ChainInv, ~ReuseInHandler, [Next]_vars
  PROVE  ChainInv'
<1>1. CASE Step
  <2>1. CASE CloseAnswer
    BY <2>1, CloseAnswerStep
  <2>2. CASE UnwatchRead
    BY <2>2, UnwatchReadStep
  <2>3. CASE ReadEof
    BY <2>3, ReadEofStep
  <2>4. CASE Http_socket_free
    BY <2>4, FreeSocketStep
  <2>5. CASE ConnectFails
    BY <2>5, ConnectFailsStep
  <2>6. CASE ConnectReturns
    BY <2>6, ConnectReturnsStep
  <2>7. ASSUME NEW fd \in FDs, Connect(fd) PROVE ChainInv'
    BY <2>7, ConnectStep
  <2>8. CASE Data
    BY <2>8, DataStep
  <2>9. CASE EndAnswer
    BY <2>9, EndAnswerStep
  <2>10. CASE EndQuery
    BY <2>10, EndQueryStep
  <2>11. CASE AbortQuery
    BY <2>11, AbortQueryStep
  <2>12. CASE AbortAnswer
    BY <2>12, AbortAnswerStep
  <2>13. CASE AbortFromHttp
    BY <2>13, AbortFromHttpStep
  <2>14. CASE Capi_conn_unref
    BY <2>14, UnrefStep
  <2> QED BY <1>1, <2>1, <2>2, <2>3, <2>4, <2>5, <2>6, <2>7, <2>8, <2>9, <2>10, <2>11, <2>12,
          <2>13, <2>14 DEF Step
<1>2. ASSUME NEW fd \in FDs, IO_fd_read_cb(fd) PROVE ChainInv'
  BY <1>2, ReadStep
<1>3. ASSUME NEW fd \in FDs, IO_fd_write_cb(fd) PROVE ChainInv'
  BY <1>3, WriteStep
<1>4. ASSUME NEW f \in Fetches, a_Capi_open_url(f) PROVE ChainInv'
  BY <1>4, OpenStep
<1>5. ASSUME NEW f \in Fetches, Http_dns_cb(f) PROVE ChainInv'
  BY <1>5, DnsStep
<1>6. ASSUME NEW f \in Fetches, a_Capi_conn_abort_by_url(f) PROVE ChainInv'
  BY <1>6, AbortByUrlStep
<1>7. CASE UNCHANGED vars
  <2>1. UNCHANGED <<started, ref, send, recv, wr, rd, socket, watch, closed, resolving, waiting, active,
                    outcome, todo, broken>>
    BY <1>7 DEF vars
  <2>2. TypeOk' /\ TodoOk' /\ OrderOk' /\ RefsOk'
    BY <2>1, InvParts DEF TypeOk, TodoOk, OrderOk, RefsOk, Positions, Unrefs, Is
  <2>3. EndAnswerOk' /\ EndQueryOk' /\ AbortQueryOk'
    BY <2>1, InvParts DEF EndAnswerOk, EndQueryOk, AbortQueryOk, Positions, First, After, Is
  <2>4. AbortAnswerOk' /\ AbortHttpOk'
    BY <2>1, InvParts DEF AbortAnswerOk, AbortHttpOk, Queued, Positions, First, After, Is
  <2>5. CloseAnswerOk'
    BY <2>1, InvParts DEF CloseAnswerOk, Positions, First, Before, Is
  <2>6. UnwatchOk'
    BY <2>1, InvParts DEF UnwatchOk, Positions, Before, Is
  <2>7. BranchesOk' /\ OutcomeOk' /\ LinksOk'
    BY <2>1, InvParts DEF BranchesOk, OutcomeOk, LinksOk, Positions, Pending, Is
  <2>8. SocketsOk' /\ WatchesOk' /\ PoolOk'
    BY <2>1, InvParts DEF SocketsOk, WatchesOk, PoolOk, Queued, First, Is
  <2> QED BY <2>2, <2>3, <2>4, <2>5, <2>6, <2>7, <2>8 DEF ChainInv
<1> QED BY <1>1, <1>2, <1>3, <1>4, <1>5, <1>6, <1>7 DEF Next

\* Whatever the handlers, the server and the clients of the cache do, every call of
\* a chain finds what it counts on (chain.c, capi.c, dpi.c, IO.c).
THEOREM ChainInvariant ==
  ASSUME ~ReuseInHandler
  PROVE  Spec => []ChainInv
<1>1. Init => ChainInv
  BY ChainInit
<1>2. ChainInv /\ [Next]_vars => ChainInv'
  BY ChainNext
<1> QED BY <1>1, <1>2, PTL DEF Spec

\* A connection with no reference is named by no call that would look at it.
LEMMA Freed ==
  ASSUME ChainInv
  PROVE  NoUseAfterFree
<1>1. /\ TypeOk /\ TodoOk /\ RefsOk /\ EndAnswerOk /\ EndQueryOk /\ AbortQueryOk /\ AbortAnswerOk
      /\ AbortHttpOk
  BY InvParts
<1> SUFFICES ASSUME NEW f \in Fetches, ref[f] = 0, NEW i \in DOMAIN todo, Uses(todo[i], f)
             PROVE  FALSE
  BY DEF NoUseAfterFree
<1>2. todo \in Seq(Calls) /\ Len(todo) \in Nat /\ todo # <<>> /\ i \in Positions /\ todo[i].f = f
  BY <1>1 DEF TodoOk, Positions, Uses
<1>3. IsFiniteSet(Unrefs(f))
  <2>1. IsFiniteSet(1 .. Len(todo))
    BY <1>2, FS_Interval
  <2> QED BY <2>1, FS_Subset DEF Unrefs, Positions
<1>4. f \notin send /\ f \notin recv /\ Unrefs(f) = {}
  <2>1. Cardinality(Unrefs(f)) \in Nat
    BY <1>3, FS_CardinalityType
  <2>2. f \notin send /\ f \notin recv /\ Cardinality(Unrefs(f)) = 0
    BY <1>1, <2>1 DEF RefsOk
  <2> QED BY <1>3, <2>2, FS_EmptySet
<1>5. \A j \in Positions : ~Is(j, "unref", f)
  BY <1>4 DEF Unrefs
<1>6. \A j : ~After(j, "unref", f)
  BY <1>5 DEF After
<1>7. todo[i].op \in FirstOnly => First(todo[i].op, f)
  BY <1>1, <1>2 DEF TodoOk, First, Is
<1>8. todo[i].op \in {"end_answer", "end_query", "unref", "abort_query", "abort_answer", "abort_from_http"}
  BY DEF Uses
<1>9. CASE todo[i].op = "end_answer"
  BY <1>1, <1>4, <1>7, <1>9 DEF EndAnswerOk, FirstOnly
<1>10. CASE todo[i].op = "end_query"
  BY <1>1, <1>2, <1>6, <1>10 DEF EndQueryOk
<1>11. CASE todo[i].op = "unref"
  BY <1>2, <1>5, <1>11 DEF Is
<1>12. CASE todo[i].op = "abort_query"
  BY <1>1, <1>7, <1>12 DEF AbortQueryOk, FirstOnly
<1>13. CASE todo[i].op = "abort_answer"
  BY <1>1, <1>2, <1>4, <1>6, <1>13 DEF AbortAnswerOk
<1>14. CASE todo[i].op = "abort_from_http"
  BY <1>1, <1>4, <1>7, <1>14 DEF AbortHttpOk, FirstOnly
<1> QED BY <1>8, <1>9, <1>10, <1>11, <1>12, <1>13, <1>14

\* No chain is used after it is freed, both its branches end, the cache is told,
\* and its descriptor is its own and is closed (capi.c:409-564, IO.c:121-160).
THEOREM ChainsSound ==
  ASSUME ~ReuseInHandler
  PROVE  Spec => []TransfersAreSound
<1>1. ASSUME ChainInv PROVE TransfersAreSound
  <2>1. TypeOk /\ OutcomeOk /\ SocketsOk /\ WatchesOk
    BY <1>1, InvParts
  <2>2. NoUseAfterFree
    BY <1>1, Freed
  <2>3. ASSUME Idle
        PROVE  /\ send = recv
               /\ \A f \in Fetches : ref[f] = IF f \in recv THEN 2 ELSE 0
               /\ \A f \in Fetches : rd[f] # None <=> f \in recv
               /\ \A f \in Fetches : rd[f] \in FDs => socket[rd[f]] = f
    BY <1>1, <2>3, IdleIs DEF Idle
  <2>4. BranchesTogether
    BY <2>3 DEF BranchesTogether
  <2>5. OutcomeKnown
    BY <2>1 DEF OutcomeKnown, OutcomeOk
  <2>6. NothingLeaks
    BY <2>1, <2>3, NoneAssumption DEF NothingLeaks, SocketsOk, TypeOk
  <2>7. NoEventOnClosed
    BY <2>1 DEF NoEventOnClosed, WatchesOk
  <2>8. OwnDescriptor
    BY <2>1, <2>3 DEF OwnDescriptor, TypeOk
  <2>9. Watched
    BY <2>1, <2>3 DEF Watched, WatchesOk
  <2> QED BY <2>1, <2>2, <2>4, <2>5, <2>6, <2>7, <2>8, <2>9 DEF TransfersAreSound
<1>2. Spec => []ChainInv
  BY ChainInvariant
<1> QED BY <1>1, <1>2, PTL

\* What the cache was told of the end of a fetch, complete or removed, is told once:
\* no second end or abort reaches it (capi.c, the OpEnd and OpAbort of branch 2).
THEOREM OutcomesFinal ==
  ASSUME ~ReuseInHandler
  PROVE  Spec => OutcomeIsFinal
<1>1. ASSUME ChainInv, [Next]_vars
      PROVE  [\A f \in Fetches : outcome[f] # "none" => outcome'[f] = outcome[f]]_vars
  <2>1. TypeOk /\ TodoOk /\ EndAnswerOk /\ OutcomeOk
    BY <1>1, InvParts
  <2>2. SUFFICES ASSUME NEW f \in Fetches, outcome[f] # "none", outcome' # outcome
                 PROVE  outcome'[f] = outcome[f]
    OBVIOUS
  <2>3. f \in started /\ f \notin recv
    BY <2>1, <2>2 DEF OutcomeOk
  <2>4. EndAnswer \/ AbortAnswer
    BY <1>1, <2>2 DEF Next, Step, vars, CloseAnswer, UnwatchRead, ReadEof, Http_socket_free, ConnectFails,
       ConnectReturns, Connect, Data, EndQuery, AbortQuery, AbortFromHttp, Capi_conn_unref,
       IO_fd_read_cb, IO_fd_write_cb, a_Capi_open_url, Http_dns_cb, a_Capi_conn_abort_by_url
  <2>5. CASE EndAnswer
    <3>1. First("end_answer", This) /\ This \in Fetches
      BY <2>1, <2>5, DoingIs DEF EndAnswer
    <3>2. This \in recv
      BY <2>1, <3>1 DEF EndAnswerOk
    <3>3. outcome' = [outcome EXCEPT ![This] = "closed"]
      BY <2>5 DEF EndAnswer
    <3> QED BY <2>1, <2>3, <3>2, <3>3 DEF TypeOk
  <2>6. CASE AbortAnswer
    <3>1. CASE This \in recv
      <4>1. outcome' = [outcome EXCEPT ![This] = "removed"]
        BY <2>6, <3>1 DEF AbortAnswer
      <4> QED BY <2>1, <2>3, <3>1, <4>1 DEF TypeOk
    <3>2. CASE This \notin recv
      BY <2>2, <2>6, <3>2 DEF AbortAnswer
    <3> QED BY <3>1, <3>2
  <2> QED BY <2>4, <2>5, <2>6
<1>2. Spec => []ChainInv
  BY ChainInvariant
<1> QED BY <1>1, <1>2, PTL DEF Spec, OutcomeIsFinal
=============================================================================
