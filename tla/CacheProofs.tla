----------------------------- MODULE CacheProofs ------------------------------
(* Proofs about the memory cache (Cache), for every number of windows and of   *)
(* URLs, every redirection limit and every length of the two lists.            *)
(*                                                                             *)
(* The functions of cache.c take a store to a store, and so does what is       *)
(* proved of them: Good says that a store is right, one lemma per function     *)
(* says that it stays so, and CacheInv adds the activation of                  *)
(* Cache_process_queue.  EntriesAreSound and OnlyLostForgotten are not         *)
(* inductive.  An entry is not freed under the loop because a redirection      *)
(* opens another page than its own: a page that may still be redirected        *)
(* (Pending) is the one that its window expects.  The redirections end because *)
(* the count of a window is that of its pending page, which is alone in it     *)
(* (Apart): the loop of an image, which resets redirect_level, never does so   *)
(* to a page that is still on its way.                                         *)
(*                                                                             *)
(* Drop is defined by recursion: that it has a value and what that value is    *)
(* follow by induction, as minimal counterexamples (LeastNatural).             *)
EXTENDS Cache, SequenceTheorems, WellFoundedInduction, TLAPS

----------------------------------------------------------------------------
(* Lists. *)

\* The items of t are items of s, and different ones.
Sublist(t, s) ==
    /\ \A i \in DOMAIN t : \E a \in DOMAIN s : t[i] = s[a]
    /\ \A i, j \in DOMAIN t : i # j =>
          \E a, b \in DOMAIN s : a # b /\ t[i] = s[a] /\ t[j] = s[b]

\* t is what Drop leaves of the first k items of s.
Left(t, s, k, X) ==
    /\ \A i \in DOMAIN t : t[i] \notin X /\ \E a \in 1 .. k : t[i] = s[a]
    /\ \A i, j \in DOMAIN t : i # j =>
          \E a, b \in 1 .. k : a # b /\ t[i] = s[a] /\ t[j] = s[b]
    /\ \A a \in 1 .. k : s[a] \notin X => \E i \in DOMAIN t : t[i] = s[a]

\* The function that Drop defines.
KeptOf(s, X, g) == g = [i \in 0 .. Len(s) |->
    IF i = 0 THEN <<>>
    ELSE IF s[i] \in X THEN g[i - 1] ELSE Append(g[i - 1], s[i])]

\* A set of natural numbers has a least element.
LEMMA LeastNatural ==
  ASSUME NEW T, T \subseteq Nat, T # {}
  PROVE  \E x \in T : \A y \in T : x <= y
<1> DEFINE R == OpToRel(<, Nat)
<1>1. IsWellFoundedOn(R, Nat)
  BY NatLessThanWellFounded
<1>2. \A x, y \in Nat : x < y => <<x, y>> \in R
  BY DEF OpToRel
<1> HIDE DEF R
<1>3. PICK x \in T : \A y \in T : ~(<<y, x>> \in R)
  BY <1>1, WFMin
<1>4. \A y \in T : ~(y < x)
  BY <1>2, <1>3
<1> QED BY <1>3, <1>4

\* One more item of the list is looked at.
LEMMA LeftStep ==
  ASSUME NEW S, NEW s \in Seq(S), NEW X, NEW k \in 1 .. Len(s), NEW t \in Seq(S),
         Left(t, s, k - 1, X)
  PROVE  LET e == IF s[k] \in X THEN t ELSE Append(t, s[k]) IN
         e \in Seq(S) /\ Left(e, s, k, X)
<1>1. k \in Nat /\ s[k] \in S /\ k \in 1 .. k /\ \A a \in 1 .. k - 1 : a \in 1 .. k /\ a # k
  OBVIOUS
<1>2. CASE s[k] \in X
  <2>1. \A a \in 1 .. k : s[a] \notin X => a \in 1 .. k - 1
    BY <1>1, <1>2
  <2> QED BY <1>1, <1>2, <2>1 DEF Left
<1>3. CASE s[k] \notin X
  <2> DEFINE e == Append(t, s[k])
             n == Len(t)
  <2>1. /\ e \in Seq(S) /\ DOMAIN e = 1 .. n + 1 /\ e[n + 1] = s[k]
        /\ DOMAIN t = 1 .. n /\ n \in Nat /\ \A i \in 1 .. n : e[i] = t[i]
    BY <1>1
  <2> HIDE DEF e, n
  <2>2. \A i \in DOMAIN e : e[i] \notin X /\ \E a \in 1 .. k : e[i] = s[a]
    <3> SUFFICES ASSUME NEW i \in DOMAIN e PROVE e[i] \notin X /\ \E a \in 1 .. k : e[i] = s[a]
      OBVIOUS
    <3>1. CASE i = n + 1
      BY <1>1, <1>3, <2>1, <3>1
    <3>2. CASE i \in 1 .. n
      BY <1>1, <2>1, <3>2 DEF Left
    <3> QED BY <2>1, <3>1, <3>2
  <2>3. ASSUME NEW i \in DOMAIN e, NEW j \in DOMAIN e, i # j
        PROVE  \E a, b \in 1 .. k : a # b /\ e[i] = s[a] /\ e[j] = s[b]
    <3>1. CASE i \in 1 .. n /\ j \in 1 .. n
      <4>1. PICK a \in 1 .. k - 1, b \in 1 .. k - 1 : a # b /\ t[i] = s[a] /\ t[j] = s[b]
        BY <2>1, <2>3, <3>1 DEF Left
      <4> QED BY <1>1, <2>1, <3>1, <4>1
    <3>2. CASE i \in 1 .. n /\ j = n + 1
      <4>1. PICK a \in 1 .. k - 1 : t[i] = s[a]
        BY <2>1, <3>2 DEF Left
      <4> QED BY <1>1, <2>1, <3>2, <4>1
    <3>3. CASE i = n + 1 /\ j \in 1 .. n
      <4>1. PICK a \in 1 .. k - 1 : t[j] = s[a]
        BY <2>1, <3>3 DEF Left
      <4> QED BY <1>1, <2>1, <3>3, <4>1
    <3> QED BY <2>1, <2>3, <3>1, <3>2, <3>3
  <2>4. ASSUME NEW a \in 1 .. k, s[a] \notin X
        PROVE  \E i \in DOMAIN e : e[i] = s[a]
    <3>1. CASE a = k
      BY <2>1, <3>1
    <3>2. CASE a # k
      <4>1. a \in 1 .. k - 1
        BY <1>1, <3>2
      <4>2. PICK i \in 1 .. n : t[i] = s[a]
        BY <2>1, <2>4, <4>1 DEF Left
      <4> QED BY SMTT(20), <2>1, <4>2
    <3> QED BY <3>1, <3>2
  <2>5. Left(e, s, k, X)
    BY <2>2, <2>3, <2>4 DEF Left
  <2> QED BY <1>3, <2>1, <2>5 DEF e
<1> QED BY <1>2, <1>3

\* The definition by recursion has a value (induction over the length of the list).
LEMMA KeptExists ==
  ASSUME NEW S, NEW s \in Seq(S), NEW X
  PROVE  \E g : KeptOf(s, X, g)
<1> DEFINE Upto(n, g) == /\ g \in [0 .. n -> Seq(S)]
                         /\ \A i \in 0 .. n : g[i] =
                              IF i = 0 THEN <<>>
                              ELSE IF s[i] \in X THEN g[i - 1] ELSE Append(g[i - 1], s[i])
           Bad == {n \in 0 .. Len(s) : \A g : ~Upto(n, g)}
<1>0. Len(s) \in Nat /\ Bad \subseteq Nat
  OBVIOUS
<1>1. ASSUME Bad # {} PROVE FALSE
  <2>0. PICK n \in Bad : \A m \in Bad : n <= m
    <3> HIDE DEF Bad
    <3> QED BY <1>0, <1>1, LeastNatural
  <2>1. /\ n \in 0 .. Len(s) /\ \A g : ~Upto(n, g)
        /\ \A m \in 0 .. Len(s) : m < n => \E g : Upto(m, g)
    <3> HIDE DEF Upto
    <3> QED BY <2>0, <1>0
  <2>2. n # 0
    <3>1. Upto(0, [i \in 0 .. 0 |-> <<>>])
      OBVIOUS
    <3> HIDE DEF Upto
    <3> QED BY <3>1, <2>1
  <2>3. PICK g : Upto(n - 1, g)
    <3> HIDE DEF Upto
    <3> QED BY <2>1, <2>2
  <2> DEFINE e == IF s[n] \in X THEN g[n - 1] ELSE Append(g[n - 1], s[n])
             h == [i \in 0 .. n |-> IF i = n THEN e ELSE g[i]]
  <2>4. e \in Seq(S)
    BY <2>1, <2>2, <2>3
  <2> HIDE DEF e
  <2>5. h \in [0 .. n -> Seq(S)]
    BY <2>1, <2>2, <2>3, <2>4
  <2>6. \A i \in 0 .. n : h[i] =
          IF i = 0 THEN <<>>
          ELSE IF s[i] \in X THEN h[i - 1] ELSE Append(h[i - 1], s[i])
    <3>1. h[n] = IF s[n] \in X THEN h[n - 1] ELSE Append(h[n - 1], s[n])
      BY <2>1, <2>2 DEF e
    <3>2. ASSUME NEW i \in 0 .. n - 1
          PROVE  h[i] = IF i = 0 THEN <<>>
                        ELSE IF s[i] \in X THEN h[i - 1] ELSE Append(h[i - 1], s[i])
      <4>1. h[i] = g[i] /\ (i # 0 => h[i - 1] = g[i - 1])
        BY <2>1, <2>2, <1>0
      <4> HIDE DEF h
      <4> QED BY <4>1, <2>3, <2>1, <2>2, <1>0
    <3> HIDE DEF h
    <3> QED BY <3>1, <3>2, <2>1, <2>2
  <2> QED BY <2>1, <2>5, <2>6
<1>2. PICK g : Upto(Len(s), g)
  <2>1. Len(s) \notin Bad /\ Len(s) \in 0 .. Len(s)
    <3> HIDE DEF Bad
    <3> QED BY <1>0, <1>1
  <2> HIDE DEF Upto
  <2> QED BY <2>1
<1>3. g = [i \in 0 .. Len(s) |->
             IF i = 0 THEN <<>>
             ELSE IF s[i] \in X THEN g[i - 1] ELSE Append(g[i - 1], s[i])]
  BY <1>2
<1> QED BY <1>3 DEF KeptOf

\* Its value is what should be left (induction again).
LEMMA KeptLeft ==
  ASSUME NEW S, NEW s \in Seq(S), NEW X, NEW g, KeptOf(s, X, g)
  PROVE  g[Len(s)] \in Seq(S) /\ Left(g[Len(s)], s, Len(s), X)
<1> DEFINE Bad == {i \in 0 .. Len(s) : ~(g[i] \in Seq(S) /\ Left(g[i], s, i, X))}
<1>1. \A i \in 0 .. Len(s) : g[i] =
         IF i = 0 THEN <<>> ELSE IF s[i] \in X THEN g[i - 1] ELSE Append(g[i - 1], s[i])
  BY DEF KeptOf
<1>0. Len(s) \in Nat /\ Bad \subseteq Nat
  OBVIOUS
<1>2. ASSUME Bad # {} PROVE FALSE
  <2>1. PICK n \in Bad : \A m \in Bad : n <= m
    <3> HIDE DEF Bad
    <3> QED BY <1>0, <1>2, LeastNatural
  <2>2. n # 0
    <3>1. g[0] = <<>> /\ <<>> \in Seq(S) /\ DOMAIN g[0] = {} /\ 1 .. 0 = {}
      BY <1>0, <1>1, EmptySeq
    <3>2. Left(g[0], s, 0, X)
      BY <3>1 DEF Left
    <3> QED BY <2>1, <3>1, <3>2
  <2>3. n - 1 \in 0 .. Len(s) /\ n \in 1 .. Len(s) /\ n \in 0 .. Len(s)
    BY <2>1, <2>2, <1>0
  <2>4. g[n - 1] \in Seq(S) /\ Left(g[n - 1], s, n - 1, X)
    <3>1. n - 1 \notin Bad
      <4> HIDE DEF Bad
      <4> QED BY <2>1, <1>0
    <3> QED BY <2>3, <3>1
  <2>5. g[n] = IF s[n] \in X THEN g[n - 1] ELSE Append(g[n - 1], s[n])
    BY <1>1, <2>2, <2>3
  <2>6. g[n] \in Seq(S) /\ Left(g[n], s, n, X)
    BY <2>3, <2>4, <2>5, LeftStep
  <2> QED BY <2>1, <2>6
<1> QED BY <1>2, <1>0

\* Drop leaves the items that are not in the set, each as often as it was there.
LEMMA DropIs ==
  ASSUME NEW S, NEW s \in Seq(S), NEW X
  PROVE  LET D == Drop(s, X) IN
         /\ D \in Seq(S) /\ Sublist(D, s)
         /\ \A i \in DOMAIN D : D[i] \notin X
         /\ \A a \in DOMAIN s : s[a] \notin X => \E i \in DOMAIN D : D[i] = s[a]
<1> DEFINE kept == CHOOSE g : KeptOf(s, X, g)
           D == Drop(s, X)
<1>1. D = kept[Len(s)]
  BY DEF Drop, KeptOf
<1>2. KeptOf(s, X, kept)
  BY KeptExists
<1> HIDE DEF kept
<1>3. D \in Seq(S) /\ Left(D, s, Len(s), X)
  BY <1>1, <1>2, KeptLeft
<1>4. DOMAIN s = 1 .. Len(s)
  OBVIOUS
<1> HIDE DEF D
<1>5. Sublist(D, s)
  <2> DEFINE n == Len(s)
  <2>1. Left(D, s, n, X) /\ DOMAIN s = 1 .. n
    BY <1>3, <1>4
  <2> HIDE DEF n
  <2>2. \A i \in DOMAIN D : \E a \in DOMAIN s : D[i] = s[a]
    BY <2>1 DEF Left
  <2>3. ASSUME NEW i \in DOMAIN D, NEW j \in DOMAIN D, i # j
        PROVE  \E a, b \in DOMAIN s : a # b /\ D[i] = s[a] /\ D[j] = s[b]
    <3>1. PICK a \in 1 .. n, b \in 1 .. n : a # b /\ D[i] = s[a] /\ D[j] = s[b]
      BY <2>1, <2>3 DEF Left
    <3> QED BY <2>1, <3>1
  <2> QED BY <2>2, <2>3 DEF Sublist
<1> QED BY <1>3, <1>4, <1>5 DEF Left, D

\* dList_remove of the item at a place.
LEMMA RemoveAtIs ==
  ASSUME NEW S, NEW s \in Seq(S), NEW k \in DOMAIN s
  PROVE  LET t == RemoveAt(s, k) IN
         /\ t \in Seq(S) /\ Len(t) = Len(s) - 1 /\ DOMAIN t = 1 .. Len(s) - 1
         /\ \A i \in 1 .. Len(s) - 1 : t[i] = IF i < k THEN s[i] ELSE s[i + 1]
         /\ Sublist(t, s)
<1> DEFINE n == Len(s)
           a == SubSeq(s, 1, k - 1)
           b == SubSeq(s, k + 1, n)
           t == a \o b
<1>1. n \in Nat /\ k \in 1 .. n /\ DOMAIN s = 1 .. n
  OBVIOUS
<1>2. a \in Seq(S) /\ Len(a) = k - 1 /\ \A i \in 1 .. k - 1 : a[i] = s[i]
  BY <1>1
<1>3. b \in Seq(S) /\ Len(b) = n - k /\ \A i \in 1 .. n - k : b[i] = s[k + i]
  BY <1>1
<1> HIDE DEF a, b
<1>4. t \in Seq(S) /\ Len(t) = n - 1 /\ DOMAIN t = 1 .. n - 1
  <2>1. t \in Seq(S) /\ Len(t) = Len(a) + Len(b)
    BY <1>2, <1>3, ConcatProperties
  <2>2. Len(t) = n - 1
    BY <1>1, <1>2, <1>3, <2>1
  <2> HIDE DEF t
  <2> QED BY <2>1, <2>2
<1>5. ASSUME NEW i \in 1 .. n - 1
      PROVE  t[i] = IF i < k THEN s[i] ELSE s[i + 1]
  <2>1. CASE i < k
    BY <1>1, <1>2, <1>3, <2>1
  <2>2. CASE ~(i < k)
    <3>1. i - (k - 1) \in 1 .. n - k /\ k + (i - (k - 1)) = i + 1
      BY <1>1, <2>2
    <3>2. t[i] = b[i - (k - 1)]
      BY <1>1, <1>2, <1>3, <2>2, <3>1
    <3> QED BY <1>3, <2>2, <3>1, <3>2
  <2> QED BY <2>1, <2>2
<1> HIDE DEF t
<1>6. Sublist(t, s)
  <2> DEFINE p(i) == IF i < k THEN i ELSE i + 1
  <2>1. \A i \in 1 .. n - 1 : p(i) \in 1 .. n /\ t[i] = s[p(i)]
    BY <1>1, <1>5
  <2>2. \A i, j \in 1 .. n - 1 : i # j => p(i) # p(j)
    BY <1>1
  <2> HIDE DEF p
  <2> QED BY <1>1, <1>4, <2>1, <2>2 DEF Sublist
<1> QED BY <1>1, <1>4, <1>5, <1>6 DEF RemoveAt, t, a, b

----------------------------------------------------------------------------
(* Stores that are right. *)

\* The types of a store.
Stores == [entries : [Urls -> Entries \cup {None}], queue : Seq(Clients),
           delayed : Seq(Urls), timer : BOOLEAN,
           feeding : [Urls -> Windows \cup {None}],
           expect : [Windows -> Urls \cup {None}],
           lost : SUBSET Urls, removed : SUBSET Urls]

\* The entry says that its URL has moved.
Moved(s, u) == s.entries[u] # None /\ Redirects(s.entries[u])

\* A connection fills the entries that are not complete, and no other.
FedRight(s) ==
    \A u \in Urls :
        /\ s.feeding[u] # None <=>
              s.entries[u] # None /\ s.entries[u].st \in {"empty", "typed"}
        /\ u \in Files => s.feeding[u] = None
        /\ Moved(s, u) => s.entries[u].to \in Urls

\* A client of a page whose window may still have to go somewhere else.
Pending(s, c) == c.root /\ (c.cb = "none" \/ Moved(s, c.url))

\* The redirections that have led to the client, its own included once it is counted.
Hops(c) == IF c.cb = "none" THEN c.hops ELSE c.hops + 1

\* A client points to an entry, has had data only if there are some, and its page, while
\* pending, is the one its window expects, after as many redirections as are counted.
ClientRight(s, lv, c) ==
    /\ s.entries[c.url] # None
    /\ s.entries[c.url].st = "empty" => c.cb = "none"
    /\ c.cb = "viewer" => ~Moved(s, c.url)
    /\ c.hops < RedirectLimit
    /\ Pending(s, c) => s.expect[c.bw] = c.url /\ Hops(c) <= lv[c.bw]

\* A window has one page, and while it is pending nothing else.
Apart(s, c, d) == c.bw = d.bw /\ c.root => ~d.root /\ ~Pending(s, c)

\* All clients are right, and those of a window get along.
QueueRight(s, lv) ==
    /\ \A i \in DOMAIN s.queue : ClientRight(s, lv, s.queue[i])
    /\ \A i, j \in DOMAIN s.queue : i # j => Apart(s, s.queue[i], s.queue[j])

\* DelayedQueue has entries that exist, each once, and a timeout.
DelayedRight(s) ==
    /\ \A i \in DOMAIN s.delayed : s.entries[s.delayed[i]] # None
    /\ \A i, j \in DOMAIN s.delayed : i # j => s.delayed[i] # s.delayed[j]
    /\ s.delayed # <<>> => s.timer

\* The clients of a complete entry are served later, are known to be lost, or are
\* being served.
IsDelayed(s, u) == \E j \in DOMAIN s.delayed : s.delayed[j] = u
ServedRight(s, x) ==
    \A i \in DOMAIN s.queue :
        s.entries[s.queue[i].url].st = "done" =>
           IsDelayed(s, s.queue[i].url) \/ s.queue[i].url \in s.lost \/ s.queue[i].url = x

\* A store is right, with the redirections counted in lv, while x is being served.
Good(s, lv, x) ==
    /\ s \in Stores /\ lv \in [Windows -> Nat]
    /\ FedRight(s)
    /\ QueueRight(s, lv)
    /\ DelayedRight(s)
    /\ ServedRight(s, x)

\* The client at a place.
LEMMA ClientIs ==
  ASSUME NEW s \in Stores, NEW i \in DOMAIN s.queue
  PROVE  /\ s.queue[i] \in Clients /\ s.queue[i].url \in Urls /\ s.queue[i].bw \in Windows
         /\ s.queue[i].hops \in Nat /\ s.queue[i].root \in BOOLEAN
<1>1. s.queue \in Seq(Clients)
  BY DEF Stores
<1>2. s.queue[i] \in Clients
  BY <1>1
<1> QED BY <1>2 DEF Clients

----------------------------------------------------------------------------
(* What the operations on a store leave. *)

\* Some entries go, with their connections and clients, and some clients of others.
LEMMA ShrinkGood ==
  ASSUME NEW s, NEW lv, NEW x, Good(s, lv, x),
         NEW r \in Stores, NEW lw \in [Windows -> Nat], NEW A,
         \A u \in Urls : u \in A => r.entries[u] = None /\ r.feeding[u] = None,
         \A u \in Urls : u \notin A => r.entries[u] = s.entries[u] /\ r.feeding[u] = s.feeding[u],
         Sublist(r.queue, s.queue), \A i \in DOMAIN r.queue : r.queue[i].url \notin A,
         Sublist(r.delayed, s.delayed), \A i \in DOMAIN r.delayed : r.delayed[i] \notin A,
         r.timer = s.timer,
         \A i \in DOMAIN r.queue : LET c == r.queue[i] IN
            Pending(s, c) => /\ r.expect[c.bw] = s.expect[c.bw] \/ r.expect[c.bw] = c.url
                             /\ lw[c.bw] = lv[c.bw],
         \A i \in DOMAIN r.queue : LET u == r.queue[i].url IN
            s.entries[u].st = "done" =>
                /\ u \in s.lost => u \in r.lost
                /\ IsDelayed(s, u) => IsDelayed(r, u) \/ u \in r.lost
  PROVE  Good(r, lw, x)
<1>1. s \in Stores /\ FedRight(s) /\ QueueRight(s, lv) /\ DelayedRight(s) /\ ServedRight(s, x)
  BY DEF Good
<1>2. FedRight(r)
  BY <1>1 DEF FedRight, Moved
<1>3. \A i \in DOMAIN r.queue : /\ r.queue[i].url \in Urls /\ r.queue[i].url \notin A
                                /\ r.entries[r.queue[i].url] = s.entries[r.queue[i].url]
  BY ClientIs
<1>4. QueueRight(r, lw)
  <2>1. ASSUME NEW i \in DOMAIN r.queue
        PROVE  ClientRight(r, lw, r.queue[i])
    <3>1. PICK a \in DOMAIN s.queue : r.queue[i] = s.queue[a]
      BY DEF Sublist
    <3>2. ClientRight(s, lv, s.queue[a])
      BY <1>1 DEF QueueRight
    <3> QED BY SMTT(60), <1>3, <3>1, <3>2 DEF ClientRight, Pending, Moved
  <2>2. ASSUME NEW i \in DOMAIN r.queue, NEW j \in DOMAIN r.queue, i # j
        PROVE  Apart(r, r.queue[i], r.queue[j])
    <3>1. PICK a \in DOMAIN s.queue, b \in DOMAIN s.queue :
             a # b /\ r.queue[i] = s.queue[a] /\ r.queue[j] = s.queue[b]
      BY <2>2 DEF Sublist
    <3>2. Apart(s, s.queue[a], s.queue[b])
      BY <1>1, <3>1 DEF QueueRight
    <3> QED BY <1>3, <3>1, <3>2 DEF Apart, Pending, Moved
  <2> QED BY <2>1, <2>2 DEF QueueRight
<1>5. DelayedRight(r)
  <2>1. ASSUME NEW i \in DOMAIN r.delayed
        PROVE  r.entries[r.delayed[i]] # None
    <3>1. PICK a \in DOMAIN s.delayed : r.delayed[i] = s.delayed[a]
      BY DEF Sublist
    <3>2. r.delayed[i] \in Urls
      BY DEF Stores
    <3> QED BY <1>1, <3>1, <3>2 DEF DelayedRight
  <2>2. ASSUME NEW i \in DOMAIN r.delayed, NEW j \in DOMAIN r.delayed, i # j
        PROVE  r.delayed[i] # r.delayed[j]
    <3>1. PICK a \in DOMAIN s.delayed, b \in DOMAIN s.delayed :
             a # b /\ r.delayed[i] = s.delayed[a] /\ r.delayed[j] = s.delayed[b]
      BY <2>2 DEF Sublist
    <3> QED BY <1>1, <3>1 DEF DelayedRight
  <2>3. ASSUME r.delayed # <<>>
        PROVE  r.timer
    <3>1. r.delayed \in Seq(Urls) /\ 1 \in DOMAIN r.delayed
      BY <2>3, EmptySeq DEF Stores
    <3>2. s.delayed # <<>>
      BY <3>1, EmptySeq DEF Sublist
    <3> QED BY <1>1, <3>2 DEF DelayedRight
  <2> QED BY <2>1, <2>2, <2>3 DEF DelayedRight
<1>6. ServedRight(r, x)
  <2> SUFFICES ASSUME NEW i \in DOMAIN r.queue, r.entries[r.queue[i].url].st = "done"
               PROVE  IsDelayed(r, r.queue[i].url) \/ r.queue[i].url \in r.lost \/ r.queue[i].url = x
    BY DEF ServedRight
  <2>1. PICK a \in DOMAIN s.queue : r.queue[i] = s.queue[a]
    BY DEF Sublist
  <2> QED BY <1>1, <1>3, <2>1 DEF ServedRight
<1> QED BY <1>2, <1>4, <1>5, <1>6 DEF Good

\* A list is part of itself.
LEMMA SublistItself == \A s : Sublist(s, s)
BY DEF Sublist

\* What Cache_entry_remove leaves.
LEMMA RemoveEntryIs ==
  ASSUME NEW s \in Stores, NEW u \in Urls, s.entries[u] # None, u \notin Files
  PROVE  LET r == RemoveEntry(s, u) IN
         /\ r \in Stores
         /\ r.entries = [s.entries EXCEPT ![u] = None] /\ r.feeding = s.feeding
         /\ r.timer = s.timer /\ r.expect = s.expect
         /\ r.lost = s.lost \ {u} /\ r.removed = s.removed \cup {u}
         /\ Sublist(r.queue, s.queue) /\ \A i \in DOMAIN r.queue : r.queue[i].url # u
         /\ Sublist(r.delayed, s.delayed) /\ \A i \in DOMAIN r.delayed : r.delayed[i] # u
         /\ \A a \in DOMAIN s.delayed : s.delayed[a] # u =>
               \E i \in DOMAIN r.delayed : r.delayed[i] = s.delayed[a]
<1> DEFINE X == {c \in ToSet(s.queue) : c.url = u}
           q == Drop(s.queue, X)
           Y == {u}
           d == Drop(s.delayed, Y)
           r == RemoveEntry(s, u)
<1>1. /\ s.queue \in Seq(Clients) /\ s.delayed \in Seq(Urls)
      /\ s.lost \ {u} \in SUBSET Urls /\ s.removed \cup {u} \in SUBSET Urls
      /\ [s.entries EXCEPT ![u] = None] \in [Urls -> Entries \cup {None}]
  BY DEF Stores
<1>2. q \in Seq(Clients) /\ Sublist(q, s.queue) /\ \A i \in DOMAIN q : q[i] \notin X
  BY <1>1, DropIs
<1>3. /\ d \in Seq(Urls) /\ Sublist(d, s.delayed) /\ \A i \in DOMAIN d : d[i] # u
      /\ \A a \in DOMAIN s.delayed : s.delayed[a] # u => \E i \in DOMAIN d : d[i] = s.delayed[a]
  <2>1. \A v : v \in Y <=> v = u
    OBVIOUS
  <2> HIDE DEF Y
  <2>2. /\ d \in Seq(Urls) /\ Sublist(d, s.delayed) /\ \A i \in DOMAIN d : d[i] \notin Y
        /\ \A a \in DOMAIN s.delayed : s.delayed[a] \notin Y =>
                 \E i \in DOMAIN d : d[i] = s.delayed[a]
    <3> DEFINE l == s.delayed
    <3>1. l \in Seq(Urls)
      BY <1>1
    <3> HIDE DEF l
    <3>2. /\ Drop(l, Y) \in Seq(Urls) /\ Sublist(Drop(l, Y), l)
          /\ \A i \in DOMAIN Drop(l, Y) : Drop(l, Y)[i] \notin Y
          /\ \A a \in DOMAIN l : l[a] \notin Y =>
                \E i \in DOMAIN Drop(l, Y) : Drop(l, Y)[i] = l[a]
      BY <3>1, DropIs
    <3> QED BY <3>2 DEF l
  <2> QED BY <2>1, <2>2
<1>4. \A i \in DOMAIN q : q[i].url # u
  BY <1>2 DEF Sublist, ToSet
<1>5. r = [s EXCEPT !.entries = [s.entries EXCEPT ![u] = None], !.queue = q, !.delayed = d,
                    !.lost = s.lost \ {u}, !.removed = s.removed \cup {u}]
  BY DEF RemoveEntry, Undelay, Stores
<1> HIDE DEF q, d, r
<1>6. r \in Stores
  BY <1>1, <1>2, <1>3, <1>5 DEF Stores
<1>7. /\ r.entries = [s.entries EXCEPT ![u] = None] /\ r.feeding = s.feeding
      /\ r.timer = s.timer /\ r.expect = s.expect /\ r.queue = q /\ r.delayed = d
      /\ r.lost = s.lost \ {u} /\ r.removed = s.removed \cup {u}
  BY <1>5 DEF Stores
<1> QED BY <1>2, <1>3, <1>4, <1>6, <1>7 DEF r

\* The entry of a URL is not touched.
Keeps(r, s, v) == r.entries[v] = s.entries[v] /\ (v \in r.removed => v \in s.removed)

\* Cache_entry_remove of an entry that no connection fills.
LEMMA RemoveGood ==
  ASSUME NEW s, NEW lv, NEW x, Good(s, lv, x), NEW u \in Urls, s.feeding[u] = None
  PROVE  LET r == RemoveEntry(s, u) IN
         /\ Good(r, lv, x) /\ r.expect = s.expect /\ r.feeding = s.feeding
         /\ u \notin Files => r.entries[u] = None
         /\ \A v \in Urls : v # u => Keeps(r, s, v)
         /\ Sublist(r.queue, s.queue)
<1> DEFINE r == RemoveEntry(s, u)
           A == {u}
<1>1. s \in Stores /\ lv \in [Windows -> Nat] /\ s.entries \in [Urls -> Entries \cup {None}]
  BY DEF Good, Stores
<1>2. CASE s.entries[u] = None \/ u \in Files
  <2>1. r = s
    BY <1>2 DEF RemoveEntry
  <2> QED BY <1>2, <2>1, SublistItself DEF Keeps
<1>3. CASE ~(s.entries[u] = None \/ u \in Files)
  <2>1. /\ r \in Stores
        /\ r.entries = [s.entries EXCEPT ![u] = None] /\ r.feeding = s.feeding
        /\ r.timer = s.timer /\ r.expect = s.expect
        /\ r.lost = s.lost \ {u} /\ r.removed = s.removed \cup {u}
        /\ Sublist(r.queue, s.queue) /\ \A i \in DOMAIN r.queue : r.queue[i].url # u
        /\ Sublist(r.delayed, s.delayed) /\ \A i \in DOMAIN r.delayed : r.delayed[i] # u
        /\ \A a \in DOMAIN s.delayed : s.delayed[a] # u =>
               \E i \in DOMAIN r.delayed : r.delayed[i] = s.delayed[a]
    BY <1>1, <1>3, RemoveEntryIs
  <2>2. \A v : v \in A <=> v = u
    OBVIOUS
  <2> HIDE DEF r, A
  <2>3. \A v \in Urls : v # u => r.entries[v] = s.entries[v]
    BY <1>1, <2>1
  <2>4. r.entries[u] = None
    BY <1>1, <2>1
  <2>5. \A i \in DOMAIN r.queue : LET v == r.queue[i].url IN
            s.entries[v].st = "done" =>
                /\ v \in s.lost => v \in r.lost
                /\ IsDelayed(s, v) => IsDelayed(r, v) \/ v \in r.lost
    BY <2>1 DEF IsDelayed
  <2>6. Good(r, lv, x)
    <3>1. /\ \A v \in Urls : v \in A => r.entries[v] = None /\ r.feeding[v] = None
          /\ \A v \in Urls : v \notin A => r.entries[v] = s.entries[v] /\ r.feeding[v] = s.feeding[v]
          /\ \A i \in DOMAIN r.queue : r.queue[i].url \notin A
          /\ \A i \in DOMAIN r.delayed : r.delayed[i] \notin A
      BY <2>1, <2>2, <2>3, <2>4
    <3>2. \A i \in DOMAIN r.queue : LET c == r.queue[i] IN
            Pending(s, c) => /\ r.expect[c.bw] = s.expect[c.bw] \/ r.expect[c.bw] = c.url
                             /\ lv[c.bw] = lv[c.bw]
      BY <2>1
    <3> QED BY SMTT(20), <1>1, <2>1, <2>5, <3>1, <3>2, ShrinkGood
  <2> QED BY <2>1, <2>3, <2>4, <2>6 DEF Keeps, r
<1> QED BY <1>2, <1>3

\* a_Capi_conn_abort_by_url: the entry goes when it has a connection.
LEMMA AbortGood ==
  ASSUME NEW s, NEW lv, NEW x, Good(s, lv, x), NEW u \in Urls
  PROVE  LET r == AbortConn(s, u) IN
         /\ Good(r, lv, x) /\ r.expect = s.expect /\ r.feeding[u] = None
         /\ s.feeding[u] # None => r.entries[u] = None
         /\ \A v \in Urls : v # u => Keeps(r, s, v)
         /\ Sublist(r.queue, s.queue)
         /\ s.feeding[u] = None => r = s
<1> DEFINE r == AbortConn(s, u)
           t == [s EXCEPT !.feeding[u] = None]
           A == {u}
<1>1. /\ s \in Stores /\ lv \in [Windows -> Nat] /\ s.entries \in [Urls -> Entries \cup {None}]
      /\ s.feeding \in [Urls -> Windows \cup {None}] /\ FedRight(s)
  BY DEF Good, Stores
<1>2. CASE s.feeding[u] = None
  <2>1. r = s
    BY <1>2 DEF AbortConn
  <2> QED BY <1>2, <2>1, SublistItself DEF Keeps
<1>3. CASE s.feeding[u] # None
  <2>1. r = RemoveEntry(t, u)
    BY <1>3 DEF AbortConn
  <2>2. s.entries[u] # None /\ u \notin Files
    BY <1>1, <1>3 DEF FedRight
  <2>3. /\ t \in Stores /\ t.feeding = [s.feeding EXCEPT ![u] = None]
        /\ t.entries = s.entries /\ t.queue = s.queue /\ t.delayed = s.delayed
        /\ t.timer = s.timer /\ t.expect = s.expect /\ t.lost = s.lost /\ t.removed = s.removed
    BY <1>1 DEF Stores
  <2> HIDE DEF t
  <2>4. /\ r \in Stores
        /\ r.entries = [s.entries EXCEPT ![u] = None] /\ r.feeding = [s.feeding EXCEPT ![u] = None]
        /\ r.timer = s.timer /\ r.expect = s.expect
        /\ r.lost = s.lost \ {u} /\ r.removed = s.removed \cup {u}
        /\ Sublist(r.queue, s.queue) /\ \A i \in DOMAIN r.queue : r.queue[i].url # u
        /\ Sublist(r.delayed, s.delayed) /\ \A i \in DOMAIN r.delayed : r.delayed[i] # u
        /\ \A a \in DOMAIN s.delayed : s.delayed[a] # u =>
               \E i \in DOMAIN r.delayed : r.delayed[i] = s.delayed[a]
    BY <2>1, <2>2, <2>3, RemoveEntryIs
  <2>5. \A v : v \in A <=> v = u
    OBVIOUS
  <2> HIDE DEF r, A
  <2>6. \A v \in Urls : v # u => r.entries[v] = s.entries[v] /\ r.feeding[v] = s.feeding[v]
    BY <1>1, <2>4
  <2>7. r.entries[u] = None /\ r.feeding[u] = None
    BY <1>1, <2>4
  <2>8. \A i \in DOMAIN r.queue : LET v == r.queue[i].url IN
            s.entries[v].st = "done" =>
                /\ v \in s.lost => v \in r.lost
                /\ IsDelayed(s, v) => IsDelayed(r, v) \/ v \in r.lost
    BY <2>4 DEF IsDelayed
  <2>9. Good(r, lv, x)
    <3>1. /\ \A v \in Urls : v \in A => r.entries[v] = None /\ r.feeding[v] = None
          /\ \A v \in Urls : v \notin A => r.entries[v] = s.entries[v] /\ r.feeding[v] = s.feeding[v]
          /\ \A i \in DOMAIN r.queue : r.queue[i].url \notin A
          /\ \A i \in DOMAIN r.delayed : r.delayed[i] \notin A
      BY <2>4, <2>5, <2>6, <2>7
    <3>2. \A i \in DOMAIN r.queue : LET c == r.queue[i] IN
            Pending(s, c) => /\ r.expect[c.bw] = s.expect[c.bw] \/ r.expect[c.bw] = c.url
                             /\ lv[c.bw] = lv[c.bw]
      BY <2>4
    <3> QED BY ZenonT(30), <1>1, <2>4, <2>8, <3>1, <3>2, ShrinkGood
  <2> QED BY <1>3, <2>4, <2>6, <2>7, <2>9 DEF Keeps, r
<1> QED BY <1>2, <1>3

\* What a_Bw_stop_clients leaves: r of s, when it stops w and aborts the URLs in A.
StopLeaves(r, s, w, A) ==
    /\ r.timer = s.timer /\ r.expect = s.expect
    /\ r.removed = s.removed \cup A
    /\ \A u \in A : r.entries[u] = None /\ r.feeding[u] = None
    /\ \A u \in Urls : u \notin A => r.entries[u] = s.entries[u] /\ r.feeding[u] = s.feeding[u]
    /\ Sublist(r.queue, s.queue) /\ \A i \in DOMAIN r.queue : r.queue[i].bw # w
    /\ Sublist(r.delayed, s.delayed)
    /\ \A i \in DOMAIN r.delayed : Mine(s, w, r.delayed[i]) = {}
    /\ \A a \in DOMAIN s.delayed : Mine(s, w, s.delayed[a]) = {} =>
           \E i \in DOMAIN r.delayed : r.delayed[i] = s.delayed[a]
    /\ s.lost \subseteq r.lost
    /\ \A u \in Urls : Mine(s, w, u) # {} /\ IsDelayed(s, u) /\ Waiting(s, u) # Mine(s, w, u)
                           => u \in r.lost

\* What a_Bw_stop_clients leaves.
LEMMA StopIs ==
  ASSUME NEW s \in Stores, NEW w \in Windows, NEW force \in BOOLEAN
  PROVE  /\ StopClients(s, w, force) \in Stores
         /\ StopLeaves(StopClients(s, w, force), s, w, AbortedByStop(s, w, force))
<1> DEFINE r == StopClients(s, w, force)
           A == AbortedByStop(s, w, force)
           X == {c \in ToSet(s.queue) : c.bw = w}
           Y == {u \in Urls : Mine(s, w, u) # {}}
           q == Drop(s.queue, X)
           d == Drop(s.delayed, Y)
           l == s.lost \cup {u \in Y : Contains(s.delayed, u) /\ Waiting(s, u) # Mine(s, w, u)}
           e == [u \in Urls |-> IF u \in A THEN None ELSE s.entries[u]]
           f == [u \in Urls |-> IF u \in A THEN None ELSE s.feeding[u]]
           g == s.removed \cup A
<1>1. /\ s.queue \in Seq(Clients) /\ s.delayed \in Seq(Urls)
      /\ s.lost \in SUBSET Urls /\ s.removed \in SUBSET Urls
      /\ s.entries \in [Urls -> Entries \cup {None}]
      /\ s.feeding \in [Urls -> Windows \cup {None}]
  BY DEF Stores
<1>2. A \subseteq Urls
  BY DEF AbortedByStop
<1>3. /\ e \in [Urls -> Entries \cup {None}] /\ f \in [Urls -> Windows \cup {None}]
      /\ l \in SUBSET Urls /\ g \in SUBSET Urls
  BY <1>1, <1>2
<1>4. q \in Seq(Clients) /\ Sublist(q, s.queue) /\ \A i \in DOMAIN q : q[i] \notin X
  BY <1>1, DropIs
<1>5. \A i \in DOMAIN q : q[i].bw # w
  BY <1>4 DEF Sublist, ToSet
<1>6. /\ d \in Seq(Urls) /\ Sublist(d, s.delayed) /\ \A i \in DOMAIN d : d[i] \notin Y
      /\ \A a \in DOMAIN s.delayed : s.delayed[a] \notin Y => \E i \in DOMAIN d : d[i] = s.delayed[a]
  <2> DEFINE z == s.delayed
  <2>1. z \in Seq(Urls)
    BY <1>1
  <2> HIDE DEF z, Y
  <2>2. /\ Drop(z, Y) \in Seq(Urls) /\ Sublist(Drop(z, Y), z)
        /\ \A i \in DOMAIN Drop(z, Y) : Drop(z, Y)[i] \notin Y
        /\ \A a \in DOMAIN z : z[a] \notin Y =>
              \E i \in DOMAIN Drop(z, Y) : Drop(z, Y)[i] = z[a]
    BY <2>1, DropIs
  <2> QED BY <2>2 DEF z
<1>7. r = [s EXCEPT !.entries = e, !.feeding = f, !.removed = g, !.queue = q, !.delayed = d, !.lost = l]
  BY DEF StopClients, Undelay, Stores
<1>8. /\ \A i \in DOMAIN d : d[i] \in Urls
      /\ \A a \in DOMAIN s.delayed : s.delayed[a] \in Urls
  <2> HIDE DEF d
  <2>1. \A z \in Seq(Urls) : \A i \in DOMAIN z : z[i] \in Urls
    OBVIOUS
  <2> QED BY <1>1, <1>6, <2>1
<1>9. /\ \A u \in A : e[u] = None /\ f[u] = None
      /\ \A u \in Urls : u \notin A => e[u] = s.entries[u] /\ f[u] = s.feeding[u]
  BY <1>2
<1>10. /\ s.lost \subseteq l
       /\ \A u \in Urls : Mine(s, w, u) # {} /\ IsDelayed(s, u) /\ Waiting(s, u) # Mine(s, w, u) => u \in l
  <2>1. DOMAIN s.delayed = 1 .. Len(s.delayed)
    BY <1>1
  <2> QED BY <2>1 DEF Contains, IsDelayed
<1>11. /\ \A i \in DOMAIN d : Mine(s, w, d[i]) = {}
       /\ \A a \in DOMAIN s.delayed : Mine(s, w, s.delayed[a]) = {} => \E i \in DOMAIN d : d[i] = s.delayed[a]
  BY <1>6, <1>8
<1> HIDE DEF e, f, l, g, q, d, r, A
<1>12. r \in Stores
  BY <1>1, <1>3, <1>4, <1>6, <1>7 DEF Stores
<1>13. /\ r.entries = e /\ r.feeding = f /\ r.removed = g /\ r.queue = q /\ r.delayed = d
       /\ r.lost = l /\ r.timer = s.timer /\ r.expect = s.expect
  BY <1>7 DEF Stores
<1>14. r.removed = s.removed \cup A
  BY <1>13 DEF g
<1>15. StopLeaves(r, s, w, A)
  BY <1>4, <1>5, <1>6, <1>9, <1>10, <1>11, <1>13, <1>14 DEF StopLeaves
<1> QED BY <1>12, <1>15 DEF r, A

\* a_Bw_stop_clients, called when something else is expected in the window.
LEMMA StopGood ==
  ASSUME NEW s, NEW lv, NEW x, Good(s, lv, x),
         NEW w \in Windows, NEW v \in Urls \cup {None}, NEW force \in BOOLEAN
  PROVE  LET r == StopClients([s EXCEPT !.expect[w] = v], w, force) IN
         /\ Good(r, lv, x) /\ r.expect = [s.expect EXCEPT ![w] = v]
         /\ \A i \in DOMAIN r.queue : r.queue[i].bw # w
         /\ \A u \in Urls : s.feeding[u] = None => Keeps(r, s, u)
<1> DEFINE t == [s EXCEPT !.expect[w] = v]
           r == StopClients(t, w, force)
           A == AbortedByStop(t, w, force)
<1>1. /\ s \in Stores /\ lv \in [Windows -> Nat] /\ s.expect \in [Windows -> Urls \cup {None}]
      /\ QueueRight(s, lv)
  BY DEF Good, Stores
<1>2. /\ t \in Stores /\ t.expect = [s.expect EXCEPT ![w] = v]
      /\ t.entries = s.entries /\ t.queue = s.queue /\ t.delayed = s.delayed
      /\ t.timer = s.timer /\ t.feeding = s.feeding /\ t.lost = s.lost /\ t.removed = s.removed
  BY <1>1 DEF Stores
<1> HIDE DEF t
<1>3. /\ r \in Stores /\ r.timer = t.timer /\ r.expect = t.expect
      /\ r.removed = t.removed \cup A
      /\ \A u \in A : r.entries[u] = None /\ r.feeding[u] = None
      /\ \A u \in Urls : u \notin A => r.entries[u] = t.entries[u] /\ r.feeding[u] = t.feeding[u]
      /\ Sublist(r.queue, t.queue) /\ \A i \in DOMAIN r.queue : r.queue[i].bw # w
      /\ Sublist(r.delayed, t.delayed)
      /\ \A i \in DOMAIN r.delayed : Mine(t, w, r.delayed[i]) = {}
      /\ \A a \in DOMAIN t.delayed : Mine(t, w, t.delayed[a]) = {} =>
             \E i \in DOMAIN r.delayed : r.delayed[i] = t.delayed[a]
      /\ t.lost \subseteq r.lost
      /\ \A u \in Urls : Mine(t, w, u) # {} /\ IsDelayed(t, u) /\ Waiting(t, u) # Mine(t, w, u)
                             => u \in r.lost
  <2>1. r \in Stores /\ StopLeaves(r, t, w, A)
    BY <1>2, StopIs
  <2> HIDE DEF r, A
  <2> QED BY <2>1 DEF StopLeaves
<1>4. \A u \in A : Mine(t, w, u) # {} /\ Waiting(t, u) = Mine(t, w, u) /\ t.feeding[u] # None
  BY DEF AbortedByStop
<1> HIDE DEF r, A
<1>5. ASSUME NEW i \in DOMAIN r.queue
      PROVE  \E a \in DOMAIN s.queue : /\ r.queue[i] = s.queue[a] /\ a \in Waiting(t, r.queue[i].url)
                                       /\ a \notin Mine(t, w, r.queue[i].url)
  BY <1>2, <1>3 DEF Sublist, Waiting, Mine
<1>6. \A i \in DOMAIN r.queue : r.queue[i].url \notin A
  BY <1>4, <1>5
<1>7. \A i \in DOMAIN r.queue : r.queue[i].url \in Urls /\ r.queue[i].bw \in Windows
  BY <1>3, ClientIs
<1>8. \A i \in DOMAIN r.queue : LET u == r.queue[i].url IN
         s.entries[u].st = "done" =>
             /\ u \in s.lost => u \in r.lost
             /\ IsDelayed(s, u) => IsDelayed(r, u) \/ u \in r.lost
  <2> SUFFICES ASSUME NEW i \in DOMAIN r.queue, IsDelayed(s, r.queue[i].url)
               PROVE  IsDelayed(r, r.queue[i].url) \/ r.queue[i].url \in r.lost
    BY <1>2, <1>3
  <2> DEFINE u == r.queue[i].url
  <2>1. IsDelayed(t, u) /\ u \in Urls
    BY <1>2, <1>7 DEF IsDelayed
  <2>2. Waiting(t, u) # Mine(t, w, u)
    BY <1>5
  <2>3. CASE Mine(t, w, u) # {}
    BY <1>3, <2>1, <2>2, <2>3
  <2>4. CASE Mine(t, w, u) = {}
    BY <1>3, <2>1, <2>4 DEF IsDelayed
  <2> QED BY <2>3, <2>4
<1>9. \A i \in DOMAIN r.queue : LET c == r.queue[i] IN
         Pending(s, c) => /\ r.expect[c.bw] = s.expect[c.bw] \/ r.expect[c.bw] = c.url
                          /\ lv[c.bw] = lv[c.bw]
  BY <1>1, <1>2, <1>3, <1>7
<1>10. \A i \in DOMAIN r.delayed : r.delayed[i] \notin A
  BY <1>3, <1>4
<1>11. /\ \A u \in Urls : u \in A => r.entries[u] = None /\ r.feeding[u] = None
       /\ \A u \in Urls : u \notin A => r.entries[u] = s.entries[u] /\ r.feeding[u] = s.feeding[u]
       /\ Sublist(r.queue, s.queue) /\ Sublist(r.delayed, s.delayed) /\ r.timer = s.timer
  BY <1>2, <1>3
<1>12. Good(r, lv, x)
  BY <1>1, <1>3, <1>6, <1>8, <1>9, <1>10, <1>11, ShrinkGood
<1>13. \A u \in Urls : s.feeding[u] = None => Keeps(r, s, u)
  BY <1>2, <1>3, <1>4 DEF Keeps
<1> QED BY <1>2, <1>3, <1>12, <1>13 DEF r, t

\* A client that comes to an entry: nothing else of its window may be pending.
NewClient(s, lv, u, c) ==
    /\ c \in Clients /\ c.url = u /\ c.cb = "none" /\ c.hops < RedirectLimit
    /\ c.root => /\ s.expect[c.bw] = u /\ c.hops <= lv[c.bw]
                 /\ \A i \in DOMAIN s.queue : s.queue[i].bw # c.bw
    /\ \A i \in DOMAIN s.queue : s.queue[i].bw = c.bw => ~Pending(s, s.queue[i])

\* A client is appended to the queue, of an entry that is there or is new.
LEMMA EnqueueGood ==
  ASSUME NEW s, NEW lv, NEW x, Good(s, lv, x), NEW u \in Urls, NEW c, NewClient(s, lv, u, c),
         NEW r \in Stores,
         r.queue = Append(s.queue, c), r.expect = s.expect,
         \A v \in Urls : v # u => r.entries[v] = s.entries[v] /\ r.feeding[v] = s.feeding[v],
         s.entries[u] # None => r.entries[u] = s.entries[u] /\ r.feeding[u] = s.feeding[u],
         s.entries[u] = None => /\ r.entries[u] = NewEntry /\ r.feeding[u] # None /\ u \notin Files,
         DelayedRight(r), r.entries[u].st = "done" => IsDelayed(r, u),
         \A v \in Urls : IsDelayed(s, v) => IsDelayed(r, v),
         \A v \in Urls : v # u /\ v \in s.lost => v \in r.lost
  PROVE  Good(r, lv, x)
<1>1. s \in Stores /\ lv \in [Windows -> Nat] /\ FedRight(s) /\ QueueRight(s, lv) /\ ServedRight(s, x)
  BY DEF Good
<1>2. NewEntry \in Entries /\ NewEntry # None /\ ~Redirects(NewEntry) /\ NewEntry.st = "empty"
  <2>1. NewEntry \in Entries
    BY DEF NewEntry, Entries, Kinds
  <2>2. NewEntry # None
    BY <2>1, NoneAssumption
  <2> QED BY <2>1, <2>2 DEF NewEntry, Redirects
<1>3. FedRight(r)
  BY <1>1, <1>2 DEF FedRight, Moved
<1> DEFINE n == Len(s.queue)
<1>4. /\ DOMAIN s.queue = 1 .. n /\ DOMAIN r.queue = 1 .. n + 1 /\ n \in Nat
      /\ r.queue[n + 1] = c /\ \A i \in 1 .. n : r.queue[i] = s.queue[i]
  <2>1. s.queue \in Seq(Clients) /\ c \in Clients
    BY <1>1 DEF Stores, NewClient
  <2> QED BY <2>1
<1> HIDE DEF n
<1>5. \A i \in 1 .. n : /\ s.queue[i].url \in Urls
                        /\ r.entries[s.queue[i].url] = s.entries[s.queue[i].url]
                        /\ s.entries[s.queue[i].url] # None
  BY ZenonT(30), <1>1, <1>4, ClientIs DEF QueueRight, ClientRight
<1>6. r.entries[u] # None /\ (r.entries[u] = s.entries[u] \/ ~Redirects(r.entries[u]))
  BY <1>2
<1>7. QueueRight(r, lv)
  <2>1. ASSUME NEW i \in DOMAIN r.queue
        PROVE  ClientRight(r, lv, r.queue[i])
    <3>1. CASE i = n + 1
      <4>1. c.url = u /\ c.cb = "none" /\ c.hops < RedirectLimit
        BY DEF NewClient
      <4>2. Pending(r, c) => r.expect[c.bw] = c.url /\ Hops(c) <= lv[c.bw]
        BY <4>1 DEF NewClient, Pending, Hops
      <4> QED BY <1>4, <1>6, <3>1, <4>1, <4>2 DEF ClientRight
    <3>2. CASE i \in 1 .. n
      <4>1. ClientRight(s, lv, s.queue[i])
        BY <1>1, <1>4, <3>2 DEF QueueRight
      <4> QED BY <1>4, <1>5, <3>2, <4>1 DEF ClientRight, Pending, Moved
    <3> QED BY <1>4, <3>1, <3>2
  <2>2. ASSUME NEW i \in DOMAIN r.queue, NEW j \in DOMAIN r.queue, i # j
        PROVE  Apart(r, r.queue[i], r.queue[j])
    <3>1. CASE i \in 1 .. n /\ j \in 1 .. n
      <4>1. Apart(s, s.queue[i], s.queue[j])
        BY <1>1, <1>4, <2>2, <3>1 DEF QueueRight
      <4> QED BY <1>4, <1>5, <3>1, <4>1 DEF Apart, Pending, Moved
    <3>2. CASE i \in 1 .. n /\ j = n + 1
      <4>1. s.queue[i].bw = c.bw => ~c.root /\ ~Pending(s, s.queue[i])
        BY <1>4, <3>2 DEF NewClient
      <4> QED BY <1>4, <1>5, <3>2, <4>1 DEF Apart, Pending, Moved
    <3>3. CASE i = n + 1 /\ j \in 1 .. n
      <4>1. c.root => s.queue[j].bw # c.bw
        BY <1>4, <3>3 DEF NewClient
      <4> QED BY <1>4, <3>3, <4>1 DEF Apart
    <3> QED BY <1>4, <2>2, <3>1, <3>2, <3>3
  <2> QED BY <2>1, <2>2 DEF QueueRight
<1>8. ServedRight(r, x)
  <2> SUFFICES ASSUME NEW i \in DOMAIN r.queue, r.entries[r.queue[i].url].st = "done"
               PROVE  IsDelayed(r, r.queue[i].url) \/ r.queue[i].url \in r.lost \/ r.queue[i].url = x
    BY DEF ServedRight
  <2>1. CASE r.queue[i].url = u
    BY <2>1
  <2>2. CASE r.queue[i].url # u
    <3>1. i \in 1 .. n /\ r.queue[i] = s.queue[i]
      BY <1>4, <2>2 DEF NewClient
    <3> QED BY <1>1, <1>4, <1>5, <2>2, <3>1 DEF ServedRight
  <2> QED BY <2>1, <2>2
<1> QED BY <1>1, <1>3, <1>7, <1>8 DEF Good

\* Cache_delayed_process_queue, for a client of an entry that exists.
LEMMA HitGood ==
  ASSUME NEW s, NEW lv, NEW x, Good(s, lv, x), NEW u \in Urls, s.entries[u] # None,
         NEW c, NewClient(s, lv, u, c)
  PROVE  LET r == Enqueue(s, u, c) IN
         /\ Good(r, lv, x) /\ r.queue = Append(s.queue, c)
         /\ r.entries = s.entries /\ r.removed = s.removed
<1> DEFINE q == Append(s.queue, c)
           t == [s EXCEPT !.queue = q]
           d == IF Contains(s.delayed, u) THEN s.delayed ELSE Append(s.delayed, u)
           l == s.lost \ {u}
           b == TRUE
           r == Enqueue(s, u, c)
<1>1. /\ s \in Stores /\ s.queue \in Seq(Clients) /\ s.delayed \in Seq(Urls)
      /\ s.lost \in SUBSET Urls /\ DelayedRight(s) /\ c \in Clients
  BY DEF Good, Stores, NewClient
<1>2. q \in Seq(Clients) /\ l \in SUBSET Urls /\ b \in BOOLEAN
  BY <1>1
<1>3. /\ d \in Seq(Urls) /\ \A i \in DOMAIN d : d[i] = u \/ \E a \in DOMAIN s.delayed : d[i] = s.delayed[a]
      /\ \A i, j \in DOMAIN d : i # j => d[i] # d[j]
      /\ \E j \in DOMAIN d : d[j] = u
      /\ \A a \in DOMAIN s.delayed : \E i \in DOMAIN d : d[i] = s.delayed[a]
  <2> DEFINE n == Len(s.delayed)
  <2>1. n \in Nat /\ DOMAIN s.delayed = 1 .. n /\ \A i, j \in 1 .. n : i # j => s.delayed[i] # s.delayed[j]
    BY <1>1 DEF DelayedRight
  <2>2. CASE Contains(s.delayed, u)
    BY <1>1, <2>1, <2>2 DEF Contains
  <2>3. CASE ~Contains(s.delayed, u)
    <3>1. /\ d \in Seq(Urls) /\ DOMAIN d = 1 .. n + 1 /\ d[n + 1] = u
          /\ \A i \in 1 .. n : d[i] = s.delayed[i] /\ s.delayed[i] # u
      BY <1>1, <2>1, <2>3 DEF Contains
    <3> HIDE DEF d, n
    <3>2. \A i \in 1 .. n + 1 : i \in 1 .. n \/ i = n + 1
      BY <2>1
    <3>3. n + 1 \in 1 .. n + 1 /\ \A i \in 1 .. n : i \in 1 .. n + 1
      BY <2>1
    <3>4. \A i, j \in DOMAIN d : i # j => d[i] # d[j]
      BY <2>1, <3>1, <3>2
    <3> QED BY <2>1, <3>1, <3>2, <3>3, <3>4
  <2> QED BY <2>2, <2>3
<1>4. /\ t \in Stores /\ t.queue = q /\ t.delayed = s.delayed /\ t.lost = s.lost
      /\ t.entries = s.entries /\ t.feeding = s.feeding /\ t.expect = s.expect /\ t.removed = s.removed
  BY <1>1, <1>2 DEF Stores
<1>5. r = [t EXCEPT !.delayed = d, !.lost = l, !.timer = b]
  <2>1. r = Delay(t, u)
    BY DEF Enqueue
  <2> QED BY <1>4, <2>1 DEF Delay, Stores
<1> HIDE DEF q, d, l, b, t, r
<1>6. r \in Stores
  BY <1>2, <1>3, <1>4, <1>5 DEF Stores
<1>7. /\ r.queue = q /\ r.delayed = d /\ r.lost = l /\ r.timer = b
      /\ r.entries = s.entries /\ r.feeding = s.feeding /\ r.expect = s.expect /\ r.removed = s.removed
  BY <1>4, <1>5 DEF Stores
<1>8. DelayedRight(r)
  BY <1>1, <1>3, <1>7 DEF DelayedRight, b
<1>9. IsDelayed(r, u) /\ \A v \in Urls : IsDelayed(s, v) => IsDelayed(r, v)
  BY <1>3, <1>7 DEF IsDelayed
<1>10. \A v \in Urls : v # u /\ v \in s.lost => v \in r.lost
  BY <1>7 DEF l
<1>11. Good(r, lv, x)
  BY <1>6, <1>7, <1>8, <1>9, <1>10, EnqueueGood DEF q
<1> QED BY <1>7, <1>11 DEF r, q

\* A client of an entry that is new, and that a connection will fill.
LEMMA MissGood ==
  ASSUME NEW s, NEW lv, NEW x, Good(s, lv, x), NEW u \in Urls, s.entries[u] = None, u \notin Files,
         NEW c, NewClient(s, lv, u, c)
  PROVE  LET r == Enqueue([s EXCEPT !.feeding[u] = c.bw], u, c) IN
         /\ Good(r, lv, x) /\ r.queue = Append(s.queue, c) /\ r.removed = s.removed
         /\ \A v \in Urls : v # u => r.entries[v] = s.entries[v]
<1> DEFINE q == Append(s.queue, c)
           e == [s.entries EXCEPT ![u] = NewEntry]
           f == [s.feeding EXCEPT ![u] = c.bw]
           t == [s EXCEPT !.feeding = f]
           r == Enqueue(t, u, c)
<1>1. /\ s \in Stores /\ s.queue \in Seq(Clients) /\ s.entries \in [Urls -> Entries \cup {None}]
      /\ s.feeding \in [Urls -> Windows \cup {None}] /\ DelayedRight(s) /\ QueueRight(s, lv)
  BY DEF Good, Stores
<1>2. c \in Clients /\ c.bw \in Windows /\ c.bw # None
  BY NoneAssumption DEF NewClient, Clients
<1>3. NewEntry \in Entries /\ NewEntry # None /\ NewEntry.st = "empty"
  <2>1. NewEntry \in Entries
    BY DEF NewEntry, Entries, Kinds
  <2> QED BY <2>1, NoneAssumption DEF NewEntry
<1>4. /\ q \in Seq(Clients) /\ e \in [Urls -> Entries \cup {None}] /\ f \in [Urls -> Windows \cup {None}]
      /\ e[u] = NewEntry /\ f[u] # None
      /\ \A v \in Urls : v # u => e[v] = s.entries[v] /\ f[v] = s.feeding[v]
  BY <1>1, <1>2, <1>3
<1>5. /\ t \in Stores /\ t.feeding = f /\ t.queue = s.queue /\ t.delayed = s.delayed
      /\ t.lost = s.lost /\ t.timer = s.timer
      /\ t.entries = s.entries /\ t.expect = s.expect /\ t.removed = s.removed
  BY <1>1, <1>4 DEF Stores
<1>6. t = [s EXCEPT !.feeding[u] = c.bw]
  BY <1>1 DEF Stores
<1>7. r = [t EXCEPT !.queue = q, !.entries = e]
  BY <1>5 DEF Enqueue, Stores
<1> HIDE DEF q, e, f, t, r
<1>8. r \in Stores
  BY <1>4, <1>5, <1>7 DEF Stores
<1>9. /\ r.queue = q /\ r.delayed = s.delayed /\ r.lost = s.lost /\ r.timer = s.timer
      /\ r.entries = e /\ r.feeding = f /\ r.expect = s.expect /\ r.removed = s.removed
  BY <1>5, <1>7 DEF Stores
<1>10. DelayedRight(r)
  <2>1. \A i \in DOMAIN s.delayed : s.delayed[i] \in Urls /\ s.entries[s.delayed[i]] # None
    BY <1>1 DEF DelayedRight, Stores
  <2> QED BY <1>1, <1>4, <1>9, <2>1 DEF DelayedRight
<1>11. \A v \in Urls : IsDelayed(s, v) => IsDelayed(r, v)
  BY <1>9 DEF IsDelayed
<1>12. Good(r, lv, x)
  BY <1>3, <1>4, <1>8, <1>9, <1>10, <1>11, EnqueueGood DEF q
<1> QED BY <1>4, <1>6, <1>9, <1>12 DEF r, q

\* a_Cache_entry_inject: the contents of a file are there at once.
LEMMA InjectGood ==
  ASSUME NEW s, NEW lv, NEW x, Good(s, lv, x), NEW u \in Files, s.entries[u] = None,
         NEW kind \in FileKinds
  PROVE  LET r == Inject(s, u, kind) IN
         /\ Good(r, lv, x) /\ r.queue = s.queue /\ r.expect = s.expect /\ r.removed = s.removed
         /\ r.entries[u] # None /\ ~Moved(r, u)
         /\ \A v \in Urls : v # u => r.entries[v] = s.entries[v]
<1> DEFINE n == [NewEntry EXCEPT !.st = "done", !.kind = kind]
           e == [s.entries EXCEPT ![u] = n]
           r == Inject(s, u, kind)
<1>1. /\ s \in Stores /\ s.queue \in Seq(Clients) /\ s.entries \in [Urls -> Entries \cup {None}]
      /\ FedRight(s) /\ DelayedRight(s) /\ QueueRight(s, lv) /\ ServedRight(s, x) /\ u \in Urls
      /\ lv \in [Windows -> Nat]
  BY FilesAssumption DEF Good, Stores
<1>2. n \in Entries /\ n # None /\ n.st = "done" /\ ~Redirects(n)
  <2>1. n \in Entries /\ n.st = "done" /\ n.kind = kind
    BY DEF NewEntry, Entries, Kinds, FileKinds
  <2>2. ~Redirects(n)
    BY <2>1 DEF Redirects, FileKinds
  <2> QED BY <2>1, <2>2, NoneAssumption
<1> HIDE DEF n
<1>3. /\ e \in [Urls -> Entries \cup {None}] /\ e[u] = n
      /\ \A v \in Urls : v # u => e[v] = s.entries[v]
  BY <1>1, <1>2
<1>4. r = [s EXCEPT !.entries = e]
  BY <1>1 DEF Inject, Stores, n
<1> HIDE DEF e, r
<1>5. r \in Stores
  BY <1>1, <1>3, <1>4 DEF Stores
<1>6. /\ r.queue = s.queue /\ r.delayed = s.delayed /\ r.lost = s.lost /\ r.timer = s.timer
      /\ r.entries = e /\ r.feeding = s.feeding /\ r.expect = s.expect /\ r.removed = s.removed
  BY <1>1, <1>4 DEF Stores
<1>7. \A i \in DOMAIN s.queue : s.queue[i].url \in Urls /\ s.queue[i].url # u
  BY <1>1, ClientIs DEF QueueRight, ClientRight
<1>8. \A i \in DOMAIN s.delayed : s.delayed[i] \in Urls /\ s.delayed[i] # u
  BY <1>1 DEF DelayedRight, Stores
<1>9. FedRight(r)
  BY <1>1, <1>2, <1>3, <1>6 DEF FedRight, Moved
<1>10. QueueRight(r, lv)
  <2>1. ASSUME NEW i \in DOMAIN r.queue
        PROVE  ClientRight(r, lv, r.queue[i])
    <3>1. ClientRight(s, lv, s.queue[i])
      BY <1>1, <1>6 DEF QueueRight
    <3> QED BY <1>3, <1>6, <1>7, <3>1 DEF ClientRight, Pending, Moved
  <2>2. ASSUME NEW i \in DOMAIN r.queue, NEW j \in DOMAIN r.queue, i # j
        PROVE  Apart(r, r.queue[i], r.queue[j])
    <3>1. Apart(s, s.queue[i], s.queue[j])
      BY <1>1, <1>6, <2>2 DEF QueueRight
    <3> QED BY <1>3, <1>6, <1>7, <3>1 DEF Apart, Pending, Moved
  <2> QED BY <2>1, <2>2 DEF QueueRight
<1>11. DelayedRight(r)
  BY <1>1, <1>3, <1>6, <1>8 DEF DelayedRight
<1>12. ServedRight(r, x)
  BY <1>1, <1>3, <1>6, <1>7 DEF ServedRight, IsDelayed
<1>13. Good(r, lv, x)
  BY <1>1, <1>5, <1>9, <1>10, <1>11, <1>12 DEF Good
<1> QED BY <1>2, <1>3, <1>6, <1>13 DEF r, Moved

\* The connection could not be started: a page that is not there is not expected.
LEMMA FailGood ==
  ASSUME NEW s, NEW lv, NEW x, Good(s, lv, x), NEW u \in Urls, s.entries[u] = None,
         NEW w \in Windows
  PROVE  LET r == [s EXCEPT !.expect[w] = IF @ = u THEN None ELSE @] IN
         /\ Good(r, lv, x) /\ r.queue = s.queue /\ r.entries = s.entries /\ r.removed = s.removed
<1> DEFINE e == [s.expect EXCEPT ![w] = IF s.expect[w] = u THEN None ELSE s.expect[w]]
           r == [s EXCEPT !.expect = e]
           A == {}
<1>1. /\ s \in Stores /\ lv \in [Windows -> Nat] /\ s.expect \in [Windows -> Urls \cup {None}]
      /\ QueueRight(s, lv)
  BY DEF Good, Stores
<1>2. e \in [Windows -> Urls \cup {None}]
  BY <1>1
<1>3. [s EXCEPT !.expect[w] = IF @ = u THEN None ELSE @] = r
  BY <1>1 DEF Stores
<1>4. \A i \in DOMAIN s.queue : s.queue[i].bw \in Windows /\ s.queue[i].url # u
  BY <1>1, ClientIs DEF QueueRight, ClientRight
<1>5. \A v \in Windows : s.expect[v] # u => e[v] = s.expect[v]
  BY <1>1
<1>6. r \in Stores
  <2> HIDE DEF e
  <2> QED BY <1>1, <1>2 DEF Stores
<1>7. /\ r.queue = s.queue /\ r.delayed = s.delayed /\ r.lost = s.lost /\ r.timer = s.timer
      /\ r.entries = s.entries /\ r.feeding = s.feeding /\ r.expect = e /\ r.removed = s.removed
  <2> HIDE DEF e
  <2> QED BY <1>1, <1>2 DEF Stores
<1> HIDE DEF e, r
<1>8. \A i \in DOMAIN s.queue : Pending(s, s.queue[i]) => s.expect[s.queue[i].bw] = s.queue[i].url
  BY <1>1 DEF QueueRight, ClientRight
<1>9. \A i \in DOMAIN r.queue : LET c == r.queue[i] IN
         Pending(s, c) => /\ r.expect[c.bw] = s.expect[c.bw] \/ r.expect[c.bw] = c.url
                          /\ lv[c.bw] = lv[c.bw]
  BY <1>4, <1>5, <1>7, <1>8
<1>10. \A i \in DOMAIN r.queue : LET v == r.queue[i].url IN
          s.entries[v].st = "done" =>
              /\ v \in s.lost => v \in r.lost
              /\ IsDelayed(s, v) => IsDelayed(r, v) \/ v \in r.lost
  BY <1>7 DEF IsDelayed
<1>11. Good(r, lv, x)
  <2>1. \A v : v \notin A
    OBVIOUS
  <2> HIDE DEF A
  <2>2. /\ \A v \in Urls : v \in A => r.entries[v] = None /\ r.feeding[v] = None
        /\ \A v \in Urls : v \notin A => r.entries[v] = s.entries[v] /\ r.feeding[v] = s.feeding[v]
        /\ \A i \in DOMAIN r.queue : r.queue[i].url \notin A
        /\ \A i \in DOMAIN r.delayed : r.delayed[i] \notin A
        /\ Sublist(r.queue, s.queue) /\ Sublist(r.delayed, s.delayed)
    BY <1>7, <2>1, SublistItself
  <2> QED BY <1>1, <1>6, <1>7, <1>9, <1>10, <2>2, ShrinkGood
<1> QED BY <1>3, <1>7, <1>11

\* A client may still come when some entries and clients have gone.
LEMMA NewClientLater ==
  ASSUME NEW s, NEW lv, NEW u, NEW c, NewClient(s, lv, u, c),
         NEW r \in Stores, r.expect = s.expect, Sublist(r.queue, s.queue),
         \A v \in Urls : r.entries[v] = s.entries[v] \/ ~Moved(r, v)
  PROVE  NewClient(r, lv, u, c)
<1>1. \A i \in DOMAIN r.queue : r.queue[i].url \in Urls
  BY ClientIs
<1>2. \A i \in DOMAIN r.queue : \E a \in DOMAIN s.queue : r.queue[i] = s.queue[a]
  BY DEF Sublist
<1>3. \A i \in DOMAIN r.queue : Pending(r, r.queue[i]) => Pending(s, r.queue[i])
  BY <1>1 DEF Pending, Moved
<1> QED BY <1>2, <1>3 DEF NewClient

\* a_Capi_open_url, with a connection that starts at once or fails at once, or without one.
LEMMA OpenGood ==
  ASSUME NEW s, NEW lv, NEW x, Good(s, lv, x), NEW u \in Urls, NEW c, NewClient(s, lv, u, c),
         NEW e2e \in BOOLEAN, NEW fails \in BOOLEAN, NEW kind \in FileKinds
  PROVE  LET r == Open(s, u, c, e2e, fails, kind) IN
         /\ Good(r, lv, x)
         /\ \A v \in Urls : v # u \/ (~e2e /\ s.entries[u] # None) => Keeps(r, s, v)
         /\ ~e2e => r.queue = s.queue \/ r.queue = Append(s.queue, c)
<1> DEFINE reload == u \notin Files /\ (s.entries[u] = None \/ e2e)
           s1 == IF reload THEN AbortConn(s, u) ELSE s
           s2 == IF reload THEN [s1 EXCEPT !.feeding[u] = c.bw] ELSE s1
           s3 == IF e2e THEN RemoveEntry(s2, u) ELSE s2
           b == RemoveEntry(s1, u)
           r == Open(s, u, c, e2e, fails, kind)
<1>1. r = IF reload /\ fails
          THEN [b EXCEPT !.expect[c.bw] = IF @ = u THEN None ELSE @]
          ELSE Enqueue(Inject(s3, u, kind), u, c)
  BY DEF Open
<1>2. s \in Stores /\ FedRight(s) /\ c.bw \in Windows /\ c.url = u
  BY DEF Good, NewClient, Clients
<1> HIDE DEF r
<1>3. CASE reload
  <2>1. /\ Good(s1, lv, x) /\ s1.expect = s.expect /\ s1.feeding[u] = None
        /\ s.feeding[u] # None => s1.entries[u] = None
        /\ \A v \in Urls : v # u => Keeps(s1, s, v)
        /\ Sublist(s1.queue, s.queue)
        /\ s.feeding[u] = None => s1 = s
    BY <1>3, AbortGood
  <2>2. s2 = [s1 EXCEPT !.feeding[u] = c.bw]
    BY <1>3
  <2>3. u \notin Files /\ (~e2e => s.entries[u] = None)
    BY <1>3
  <2>4. r = IF fails
            THEN [b EXCEPT !.expect[c.bw] = IF @ = u THEN None ELSE @]
            ELSE Enqueue(Inject(s3, u, kind), u, c)
    BY <1>1, <1>3
  <2>5. ~e2e => s1 = s
    BY <1>2, <2>1, <2>3 DEF FedRight
  <2> HIDE DEF s1, s2, reload
  <2>6. s1 \in Stores
    BY <2>1 DEF Good
  <2>7. /\ Good(b, lv, x) /\ b.expect = s1.expect /\ b.feeding = s1.feeding
        /\ b.entries[u] = None
        /\ \A v \in Urls : v # u => Keeps(b, s1, v)
        /\ Sublist(b.queue, s1.queue)
    BY <2>1, <2>3, RemoveGood
  <2>8. ~e2e => b = s
    BY <2>3, <2>5 DEF RemoveEntry
  <2>9. s3 = [b EXCEPT !.feeding[u] = c.bw] /\ s3.entries = b.entries
    <3>1. CASE ~e2e
      BY <2>2, <2>5, <2>6, <2>8, <3>1 DEF Stores
    <3>2. CASE e2e
      <4>1. s3 = RemoveEntry(s2, u)
        BY <3>2
      <4>2. /\ s2.entries = s1.entries /\ s2.queue = s1.queue /\ s2.delayed = s1.delayed
            /\ s2.lost = s1.lost /\ s2.removed = s1.removed
            /\ s2 = [s1 EXCEPT !.feeding = [s1.feeding EXCEPT ![u] = c.bw]]
        BY <2>2, <2>6 DEF Stores
      <4>3. CASE s1.entries[u] = None
        <5>1. b = s1 /\ s3 = s2
          BY <4>1, <4>2, <4>3 DEF RemoveEntry, b
        <5> QED BY <2>2, <4>2, <5>1
      <4>4. CASE s1.entries[u] # None
        <5> DEFINE q == Drop(s1.queue, {k \in ToSet(s1.queue) : k.url = u})
                   d == Undelay(s1, {u})
                   en == [s1.entries EXCEPT ![u] = None]
                   lo == s1.lost \ {u}
                   re == s1.removed \cup {u}
                   fe == [s1.feeding EXCEPT ![u] = c.bw]
        <5>1. b = [s1 EXCEPT !.entries = en, !.queue = q, !.delayed = d, !.lost = lo, !.removed = re]
          BY <2>3, <2>6, <4>4 DEF RemoveEntry, b, Stores
        <5>2. s3 = [s2 EXCEPT !.entries = en, !.queue = q, !.delayed = d, !.lost = lo, !.removed = re]
          <6>1. Undelay(s2, {u}) = d
            BY <4>2 DEF Undelay
          <6> QED BY <2>3, <2>6, <4>1, <4>2, <4>4, <6>1 DEF RemoveEntry, Stores
        <5>3. b.feeding = s1.feeding /\ b.entries = en
          <6> HIDE DEF b, en, q, d, lo, re
          <6> QED BY <2>6, <5>1 DEF Stores
        <5>4. s3.entries = en
          <6> HIDE DEF s3, en, q, d, lo, re, fe
          <6> QED BY <2>6, <4>2, <5>2 DEF Stores
        <5>5. s3 = [b EXCEPT !.feeding = fe]
          <6> HIDE DEF s3, b, en, q, d, lo, re, fe
          <6> QED BY <2>6, <4>2, <5>1, <5>2 DEF Stores, fe
        <5>6. [b EXCEPT !.feeding[u] = c.bw] = [b EXCEPT !.feeding = fe]
          <6> HIDE DEF b
          <6> QED BY <5>3
        <5> QED BY <5>3, <5>4, <5>5, <5>6
      <4> QED BY <4>3, <4>4
    <3> QED BY <3>1, <3>2
  <2> HIDE DEF b, s3
  <2>10. \A v \in Urls : v # u => Keeps(b, s, v)
    BY <2>1, <2>7 DEF Keeps
  <2>11. CASE fails
    <3>1. /\ Good(r, lv, x) /\ r.queue = b.queue /\ r.entries = b.entries /\ r.removed = b.removed
      BY <1>2, <2>4, <2>7, <2>11, FailGood
    <3> QED BY <2>3, <2>8, <2>10, <3>1 DEF r, Keeps
  <2>12. CASE ~fails
    <3>1. Inject(s3, u, kind) = s3
      BY <2>3 DEF Inject
    <3>2. r = Enqueue([b EXCEPT !.feeding[u] = c.bw], u, c)
      BY <2>4, <2>9, <2>12, <3>1
    <3>3. NewClient(b, lv, u, c)
      <4>1. Sublist(b.queue, s.queue)
        BY <2>1, <2>7 DEF Sublist
      <4>2. \A v \in Urls : b.entries[v] = s.entries[v] \/ ~Moved(b, v)
        BY <2>7, <2>10 DEF Keeps, Moved
      <4>3. b \in Stores /\ b.expect = s.expect
        BY <2>1, <2>7 DEF Good
      <4> QED BY <4>1, <4>2, <4>3, NewClientLater
    <3>4. /\ Good(r, lv, x) /\ r.queue = Append(b.queue, c) /\ r.removed = b.removed
          /\ \A v \in Urls : v # u => r.entries[v] = b.entries[v]
      BY <2>3, <2>7, <3>2, <3>3, MissGood
    <3> QED BY <2>3, <2>8, <2>10, <3>4 DEF r, Keeps
  <2> QED BY <2>11, <2>12
<1>4. CASE ~reload
  <2>1. s3 = s
    BY <1>4 DEF RemoveEntry
  <2> DEFINE i == Inject(s, u, kind)
  <2>2. r = Enqueue(i, u, c) /\ (u \in Files \/ (s.entries[u] # None /\ ~e2e))
    BY <1>1, <1>4, <2>1
  <2>3. /\ Good(i, lv, x) /\ i.queue = s.queue /\ i.expect = s.expect /\ i.removed = s.removed
        /\ i.entries[u] # None /\ \A v \in Urls : i.entries[v] = s.entries[v] \/ ~Moved(i, v)
        /\ \A v \in Urls : v # u \/ s.entries[u] # None => i.entries[v] = s.entries[v]
    <3>1. CASE u \in Files /\ s.entries[u] = None
      BY <3>1, InjectGood
    <3>2. CASE ~(u \in Files /\ s.entries[u] = None)
      BY <2>2, <3>2 DEF Inject
    <3> QED BY <3>1, <3>2
  <2> HIDE DEF i
  <2>4. NewClient(i, lv, u, c)
    <3>1. i \in Stores /\ Sublist(i.queue, s.queue)
      BY <2>3, SublistItself DEF Good
    <3> QED BY <2>3, <3>1, NewClientLater
  <2>5. /\ Good(r, lv, x) /\ r.queue = Append(i.queue, c)
        /\ r.entries = i.entries /\ r.removed = i.removed
    BY <2>2, <2>3, <2>4, HitGood
  <2> QED BY <2>3, <2>5 DEF r, Keeps
<1> QED BY <1>3, <1>4

\* a_Nav_push and Nav_open_url: the window is stopped, and its page is opened.
LEMMA PushGood ==
  ASSUME NEW s, NEW lv, NEW x, Good(s, lv, x), NEW w \in Windows, NEW u \in Urls,
         NEW hops \in Nat, hops < RedirectLimit, hops <= lv[w],
         NEW e2e \in BOOLEAN, NEW fails \in BOOLEAN, NEW kind \in FileKinds
  PROVE  LET r == Push(s, w, u, hops, e2e, fails, kind) IN
         /\ Good(r, lv, x)
         /\ \A v \in Urls : v # u /\ s.feeding[v] = None => Keeps(r, s, v)
<1> DEFINE t == StopClients([s EXCEPT !.expect[w] = u], w, FALSE)
           c == Client(w, u, TRUE, hops)
           r == Push(s, w, u, hops, e2e, fails, kind)
<1>1. /\ Good(t, lv, x) /\ t.expect = [s.expect EXCEPT ![w] = u]
      /\ \A i \in DOMAIN t.queue : t.queue[i].bw # w
      /\ \A v \in Urls : s.feeding[v] = None => Keeps(t, s, v)
  BY StopGood
<1>2. /\ c \in Clients /\ c.url = u /\ c.bw = w /\ c.root = TRUE /\ c.hops = hops /\ c.cb = "none"
  BY DEF Client, Clients
<1>3. r = Open(t, u, c, e2e, fails, kind)
  BY DEF Push
<1>4. s.expect \in [Windows -> Urls \cup {None}]
  BY DEF Good, Stores
<1> HIDE DEF t, c, r
<1>5. t.expect[w] = u
  BY <1>1, <1>4
<1>6. NewClient(t, lv, u, c)
  BY <1>1, <1>2, <1>5 DEF NewClient
<1>7. /\ Good(r, lv, x)
      /\ \A v \in Urls : v # u \/ (~e2e /\ t.entries[u] # None) => Keeps(r, t, v)
  BY <1>1, <1>3, <1>6, OpenGood
<1> QED BY <1>1, <1>7 DEF r, Keeps

\* What is right does not depend on the note of what was removed.
LEMMA SameGood ==
  ASSUME NEW s, NEW lv, NEW x, Good(s, lv, x), NEW r \in Stores,
         r.entries = s.entries, r.queue = s.queue, r.delayed = s.delayed, r.timer = s.timer,
         r.feeding = s.feeding, r.expect = s.expect, r.lost = s.lost
  PROVE  Good(r, lv, x)
BY SMTT(60) DEF Good, FedRight, QueueRight, DelayedRight, ServedRight, ClientRight, Apart, Pending, Moved,
       IsDelayed

\* Another entry is being served, or none.
LEMMA OtherGood ==
  ASSUME NEW s, NEW lv, NEW x, NEW y, Good(s, lv, x),
         \A i \in DOMAIN s.queue : s.queue[i].url = x /\ s.entries[x].st = "done" =>
            IsDelayed(s, x) \/ x \in s.lost \/ x = y
  PROVE  Good(s, lv, y)
BY DEF Good, ServedRight

\* The other clients of a window are not pending.
LEMMA OthersAreSettled ==
  ASSUME NEW s, NEW lv, NEW x, Good(s, lv, x), NEW i \in DOMAIN s.queue, NEW j \in DOMAIN s.queue,
         i # j, s.queue[i].bw = s.queue[j].bw
  PROVE  ~Pending(s, s.queue[j])
BY DEF Good, QueueRight, Apart, Pending

\* A client leaves, and what is expected in its window, or its count, may change.
Leaves(r, lw, s, lv, i) ==
    /\ r.entries = s.entries /\ r.queue = RemoveAt(s.queue, i) /\ r.delayed = s.delayed
    /\ r.timer = s.timer /\ r.feeding = s.feeding /\ r.lost = s.lost
    /\ \A w \in Windows : w # s.queue[i].bw => r.expect[w] = s.expect[w] /\ lw[w] = lv[w]

\* What is right stays so when a client leaves.
LEMMA LeaveGood ==
  ASSUME NEW s, NEW lv, NEW x, Good(s, lv, x), NEW i \in DOMAIN s.queue,
         NEW r \in Stores, NEW lw \in [Windows -> Nat], Leaves(r, lw, s, lv, i)
  PROVE  /\ Good(r, lw, x) /\ DOMAIN r.queue = 1 .. Len(s.queue) - 1
         /\ \A k \in DOMAIN r.queue : r.queue[k] = IF k < i THEN s.queue[k] ELSE s.queue[k + 1]
<1> DEFINE n == Len(s.queue)
           A == {}
<1>1. s \in Stores /\ s.queue \in Seq(Clients)
  BY DEF Good, Stores
<1>2. /\ n \in Nat /\ DOMAIN s.queue = 1 .. n /\ DOMAIN r.queue = 1 .. n - 1
      /\ \A k \in 1 .. n - 1 : r.queue[k] = IF k < i THEN s.queue[k] ELSE s.queue[k + 1]
      /\ Sublist(r.queue, s.queue)
  <2> DEFINE q == s.queue
             t == RemoveAt(q, i)
  <2>1. q \in Seq(Clients) /\ i \in DOMAIN q
    BY <1>1
  <2> HIDE DEF q
  <2>2. /\ t \in Seq(Clients) /\ DOMAIN t = 1 .. Len(q) - 1 /\ Sublist(t, q)
        /\ \A k \in 1 .. Len(q) - 1 : t[k] = IF k < i THEN q[k] ELSE q[k + 1]
    BY <2>1, RemoveAtIs
  <2>3. Len(q) \in Nat /\ DOMAIN q = 1 .. Len(q)
    BY <2>1
  <2>4. t = r.queue /\ Len(q) = n
    BY DEF q, Leaves
  <2> HIDE DEF t, n
  <2> QED BY <2>2, <2>3, <2>4 DEF q
<1> HIDE DEF n
<1>3. ASSUME NEW k \in DOMAIN r.queue
      PROVE  \E a \in DOMAIN s.queue : a # i /\ r.queue[k] = s.queue[a]
  <2>1. k \in 1 .. n - 1 /\ k \in 1 .. n /\ k + 1 \in 1 .. n /\ i \in 1 .. n
    BY <1>2
  <2>2. CASE k < i
    BY <1>2, <2>1, <2>2
  <2>3. CASE ~(k < i)
    <3>1. k + 1 # i /\ r.queue[k] = s.queue[k + 1]
      BY <1>2, <2>1, <2>3
    <3> QED BY <1>2, <2>1, <3>1
  <2> QED BY <2>2, <2>3
<1>4. \A k \in DOMAIN r.queue : LET c == r.queue[k] IN
         Pending(s, c) => /\ r.expect[c.bw] = s.expect[c.bw] \/ r.expect[c.bw] = c.url
                          /\ lw[c.bw] = lv[c.bw]
  <2> SUFFICES ASSUME NEW k \in DOMAIN r.queue, Pending(s, r.queue[k])
               PROVE  r.queue[k].bw \in Windows /\ r.queue[k].bw # s.queue[i].bw
    BY DEF Leaves
  <2>1. PICK a \in DOMAIN s.queue : a # i /\ r.queue[k] = s.queue[a]
    BY <1>3
  <2> QED BY <1>1, <2>1, OthersAreSettled, ClientIs
<1>5. \A k \in DOMAIN r.queue : LET v == r.queue[k].url IN
          s.entries[v].st = "done" =>
              /\ v \in s.lost => v \in r.lost
              /\ IsDelayed(s, v) => IsDelayed(r, v) \/ v \in r.lost
  BY DEF IsDelayed, Leaves
<1>6. \A v : v \notin A
  OBVIOUS
<1> HIDE DEF A
<1>7. /\ \A v \in Urls : v \in A => r.entries[v] = None /\ r.feeding[v] = None
      /\ \A v \in Urls : v \notin A => r.entries[v] = s.entries[v] /\ r.feeding[v] = s.feeding[v]
      /\ \A k \in DOMAIN r.queue : r.queue[k].url \notin A
      /\ \A k \in DOMAIN r.delayed : r.delayed[k] \notin A
      /\ Sublist(r.delayed, s.delayed)
      /\ Sublist(r.queue, s.queue) /\ r.timer = s.timer
  BY <1>2, <1>6, SublistItself DEF Leaves
<1>8. Good(r, lw, x)
  BY <1>4, <1>5, <1>7, ShrinkGood
<1> QED BY <1>2, <1>8 DEF n

\* An entry is filled, completed or noted as a loop, while y is served.
Fills(r, s, u, n, y) ==
    /\ s.entries[u] # None /\ n.st # "empty" /\ (Redirects(n) => n.to \in Urls)
    /\ s.entries[u].st = "empty" \/ Redirects(n) = Redirects(s.entries[u])
    /\ r.entries = [s.entries EXCEPT ![u] = n] /\ r.queue = s.queue /\ r.delayed = s.delayed
    /\ r.timer = s.timer /\ r.expect = s.expect /\ r.lost = s.lost
    /\ u \in Files => r.feeding[u] = None
    /\ r.feeding[u] # None <=> n.st = "typed"
    /\ \A v \in Urls : v # u => r.feeding[v] = s.feeding[v]
    /\ n.st = "done" => y = u

\* What is right stays so when an entry is filled.
LEMMA FillGood ==
  ASSUME NEW s, NEW lv, NEW x, NEW y, Good(s, lv, x), NEW u \in Urls, NEW n \in Entries,
         NEW r \in Stores, Fills(r, s, u, n, y), x = y \/ x = None
  PROVE  Good(r, lv, y)
<1>0. /\ s.entries[u] # None /\ n.st # "empty" /\ (Redirects(n) => n.to \in Urls)
      /\ s.entries[u].st = "empty" \/ Redirects(n) = Redirects(s.entries[u])
      /\ r.entries = [s.entries EXCEPT ![u] = n] /\ r.queue = s.queue /\ r.delayed = s.delayed
      /\ r.timer = s.timer /\ r.expect = s.expect /\ r.lost = s.lost
      /\ u \in Files => r.feeding[u] = None
      /\ r.feeding[u] # None <=> n.st = "typed"
      /\ \A v \in Urls : v # u => r.feeding[v] = s.feeding[v]
      /\ n.st = "done" => y = u
  BY DEF Fills
<1>1. /\ s \in Stores /\ lv \in [Windows -> Nat] /\ s.entries \in [Urls -> Entries \cup {None}]
      /\ FedRight(s) /\ QueueRight(s, lv) /\ DelayedRight(s) /\ ServedRight(s, x)
  BY DEF Good, Stores
<1>2. /\ n # None /\ r.entries[u] = n
      /\ \A v \in Urls : v # u => r.entries[v] = s.entries[v]
  BY <1>0, <1>1, NoneAssumption
<1>3. FedRight(r)
  BY <1>0, <1>1, <1>2 DEF FedRight, Moved, Entries
<1>4. \A i \in DOMAIN s.queue : s.queue[i].url \in Urls
  BY <1>0, <1>1, ClientIs
<1>5. ASSUME NEW i \in DOMAIN s.queue
      PROVE  /\ ClientRight(r, lv, s.queue[i])
             /\ Pending(r, s.queue[i]) => Pending(s, s.queue[i])
  <2> DEFINE c == s.queue[i]
  <2>1. ClientRight(s, lv, c)
    BY <1>0, <1>1 DEF QueueRight
  <2>2. CASE c.url # u
    BY <1>0, <1>2, <1>4, <2>1, <2>2 DEF ClientRight, Pending, Moved
  <2>3. CASE c.url = u
    <3>1. c.cb # "none" => Moved(r, u) = Moved(s, u)
      BY <1>0, <1>2, <2>1, <2>3 DEF ClientRight, Moved
    <3>2. Pending(r, c) => Pending(s, c)
      BY <1>0, <2>3, <3>1 DEF Pending
    <3>3. c.cb = "viewer" => ~Moved(r, u)
      BY <2>1, <2>3, <3>1 DEF ClientRight
    <3> HIDE DEF c
    <3> QED BY <1>0, <1>2, <2>1, <2>3, <3>2, <3>3 DEF ClientRight, c
  <2> QED BY <2>2, <2>3
<1>6. QueueRight(r, lv)
  <2>1. ASSUME NEW i \in DOMAIN s.queue, NEW j \in DOMAIN s.queue, i # j
        PROVE  Apart(r, s.queue[i], s.queue[j])
    <3>1. Apart(s, s.queue[i], s.queue[j])
      BY <1>0, <1>1, <2>1 DEF QueueRight
    <3> QED BY <1>5, <3>1 DEF Apart
  <2> QED BY <1>0, <1>5, <2>1 DEF QueueRight
<1>7. DelayedRight(r)
  <2>1. \A i \in DOMAIN s.delayed : s.delayed[i] \in Urls
    BY <1>0, <1>1 DEF Stores
  <2> QED BY <1>0, <1>1, <1>2, <2>1 DEF DelayedRight
<1>8. ServedRight(r, y)
  <2> SUFFICES ASSUME NEW i \in DOMAIN r.queue, r.entries[r.queue[i].url].st = "done"
               PROVE  IsDelayed(r, r.queue[i].url) \/ r.queue[i].url \in r.lost \/ r.queue[i].url = y
    BY DEF ServedRight
  <2>1. r.queue[i].url \in Urls /\ r.queue[i].url # None
    BY <1>0, <1>4, NoneAssumption
  <2> QED BY <1>0, <1>1, <1>2, <2>1 DEF ServedRight, IsDelayed
<1> QED BY <1>0, <1>1, <1>3, <1>6, <1>7, <1>8 DEF Good

----------------------------------------------------------------------------
(* The invariant. *)

\* The URL whose clients are being served, or None.
Now == IF frame = None THEN None ELSE frame.url

\* The activation of Cache_process_queue: its entry is there and has its header, it is
\* not one to abort when it redirects, and no client of a complete one is passed over.
FrameRight(s, f) == f # None =>
    /\ ~f.stale
    /\ f.url # None =>
         /\ s.entries[f.url] # None /\ s.entries[f.url].st \in {"typed", "done"}
         /\ f.abort => ~Moved(s, f.url)
         /\ s.entries[f.url].st = "done" /\ ~Moved(s, f.url) =>
               \A j \in DOMAIN s.queue : j < f.i => s.queue[j].url # f.url

\* The inductive invariant.
CacheInv ==
    /\ Good(Store, level, Now)
    /\ frame \in Frames \cup {None} /\ FrameRight(Store, frame)
    /\ opens \in 0 .. MaxOpens

\* The fields of the store that is made of the variables.
LEMMA StoreIs ==
  /\ Store.entries = entries /\ Store.queue = queue /\ Store.delayed = delayed
  /\ Store.timer = timer /\ Store.feeding = feeding /\ Store.expect = expect
  /\ Store.lost = lost /\ Store.removed = {}
BY DEF Store

\* The types of the variables.
LEMMA InvTypes ==
  ASSUME CacheInv
  PROVE  /\ entries \in [Urls -> Entries \cup {None}] /\ queue \in Seq(Clients)
         /\ delayed \in Seq(Urls) /\ timer \in BOOLEAN
         /\ feeding \in [Urls -> Windows \cup {None}]
         /\ expect \in [Windows -> Urls \cup {None}]
         /\ level \in [Windows -> Nat] /\ lost \in SUBSET Urls /\ Store \in Stores
<1>1. Store \in Stores /\ level \in [Windows -> Nat]
  BY DEF CacheInv, Good
<1> QED BY <1>1, StoreIs DEF Stores

\* A frame that serves an entry, and the next client that it looks at.
LEMMA ServingIs ==
  ASSUME CacheInv, frame # None, frame.url # None, NEW i \in DOMAIN queue, NextClient(i)
  PROVE  /\ frame \in Frames /\ frame.url \in Urls /\ Now = frame.url /\ ~frame.stale
         /\ Entry \in Entries /\ Entry # None /\ Entry.st \in {"typed", "done"}
         /\ Moved(Store, frame.url) = Redirects(Entry)
         /\ queue[i] \in Clients /\ queue[i].url = frame.url /\ queue[i].bw \in Windows
         /\ ClientRight(Store, level, queue[i])
<1>1. frame \in Frames /\ frame.url \in Urls /\ Now = frame.url
  BY DEF CacheInv, Now, Frames
<1>2. Entry # None /\ Entry.st \in {"typed", "done"} /\ ~frame.stale
  BY <1>1, StoreIs DEF CacheInv, FrameRight, Entry
<1>3. Entry \in Entries
  BY <1>1, <1>2, InvTypes DEF Entry
<1>4. Moved(Store, frame.url) = Redirects(Entry)
  BY <1>2, StoreIs DEF Moved, Entry, Redirects
<1>5. queue[i] \in Clients /\ queue[i].bw \in Windows
  <2>1. queue[i] \in Clients
    BY InvTypes
  <2> QED BY <2>1 DEF Clients
<1>6. queue[i].url = frame.url
  BY DEF NextClient
<1>7. ClientRight(Store, level, queue[i])
  BY StoreIs DEF CacheInv, Good, QueueRight
<1> QED BY <1>1, <1>2, <1>3, <1>4, <1>5, <1>6, <1>7

\* What the first call for a client changes in its window.
LEMMA WindowIs ==
  ASSUME CacheInv, NEW c \in Clients
  PROVE  LET e == NewExpect(c)
             lw == [level EXCEPT ![c.bw] = NewLevel(c)] IN
         /\ e \in [Windows -> Urls \cup {None}] /\ lw \in [Windows -> Nat]
         /\ lw[c.bw] = NewLevel(c)
         /\ \A w \in Windows : w # c.bw => e[w] = expect[w] /\ lw[w] = level[w]
         /\ Redirects(Entry) => e = expect
<1>1. c.bw \in Windows
  BY DEF Clients
<1>2. expect \in [Windows -> Urls \cup {None}] /\ level \in [Windows -> Nat]
  BY InvTypes
<1>3. NewLevel(c) \in Nat
  BY <1>1, <1>2 DEF NewLevel
<1>4. Redirects(Entry) => ~Viewed(c) /\ ~Aborts(c)
  BY DEF Viewed, Aborts, Unset
<1>5. Redirects(Entry) => NewExpect(c) = expect
  BY <1>1, <1>2, <1>4 DEF NewExpect
<1>6. /\ NewExpect(c) \in [Windows -> Urls \cup {None}]
      /\ \A w \in Windows : w # c.bw => NewExpect(c)[w] = expect[w]
  BY <1>1, <1>2 DEF NewExpect
<1> QED BY <1>1, <1>2, <1>3, <1>5, <1>6

\* The client has had data, and its window knows.
LEMMA SentGood ==
  ASSUME CacheInv, frame # None, frame.url # None, NEW i \in DOMAIN queue, NextClient(i)
  PROVE  LET s == Sent(i)
             c == queue[i]
             lw == [level EXCEPT ![c.bw] = NewLevel(c)] IN
         /\ Good(s, lw, frame.url)
         /\ s.entries = entries /\ s.feeding = feeding /\ s.delayed = delayed /\ s.lost = lost
         /\ s.timer = timer /\ s.removed = {} /\ s.expect = NewExpect(c)
         /\ DOMAIN s.queue = DOMAIN queue /\ Len(s.queue) = Len(queue)
         /\ \A k \in DOMAIN queue : s.queue[k].url = queue[k].url /\ s.queue[k].bw = queue[k].bw
         /\ s.queue[i].cb = NewCallback(c)
<1> DEFINE c == queue[i]
           d == [c EXCEPT !.cb = NewCallback(c), !.sent = TRUE]
           q == [queue EXCEPT ![i] = d]
           e == NewExpect(c)
           lw == [level EXCEPT ![c.bw] = NewLevel(c)]
           s == Sent(i)
           x == frame.url
<1>1. /\ x \in Urls /\ Now = x /\ Entry \in Entries /\ Entry.st \in {"typed", "done"}
      /\ Moved(Store, x) = Redirects(Entry)
      /\ c \in Clients /\ c.url = x /\ c.bw \in Windows /\ ClientRight(Store, level, c)
  BY ServingIs
<1>2. /\ e \in [Windows -> Urls \cup {None}] /\ lw \in [Windows -> Nat]
      /\ lw[c.bw] = NewLevel(c)
      /\ \A w \in Windows : w # c.bw => e[w] = expect[w] /\ lw[w] = level[w]
      /\ Redirects(Entry) => e = expect
  BY <1>1, WindowIs
<1>3. NewCallback(c) \in {"null", "viewer"}
  BY <1>1 DEF NewCallback, Clients
<1>4. /\ d \in Clients /\ d.url = x /\ d.bw = c.bw /\ d.root = c.root /\ d.hops = c.hops
      /\ d.cb = NewCallback(c)
  BY <1>1, <1>3 DEF Clients
<1>5. /\ queue \in Seq(Clients) /\ Store \in Stores /\ level \in [Windows -> Nat]
      /\ Good(Store, level, x)
  BY <1>1, InvTypes DEF CacheInv
<1> HIDE DEF d
<1>6. /\ q \in Seq(Clients) /\ DOMAIN q = DOMAIN queue /\ Len(q) = Len(queue) /\ q[i] = d
      /\ \A k \in DOMAIN queue : k # i => q[k] = queue[k]
  BY <1>4, <1>5
<1>7. s = [Store EXCEPT !.queue = q, !.expect = e]
  <2> DEFINE v == NewCallback(c)
  <2>1. s = [Store EXCEPT !.queue = [[queue EXCEPT ![i].cb = v] EXCEPT ![i].sent = TRUE], !.expect = e]
    BY StoreIs DEF Sent, Store
  <2>2. [[queue EXCEPT ![i].cb = v] EXCEPT ![i].sent = TRUE] = q
    BY <1>5 DEF d
  <2> QED BY <2>1, <2>2
<1> HIDE DEF q, e, lw, s
<1>8. /\ s \in Stores /\ s.entries = entries /\ s.queue = q /\ s.delayed = delayed
      /\ s.timer = timer /\ s.feeding = feeding /\ s.expect = e /\ s.lost = lost /\ s.removed = {}
  BY <1>2, <1>5, <1>6, <1>7, StoreIs DEF Stores
<1>9. \A u : Moved(s, u) = Moved(Store, u)
  BY <1>8, StoreIs DEF Moved
<1>10. \A k : Pending(s, k) = Pending(Store, k)
  BY <1>9 DEF Pending
<1>11. FedRight(Store) /\ QueueRight(Store, level) /\ DelayedRight(Store) /\ ServedRight(Store, x)
  BY <1>5 DEF Good
<1>12. FedRight(s) /\ DelayedRight(s)
  BY <1>8, <1>9, <1>11, StoreIs DEF FedRight, DelayedRight
<1>13. \A k \in DOMAIN queue : q[k].url = queue[k].url /\ q[k].bw = queue[k].bw
  BY <1>1, <1>4, <1>6
<1>14. ServedRight(s, x)
  BY <1>6, <1>8, <1>11, <1>13, StoreIs DEF ServedRight, IsDelayed
<1>15. ClientRight(s, lw, d)
  <2>1. s.entries[d.url] # None /\ s.entries[d.url].st # "empty" /\ d.hops < RedirectLimit
    BY <1>1, <1>4, <1>8, StoreIs DEF ClientRight, Entry
  <2>2. d.cb = "viewer" => ~Moved(s, d.url)
    BY <1>1, <1>4, <1>9 DEF ClientRight, NewCallback, Viewed, Unset
  <2>3. ASSUME Pending(s, d)
        PROVE  s.expect[d.bw] = d.url /\ Hops(d) <= lw[d.bw]
    <3>1. Redirects(Entry) /\ c.root
      BY <1>1, <1>3, <1>4, <1>9, <2>3 DEF Pending
    <3>2. Pending(Store, c)
      BY <1>1, <3>1 DEF Pending
    <3>3. expect[c.bw] = c.url /\ Hops(c) <= level[c.bw]
      BY <1>1, <3>2, StoreIs DEF ClientRight
    <3>4. NewLevel(c) = IF c.cb = "none" THEN level[c.bw] + 1 ELSE level[c.bw]
      BY <3>1 DEF NewLevel
    <3>5. Hops(d) = c.hops + 1 /\ c.hops \in Nat /\ level[c.bw] \in Nat
      BY <1>1, <1>3, <1>4, <1>5 DEF Hops, Clients
    <3>6. Hops(d) <= NewLevel(c)
      BY <3>3, <3>4, <3>5 DEF Hops
    <3> QED BY <1>1, <1>2, <1>4, <1>8, <3>1, <3>3, <3>6
  <2> HIDE DEF c
  <2> QED BY <2>1, <2>2, <2>3 DEF ClientRight
<1>16. ASSUME NEW k \in DOMAIN queue, k # i
       PROVE  ClientRight(s, lw, queue[k])
  <2>1. ClientRight(Store, level, queue[k])
    BY <1>11, StoreIs DEF QueueRight
  <2>2. CASE queue[k].bw = c.bw
    <3>1. ~Pending(Store, queue[k])
      BY <1>5, <1>16, <2>2, OthersAreSettled, StoreIs
    <3> QED BY <1>8, <1>9, <1>10, <2>1, <3>1, StoreIs DEF ClientRight
  <2>3. CASE queue[k].bw # c.bw
    <3>1. queue[k].bw \in Windows
      BY <1>5, ClientIs, StoreIs
    <3> QED BY <1>2, <1>8, <1>9, <1>10, <2>1, <2>3, <3>1, StoreIs DEF ClientRight
  <2> QED BY <2>2, <2>3
<1>17. ASSUME NEW k \in DOMAIN queue, NEW l \in DOMAIN queue, k # l
       PROVE  Apart(s, q[k], q[l])
  <2>1. Apart(Store, queue[k], queue[l])
    BY <1>11, <1>17, StoreIs DEF QueueRight
  <2>2. CASE k # i /\ l # i
    BY <1>6, <1>10, <2>1, <2>2 DEF Apart
  <2>3. CASE l = i
    BY <1>4, <1>6, <1>10, <1>17, <2>1, <2>3 DEF Apart
  <2>4. CASE k = i
    <3>1. q[k] = d /\ q[l] = queue[l]
      BY <1>6, <1>17, <2>4
    <3>2. ~Pending(Store, c) => ~Pending(s, d)
      BY <1>1, <1>3, <1>4, <1>9 DEF Pending
    <3> QED BY <1>4, <2>1, <2>4, <3>1, <3>2 DEF Apart
  <2> QED BY <2>2, <2>3, <2>4
<1>18. QueueRight(s, lw)
  BY <1>6, <1>8, <1>15, <1>16, <1>17 DEF QueueRight
<1>19. Good(s, lw, x)
  BY <1>2, <1>8, <1>12, <1>14, <1>18 DEF Good
<1> QED BY <1>4, <1>6, <1>8, <1>13, <1>19 DEF s, lw, q, e

----------------------------------------------------------------------------
(* The steps of the user and of the connections. *)

\* A call leaves what is right, and the next state is what it leaves.
LEMMA BecomesGood ==
  ASSUME NEW s, Becomes(s), NEW y, Good(s, level', y)
  PROVE  /\ Good(Store', level', y)
         /\ \A v : Moved(Store', v) = Moved(s, v)
         /\ entries' = s.entries /\ queue' = s.queue
<1>1. s \in Stores
  BY DEF Good
<1>2. /\ Store'.entries = entries' /\ Store'.queue = queue' /\ Store'.delayed = delayed'
      /\ Store'.timer = timer' /\ Store'.feeding = feeding' /\ Store'.expect = expect'
      /\ Store'.lost = lost' /\ Store'.removed = {}
  BY DEF Store
<1>3. /\ entries' = s.entries /\ queue' = s.queue /\ delayed' = s.delayed
      /\ timer' = s.timer /\ feeding' = s.feeding /\ expect' = s.expect /\ lost' = s.lost
  BY DEF Becomes
<1>5. Store' \in Stores
  BY <1>1, <1>3 DEF Store, Stores
<1>6. Good(Store', level', y)
  <2> DEFINE r == Store'
  <2>1. /\ r \in Stores /\ r.entries = s.entries /\ r.queue = s.queue /\ r.delayed = s.delayed
        /\ r.timer = s.timer /\ r.feeding = s.feeding /\ r.expect = s.expect /\ r.lost = s.lost
    BY <1>2, <1>3, <1>5
  <2> DEFINE lv == level'
  <2>2. Good(s, lv, y)
    OBVIOUS
  <2> HIDE DEF r, lv
  <2>3. Good(r, lv, y)
    BY <2>1, <2>2, SameGood
  <2> QED BY <2>3 DEF r, lv
<1>7. \A v : Moved(Store', v) = Moved(s, v)
  BY <1>2, <1>3 DEF Moved
<1> QED BY <1>3, <1>6, <1>7

\* A call from the main loop.
LEMMA MainLoop ==
  ASSUME CacheInv, Idle, NEW s, Becomes(s), Good(s, level, None), UNCHANGED <<level, frame>>,
         opens' \in 0 .. MaxOpens
  PROVE  CacheInv'
<1>1. Good(s, level', None)
  OBVIOUS
<1>2. Good(Store', level', None)
  BY <1>1, BecomesGood
<1>3. frame' = None /\ Now' = None
  BY DEF Idle, Now
<1>4. FrameRight(Store', frame')
  BY <1>3 DEF FrameRight
<1> QED BY <1>2, <1>3, <1>4 DEF CacheInv

\* The bound on the clients opened.
LEMMA OpensIs == ASSUME CacheInv, MayOpen PROVE opens' \in 0 .. MaxOpens
BY LimitAssumption DEF CacheInv, MayOpen

\* A link is followed, or a page is reloaded.
LEMMA PushKeeps ==
  ASSUME CacheInv, NEW w \in Windows, NEW u \in Urls, a_Nav_push(w, u) \/ a_Nav_reload(w, u)
  PROVE  CacheInv'
<1>1. PICK e2e \in BOOLEAN, fails \in BOOLEAN, kind \in FileKinds :
         Becomes(Push(Store, w, u, 0, e2e, fails, kind))
  BY DEF a_Nav_push, a_Nav_reload
<1>2. Idle /\ MayOpen /\ UNCHANGED <<level, frame>>
  BY DEF a_Nav_push, a_Nav_reload
<1>3. Good(Store, level, None) /\ level[w] \in Nat
  BY <1>2, InvTypes DEF CacheInv, Idle, Now
<1> DEFINE r == Push(Store, w, u, 0, e2e, fails, kind)
           s == Store
           lv == level
           z == 0
<1>4. Good(r, level, None)
  <2>1. Good(s, lv, None) /\ z \in Nat /\ z < RedirectLimit /\ z <= lv[w]
    BY <1>3, LimitAssumption
  <2> HIDE DEF s, lv, z
  <2>2. Good(Push(s, w, u, z, e2e, fails, kind), lv, None)
    BY <2>1, PushGood
  <2> QED BY <2>2 DEF s, lv, z
<1> HIDE DEF r, s, lv, z
<1>5. Becomes(r)
  BY <1>1 DEF r
<1> QED BY <1>2, <1>4, <1>5, OpensIs, MainLoop

\* The user stops a window.
LEMMA StopKeeps ==
  ASSUME CacheInv, NEW w \in Windows, a_UIcmd_stop(w)
  PROVE  CacheInv'
<1>1. Idle /\ UNCHANGED <<level, opens, frame>>
  BY DEF a_UIcmd_stop
<1> DEFINE r == StopClients([Store EXCEPT !.expect[w] = None], w, TRUE)
<1>2. Good(Store, level, None) /\ opens' \in 0 .. MaxOpens
  BY <1>1 DEF CacheInv, Idle, Now
<1>3. Good(r, level, None)
  <2> DEFINE s == Store
             lv == level
             v == None
             force == TRUE
  <2>1. Good(s, lv, None) /\ v \in Urls \cup {None} /\ force \in BOOLEAN
    BY <1>2
  <2> HIDE DEF s, lv, v, force
  <2>2. Good(StopClients([s EXCEPT !.expect[w] = v], w, force), lv, None)
    BY <2>1, StopGood
  <2> QED BY <2>2 DEF s, lv, v, force
<1>4. Becomes(r)
  BY DEF a_UIcmd_stop
<1> HIDE DEF r
<1> QED BY <1>1, <1>2, <1>3, <1>4, MainLoop

\* A connection fails.
LEMMA ConnFailsKeeps ==
  ASSUME CacheInv, NEW u \in Urls, ConnFails(u)
  PROVE  CacheInv'
<1>1. Idle /\ UNCHANGED <<level, opens, frame>> /\ feeding[u] # None
  BY DEF ConnFails
<1> DEFINE s == AbortConn(Store, u)
           w == feeding[u]
           r == [s EXCEPT !.expect[w] = IF @ = u THEN None ELSE @]
<1>2. Good(Store, level, None) /\ opens' \in 0 .. MaxOpens /\ w \in Windows
  BY <1>1, InvTypes DEF CacheInv, Idle, Now
<1>3. Good(s, level, None) /\ s.entries[u] = None
  <2> DEFINE t == Store
             lv == level
  <2>1. Good(t, lv, None) /\ t.feeding[u] # None
    BY <1>1, <1>2, StoreIs
  <2> HIDE DEF t, lv
  <2>2. Good(AbortConn(t, u), lv, None) /\ AbortConn(t, u).entries[u] = None
    BY <2>1, AbortGood
  <2> QED BY <2>2 DEF t, lv
<1>4. Becomes(r)
  BY DEF ConnFails
<1>5. Good(r, level, None)
  <2> HIDE DEF s, w
  <2> QED BY <1>2, <1>3, FailGood
<1> HIDE DEF r
<1> QED BY <1>1, <1>2, <1>4, <1>5, MainLoop

\* Data comes, or the end of it, and the clients are served.
LEMMA TypedKeeps ==
  ASSUME CacheInv, Idle, NEW u \in Urls, feeding[u] # None,
         NEW st \in {"typed", "done"}, NEW via \in {"read", "close"}, Typed(u, st, via),
         feeding' = IF st = "typed" THEN feeding ELSE [feeding EXCEPT ![u] = None],
         UNCHANGED <<queue, delayed, timer, expect, level, lost, opens>>
  PROVE  CacheInv'
<1>1. /\ Good(Store, level, None) /\ FedRight(Store)
      /\ entries \in [Urls -> Entries \cup {None}] /\ Store \in Stores
      /\ feeding \in [Urls -> Windows \cup {None}]
  BY InvTypes DEF CacheInv, Idle, Now, Good
<1>2. /\ entries[u] # None /\ entries[u] \in Entries /\ u \notin Files
      /\ Redirects(entries[u]) => entries[u].to \in Urls
  BY <1>1, StoreIs DEF FedRight, Moved
<1>3. PICK n \in Entries, m \in BOOLEAN :
         /\ entries' = [entries EXCEPT ![u] = n] /\ frame' = Frame(u, via, m)
         /\ n.st = st /\ (Redirects(n) => n.to \in Urls)
         /\ entries[u].st = "empty" \/ Redirects(n) = Redirects(entries[u])
  <2>1. CASE entries[u].st = "empty"
    <3>1. PICK a \in Answers :
            /\ entries' = [entries EXCEPT ![u] = [st |-> st, kind |-> a.kind,
                                                  to |-> a.to, loop |-> FALSE]]
            /\ frame' = Frame(u, via, a.kind = "mismatch")
      BY <2>1 DEF Typed
    <3> DEFINE n == [st |-> st, kind |-> a.kind, to |-> a.to, loop |-> FALSE]
    <3>2. a.kind \in Kinds /\ a.to \in Urls \cup {None} /\ (a.kind \in {"301", "302"} => a.to \in Urls)
      BY DEF Answers, Kinds
    <3>3. n \in Entries /\ n.st = st /\ (Redirects(n) => n.to \in Urls)
      BY <3>2 DEF Entries, Redirects
    <3>4. (a.kind = "mismatch") \in BOOLEAN
      OBVIOUS
    <3> HIDE DEF n
    <3> QED BY <2>1, <3>1, <3>3, <3>4 DEF n
  <2>2. CASE entries[u].st = "typed"
    <3> DEFINE n == [entries[u] EXCEPT !.st = st]
    <3>1. n \in Entries /\ n.st = st /\ n.to = entries[u].to /\ n.kind = entries[u].kind
      BY <1>2 DEF Entries
    <3>2. entries' = [entries EXCEPT ![u] = n] /\ frame' = Frame(u, via, FALSE)
      BY <1>1, <1>2, <2>2 DEF Typed
    <3> HIDE DEF n
    <3> QED BY <1>2, <3>1, <3>2 DEF Redirects
  <2> QED BY <2>1, <2>2 DEF Typed
<1>4. /\ entries' \in [Urls -> Entries \cup {None}] /\ entries'[u] = n
      /\ feeding' \in [Urls -> Windows \cup {None}]
      /\ feeding'[u] = IF st = "typed" THEN feeding[u] ELSE None
      /\ \A v \in Urls : v # u => feeding'[v] = feeding[v]
  BY <1>1, <1>3
<1>5. frame' \in Frames /\ frame'.url = u /\ ~frame'.stale /\ ~frame'.abort /\ frame'.i = 1
  BY <1>3 DEF Frame, Frames
<1>6. frame' # None /\ Now' = u
  BY <1>5, NoneAssumption DEF Now
<1>7. Good(Store', level', u)
  <2> DEFINE s == Store
             r == Store'
             lv == level
  <2>1. /\ r.entries = [s.entries EXCEPT ![u] = n] /\ r.queue = s.queue /\ r.delayed = s.delayed
        /\ r.timer = s.timer /\ r.expect = s.expect /\ r.lost = s.lost
        /\ r.feeding[u] = (IF st = "typed" THEN s.feeding[u] ELSE None)
        /\ \A v \in Urls : v # u => r.feeding[v] = s.feeding[v]
        /\ s.entries[u] # None /\ s.feeding[u] # None
        /\ s.entries[u].st = "empty" \/ Redirects(n) = Redirects(s.entries[u])
    BY <1>1, <1>2, <1>3, <1>4 DEF Store
  <2>2. r \in Stores
    BY <1>1, <1>4 DEF Store, Stores
  <2>3. Good(s, lv, None) /\ lv = level'
    BY <1>1
  <2> HIDE DEF s, r, lv
  <2>4. Fills(r, s, u, n, u)
    BY <1>2, <1>3, <2>1 DEF Fills
  <2>5. Good(r, lv, u)
    BY <1>3, <2>2, <2>3, <2>4, FillGood
  <2> QED BY <2>3, <2>5 DEF r
<1>8. FrameRight(Store', frame')
  <2>1. queue' \in Seq(Clients) /\ Store'.queue = queue' /\ Store'.entries = entries'
    BY InvTypes DEF Store
  <2>2. \A j \in DOMAIN Store'.queue : ~(j < 1)
    BY <2>1
  <2>3. n # None
    BY NoneAssumption
  <2> QED BY <1>3, <1>4, <1>5, <2>1, <2>2, <2>3 DEF FrameRight
<1>9. opens' \in 0 .. MaxOpens
  BY DEF CacheInv
<1> QED BY <1>5, <1>6, <1>7, <1>8, <1>9 DEF CacheInv

\* IORead and IOClose.
LEMMA ReadKeeps ==
  ASSUME CacheInv, NEW u \in Urls, Read(u) \/ Close(u)
  PROVE  CacheInv'
<1>1. CASE Read(u)
  <2> DEFINE st == "typed"
             via == "read"
  <2>1. /\ Idle /\ feeding[u] # None /\ Typed(u, st, via)
        /\ feeding' = (IF st = "typed" THEN feeding ELSE [feeding EXCEPT ![u] = None])
        /\ UNCHANGED <<queue, delayed, timer, expect, level, lost, opens>>
        /\ st \in {"typed", "done"} /\ via \in {"read", "close"}
    BY <1>1 DEF Read
  <2> HIDE DEF st, via
  <2> QED BY <2>1, TypedKeeps
<1>2. CASE Close(u)
  <2> DEFINE st == "done"
             via == "close"
  <2>1. /\ Idle /\ feeding[u] # None /\ Typed(u, st, via)
        /\ feeding' = (IF st = "typed" THEN feeding ELSE [feeding EXCEPT ![u] = None])
        /\ UNCHANGED <<queue, delayed, timer, expect, level, lost, opens>>
        /\ st \in {"typed", "done"} /\ via \in {"read", "close"}
    BY <1>2 DEF Close
  <2> HIDE DEF st, via
  <2> QED BY <2>1, TypedKeeps
<1> QED BY <1>1, <1>2

\* The connection closes before the header is complete.
LEMMA CloseEmptyKeeps ==
  ASSUME CacheInv, NEW u \in Urls, CloseEmpty(u)
  PROVE  CacheInv'
<1>1. /\ Idle /\ feeding[u] # None /\ entries[u] # None /\ entries[u].st = "empty"
      /\ feeding' = [feeding EXCEPT ![u] = None]
      /\ UNCHANGED <<queue, delayed, timer, expect, level, lost, opens, frame>>
  BY DEF CloseEmpty
<1>2. /\ Good(Store, level, None) /\ entries \in [Urls -> Entries \cup {None}]
      /\ Store \in Stores /\ feeding \in [Urls -> Windows \cup {None}] /\ FedRight(Store)
  BY <1>1, InvTypes DEF CacheInv, Idle, Now, Good
<1> DEFINE n == [entries[u] EXCEPT !.st = "void"]
<1>3. n \in Entries /\ n.st = "void" /\ Redirects(n) = Redirects(entries[u]) /\ n.to = entries[u].to
  <2>1. entries[u] \in Entries
    BY <1>1, <1>2
  <2> QED BY <2>1 DEF Entries, Redirects
<1>4. entries' = [entries EXCEPT ![u] = n]
  BY <1>2 DEF CloseEmpty
<1> HIDE DEF n
<1>5. Good(Store', level', None)
  <2> DEFINE s == Store
             r == Store'
             lv == level
  <2>1. /\ r.entries = [s.entries EXCEPT ![u] = n] /\ r.queue = s.queue /\ r.delayed = s.delayed
        /\ r.timer = s.timer /\ r.expect = s.expect /\ r.lost = s.lost
        /\ r.feeding[u] = None /\ \A v \in Urls : v # u => r.feeding[v] = s.feeding[v]
        /\ s.entries[u] # None /\ s.entries[u].st = "empty"
    BY <1>1, <1>2, <1>4 DEF Store
  <2>2. r \in Stores
    <3>1. entries' \in [Urls -> Entries \cup {None}] /\ feeding' \in [Urls -> Windows \cup {None}]
      BY <1>1, <1>2, <1>3, <1>4
    <3> QED BY <1>1, <1>2, <3>1 DEF Store, Stores
  <2>3. Good(s, lv, None) /\ lv = level'
    BY <1>1, <1>2
  <2>4. Redirects(n) => n.to \in Urls
    BY <1>1, <1>2, <1>3, StoreIs DEF FedRight, Moved
  <2> HIDE DEF s, r, lv
  <2> DEFINE y == None
  <2>5. Fills(r, s, u, n, y) /\ y = None
    BY <1>3, <2>1, <2>4 DEF Fills
  <2> HIDE DEF y
  <2>6. Good(r, lv, y)
    BY <1>3, <2>2, <2>3, <2>5, FillGood
  <2> QED BY <2>3, <2>6 DEF r, y
<1>6. frame' = None /\ Now' = None /\ FrameRight(Store', frame')
  BY <1>1 DEF Idle, Now, FrameRight
<1> QED BY <1>1, <1>5, <1>6 DEF CacheInv

\* The frame of the timeout, between two entries.
LEMMA LoopHeadIs ==
  LoopHead \in Frames /\ LoopHead # None /\ LoopHead.url = None /\ ~LoopHead.stale
<1> DEFINE f == Frame(None, "delayed", FALSE)
<1>1. f \in Frames /\ f.url = None /\ f.stale = FALSE
  BY DEF Frame, Frames
<1>2. LoopHead = [f EXCEPT !.i = 0]
  BY DEF LoopHead
<1> HIDE DEF f
<1>3. LoopHead \in Frames /\ LoopHead.url = None /\ LoopHead.stale = FALSE
  BY <1>1, <1>2 DEF Frames
<1> QED BY <1>3, NoneAssumption

\* The timeout goes through the list.
LEMMA DelayedKeeps ==
  ASSUME CacheInv, DelayedCallback \/ DelayedNext \/ DelayedEnd
  PROVE  CacheInv'
<1>1. /\ Good(Store, level, Now) /\ Store \in Stores /\ opens \in 0 .. MaxOpens
      /\ delayed \in Seq(Urls) /\ frame \in Frames \cup {None} /\ FrameRight(Store, frame)
      /\ FedRight(Store) /\ QueueRight(Store, level) /\ DelayedRight(Store)
      /\ ServedRight(Store, Now) /\ level \in [Windows -> Nat]
  BY InvTypes DEF CacheInv, Good
<1>2. CASE DelayedCallback
  <2>1. Now = None /\ frame' = LoopHead
        /\ UNCHANGED <<entries, queue, delayed, timer, feeding, expect, level, lost, opens>>
    BY <1>2 DEF DelayedCallback, Idle, Now
  <2>2. Store' = Store /\ Now' = None
    BY <2>1, LoopHeadIs DEF Store, Now
  <2>3. FrameRight(Store', frame')
    BY <2>1, LoopHeadIs DEF FrameRight
  <2> QED BY <1>1, <2>1, <2>2, <2>3, LoopHeadIs DEF CacheInv
<1>3. CASE DelayedNext
  <2>1. /\ frame # None /\ frame.url = None /\ delayed # <<>> /\ Now = None
        /\ UNCHANGED <<entries, queue, timer, feeding, expect, level, lost, opens>>
    BY <1>3 DEF DelayedNext, AtLoopHead, Now
  <2> DEFINE u == Head(delayed)
  <2>2. u \in Urls /\ 1 \in DOMAIN delayed /\ u = delayed[1]
    BY <1>1, <2>1, EmptySeq
  <2>3. entries[u] # None
    BY <1>1, <2>2, StoreIs DEF DelayedRight
  <2>4. CASE entries[u].st \in {"empty", "void"}
    <3>1. delayed' = Tail(delayed) /\ frame' = frame
      BY <1>3, <2>4 DEF DelayedNext
    <3> DEFINE d == delayed'
    <3>2. /\ d \in Seq(Urls) /\ \A i \in DOMAIN d : i + 1 \in DOMAIN delayed /\ d[i] = delayed[i + 1]
          /\ \A a \in DOMAIN delayed : a = 1 \/ (a - 1 \in DOMAIN d /\ d[a - 1] = delayed[a])
          /\ \A i \in DOMAIN d : i \in Nat
      BY <1>1, <2>1, <3>1, EmptySeq
    <3>3. Sublist(d, delayed)
      BY <3>2 DEF Sublist
    <3> DEFINE s == Store
               r == Store'
               lv == level
               A == {}
    <3>4. /\ r.entries = s.entries /\ r.feeding = s.feeding /\ r.timer = s.timer
          /\ r.queue = s.queue /\ r.expect = s.expect /\ r.lost = s.lost
          /\ r.delayed = d /\ s.delayed = delayed /\ s.entries = entries
      BY <2>1, StoreIs DEF Store
    <3>5. r \in Stores
      BY <1>1, <2>1, <3>2 DEF Store, Stores
    <3>6. \A v : v \notin A
      OBVIOUS
    <3>7. Good(s, lv, None) /\ lv = level' /\ lv \in [Windows -> Nat]
      BY <1>1, <2>1
    <3>8. \A v : v # u /\ IsDelayed(s, v) => IsDelayed(r, v)
      BY <2>2, <3>2, <3>4 DEF IsDelayed
    <3> HIDE DEF s, r, lv, A, d
    <3>9. /\ \A v \in Urls : v \in A => r.entries[v] = None /\ r.feeding[v] = None
          /\ \A v \in Urls : v \notin A => r.entries[v] = s.entries[v] /\ r.feeding[v] = s.feeding[v]
          /\ Sublist(r.queue, s.queue) /\ \A i \in DOMAIN r.queue : r.queue[i].url \notin A
          /\ Sublist(r.delayed, s.delayed) /\ \A i \in DOMAIN r.delayed : r.delayed[i] \notin A
          /\ r.timer = s.timer
      BY <3>3, <3>4, <3>6, SublistItself
    <3>10. \A i \in DOMAIN r.queue : LET c == r.queue[i] IN
              Pending(s, c) => /\ r.expect[c.bw] = s.expect[c.bw] \/ r.expect[c.bw] = c.url
                               /\ lv[c.bw] = lv[c.bw]
      BY <3>4
    <3>11. \A i \in DOMAIN r.queue : LET v == r.queue[i].url IN
              s.entries[v].st = "done" =>
                /\ v \in s.lost => v \in r.lost
                /\ IsDelayed(s, v) => IsDelayed(r, v) \/ v \in r.lost
      <4> SUFFICES ASSUME NEW i \in DOMAIN r.queue, s.entries[r.queue[i].url].st = "done",
                          IsDelayed(s, r.queue[i].url)
                   PROVE  IsDelayed(r, r.queue[i].url)
        BY <3>4
      <4> QED BY <2>4, <3>4, <3>8
    <3>12. Good(r, lv, None)
      BY <3>5, <3>7, <3>9, <3>10, <3>11, ShrinkGood
    <3>13. Now' = None /\ FrameRight(Store', frame')
      BY <1>1, <2>1, <3>1 DEF FrameRight, Now
    <3> QED BY <1>1, <2>1, <3>1, <3>7, <3>12, <3>13 DEF CacheInv, r
  <2>5. CASE entries[u].st \notin {"empty", "void"}
    <3>1. frame' = Frame(u, "delayed", FALSE) /\ delayed' = delayed
      BY <1>3, <2>5 DEF DelayedNext
    <3>2. Store' = Store
      BY <2>1, <3>1 DEF Store
    <3>3. frame' \in Frames /\ frame'.url = u /\ ~frame'.stale /\ ~frame'.abort /\ frame'.i = 1
      BY <2>2, <3>1 DEF Frame, Frames
    <3>4. Now' = u /\ u # None
      BY <2>2, <3>3, NoneAssumption DEF Now
    <3>5. Good(Store, level, u)
      <4> DEFINE s == Store
      <4>1. \A i \in DOMAIN s.queue : s.queue[i].url # None
        <5>1. \A i \in DOMAIN s.queue : s.queue[i].url \in Urls
          BY <1>1, ClientIs
        <5> QED BY <5>1, NoneAssumption
      <4> QED BY <1>1, <2>1, <4>1 DEF Good, ServedRight
    <3>6. entries[u].st \in {"typed", "done"}
      <4>1. entries[u] \in Entries
        BY <2>2, <2>3, InvTypes
      <4> QED BY <2>5, <4>1 DEF Entries
    <3>7. \A j \in DOMAIN queue : ~(j < 1)
      BY InvTypes
    <3>8. FrameRight(Store', frame')
      BY <2>3, <3>2, <3>3, <3>6, <3>7, StoreIs DEF FrameRight
    <3> QED BY <1>1, <2>1, <3>2, <3>3, <3>4, <3>5, <3>8 DEF CacheInv
  <2> QED BY <2>4, <2>5
<1>4. CASE DelayedEnd
  <2>1. /\ frame # None /\ frame.url = None /\ delayed = <<>> /\ Now = None
        /\ timer' = FALSE /\ frame' = None /\ Now' = None
        /\ UNCHANGED <<entries, queue, delayed, feeding, expect, level, lost, opens>>
    BY <1>4 DEF DelayedEnd, AtLoopHead, Now
  <2> DEFINE r == Store'
  <2>2. /\ r.entries = entries /\ r.feeding = feeding /\ r.queue = queue /\ r.expect = expect
        /\ r.lost = lost /\ r.delayed = delayed
    BY <2>1 DEF Store
  <2>3. r \in Stores
    BY <1>1, <2>1, StoreIs DEF Store, Stores
  <2>4. \A v : Moved(r, v) = Moved(Store, v)
    BY <2>2, StoreIs DEF Moved
  <2>5. FedRight(r) /\ ServedRight(r, None)
    BY <1>1, <2>1, <2>2, <2>4, StoreIs DEF FedRight, ServedRight, IsDelayed
  <2>6. QueueRight(r, level)
    BY <1>1, <2>2, <2>4, StoreIs DEF QueueRight, ClientRight, Apart, Pending
  <2>7. DelayedRight(r)
    BY <1>1, <2>1, <2>2, StoreIs DEF DelayedRight
  <2>8. Good(r, level, None) /\ level' = level
    BY <1>1, <2>1, <2>3, <2>5, <2>6, <2>7 DEF Good
  <2>9. FrameRight(Store', frame')
    BY <2>1 DEF FrameRight
  <2> QED BY <1>1, <2>1, <2>8, <2>9 DEF CacheInv
<1> QED BY <1>2, <1>3, <1>4

----------------------------------------------------------------------------
(* The steps of Cache_process_queue. *)

\* A client is aborted.
LEMMA AbortClientKeeps ==
  ASSUME CacheInv, frame # None, frame.url # None, NEW i \in DOMAIN queue, AbortClient(i)
  PROVE  CacheInv'
<1> DEFINE c == queue[i]
           x == frame.url
<1>1. /\ NextClient(i) /\ Aborts(c) /\ queue' = RemoveAt(queue, i)
      /\ expect' = NewExpect(c) /\ level' = [level EXCEPT ![c.bw] = NewLevel(c)]
      /\ UNCHANGED <<entries, delayed, timer, feeding, lost, opens>>
  BY DEF AbortClient
<1>2. /\ frame \in Frames /\ x \in Urls /\ Now = x /\ ~frame.stale /\ Entry \in Entries
      /\ Moved(Store, x) = Redirects(Entry) /\ c \in Clients /\ c.bw \in Windows
  BY <1>1, ServingIs
<1>3. /\ expect' \in [Windows -> Urls \cup {None}] /\ level' \in [Windows -> Nat]
      /\ \A w \in Windows : w # c.bw => expect'[w] = expect[w] /\ level'[w] = level[w]
  BY <1>1, <1>2, WindowIs
<1>4. /\ Good(Store, level, x) /\ Store \in Stores /\ queue \in Seq(Clients)
      /\ FrameRight(Store, frame) /\ opens' \in 0 .. MaxOpens
  BY <1>1, <1>2, InvTypes DEF CacheInv
<1>5. queue' \in Seq(Clients)
  <2> DEFINE q == queue
             t == RemoveAt(q, i)
  <2>1. q \in Seq(Clients) /\ i \in DOMAIN q
    BY <1>4
  <2> HIDE DEF q
  <2>2. t \in Seq(Clients)
    BY <2>1, RemoveAtIs
  <2> QED BY <1>1, <2>2 DEF q
<1>6. /\ Good(Store', level', x) /\ \A k \in DOMAIN queue' : k \in Nat
      /\ \A k \in DOMAIN queue' : k < i => k \in DOMAIN queue /\ queue'[k] = queue[k]
  <2> DEFINE s == Store
             r == Store'
             lv == level
             lw == level'
  <2>1. r \in Stores
    BY <1>1, <1>3, <1>4, <1>5, StoreIs DEF Store, Stores
  <2>2. Leaves(r, lw, s, lv, i)
    BY <1>1, <1>3 DEF Store, Leaves
  <2>3. Good(s, lv, x) /\ i \in DOMAIN s.queue /\ lw \in [Windows -> Nat]
        /\ s.queue = queue /\ r.queue = queue'
    BY <1>3, <1>4 DEF Store
  <2> HIDE DEF s, r, lv, lw, x
  <2>4. /\ Good(r, lw, x) /\ DOMAIN r.queue = 1 .. Len(s.queue) - 1
        /\ \A k \in DOMAIN r.queue : r.queue[k] = IF k < i THEN s.queue[k] ELSE s.queue[k + 1]
    BY <2>1, <2>2, <2>3, LeaveGood
  <2>5. Good(Store', level', x)
    BY <2>4 DEF r, lw
  <2>6. i \in Nat /\ Len(queue) \in Nat /\ DOMAIN queue = 1 .. Len(queue) /\ i \in 1 .. Len(queue)
    BY <1>4
  <2>7. \A k \in DOMAIN queue' : k \in Nat /\ (k < i => k \in DOMAIN queue /\ queue'[k] = queue[k])
    BY <2>3, <2>4, <2>6
  <2> QED BY <2>5, <2>7
<1> DEFINE b == frame.offer \/ (c.root /\ (frame.mismatch \/ NotViewable(c)))
<1>7. frame' = [frame EXCEPT !.i = i, !.abort = TRUE, !.offer = b]
  BY <1>2 DEF AbortClient, Frames
<1>8. b \in BOOLEAN /\ i \in Nat
  <2>1. c.root \in BOOLEAN /\ frame.offer \in BOOLEAN /\ frame.mismatch \in BOOLEAN
    BY <1>2 DEF Clients, Frames
  <2>2. NotViewable(c) \in BOOLEAN
    BY DEF NotViewable
  <2> QED BY <1>4, <2>1, <2>2
<1> HIDE DEF b
<1>9. frame' \in Frames /\ frame'.url = x /\ frame'.stale = frame.stale /\ frame'.i = i
  BY <1>2, <1>7, <1>8 DEF Frames
<1>10. ~Moved(Store, x)
  BY <1>1, <1>2 DEF Aborts, Unset
<1>11. /\ Store'.entries = entries /\ Store'.queue = queue'
       /\ Moved(Store', x) = Moved(Store, x)
  BY <1>1 DEF Store, Moved
<1>12. FrameRight(Store', frame')
  <2>1. /\ frame' # None /\ ~frame'.stale /\ entries[x] # None /\ entries[x].st \in {"typed", "done"}
        /\ entries[x].st = "done" => \A j \in DOMAIN queue : j < frame.i => queue[j].url # x
    BY <1>2, <1>4, <1>9, <1>10, NoneAssumption, StoreIs DEF FrameRight
  <2>2. ASSUME entries[x].st = "done", NEW j \in DOMAIN queue', j < i
        PROVE  queue'[j].url # x
    <3>1. j \in DOMAIN queue /\ queue'[j] = queue[j] /\ j \in Nat /\ frame.i \in Nat
      BY <1>2, <1>6, <2>2 DEF Frames
    <3>2. CASE j < frame.i
      BY <2>1, <2>2, <3>1, <3>2
    <3>3. CASE ~(j < frame.i)
      BY <1>1, <1>8, <2>2, <3>1, <3>3 DEF NextClient
    <3> QED BY <3>2, <3>3
  <2> QED BY <1>9, <1>10, <1>11, <2>1, <2>2 DEF FrameRight
<1>13. Now' = x
  BY <1>9, NoneAssumption DEF Now
<1> QED BY <1>4, <1>6, <1>9, <1>12, <1>13 DEF CacheInv

\* The entry that is being served is still there, and as it was.
StillThere(s) ==
    /\ frame.url \notin s.removed /\ s.entries[frame.url] # None
    /\ s.entries[frame.url].st = Entry.st
    /\ Redirects(s.entries[frame.url]) = Redirects(Entry)

\* A step of the loop that aborts nothing.
LEMMA LoopKeeps ==
  ASSUME CacheInv, frame # None, frame.url # None, NEW i \in DOMAIN queue, NextClient(i),
         NEW s, NEW k \in {i, i + 1}, Good(s, level', frame.url),
         BecomesIn(s, [frame EXCEPT !.i = k]), StillThere(s),
         Entry.st = "done" /\ ~Redirects(Entry) =>
            /\ k = i
            /\ \A j \in DOMAIN s.queue : j < i => j \in DOMAIN queue /\ s.queue[j].url = queue[j].url,
         opens' \in 0 .. MaxOpens
  PROVE  CacheInv'
<1> DEFINE x == frame.url
           f == [frame EXCEPT !.i = k]
<1>1. /\ frame \in Frames /\ x \in Urls /\ Now = x /\ ~frame.stale /\ Entry # None
      /\ Entry.st \in {"typed", "done"} /\ Moved(Store, x) = Redirects(Entry)
  BY ServingIs
<1>2. queue \in Seq(Clients) /\ FrameRight(Store, frame) /\ s \in Stores
  BY InvTypes DEF CacheInv, Good
<1>3. k \in Nat /\ i \in Nat
  BY <1>2
<1>4. f \in Frames /\ f.url = x /\ f.abort = frame.abort /\ f.i = k
  BY <1>1, <1>3 DEF Frames
<1>5. /\ x \notin s.removed /\ s.entries[x] # None /\ s.entries[x].st = Entry.st
      /\ Redirects(s.entries[x]) = Redirects(Entry)
  BY DEF StillThere
<1>6. frame' = [f EXCEPT !.stale = FALSE]
  <2>1. frame' = [f EXCEPT !.stale = x \in s.removed]
    BY <1>4 DEF BecomesIn
  <2>2. (x \in s.removed) = FALSE
    BY <1>5
  <2> QED BY <2>1, <2>2
<1> HIDE DEF f
<1>7. /\ frame' \in Frames /\ frame'.url = x /\ frame'.stale = FALSE /\ frame'.i = k
      /\ frame'.abort = frame.abort
  BY <1>4, <1>6 DEF Frames
<1>8. /\ Good(Store', level', x) /\ Moved(Store', x) = Moved(s, x)
      /\ entries' = s.entries /\ queue' = s.queue
  <2>1. Becomes(s)
    BY DEF BecomesIn
  <2> QED BY <2>1, BecomesGood
<1>9. Moved(s, x) = Moved(Store, x)
  BY <1>1, <1>5 DEF Moved
<1>10. FrameRight(Store', frame')
  <2>1. frame' # None /\ Store'.entries = entries' /\ Store'.queue = queue'
    BY <1>7, NoneAssumption DEF Store
  <2>2. ASSUME Entry.st = "done", ~Redirects(Entry), NEW j \in DOMAIN s.queue, j < k
        PROVE  s.queue[j].url # x
    <3>1. /\ k = i /\ j \in DOMAIN queue /\ s.queue[j].url = queue[j].url /\ j \in Nat /\ frame.i \in Nat
      BY <1>1, <1>2, <2>2 DEF Frames
    <3>2. CASE j < frame.i
      BY <1>1, <1>2, <2>2, <3>1, <3>2, StoreIs DEF FrameRight, Entry
    <3>3. CASE ~(j < frame.i)
      BY <1>3, <2>2, <3>1, <3>3 DEF NextClient
    <3> QED BY <3>2, <3>3
  <2>3. frame.abort => ~Moved(Store, x)
    BY <1>2 DEF FrameRight
  <2> QED BY <1>1, <1>5, <1>7, <1>8, <1>9, <2>1, <2>2, <2>3 DEF FrameRight
<1>11. Now' = x
  BY <1>7, NoneAssumption DEF Now
<1> QED BY <1>7, <1>8, <1>10, <1>11 DEF CacheInv

\* An entry that a call left alone is still there.
LEMMA KeptIsThere ==
  ASSUME CacheInv, frame # None, frame.url # None, NEW i \in DOMAIN queue, NextClient(i),
         NEW s, Keeps(s, Store, frame.url)
  PROVE  StillThere(s)
<1>1. Entry # None
  BY ServingIs
<1> QED BY <1>1, StoreIs DEF StillThere, Keeps, Entry

\* What a viewer does.
LEMMA ViewingGood ==
  ASSUME CacheInv, frame # None, frame.url # None, NEW i \in DOMAIN queue, NextClient(i),
         NEW s \in Viewing(i)
  PROVE  LET lw == [level EXCEPT ![queue[i].bw] = NewLevel(queue[i])] IN
         /\ Good(s, lw, frame.url) /\ Keeps(s, Store, frame.url)
         /\ Len(s.queue) \in {Len(queue), Len(queue) + 1}
         /\ \A j \in DOMAIN queue : s.queue[j].url = queue[j].url /\ s.queue[j].bw = queue[j].bw
         /\ (IF s = Sent(i) THEN opens ELSE opens + 1) \in 0 .. MaxOpens
<1> DEFINE c == queue[i]
           x == frame.url
           lw == [level EXCEPT ![c.bw] = NewLevel(c)]
           t == Sent(i)
<1>1. /\ Good(t, lw, x) /\ t.entries = entries /\ t.removed = {}
      /\ DOMAIN t.queue = DOMAIN queue /\ Len(t.queue) = Len(queue)
      /\ \A k \in DOMAIN queue : t.queue[k].url = queue[k].url /\ t.queue[k].bw = queue[k].bw
      /\ t.queue[i].cb = NewCallback(c)
  BY SentGood
<1>2. x \in Urls /\ Entry # None /\ c \in Clients /\ c.bw \in Windows /\ opens \in 0 .. MaxOpens
      /\ MaxOpens \in Nat
  BY ServingIs, LimitAssumption DEF CacheInv
<1>3. CASE s = t
  <2>1. Keeps(t, Store, x)
    BY <1>1, StoreIs DEF Keeps
  <2> QED BY <1>1, <1>2, <1>3, <2>1
<1>4. CASE s # t
  <2>1. PICK u \in Urls, fails \in BOOLEAN, kind \in FileKinds :
          /\ s = Open(t, u, Client(c.bw, u, FALSE, 0), FALSE, fails, kind)
          /\ NewCallback(c) = "viewer" /\ opens < MaxOpens
    <3> DEFINE asks == NewCallback(c) = "viewer" /\ c.root /\ opens < MaxOpens
               U == {v \in Urls : asks /\ \A j \in Mine(Store, c.bw, v) : queue[j].root}
               O(u, fails, kind) == Open(t, u, Client(c.bw, u, FALSE, 0), FALSE, fails, kind)
    <3>1. Viewing(i) = {t} \cup {O(u, fails, kind) : u \in U, fails \in BOOLEAN, kind \in FileKinds}
      BY DEF Viewing
    <3>2. \A u \in U : u \in Urls /\ asks
      OBVIOUS
    <3> HIDE DEF U, O, t
    <3>3. PICK u \in U, fails \in BOOLEAN, kind \in FileKinds : s = O(u, fails, kind)
      BY <1>4, <3>1
    <3> QED BY <3>2, <3>3 DEF O
  <2> DEFINE d == Client(c.bw, u, FALSE, 0)
             e2e == FALSE
  <2>2. d \in Clients /\ d.url = u /\ d.cb = "none" /\ d.hops = 0 /\ d.root = FALSE /\ d.bw = c.bw
    BY <1>2 DEF Client, Clients
  <2> HIDE DEF t, lw, d
  <2>3. NewClient(t, lw, u, d)
    <3>1. ASSUME NEW k \in DOMAIN t.queue, t.queue[k].bw = d.bw
          PROVE  ~Pending(t, t.queue[k])
      <4>1. CASE k = i
        <5>1. ClientRight(t, lw, t.queue[i])
          BY <1>1 DEF Good, QueueRight
        <5> QED BY <1>1, <2>1, <4>1, <5>1 DEF ClientRight, Pending
      <4>2. CASE k # i
        <5>1. i \in DOMAIN t.queue /\ t.queue[i].bw = t.queue[k].bw
          BY <1>1, <2>2, <3>1
        <5> QED BY <1>1, <4>2, <5>1, OthersAreSettled
      <4> QED BY <4>1, <4>2
    <3> QED BY <2>2, <3>1, LimitAssumption DEF NewClient
  <2>4. s = Open(t, u, d, e2e, fails, kind) /\ e2e \in BOOLEAN /\ ~e2e
    BY <2>1 DEF d
  <2> HIDE DEF e2e
  <2>5. /\ Good(s, lw, x)
        /\ \A v \in Urls : v # u \/ (~e2e /\ t.entries[u] # None) => Keeps(s, t, v)
        /\ ~e2e => s.queue = t.queue \/ s.queue = Append(t.queue, d)
    BY <1>1, <2>3, <2>4, OpenGood
  <2>6. Keeps(s, t, x)
    BY <1>1, <1>2, <2>4, <2>5 DEF Entry
  <2>7. Keeps(s, Store, x)
    BY <1>1, <2>6, StoreIs DEF Keeps
  <2>8. t.queue \in Seq(Clients) /\ queue \in Seq(Clients)
    BY <1>1, InvTypes DEF Good, Stores
  <2>9. /\ Len(s.queue) \in {Len(queue), Len(queue) + 1}
        /\ \A j \in DOMAIN queue : s.queue[j] = t.queue[j]
    <3>1. CASE s.queue = t.queue
      BY <1>1, <3>1
    <3>2. CASE s.queue = Append(t.queue, d)
      BY <1>1, <2>2, <2>8, <3>2
    <3> QED BY <2>4, <2>5, <3>1, <3>2
  <2>10. opens + 1 \in 0 .. MaxOpens
    BY <1>2, <2>1
  <2> QED BY <1>1, <1>4, <2>5, <2>7, <2>9, <2>10 DEF t, lw
<1> QED BY <1>3, <1>4

\* The client is done and leaves; the count of its window may be reset.
LEMMA ClosedGood ==
  ASSUME CacheInv, frame # None, frame.url # None, NEW i \in DOMAIN queue, NextClient(i),
         NEW s \in Viewing(i), NEW n \in Nat
  PROVE  LET r == [s EXCEPT !.queue = RemoveAt(@, i)]
             c == queue[i] IN
         /\ Good(r, [level EXCEPT ![c.bw] = NewLevel(c)], frame.url)
         /\ Good(r, [level EXCEPT ![c.bw] = n], frame.url)
         /\ Keeps(r, Store, frame.url)
         /\ \A j \in DOMAIN r.queue : j < i => j \in DOMAIN queue /\ r.queue[j].url = queue[j].url
         /\ r.entries = s.entries /\ r.feeding = s.feeding /\ r.expect = s.expect
<1> DEFINE c == queue[i]
           x == frame.url
           lv == [level EXCEPT ![c.bw] = NewLevel(c)]
           lw == [level EXCEPT ![c.bw] = n]
           q == RemoveAt(s.queue, i)
           r == [s EXCEPT !.queue = RemoveAt(@, i)]
<1>1. /\ Good(s, lv, x) /\ Keeps(s, Store, x)
      /\ Len(s.queue) \in {Len(queue), Len(queue) + 1}
      /\ \A j \in DOMAIN queue : s.queue[j].url = queue[j].url /\ s.queue[j].bw = queue[j].bw
  BY ViewingGood
<1>2. s \in Stores /\ s.queue \in Seq(Clients) /\ queue \in Seq(Clients)
      /\ level \in [Windows -> Nat]
  BY <1>1, InvTypes DEF Good, Stores
<1>3. i \in DOMAIN s.queue /\ i \in Nat /\ Len(queue) \in Nat /\ DOMAIN queue = 1 .. Len(queue)
  BY <1>1, <1>2
<1>4. c.bw \in Windows /\ lv \in [Windows -> Nat] /\ lw \in [Windows -> Nat]
  <2>1. c \in Clients /\ c.bw \in Windows
    BY ServingIs
  <2> QED BY <1>2, <2>1, WindowIs
<1>5. q \in Seq(Clients)
  <2> DEFINE p == s.queue
             t == RemoveAt(p, i)
  <2>1. p \in Seq(Clients) /\ i \in DOMAIN p
    BY <1>2, <1>3
  <2> HIDE DEF p
  <2>2. t \in Seq(Clients)
    BY <2>1, RemoveAtIs
  <2> QED BY <2>2 DEF p
<1>6. r = [s EXCEPT !.queue = q]
  BY <1>2 DEF Stores
<1> HIDE DEF q
<1>7. /\ r \in Stores /\ r.queue = q /\ r.entries = s.entries /\ r.delayed = s.delayed
      /\ r.timer = s.timer /\ r.feeding = s.feeding /\ r.expect = s.expect /\ r.lost = s.lost
      /\ r.removed = s.removed
  BY <1>2, <1>5, <1>6 DEF Stores
<1> HIDE DEF r
<1>8. Leaves(r, lv, s, lv, i) /\ Leaves(r, lw, s, lv, i)
  <2>1. \A w \in Windows : w # s.queue[i].bw => lv[w] = level[w] /\ lw[w] = level[w]
    BY <1>1, <1>2, <1>4
  <2> QED BY <1>7, <2>1 DEF Leaves, q
<1> HIDE DEF lv, lw
<1>9. /\ Good(r, lv, x) /\ DOMAIN r.queue = 1 .. Len(s.queue) - 1
      /\ \A k \in DOMAIN r.queue : r.queue[k] = IF k < i THEN s.queue[k] ELSE s.queue[k + 1]
  BY <1>1, <1>3, <1>4, <1>7, <1>8, LeaveGood
<1>10. Good(r, lw, x)
  BY <1>1, <1>3, <1>4, <1>7, <1>8, LeaveGood
<1>11. Keeps(r, Store, x)
  BY <1>1, <1>7 DEF Keeps
<1>12. \A j \in DOMAIN r.queue : j < i => j \in DOMAIN queue /\ r.queue[j].url = queue[j].url
  BY <1>1, <1>3, <1>9
<1> QED BY <1>7, <1>9, <1>10, <1>11, <1>12 DEF r, lv, lw

\* A client gets data, or all that there were.
LEMMA SendKeeps ==
  ASSUME CacheInv, frame # None, frame.url # None, NEW i \in DOMAIN queue,
         SendData(i) \/ SendLast(i)
  PROVE  CacheInv'
<1> DEFINE c == queue[i]
           lv == [level EXCEPT ![c.bw] = NewLevel(c)]
<1>1. CASE SendData(i)
  <2>1. NextClient(i) /\ Entry.st = "typed" /\ level' = lv
    BY <1>1 DEF SendData
  <2>2. PICK s \in Viewing(i) : /\ BecomesIn(s, [frame EXCEPT !.i = i + 1])
                                /\ opens' = IF s = Sent(i) THEN opens ELSE opens + 1
    BY <1>1 DEF SendData
  <2>3. /\ Good(s, lv, frame.url) /\ Keeps(s, Store, frame.url)
        /\ (IF s = Sent(i) THEN opens ELSE opens + 1) \in 0 .. MaxOpens
    BY <2>1, <2>2, ViewingGood
  <2> DEFINE k == i + 1
  <2>4. Good(s, level', frame.url) /\ opens' \in 0 .. MaxOpens /\ k \in {i, i + 1}
        /\ BecomesIn(s, [frame EXCEPT !.i = k])
    BY <2>1, <2>2, <2>3
  <2> HIDE DEF k
  <2>5. StillThere(s)
    BY <2>1, <2>3, KeptIsThere
  <2> QED BY <2>1, <2>4, <2>5, LoopKeeps
<1>2. CASE SendLast(i)
  <2>1. NextClient(i) /\ level' = lv
    BY <1>2 DEF SendLast
  <2>2. PICK s \in Viewing(i) :
           /\ BecomesIn([s EXCEPT !.queue = RemoveAt(@, i)], [frame EXCEPT !.i = i])
           /\ opens' = IF s = Sent(i) THEN opens ELSE opens + 1
    BY <1>2 DEF SendLast
  <2> DEFINE r == [s EXCEPT !.queue = RemoveAt(@, i)]
             k == i
  <2>3. (IF s = Sent(i) THEN opens ELSE opens + 1) \in 0 .. MaxOpens
    BY <2>1, <2>2, ViewingGood
  <2>4. /\ Good(r, lv, frame.url) /\ Keeps(r, Store, frame.url)
        /\ \A j \in DOMAIN r.queue : j < i => j \in DOMAIN queue /\ r.queue[j].url = queue[j].url
    <3> DEFINE n == 0
    <3>1. n \in Nat
      OBVIOUS
    <3> HIDE DEF n
    <3> QED BY <2>1, <3>1, ClosedGood
  <2>5. Good(r, level', frame.url) /\ opens' \in 0 .. MaxOpens /\ k \in {i, i + 1} /\ k = i
        /\ BecomesIn(r, [frame EXCEPT !.i = k])
    BY <2>1, <2>2, <2>3, <2>4
  <2> HIDE DEF r, k
  <2>6. StillThere(r)
    BY <2>1, <2>4, KeptIsThere
  <2> QED BY <2>1, <2>4, <2>5, <2>6, LoopKeeps
<1> QED BY <1>1, <1>2

\* A redirection is not followed.
LEMMA RedirectLoopsKeeps ==
  ASSUME CacheInv, frame # None, frame.url # None, NEW i \in DOMAIN queue, RedirectLoops(i)
  PROVE  CacheInv'
<1> DEFINE c == queue[i]
           x == frame.url
           n == 0
           lw == [level EXCEPT ![c.bw] = n]
           s == Closed(i)
           e == [Entry EXCEPT !.loop = TRUE]
           r == [s EXCEPT !.entries[x].loop = TRUE]
           k == i
<1>1. /\ NextClient(i) /\ Entry.st = "done" /\ Redirects(Entry) /\ level' = lw
      /\ opens' = opens /\ BecomesIn(r, [frame EXCEPT !.i = k])
  BY DEF RedirectLoops
<1>2. s = [Sent(i) EXCEPT !.queue = RemoveAt(@, i)] /\ Sent(i) \in Viewing(i) /\ n \in Nat
  BY DEF Closed, Viewing
<1>3. /\ x \in Urls /\ Entry \in Entries /\ Entry # None /\ FedRight(Store)
      /\ entries \in [Urls -> Entries \cup {None}]
  BY <1>1, ServingIs, InvTypes DEF CacheInv, Good
<1>4. Good(s, lw, x) /\ Keeps(s, Store, x)
  <2> HIDE DEF n, s
  <2> QED BY <1>1, <1>2, ClosedGood
<1>5. s.entries = entries /\ s.feeding = feeding
  <2>1. s.entries = Sent(i).entries /\ s.feeding = Sent(i).feeding
    <3> HIDE DEF n, s
    <3> QED BY <1>1, <1>2, ClosedGood
  <2> QED BY <1>1, <2>1, SentGood
<1> HIDE DEF s, lw
<1>6. e \in Entries /\ e.st = "done" /\ e.kind = Entry.kind /\ e.to = Entry.to
  BY <1>1, <1>3 DEF Entries
<1>7. s \in Stores
  BY <1>4 DEF Good
<1>8. r = [s EXCEPT !.entries = [s.entries EXCEPT ![x] = e]]
  BY <1>3, <1>5, <1>7 DEF Entry, Stores
<1> HIDE DEF e
<1>9. /\ r \in Stores /\ r.entries = [s.entries EXCEPT ![x] = e] /\ r.queue = s.queue
      /\ r.delayed = s.delayed /\ r.timer = s.timer /\ r.feeding = s.feeding
      /\ r.expect = s.expect /\ r.lost = s.lost /\ r.removed = s.removed
  <2> DEFINE es == [s.entries EXCEPT ![x] = e]
  <2>1. es \in [Urls -> Entries \cup {None}]
    BY <1>3, <1>5, <1>6
  <2> HIDE DEF es
  <2>2. /\ r \in Stores /\ r.entries = es /\ r.queue = s.queue
        /\ r.delayed = s.delayed /\ r.timer = s.timer /\ r.feeding = s.feeding
        /\ r.expect = s.expect /\ r.lost = s.lost /\ r.removed = s.removed
    BY <1>7, <1>8, <2>1 DEF es, Stores
  <2> QED BY <2>2 DEF es
<1> HIDE DEF r
<1>10. Fills(r, s, x, e, x)
  <2>1. feeding[x] = None /\ Entry.to \in Urls /\ Entry = entries[x]
    BY <1>1, <1>3, StoreIs DEF FedRight, Moved, Entry
  <2> QED BY <1>1, <1>3, <1>5, <1>6, <1>9, <2>1 DEF Fills, Redirects
<1>11. Good(r, lw, x)
  BY <1>3, <1>4, <1>6, <1>9, <1>10, FillGood
<1>12. StillThere(r)
  <2>1. r.entries[x] = e /\ x \notin r.removed
    BY <1>3, <1>4, <1>5, <1>9, StoreIs DEF Keeps
  <2> QED BY <1>1, <1>3, <1>6, <2>1, NoneAssumption DEF StillThere, Redirects
<1>13. Good(r, level', x) /\ opens' \in 0 .. MaxOpens /\ k \in {i, i + 1}
  BY <1>1, <1>11 DEF CacheInv
<1>14. BecomesIn(r, [frame EXCEPT !.i = k]) /\ ~(Entry.st = "done" /\ ~Redirects(Entry))
  BY <1>1
<1> HIDE DEF k
<1> QED BY <1>1, <1>12, <1>13, <1>14, LoopKeeps

\* A page is redirected.
LEMMA RedirectKeeps ==
  ASSUME CacheInv, ~Fragments, frame # None, frame.url # None, NEW i \in DOMAIN queue, Redirect(i)
  PROVE  CacheInv'
<1> DEFINE c == queue[i]
           x == frame.url
           lv == [level EXCEPT ![c.bw] = NewLevel(c)]
           s == Closed(i)
           k == i
<1>1. /\ NextClient(i) /\ Entry.st = "done" /\ Redirects(Entry) /\ ~Looping(i) /\ level' = lv
      /\ opens' = opens
  BY DEF Redirect
<1>2. PICK r \in Follow(i) : BecomesIn(r, [frame EXCEPT !.i = k])
  BY DEF Redirect
<1>3. /\ s = [Sent(i) EXCEPT !.queue = RemoveAt(@, i)] /\ Sent(i) \in Viewing(i) /\ 0 \in Nat
  BY DEF Closed, Viewing
<1>4. /\ x \in Urls /\ Entry # None /\ FedRight(Store) /\ Moved(Store, x) /\ Entry = entries[x]
      /\ c \in Clients /\ c.url = x /\ c.bw \in Windows /\ ClientRight(Store, level, c)
      /\ level \in [Windows -> Nat]
  BY <1>1, ServingIs, InvTypes DEF CacheInv, Good, Entry
<1>5. Good(s, lv, x) /\ Keeps(s, Store, x)
  <2> DEFINE n == 0
  <2>1. n \in Nat
    OBVIOUS
  <2> HIDE DEF s, n
  <2> QED BY <1>1, <1>3, <2>1, ClosedGood
<1>6. s.feeding[x] = None /\ Entry.to \in Urls
  <2>1. s.feeding = Sent(i).feeding
    <3> DEFINE n == 0
    <3>1. n \in Nat
      OBVIOUS
    <3> HIDE DEF s, n
    <3> QED BY <1>1, <1>3, <3>1, ClosedGood
  <2>2. s.feeding = feeding
    BY <1>1, <2>1, SentGood
  <2>3. feeding[x] = None
    BY <1>1, <1>4, StoreIs DEF FedRight
  <2> QED BY <1>4, <2>2, <2>3, StoreIs DEF FedRight, Moved
<1>7. Good(r, lv, x) /\ Keeps(r, Store, x)
  <2>1. CASE r = s
    BY <1>5, <2>1
  <2>2. CASE r # s
    <3> DEFINE expected == expect[c.bw] = Entry.to
               F == {b \in BOOLEAN : c.root /\ (~expected \/ Fragments)}
               e2e == Entry.kind = "302"
               hops == c.hops + 1
               P(fails, kind) == Push(s, c.bw, Entry.to, hops, e2e, fails, kind)
    <3>1. Follow(i) = {s : y \in {z \in {0} : ~c.root \/ expected}}
                      \cup {P(fails, kind) : fails \in F, kind \in FileKinds}
      BY DEF Follow
    <3>2. F \subseteq BOOLEAN /\ \A b \in F : c.root /\ ~expected
      OBVIOUS
    <3> HIDE DEF F, P, s, e2e, hops, expected
    <3>3. PICK fails \in F, kind \in FileKinds : r = P(fails, kind)
      BY <1>2, <2>2, <3>1
    <3>4. Pending(Store, c)
      BY <1>4, <3>2 DEF Pending
    <3>5. expect[c.bw] = x /\ Hops(c) <= level[c.bw]
      BY <1>4, <3>4, StoreIs DEF ClientRight
    <3>6. Entry.to # x
      BY <3>2, <3>5 DEF expected
    <3>7. hops \in Nat /\ hops <= lv[c.bw] /\ hops < RedirectLimit
      <4>1. c.hops \in Nat /\ level[c.bw] \in Nat /\ RedirectLimit \in Nat
        BY <1>4, LimitAssumption DEF Clients
      <4>2. NewLevel(c) = IF c.cb = "none" THEN level[c.bw] + 1 ELSE level[c.bw]
        BY <1>1, <3>2 DEF NewLevel
      <4>3. lv[c.bw] = NewLevel(c) /\ NewLevel(c) \in Nat
        BY <1>4, <4>1, <4>2
      <4>4. NewLevel(c) < RedirectLimit
        BY <1>1, <4>1, <4>3 DEF Looping
      <4> QED BY <3>5, <4>1, <4>2, <4>3, <4>4 DEF Hops, hops
    <3>8. e2e \in BOOLEAN
      BY DEF e2e
    <3> HIDE DEF lv, c
    <3> DEFINE w == c.bw
               u == Entry.to
    <3>9. w \in Windows /\ u \in Urls /\ u # x /\ fails \in BOOLEAN /\ hops <= lv[w]
      BY <1>4, <1>6, <3>2, <3>6, <3>7
    <3> HIDE DEF w, u
    <3>10. /\ Good(Push(s, w, u, hops, e2e, fails, kind), lv, x)
           /\ \A v \in Urls : v # u /\ s.feeding[v] = None =>
                 Keeps(Push(s, w, u, hops, e2e, fails, kind), s, v)
      BY <1>5, <3>7, <3>8, <3>9, PushGood
    <3>11. r = Push(s, w, u, hops, e2e, fails, kind)
      BY <3>3 DEF P, w, u
    <3>12. Good(r, lv, x) /\ Keeps(r, s, x)
      BY <1>4, <1>6, <3>9, <3>10, <3>11
    <3> QED BY <1>5, <3>12 DEF Keeps
  <2> QED BY <2>1, <2>2
<1>8. StillThere(r)
  BY <1>1, <1>7, KeptIsThere
<1>9. /\ Good(r, level', x) /\ opens' \in 0 .. MaxOpens /\ k \in {i, i + 1}
      /\ ~(Entry.st = "done" /\ ~Redirects(Entry))
  BY <1>1, <1>7 DEF CacheInv
<1> HIDE DEF k
<1> QED BY <1>1, <1>2, <1>8, <1>9, LoopKeeps

\* The entry has served its clients.
LEMMA ServedGood ==
  ASSUME CacheInv, frame # None, frame.url # None
  PROVE  Good(Served, level, None)
<1> DEFINE x == frame.url
           X == {x}
           d == IF frame.via = "delayed" THEN Undelay(Store, X) ELSE delayed
           z == lost \cup {u \in {x} : Entry.st = "done" /\ Waiting(Store, u) # {}}
           s == Store
           r == Served
           A == {}
<1>1. /\ Good(s, level, x) /\ s \in Stores /\ x \in Urls /\ Entry = entries[x]
      /\ level \in [Windows -> Nat] /\ delayed \in Seq(Urls) /\ lost \in SUBSET Urls
  <2>1. frame \in Frames /\ x \in Urls /\ Now = x
    BY DEF CacheInv, Frames, Now
  <2> QED BY <2>1, InvTypes DEF CacheInv, Entry
<1>2. /\ d \in Seq(Urls) /\ Sublist(d, delayed)
      /\ \A a \in DOMAIN delayed : delayed[a] # x => \E j \in DOMAIN d : d[j] = delayed[a]
  <2>1. CASE frame.via = "delayed"
    <3> DEFINE l == delayed
    <3>1. l \in Seq(Urls) /\ \A v : v \in X <=> v = x
      BY <1>1
    <3>2. d = Drop(l, X)
      BY <2>1, StoreIs DEF Undelay
    <3> HIDE DEF l, X, d
    <3>3. /\ d \in Seq(Urls) /\ Sublist(d, l)
          /\ \A a \in DOMAIN l : l[a] \notin X => \E j \in DOMAIN d : d[j] = l[a]
      BY <3>1, <3>2, DropIs
    <3> QED BY <3>1, <3>3 DEF l
  <2>2. CASE frame.via # "delayed"
    BY <1>1, <2>2, SublistItself
  <2> QED BY <2>1, <2>2
<1>3. z \in SUBSET Urls /\ lost \subseteq z
      /\ (Entry.st = "done" /\ Waiting(Store, x) # {} => x \in z)
  BY <1>1
<1>4. r = [Store EXCEPT !.delayed = d, !.lost = z]
  BY StoreIs DEF Served
<1> HIDE DEF d, z, r
<1>5. /\ r \in Stores /\ r.entries = s.entries /\ r.queue = s.queue /\ r.delayed = d
      /\ r.timer = s.timer /\ r.feeding = s.feeding /\ r.expect = s.expect /\ r.lost = z
  BY <1>1, <1>2, <1>3, <1>4 DEF Stores
<1>6. \A v : v \notin A
  OBVIOUS
<1>7. \A j \in DOMAIN s.queue : LET v == s.queue[j].url IN
         s.entries[v].st = "done" =>
             /\ v \in s.lost => v \in r.lost
             /\ IsDelayed(s, v) => IsDelayed(r, v) \/ v \in r.lost
  <2> SUFFICES ASSUME NEW j \in DOMAIN s.queue, s.entries[s.queue[j].url].st = "done",
                      IsDelayed(s, s.queue[j].url)
               PROVE  IsDelayed(r, s.queue[j].url) \/ s.queue[j].url \in r.lost
    BY <1>3, <1>5, StoreIs
  <2>1. CASE s.queue[j].url = x
    <3>1. j \in Waiting(Store, x)
      BY <2>1 DEF Waiting
    <3> QED BY <1>1, <1>3, <1>5, <2>1, <3>1, StoreIs
  <2>2. CASE s.queue[j].url # x
    BY <1>2, <1>5, <2>2, StoreIs DEF IsDelayed
  <2> QED BY <2>1, <2>2
<1>8. \A j \in DOMAIN s.queue : s.queue[j].url = x /\ s.entries[x].st = "done" => x \in z
  BY <1>1, <1>3, StoreIs DEF Waiting
<1>9. s.delayed = delayed
  BY StoreIs
<1> DEFINE lv == level
<1> HIDE DEF s, A, lv
<1>10. /\ \A v \in Urls : v \in A => r.entries[v] = None /\ r.feeding[v] = None
       /\ \A v \in Urls : v \notin A => r.entries[v] = s.entries[v] /\ r.feeding[v] = s.feeding[v]
       /\ Sublist(r.queue, s.queue) /\ \A i \in DOMAIN r.queue : r.queue[i].url \notin A
       /\ Sublist(r.delayed, s.delayed) /\ \A i \in DOMAIN r.delayed : r.delayed[i] \notin A
       /\ r.timer = s.timer
  BY <1>2, <1>5, <1>6, <1>9, SublistItself
<1>11. \A i \in DOMAIN r.queue : LET c == r.queue[i] IN
          Pending(s, c) => /\ r.expect[c.bw] = s.expect[c.bw] \/ r.expect[c.bw] = c.url
                           /\ lv[c.bw] = lv[c.bw]
  BY <1>5
<1>12. Good(s, lv, x) /\ lv \in [Windows -> Nat] /\ r \in Stores
  BY <1>1, <1>5 DEF lv
<1>13. \A i \in DOMAIN r.queue : LET v == r.queue[i].url IN
         s.entries[v].st = "done" =>
             /\ v \in s.lost => v \in r.lost
             /\ IsDelayed(s, v) => IsDelayed(r, v) \/ v \in r.lost
  BY <1>5, <1>7
<1> HIDE DEF x
<1>14. Good(r, lv, x)
  BY <1>10, <1>11, <1>12, <1>13, ShrinkGood
<1>15. Good(r, lv, None)
  BY <1>5, <1>8, <1>14, OtherGood
<1> QED BY <1>15 DEF r, lv

\* The entry was to be aborted.
LEMMA AbortedGood ==
  ASSUME CacheInv, frame # None, frame.url # None, frame.abort,
         \A i \in frame.i .. Len(queue) : queue[i].url # frame.url
  PROVE  LET s == AbortConn(Store, frame.url) IN
         Good(IF frame.offer THEN RemoveEntry(s, frame.url) ELSE s, level, None)
<1> DEFINE x == frame.url
           t == Store
           s == AbortConn(t, x)
           r == IF frame.offer THEN RemoveEntry(s, x) ELSE s
           lv == level
<1>1. /\ frame \in Frames /\ x \in Urls /\ Good(t, lv, x) /\ FedRight(t) /\ FrameRight(t, frame)
      /\ queue \in Seq(Clients)
  <2>1. frame \in Frames /\ x \in Urls /\ Now = x
    BY DEF CacheInv, Frames, Now
  <2> QED BY <2>1, InvTypes DEF CacheInv, Good
<1>2. ASSUME t.feeding[x] = None
      PROVE  \A i \in DOMAIN t.queue : t.queue[i].url # x
  <2>1. t.entries[x] # None /\ t.entries[x].st \in {"typed", "done"} /\ ~Moved(t, x)
    BY <1>1 DEF FrameRight
  <2>2. t.entries[x].st = "done"
    BY <1>1, <1>2, <2>1 DEF FedRight
  <2>3. \A j \in DOMAIN queue : j < frame.i => queue[j].url # x
    BY <1>1, <2>1, <2>2, StoreIs DEF FrameRight
  <2>4. frame.i \in Nat /\ DOMAIN queue = 1 .. Len(queue)
    BY <1>1 DEF Frames
  <2> QED BY <2>3, <2>4, StoreIs
<1> HIDE DEF t, x, lv
<1>3. /\ Good(s, lv, x) /\ s.feeding[x] = None
      /\ t.feeding[x] # None => s.entries[x] = None
      /\ t.feeding[x] = None => s = t
  BY <1>1, AbortGood
<1> HIDE DEF s
<1>4. Good(RemoveEntry(s, x), lv, x) /\ Sublist(RemoveEntry(s, x).queue, s.queue)
  BY <1>1, <1>3, RemoveGood
<1>5. Good(r, lv, x) /\ (\A i \in DOMAIN r.queue : \E a \in DOMAIN s.queue : r.queue[i] = s.queue[a])
  BY <1>3, <1>4 DEF Sublist
<1>6. \A i \in DOMAIN r.queue : r.queue[i].url # x
  <2>1. CASE t.feeding[x] = None
    BY <1>2, <1>3, <1>5, <2>1
  <2>2. CASE t.feeding[x] # None
    <3>1. \A a \in DOMAIN s.queue : s.queue[a].url # x
      BY <1>3, <2>2 DEF Good, QueueRight, ClientRight
    <3> QED BY <1>5, <3>1
  <2> QED BY <2>1, <2>2
<1> HIDE DEF r
<1>7. Good(r, lv, None)
  BY <1>5, <1>6, OtherGood
<1> QED BY <1>7 DEF r, s, t, lv, x

\* The loop is over.
LEMMA FinishKeeps ==
  ASSUME CacheInv, frame # None, frame.url # None, Finish
  PROVE  CacheInv'
<1> DEFINE s == AbortConn(Store, frame.url)
           r == IF ~frame.abort THEN Served
                ELSE IF frame.offer THEN RemoveEntry(s, frame.url) ELSE s
<1>1. Becomes(r) /\ frame' = Return /\ UNCHANGED <<level, opens>>
  BY DEF Finish
<1>2. Good(r, level, None)
  <2>1. CASE ~frame.abort
    <3>1. r = Served
      BY <2>1
    <3> QED BY <3>1, ServedGood
  <2>2. CASE frame.abort
    <3>1. r = IF frame.offer THEN RemoveEntry(s, frame.url) ELSE s
      BY <2>2
    <3>2. \A i \in frame.i .. Len(queue) : queue[i].url # frame.url
      BY DEF Finish
    <3> HIDE DEF r
    <3> QED BY <2>2, <3>1, <3>2, AbortedGood
  <2> QED BY <2>1, <2>2
<1> HIDE DEF r
<1>3. Good(r, level', None)
  BY <1>1, <1>2
<1>4. Good(Store', level', None)
  BY <1>1, <1>3, BecomesGood
<1>5. frame' \in Frames \cup {None} /\ Now' = None /\ FrameRight(Store', frame')
  BY <1>1, LoopHeadIs DEF Return, Now, FrameRight
<1> QED BY <1>1, <1>4, <1>5 DEF CacheInv

----------------------------------------------------------------------------
(* The theorems. *)

\* Every step keeps the invariant, when no redirection names a fragment of its own page.
LEMMA StepKeeps ==
  ASSUME CacheInv, ~Fragments, [Next]_vars
  PROVE  CacheInv'
<1>1. CASE \E w \in Windows :
             a_UIcmd_stop(w) \/ \E u \in Urls : a_Nav_push(w, u) \/ a_Nav_reload(w, u)
  BY <1>1, StopKeeps, PushKeeps
<1>2. CASE \E u \in Urls : Read(u) \/ Close(u) \/ CloseEmpty(u) \/ ConnFails(u)
  BY <1>2, ReadKeeps, CloseEmptyKeeps, ConnFailsKeeps
<1>3. CASE ProcessQueue
  <2>1. frame # None /\ frame.url # None
    BY <1>3 DEF ProcessQueue
  <2>2. CASE \E i \in DOMAIN queue :
               AbortClient(i) \/ SendData(i) \/ SendLast(i) \/ RedirectLoops(i) \/ Redirect(i)
    BY <2>1, <2>2, AbortClientKeeps, SendKeeps, RedirectLoopsKeeps, RedirectKeeps
  <2>3. CASE Finish
    BY <2>1, <2>3, FinishKeeps
  <2> QED BY <1>3, <2>2, <2>3 DEF ProcessQueue
<1>4. CASE DelayedCallback \/ DelayedNext \/ DelayedEnd
  BY <1>4, DelayedKeeps
<1>5. CASE UNCHANGED vars
  <2>1. Store' = Store /\ level' = level /\ frame' = frame /\ opens' = opens
    BY <1>5 DEF vars, Store
  <2>2. Now' = Now
    BY <2>1 DEF Now
  <2> QED BY <2>1, <2>2 DEF CacheInv
<1> QED BY <1>1, <1>2, <1>3, <1>4, <1>5 DEF Next

\* It holds at the start.
LEMMA InitRight == Init => CacheInv
<1> SUFFICES ASSUME Init PROVE CacheInv
  OBVIOUS
<1>1. /\ entries = [u \in Urls |-> None] /\ queue = <<>> /\ delayed = <<>> /\ timer = FALSE
      /\ lost = {} /\ feeding = [u \in Urls |-> None] /\ expect = [w \in Windows |-> None]
      /\ level = [w \in Windows |-> 0] /\ opens = 0 /\ frame = None
  BY DEF Init
<1>2. Store \in Stores /\ level \in [Windows -> Nat]
  <2>1. queue \in Seq(Clients) /\ delayed \in Seq(Urls)
    BY <1>1, EmptySeq
  <2> QED BY <1>1, <2>1 DEF Store, Stores
<1>3. DOMAIN Store.queue = {} /\ DOMAIN Store.delayed = {} /\ Store.delayed = <<>>
  BY <1>1, StoreIs, EmptySeq
<1>4. FedRight(Store)
  BY <1>1, StoreIs DEF FedRight, Moved
<1>5. QueueRight(Store, level) /\ DelayedRight(Store) /\ ServedRight(Store, None)
  BY <1>3 DEF QueueRight, DelayedRight, ServedRight
<1>6. Now = None /\ FrameRight(Store, frame) /\ opens \in 0 .. MaxOpens
  BY <1>1, LimitAssumption DEF Now, FrameRight
<1> QED BY <1>1, <1>2, <1>4, <1>5, <1>6 DEF CacheInv, Good

\* The entries, the clients, the connections that fill the entries, the timeout, the
\* windows and the activation of Cache_process_queue agree, unless a redirection names a
\* fragment of its own page.
THEOREM CacheRight == ASSUME ~Fragments PROVE Spec => []CacheInv
<1>1. Init => CacheInv
  BY InitRight
<1>2. CacheInv /\ [Next]_vars => CacheInv'
  BY StepKeeps
<1> QED BY <1>1, <1>2, PTL DEF Spec

\* What the invariant says of the entries.
LEMMA InvSound == CacheInv => EntriesAreSound
<1> SUFFICES ASSUME CacheInv PROVE EntriesAreSound
  OBVIOUS
<1>1. /\ FedRight(Store) /\ QueueRight(Store, level) /\ DelayedRight(Store)
      /\ frame \in Frames \cup {None} /\ FrameRight(Store, frame) /\ opens \in 0 .. MaxOpens
  BY DEF CacheInv, Good
<1>2. TypeOk
  BY <1>1, InvTypes DEF TypeOk
<1>3. NoFreedEntry
  BY <1>1 DEF NoFreedEntry, FrameRight
<1>4. NothingDangles
  BY <1>1, StoreIs DEF NothingDangles, QueueRight, DelayedRight, ClientRight
<1>5. EntryIsFed
  BY <1>1, StoreIs DEF EntryIsFed, FedRight
<1>6. RedirectionsEnd
  BY <1>1, StoreIs DEF RedirectionsEnd, QueueRight, ClientRight
<1> QED BY <1>2, <1>3, <1>4, <1>5, <1>6 DEF EntriesAreSound

\* Cache_process_queue never comes back to an entry that was removed, no pointer is left
\* to one, every entry that is not complete has its connection and a page is fewer
\* redirections away than the limit (cache.c:78-85, 962, 1206, 1239).
THEOREM EntriesStaySound == ASSUME ~Fragments PROVE Spec => []EntriesAreSound
BY CacheRight, InvSound, PTL

\* What the invariant says of the clients of a complete entry.
LEMMA InvServed == CacheInv => OnlyLostForgotten
<1> SUFFICES ASSUME CacheInv, Idle, NEW u \in Urls, Complete(u), Waiting(Store, u) # {}
             PROVE  ServedSoon(u) \/ u \in lost
  BY DEF OnlyLostForgotten
<1>1. ServedRight(Store, None) /\ DelayedRight(Store) /\ delayed \in Seq(Urls)
  BY InvTypes DEF CacheInv, Good, Idle, Now
<1>2. PICK i \in DOMAIN queue : queue[i].url = u
  BY StoreIs DEF Waiting
<1>3. u # None /\ entries[u].st = "done"
  BY NoneAssumption DEF Complete
<1>4. IsDelayed(Store, u) \/ u \in lost
  BY <1>1, <1>2, <1>3, StoreIs DEF ServedRight
<1>5. ASSUME IsDelayed(Store, u)
      PROVE  ServedSoon(u)
  <2>1. PICK j \in DOMAIN delayed : delayed[j] = u
    BY <1>5, StoreIs DEF IsDelayed
  <2>2. DOMAIN delayed = 1 .. Len(delayed) /\ delayed # <<>>
    BY <1>1, <2>1, EmptySeq
  <2> QED BY <1>1, <2>1, <2>2, StoreIs DEF ServedSoon, Contains, DelayedRight
<1> QED BY <1>4, <1>5

\* A client of a complete entry is going to be served by the timeout, unless a stop in
\* another window or the index of the loop passed it over (cache.c:1100, 1130, 1349).
THEOREM NoneForgotten == ASSUME ~Fragments PROVE Spec => []OnlyLostForgotten
BY CacheRight, InvServed, PTL
===============================================================================
