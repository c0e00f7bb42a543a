------------------------------ MODULE NetProofs ------------------------------
(***************************************************************************)
(* Proofs about the lists behind the network: the sorted lists of keys       *)
(* (Klist), for every width of the counter and every length of the list, and *)
(* the cookie store (Cookies), for all hosts, lines, rules and limits.       *)
(*                                                                         *)
(* The loops are recursive functions: that they have states, and what holds *)
(* of the last one, is proved by their least counterexample (EveryTurn).    *)
(***************************************************************************)
EXTENDS Klist, Cookies, SequenceTheorems, FiniteSetTheorems, WellFoundedInduction, TLAPS

\* A set of naturals that is not empty has a least element.
LEMMA LeastOf ==
  ASSUME NEW T, T \subseteq Nat, T # {}
  PROVE  \E x \in T : \A y \in T : x <= y
<1> DEFINE R == OpToRel(<, Nat)
<1>1. IsWellFoundedOn(R, Nat)
  BY NatLessThanWellFounded
<1>2. \A x, y \in Nat : x < y => <<x, y>> \in R
  BY DEF OpToRel
<1> HIDE DEF R
<1>3. PICK x \in T : \A y \in T : ~(<<y, x>> \in R)
  BY <1>1, WFMin
<1>4. \A y \in T : ~(y < x)
  BY <1>2, <1>3
<1> QED BY <1>3, <1>4

\* What holds before the first turn of a loop, and after a turn if it held before, holds to
\* its end: P is the set of the turns after which it does.
LEMMA EveryTurn ==
  ASSUME NEW n \in Nat, NEW P, 0 \in P, \A k \in 1 .. n : k - 1 \in P => k \in P
  PROVE  \A k \in 0 .. n : k \in P
<1> DEFINE Bad == {k \in 0 .. n : k \notin P}
<1> SUFFICES ASSUME Bad # {} PROVE FALSE
  OBVIOUS
<1>1. PICK m \in Bad : \A y \in Bad : m <= y
  <2>1. Bad \subseteq Nat
    OBVIOUS
  <2> HIDE DEF Bad
  <2> QED BY <2>1, LeastOf
<1>2. m \in 1 .. n /\ m - 1 \in 0 .. n /\ ~(m <= m - 1)
  BY <1>1
<1>3. m - 1 \in P
  BY <1>1, <1>2
<1> QED BY <1>1, <1>2, <1>3

\* The states f of a loop from x, whose turn k leads by T[k] to a state of G[k].
Run(f, n, x, T, G) == /\ f = [k \in 0 .. n |-> IF k = 0 THEN x ELSE T[k][f[k - 1]]]
                      /\ \A k \in 0 .. n : f[k] \in G[k]

\* A loop whose turn k leads from a state of G[k - 1] to one of G[k], by T[k], has its states.
LEMMA LoopRuns ==
  ASSUME NEW n \in Nat, NEW G, NEW x \in G[0], NEW T,
         \A k \in 1 .. n : \A y \in G[k - 1] : T[k][y] \in G[k]
  PROVE  \E f : Run(f, n, x, T, G)
<1> DEFINE Is(m, f) == /\ f = [k \in 0 .. m |-> IF k = 0 THEN x ELSE T[k][f[k - 1]]]
                       /\ \A k \in 0 .. m : f[k] \in G[k]
           P == {m \in 0 .. n : \E f : Is(m, f)}
<1>1. \E f : Is(0, f)
  <2> DEFINE z == [k \in 0 .. 0 |-> x]
  <2>1. Is(0, z)
    OBVIOUS
  <2> HIDE DEF z, Is
  <2> QED BY <2>1
<1>2. ASSUME NEW m \in 1 .. n, NEW f, Is(m - 1, f) PROVE \E g : Is(m, g)
  <2> DEFINE g == [k \in 0 .. m |-> IF k < m THEN f[k] ELSE T[m][f[m - 1]]]
  <2>1. /\ \A k \in 0 .. m - 1 : f[k] = IF k = 0 THEN x ELSE T[k][f[k - 1]]
        /\ \A k \in 0 .. m - 1 : f[k] \in G[k]
    BY <1>2
  <2>2. \A k \in 0 .. m : g[k] = IF k < m THEN f[k] ELSE T[m][f[m - 1]]
    OBVIOUS
  <2>3. g = [k \in 0 .. m |-> g[k]]
    OBVIOUS
  <2> HIDE DEF g
  <2>4. ASSUME NEW k \in 0 .. m PROVE g[k] = IF k = 0 THEN x ELSE T[k][g[k - 1]]
    <3>1. CASE k = 0
      BY <2>1, <2>2, <3>1
    <3>2. CASE k # 0 /\ k < m
      <4>1. k \in 0 .. m - 1 /\ k - 1 \in 0 .. m /\ k - 1 < m
        BY <3>2
      <4>2. g[k - 1] = f[k - 1] /\ g[k] = f[k]
        BY <2>2, <3>2, <4>1
      <4> QED BY <2>1, <3>2, <4>1, <4>2
    <3>3. CASE k = m
      <4>1. k # 0 /\ m - 1 \in 0 .. m /\ m - 1 < m /\ ~(k < m)
        BY <3>3
      <4>2. g[m - 1] = f[m - 1]
        BY <2>2, <4>1
      <4> QED BY <2>2, <3>3, <4>1, <4>2
    <3> QED BY <3>1, <3>2, <3>3
  <2>5. \A k \in 0 .. m : g[k] \in G[k]
    <3> SUFFICES ASSUME NEW k \in 0 .. m PROVE g[k] \in G[k]
      OBVIOUS
    <3>1. CASE k < m
      <4>1. k \in 0 .. m - 1
        BY <3>1
      <4> QED BY <2>1, <2>2, <3>1, <4>1
    <3>2. CASE k = m
      <4>1. m - 1 \in 0 .. m - 1 /\ ~(k < m)
        BY <3>2
      <4>2. f[m - 1] \in G[m - 1]
        BY <2>1, <4>1
      <4> QED BY <2>2, <3>2, <4>1, <4>2
    <3> QED BY <3>1, <3>2
  <2>6. Is(m, g)
    BY <2>3, <2>4, <2>5
  <2> HIDE DEF Is
  <2> QED BY <2>6
<1> HIDE DEF Is
<1>3. 0 \in P
  BY <1>1
<1>4. \A m \in 1 .. n : m - 1 \in P => m \in P
  BY <1>2
<1>5. n \in P
  <2> HIDE DEF P
  <2>1. \A m \in 0 .. n : m \in P
    BY <1>3, <1>4, EveryTurn
  <2> QED BY <2>1
<1>6. PICK f : Is(n, f)
  BY <1>5
<1>7. Run(f, n, x, T, G)
  BY <1>6 DEF Is, Run
<1> QED BY <1>7

-----------------------------------------------------------------------------
(* Key lists. *)

\* loop is what the turns T make of x, as long as they are in G.
Follows(loop, n, x, T, G) ==
  loop[0] = x /\ \A k \in 1 .. n : loop[k - 1] \in G[k - 1] => loop[k] = T[k][loop[k - 1]]

\* A loop whose turn k leads from a state of G[k - 1] to one of G[k] stays in G.
LEMMA LoopStays ==
  ASSUME NEW n \in Nat, NEW G, NEW x \in G[0], NEW T,
         \A k \in 1 .. n : \A y \in G[k - 1] : T[k][y] \in G[k],
         NEW loop, Follows(loop, n, x, T, G)
  PROVE  \A k \in 0 .. n : loop[k] \in G[k]
<1> DEFINE P == {k \in 0 .. n : loop[k] \in G[k]}
<1>1. \A k : k \in P <=> k \in 0 .. n /\ loop[k] \in G[k]
  OBVIOUS
<1>2. \A k \in 1 .. n : k \in 0 .. n
  OBVIOUS
<1> HIDE DEF P
<1>3. 0 \in P
  BY <1>1 DEF Follows
<1>4. \A k \in 1 .. n : k - 1 \in P => k \in P
  BY <1>1, <1>2 DEF Follows
<1>5. \A k \in 0 .. n : k \in P
  BY <1>3, <1>4, EveryTurn
<1> QED BY <1>1, <1>5

\* Without one of its elements a list has the others, in their order.
LEMMA RemovedKeeps ==
  ASSUME NEW S, NEW q \in Seq(S), NEW i \in 1 .. Len(q)
  PROVE  LET r == RemoveAt(q, i) IN
         /\ r \in Seq(S) /\ Len(r) = Len(q) - 1
         /\ \A k \in 1 .. Len(r) : r[k] = IF k < i THEN q[k] ELSE q[k + 1]
<1> DEFINE x == SubSeq(q, 1, i - 1)
           y == SubSeq(q, i + 1, Len(q))
           r == RemoveAt(q, i)
<1>1. x \in Seq(S) /\ Len(x) = i - 1 /\ \A k \in 1 .. i - 1 : x[k] = q[k]
  OBVIOUS
<1>2. y \in Seq(S) /\ Len(y) = Len(q) - i /\ \A k \in 1 .. Len(q) - i : y[k] = q[k + i]
  <2>1. y \in Seq(S) /\ Len(y) = Len(q) - i
    OBVIOUS
  <2>2. \A k \in 1 .. Len(q) - (i + 1) + 1 : y[k] = q[(i + 1) + k - 1]
    <3>1. /\ i + 1 \in Int /\ Len(q) \in Int
          /\ \A k \in i + 1 .. Len(q) : q[k] \in S
      OBVIOUS
    <3> QED BY <3>1, SubSeqProperties
  <2>3. \A k \in 1 .. Len(q) - i : k \in 1 .. Len(q) - (i + 1) + 1 /\ (i + 1) + k - 1 = k + i
    OBVIOUS
  <2> HIDE DEF y
  <2> QED BY <2>1, <2>2, <2>3
<1>3. r = x \o y
  BY DEF RemoveAt
<1> HIDE DEF x, y, r
<1>4. r \in Seq(S) /\ Len(r) = Len(q) - 1
  <2>1. r \in Seq(S) /\ Len(r) = Len(x) + Len(y)
    BY <1>1, <1>2, <1>3, ConcatProperties
  <2> QED BY <1>1, <1>2, <2>1
<1>5. ASSUME NEW k \in 1 .. Len(r), k < i PROVE r[k] = q[k]
  BY <1>1, <1>2, <1>3, <1>4, <1>5
<1>6. ASSUME NEW k \in 1 .. Len(r), ~(k < i) PROVE r[k] = q[k + 1]
  <2>1. k - (i - 1) \in 1 .. Len(q) - i /\ k > Len(x) /\ k <= Len(x) + Len(y)
    BY <1>1, <1>2, <1>4, <1>6
  <2>2. r[k] = y[k - Len(x)]
    <3>1. k \in 1 .. Len(x) + Len(y) /\ ~(k <= Len(x))
      BY <1>1, <1>2, <2>1
    <3>2. x \in Seq(S) /\ y \in Seq(S)
      BY <1>1, <1>2
    <3> QED BY <1>3, <3>1, <3>2, ConcatProperties
  <2>3. y[k - (i - 1)] = q[k - (i - 1) + i]
    BY <1>2, <2>1
  <2>4. Len(x) = i - 1 /\ k - (i - 1) + i = k + 1
    BY <1>1
  <2> QED BY <2>2, <2>3, <2>4
<1> QED BY <1>4, <1>5, <1>6 DEF r

-----------------------------------------------------------------------------
(* The lists of keys. *)

KeyRange == -Half .. Half - 1

LEMMA CompareRight ==
  ASSUME NEW a \in KeyRange, NEW b \in KeyRange
  PROVE  /\ Compare(a, b) \in KeyRange
         /\ Compare(a, b) = IF a - b >= Half THEN a - b - 2 * Half
                            ELSE IF a - b < -Half THEN a - b + 2 * Half ELSE a - b
BY HalfIsNumber DEF Compare, Wrap, KeyRange

\* The middle of an interval is in it.
LEMMA Middle ==
  ASSUME NEW a \in Nat, NEW b \in Nat, a <= b
  PROVE  (a + b - 2) \div 2 + 1 \in a .. b
OBVIOUS

\* The states of the search in a list of n nodes.
SearchStates(n) == [min : 1 .. n + 1, max : 0 .. n, at : 0 .. n, st : Int]

\* A turn compares the key with that of a node between min and max, and leaves the nodes on
\* one side of it, or none.
LEMMA OneTurn ==
  ASSUME NEW s \in Seq(KeyRange), NEW key \in KeyRange, NEW y \in SearchStates(Len(s)),
         y.min <= y.max
  PROVE  \E m \in 1 .. Len(s) : \E c \in KeyRange :
           /\ y.min <= m /\ m <= y.max
           /\ c = Compare(s[m], key)
           /\ Turn(s, key, y) = [min |-> IF c > 0 THEN y.min ELSE m + 1,
                                 max |-> IF c < 0 THEN y.max ELSE IF c > 0 THEN m - 1 ELSE m,
                                 at |-> m, st |-> c]
<1> DEFINE n == Len(s)
           m == (y.min + y.max - 2) \div 2 + 1
           c == Compare(s[m], key)
<1>1. n \in Nat
  OBVIOUS
<1> HIDE DEF n
<1>2. y.min \in 1 .. n /\ y.max \in 1 .. n
  BY <1>1 DEF SearchStates, n
<1>3. m \in y.min .. y.max
  BY <1>1, <1>2, Middle
<1>4. m \in 1 .. n /\ y.min <= m /\ m <= y.max
  BY <1>1, <1>2, <1>3
<1>5. Turn(s, key, y) = [min |-> IF c > 0 THEN y.min ELSE m + 1,
                         max |-> IF c < 0 THEN y.max ELSE IF c > 0 THEN m - 1 ELSE m,
                         at |-> m, st |-> c]
  BY <1>1, <1>2 DEF Turn
<1> HIDE DEF m
<1>6. c \in KeyRange
  BY <1>4, CompareRight DEF n
<1> HIDE DEF c
<1>7. c = Compare(s[m], key)
  BY DEF c
<1> QED BY <1>4, <1>5, <1>6, <1>7 DEF n

\* The search is a loop from the whole list.
LEMMA SearchRuns ==
  ASSUME NEW s \in Seq(KeyRange), NEW key \in KeyRange
  PROVE  \E f \in [0 .. Len(s) -> SearchStates(Len(s))] :
           /\ f[0] = [min |-> 1, max |-> Len(s), at |-> 0, st |-> 0]
           /\ \A k \in 1 .. Len(s) : f[k] = Turn(s, key, f[k - 1])
           /\ Search(s, key) = f[Len(s)]
<1> DEFINE n == Len(s)
           S == SearchStates(n)
           x == [min |-> 1, max |-> n, at |-> 0, st |-> 0]
           loop == CHOOSE f : f = [k \in 0 .. n |-> IF k = 0 THEN x ELSE Turn(s, key, f[k - 1])]
<1>1. n \in Nat /\ x \in S
  <2>1. n \in Nat
    OBVIOUS
  <2>2. 1 \in 1 .. n + 1 /\ n \in 0 .. n /\ 0 \in 0 .. n /\ 0 \in Int
    BY <2>1
  <2> HIDE DEF n
  <2> QED BY <2>1, <2>2 DEF SearchStates
<1>2. ASSUME NEW y \in S PROVE Turn(s, key, y) \in S
  <2>1. CASE y.min > y.max
    BY <2>1 DEF Turn
  <2>2. CASE ~(y.min > y.max)
    <3>1. y.min \in 1 .. n + 1 /\ y.max \in 0 .. n /\ y.min <= y.max
      BY <1>1, <2>2 DEF SearchStates
    <3>2. PICK m \in 1 .. n : \E c \in KeyRange :
            /\ y.min <= m /\ m <= y.max
            /\ Turn(s, key, y) = [min |-> IF c > 0 THEN y.min ELSE m + 1,
                                  max |-> IF c < 0 THEN y.max ELSE IF c > 0 THEN m - 1 ELSE m,
                                  at |-> m, st |-> c]
      BY <3>1, OneTurn
    <3>3. PICK c \in KeyRange :
            Turn(s, key, y) = [min |-> IF c > 0 THEN y.min ELSE m + 1,
                               max |-> IF c < 0 THEN y.max ELSE IF c > 0 THEN m - 1 ELSE m,
                               at |-> m, st |-> c]
      BY <3>2
    <3> HIDE DEF n
    <3>4. c \in Int
      BY HalfIsNumber DEF KeyRange
    <3>5. /\ (IF c > 0 THEN y.min ELSE m + 1) \in 1 .. n + 1
          /\ (IF c < 0 THEN y.max ELSE IF c > 0 THEN m - 1 ELSE m) \in 0 .. n
          /\ m \in 0 .. n
      BY <1>1, <3>1, <3>4
    <3> QED BY <3>3, <3>4, <3>5 DEF SearchStates
  <2> QED BY <2>1, <2>2
<1> HIDE DEF n, S, x, loop
<1>3. PICK f : /\ f = [k \in 0 .. n |-> IF k = 0 THEN x ELSE Turn(s, key, f[k - 1])]
               /\ \A k \in 0 .. n : f[k] \in S
  <2> DEFINE T == [k \in 1 .. n |-> [y \in S |-> Turn(s, key, y)]]
             G == [k \in 0 .. n |-> S]
  <2>1. \A k \in 0 .. n : G[k] = S
    OBVIOUS
  <2>2. \A k \in 1 .. n : k - 1 \in 0 .. n /\ k \in 0 .. n
    BY <1>1
  <2>3. \A k \in 1 .. n : \A y \in S : T[k][y] = Turn(s, key, y)
    OBVIOUS
  <2> HIDE DEF T, G
  <2>4. \A k \in 1 .. n : \A y \in G[k - 1] : T[k][y] \in G[k]
    BY <1>2, <2>1, <2>2, <2>3
  <2>5. x \in G[0]
    BY <1>1, <2>1
  <2>11. PICK f : Run(f, n, x, T, G)
    BY <1>1, <2>4, <2>5, LoopRuns
  <2>6. /\ f = [k \in 0 .. n |-> IF k = 0 THEN x ELSE T[k][f[k - 1]]]
        /\ \A k \in 0 .. n : f[k] \in G[k]
    BY <2>11 DEF Run
  <2>7. \A k \in 0 .. n : f[k] = IF k = 0 THEN x ELSE Turn(s, key, f[k - 1])
    <3> SUFFICES ASSUME NEW k \in 0 .. n, k # 0 PROVE f[k] = Turn(s, key, f[k - 1])
      BY <2>6
    <3>1. k \in 1 .. n /\ k - 1 \in 0 .. n
      BY <1>1
    <3>2. f[k - 1] \in S
      BY <2>1, <2>6, <3>1
    <3>3. f[k] = T[k][f[k - 1]]
      BY <2>6
    <3>4. T[k][f[k - 1]] = Turn(s, key, f[k - 1])
      BY <2>3, <3>1, <3>2
    <3> QED BY <3>3, <3>4
  <2>8. f = [k \in 0 .. n |-> f[k]]
    BY <2>6
  <2>9. f = [k \in 0 .. n |-> IF k = 0 THEN x ELSE Turn(s, key, f[k - 1])]
    BY <2>7, <2>8
  <2>10. \A k \in 0 .. n : f[k] \in S
    BY <2>1, <2>6
  <2> QED BY <2>9, <2>10, Zenon
<1>4. f \in [0 .. n -> S] /\ f[0] = x
  BY <1>1, <1>3
<1>5. \A k \in 1 .. n : f[k] = Turn(s, key, f[k - 1])
  <2>1. \A k \in 1 .. n : k \in 0 .. n /\ k # 0
    BY <1>1
  <2> QED BY <1>3, <2>1
<1>7. loop = [k \in 0 .. n |-> IF k = 0 THEN x ELSE Turn(s, key, loop[k - 1])]
  BY <1>3 DEF loop
<1>8. Search(s, key) = loop[n]
  BY DEF Search, loop, n, x
<1>9. \A k \in 0 .. n : loop[k] = f[k]
  <2> DEFINE P == {k \in 0 .. n : loop[k] = f[k]}
  <2>1. 0 \in P
    BY <1>1, <1>4, <1>7
  <2>2. \A k \in 1 .. n : k - 1 \in P => k \in P
    <3>1. \A k \in 1 .. n : k \in 0 .. n /\ k # 0
      BY <1>1
    <3>2. ASSUME NEW k \in 1 .. n, loop[k - 1] = f[k - 1] PROVE loop[k] = f[k]
      <4>1. loop[k] = Turn(s, key, loop[k - 1])
        BY <1>7, <3>1
      <4> QED BY <1>5, <3>2, <4>1
    <3>3. \A k : k \in P <=> k \in 0 .. n /\ loop[k] = f[k]
      OBVIOUS
    <3> HIDE DEF P
    <3> QED BY <3>1, <3>2, <3>3
  <2>3. \A k \in 0 .. n : k \in P
    <3> HIDE DEF P
    <3> QED BY <1>1, <2>1, <2>2, EveryTurn
  <2> QED BY <2>3
<1>10. n \in 0 .. n
  BY <1>1
<1> QED BY <1>4, <1>5, <1>8, <1>9, <1>10 DEF n, S, x

\* A list whose keys are in the order of their age, the oldest first.
Sorted(s) ==
  \A i, j \in 1 .. Len(s) : i < j => Compare(s[i], s[j]) < 0 /\ Compare(s[j], s[i]) > 0

LEMMA SameKey == \A key \in KeyRange : Compare(key, key) = 0
BY HalfIsNumber DEF Compare, Wrap, KeyRange

\* The search finds every key of a sorted list.
LEMMA SearchFinds ==
  ASSUME NEW s \in Seq(KeyRange), Sorted(s), NEW p \in 1 .. Len(s)
  PROVE  Search(s, s[p]).at = p /\ Search(s, s[p]).st = 0
<1> DEFINE n == Len(s)
           key == s[p]
           Hit(y) == y.at = p /\ y.st = 0 /\ y.min > y.max
           Near(y, k) == y.min <= p /\ p <= y.max /\ y.max - y.min < n - k
<1>0. n \in Nat /\ key \in KeyRange /\ p \in 1 .. n
  OBVIOUS
<1>1. PICK f \in [0 .. n -> SearchStates(n)] :
        /\ f[0] = [min |-> 1, max |-> n, at |-> 0, st |-> 0]
        /\ \A k \in 1 .. n : f[k] = Turn(s, key, f[k - 1])
        /\ Search(s, key) = f[n]
  BY <1>0, SearchRuns
<1> DEFINE P == {k \in 0 .. n : Hit(f[k]) \/ Near(f[k], k)}
<1> HIDE DEF key, n
<1>2. 0 \in P
  BY <1>0, <1>1
<1>3. ASSUME NEW k \in 1 .. n, k - 1 \in P PROVE k \in P
  <2> DEFINE y == f[k - 1]
  <2>1. y \in SearchStates(n) /\ f[k] = Turn(s, key, y)
    BY <1>0, <1>1
  <2>2. CASE Hit(y)
    BY <1>0, <2>1, <2>2 DEF Turn
  <2>3. CASE Near(y, k - 1)
    <3> HIDE DEF y
    <3>0. y.min \in Int /\ y.max \in Int /\ y.min <= y.max
      BY <1>0, <2>1, <2>3 DEF SearchStates
    <3>1. PICK m \in 1 .. n : \E c \in KeyRange :
            /\ y.min <= m /\ m <= y.max
            /\ c = Compare(s[m], key)
            /\ Turn(s, key, y) = [min |-> IF c > 0 THEN y.min ELSE m + 1,
                                  max |-> IF c < 0 THEN y.max ELSE IF c > 0 THEN m - 1 ELSE m,
                                  at |-> m, st |-> c]
      BY <1>0, <2>1, <3>0, OneTurn DEF n
    <3>2. PICK c \in KeyRange :
            /\ y.min <= m /\ m <= y.max
            /\ c = Compare(s[m], key)
            /\ Turn(s, key, y) = [min |-> IF c > 0 THEN y.min ELSE m + 1,
                                  max |-> IF c < 0 THEN y.max ELSE IF c > 0 THEN m - 1 ELSE m,
                                  at |-> m, st |-> c]
      BY <3>1
    <3>3. c \in Int /\ m \in Int /\ p \in Int /\ k \in Int /\ n \in Int
      BY <1>0, HalfIsNumber DEF KeyRange
    <3>4. (m < p => c < 0) /\ (m > p => c > 0)
      BY <1>0, <3>2, <3>3 DEF Sorted, key, n
    <3>5. m = p => c = 0
      BY <1>0, <3>2, SameKey DEF key
    <3>6. CASE m = p
      BY <1>0, <2>1, <3>2, <3>3, <3>5, <3>6
    <3>7. CASE m < p
      BY SMTT(20), <1>0, <2>1, <2>3, <3>0, <3>2, <3>3, <3>4, <3>7
    <3>8. CASE m > p
      BY SMTT(20), <1>0, <2>1, <2>3, <3>0, <3>2, <3>3, <3>4, <3>8
    <3> QED BY <3>3, <3>6, <3>7, <3>8
  <2> QED BY <1>3, <2>2, <2>3
<1>4. n \in P
  <2>1. \A k \in 1 .. n : k - 1 \in P => k \in P
    BY <1>3
  <2> HIDE DEF P
  <2>2. \A k \in 0 .. n : k \in P
    BY <1>0, <1>2, <2>1, EveryTurn
  <2> QED BY <1>0, <2>2
<1>5. Hit(f[n])
  <2> DEFINE y == f[n]
  <2>1. y \in SearchStates(n)
    BY <1>0, <1>1
  <2> HIDE DEF y
  <2>2. y.min \in Int /\ y.max \in Int
    BY <1>0, <2>1 DEF SearchStates
  <2>3. Hit(y) \/ Near(y, n)
    BY <1>4 DEF y
  <2>4. ~Near(y, n)
    BY <1>0, <2>2
  <2> QED BY <2>3, <2>4 DEF y
<1> QED BY <1>1, <1>5 DEF key

\* What the search ends at is what it has looked at last.
LEMMA FoundIsThere ==
  ASSUME NEW s \in Seq(KeyRange), NEW key \in KeyRange, Found(s, key)
  PROVE  Search(s, key).at \in 1 .. Len(s) /\ s[Search(s, key).at] = key
<1> DEFINE n == Len(s)
           Seen(y) == y.at \in 1 .. n /\ y.st = Compare(s[y.at], key)
<1>0. n \in Nat /\ n # 0
  BY DEF Found
<1>1. PICK f \in [0 .. n -> SearchStates(n)] :
        /\ f[0] = [min |-> 1, max |-> n, at |-> 0, st |-> 0]
        /\ \A k \in 1 .. n : f[k] = Turn(s, key, f[k - 1])
        /\ Search(s, key) = f[n]
  BY SearchRuns
<1> HIDE DEF n
<1>2. ASSUME NEW y \in SearchStates(n), y.min <= y.max PROVE Seen(Turn(s, key, y))
  <2>1. PICK m \in 1 .. n : \E c \in KeyRange :
          /\ c = Compare(s[m], key)
          /\ Turn(s, key, y) = [min |-> IF c > 0 THEN y.min ELSE m + 1,
                                max |-> IF c < 0 THEN y.max ELSE IF c > 0 THEN m - 1 ELSE m,
                                at |-> m, st |-> c]
    BY <1>2, OneTurn DEF n
  <2> QED BY <2>1
<1> DEFINE P == {k \in 0 .. n : k # 0 => Seen(f[k])}
<1>3. 0 \in P
  BY <1>0
<1>4. ASSUME NEW k \in 1 .. n, k - 1 \in P PROVE k \in P
  <2> DEFINE y == f[k - 1]
  <2>1. y \in SearchStates(n) /\ f[k] = Turn(s, key, y)
    BY <1>0, <1>1
  <2>2. CASE y.min <= y.max
    <3> HIDE DEF y, Seen
    <3> QED BY <1>0, <1>2, <2>1, <2>2
  <2>3. CASE ~(y.min <= y.max)
    <3>1. k # 1
      BY <1>0, <1>1, <2>3
    <3>2. Seen(y)
      BY <1>0, <1>4, <3>1
    <3>3. y.min \in Int /\ y.max \in Int
      <4> HIDE DEF y
      <4> QED BY <1>0, <2>1 DEF SearchStates
    <3>4. Turn(s, key, y) = y
      BY <2>3, <3>3 DEF Turn
    <3> HIDE DEF y, Seen
    <3> QED BY <1>0, <2>1, <3>2, <3>4
  <2> QED BY <2>2, <2>3
<1>5. n \in P
  <2>1. \A k \in 1 .. n : k - 1 \in P => k \in P
    BY <1>4
  <2> HIDE DEF P
  <2>2. \A k \in 0 .. n : k \in P
    BY <1>0, <1>3, <2>1, EveryTurn
  <2> QED BY <1>0, <2>2
<1>6. Seen(Search(s, key))
  BY <1>0, <1>1, <1>5
<1>7. \A a \in KeyRange : Compare(a, key) = 0 => a = key
  BY HalfIsNumber DEF Compare, Wrap, KeyRange
<1> QED BY <1>6, <1>7 DEF Found, n

\* A key that comes after all those of the list goes to the end of it.
LEMMA InsertIsAppend ==
  ASSUME NEW s \in Seq(KeyRange), NEW key \in KeyRange,
         \A i \in 1 .. Len(s) : Compare(s[i], key) < 0
  PROVE  InsertSorted(s, key) = Append(s, key)
<1> DEFINE n == Len(s)
           Right(y, k) == y.max = n /\ y.max - y.min < n - k /\ (k # 0 => y.at = y.min - 1 /\ y.st < 0)
<1>0. n \in Nat
  OBVIOUS
<1>a. CASE s = <<>>
  BY <1>a DEF InsertSorted
<1>b. CASE s # <<>>
  <2>0. n # 0
    BY <1>b
  <2>1. PICK f \in [0 .. n -> SearchStates(n)] :
          /\ f[0] = [min |-> 1, max |-> n, at |-> 0, st |-> 0]
          /\ \A k \in 1 .. n : f[k] = Turn(s, key, f[k - 1])
          /\ Search(s, key) = f[n]
    BY SearchRuns
  <2> HIDE DEF n
  <2> DEFINE P == {k \in 0 .. n : Right(f[k], k)}
  <2>2. 0 \in P
    BY <1>0, <2>1
  <2>3. ASSUME NEW k \in 1 .. n, k - 1 \in P PROVE k \in P
    <3> DEFINE y == f[k - 1]
    <3>1. y \in SearchStates(n) /\ f[k] = Turn(s, key, y) /\ Right(y, k - 1)
      BY <1>0, <2>1, <2>3
    <3> HIDE DEF y
    <3>2. y.min \in Int /\ y.max \in Int /\ y.at \in Int
      BY <1>0, <3>1 DEF SearchStates
    <3>3. CASE y.min <= y.max
      <4>1. PICK m \in 1 .. n : \E c \in KeyRange :
              /\ y.min <= m /\ m <= y.max /\ c = Compare(s[m], key)
              /\ Turn(s, key, y) = [min |-> IF c > 0 THEN y.min ELSE m + 1,
                                    max |-> IF c < 0 THEN y.max ELSE IF c > 0 THEN m - 1 ELSE m,
                                    at |-> m, st |-> c]
        BY SMTT(20), <3>1, <3>3, OneTurn DEF n
      <4>2. PICK c \in KeyRange :
              /\ y.min <= m /\ m <= y.max /\ c = Compare(s[m], key)
              /\ Turn(s, key, y) = [min |-> IF c > 0 THEN y.min ELSE m + 1,
                                    max |-> IF c < 0 THEN y.max ELSE IF c > 0 THEN m - 1 ELSE m,
                                    at |-> m, st |-> c]
        BY <4>1
      <4>3. c < 0 /\ c \in Int /\ m \in Int /\ k \in Int
        BY <1>0, <4>2, HalfIsNumber DEF KeyRange, n
      <4>4. Turn(s, key, y) = [min |-> m + 1, max |-> y.max, at |-> m, st |-> c]
        BY <4>2, <4>3
      <4>a. /\ n - (m + 1) < n - k /\ m = (m + 1) - 1 /\ y.max = n
        <5>1. y.max = n /\ y.max - y.min < n - (k - 1) /\ y.min <= m
          BY <3>1, <4>2
        <5> QED BY <1>0, <3>2, <4>3, <5>1
      <4>5. Right(Turn(s, key, y), k)
        BY <4>a, <4>3, <4>4
      <4> HIDE DEF Right
      <4> QED BY <1>0, <3>1, <4>5
    <3>4. CASE ~(y.min <= y.max)
      <4>1. Turn(s, key, y) = y
        BY <3>2, <3>4 DEF Turn
      <4>2. k \in Int /\ y.max = n
        BY <1>0, <3>1
      <4>3. k # 1
        <5>1. y = f[k - 1]
          BY DEF y
        <5> QED BY <1>0, <2>1, <3>4, <5>1
      <4>4. y.max - y.min < 0 /\ n - k >= 0
        BY <1>0, <3>2, <3>4
      <4> HIDE DEF Right
      <4>5. Right(y, k)
        BY <1>0, <3>1, <3>2, <4>2, <4>3, <4>4 DEF Right
      <4> QED BY <1>0, <3>1, <4>1, <4>5
    <3> QED BY <3>3, <3>4
  <2>4. n \in P
    <3>1. \A k \in 1 .. n : k - 1 \in P => k \in P
      BY <2>3
    <3> HIDE DEF P
    <3>2. \A k \in 0 .. n : k \in P
      BY <1>0, <2>2, <3>1, EveryTurn
    <3> QED BY <1>0, <3>2
  <2> DEFINE z == Search(s, key)
  <2>5. z \in SearchStates(n) /\ Right(z, n)
    BY <1>0, <2>1, <2>4
  <2> HIDE DEF z
  <2>6. z.at = n /\ z.st < 0
    <3>1. z.min \in 1 .. n + 1 /\ z.max \in 0 .. n
      BY <2>5 DEF SearchStates
    <3> QED BY <1>0, <2>0, <2>5, <3>1
  <2>7. z.st \in Int /\ ~(z.st >= 0)
    BY <2>5, <2>6 DEF SearchStates
  <2>8. InsertSorted(s, key) = InsertAt(s, n + 1, key)
    BY <1>b, <2>6, <2>7 DEF InsertSorted, z
  <2>9. InsertAt(s, n + 1, key) = Append(s, key)
    BY <1>0 DEF InsertAt, n
  <2> QED BY <2>8, <2>9
<1> QED BY <1>a, <1>b

-----------------------------------------------------------------------------
(* The invariant: the list is in the order in which the keys were given out, and  *)
(* all of them were given out less than half the range ago.                    *)

Age(key) == Compare(counter, key)

KlistInv ==
  /\ counter \in KeyRange /\ clean \in BOOLEAN /\ list \in Seq(KeyRange)
  /\ \A i \in 1 .. Len(list) : Age(list[i]) >= 0
  /\ \A i, j \in 1 .. Len(list) : i < j => Age(list[i]) > Age(list[j])

\* The order of two ages is the order of the keys, whether or not the counter wrapped
\* between them.
LEMMA OrderByAge ==
  ASSUME NEW c \in KeyRange, NEW a \in KeyRange, NEW b \in KeyRange,
         Compare(c, a) > Compare(c, b), Compare(c, b) >= 0
  PROVE  Compare(a, b) < 0 /\ Compare(b, a) > 0
<1>1. /\ Compare(c, a) \in KeyRange /\ Compare(c, b) \in KeyRange
      /\ Compare(c, a) = IF c - a >= Half THEN c - a - 2 * Half
                         ELSE IF c - a < -Half THEN c - a + 2 * Half ELSE c - a
      /\ Compare(c, b) = IF c - b >= Half THEN c - b - 2 * Half
                         ELSE IF c - b < -Half THEN c - b + 2 * Half ELSE c - b
      /\ Compare(a, b) = IF a - b >= Half THEN a - b - 2 * Half
                         ELSE IF a - b < -Half THEN a - b + 2 * Half ELSE a - b
      /\ Compare(b, a) = IF b - a >= Half THEN b - a - 2 * Half
                         ELSE IF b - a < -Half THEN b - a + 2 * Half ELSE b - a
  BY CompareRight
<1> QED BY <1>1, HalfIsNumber DEF KeyRange

LEMMA KlistSorted == KlistInv => Sorted(list)
<1> SUFFICES ASSUME KlistInv, NEW i \in 1 .. Len(list), NEW j \in 1 .. Len(list), i < j
             PROVE  Compare(list[i], list[j]) < 0 /\ Compare(list[j], list[i]) > 0
  BY DEF Sorted
<1>1. counter \in KeyRange /\ list[i] \in KeyRange /\ list[j] \in KeyRange
  BY DEF KlistInv
<1>2. Compare(counter, list[i]) > Compare(counter, list[j]) /\ Compare(counter, list[j]) >= 0
  BY DEF KlistInv, Age
<1> QED BY <1>1, <1>2, OrderByAge

LEMMA KlistStart == KlistInit => KlistInv
BY HalfIsNumber DEF KlistInit, KlistInv, KeyRange

\* The next value of the counter makes every key older by the same.
LEMMA Advance ==
  ASSUME NEW c, c.counter \in KeyRange, c.clean \in BOOLEAN,
         c = [counter |-> c.counter, clean |-> c.clean]
  PROVE  /\ Step(c).counter \in KeyRange /\ Step(c).clean \in BOOLEAN
         /\ \E d \in {1, 2} : \A key \in KeyRange :
               Compare(c.counter, key) >= 0 /\ Compare(c.counter, key) <= Half - 3
                 => Compare(Step(c).counter, key) = Compare(c.counter, key) + d
<1> DEFINE n == c.counter
           x == Step(c).counter
<1>1. n \in KeyRange /\ Step(c).clean \in BOOLEAN
  BY DEF Step
<1>2. x = IF Wrap(n + 1) = 0 THEN 1 ELSE Wrap(n + 1)
  BY DEF Step
<1> HIDE DEF n, x
<1>3. Wrap(n + 1) = IF n = Half - 1 THEN -Half ELSE n + 1
  BY <1>1, HalfIsNumber DEF Wrap, KeyRange
<1>4. x = IF n = Half - 1 THEN -Half ELSE IF n = -1 THEN 1 ELSE n + 1
  BY <1>1, <1>2, <1>3, HalfIsNumber DEF KeyRange
<1>5. x \in KeyRange
  BY <1>1, <1>4, HalfIsNumber DEF KeyRange
<1> DEFINE d == IF n = -1 THEN 2 ELSE 1
<1>6. ASSUME NEW key \in KeyRange, Compare(n, key) >= 0, Compare(n, key) <= Half - 3
      PROVE  Compare(x, key) = Compare(n, key) + d
  <2>1. /\ Compare(n, key) = IF n - key >= Half THEN n - key - 2 * Half
                             ELSE IF n - key < -Half THEN n - key + 2 * Half ELSE n - key
        /\ Compare(x, key) = IF x - key >= Half THEN x - key - 2 * Half
                             ELSE IF x - key < -Half THEN x - key + 2 * Half ELSE x - key
    BY <1>1, <1>5, CompareRight
  <2> QED BY <1>1, <1>4, <1>5, <1>6, <2>1, HalfIsNumber DEF KeyRange
<1>7. d \in {1, 2}
  OBVIOUS
<1> HIDE DEF d
<1> QED BY <1>1, <1>5, <1>6, <1>7 DEF n, x

\* A key is taken out of the list, which stays in its order.
LEMMA RemoveKeyKeeps ==
  ASSUME KlistInv, NEW key \in ToSet(list), RemoveKey(key)
  PROVE  KlistInv'
<1>1. key \in KeyRange /\ list \in Seq(KeyRange) /\ counter' = counter
      /\ counter \in KeyRange /\ clean' \in BOOLEAN
  BY DEF KlistInv, RemoveKey, ToSet
<1>2. CASE ~Found(list, key)
  BY <1>1, <1>2 DEF RemoveKey, KlistInv, Age
<1>3. CASE Found(list, key)
  <2> DEFINE at == Search(list, key).at
             r == RemoveAt(list, at)
  <2>1. at \in 1 .. Len(list)
    BY <1>1, <1>3, FoundIsThere
  <2> HIDE DEF at
  <2>2. /\ r \in Seq(KeyRange) /\ Len(r) = Len(list) - 1
        /\ \A k \in 1 .. Len(r) : r[k] = IF k < at THEN list[k] ELSE list[k + 1]
    BY <1>1, <2>1, RemovedKeeps
  <2>3. list' = r
    BY <1>3 DEF RemoveKey, at
  <2> HIDE DEF r
  <2> DEFINE old(k) == IF k < at THEN k ELSE k + 1
  <2>4. ASSUME NEW k \in 1 .. Len(r) PROVE old(k) \in 1 .. Len(list) /\ r[k] = list[old(k)]
    BY <2>1, <2>2
  <2>5. ASSUME NEW i \in 1 .. Len(r), NEW j \in 1 .. Len(r), i < j PROVE old(i) < old(j)
    BY <2>1, <2>2, <2>5
  <2> HIDE DEF old
  <2>6. \A i \in 1 .. Len(r) : Compare(counter, r[i]) >= 0
    BY <2>4 DEF KlistInv, Age
  <2>7. \A i, j \in 1 .. Len(r) : i < j => Compare(counter, r[i]) > Compare(counter, r[j])
    BY <2>4, <2>5 DEF KlistInv, Age
  <2> QED BY <1>1, <2>2, <2>3, <2>6, <2>7 DEF KlistInv, Age
<1> QED BY <1>2, <1>3

\* A new key is the first that is tried, and younger than all those of the list.
LEMMA InsertKeeps ==
  ASSUME KlistInv, Insert
  PROVE  KlistInv'
<1> DEFINE c == [counter |-> counter, clean |-> clean]
           x == Step(c)
           M == MaxNodes
           Tried == CHOOSE f : f = [n \in 1 .. M + 1 |->
                      IF n = 1 THEN x ELSE IF Taken(f[n - 1]) THEN Step(f[n - 1]) ELSE f[n - 1]]
           g == [n \in 1 .. M + 1 |-> x]
<1>0. /\ counter \in KeyRange /\ clean \in BOOLEAN /\ list \in Seq(KeyRange)
      /\ \A i \in 1 .. Len(list) : Age(list[i]) >= 0 /\ Age(list[i]) <= Half - 3
  BY DEF KlistInv, Insert, Age, ToSet
<1>1. counter' = Tried[M + 1].counter /\ clean' = Tried[M + 1].clean
      /\ list' = InsertSorted(list, Tried[M + 1].counter)
  BY DEF Insert
<1>2. /\ x.counter \in KeyRange /\ x.clean \in BOOLEAN
      /\ \E d \in {1, 2} : \A key \in KeyRange :
            Age(key) >= 0 /\ Age(key) <= Half - 3 => Compare(x.counter, key) = Age(key) + d
  <2>1. c.counter = counter /\ c.clean = clean
    OBVIOUS
  <2> HIDE DEF c
  <2>2. c = [counter |-> c.counter, clean |-> c.clean]
    BY <2>1 DEF c
  <2> QED BY <1>0, <2>1, <2>2, Advance DEF Age
<1> HIDE DEF x
<1>3. PICK d \in {1, 2} : \A key \in KeyRange :
        Age(key) >= 0 /\ Age(key) <= Half - 3 => Compare(x.counter, key) = Age(key) + d
  BY <1>2
<1>4. ASSUME NEW i \in 1 .. Len(list) PROVE Compare(x.counter, list[i]) = Age(list[i]) + d
  BY <1>0, <1>3
<1>5. \A i \in 1 .. Len(list) : Age(list[i]) \in Int
  <2>1. \A i \in 1 .. Len(list) : Age(list[i]) \in KeyRange
    BY <1>0, CompareRight DEF Age
  <2> QED BY <2>1, HalfIsNumber DEF KeyRange
<1>6. ~Found(list, x.counter)
  <2> SUFFICES ASSUME Found(list, x.counter) PROVE FALSE
    OBVIOUS
  <2>1. PICK i \in 1 .. Len(list) : list[i] = x.counter
    BY <1>0, <1>2, FoundIsThere
  <2> QED BY <1>0, <1>2, <1>4, <1>5, <2>1, SameKey
<1>7. Tried[M + 1] = x
  <2>1. g = [n \in 1 .. M + 1 |->
               IF n = 1 THEN x ELSE IF Taken(g[n - 1]) THEN Step(g[n - 1]) ELSE g[n - 1]]
    <3>1. \A n \in 1 .. M + 1 : n # 1 => g[n - 1] = x
      BY MaxNodesIsNumber
    <3> QED BY <1>6, <3>1 DEF Taken
  <2>2. Tried = [n \in 1 .. M + 1 |->
                   IF n = 1 THEN x ELSE IF Taken(Tried[n - 1]) THEN Step(Tried[n - 1]) ELSE Tried[n - 1]]
    BY <2>1
  <2> HIDE DEF Tried, g
  <2> DEFINE P == {n \in 0 .. M : Tried[n + 1] = x}
  <2>3. 0 \in P
    BY <2>2, MaxNodesIsNumber
  <2>4. \A n \in 1 .. M : n - 1 \in P => n \in P
    <3> SUFFICES ASSUME NEW n \in 1 .. M, Tried[n - 1 + 1] = x PROVE Tried[n + 1] = x
      BY MaxNodesIsNumber
    <3>1. n - 1 + 1 = n /\ n + 1 \in 1 .. M + 1 /\ n + 1 # 1 /\ n + 1 - 1 = n
      BY MaxNodesIsNumber
    <3>a. \A m \in 1 .. M + 1 : m # 1 =>
            Tried[m] = IF Taken(Tried[m - 1]) THEN Step(Tried[m - 1]) ELSE Tried[m - 1]
      BY <2>2
    <3> DEFINE m == n + 1
    <3>b. m \in 1 .. M + 1 /\ m # 1 /\ m - 1 = n
      BY <3>1
    <3> HIDE DEF m
    <3>2. Tried[m] = IF Taken(Tried[n]) THEN Step(Tried[n]) ELSE Tried[n]
      BY <3>a, <3>b
    <3> QED BY <1>6, <3>1, <3>2 DEF Taken, m
  <2> HIDE DEF P
  <2>5. \A n \in 0 .. M : n \in P
    BY <2>3, <2>4, MaxNodesIsNumber, EveryTurn
  <2> QED BY <2>5, MaxNodesIsNumber DEF P
<1> HIDE DEF Tried
<1>8. \A i \in 1 .. Len(list) : Compare(list[i], x.counter) < 0
  <2> SUFFICES ASSUME NEW i \in 1 .. Len(list) PROVE Compare(list[i], x.counter) < 0
    OBVIOUS
  <2>1. Compare(x.counter, list[i]) > Compare(x.counter, x.counter) /\ Compare(x.counter, x.counter) >= 0
    BY <1>0, <1>2, <1>4, <1>5, SameKey
  <2> QED BY <1>0, <1>2, <2>1, OrderByAge
<1>9. list' = Append(list, x.counter)
  BY <1>0, <1>1, <1>2, <1>7, <1>8, InsertIsAppend
<1>10. /\ list' \in Seq(KeyRange) /\ Len(list') = Len(list) + 1
       /\ \A i \in 1 .. Len(list) : list'[i] = list[i]
       /\ list'[Len(list) + 1] = x.counter
  BY <1>0, <1>2, <1>9
<1>11. \A i \in 1 .. Len(list') : Compare(x.counter, list'[i]) =
         IF i = Len(list) + 1 THEN 0 ELSE Age(list[i]) + d
  BY <1>0, <1>2, <1>4, <1>10, SameKey
<1>12. \A i \in 1 .. Len(list') : Compare(x.counter, list'[i]) >= 0
  BY <1>0, <1>5, <1>10, <1>11
<1>13. \A i, j \in 1 .. Len(list') :
          i < j => Compare(x.counter, list'[i]) > Compare(x.counter, list'[j])
  <2> SUFFICES ASSUME NEW i \in 1 .. Len(list'), NEW j \in 1 .. Len(list'), i < j
               PROVE  Compare(x.counter, list'[i]) > Compare(x.counter, list'[j])
    OBVIOUS
  <2>1. i \in 1 .. Len(list)
    BY <1>0, <1>10
  <2>2. j # Len(list) + 1 => j \in 1 .. Len(list) /\ Age(list[i]) > Age(list[j])
    BY <1>0, <1>10, <2>1 DEF KlistInv
  <2> QED BY SMTT(20), <1>0, <1>5, <1>11, <2>1, <2>2
<1> QED BY <1>1, <1>2, <1>7, <1>10, <1>12, <1>13 DEF KlistInv, Age

LEMMA KlistKeeps == KlistInv /\ [KlistNext]_klistVars => KlistInv'
<1> SUFFICES ASSUME KlistInv, [KlistNext]_klistVars PROVE KlistInv'
  OBVIOUS
<1>1. CASE UNCHANGED klistVars
  BY <1>1 DEF klistVars, KlistInv, Age
<1> QED BY <1>1, InsertKeeps, RemoveKeyKeeps DEF KlistNext

\* a_Klist_insert and a_Klist_get_data (klist.c): whatever the width of a key and however
\* often the counter has wrapped, no two nodes have the same key and each is found by its key.
THEOREM KeysDistinct == KlistSpec => []KeysAreDistinct
<1>1. KlistInv => KeysAreDistinct
  <2> SUFFICES ASSUME KlistInv PROVE KeysAreDistinct
    OBVIOUS
  <2>1. list \in Seq(KeyRange) /\ Sorted(list)
    BY KlistSorted DEF KlistInv
  <2>2. IsInjective(list)
    <3> SUFFICES ASSUME NEW i \in DOMAIN list, NEW j \in DOMAIN list, list[i] = list[j] PROVE i = j
      BY DEF IsInjective
    <3>1. i \in 1 .. Len(list) /\ j \in 1 .. Len(list)
      BY <2>1
    <3>2. list[i] \in KeyRange
      BY <2>1, <3>1
    <3> QED BY <2>1, <3>1, <3>2, SameKey DEF Sorted
  <2>3. \A i \in DOMAIN list : Found(list, list[i]) /\ Search(list, list[i]).at = i
    BY <2>1, SearchFinds DEF Found
  <2> QED BY <2>2, <2>3 DEF KeysAreDistinct
<1> QED BY <1>1, KlistStart, KlistKeeps, PTL DEF KlistSpec

-----------------------------------------------------------------------------
(* The cookie store. *)

CookieDomains ==
  {d \in {line.domain : line \in Lines} \cup {Dom(FALSE, r.host) : r \in Requests} : d # NoValue}

CookieRecords ==
  [name : {line.name : line \in Lines},
   domain : CookieDomains,
   hostOnly : BOOLEAN,
   path : {ValidPath(line.path, r.path) : line \in Lines, r \in Requests},
   secure : {line.secure : line \in Lines},
   expires : {MaxTime + 1} \cup {t + line.age : t \in Nat, line \in Lines},
   session : BOOLEAN,
   lastUsed : Nat]

\* No domain is empty, and the domain of a cookie without Domain attribute is the host itself.
Cookie == {c \in CookieRecords : c.domain.labels # <<>> /\ (c.hostOnly => ~c.domain.dot)}

Stores == [domains : UNION {[D -> Seq(Cookie)] : D \in SUBSET CookieDomains}, all : Seq(Cookie)]

Among(q, c) == \E i \in 1 .. Len(q) : q[i] = c

Distinct(q) == \A i, j \in 1 .. Len(q) : q[i] = q[j] => i = j

\* A list of cookies of one domain, no two of which replace each other.
ListIsOf(q, d) ==
  \A i, j \in 1 .. Len(q) : /\ q[i].domain = d
                            /\ i # j => ~SameCookie(q[i], q[j])

\* The two ways to a cookie agree, and only the domains X may have a node without cookies.
Sound(s, X) ==
  /\ s \in Stores
  /\ IsFiniteSet(DOMAIN s.domains)
  /\ Distinct(s.all)
  /\ \A c \in Cookie : Among(s.all, c) <=> Among(ListOf(s, c.domain), c)
  /\ \A d \in DOMAIN s.domains : /\ ListIsOf(s.domains[d], d)
                                 /\ s.domains[d] = <<>> => d \in X

\* t has some of the cookies of s.
Fewer(t, s) ==
  /\ Len(t.all) <= Len(s.all)
  /\ \A d \in CookieDomains : Len(ListOf(t, d)) <= Len(ListOf(s, d))
  /\ \A c \in Cookie : Among(t.all, c) => Among(s.all, c)

InLimits(s) ==
  /\ Len(s.all) <= MaxTotalCookies
  /\ \A d \in CookieDomains : Len(ListOf(s, d)) <= MaxDomainCookies

LEMMA LeastIs ==
  ASSUME NEW T, T \subseteq Nat, T # {}
  PROVE  Min(T) \in T /\ \A y \in T : Min(T) <= y
BY LeastOf DEF Min

\* The parts of a store.
LEMMA StoreParts ==
  ASSUME NEW s \in Stores
  PROVE  /\ s.all \in Seq(Cookie) /\ Len(s.all) \in Nat
         /\ DOMAIN s.domains \subseteq CookieDomains
         /\ s.domains \in [DOMAIN s.domains -> Seq(Cookie)]
         /\ \A d : ListOf(s, d) \in Seq(Cookie) /\ Len(ListOf(s, d)) \in Nat
         /\ s = [domains |-> s.domains, all |-> s.all]
<1>1. PICK D \in SUBSET CookieDomains : s.domains \in [D -> Seq(Cookie)]
  BY DEF Stores
<1>2. s.all \in Seq(Cookie) /\ s = [domains |-> s.domains, all |-> s.all]
  BY DEF Stores
<1>3. DOMAIN s.domains = D
  BY <1>1
<1>4. ASSUME NEW d PROVE ListOf(s, d) \in Seq(Cookie)
  BY <1>1, <1>3 DEF ListOf, HasNode
<1>5. \A q \in Seq(Cookie) : Len(q) \in Nat
  OBVIOUS
<1> QED BY <1>1, <1>2, <1>3, <1>4, <1>5

LEMMA StoreOf ==
  ASSUME NEW D \in SUBSET CookieDomains, NEW f \in [D -> Seq(Cookie)], NEW q \in Seq(Cookie)
  PROVE  [domains |-> f, all |-> q] \in Stores
BY DEF Stores

LEMMA Placed ==
  ASSUME NEW q \in Seq(Cookie), NEW c, Among(q, c)
  PROVE  PlaceOf(q, c) \in 1 .. Len(q) /\ q[PlaceOf(q, c)] = c
<1> DEFINE T == {i \in DOMAIN q : q[i] = c}
<1>1. T \subseteq Nat /\ T # {}
  BY DEF Among
<1>2. Min(T) \in T
  <2> HIDE DEF T
  <2> QED BY <1>1, LeastIs
<1> QED BY <1>2 DEF PlaceOf

\* dList_remove: the others stay in their order.
LEMMA RemoveFromRight ==
  ASSUME NEW q \in Seq(Cookie), NEW c, Among(q, c)
  PROVE  \E p \in 1 .. Len(q) :
           /\ q[p] = c
           /\ RemoveFrom(q, c) \in Seq(Cookie) /\ Len(RemoveFrom(q, c)) = Len(q) - 1
           /\ \A k \in 1 .. Len(q) - 1 : RemoveFrom(q, c)[k] = IF k < p THEN q[k] ELSE q[k + 1]
<1> DEFINE p == PlaceOf(q, c)
<1>1. p \in 1 .. Len(q) /\ q[p] = c
  BY Placed
<1>2. RemoveFrom(q, c) = RemoveAt(q, p)
  BY DEF RemoveFrom
<1> HIDE DEF p
<1>3. /\ RemoveAt(q, p) \in Seq(Cookie) /\ Len(RemoveAt(q, p)) = Len(q) - 1
      /\ \A k \in 1 .. Len(RemoveAt(q, p)) : RemoveAt(q, p)[k] = IF k < p THEN q[k] ELSE q[k + 1]
  BY <1>1, RemovedKeeps
<1> QED BY <1>1, <1>2, <1>3

\* dList_remove_fast: the last one takes the place.
LEMMA RemoveFastRight ==
  ASSUME NEW q \in Seq(Cookie), NEW c, Among(q, c)
  PROVE  \E p \in 1 .. Len(q) :
           /\ q[p] = c
           /\ RemoveFast(q, c) \in Seq(Cookie) /\ Len(RemoveFast(q, c)) = Len(q) - 1
           /\ \A k \in 1 .. Len(q) - 1 : RemoveFast(q, c)[k] = IF k = p THEN q[Len(q)] ELSE q[k]
<1> DEFINE p == PlaceOf(q, c)
           n == Len(q)
           r == [q EXCEPT ![p] = q[n]]
<1>1. p \in 1 .. n /\ q[p] = c /\ n \in Nat
  BY Placed
<1>2. RemoveFast(q, c) = SubSeq(r, 1, Len(r) - 1)
  BY DEF RemoveFast, Front, Last
<1> HIDE DEF p
<1>3. n \in 1 .. n /\ q[n] \in Cookie
  BY <1>1
<1>4. r \in Seq(Cookie) /\ Len(r) = n /\ \A k \in 1 .. n : r[k] = IF k = p THEN q[n] ELSE q[k]
  BY <1>1, <1>3
<1> HIDE DEF r
<1>5. SubSeq(r, 1, n - 1) \in Seq(Cookie) /\ Len(SubSeq(r, 1, n - 1)) = n - 1
  BY <1>1, <1>4
<1>6. \A k \in 1 .. n - 1 : SubSeq(r, 1, n - 1)[k] = r[k]
  BY <1>1, <1>4
<1> HIDE DEF n
<1>7. \A k \in 1 .. n - 1 : k \in 1 .. n
  BY <1>1
<1> QED BY <1>1, <1>2, <1>4, <1>5, <1>6, <1>7 DEF n

LEMMA ListIsDistinct ==
  ASSUME NEW q \in Seq(Cookie), NEW d, ListIsOf(q, d)
  PROVE  Distinct(q)
BY DEF ListIsOf, Distinct, SameCookie

LEMMA RemovedFrom ==
  ASSUME NEW q \in Seq(Cookie), NEW c, Among(q, c), Distinct(q)
  PROVE  /\ RemoveFrom(q, c) \in Seq(Cookie) /\ Len(RemoveFrom(q, c)) = Len(q) - 1
         /\ \A e : Among(RemoveFrom(q, c), e) <=> Among(q, e) /\ e # c
<1> DEFINE r == RemoveFrom(q, c)
           n == Len(q)
<1>1. PICK p \in 1 .. n :
        /\ q[p] = c
        /\ r \in Seq(Cookie) /\ Len(r) = n - 1
        /\ \A k \in 1 .. n - 1 : r[k] = IF k < p THEN q[k] ELSE q[k + 1]
  BY RemoveFromRight
<1> HIDE DEF r
<1>2. n \in Nat
  OBVIOUS
<1>3. \A i, j \in 1 .. n : q[i] = q[j] => i = j
  BY DEF Distinct
<1> HIDE DEF n
<1>4. ASSUME NEW e, NEW k \in 1 .. n - 1, r[k] = e PROVE Among(q, e) /\ e # c
  <2>1. k \in 1 .. n /\ k + 1 \in 1 .. n
    BY <1>2
  <2>2. CASE k < p
    <3>1. r[k] = q[k]
      BY <1>1, <2>2
    <3>2. k # p
      BY <1>2, <2>2
    <3> QED BY <1>1, <1>3, <1>4, <2>1, <3>1, <3>2 DEF Among, n
  <2>3. CASE ~(k < p)
    <3>1. r[k] = q[k + 1]
      BY <1>1, <2>3
    <3>2. k + 1 # p
      BY <1>2, <2>3
    <3> QED BY <1>1, <1>3, <1>4, <2>1, <3>1, <3>2 DEF Among, n
  <2> QED BY <2>2, <2>3
<1>5. ASSUME NEW e, NEW k \in 1 .. n, q[k] = e, e # c PROVE Among(r, e)
  <2>1. k # p
    BY <1>1, <1>5
  <2>2. CASE k < p
    <3>1. k \in 1 .. n - 1 /\ r[k] = q[k]
      BY <1>1, <1>2, <2>2
    <3> QED BY <1>1, <1>5, <3>1 DEF Among
  <2>3. CASE k > p
    <3>1. k - 1 \in 1 .. n - 1 /\ ~(k - 1 < p) /\ k - 1 + 1 = k
      BY <1>1, <1>2, <2>3
    <3>2. r[k - 1] = q[k]
      BY <1>1, <3>1
    <3> QED BY <1>1, <1>5, <3>1, <3>2 DEF Among
  <2> QED BY <1>2, <2>1, <2>2, <2>3
<1>6. \A e : Among(r, e) <=> Among(q, e) /\ e # c
  <2>1. ASSUME NEW e, Among(r, e) PROVE Among(q, e) /\ e # c
    <3>1. PICK k \in 1 .. n - 1 : r[k] = e
      BY <1>1, <2>1 DEF Among
    <3> QED BY <1>4, <3>1
  <2>2. ASSUME NEW e, Among(q, e), e # c PROVE Among(r, e)
    <3>1. PICK k \in 1 .. n : q[k] = e
      BY <2>2 DEF Among, n
    <3> QED BY <1>5, <2>2, <3>1
  <2> QED BY <2>1, <2>2
<1> QED BY <1>1, <1>6 DEF r, n

\* What is left of the list of a domain is one.
LEMMA ListShrinks ==
  ASSUME NEW q \in Seq(Cookie), NEW d, ListIsOf(q, d), NEW c, Among(q, c)
  PROVE  ListIsOf(RemoveFrom(q, c), d)
<1>0. \E p \in 1 .. Len(q) :
        /\ q[p] = c
        /\ RemoveFrom(q, c) \in Seq(Cookie) /\ Len(RemoveFrom(q, c)) = Len(q) - 1
        /\ \A k \in 1 .. Len(q) - 1 : RemoveFrom(q, c)[k] = IF k < p THEN q[k] ELSE q[k + 1]
  BY SMTT(20), RemoveFromRight
<1> DEFINE r == RemoveFrom(q, c)
           n == Len(q)
<1>1. PICK p \in 1 .. n :
        /\ q[p] = c
        /\ r \in Seq(Cookie) /\ Len(r) = n - 1
        /\ \A k \in 1 .. n - 1 : r[k] = IF k < p THEN q[k] ELSE q[k + 1]
  BY <1>0
<1> HIDE DEF r
<1>2. n \in Nat
  OBVIOUS
<1>3. \A i, j \in 1 .. n : q[i].domain = d /\ (i # j => ~SameCookie(q[i], q[j]))
  BY DEF ListIsOf
<1> HIDE DEF n
<1> DEFINE at(k) == IF k < p THEN k ELSE k + 1
<1>4. \A k \in 1 .. n - 1 : at(k) \in 1 .. n /\ r[k] = q[at(k)]
  BY <1>1, <1>2
<1>5. \A i, j \in 1 .. n - 1 : i # j => at(i) # at(j)
  BY <1>1, <1>2
<1> HIDE DEF at
<1>6. \A i, j \in 1 .. n - 1 : r[i].domain = d /\ (i # j => ~SameCookie(r[i], r[j]))
  BY <1>3, <1>4, <1>5
<1> QED BY <1>1, <1>6 DEF ListIsOf, r

LEMMA RemovedFast ==
  ASSUME NEW q \in Seq(Cookie), NEW c, Among(q, c), Distinct(q)
  PROVE  /\ RemoveFast(q, c) \in Seq(Cookie) /\ Len(RemoveFast(q, c)) = Len(q) - 1
         /\ Distinct(RemoveFast(q, c))
         /\ \A e : Among(RemoveFast(q, c), e) <=> Among(q, e) /\ e # c
<1> DEFINE r == RemoveFast(q, c)
           n == Len(q)
<1>1. PICK p \in 1 .. n :
        /\ q[p] = c
        /\ r \in Seq(Cookie) /\ Len(r) = n - 1
        /\ \A k \in 1 .. n - 1 : r[k] = IF k = p THEN q[n] ELSE q[k]
  BY RemoveFastRight
<1> HIDE DEF r
<1>2. n \in Nat
  OBVIOUS
<1>3. \A i, j \in 1 .. n : q[i] = q[j] => i = j
  BY DEF Distinct
<1> HIDE DEF n
<1> DEFINE at(k) == IF k = p THEN n ELSE k
<1>4. \A k \in 1 .. n - 1 : at(k) \in 1 .. n /\ r[k] = q[at(k)] /\ at(k) # p
  BY <1>1, <1>2
<1>5. \A i, j \in 1 .. n - 1 : at(i) = at(j) => i = j
  BY <1>1, <1>2
<1>6. \A k \in 1 .. n : k # p => \E i \in 1 .. n - 1 : at(i) = k
  <2> SUFFICES ASSUME NEW k \in 1 .. n, k # p PROVE \E i \in 1 .. n - 1 : at(i) = k
    OBVIOUS
  <2>1. CASE k = n
    <3>1. p \in 1 .. n - 1 /\ at(p) = k
      BY <1>1, <1>2, <2>1
    <3> QED BY <3>1
  <2>2. CASE k # n
    <3>1. k \in 1 .. n - 1 /\ at(k) = k
      BY <1>1, <1>2, <2>2
    <3> QED BY <3>1
  <2> QED BY <2>1, <2>2
<1> HIDE DEF at
<1>7. \A i, j \in 1 .. n - 1 : r[i] = r[j] => i = j
  BY <1>3, <1>4, <1>5
<1>8. \A e : Among(r, e) <=> Among(q, e) /\ e # c
  <2>1. ASSUME NEW e, Among(r, e) PROVE Among(q, e) /\ e # c
    <3>1. PICK k \in 1 .. n - 1 : r[k] = e
      BY <1>1, <2>1 DEF Among
    <3>2. at(k) \in 1 .. n /\ q[at(k)] = e /\ at(k) # p
      BY <1>4, <3>1
    <3> QED BY <1>1, <1>3, <3>2 DEF Among, n
  <2>2. ASSUME NEW e, Among(q, e), e # c PROVE Among(r, e)
    <3>1. PICK k \in 1 .. n : q[k] = e
      BY <2>2 DEF Among, n
    <3>2. PICK i \in 1 .. n - 1 : at(i) = k
      BY <1>1, <1>6, <2>2, <3>1
    <3>3. r[i] = e
      BY <1>4, <3>1, <3>2
    <3> QED BY <1>1, <3>2, <3>3 DEF Among
  <2> QED BY <2>1, <2>2
<1> QED BY <1>1, <1>7, <1>8 DEF r, n, Distinct

\* A cookie of the store is in the list of its domain, which has a node.
LEMMA CookieHasNode ==
  ASSUME NEW s, NEW X, Sound(s, X), NEW c \in Cookie, Among(s.all, c)
  PROVE  /\ c.domain \in DOMAIN s.domains /\ c.domain \in CookieDomains
         /\ s.domains[c.domain] \in Seq(Cookie)
         /\ ListOf(s, c.domain) = s.domains[c.domain]
         /\ Among(s.domains[c.domain], c)
         /\ ListIsOf(s.domains[c.domain], c.domain)
<1>1. s \in Stores /\ Among(ListOf(s, c.domain), c)
  BY DEF Sound
<1>2. c.domain \in DOMAIN s.domains
  BY <1>1 DEF Among, ListOf, HasNode
<1>3. c.domain \in CookieDomains
  BY DEF Cookie, CookieRecords
<1> QED BY <1>1, <1>2, <1>3, StoreParts DEF ListOf, HasNode, Sound

\* Cookies_free_cookie and the removals before it.
LEMMA DropRight ==
  ASSUME NEW s, NEW X, Sound(s, X), NEW c \in Cookie, Among(s.all, c)
  PROVE  /\ Sound(Drop(s, c), X \cup {c.domain})
         /\ DOMAIN Drop(s, c).domains = DOMAIN s.domains
         /\ Len(Drop(s, c).all) = Len(s.all) - 1
         /\ \A d : ListOf(Drop(s, c), d) = IF d = c.domain THEN RemoveFrom(ListOf(s, d), c)
                                           ELSE ListOf(s, d)
         /\ Len(ListOf(Drop(s, c), c.domain)) = Len(ListOf(s, c.domain)) - 1
         /\ Fewer(Drop(s, c), s)
<1> DEFINE d == c.domain
           D == DOMAIN s.domains
           q == s.domains[d]
           t == Drop(s, c)
           f == [s.domains EXCEPT ![d] = RemoveFrom(q, c)]
           a == RemoveFast(s.all, c)
<1>1. /\ d \in D /\ d \in CookieDomains /\ q \in Seq(Cookie) /\ ListOf(s, d) = q
      /\ Among(q, c) /\ ListIsOf(q, d)
  BY CookieHasNode
<1>2. /\ s.all \in Seq(Cookie) /\ Len(s.all) \in Nat
      /\ D \subseteq CookieDomains
      /\ s.domains \in [D -> Seq(Cookie)]
      /\ s = [domains |-> s.domains, all |-> s.all]
      /\ \A e : ListOf(s, e) \in Seq(Cookie) /\ Len(ListOf(s, e)) \in Nat
  BY StoreParts DEF Sound
<1>3. /\ IsFiniteSet(D) /\ Distinct(s.all)
      /\ \A e \in Cookie : Among(s.all, e) <=> Among(ListOf(s, e.domain), e)
      /\ \A e \in D : ListIsOf(s.domains[e], e) /\ (s.domains[e] = <<>> => e \in X)
  BY DEF Sound
<1>4. t = [domains |-> f, all |-> a]
  BY DEF Drop
<1>5. /\ a \in Seq(Cookie) /\ Len(a) = Len(s.all) - 1 /\ Distinct(a)
      /\ \A e : Among(a, e) <=> Among(s.all, e) /\ e # c
  BY <1>2, <1>3, RemovedFast
<1>6. /\ RemoveFrom(q, c) \in Seq(Cookie) /\ Len(RemoveFrom(q, c)) = Len(q) - 1
      /\ \A e : Among(RemoveFrom(q, c), e) <=> Among(q, e) /\ e # c
      /\ ListIsOf(RemoveFrom(q, c), d)
  BY <1>1, RemovedFrom, ListShrinks, ListIsDistinct
<1>7. /\ f \in [D -> Seq(Cookie)] /\ f[d] = RemoveFrom(q, c)
      /\ \A e \in D : e # d => f[e] = s.domains[e]
      /\ DOMAIN f = D
  <2> HIDE DEF q
  <2> QED BY <1>1, <1>2, <1>6
<1> HIDE DEF t, f, a
<1>8. t.domains = f /\ t.all = a
  BY <1>4
<1>9. \A e : ListOf(t, e) = IF e = d THEN RemoveFrom(q, c) ELSE ListOf(s, e)
  BY <1>1, <1>7, <1>8 DEF ListOf, HasNode
<1>10. t \in Stores
  <2>1. D \in SUBSET CookieDomains
    BY <1>2
  <2> HIDE DEF D
  <2> QED BY <1>4, <1>5, <1>7, <2>1, StoreOf
<1>11. \A e \in Cookie : Among(t.all, e) <=> Among(ListOf(t, e.domain), e)
  <2> SUFFICES ASSUME NEW e \in Cookie
               PROVE  Among(a, e) <=> Among(ListOf(t, e.domain), e)
    BY <1>8
  <2>1. CASE e.domain = d
    <3>1. ListOf(t, e.domain) = RemoveFrom(q, c) /\ ListOf(s, e.domain) = q
      BY <1>1, <1>9, <2>1
    <3>2. Among(s.all, e) <=> Among(q, e)
      BY <1>3, <3>1
    <3> QED BY <1>5, <1>6, <3>1, <3>2
  <2>2. CASE e.domain # d
    <3>1. ListOf(t, e.domain) = ListOf(s, e.domain) /\ e # c
      BY <1>9, <2>2
    <3> QED BY <1>3, <1>5, <3>1
  <2> QED BY <2>1, <2>2
<1>12. \A e \in D : ListIsOf(f[e], e) /\ (f[e] = <<>> => e \in X \cup {d})
  BY <1>3, <1>6, <1>7
<1>13. Sound(t, X \cup {d})
  BY <1>3, <1>5, <1>7, <1>8, <1>10, <1>11, <1>12 DEF Sound
<1>14. Len(ListOf(t, d)) = Len(ListOf(s, d)) - 1
  BY <1>1, <1>6, <1>9
<1>15. Fewer(t, s)
  <2>1. Len(t.all) <= Len(s.all)
    BY <1>2, <1>5, <1>8
  <2>2. \A e : Len(ListOf(t, e)) <= Len(ListOf(s, e))
    <3> SUFFICES ASSUME NEW e PROVE Len(ListOf(t, e)) <= Len(ListOf(s, e))
      OBVIOUS
    <3>1. Len(ListOf(s, e)) \in Nat
      BY <1>2
    <3>2. CASE e = d
      BY <1>14, <3>1, <3>2
    <3>3. CASE e # d
      BY <1>9, <3>1, <3>3
    <3> QED BY <3>2, <3>3
  <2>3. \A e \in Cookie : Among(t.all, e) => Among(s.all, e)
    BY <1>5, <1>8
  <2> QED BY <2>1, <2>2, <2>3 DEF Fewer
<1>16. Len(t.all) = Len(s.all) - 1
  BY <1>5, <1>8
<1>17. \A e : ListOf(t, e) = IF e = d THEN RemoveFrom(ListOf(s, e), c) ELSE ListOf(s, e)
  BY <1>1, <1>9
<1> QED BY <1>7, <1>8, <1>13, <1>14, <1>15, <1>16, <1>17 DEF t

\* Cookies_delete_node
LEMMA DeleteRight ==
  ASSUME NEW s, NEW X, Sound(s, X), NEW d \in DOMAIN s.domains, s.domains[d] = <<>>
  PROVE  /\ Sound(DeleteNode(s, d), X \ {d})
         /\ DeleteNode(s, d).all = s.all
         /\ \A e : ListOf(DeleteNode(s, d), e) = ListOf(s, e)
<1> DEFINE D == DOMAIN s.domains
           t == DeleteNode(s, d)
           f == [e \in D \ {d} |-> s.domains[e]]
<1>1. /\ s.all \in Seq(Cookie) /\ D \subseteq CookieDomains
      /\ s.domains \in [D -> Seq(Cookie)]
      /\ s = [domains |-> s.domains, all |-> s.all]
  BY StoreParts DEF Sound
<1>2. /\ IsFiniteSet(D) /\ Distinct(s.all)
      /\ \A e \in Cookie : Among(s.all, e) <=> Among(ListOf(s, e.domain), e)
      /\ \A e \in D : ListIsOf(s.domains[e], e) /\ (s.domains[e] = <<>> => e \in X)
  BY DEF Sound
<1>3. t.domains = f /\ t.all = s.all /\ t = [domains |-> f, all |-> s.all]
  BY <1>1 DEF DeleteNode
<1>4. /\ f \in [D \ {d} -> Seq(Cookie)] /\ DOMAIN f = D \ {d}
      /\ \A e \in D \ {d} : f[e] = s.domains[e]
  BY <1>1
<1> HIDE DEF t, f
<1>5. t \in Stores
  <2>1. D \ {d} \in SUBSET CookieDomains
    BY <1>1
  <2> HIDE DEF D
  <2> QED BY <1>1, <1>3, <1>4, <2>1, StoreOf
<1>6. IsFiniteSet(D \ {d})
  BY <1>2, FS_RemoveElement
<1>7. \A e : ListOf(t, e) = ListOf(s, e)
  <2> SUFFICES ASSUME NEW e PROVE ListOf(t, e) = ListOf(s, e)
    OBVIOUS
  <2>1. CASE e = d
    BY <1>3, <1>4, <2>1 DEF ListOf, HasNode
  <2>2. CASE e # d
    BY <1>3, <1>4, <2>2 DEF ListOf, HasNode
  <2> QED BY <2>1, <2>2
<1>8. \A e \in Cookie : Among(t.all, e) <=> Among(ListOf(t, e.domain), e)
  BY <1>2, <1>3, <1>7
<1>9. \A e \in D \ {d} : ListIsOf(f[e], e) /\ (f[e] = <<>> => e \in X \ {d})
  BY <1>2, <1>4
<1>10. Sound(t, X \ {d})
  BY <1>2, <1>3, <1>4, <1>5, <1>6, <1>8, <1>9 DEF Sound
<1> QED BY <1>3, <1>7, <1>10 DEF t

\* Cookies_too_many, and a turn of Cookies_rm_expired_cookies.
LEMMA DropLastRight ==
  ASSUME NEW s, NEW X, Sound(s, X), NEW c \in Cookie, Among(s.all, c)
  PROVE  /\ Sound(DropLast(s, c), X)
         /\ Len(DropLast(s, c).all) = Len(s.all) - 1
         /\ \A d : ListOf(DropLast(s, c), d) = IF d = c.domain THEN RemoveFrom(ListOf(s, d), c)
                                               ELSE ListOf(s, d)
         /\ Len(ListOf(DropLast(s, c), c.domain)) = Len(ListOf(s, c.domain)) - 1
         /\ Fewer(DropLast(s, c), s)
<1> DEFINE t == Drop(s, c)
           u == DropLast(s, c)
           d == c.domain
<1>1. /\ Sound(t, X \cup {d})
      /\ d \in DOMAIN t.domains
      /\ Len(t.all) = Len(s.all) - 1
      /\ \A e : ListOf(t, e) = IF e = d THEN RemoveFrom(ListOf(s, e), c) ELSE ListOf(s, e)
      /\ Len(ListOf(t, d)) = Len(ListOf(s, d)) - 1
      /\ Fewer(t, s)
  <2>1. d \in DOMAIN s.domains
    BY CookieHasNode
  <2> QED BY <2>1, DropRight
<1>2. u = IF t.domains[d] = <<>> THEN DeleteNode(t, d) ELSE t
  BY DEF DropLast
<1> HIDE DEF t, u, d
<1>3. /\ Sound(u, X)
      /\ u.all = t.all
      /\ \A e : ListOf(u, e) = ListOf(t, e)
  <2>1. CASE t.domains[d] = <<>>
    <3>1. /\ Sound(DeleteNode(t, d), (X \cup {d}) \ {d})
          /\ DeleteNode(t, d).all = t.all
          /\ \A e : ListOf(DeleteNode(t, d), e) = ListOf(t, e)
      BY <1>1, <2>1, DeleteRight
    <3>2. Sound(DeleteNode(t, d), X)
      BY <3>1 DEF Sound
    <3> QED BY <1>2, <2>1, <3>1, <3>2
  <2>2. CASE t.domains[d] # <<>>
    <3>1. Sound(t, X)
      BY <1>1, <2>2 DEF Sound
    <3> QED BY <1>2, <2>2, <3>1
  <2> QED BY <2>1, <2>2
<1>4. Fewer(u, s)
  BY <1>1, <1>3 DEF Fewer
<1> QED BY <1>1, <1>3, <1>4 DEF t, u, d

LEMMA DropLastLeaves ==
  ASSUME NEW s, NEW X, Sound(s, X), NEW c \in Cookie, Among(s.all, c),
         NEW e \in Cookie, e # c, Among(s.all, e)
  PROVE  Among(DropLast(s, c).all, e)
<1> DEFINE u == DropLast(s, c)
           q == ListOf(s, e.domain)
<1>1. /\ Sound(u, X)
      /\ \A d : ListOf(u, d) = IF d = c.domain THEN RemoveFrom(ListOf(s, d), c) ELSE ListOf(s, d)
  BY DropLastRight
<1> HIDE DEF u
<1>2. /\ Among(q, e)
      /\ e.domain = c.domain => Among(q, c)
      /\ Among(u.all, e) <=> Among(ListOf(u, e.domain), e)
  BY <1>1 DEF Sound
<1>3. q \in Seq(Cookie) /\ Distinct(q)
  <2>1. q \in Seq(Cookie)
    BY StoreParts DEF Sound
  <2>2. ListIsOf(q, e.domain)
    BY CookieHasNode
  <2> QED BY <2>1, <2>2, ListIsDistinct
<1> HIDE DEF q
<1>4. CASE e.domain = c.domain
  <2>1. Among(RemoveFrom(q, c), e)
    BY <1>2, <1>3, <1>4, RemovedFrom
  <2> QED BY <1>1, <1>2, <1>4, <2>1 DEF q, u
<1>5. CASE e.domain # c.domain
  BY <1>1, <1>2, <1>5 DEF q, u
<1> QED BY <1>4, <1>5

\* Of the cookies of s, t has all that are live.
KeepsLive(t, s) == \A c \in Cookie : ~Expired(c) /\ Among(s.all, c) => Among(t.all, c)

LEMMA FewerFewer ==
  ASSUME NEW r \in Stores, NEW s \in Stores, NEW t \in Stores, Fewer(r, s), Fewer(s, t)
  PROVE  Fewer(r, t)
<1>1. /\ Len(r.all) \in Nat /\ Len(s.all) \in Nat /\ Len(t.all) \in Nat
      /\ \A d \in CookieDomains : /\ Len(ListOf(r, d)) \in Nat /\ Len(ListOf(s, d)) \in Nat
                                  /\ Len(ListOf(t, d)) \in Nat
  BY StoreParts
<1>2. Len(r.all) <= Len(t.all)
  BY <1>1 DEF Fewer
<1>3. ASSUME NEW d \in CookieDomains PROVE Len(ListOf(r, d)) <= Len(ListOf(t, d))
  <2>1. Len(ListOf(r, d)) <= Len(ListOf(s, d)) /\ Len(ListOf(s, d)) <= Len(ListOf(t, d))
    BY DEF Fewer
  <2> QED BY <1>1, <2>1
<1> QED BY <1>2, <1>3 DEF Fewer

LEMMA FewerSame ==
  ASSUME NEW s \in Stores
  PROVE  Fewer(s, s)
BY StoreParts DEF Fewer

LEMMA CookieOfList ==
  ASSUME NEW s, NEW X, Sound(s, X), NEW d, NEW i \in 1 .. Len(CookiesOf(s, d))
  PROVE  /\ CookiesOf(s, d)[i] \in Cookie
         /\ Among(s.all, CookiesOf(s, d)[i])
         /\ d # NoValue => CookiesOf(s, d)[i].domain = d
<1> DEFINE q == CookiesOf(s, d)
           c == q[i]
<1>1. s \in Stores
  BY DEF Sound
<1>2. q \in Seq(Cookie) /\ c \in Cookie
  <2>1. q \in Seq(Cookie)
    BY <1>1, StoreParts DEF CookiesOf
  <2> QED BY <2>1
<1>3. Among(q, c)
  BY DEF Among
<1>4. CASE d = NoValue
  BY <1>2, <1>3, <1>4 DEF CookiesOf
<1>5. CASE d # NoValue
  <2>1. q = ListOf(s, d)
    BY <1>5 DEF CookiesOf
  <2>2. d \in DOMAIN s.domains
    BY <2>1 DEF ListOf, HasNode
  <2>3. ListIsOf(q, d)
    BY <2>1, <2>2 DEF Sound, ListOf, HasNode
  <2>4. c.domain = d
    BY <2>3 DEF ListIsOf
  <2>5. Among(ListOf(s, c.domain), c)
    BY <1>3, <2>1, <2>4
  <2>6. Among(s.all, c)
    <3> HIDE DEF c
    <3> QED BY <1>2, <2>5 DEF Sound
  <2> QED BY <1>2, <2>4, <2>6
<1> QED BY <1>4, <1>5

\* A turn of the loop that removes expired cookies of a list of n.
Sweeping(s, X, d, k) ==
  {x \in [store : Stores, i : Nat] :
     /\ x.i >= 1 /\ Len(CookiesOf(x.store, d)) - x.i = Len(CookiesOf(s, d)) - k - 1
     /\ Sound(x.store, X) /\ Fewer(x.store, s) /\ KeepsLive(x.store, s)
     /\ x.store = s \/ Len(CookiesOf(x.store, d)) < Len(CookiesOf(s, d))}

LEMMA RmTurnRight ==
  ASSUME NEW s \in Stores, NEW X, NEW d, NEW k \in 1 .. Len(CookiesOf(s, d)),
         NEW y \in Sweeping(s, X, d, k - 1)
  PROVE  RmTurn(y, d) \in Sweeping(s, X, d, k)
<1> DEFINE n == Len(CookiesOf(s, d))
           st == y.store
           m == Len(CookiesOf(st, d))
           c == CookiesOf(st, d)[y.i]
<1>1. /\ y \in [store : Stores, i : Nat] /\ st \in Stores /\ y.i \in Nat
      /\ y.i >= 1 /\ m - y.i = n - (k - 1) - 1
      /\ Sound(st, X) /\ Fewer(st, s) /\ KeepsLive(st, s)
      /\ st = s \/ m < n
  BY DEF Sweeping
<1>2. n \in Nat /\ m \in Nat
  BY <1>1, StoreParts DEF CookiesOf
<1>3. y.i \in 1 .. m
  <2> HIDE DEF st, m
  <2>1. k \in Int /\ k <= n
    BY <1>2
  <2> HIDE DEF n
  <2> QED BY <1>1, <1>2, <2>1
<1>4. /\ c \in Cookie /\ Among(st.all, c) /\ (d # NoValue => c.domain = d)
  BY <1>1, <1>3, CookieOfList
<1> HIDE DEF c
<1>5. RmTurn(y, d) = IF Expired(c) THEN [y EXCEPT !.store = DropLast(st, c)]
                     ELSE [y EXCEPT !.i = y.i + 1]
  BY <1>1 DEF RmTurn, c
<1>6. CASE Expired(c)
  <2> DEFINE u == DropLast(st, c)
  <2>1. KeepsLive(u, s)
    <3> SUFFICES ASSUME NEW e \in Cookie, ~Expired(e), Among(s.all, e) PROVE Among(u.all, e)
      BY DEF KeepsLive
    <3>1. e # c /\ Among(st.all, e)
      BY <1>1, <1>6 DEF KeepsLive
    <3> QED BY <1>1, <1>4, <3>1, DropLastLeaves
  <2>2. /\ Sound(u, X) /\ Fewer(u, st)
        /\ Len(u.all) = Len(st.all) - 1
        /\ Len(ListOf(u, c.domain)) = Len(ListOf(st, c.domain)) - 1
    BY <1>1, <1>4, DropLastRight
  <2>3. Len(CookiesOf(u, d)) = m - 1
    BY <1>4, <2>2 DEF CookiesOf
  <2> HIDE DEF u
  <2>4. u \in Stores
    BY <2>2 DEF Sound
  <2>5. Fewer(u, s)
    BY <1>1, <2>2, <2>4, FewerFewer
  <2>6. RmTurn(y, d) = [store |-> u, i |-> y.i]
    BY <1>1, <1>5, <1>6 DEF u
  <2> HIDE DEF n, m, st
  <2>7. m - 1 - y.i = n - k - 1 /\ m - 1 < n
    <3>1. k \in Int /\ m <= n
      BY <1>1, <1>2 DEF n, m, st
    <3> QED BY <1>1, <1>2, <3>1
  <2>8. [store |-> u, i |-> y.i] \in [store : Stores, i : Nat]
    BY <1>1, <2>4
  <2> QED BY <1>1, <2>1, <2>2, <2>3, <2>5, <2>6, <2>7, <2>8 DEF Sweeping, n
<1>7. CASE ~Expired(c)
  <2>1. RmTurn(y, d) = [store |-> st, i |-> y.i + 1]
    BY <1>1, <1>5, <1>7
  <2>2. m - (y.i + 1) = n - k - 1 /\ y.i + 1 \in Nat /\ y.i + 1 >= 1
    <3>1. k \in Int
      OBVIOUS
    <3> HIDE DEF n, m, st
    <3> QED BY <1>1, <1>2, <3>1
  <2> HIDE DEF st
  <2> QED BY <1>1, <2>1, <2>2 DEF Sweeping
<1> QED BY <1>6, <1>7

\* Cookies_rm_expired_cookies
LEMMA RmExpiredRight ==
  ASSUME NEW s, NEW X, Sound(s, X), NEW d
  PROVE  /\ Sound(RmExpired(s, d), X) /\ Fewer(RmExpired(s, d), s)
         /\ KeepsLive(RmExpired(s, d), s)
         /\ \/ RmExpired(s, d) = s
            \/ Len(CookiesOf(RmExpired(s, d), d)) < Len(CookiesOf(s, d))
<1> DEFINE n == Len(CookiesOf(s, d))
           x == [store |-> s, i |-> 1]
           G == [k \in 0 .. n |-> Sweeping(s, X, d, k)]
           T == [k \in 1 .. n |-> [y \in Sweeping(s, X, d, k - 1) |-> RmTurn(y, d)]]
           loop == CHOOSE f : f = [k \in 0 .. n |-> IF k = 0 THEN x ELSE RmTurn(f[k - 1], d)]
<1>1. s \in Stores
  BY DEF Sound
<1>2. n \in Nat
  BY <1>1, StoreParts DEF CookiesOf
<1>3. RmExpired(s, d) = loop[n].store
  BY DEF RmExpired
<1> HIDE DEF loop
<1>4. \A k \in 1 .. n : k \in 0 .. n /\ k - 1 \in 0 .. n /\ k # 0
  <2> HIDE DEF n
  <2> QED BY <1>2
<1>5. x \in Sweeping(s, X, d, 0)
  <2>1. x \in [store : Stores, i : Nat] /\ x.i = 1 /\ x.store = s
    BY <1>1
  <2>2. n - 1 = n - 0 - 1
    BY <1>2
  <2> HIDE DEF x
  <2>3. KeepsLive(s, s)
    BY DEF KeepsLive
  <2> QED BY <1>1, <2>1, <2>2, <2>3, FewerSame DEF Sweeping
<1>6. 0 \in 0 .. n /\ n \in 0 .. n
  <2> HIDE DEF n
  <2> QED BY <1>2
<1>7. \A k \in 1 .. n : \A y \in Sweeping(s, X, d, k - 1) : RmTurn(y, d) \in Sweeping(s, X, d, k)
  BY <1>1, RmTurnRight
<1> HIDE DEF n, x
<1>8. /\ x \in G[0]
      /\ \A k \in 0 .. n : G[k] = Sweeping(s, X, d, k)
      /\ \A k \in 1 .. n : \A y \in Sweeping(s, X, d, k - 1) : T[k][y] = RmTurn(y, d)
  BY <1>5, <1>6
<1> HIDE DEF G, T
<1>9. \A k \in 1 .. n : \A y \in G[k - 1] : T[k][y] \in G[k]
  BY <1>4, <1>7, <1>8
<1>10. PICK f : Run(f, n, x, T, G)
  BY <1>2, <1>8, <1>9, LoopRuns
<1>11. \A k \in 1 .. n : f[k - 1] \in Sweeping(s, X, d, k - 1)
  BY <1>4, <1>8, <1>10 DEF Run
<1>12. f = [k \in 0 .. n |-> IF k = 0 THEN x ELSE RmTurn(f[k - 1], d)]
  <2>1. f = [k \in 0 .. n |-> IF k = 0 THEN x ELSE T[k][f[k - 1]]]
    BY <1>10 DEF Run
  <2>2. \A k \in 0 .. n : k # 0 => T[k][f[k - 1]] = RmTurn(f[k - 1], d)
    <3>1. \A k \in 0 .. n : k # 0 => k \in 1 .. n
      BY <1>2
    <3> QED BY <1>8, <1>11, <3>1
  <2> QED BY <2>1, <2>2
<1>13. loop = [k \in 0 .. n |-> IF k = 0 THEN x ELSE RmTurn(loop[k - 1], d)]
  BY <1>12 DEF loop
<1>14. \A k \in 0 .. n : loop[k] \in Sweeping(s, X, d, k)
  <2> DEFINE P == {k \in 0 .. n : loop[k] \in Sweeping(s, X, d, k)}
  <2>1. \A k : k \in P <=> k \in 0 .. n /\ loop[k] \in Sweeping(s, X, d, k)
    OBVIOUS
  <2> HIDE DEF P
  <2>2. 0 \in P
    BY <1>5, <1>6, <1>13, <2>1
  <2>3. \A k \in 1 .. n : k - 1 \in P => k \in P
    <3>1. \A k \in 1 .. n : loop[k] = RmTurn(loop[k - 1], d)
      BY <1>4, <1>13
    <3> QED BY <1>4, <1>7, <2>1, <3>1
  <2>4. \A k \in 0 .. n : k \in P
    BY <1>2, <2>2, <2>3, EveryTurn
  <2> QED BY <2>1, <2>4
<1> QED BY <1>3, <1>6, <1>14 DEF Sweeping, n

\* Cookies_get_LRU
LEMMA LRURight ==
  ASSUME NEW q \in Seq(Cookie), q # <<>>
  PROVE  LRU(q) \in Cookie /\ Among(q, LRU(q))
<1> DEFINE T == {i \in DOMAIN q : \A j \in DOMAIN q : q[i].lastUsed <= q[j].lastUsed}
           U == {q[i].lastUsed : i \in DOMAIN q}
<1>1. \A i \in DOMAIN q : q[i] \in Cookie /\ q[i].lastUsed \in Nat
  <2>1. \A e \in Cookie : e.lastUsed \in Nat
    BY DEF Cookie, CookieRecords
  <2>2. \A i \in DOMAIN q : q[i] \in Cookie
    OBVIOUS
  <2> QED BY <2>1, <2>2
<1>2. U \subseteq Nat /\ U # {}
  BY <1>1
<1>3. T \subseteq Nat /\ T # {}
  <2>1. PICK m \in U : \A y \in U : m <= y
    <3> HIDE DEF U
    <3> QED BY <1>2, LeastOf
  <2>2. PICK i \in DOMAIN q : q[i].lastUsed = m
    BY <2>1
  <2>3. i \in T
    BY <2>1, <2>2
  <2> QED BY SMTT(20), <2>3
<1>4. Min(T) \in T
  <2> HIDE DEF T
  <2> QED BY <1>3, LeastIs
<1>5. LRU(q) = q[Min(T)]
  BY DEF LRU
<1>6. Min(T) \in 1 .. Len(q)
  BY <1>4
<1> HIDE DEF T
<1> QED BY <1>1, <1>5, <1>6 DEF Among

\* A list of a store is of cookies of the store.
LEMMA Listed ==
  ASSUME NEW s, NEW X, Sound(s, X), NEW d \in CookieDomains, NEW c \in Cookie,
         Among(ListOf(s, d), c)
  PROVE  c.domain = d /\ Among(s.all, c)
<1> DEFINE q == ListOf(s, d)
<1>1. PICK i \in 1 .. Len(q) : q[i] = c
  BY DEF Among
<1>2. d # NoValue
  BY DEF CookieDomains
<1>3. CookiesOf(s, d) = q
  BY <1>2 DEF CookiesOf
<1> HIDE DEF q
<1> QED BY <1>1, <1>2, <1>3, CookieOfList

\* A list that is full has a cookie.
LEMMA FullIsNotEmpty ==
  ASSUME NEW q, NEW m \in Nat \ {0}, Len(q) \in Nat, ~(Len(q) < m)
  PROVE  q # <<>>
OBVIOUS

LEMMA MakeRoomRight ==
  ASSUME NEW s, NEW X, Sound(s, X), InLimits(s), NEW d \in CookieDomains
  PROVE  /\ Sound(MakeRoom(s, d), X) /\ Fewer(MakeRoom(s, d), s)
         /\ Len(ListOf(MakeRoom(s, d), d)) < MaxDomainCookies
<1> DEFINE n == Len(ListOf(s, d))
           t == RmExpired(s, d)
           c == LRU(ListOf(s, d))
<1>1. /\ s \in Stores /\ ListOf(s, d) \in Seq(Cookie) /\ n \in Nat /\ n <= MaxDomainCookies
      /\ MaxDomainCookies \in Nat \ {0}
  <2>1. s \in Stores
    BY DEF Sound
  <2> QED BY <2>1, StoreParts, LimitsAreNumbers DEF InLimits
<1>2. d # NoValue
  BY DEF CookieDomains
<1>3. CASE n < MaxDomainCookies
  BY <1>1, <1>3, FewerSame DEF MakeRoom
<1>4. CASE ~(n < MaxDomainCookies) /\ t = s
  <2>1. c \in Cookie /\ Among(ListOf(s, d), c)
    BY <1>1, <1>4, FullIsNotEmpty, LRURight
  <2> HIDE DEF c
  <2>2. c.domain = d /\ Among(s.all, c)
    BY <2>1, Listed
  <2>3. /\ Sound(DropLast(s, c), X) /\ Fewer(DropLast(s, c), s)
        /\ Len(ListOf(DropLast(s, c), d)) = n - 1
    BY <2>1, <2>2, DropLastRight
  <2>4. MakeRoom(s, d) = DropLast(s, c)
    BY <1>4 DEF MakeRoom, c
  <2> HIDE DEF n
  <2> QED BY <1>1, <2>3, <2>4
<1>5. CASE ~(n < MaxDomainCookies) /\ t # s
  <2>1. /\ Sound(t, X) /\ Fewer(t, s)
        /\ t = s \/ Len(CookiesOf(t, d)) < Len(CookiesOf(s, d))
    BY RmExpiredRight
  <2>2. Len(ListOf(t, d)) < n
    BY <1>2, <1>5, <2>1 DEF CookiesOf
  <2>3. MakeRoom(s, d) = t
    BY <1>5 DEF MakeRoom
  <2>4. Len(ListOf(t, d)) \in Nat
    BY <2>1, StoreParts DEF Sound
  <2> HIDE DEF n, t
  <2> QED BY <1>1, <2>1, <2>2, <2>3, <2>4
<1> QED BY <1>3, <1>4, <1>5

LEMMA MakeRoomInAllRight ==
  ASSUME NEW s, NEW X, Sound(s, X), InLimits(s)
  PROVE  /\ Sound(MakeRoomInAll(s), X) /\ Fewer(MakeRoomInAll(s), s)
         /\ Len(MakeRoomInAll(s).all) < MaxTotalCookies
<1> DEFINE n == Len(s.all)
           t == RmExpired(s, NoValue)
           c == LRU(s.all)
<1>1. /\ s \in Stores /\ s.all \in Seq(Cookie) /\ n \in Nat /\ n <= MaxTotalCookies
      /\ MaxTotalCookies \in Nat \ {0}
  <2>1. s \in Stores
    BY DEF Sound
  <2> QED BY <2>1, StoreParts, LimitsAreNumbers DEF InLimits
<1>2. CASE n < MaxTotalCookies
  BY <1>1, <1>2, FewerSame DEF MakeRoomInAll
<1>3. CASE ~(n < MaxTotalCookies) /\ t = s
  <2>1. c \in Cookie /\ Among(s.all, c)
    BY <1>1, <1>3, FullIsNotEmpty, LRURight
  <2> HIDE DEF c
  <2>2. /\ Sound(DropLast(s, c), X) /\ Fewer(DropLast(s, c), s)
        /\ Len(DropLast(s, c).all) = n - 1
    BY <2>1, DropLastRight
  <2>3. MakeRoomInAll(s) = DropLast(s, c)
    BY <1>3 DEF MakeRoomInAll, c
  <2> HIDE DEF n
  <2> QED BY <1>1, <2>2, <2>3
<1>4. CASE ~(n < MaxTotalCookies) /\ t # s
  <2>1. /\ Sound(t, X) /\ Fewer(t, s)
        /\ t = s \/ Len(CookiesOf(t, NoValue)) < Len(CookiesOf(s, NoValue))
    BY RmExpiredRight
  <2>2. Len(t.all) < n
    BY <1>4, <2>1 DEF CookiesOf
  <2>3. MakeRoomInAll(s) = t
    BY <1>4 DEF MakeRoomInAll
  <2>4. Len(t.all) \in Nat
    BY <2>1, StoreParts DEF Sound
  <2> HIDE DEF n, t
  <2> QED BY <1>1, <2>1, <2>2, <2>3, <2>4
<1> QED BY <1>2, <1>3, <1>4

NoneSame(s, c) ==
  \A i \in 1 .. Len(ListOf(s, c.domain)) : ~SameCookie(ListOf(s, c.domain)[i], c)

\* After k turns of the loop that removes the cookies c replaces in s.
Replacing(s, c, k) ==
  {x \in Stores : /\ Sound(x, {c.domain}) /\ Fewer(x, s)
                  /\ \/ NoneSame(x, c)
                     \/ Len(ListOf(x, c.domain)) <= Len(ListOf(s, c.domain)) - k}

LEMMA ReplaceTurnRight ==
  ASSUME NEW s \in Stores, NEW c \in Cookie, NEW k \in 1 .. Len(ListOf(s, c.domain)),
         NEW y \in Replacing(s, c, k - 1)
  PROVE  ReplaceTurn(y, c) \in Replacing(s, c, k)
<1> DEFINE d == c.domain
           q == ListOf(y, d)
           same == {i \in DOMAIN q : SameCookie(q[i], c)}
           e == q[Min(same)]
<1>1. /\ y \in Stores /\ Sound(y, {d}) /\ Fewer(y, s)
      /\ NoneSame(y, c) \/ Len(q) <= Len(ListOf(s, d)) - (k - 1)
  BY DEF Replacing
<1>2. /\ q \in Seq(Cookie) /\ Len(q) \in Nat /\ Len(ListOf(s, d)) \in Nat
  BY <1>1, StoreParts
<1>3. d \in CookieDomains /\ d # NoValue
  <2>1. d \in CookieDomains
    BY DEF Cookie, CookieRecords
  <2> HIDE DEF d
  <2> QED BY <2>1 DEF CookieDomains
<1>4. ReplaceTurn(y, c) = IF same = {} THEN y ELSE Drop(y, e)
  BY DEF ReplaceTurn
<1>5. CASE same = {}
  <2>1. DOMAIN q = 1 .. Len(q)
    BY <1>2
  <2>2. NoneSame(y, c)
    BY <1>5, <2>1 DEF NoneSame
  <2> QED BY <1>1, <1>4, <1>5, <2>2 DEF Replacing
<1>6. CASE same # {}
  <2>1. same \subseteq Nat /\ same \subseteq 1 .. Len(q)
    BY <1>2
  <2>2. \A i \in same : SameCookie(q[i], c)
    OBVIOUS
  <2> HIDE DEF same
  <2>3. Min(same) \in same
    BY <1>6, <2>1, LeastIs
  <2>4. e \in Cookie /\ Among(q, e) /\ SameCookie(e, c)
    <3> DEFINE m == Min(same)
    <3>1. m \in 1 .. Len(q) /\ SameCookie(q[m], c)
      BY <2>1, <2>2, <2>3
    <3> HIDE DEF m, q
    <3>2. q[m] \in Cookie
      BY <1>2, <3>1
    <3>3. Among(q, q[m])
      BY <3>1 DEF Among
    <3> QED BY <3>1, <3>2, <3>3 DEF m
  <2> HIDE DEF e
  <2>5. e.domain = d /\ Among(y.all, e)
    BY <1>1, <1>3, <2>4, Listed
  <2> DEFINE t == Drop(y, e)
  <2>6. /\ Sound(t, {d} \cup {d}) /\ Fewer(t, y)
        /\ Len(ListOf(t, d)) = Len(q) - 1
    BY <1>1, <2>4, <2>5, DropRight
  <2>7. ReplaceTurn(y, c) = t
    BY <1>4, <1>6
  <2> HIDE DEF t
  <2>8. Sound(t, {d}) /\ t \in Stores
    BY <2>6 DEF Sound
  <2>9. Fewer(t, s)
    BY <1>1, <2>6, <2>8, FewerFewer
  <2>10. ~NoneSame(y, c)
    BY <2>4 DEF NoneSame, Among
  <2>11. Len(ListOf(t, d)) <= Len(ListOf(s, d)) - k
    <3> DEFINE m == Len(ListOf(s, d))
    <3>1. Len(q) <= m - (k - 1)
      BY <1>1, <2>10
    <3>2. k \in Int /\ m \in Nat
      BY <1>2
    <3> HIDE DEF m, q
    <3>3. Len(q) - 1 <= m - k
      BY <1>2, <3>1, <3>2
    <3> QED BY <2>6, <3>3 DEF m
  <2> QED BY <2>7, <2>8, <2>9, <2>11 DEF Replacing
<1> QED BY <1>5, <1>6

LEMMA ReplacedRight ==
  ASSUME NEW s, Sound(s, {}), NEW c \in Cookie
  PROVE  /\ Sound(Replaced(s, c), {c.domain}) /\ Fewer(Replaced(s, c), s)
         /\ NoneSame(Replaced(s, c), c)
<1> DEFINE n == Len(ListOf(s, c.domain))
           G == [k \in 0 .. n |-> Replacing(s, c, k)]
           T == [k \in 1 .. n |-> [y \in Replacing(s, c, k - 1) |-> ReplaceTurn(y, c)]]
           loop == CHOOSE f : f = [k \in 0 .. n |-> IF k = 0 THEN s ELSE ReplaceTurn(f[k - 1], c)]
<1>1. s \in Stores /\ Sound(s, {c.domain})
  BY DEF Sound
<1>2. n \in Nat
  BY <1>1, StoreParts
<1>3. Replaced(s, c) = loop[n]
  BY DEF Replaced
<1> HIDE DEF loop
<1>4. \A k \in 1 .. n : k \in 0 .. n /\ k - 1 \in 0 .. n /\ k # 0
  <2> HIDE DEF n
  <2> QED BY <1>2
<1>5. s \in Replacing(s, c, 0)
  BY <1>1, <1>2, FewerSame DEF Replacing
<1>6. 0 \in 0 .. n /\ n \in 0 .. n
  <2> HIDE DEF n
  <2> QED BY <1>2
<1>7. \A k \in 1 .. n : \A y \in Replacing(s, c, k - 1) : ReplaceTurn(y, c) \in Replacing(s, c, k)
  BY <1>1, ReplaceTurnRight
<1> HIDE DEF n
<1>8. /\ s \in G[0]
      /\ \A k \in 0 .. n : G[k] = Replacing(s, c, k)
      /\ \A k \in 1 .. n : \A y \in Replacing(s, c, k - 1) : T[k][y] = ReplaceTurn(y, c)
  BY <1>5, <1>6
<1> HIDE DEF G, T
<1>9. \A k \in 1 .. n : \A y \in G[k - 1] : T[k][y] \in G[k]
  BY <1>4, <1>7, <1>8
<1>10. PICK f : Run(f, n, s, T, G)
  BY <1>2, <1>8, <1>9, LoopRuns
<1>11. f = [k \in 0 .. n |-> IF k = 0 THEN s ELSE ReplaceTurn(f[k - 1], c)]
  <2>1. f = [k \in 0 .. n |-> IF k = 0 THEN s ELSE T[k][f[k - 1]]]
    BY <1>10 DEF Run
  <2>2. \A k \in 0 .. n : k # 0 => T[k][f[k - 1]] = ReplaceTurn(f[k - 1], c)
    <3>1. \A k \in 0 .. n : k # 0 => k \in 1 .. n
      BY <1>2
    <3>2. \A k \in 1 .. n : f[k - 1] \in Replacing(s, c, k - 1)
      BY <1>4, <1>8, <1>10 DEF Run
    <3> QED BY <1>8, <3>1, <3>2
  <2> QED BY <2>1, <2>2
<1>12. loop = [k \in 0 .. n |-> IF k = 0 THEN s ELSE ReplaceTurn(loop[k - 1], c)]
  BY <1>11 DEF loop
<1>13. \A k \in 0 .. n : loop[k] \in G[k]
  <2>1. loop[0] = s /\ \A k \in 1 .. n : loop[k] = ReplaceTurn(loop[k - 1], c)
    BY <1>4, <1>6, <1>12
  <2>2. \A k \in 1 .. n : loop[k - 1] \in G[k - 1] => loop[k] = T[k][loop[k - 1]]
    BY <1>4, <1>8, <2>1
  <2>3. Follows(loop, n, s, T, G)
    BY <2>1, <2>2 DEF Follows
  <2> QED BY <1>2, <1>8, <1>9, <2>3, LoopStays
<1>14. loop[n] \in Replacing(s, c, n)
  BY <1>6, <1>8, <1>13
<1>15. /\ Sound(loop[n], {c.domain}) /\ Fewer(loop[n], s)
       /\ NoneSame(loop[n], c) \/ Len(ListOf(loop[n], c.domain)) <= n - n
  BY <1>14 DEF Replacing, n
<1>16. NoneSame(loop[n], c)
  <2>1. Len(ListOf(loop[n], c.domain)) \in Nat
    BY <1>15, StoreParts DEF Sound
  <2> QED BY <1>2, <1>15, <2>1 DEF NoneSame
<1> QED BY <1>3, <1>15, <1>16

LEMMA FewerInLimits ==
  ASSUME NEW t \in Stores, NEW s \in Stores, Fewer(t, s), InLimits(s)
  PROVE  InLimits(t)
<1>1. /\ Len(t.all) \in Nat /\ Len(s.all) \in Nat
      /\ \A d : Len(ListOf(t, d)) \in Nat /\ Len(ListOf(s, d)) \in Nat
      /\ MaxTotalCookies \in Nat /\ MaxDomainCookies \in Nat
  BY StoreParts, LimitsAreNumbers
<1>2. Len(t.all) <= MaxTotalCookies
  BY <1>1 DEF Fewer, InLimits
<1>3. ASSUME NEW d \in CookieDomains PROVE Len(ListOf(t, d)) <= MaxDomainCookies
  <2>1. Len(ListOf(t, d)) <= Len(ListOf(s, d)) /\ Len(ListOf(s, d)) <= MaxDomainCookies
    BY DEF Fewer, InLimits
  <2> QED BY <1>1, <2>1
<1> QED BY <1>2, <1>3 DEF InLimits

LEMMA AppendedRight ==
  ASSUME NEW q \in Seq(Cookie), NEW c \in Cookie
  PROVE  /\ Append(q, c) \in Seq(Cookie) /\ Len(Append(q, c)) = Len(q) + 1
         /\ Append(q, c) # <<>>
         /\ \A i \in 1 .. Len(q) : Append(q, c)[i] = q[i]
         /\ Append(q, c)[Len(q) + 1] = c
         /\ \A i \in 1 .. Len(q) + 1 : i \in 1 .. Len(q) \/ i = Len(q) + 1
         /\ \A e : Among(Append(q, c), e) <=> Among(q, e) \/ e = c
<1> DEFINE r == Append(q, c)
           n == Len(q)
<1>1. /\ r \in Seq(Cookie) /\ Len(r) = n + 1 /\ n \in Nat
      /\ \A i \in 1 .. n : r[i] = q[i]
      /\ r[n + 1] = c
  OBVIOUS
<1>2. r # <<>>
  BY <1>1
<1> HIDE DEF r
<1>3. \A i \in 1 .. n + 1 : i \in 1 .. n \/ i = n + 1
  BY <1>1
<1>4. ASSUME NEW e PROVE Among(r, e) <=> Among(q, e) \/ e = c
  <2>1. ASSUME Among(r, e) PROVE Among(q, e) \/ e = c
    <3>1. PICK i \in 1 .. n + 1 : r[i] = e
      BY <1>1, <2>1 DEF Among
    <3> QED BY <1>1, <1>3, <3>1 DEF Among
  <2>2. ASSUME Among(q, e) PROVE Among(r, e)
    <3>1. PICK i \in 1 .. n : q[i] = e
      BY <2>2 DEF Among
    <3>2. i \in 1 .. n + 1 /\ r[i] = e
      BY <1>1, <3>1
    <3> QED BY <1>1, <3>2 DEF Among
  <2>3. Among(r, c)
    <3>1. n + 1 \in 1 .. n + 1
      BY <1>1
    <3> QED BY <1>1, <3>1 DEF Among
  <2> QED BY <2>1, <2>2, <2>3
<1> QED BY <1>1, <1>2, <1>3, <1>4 DEF r

\* A cookie like no other of its domain.
LEMMA AddedRight ==
  ASSUME NEW s, NEW c \in Cookie, Sound(s, {c.domain}), InLimits(s), NoneSame(s, c),
         Len(ListOf(s, c.domain)) < MaxDomainCookies, Len(s.all) < MaxTotalCookies
  PROVE  Sound(Added(s, c), {}) /\ InLimits(Added(s, c))
<1> DEFINE d == c.domain
           D == DOMAIN s.domains
           q == ListOf(s, d)
           p == Append(q, c)
           a == Append(s.all, c)
           f == [e \in D \cup {d} |-> IF e = d THEN Append(ListOf(s, e), c) ELSE s.domains[e]]
           t == Added(s, c)
<1>1. /\ s \in Stores /\ IsFiniteSet(D) /\ Distinct(s.all)
      /\ \A e \in Cookie : Among(s.all, e) <=> Among(ListOf(s, e.domain), e)
      /\ \A e \in D : ListIsOf(s.domains[e], e) /\ (s.domains[e] = <<>> => e \in {d})
  BY DEF Sound
<1>2. /\ s.all \in Seq(Cookie) /\ Len(s.all) \in Nat
      /\ D \subseteq CookieDomains
      /\ s.domains \in [D -> Seq(Cookie)]
      /\ \A e : ListOf(s, e) \in Seq(Cookie) /\ Len(ListOf(s, e)) \in Nat
  BY <1>1, StoreParts
<1>3. /\ p \in Seq(Cookie) /\ Len(p) = Len(q) + 1 /\ p # <<>>
      /\ \A i \in 1 .. Len(q) : p[i] = q[i]
      /\ p[Len(q) + 1] = c
      /\ \A i \in 1 .. Len(q) + 1 : i \in 1 .. Len(q) \/ i = Len(q) + 1
      /\ \A e : Among(p, e) <=> Among(q, e) \/ e = c
  BY <1>2, AppendedRight
<1>4. /\ a \in Seq(Cookie) /\ Len(a) = Len(s.all) + 1
      /\ \A i \in 1 .. Len(s.all) : a[i] = s.all[i]
      /\ a[Len(s.all) + 1] = c
      /\ \A i \in 1 .. Len(s.all) + 1 : i \in 1 .. Len(s.all) \/ i = Len(s.all) + 1
      /\ \A e : Among(a, e) <=> Among(s.all, e) \/ e = c
  BY <1>2, AppendedRight
<1>5. t = [domains |-> f, all |-> a]
  BY DEF Added
<1>6. d \in CookieDomains
  BY DEF Cookie, CookieRecords
<1>7. /\ f \in [D \cup {d} -> Seq(Cookie)] /\ DOMAIN f = D \cup {d}
      /\ f[d] = p /\ \A e \in D : e # d => f[e] = s.domains[e]
  <2> HIDE DEF d
  <2> QED BY <1>2, <1>3
<1> HIDE DEF t, f, a, p
<1>8. t.domains = f /\ t.all = a
  BY <1>5
<1>9. t \in Stores
  <2>1. D \cup {d} \in SUBSET CookieDomains
    BY <1>2, <1>6
  <2> HIDE DEF D, d
  <2> QED BY <1>4, <1>5, <1>7, <2>1, StoreOf
<1>10. IsFiniteSet(D \cup {d})
  BY <1>1, FS_AddElement
<1>11. \A e : ListOf(t, e) = IF e = d THEN p ELSE ListOf(s, e)
  BY <1>7, <1>8 DEF ListOf, HasNode
<1>12. ~Among(q, c)
  BY DEF NoneSame, Among, SameCookie
<1>13. ~Among(s.all, c)
  BY <1>1, <1>12
<1>14. Distinct(a)
  <2> DEFINE n == Len(s.all)
  <2>1. \A i, j \in 1 .. n : s.all[i] = s.all[j] => i = j
    BY <1>1 DEF Distinct
  <2>2. \A i \in 1 .. n : a[i] = s.all[i] /\ a[i] # c
    BY <1>4, <1>13 DEF Among
  <2>3. /\ n \in Nat /\ Len(a) = n + 1 /\ a[n + 1] = c
        /\ \A i \in 1 .. n + 1 : i \in 1 .. n \/ i = n + 1
    BY <1>2, <1>4
  <2> HIDE DEF n
  <2>4. \A i, j \in 1 .. n + 1 : a[i] = a[j] => i = j
    BY <2>1, <2>2, <2>3
  <2> QED BY <2>3, <2>4 DEF Distinct
<1>15. ListIsOf(p, d)
  <2> DEFINE n == Len(q)
  <2>1. \A i, j \in 1 .. n : q[i].domain = d /\ (i # j => ~SameCookie(q[i], q[j]))
    <3>1. CASE d \in D
      <4>1. ListIsOf(q, d)
        BY <1>1, <3>1 DEF ListOf, HasNode
      <4> QED BY <4>1 DEF ListIsOf
    <3>2. CASE d \notin D
      <4>1. q = <<>>
        BY <3>2 DEF ListOf, HasNode
      <4> HIDE DEF q
      <4> QED BY <4>1
    <3> QED BY <3>1, <3>2
  <2>2. \A i \in 1 .. n : p[i] = q[i] /\ ~SameCookie(q[i], c)
    BY <1>3 DEF NoneSame
  <2>3. \A e : SameCookie(c, e) <=> SameCookie(e, c)
    BY DEF SameCookie
  <2>4. /\ Len(p) = n + 1 /\ p[n + 1] = c
        /\ \A i \in 1 .. n + 1 : i \in 1 .. n \/ i = n + 1
    BY <1>3
  <2> HIDE DEF n, q
  <2>5. \A i, j \in 1 .. n + 1 : p[i].domain = d /\ (i # j => ~SameCookie(p[i], p[j]))
    BY <2>1, <2>2, <2>3, <2>4
  <2> QED BY <2>4, <2>5 DEF ListIsOf
<1>16. \A e \in D \cup {d} : ListIsOf(f[e], e) /\ (f[e] = <<>> => e \in {})
  BY <1>1, <1>3, <1>7, <1>15
<1>17. \A e \in Cookie : Among(t.all, e) <=> Among(ListOf(t, e.domain), e)
  <2> SUFFICES ASSUME NEW e \in Cookie PROVE Among(a, e) <=> Among(ListOf(t, e.domain), e)
    BY <1>8
  <2>1. CASE e.domain = d
    <3>1. ListOf(t, e.domain) = p
      BY <1>11, <2>1
    <3>2. Among(s.all, e) <=> Among(q, e)
      BY <1>1, <2>1
    <3> QED BY <1>3, <1>4, <3>1, <3>2
  <2>2. CASE e.domain # d
    <3>1. ListOf(t, e.domain) = ListOf(s, e.domain) /\ e # c
      BY <1>11, <2>2
    <3> QED BY <1>1, <1>4, <3>1
  <2> QED BY <2>1, <2>2
<1>18. Sound(t, {})
  BY <1>7, <1>8, <1>9, <1>10, <1>14, <1>16, <1>17 DEF Sound
<1>19. InLimits(t)
  <2>1. MaxDomainCookies \in Nat /\ MaxTotalCookies \in Nat
    BY LimitsAreNumbers
  <2>2. Len(t.all) <= MaxTotalCookies
    BY <1>2, <1>4, <1>8, <2>1
  <2>3. Len(p) <= MaxDomainCookies
    <3>1. Len(q) \in Nat /\ Len(p) = Len(q) + 1
      BY <1>2, <1>3
    <3> HIDE DEF q
    <3> QED BY <2>1, <3>1 DEF q
  <2>4. \A e \in CookieDomains : Len(ListOf(t, e)) <= MaxDomainCookies
    BY <1>11, <2>3 DEF InLimits
  <2> QED BY <2>2, <2>4 DEF InLimits
<1> QED BY <1>18, <1>19 DEF t

\* Cookies_add_cookie
LEMMA AddCookieRight ==
  ASSUME NEW s, Sound(s, {}), InLimits(s), NEW c \in Cookie
  PROVE  Sound(AddCookie(s, c), {}) /\ InLimits(AddCookie(s, c))
<1> DEFINE d == c.domain
           r == Replaced(s, c)
           m == MakeRoom(r, d)
           room == MakeRoomInAll(m)
<1>1. /\ Sound(r, {d}) /\ Fewer(r, s) /\ NoneSame(r, c)
  BY ReplacedRight
<1>2. r \in Stores /\ s \in Stores
  BY <1>1 DEF Sound
<1>3. InLimits(r)
  BY <1>1, <1>2, FewerInLimits
<1>4. d \in CookieDomains
  BY DEF Cookie, CookieRecords
<1>5. AddCookie(s, c) = IF c.expires <= time THEN PruneNode(r, d) ELSE Added(room, c)
  BY DEF AddCookie
<1> HIDE DEF r
<1>6. CASE c.expires <= time
  <2>1. CASE d \in DOMAIN r.domains /\ r.domains[d] = <<>>
    <3>1. /\ Sound(DeleteNode(r, d), {d} \ {d})
          /\ DeleteNode(r, d).all = r.all
          /\ \A e : ListOf(DeleteNode(r, d), e) = ListOf(r, e)
      BY <1>1, <2>1, DeleteRight
    <3>2. PruneNode(r, d) = DeleteNode(r, d)
      BY <2>1 DEF PruneNode, HasNode
    <3>3. Sound(DeleteNode(r, d), {})
      BY <3>1 DEF Sound
    <3>4. InLimits(DeleteNode(r, d))
      BY <1>3, <3>1 DEF InLimits
    <3> QED BY <1>5, <1>6, <3>2, <3>3, <3>4
  <2>2. CASE ~(d \in DOMAIN r.domains /\ r.domains[d] = <<>>)
    <3>1. PruneNode(r, d) = r
      BY <2>2 DEF PruneNode, HasNode
    <3>2. Sound(r, {})
      BY <1>1, <2>2 DEF Sound
    <3> QED BY <1>3, <1>5, <1>6, <3>1, <3>2
  <2> QED BY <2>1, <2>2
<1>7. CASE ~(c.expires <= time)
  <2>1. /\ Sound(m, {d}) /\ Fewer(m, r) /\ Len(ListOf(m, d)) < MaxDomainCookies
    BY <1>1, <1>3, <1>4, MakeRoomRight
  <2> HIDE DEF m
  <2>2. m \in Stores
    BY <2>1 DEF Sound
  <2>3. InLimits(m)
    BY <1>2, <1>3, <2>1, <2>2, FewerInLimits
  <2>4. /\ Sound(room, {d}) /\ Fewer(room, m) /\ Len(room.all) < MaxTotalCookies
    BY <2>1, <2>3, MakeRoomInAllRight
  <2> HIDE DEF room
  <2>5. room \in Stores
    BY <2>4 DEF Sound
  <2>6. InLimits(room) /\ Fewer(room, r)
    BY <1>2, <2>1, <2>2, <2>3, <2>4, <2>5, FewerInLimits, FewerFewer
  <2>7. Len(ListOf(room, d)) < MaxDomainCookies
    <3>1. Len(ListOf(room, d)) <= Len(ListOf(m, d))
      BY <1>4, <2>4 DEF Fewer
    <3>2. Len(ListOf(room, d)) \in Nat /\ Len(ListOf(m, d)) \in Nat /\ MaxDomainCookies \in Nat
      BY <2>2, <2>5, StoreParts, LimitsAreNumbers
    <3> QED BY <2>1, <3>1, <3>2
  <2>8. NoneSame(room, c)
    <3> SUFFICES ASSUME NEW i \in 1 .. Len(ListOf(room, d))
                 PROVE  ~SameCookie(ListOf(room, d)[i], c)
      BY DEF NoneSame
    <3> DEFINE e == ListOf(room, d)[i]
    <3>1. ListOf(room, d) \in Seq(Cookie)
      BY <2>5, StoreParts
    <3>2. e \in Cookie /\ Among(ListOf(room, d), e)
      BY <3>1 DEF Among
    <3> HIDE DEF e
    <3>3. e.domain = d /\ Among(room.all, e)
      BY <1>4, <2>4, <3>2, Listed
    <3>4. Among(r.all, e)
      BY <2>6, <3>2, <3>3 DEF Fewer
    <3>5. Among(ListOf(r, d), e)
      BY <1>1, <3>2, <3>3, <3>4 DEF Sound
    <3>6. ~SameCookie(e, c)
      BY <1>1, <3>5 DEF NoneSame, Among
    <3> QED BY <3>6 DEF e
  <2>9. Sound(Added(room, c), {}) /\ InLimits(Added(room, c))
    BY <2>4, <2>6, <2>7, <2>8, AddedRight
  <2> QED BY <1>5, <1>7, <2>9 DEF room, m
<1> QED BY <1>6, <1>7

GoodStores == {x \in Stores : Sound(x, {}) /\ InLimits(x)}

\* What the sweeps of Cookies_get may make of the store s: nothing live is lost.
SweptOf(s) == {x \in GoodStores : Fewer(x, s) /\ KeepsLive(x, s)}

\* The loop of Cookies_get over the domains of the host.
LEMMA SweptRight ==
  ASSUME Store \in GoodStores, NEW ls, Len(ls) \in Nat
  PROVE  \A k \in 0 .. Len(ls) : Swept(ls)[k] \in SweptOf(Store)
<1> DEFINE n == Len(ls)
           s == Store
           G == [k \in 0 .. n |-> SweptOf(s)]
           T == [k \in 1 .. n |-> [y \in SweptOf(s) |-> RmExpired(y, ls[k].d)]]
           loop == CHOOSE f : f = [k \in 0 .. n |-> IF k = 0 THEN s ELSE RmExpired(f[k - 1], ls[k].d)]
<1>1. Swept(ls) = loop
  BY DEF Swept
<1> HIDE DEF loop
<1>2. /\ \A k \in 1 .. n : k \in 0 .. n /\ k - 1 \in 0 .. n /\ k # 0
      /\ n \in Nat /\ 0 \in 0 .. n /\ n \in 0 .. n
  <2> HIDE DEF n
  <2> QED BY DEF n
<1>3. \A k \in 1 .. n : \A y \in SweptOf(s) : RmExpired(y, ls[k].d) \in SweptOf(s)
  <2> SUFFICES ASSUME NEW d, NEW y \in SweptOf(s) PROVE RmExpired(y, d) \in SweptOf(s)
    OBVIOUS
  <2>1. /\ Sound(y, {}) /\ InLimits(y) /\ y \in Stores /\ s \in Stores
        /\ Fewer(y, s) /\ KeepsLive(y, s)
    BY DEF GoodStores, SweptOf
  <2>2. /\ Sound(RmExpired(y, d), {}) /\ Fewer(RmExpired(y, d), y)
        /\ KeepsLive(RmExpired(y, d), y)
    BY <2>1, RmExpiredRight
  <2>3. RmExpired(y, d) \in Stores
    BY <2>2 DEF Sound
  <2>4. Fewer(RmExpired(y, d), s)
    BY <2>1, <2>2, <2>3, FewerFewer
  <2>5. KeepsLive(RmExpired(y, d), s)
    BY <2>1, <2>2 DEF KeepsLive
  <2>6. RmExpired(y, d) \in GoodStores
    BY <2>1, <2>2, <2>3, FewerInLimits DEF GoodStores
  <2> QED BY <2>4, <2>5, <2>6 DEF SweptOf
<1>4. s \in SweptOf(s)
  BY FewerSame DEF SweptOf, GoodStores, KeepsLive
<1> HIDE DEF n, s
<1>5. /\ s \in G[0]
      /\ \A k \in 0 .. n : G[k] = SweptOf(s)
      /\ \A k \in 1 .. n : \A y \in SweptOf(s) : T[k][y] = RmExpired(y, ls[k].d)
  BY <1>2, <1>4
<1> HIDE DEF G, T
<1>6. \A k \in 1 .. n : \A y \in G[k - 1] : T[k][y] \in G[k]
  BY <1>2, <1>3, <1>5
<1>7. PICK f : Run(f, n, s, T, G)
  BY <1>2, <1>5, <1>6, LoopRuns
<1>8. f = [k \in 0 .. n |-> IF k = 0 THEN s ELSE RmExpired(f[k - 1], ls[k].d)]
  <2>1. f = [k \in 0 .. n |-> IF k = 0 THEN s ELSE T[k][f[k - 1]]]
    BY <1>7 DEF Run
  <2>2. \A k \in 0 .. n : k # 0 => T[k][f[k - 1]] = RmExpired(f[k - 1], ls[k].d)
    <3>1. \A k \in 0 .. n : k # 0 => k \in 1 .. n
      BY <1>2
    <3>2. \A k \in 1 .. n : f[k - 1] \in SweptOf(s)
      BY <1>2, <1>5, <1>7 DEF Run
    <3> QED BY <1>5, <3>1, <3>2
  <2> QED BY <2>1, <2>2
<1>9. loop = [k \in 0 .. n |-> IF k = 0 THEN s ELSE RmExpired(loop[k - 1], ls[k].d)]
  BY <1>8 DEF loop
<1>10. \A k \in 0 .. n : loop[k] \in G[k]
  <2>1. loop[0] = s /\ \A k \in 1 .. n : loop[k] = RmExpired(loop[k - 1], ls[k].d)
    BY <1>2, <1>9
  <2>2. \A k \in 1 .. n : loop[k - 1] \in G[k - 1] => loop[k] = T[k][loop[k - 1]]
    BY <1>2, <1>5, <2>1
  <2>3. Follows(loop, n, s, T, G)
    BY <2>1, <2>2 DEF Follows
  <2> QED BY <1>2, <1>5, <1>6, <2>3, LoopStays
<1> QED BY <1>1, <1>5, <1>10 DEF n, s

\* A use of a cookie leaves alone what it is told apart by.
LEMMA UsedCookie ==
  ASSUME useCount \in Nat, NEW c \in Cookie, NEW answer
  PROVE  /\ Used(c, answer) \in Cookie
         /\ Used(c, answer).domain = c.domain
         /\ Used(c, answer).hostOnly = c.hostOnly
         /\ Used(c, answer).name = c.name
         /\ Used(c, answer).path = c.path
         /\ Used(c, answer).expires = c.expires
         /\ Used(c, answer).secure = c.secure
<1>1. c \in CookieRecords
  BY DEF Cookie, CookieRecords
<1>2. /\ [c EXCEPT !.lastUsed = useCount] \in CookieRecords
      /\ [c EXCEPT !.lastUsed = useCount].domain = c.domain
      /\ [c EXCEPT !.lastUsed = useCount].hostOnly = c.hostOnly
  BY <1>1 DEF CookieRecords
<1>3. [c EXCEPT !.lastUsed = useCount] \in Cookie
  BY <1>2 DEF Cookie
<1> QED BY <1>1, <1>3 DEF Used, CookieRecords

LEMMA UsedListRight ==
  ASSUME useCount \in Nat, NEW q \in Seq(Cookie), NEW answer
  PROVE  /\ UsedList(q, answer) \in Seq(Cookie) /\ Len(UsedList(q, answer)) = Len(q)
         /\ \A i \in 1 .. Len(q) : UsedList(q, answer)[i] = Used(q[i], answer)
         /\ \A i \in 1 .. Len(q) : q[i] \in Cookie
         /\ \A c : Among(UsedList(q, answer), c)
                     <=> \E e \in Cookie : Among(q, e) /\ Used(e, answer) = c
<1> DEFINE r == UsedList(q, answer)
<1>1. \A i \in 1 .. Len(q) : q[i] \in Cookie /\ Used(q[i], answer) \in Cookie
  BY UsedCookie
<1>2. r = [i \in 1 .. Len(q) |-> Used(q[i], answer)] /\ Len(q) \in Nat
  BY DEF UsedList
<1>3. r \in Seq(Cookie) /\ Len(r) = Len(q)
  BY <1>1, <1>2
<1>4. \A i \in 1 .. Len(q) : r[i] = Used(q[i], answer)
  BY <1>2
<1> HIDE DEF r
<1>5. ASSUME NEW c PROVE Among(r, c) <=> \E e \in Cookie : Among(q, e) /\ Used(e, answer) = c
  <2>1. ASSUME Among(r, c) PROVE \E e \in Cookie : Among(q, e) /\ Used(e, answer) = c
    <3>1. PICK i \in 1 .. Len(q) : r[i] = c
      BY <1>3, <2>1 DEF Among
    <3>2. q[i] \in Cookie /\ Among(q, q[i]) /\ Used(q[i], answer) = c
      BY <1>1, <1>4, <3>1 DEF Among
    <3> QED BY <3>2
  <2>2. ASSUME NEW e \in Cookie, Among(q, e), Used(e, answer) = c PROVE Among(r, c)
    BY <1>3, <1>4, <2>2 DEF Among
  <2> QED BY <2>1, <2>2
<1> QED BY <1>1, <1>3, <1>4, <1>5 DEF r

\* Two cookies of a store stay apart when they are used.
LEMMA UsedApart ==
  ASSUME useCount \in Nat, NEW s \in GoodStores, NEW answer,
         NEW x \in Cookie, NEW y \in Cookie, Among(s.all, x), Among(s.all, y),
         Used(x, answer) = Used(y, answer)
  PROVE  x = y
<1>1. x.domain = y.domain /\ SameCookie(x, y)
  BY UsedCookie DEF SameCookie
<1> DEFINE q == ListOf(s, x.domain)
<1>2. Sound(s, {}) /\ \A e \in Cookie : Among(s.all, e) <=> Among(ListOf(s, e.domain), e)
  BY DEF GoodStores, Sound
<1>3. Among(q, x) /\ Among(q, y)
  BY <1>1, <1>2
<1>4. ListIsOf(q, x.domain)
  BY <1>2, CookieHasNode
<1> HIDE DEF q
<1> QED BY <1>1, <1>3, <1>4 DEF Among, ListIsOf

LEMMA UsedStoreRight ==
  ASSUME useCount \in Nat, NEW s \in GoodStores, NEW answer
  PROVE  UsedStore(s, answer) \in GoodStores
<1> DEFINE D == DOMAIN s.domains
           f == [d \in D |-> UsedList(s.domains[d], answer)]
           a == UsedList(s.all, answer)
           t == UsedStore(s, answer)
<1>1. /\ s \in Stores /\ Sound(s, {}) /\ IsFiniteSet(D) /\ Distinct(s.all)
      /\ \A e \in Cookie : Among(s.all, e) <=> Among(ListOf(s, e.domain), e)
      /\ \A e \in D : ListIsOf(s.domains[e], e) /\ s.domains[e] # <<>>
  BY DEF Sound, GoodStores
<1>2. /\ s.all \in Seq(Cookie) /\ Len(s.all) \in Nat
      /\ D \subseteq CookieDomains
      /\ s.domains \in [D -> Seq(Cookie)]
      /\ \A e : ListOf(s, e) \in Seq(Cookie) /\ Len(ListOf(s, e)) \in Nat
  BY <1>1, StoreParts
<1>3. t = [domains |-> f, all |-> a]
  BY DEF UsedStore
<1>4. a \in Seq(Cookie) /\ Len(a) = Len(s.all)
  BY <1>2, UsedListRight
<1>5. \A d \in D : s.domains[d] \in Seq(Cookie)
  BY <1>2
<1>6. \A d \in D : f[d] = UsedList(s.domains[d], answer)
  OBVIOUS
<1>7. f \in [D -> Seq(Cookie)] /\ DOMAIN f = D
  BY <1>5, UsedListRight
<1> HIDE DEF t, f
<1>8. t.domains = f /\ t.all = a
  BY <1>3
<1>9. t \in Stores
  <2> HIDE DEF D, a
  <2> QED BY <1>2, <1>3, <1>4, <1>7, StoreOf
<1>10. \A d : ListOf(t, d) = UsedList(ListOf(s, d), answer)
  <2> SUFFICES ASSUME NEW d PROVE ListOf(t, d) = UsedList(ListOf(s, d), answer)
    OBVIOUS
  <2>1. CASE d \in D
    BY <1>6, <1>7, <1>8, <2>1 DEF ListOf, HasNode
  <2>2. CASE d \notin D
    BY <1>7, <1>8, <2>2 DEF ListOf, HasNode, UsedList
  <2> QED BY <2>1, <2>2
<1>11. \A d : Len(ListOf(t, d)) = Len(ListOf(s, d))
  BY <1>2, <1>10, UsedListRight
<1>12. \A c \in Cookie : Among(t.all, c) <=> Among(ListOf(t, c.domain), c)
  <2> SUFFICES ASSUME NEW c \in Cookie PROVE Among(a, c) <=> Among(ListOf(t, c.domain), c)
    BY <1>8
  <2>1. Among(a, c) <=> \E e \in Cookie : Among(s.all, e) /\ Used(e, answer) = c
    BY <1>2, UsedListRight
  <2>2. Among(ListOf(t, c.domain), c)
          <=> \E e \in Cookie : Among(ListOf(s, c.domain), e) /\ Used(e, answer) = c
    BY <1>2, <1>10, UsedListRight
  <2>3. \A e \in Cookie : Used(e, answer) = c => e.domain = c.domain
    BY UsedCookie
  <2> HIDE DEF a
  <2> QED BY <1>1, <2>1, <2>2, <2>3
<1>13. Distinct(a)
  <2>1. ASSUME NEW i \in 1 .. Len(s.all), NEW j \in 1 .. Len(s.all), a[i] = a[j] PROVE i = j
    <3> DEFINE x == s.all[i]
               y == s.all[j]
    <3>1. /\ x \in Cookie /\ y \in Cookie /\ Used(x, answer) = Used(y, answer)
      BY <1>2, <2>1, UsedListRight
    <3>2. Among(s.all, x) /\ Among(s.all, y)
      BY DEF Among
    <3>3. x = y => i = j
      BY <1>1 DEF Distinct
    <3> HIDE DEF x, y
    <3>4. x = y
      BY <3>1, <3>2, UsedApart
    <3> QED BY <3>3, <3>4
  <2> QED BY <1>4, <2>1 DEF Distinct
<1>14. \A d \in D : ListIsOf(f[d], d) /\ f[d] # <<>>
  <2> SUFFICES ASSUME NEW d \in D PROVE ListIsOf(f[d], d) /\ f[d] # <<>>
    OBVIOUS
  <2> DEFINE q == s.domains[d]
             r == f[d]
  <2>1. /\ q \in Seq(Cookie) /\ Len(r) = Len(q) /\ r \in Seq(Cookie)
        /\ \A i \in 1 .. Len(q) : r[i] = Used(q[i], answer) /\ q[i] \in Cookie
    BY <1>5, <1>6, UsedListRight
  <2>2. ListIsOf(q, d) /\ q # <<>>
    BY <1>1
  <2> HIDE DEF q, r
  <2>3. \A i, j \in 1 .. Len(q) : /\ r[i].domain = d
                                  /\ i # j => ~SameCookie(r[i], r[j])
    BY <2>1, <2>2, UsedCookie DEF ListIsOf, SameCookie
  <2>4. ListIsOf(r, d)
    BY <2>1, <2>3 DEF ListIsOf
  <2>5. r # <<>>
    BY <2>1, <2>2
  <2> QED BY <2>4, <2>5 DEF r
<1>15. Sound(t, {})
  BY <1>1, <1>7, <1>8, <1>9, <1>12, <1>13, <1>14 DEF Sound
<1>16. InLimits(t)
  BY <1>4, <1>8, <1>11 DEF InLimits, GoodStores
<1> QED BY <1>9, <1>15, <1>16 DEF GoodStores, t

\* The store of a browser that has no cookies.
LEMMA EmptyIsGood ==
  [domains |-> <<>>, all |-> <<>>] \in GoodStores
<1> DEFINE s == [domains |-> <<>>, all |-> <<>>]
<1>1. <<>> \in [{} -> Seq(Cookie)] /\ DOMAIN <<>> = {} /\ <<>> \in Seq(Cookie) /\ Len(<<>>) = 0
  OBVIOUS
<1>2. s \in Stores
  BY <1>1, StoreOf
<1>3. s.domains = <<>> /\ s.all = <<>>
  OBVIOUS
<1> HIDE DEF s
<1>4. \A d : ListOf(s, d) = <<>>
  BY <1>1, <1>3 DEF ListOf, HasNode
<1>5. IsFiniteSet({})
  BY FS_EmptySet
<1>6. Sound(s, {})
  BY <1>1, <1>2, <1>3, <1>4, <1>5 DEF Sound, Distinct, Among
<1>7. InLimits(s)
  BY <1>1, <1>3, <1>4, LimitsAreNumbers DEF InLimits
<1> QED BY <1>2, <1>6, <1>7 DEF GoodStores, s

\* The cookies of a domain that are written to the file.
LEMMA SavedOfRight ==
  ASSUME NEW q \in Seq(Cookie)
  PROVE  SavedOf(q) \in Seq(Cookie)
<1> DEFINE n == Len(q)
           Written(k, y) == IF Persistent(q[k]) THEN Append(y, q[k]) ELSE y
           G == [k \in 0 .. n |-> Seq(Cookie)]
           T == [k \in 1 .. n |-> [y \in Seq(Cookie) |-> Written(k, y)]]
           loop == CHOOSE f : f = [k \in 0 .. n |-> IF k = 0 THEN <<>>
                                                    ELSE IF Persistent(q[k]) THEN Append(f[k - 1], q[k])
                                                    ELSE f[k - 1]]
<1>1. SavedOf(q) = loop[n]
  BY DEF SavedOf
<1> HIDE DEF loop
<1>2. /\ \A k \in 1 .. n : k \in 0 .. n /\ k - 1 \in 0 .. n /\ k # 0
      /\ n \in Nat /\ 0 \in 0 .. n /\ n \in 0 .. n
      /\ <<>> \in Seq(Cookie)
  <2>1. n \in Nat
    OBVIOUS
  <2> HIDE DEF n
  <2> QED BY <2>1
<1>3. \A k \in 1 .. n : \A y \in Seq(Cookie) : Written(k, y) \in Seq(Cookie)
  OBVIOUS
<1> HIDE DEF n
<1>4. /\ <<>> \in G[0]
      /\ \A k \in 0 .. n : G[k] = Seq(Cookie)
      /\ \A k \in 1 .. n : \A y \in Seq(Cookie) : T[k][y] = Written(k, y)
  BY <1>2
<1> HIDE DEF G, T, Written
<1>5. \A k \in 1 .. n : \A y \in G[k - 1] : T[k][y] \in G[k]
  BY <1>2, <1>3, <1>4
<1>6. PICK f : Run(f, n, <<>>, T, G)
  BY <1>2, <1>4, <1>5, LoopRuns
<1>7. f = [k \in 0 .. n |-> IF k = 0 THEN <<>>
                            ELSE IF Persistent(q[k]) THEN Append(f[k - 1], q[k]) ELSE f[k - 1]]
  <2>1. f = [k \in 0 .. n |-> IF k = 0 THEN <<>> ELSE T[k][f[k - 1]]]
    BY <1>6 DEF Run
  <2>2. \A k \in 0 .. n : k # 0 => T[k][f[k - 1]] = Written(k, f[k - 1])
    <3>1. \A k \in 0 .. n : k # 0 => k \in 1 .. n
      BY <1>2
    <3>2. \A k \in 1 .. n : f[k - 1] \in Seq(Cookie)
      BY <1>2, <1>4, <1>6, SMTT(30) DEF Run
    <3> QED BY <1>4, <3>1, <3>2
  <2>3. f = [k \in 0 .. n |-> IF k = 0 THEN <<>> ELSE Written(k, f[k - 1])]
    BY <2>1, <2>2
  <2> QED BY <2>3 DEF Written
<1>8. loop = [k \in 0 .. n |-> IF k = 0 THEN <<>>
                               ELSE IF Persistent(q[k]) THEN Append(loop[k - 1], q[k])
                               ELSE loop[k - 1]]
  BY <1>7 DEF loop
<1>9. \A k \in 0 .. n : loop[k] \in G[k]
  <2>1. loop[0] = <<>> /\ \A k \in 1 .. n : loop[k] = Written(k, loop[k - 1])
    BY <1>2, <1>8 DEF Written
  <2>2. \A k \in 1 .. n : loop[k - 1] \in G[k - 1] => loop[k] = T[k][loop[k - 1]]
    BY <1>2, <1>4, <2>1
  <2>3. Follows(loop, n, <<>>, T, G)
    BY <2>1, <2>2 DEF Follows
  <2> QED BY <1>2, <1>4, <1>5, <2>3, LoopStays
<1> QED BY <1>1, <1>2, <1>4, <1>9

\* The domains that have a node, one after the other.
LEMMA NodesRight ==
  ASSUME NEW D, IsFiniteSet(D)
  PROVE  \E m \in Nat : SetToSeq(D) \in [1 .. m -> D] /\ Len(SetToSeq(D)) = m
<1> DEFINE m == Cardinality(D)
<1>1. m \in Nat /\ ExistsBijection(1 .. m, D)
  BY FS_CardinalityType
<1> HIDE DEF m
<1>2. \E f \in [1 .. m -> D] : IsInjective(f)
  BY <1>1 DEF ExistsBijection, Bijection, Injection
<1>3. SetToSeq(D) = CHOOSE f \in [1 .. m -> D] : IsInjective(f)
  BY DEF SetToSeq, m
<1>4. SetToSeq(D) \in [1 .. m -> D]
  BY <1>2, <1>3
<1>5. Len(SetToSeq(D)) = m
  BY <1>1, <1>4
<1> QED BY <1>1, <1>4, <1>5

\* What is written to the file is cookies.
LEMMA SavedRight ==
  ASSUME Store \in GoodStores
  PROVE  Saved \in Seq(Cookie)
<1> DEFINE D == DOMAIN domains
           nodes == SetToSeq(D)
           n == Len(nodes)
           Written(k, y) == y \o SavedOf(domains[nodes[k]])
           G == [k \in 0 .. n |-> Seq(Cookie)]
           T == [k \in 1 .. n |-> [y \in Seq(Cookie) |-> Written(k, y)]]
           loop == CHOOSE f : f = [k \in 0 .. n |-> IF k = 0 THEN <<>>
                                                    ELSE f[k - 1] \o SavedOf(domains[nodes[k]])]
<1>0. /\ IsFiniteSet(D) /\ \A d \in D : domains[d] \in Seq(Cookie)
  <2>1. Store.domains = domains
    BY DEF Store
  <2>2. Store \in Stores /\ IsFiniteSet(DOMAIN Store.domains)
    BY DEF GoodStores, Sound
  <2>3. Store.domains \in [DOMAIN Store.domains -> Seq(Cookie)]
    BY <2>2, StoreParts
  <2> QED BY <2>1, <2>2, <2>3
<1>1. Saved = loop[n]
  BY DEF Saved
<1> HIDE DEF loop
<1>2. /\ n \in Nat /\ \A k \in 1 .. n : nodes[k] \in D
  <2> HIDE DEF nodes, D
  <2>1. PICK m \in Nat : nodes \in [1 .. m -> D] /\ n = m
    BY <1>0, NodesRight DEF nodes
  <2> HIDE DEF n
  <2> QED BY <2>1
<1> HIDE DEF nodes, D, n
<1>3. /\ \A k \in 1 .. n : k \in 0 .. n /\ k - 1 \in 0 .. n /\ k # 0
      /\ n \in Nat /\ 0 \in 0 .. n /\ n \in 0 .. n
      /\ <<>> \in Seq(Cookie)
  BY <1>2
<1>4. \A k \in 1 .. n : \A y \in Seq(Cookie) : Written(k, y) \in Seq(Cookie)
  <2>1. \A k \in 1 .. n : SavedOf(domains[nodes[k]]) \in Seq(Cookie)
    BY <1>0, <1>2, SavedOfRight
  <2>2. \A y, z \in Seq(Cookie) : y \o z \in Seq(Cookie)
    OBVIOUS
  <2> QED BY <2>1, <2>2
<1>5. /\ <<>> \in G[0]
      /\ \A k \in 0 .. n : G[k] = Seq(Cookie)
      /\ \A k \in 1 .. n : \A y \in Seq(Cookie) : T[k][y] = Written(k, y)
  BY <1>3
<1> HIDE DEF G, T, Written
<1>6. \A k \in 1 .. n : \A y \in G[k - 1] : T[k][y] \in G[k]
  BY <1>3, <1>4, <1>5
<1>7. PICK f : Run(f, n, <<>>, T, G)
  BY <1>3, <1>5, <1>6, LoopRuns
<1>8. f = [k \in 0 .. n |-> IF k = 0 THEN <<>> ELSE f[k - 1] \o SavedOf(domains[nodes[k]])]
  <2>1. f = [k \in 0 .. n |-> IF k = 0 THEN <<>> ELSE T[k][f[k - 1]]]
    BY <1>7 DEF Run
  <2>2. \A k \in 0 .. n : k # 0 => T[k][f[k - 1]] = Written(k, f[k - 1])
    <3>1. \A k \in 0 .. n : k # 0 => k \in 1 .. n
      BY <1>2
    <3>2. \A k \in 1 .. n : f[k - 1] \in Seq(Cookie)
      BY SMTT(20), <1>3, <1>5, <1>7 DEF Run
    <3> QED BY <1>5, <3>1, <3>2
  <2>3. f = [k \in 0 .. n |-> IF k = 0 THEN <<>> ELSE Written(k, f[k - 1])]
    BY <2>1, <2>2
  <2> QED BY <2>3 DEF Written
<1>9. loop = [k \in 0 .. n |-> IF k = 0 THEN <<>> ELSE loop[k - 1] \o SavedOf(domains[nodes[k]])]
  BY <1>8 DEF loop
<1>10. \A k \in 0 .. n : loop[k] \in G[k]
  <2>1. loop[0] = <<>> /\ \A k \in 1 .. n : loop[k] = Written(k, loop[k - 1])
    BY <1>3, <1>9 DEF Written
  <2>2. \A k \in 1 .. n : loop[k - 1] \in G[k - 1] => loop[k] = T[k][loop[k - 1]]
    BY <1>3, <1>5, <2>1
  <2>3. Follows(loop, n, <<>>, T, G)
    BY <2>1, <2>2 DEF Follows
  <2> QED BY <1>3, <1>5, <1>6, <2>3, LoopStays
<1> QED BY <1>1, <1>3, <1>5, <1>10

\* The store while the file is read, with the number of cookies used so far.
Loading == [store : GoodStores, n : Nat]

LEMMA ReadCookie ==
  ASSUME NEW c \in Cookie, NEW n \in Nat, NEW b \in BOOLEAN
  PROVE  [c EXCEPT !.lastUsed = n, !.session = b] \in Cookie
<1> DEFINE e == [c EXCEPT !.lastUsed = n]
           f == [e EXCEPT !.session = b]
<1>1. e \in CookieRecords /\ e.domain = c.domain /\ e.hostOnly = c.hostOnly
  BY DEF Cookie, CookieRecords
<1>2. [c EXCEPT !.lastUsed = n, !.session = b] = f
  OBVIOUS
<1> HIDE DEF e
<1>3. f \in CookieRecords /\ f.domain = c.domain /\ f.hostOnly = c.hostOnly
  BY <1>1 DEF CookieRecords
<1> HIDE DEF f
<1> QED BY <1>2, <1>3 DEF Cookie

LEMMA LoadTurnRight ==
  ASSUME NEW x \in Loading, NEW c \in Cookie
  PROVE  LoadTurn(x, c) \in Loading
<1> DEFINE session == Action(c.domain) = "session"
           d == [c EXCEPT !.lastUsed = x.n, !.session = session]
           more == IF d.expires > time THEN 1 ELSE 0
<1>1. x.store \in GoodStores /\ x.n \in Nat /\ session \in BOOLEAN
  BY DEF Loading
<1> HIDE DEF session
<1>2. d \in Cookie
  BY <1>1, ReadCookie
<1>3. LoadTurn(x, c) = IF Action(c.domain) = "deny" THEN x
                       ELSE [store |-> AddCookie(x.store, d), n |-> x.n + more]
  BY DEF LoadTurn, session
<1> HIDE DEF d
<1>4. AddCookie(x.store, d) \in GoodStores
  <2>1. Sound(x.store, {}) /\ InLimits(x.store)
    BY <1>1 DEF GoodStores
  <2>2. Sound(AddCookie(x.store, d), {}) /\ InLimits(AddCookie(x.store, d))
    BY <1>2, <2>1, AddCookieRight
  <2> QED BY <2>2 DEF GoodStores, Sound
<1>5. x.n + more \in Nat
  BY <1>1
<1> HIDE DEF more
<1> QED BY <1>3, <1>4, <1>5 DEF Loading

LEMMA LoadedRight ==
  ASSUME Store \in GoodStores, file \in Seq(Cookie)
  PROVE  Loaded \in Loading
<1> DEFINE n == Len(file)
           x == [store |-> Store, n |-> 0]
           G == [k \in 0 .. n |-> Loading]
           T == [k \in 1 .. n |-> [y \in Loading |-> LoadTurn(y, file[k])]]
           loop == CHOOSE f : f = [k \in 0 .. n |-> IF k = 0 THEN x ELSE LoadTurn(f[k - 1], file[k])]
<1>1. Loaded = loop[n]
  BY DEF Loaded
<1> HIDE DEF loop
<1>2. /\ \A k \in 1 .. n : k \in 0 .. n /\ k - 1 \in 0 .. n /\ k # 0
      /\ n \in Nat /\ 0 \in 0 .. n /\ n \in 0 .. n
  <2>1. n \in Nat
    OBVIOUS
  <2> HIDE DEF n
  <2> QED BY <2>1
<1>3. \A k \in 1 .. n : \A y \in Loading : LoadTurn(y, file[k]) \in Loading
  <2>1. \A k \in 1 .. n : file[k] \in Cookie
    OBVIOUS
  <2> QED BY <2>1, LoadTurnRight
<1>4. x \in Loading
  BY DEF Loading
<1> HIDE DEF n, x
<1>5. /\ x \in G[0]
      /\ \A k \in 0 .. n : G[k] = Loading
      /\ \A k \in 1 .. n : \A y \in Loading : T[k][y] = LoadTurn(y, file[k])
  BY <1>2, <1>4
<1> HIDE DEF G, T
<1>6. \A k \in 1 .. n : \A y \in G[k - 1] : T[k][y] \in G[k]
  BY <1>2, <1>3, <1>5
<1>7. PICK f : Run(f, n, x, T, G)
  BY <1>2, <1>5, <1>6, LoopRuns
<1>8. f = [k \in 0 .. n |-> IF k = 0 THEN x ELSE LoadTurn(f[k - 1], file[k])]
  <2>1. f = [k \in 0 .. n |-> IF k = 0 THEN x ELSE T[k][f[k - 1]]]
    BY <1>7 DEF Run
  <2>2. \A k \in 0 .. n : k # 0 => T[k][f[k - 1]] = LoadTurn(f[k - 1], file[k])
    <3> SUFFICES ASSUME NEW k \in 0 .. n, k # 0
                 PROVE  T[k][f[k - 1]] = LoadTurn(f[k - 1], file[k])
      OBVIOUS
    <3>1. k \in 1 .. n
      BY <1>2
    <3>2. f[k - 1] \in Loading
      BY <1>2, <1>5, <1>7, <3>1 DEF Run
    <3>3. \A y \in Loading : T[k][y] = LoadTurn(y, file[k])
      BY <1>5, <3>1
    <3> QED BY <3>2, <3>3
  <2> QED BY <2>1, <2>2
<1>9. loop = [k \in 0 .. n |-> IF k = 0 THEN x ELSE LoadTurn(loop[k - 1], file[k])]
  BY <1>8 DEF loop
<1>10. \A k \in 0 .. n : loop[k] \in G[k]
  <2>1. loop[0] = x /\ \A k \in 1 .. n : loop[k] = LoadTurn(loop[k - 1], file[k])
    BY <1>2, <1>9
  <2>2. \A k \in 1 .. n : loop[k - 1] \in G[k - 1] => loop[k] = T[k][loop[k - 1]]
    BY <1>2, <1>5, <2>1
  <2>3. Follows(loop, n, x, T, G)
    BY <2>1, <2>2 DEF Follows
  <2> QED BY <1>2, <1>5, <1>6, <2>3, LoopStays
<1> QED BY <1>1, <1>2, <1>5, <1>10

LEMMA NewCookieRight ==
  ASSUME time \in Nat, useCount \in Nat, NEW r \in Requests, NEW line \in Lines,
         ValidDomain(line.domain, r.host)
  PROVE  NewCookie(r.host, r.path, line) \in Cookie
<1> DEFINE own == Dom(FALSE, r.host)
           domain == IF line.domain = NoValue THEN own ELSE line.domain
           expires == IF line.age = NoValue THEN MaxTime + 1 ELSE time + line.age
           session == line.age = NoValue \/ Action(own) = "session"
           hostOnly == line.domain = NoValue
           path == ValidPath(line.path, r.path)
           c == [name |-> line.name, domain |-> domain, hostOnly |-> hostOnly, path |-> path,
                 secure |-> line.secure, expires |-> expires, session |-> session,
                 lastUsed |-> useCount]
<1>1. NewCookie(r.host, r.path, line) = c
  BY DEF NewCookie
<1>2. domain \in CookieDomains
  <2>1. own # NoValue
    BY HostsHaveNames DEF Dom
  <2> QED BY <2>1 DEF CookieDomains
<1>3. expires \in {MaxTime + 1} \cup {t + l.age : t \in Nat, l \in Lines}
  OBVIOUS
<1>4. session \in BOOLEAN /\ hostOnly \in BOOLEAN
  OBVIOUS
<1>5. path \in {ValidPath(l.path, q.path) : l \in Lines, q \in Requests}
  OBVIOUS
<1>6. line.name \in {l.name : l \in Lines} /\ line.secure \in {l.secure : l \in Lines}
  OBVIOUS
<1>7. hostOnly => domain = own
  OBVIOUS
<1>8. own.labels # <<>> /\ own.dot = FALSE
  BY HostsHaveNames DEF Dom
<1>9. ~hostOnly => domain.labels # <<>>
  <2>1. ~hostOnly => domain = line.domain /\ Len(domain.labels) > InternalDotsRequired(r.host)
    BY DEF ValidDomain
  <2>2. Len(<<>>) = 0 /\ ~(0 > InternalDotsRequired(r.host))
    BY DEF InternalDotsRequired
  <2> QED BY <2>1, <2>2
<1> HIDE DEF domain, expires, session, hostOnly, path, own
<1>10. c \in CookieRecords
  BY <1>2, <1>3, <1>4, <1>5, <1>6 DEF CookieRecords
<1>11. c.domain = domain /\ c.hostOnly = hostOnly
  OBVIOUS
<1> HIDE DEF c
<1> QED BY <1>1, <1>7, <1>8, <1>9, <1>10, <1>11 DEF Cookie

\* What the parts of a cookie are.
LEMMA CookieParts ==
  ASSUME NEW c \in Cookie
  PROVE  /\ c.domain \in CookieDomains /\ c.domain # NoValue
         /\ c.domain \in [dot : BOOLEAN, labels : Seq(STRING)]
         /\ c.domain.labels # <<>> /\ c.hostOnly \in BOOLEAN /\ (c.hostOnly => ~c.domain.dot)
         /\ \E S : c.path \in Seq(S)
<1>1. c \in CookieRecords /\ c.domain.labels # <<>> /\ (c.hostOnly => ~c.domain.dot)
  BY DEF Cookie
<1>2. c.domain \in CookieDomains /\ c.hostOnly \in BOOLEAN
  BY <1>1 DEF CookieRecords
<1>3. CookieDomains \subseteq [dot : BOOLEAN, labels : Seq(STRING)] /\ NoValue \notin CookieDomains
  <2> SUFFICES ASSUME NEW d \in CookieDomains
               PROVE  d \in [dot : BOOLEAN, labels : Seq(STRING)] /\ d # NoValue
    OBVIOUS
  <2>1. d # NoValue /\ (\/ \E line \in Lines : d = line.domain
                        \/ \E r \in Requests : d = [dot |-> FALSE, labels |-> r.host])
    BY DEF CookieDomains, Dom
  <2>2. CASE \E line \in Lines : d = line.domain
    BY <2>1, <2>2, LinesAreParsed
  <2>3. CASE \E r \in Requests : d = [dot |-> FALSE, labels |-> r.host]
    <3>1. \A l \in Seq(STRING) : [dot |-> FALSE, labels |-> l] \in [dot : BOOLEAN, labels : Seq(STRING)]
      OBVIOUS
    <3> QED BY <2>1, <2>3, <3>1, HostsHaveNames
  <2> QED BY <2>1, <2>2, <2>3
<1>4. PICK line \in Lines, r \in Requests : c.path = ValidPath(line.path, r.path)
  BY <1>1 DEF CookieRecords
<1>5. \E S : c.path \in Seq(S)
  <2>1. r.path \in Seq(STRING)
    BY HostsHaveNames
  <2>2. line.path # NoValue => line.path \in Seq(STRING)
    BY LinesAreParsed
  <2>3. <<"">> \in Seq({""})
    OBVIOUS
  <2>4. ASSUME NEW S, NEW q \in Seq(S), Len(q) > 1 PROVE SubSeq(q, 1, Len(q) - 1) \in Seq(S)
    BY <2>4
  <2>5. Len(r.path) > 1 => Front(r.path) \in Seq(STRING)
    BY <2>1, <2>4 DEF Front
  <2>6. c.path \in Seq(STRING) \/ c.path = <<"">>
    BY <1>4, <2>1, <2>2, <2>5 DEF ValidPath
  <2> QED BY <2>3, <2>6
<1> QED BY <1>1, <1>2, <1>3, <1>5

LEMMA PathLengthIsNumber ==
  ASSUME NEW S, NEW path \in Seq(S)
  PROVE  PathLength(path) \in Nat
<1> DEFINE T == {i \in DOMAIN path : path[i] # ""}
<1>1. Len(path) \in Nat /\ T \subseteq 1 .. Len(path)
  <2>1. \A q \in Seq(S) : Len(q) \in Nat /\ DOMAIN q = 1 .. Len(q)
    OBVIOUS
  <2>2. T \subseteq DOMAIN path
    OBVIOUS
  <2> HIDE DEF T
  <2> QED BY <2>1, <2>2
<1> HIDE DEF T
<1>2. IsFiniteSet(1 .. Len(path))
  BY <1>1, FS_Interval
<1>3. Cardinality(T) \in Nat
  BY <1>1, <1>2, FS_Subset, FS_CardinalityType
<1>4. PathLength(path) = Len(path) + Cardinality(T)
  BY DEF PathLength, T
<1> QED BY <1>1, <1>3, <1>4

\* InsertAt moves what follows.
LEMMA InsertAtRight ==
  ASSUME NEW S, NEW q \in Seq(S), NEW p \in 1 .. Len(q) + 1, NEW e \in S
  PROVE  /\ InsertAt(q, p, e) \in Seq(S) /\ Len(InsertAt(q, p, e)) = Len(q) + 1
         /\ \A k \in 1 .. Len(q) + 1 :
              InsertAt(q, p, e)[k] = IF k < p THEN q[k] ELSE IF k = p THEN e ELSE q[k - 1]
<1> DEFINE n == Len(q)
           a == SubSeq(q, 1, p - 1)
           b == SubSeq(q, p, n)
           ae == a \o <<e>>
<1>1. n \in Nat /\ p \in Nat /\ p >= 1 /\ p <= n + 1
  OBVIOUS
<1>2. InsertAt(q, p, e) = ae \o b
  BY DEF InsertAt
<1>3. a \in Seq(S) /\ Len(a) = p - 1 /\ \A k \in 1 .. p - 1 : a[k] = q[k]
  BY <1>1
<1>4. b \in Seq(S) /\ Len(b) = n - p + 1 /\ \A k \in 1 .. n - p + 1 : b[k] = q[p + k - 1]
  BY <1>1
<1> HIDE DEF n, a, b
<1>5. ae \in Seq(S) /\ Len(ae) = p /\ ae[p] = e /\ \A k \in 1 .. p - 1 : ae[k] = q[k]
  BY <1>1, <1>3, SMTT(30)
<1> HIDE DEF ae
<1>6. /\ ae \o b \in Seq(S) /\ Len(ae \o b) = n + 1
      /\ \A k \in 1 .. n + 1 : (ae \o b)[k] = IF k <= p THEN ae[k] ELSE b[k - p]
  <2>1. /\ ae \o b \in Seq(S) /\ Len(ae \o b) = Len(ae) + Len(b)
        /\ \A k \in 1 .. Len(ae) + Len(b) :
             (ae \o b)[k] = IF k <= Len(ae) THEN ae[k] ELSE b[k - Len(ae)]
    BY <1>4, <1>5, ConcatProperties
  <2>2. Len(ae) = p /\ Len(ae) + Len(b) = n + 1
    BY <1>1, <1>4, <1>5
  <2> QED BY <2>1, <2>2
<1>7. ASSUME NEW k \in 1 .. n + 1
      PROVE  (ae \o b)[k] = IF k < p THEN q[k] ELSE IF k = p THEN e ELSE q[k - 1]
  <2>1. k \in Nat /\ k >= 1 /\ k <= n + 1
    BY <1>1
  <2>2. CASE k < p
    <3>1. k \in 1 .. p - 1 /\ k <= p
      BY <1>1, <2>1, <2>2
    <3> QED BY <1>5, <1>6, <2>2, <3>1
  <2>3. CASE k = p
    <3>1. k <= p /\ ~(k < p)
      BY <1>1, <2>3
    <3> QED BY <1>5, <1>6, <2>3, <3>1
  <2>4. CASE k > p
    <3>1. /\ k - p \in 1 .. n - p + 1 /\ p + (k - p) - 1 = k - 1
          /\ ~(k <= p) /\ ~(k < p) /\ k # p
      BY <1>1, <2>1, <2>4
    <3>2. b[k - p] = q[p + (k - p) - 1]
      BY <1>4, <3>1
    <3>3. (ae \o b)[k] = b[k - p]
      BY <1>6, <3>1
    <3> QED BY <3>1, <3>2, <3>3
  <2>5. k < p \/ k = p \/ k > p
    BY <1>1, <2>1
  <2> QED BY <2>2, <2>3, <2>4, <2>5
<1> QED BY <1>2, <1>6, <1>7 DEF n

\* Longest paths first.
ByPath(q) == \A i, j \in 1 .. Len(q) : i < j => PathLength(q[i].path) >= PathLength(q[j].path)

\* An answer as far as it is collected: no cookie twice, longest paths first.
Answers == {q \in Seq(Cookie) : Distinct(q) /\ ByPath(q)}

\* Where Cookies_add_matching_cookies inserts, all that precede are as long and all that
\* follow are shorter.
LEMMA InsertByPathRight ==
  ASSUME NEW q \in Answers, NEW c \in Cookie, ~Among(q, c)
  PROVE  /\ InsertByPath(q, c) \in Answers
         /\ \A e : Among(InsertByPath(q, c), e) <=> Among(q, e) \/ e = c
<1> DEFINE n == Len(q)
           L(e) == PathLength(e.path)
           T == {i \in DOMAIN q : L(q[i]) < L(c)}
           p == IF T = {} THEN n + 1 ELSE Min(T)
           r == InsertByPath(q, c)
<1>1. q \in Seq(Cookie) /\ n \in Nat /\ DOMAIN q = 1 .. n /\ Distinct(q) /\ ByPath(q)
  BY DEF Answers
<1>2. r = InsertAt(q, p, c)
  BY DEF InsertByPath
<1>3. \A e \in Cookie : L(e) \in Nat
  BY CookieParts, PathLengthIsNumber
<1>4. \A i \in 1 .. n : q[i] \in Cookie /\ L(q[i]) \in Nat
  BY <1>1, <1>3
<1>5. \A i, j \in 1 .. n : i < j => L(q[i]) >= L(q[j])
  BY <1>1 DEF ByPath
<1> HIDE DEF L, r
<1>6. /\ p \in 1 .. n + 1
      /\ \A i \in 1 .. n : i < p => L(q[i]) >= L(c)
      /\ \A i \in 1 .. n : i >= p => L(q[i]) < L(c)
  <2>1. \A i : i \in T <=> i \in 1 .. n /\ L(q[i]) < L(c)
    BY <1>1
  <2> HIDE DEF T, n
  <2>2. CASE T = {}
    <3>1. \A i \in 1 .. n : L(q[i]) >= L(c) /\ ~(i >= n + 1)
      BY <1>1, <1>3, <1>4, <2>1, <2>2
    <3> QED BY <1>1, <2>2, <3>1
  <2>3. CASE T # {}
    <3>1. Min(T) \in T /\ \A i \in T : Min(T) <= i
      <4>1. T \subseteq Nat
        BY <1>1, <2>1
      <4> QED BY <2>3, <4>1, LeastIs
    <3> DEFINE m == Min(T)
    <3>2. m \in 1 .. n /\ L(q[m]) < L(c)
      BY <2>1, <3>1
    <3>3. p = m /\ \A i \in T : m <= i
      BY <2>3, <3>1
    <3> HIDE DEF m, p
    <3>4. ASSUME NEW i \in 1 .. n, i < m PROVE L(q[i]) >= L(c)
      <4>1. i \notin T
        BY <1>1, <3>2, <3>3, <3>4
      <4> QED BY <1>3, <1>4, <2>1, <4>1
    <3>5. ASSUME NEW i \in 1 .. n, i >= m PROVE L(q[i]) < L(c)
      <4>1. i = m \/ L(q[m]) >= L(q[i])
        BY <1>1, <1>5, <3>2, <3>5
      <4> QED BY <1>3, <1>4, <3>2, <4>1
    <3> QED BY <1>1, <3>2, <3>3, <3>4, <3>5
  <2> QED BY <2>2, <2>3
<1> HIDE DEF T, p
<1>7. /\ r \in Seq(Cookie) /\ Len(r) = n + 1
      /\ \A k \in 1 .. n + 1 : r[k] = IF k < p THEN q[k] ELSE IF k = p THEN c ELSE q[k - 1]
  <2>1. p \in 1 .. Len(q) + 1
    BY <1>6
  <2> HIDE DEF n
  <2>2. /\ InsertAt(q, p, c) \in Seq(Cookie) /\ Len(InsertAt(q, p, c)) = Len(q) + 1
        /\ \A k \in 1 .. Len(q) + 1 :
             InsertAt(q, p, c)[k] = IF k < p THEN q[k] ELSE IF k = p THEN c ELSE q[k - 1]
    BY <1>1, <2>1, InsertAtRight, SMTT(30)
  <2> QED BY <1>2, <2>2 DEF n
<1> HIDE DEF n
<1>8. p \in Nat /\ p >= 1 /\ p <= n + 1
  BY <1>1, <1>6
\* Where an element of the longer list comes from.
<1>9. ASSUME NEW k \in 1 .. n + 1
      PROVE  \/ k = p /\ r[k] = c
             \/ k < p /\ k \in 1 .. n /\ r[k] = q[k]
             \/ k > p /\ k - 1 \in 1 .. n /\ r[k] = q[k - 1]
  BY <1>1, <1>7, <1>8
<1>10. ASSUME NEW e PROVE Among(r, e) <=> Among(q, e) \/ e = c
  <2>1. ASSUME NEW k \in 1 .. n + 1, r[k] = e PROVE Among(q, e) \/ e = c
    BY <1>9, <2>1 DEF Among, n
  <2>2. ASSUME NEW i \in 1 .. n, q[i] = e PROVE \E k \in 1 .. n + 1 : r[k] = e
    <3>1. CASE i < p
      <4>1. i \in 1 .. n + 1
        BY <1>1
      <4> QED BY <1>7, <2>2, <3>1, <4>1
    <3>2. CASE ~(i < p)
      <4>1. i + 1 \in 1 .. n + 1 /\ ~(i + 1 < p) /\ i + 1 # p /\ i + 1 - 1 = i
        BY <1>1, <1>8, <3>2
      <4> QED BY <1>7, <2>2, <4>1
    <3> QED BY <3>1, <3>2
  <2>3. p \in 1 .. n + 1 /\ r[p] = c
    BY <1>6, <1>7, <1>8
  <2> QED BY <1>7, <2>1, <2>2, <2>3 DEF Among, n
<1>11. Distinct(r)
  <2>1. \A i \in 1 .. n : q[i] # c
    BY DEF Among, n
  <2>2. \A i, j \in 1 .. n : q[i] = q[j] => i = j
    BY <1>1 DEF Distinct, n
  <2>3. ASSUME NEW k \in 1 .. n + 1, NEW m \in 1 .. n + 1, r[k] = r[m] PROVE k = m
    <3>1. \/ k = p /\ r[k] = c
          \/ k < p /\ k \in 1 .. n /\ r[k] = q[k]
          \/ k > p /\ k - 1 \in 1 .. n /\ r[k] = q[k - 1]
      BY <1>9
    <3>2. \/ m = p /\ r[m] = c
          \/ m < p /\ m \in 1 .. n /\ r[m] = q[m]
          \/ m > p /\ m - 1 \in 1 .. n /\ r[m] = q[m - 1]
      BY <1>9
    <3> QED BY SMTT(20), <1>1, <1>8, <2>1, <2>2, <2>3, <3>1, <3>2
  <2> QED BY <1>7, <2>3 DEF Distinct
<1>12. ByPath(r)
  <2>1. ASSUME NEW k \in 1 .. n + 1, NEW m \in 1 .. n + 1, k < m PROVE L(r[k]) >= L(r[m])
    <3>1. \/ k = p /\ r[k] = c
          \/ k < p /\ k \in 1 .. n /\ r[k] = q[k]
          \/ k > p /\ k - 1 \in 1 .. n /\ r[k] = q[k - 1]
      BY <1>9
    <3>2. \/ m = p /\ r[m] = c
          \/ m < p /\ m \in 1 .. n /\ r[m] = q[m]
          \/ m > p /\ m - 1 \in 1 .. n /\ r[m] = q[m - 1]
      BY <1>9
    <3>3. CASE k = p
      <4>1. m > p /\ m - 1 \in 1 .. n /\ r[m] = q[m - 1] /\ r[k] = c
        BY <1>1, <1>8, <2>1, <3>1, <3>2, <3>3
      <4>2. L(q[m - 1]) < L(c)
        BY <1>1, <1>6, <1>8, <4>1
      <4> QED BY <1>3, <1>4, <4>1, <4>2
    <3>4. CASE k < p /\ k \in 1 .. n /\ r[k] = q[k]
      <4>1. CASE m = p
        BY <1>6, <3>2, <3>4, <4>1, <1>8
      <4>2. CASE m # p
        <5>1. \E i \in 1 .. n : r[m] = q[i] /\ k < i
          BY <1>1, <1>8, <2>1, <3>2, <3>4, <4>2
        <5> QED BY <1>5, <3>4, <5>1
      <4> QED BY <4>1, <4>2
    <3>5. CASE k > p /\ k - 1 \in 1 .. n /\ r[k] = q[k - 1]
      <4>1. m > p /\ m - 1 \in 1 .. n /\ r[m] = q[m - 1] /\ k - 1 < m - 1
        BY <1>1, <1>8, <2>1, <3>2, <3>5
      <4> QED BY <1>5, <3>5, <4>1
    <3> QED BY <3>1, <3>3, <3>4, <3>5
  <2> QED BY <1>7, <2>1 DEF ByPath, L
<1> QED BY <1>7, <1>10, <1>11, <1>12 DEF Answers, r

\* A live cookie that matches a lookup, the domain aside.
Hits(c, url, l, ssl) == ~Expired(c) /\ CookieMatches(c, url, l.hostOnly, ssl)

\* Cookies_add_matching_cookies adds those of a list that hit.
LEMMA AddMatchingRight ==
  ASSUME NEW found \in Answers, NEW q \in Seq(Cookie), Distinct(q), NEW url, NEW l, NEW ssl,
         \A j \in 1 .. Len(q) : Hits(q[j], url, l, ssl) => ~Among(found, q[j])
  PROVE  /\ AddMatching(found, q, url, l, ssl) \in Answers
         /\ \A e : Among(AddMatching(found, q, url, l, ssl), e)
                     <=> Among(found, e) \/ (Among(q, e) /\ Hits(e, url, l, ssl))
<1> DEFINE n == Len(q)
           H(e) == Hits(e, url, l, ssl)
           Seen(k, e) == \E j \in 1 .. k : q[j] = e
           Got(k) == {y \in Answers : \A e : Among(y, e) <=> Among(found, e) \/ (Seen(k, e) /\ H(e))}
           G == [k \in 0 .. n |-> Got(k)]
           T == [k \in 1 .. n |-> [y \in Got(k - 1) |-> MatchTurn(y, q[k], url, l, ssl)]]
           loop == CHOOSE f : f = [k \in 0 .. n |->
                     IF k = 0 THEN found ELSE MatchTurn(f[k - 1], q[k], url, l, ssl)]
<1>1. AddMatching(found, q, url, l, ssl) = loop[n]
  BY DEF AddMatching
<1> HIDE DEF loop
<1>2. /\ \A k \in 1 .. n : k \in 0 .. n /\ k - 1 \in 0 .. n /\ k # 0
      /\ n \in Nat /\ 0 \in 0 .. n /\ n \in 0 .. n
  <2>1. n \in Nat
    OBVIOUS
  <2> HIDE DEF n
  <2> QED BY <2>1
<1>3. ASSUME NEW k \in 1 .. n, NEW y \in Got(k - 1)
      PROVE  MatchTurn(y, q[k], url, l, ssl) \in Got(k)
  <2> DEFINE c == q[k]
  <2>1. /\ y \in Answers /\ \A e : Among(y, e) <=> Among(found, e) \/ (Seen(k - 1, e) /\ H(e))
    OBVIOUS
  <2>2. c \in Cookie /\ (H(c) => ~Among(found, c))
    OBVIOUS
  <2>3. MatchTurn(y, c, url, l, ssl) = IF H(c) THEN InsertByPath(y, c) ELSE y
    BY DEF MatchTurn, Hits
  <2>4. ASSUME NEW e PROVE Seen(k, e) <=> Seen(k - 1, e) \/ e = c
    <3>1. \A j \in 1 .. k : j \in 1 .. k - 1 \/ j = k
      BY <1>2
    <3>2. k \in 1 .. k /\ \A j \in 1 .. k - 1 : j \in 1 .. k
      BY <1>2
    <3> QED BY <3>1, <3>2
  <2>5. ~Seen(k - 1, c)
    <3>1. \A j \in 1 .. k - 1 : j \in 1 .. n /\ j # k
      <4> HIDE DEF n
      <4> QED BY <1>2
    <3> QED BY <3>1 DEF Distinct
  <2> HIDE DEF H, Seen, c
  <2>6. CASE H(c)
    <3>1. ~Among(y, c)
      BY <2>1, <2>2, <2>5, <2>6
    <3>2. /\ InsertByPath(y, c) \in Answers
          /\ \A e : Among(InsertByPath(y, c), e) <=> Among(y, e) \/ e = c
      BY <2>1, <2>2, <3>1, InsertByPathRight
    <3>3. \A e : Among(InsertByPath(y, c), e) <=> Among(found, e) \/ (Seen(k, e) /\ H(e))
      BY <2>1, <2>4, <2>6, <3>2
    <3> QED BY <2>3, <2>6, <3>2, <3>3 DEF c
  <2>7. CASE ~H(c)
    <3>1. \A e : Among(y, e) <=> Among(found, e) \/ (Seen(k, e) /\ H(e))
      BY <2>1, <2>4, <2>7
    <3> QED BY <2>1, <2>3, <2>7, <3>1 DEF c
  <2> QED BY <2>6, <2>7
<1>4. found \in Got(0)
  <2>1. \A e : ~Seen(0, e)
    OBVIOUS
  <2>2. \A e : Among(found, e) <=> Among(found, e) \/ (Seen(0, e) /\ H(e))
    BY <2>1 DEF Among
  <2> HIDE DEF Seen, H
  <2> QED BY <2>2
<1>5. \A e : Seen(n, e) <=> Among(q, e)
  BY DEF Among
<1>6. \A y \in Got(n) : /\ y \in Answers
                        /\ \A e : Among(y, e) <=> Among(found, e) \/ (Among(q, e) /\ H(e))
  BY <1>5
<1> HIDE DEF n, Got
<1>7. /\ found \in G[0]
      /\ \A k \in 0 .. n : G[k] = Got(k)
      /\ \A k \in 1 .. n : \A y \in Got(k - 1) : T[k][y] = MatchTurn(y, q[k], url, l, ssl)
  BY <1>2, <1>4
<1> HIDE DEF G, T
<1>8. \A k \in 1 .. n : \A y \in G[k - 1] : T[k][y] \in G[k]
  BY <1>2, <1>3, <1>7
<1>9. PICK f : Run(f, n, found, T, G)
  BY <1>2, <1>7, <1>8, LoopRuns
<1>10. f = [k \in 0 .. n |-> IF k = 0 THEN found ELSE MatchTurn(f[k - 1], q[k], url, l, ssl)]
  <2>1. f = [k \in 0 .. n |-> IF k = 0 THEN found ELSE T[k][f[k - 1]]]
    BY <1>9 DEF Run
  <2>2. \A k \in 0 .. n : k # 0 => T[k][f[k - 1]] = MatchTurn(f[k - 1], q[k], url, l, ssl)
    <3>1. \A k \in 0 .. n : k # 0 => k \in 1 .. n
      BY <1>2
    <3>2. \A k \in 1 .. n : f[k - 1] \in Got(k - 1)
      BY <1>2, <1>7, <1>9 DEF Run
    <3> QED BY <1>7, <3>1, <3>2
  <2> QED BY <2>1, <2>2
<1>11. loop = [k \in 0 .. n |-> IF k = 0 THEN found ELSE MatchTurn(loop[k - 1], q[k], url, l, ssl)]
  BY <1>10 DEF loop
<1>12. \A k \in 0 .. n : loop[k] \in G[k]
  <2>1. loop[0] = found /\ \A k \in 1 .. n : loop[k] = MatchTurn(loop[k - 1], q[k], url, l, ssl)
    BY <1>2, <1>11
  <2>2. \A k \in 1 .. n : loop[k - 1] \in G[k - 1] => loop[k] = T[k][loop[k - 1]]
    BY <1>2, <1>7, <2>1
  <2>3. Follows(loop, n, found, T, G)
    BY <2>1, <2>2 DEF Follows
  <2> QED BY <1>2, <1>7, <1>8, <2>3, LoopStays
<1>13. loop[n] \in Got(n)
  BY <1>2, <1>7, <1>12
<1> QED BY <1>1, <1>6, <1>13

\* What Cookies_get asks of a cookie, the host aside.
Wanted(c, url, ssl) == ~Expired(c) /\ PathMatches(url, c.path) /\ (c.secure => ssl)

\* A lookup of the domain and the kind of a cookie.
Asks(l, c) == l.d = c.domain /\ l.hostOnly = c.hostOnly

\* A list of the store after a sweep has, of what a lookup asks for, what the store had.
LEMMA MatchedRight ==
  ASSUME Store \in GoodStores, NEW s \in SweptOf(Store), NEW l, NEW url, NEW ssl
  PROVE  /\ ListOf(s, l.d) \in Seq(Cookie) /\ Distinct(ListOf(s, l.d))
         /\ \A e : Among(ListOf(s, l.d), e) /\ Hits(e, url, l, ssl)
                     <=> /\ e \in Cookie /\ Among(Store.all, e)
                         /\ Wanted(e, url, ssl) /\ Asks(l, e)
<1> DEFINE q == ListOf(s, l.d)
<1>1. /\ s \in Stores /\ Sound(s, {}) /\ Fewer(s, Store) /\ KeepsLive(s, Store)
      /\ \A c \in Cookie : Among(s.all, c) <=> Among(ListOf(s, c.domain), c)
      /\ \A d \in DOMAIN s.domains : ListIsOf(s.domains[d], d)
  BY DEF SweptOf, GoodStores, Sound
<1>2. q \in Seq(Cookie)
  BY <1>1, StoreParts
<1>3. ListIsOf(q, l.d)
  <2>1. CASE l.d \in DOMAIN s.domains
    BY <1>1, <2>1 DEF ListOf, HasNode
  <2>2. CASE l.d \notin DOMAIN s.domains
    BY <2>2 DEF ListOf, HasNode, ListIsOf
  <2> QED BY <2>1, <2>2
<1>4. \A e : Among(q, e) => e \in Cookie /\ e.domain = l.d
  <2> HIDE DEF q
  <2> QED BY <1>2, <1>3 DEF Among, ListIsOf
<1>5. ASSUME NEW e PROVE Hits(e, url, l, ssl) <=> Wanted(e, url, ssl) /\ e.hostOnly = l.hostOnly
  BY DEF Hits, Wanted, CookieMatches
<1>6. ASSUME NEW e, Among(q, e), Hits(e, url, l, ssl)
      PROVE  e \in Cookie /\ Among(Store.all, e) /\ Wanted(e, url, ssl) /\ Asks(l, e)
  <2>1. e \in Cookie /\ e.domain = l.d
    BY <1>4, <1>6
  <2>2. Among(s.all, e)
    BY <1>1, <1>6, <2>1
  <2>3. Among(Store.all, e)
    BY <1>1, <2>1, <2>2 DEF Fewer
  <2>4. Wanted(e, url, ssl) /\ e.hostOnly = l.hostOnly
    BY <1>5, <1>6
  <2> QED BY <2>1, <2>3, <2>4 DEF Asks
<1>7. ASSUME NEW e \in Cookie, Among(Store.all, e), Wanted(e, url, ssl), Asks(l, e)
      PROVE  Among(q, e) /\ Hits(e, url, l, ssl)
  <2>1. ~Expired(e)
    BY <1>7 DEF Wanted
  <2>2. Among(s.all, e)
    BY <1>1, <1>7, <2>1 DEF KeepsLive
  <2>3. Among(ListOf(s, e.domain), e) /\ e.domain = l.d /\ e.hostOnly = l.hostOnly
    BY <1>1, <1>7, <2>2 DEF Asks
  <2> QED BY <1>5, <1>7, <2>3
<1> QED BY <1>2, <1>3, <1>6, <1>7, ListIsDistinct

\* The answer has the live cookies that some lookup asks for, in the store before the sweeps.
LEMMA AnswerRight ==
  ASSUME Store \in GoodStores, NEW ls, Len(ls) \in Nat, NEW url, NEW ssl,
         \A i, j \in 1 .. Len(ls) : ls[i].d = ls[j].d /\ ls[i].hostOnly = ls[j].hostOnly => i = j
  PROVE  /\ Answer(Swept(ls), ls, url, ssl) \in Answers
         /\ \A e : Among(Answer(Swept(ls), ls, url, ssl), e)
                     <=> /\ e \in Cookie /\ Among(Store.all, e)
                         /\ Wanted(e, url, ssl) /\ \E j \in 1 .. Len(ls) : Asks(ls[j], e)
<1> DEFINE n == Len(ls)
           swept == Swept(ls)
           In(e) == e \in Cookie /\ Among(Store.all, e) /\ Wanted(e, url, ssl)
           Asked(k, e) == \E j \in 1 .. k : Asks(ls[j], e)
           Got(k) == {y \in Answers : \A e : Among(y, e) <=> In(e) /\ Asked(k, e)}
           Next(k, y) == AddMatching(y, ListOf(swept[k], ls[k].d), url, ls[k], ssl)
           G == [k \in 0 .. n |-> Got(k)]
           T == [k \in 1 .. n |-> [y \in Got(k - 1) |-> Next(k, y)]]
           loop == CHOOSE f : f = [k \in 0 .. n |->
                     IF k = 0 THEN <<>>
                     ELSE AddMatching(f[k - 1], ListOf(swept[k], ls[k].d), url, ls[k], ssl)]
<1>1. Answer(swept, ls, url, ssl) = loop[n]
  BY DEF Answer
<1> HIDE DEF loop
<1>2. /\ \A k \in 1 .. n : k \in 0 .. n /\ k - 1 \in 0 .. n /\ k # 0
      /\ n \in Nat /\ 0 \in 0 .. n /\ n \in 0 .. n
  <2> HIDE DEF n
  <2> QED BY DEF n
<1>3. ASSUME NEW k \in 1 .. n, NEW y \in Got(k - 1) PROVE Next(k, y) \in Got(k)
  <2> DEFINE l == ls[k]
             q == ListOf(swept[k], l.d)
  <2>1. y \in Answers /\ \A e : Among(y, e) <=> In(e) /\ Asked(k - 1, e)
    OBVIOUS
  <2>2. swept[k] \in SweptOf(Store)
    BY <1>2, SweptRight
  <2>3. /\ q \in Seq(Cookie) /\ Distinct(q)
        /\ \A e : Among(q, e) /\ Hits(e, url, l, ssl) <=> In(e) /\ Asks(l, e)
    BY <2>2, MatchedRight
  <2>4. ASSUME NEW e PROVE Asked(k, e) <=> Asked(k - 1, e) \/ Asks(l, e)
    <3>1. \A j \in 1 .. k : j \in 1 .. k - 1 \/ j = k
      BY <1>2
    <3>2. k \in 1 .. k /\ \A j \in 1 .. k - 1 : j \in 1 .. k
      BY <1>2
    <3> QED BY <3>1, <3>2
  <2>5. ASSUME NEW e PROVE ~(Asked(k - 1, e) /\ Asks(l, e))
    <3>1. \A j \in 1 .. k - 1 : j \in 1 .. n /\ j # k
      <4> HIDE DEF n
      <4> QED BY <1>2
    <3> QED BY <3>1 DEF Asks
  <2> HIDE DEF In, Asked, l, q
  <2>6. \A j \in 1 .. Len(q) : Hits(q[j], url, l, ssl) => ~Among(y, q[j])
    <3> SUFFICES ASSUME NEW j \in 1 .. Len(q), Hits(q[j], url, l, ssl), Among(y, q[j]) PROVE FALSE
      OBVIOUS
    <3>1. Among(q, q[j])
      BY DEF Among
    <3> QED BY <2>1, <2>3, <2>5, <3>1
  <2>7. /\ AddMatching(y, q, url, l, ssl) \in Answers
        /\ \A e : Among(AddMatching(y, q, url, l, ssl), e)
                    <=> Among(y, e) \/ (Among(q, e) /\ Hits(e, url, l, ssl))
    <3>1. y \in Answers /\ q \in Seq(Cookie) /\ Distinct(q)
      BY <2>1, <2>3
    <3> QED BY <2>6, <3>1, AddMatchingRight
  <2>8. \A e : Among(AddMatching(y, q, url, l, ssl), e) <=> In(e) /\ Asked(k, e)
    <3> SUFFICES ASSUME NEW e
                 PROVE  Among(AddMatching(y, q, url, l, ssl), e) <=> In(e) /\ Asked(k, e)
      OBVIOUS
    <3>1. Among(y, e) <=> In(e) /\ Asked(k - 1, e)
      BY <2>1
    <3>2. Among(q, e) /\ Hits(e, url, l, ssl) <=> In(e) /\ Asks(l, e)
      BY <2>3
    <3> QED BY <2>4, <2>7, <3>1, <3>2
  <2> QED BY <2>7, <2>8 DEF l, q
<1>4. <<>> \in Got(0)
  <2>1. <<>> \in Answers /\ \A e : ~Among(<<>>, e)
    BY DEF Answers, Distinct, ByPath, Among
  <2>2. \A e : ~Asked(0, e)
    OBVIOUS
  <2> HIDE DEF In, Asked
  <2> QED BY <2>1, <2>2
<1>5. \A y \in Got(n) : y \in Answers /\ \A e : Among(y, e) <=> In(e) /\ Asked(n, e)
  OBVIOUS
<1> HIDE DEF n, Got, In, Asked, swept, Next
<1>6. /\ <<>> \in G[0]
      /\ \A k \in 0 .. n : G[k] = Got(k)
      /\ \A k \in 1 .. n : \A y \in Got(k - 1) : T[k][y] = Next(k, y)
  BY <1>2, <1>4
<1> HIDE DEF G, T
<1>7. \A k \in 1 .. n : \A y \in G[k - 1] : T[k][y] \in G[k]
  BY <1>2, <1>3, <1>6
<1>8. PICK f : Run(f, n, <<>>, T, G)
  BY <1>2, <1>6, <1>7, LoopRuns
<1>9. f = [k \in 0 .. n |-> IF k = 0 THEN <<>> ELSE Next(k, f[k - 1])]
  <2>1. f = [k \in 0 .. n |-> IF k = 0 THEN <<>> ELSE T[k][f[k - 1]]]
    BY <1>8 DEF Run
  <2>2. \A k \in 0 .. n : k # 0 => T[k][f[k - 1]] = Next(k, f[k - 1])
    <3>1. \A k \in 0 .. n : k # 0 => k \in 1 .. n
      BY <1>2
    <3>2. \A k \in 1 .. n : f[k - 1] \in Got(k - 1)
      BY <1>2, <1>6, <1>8 DEF Run
    <3> QED BY <1>6, <3>1, <3>2
  <2> QED BY <2>1, <2>2
<1>10. loop = [k \in 0 .. n |-> IF k = 0 THEN <<>> ELSE Next(k, loop[k - 1])]
  BY <1>9 DEF loop, Next
<1>11. \A k \in 0 .. n : loop[k] \in G[k]
  <2>1. loop[0] = <<>> /\ \A k \in 1 .. n : loop[k] = Next(k, loop[k - 1])
    BY <1>2, <1>10
  <2>2. \A k \in 1 .. n : loop[k - 1] \in G[k - 1] => loop[k] = T[k][loop[k - 1]]
    BY <1>2, <1>6, <2>1
  <2>3. Follows(loop, n, <<>>, T, G)
    BY <2>1, <2>2 DEF Follows
  <2> QED BY <1>2, <1>6, <1>7, <2>3, LoopStays
<1>12. loop[n] \in Got(n)
  BY <1>2, <1>6, <1>11
<1> QED BY <1>1, <1>5, <1>12 DEF In, Asked, n, swept

\* A name without its first i labels.
TailOf(q, i) == [j \in 1 .. Len(q) - i |-> q[i + j]]

LEMMA TailRight ==
  ASSUME NEW S, NEW q \in Seq(S), NEW i \in 0 .. Len(q)
  PROVE  /\ TailOf(q, i) \in Seq(S) /\ Len(TailOf(q, i)) = Len(q) - i
         /\ \A j \in 1 .. Len(q) - i : TailOf(q, i)[j] = q[i + j]
<1>1. Len(q) \in Nat /\ i \in Nat /\ Len(q) - i \in Nat
  OBVIOUS
<1>2. \A j \in 1 .. Len(q) - i : i + j \in 1 .. Len(q)
  BY <1>1
<1>3. \A j \in 1 .. Len(q) - i : q[i + j] \in S
  BY <1>2
<1> DEFINE m == Len(q) - i
<1>4. TailOf(q, i) = [j \in 1 .. m |-> q[i + j]]
  BY DEF TailOf
<1> HIDE DEF m
<1>5. m \in Nat /\ \A j \in 1 .. m : q[i + j] \in S
  BY <1>1, <1>3 DEF m
<1>6. [j \in 1 .. m |-> q[i + j]] \in Seq(S) /\ Len([j \in 1 .. m |-> q[i + j]]) = m
  BY <1>5
<1>7. \A j \in 1 .. m : TailOf(q, i)[j] = q[i + j]
  BY <1>4
<1> QED BY <1>4, <1>6, <1>7 DEF m

\* The proper suffixes of a name that have a label are its tails.
LEMMA SuffixIsTail ==
  ASSUME NEW S, NEW q \in Seq(S), NEW s \in Seq(S), s # <<>>
  PROVE  IsStrictSuffix(s, q) <=> \E i \in 1 .. Len(q) - 1 : s = TailOf(q, i)
<1> DEFINE n == Len(q)
           m == Len(s)
           rq == Reverse(q)
           rs == Reverse(s)
<1>1. n \in Nat /\ m \in Nat /\ m # 0
  OBVIOUS
<1>2. /\ rq = [j \in 1 .. n |-> q[(n - j) + 1]] /\ rs = [j \in 1 .. m |-> s[(m - j) + 1]]
  BY DEF Reverse
<1>3. /\ \A j \in 1 .. n : (n - j) + 1 \in 1 .. n
      /\ \A j \in 1 .. m : (m - j) + 1 \in 1 .. m
  <2> HIDE DEF n, m
  <2> QED BY <1>1
<1>4. /\ \A j \in 1 .. n : q[(n - j) + 1] \in S
      /\ \A j \in 1 .. m : s[(m - j) + 1] \in S
  BY <1>3
<1> HIDE DEF n, m, rq, rs
<1>5. /\ rq \in Seq(S) /\ Len(rq) = n /\ \A j \in 1 .. n : rq[j] = q[(n - j) + 1]
      /\ rs \in Seq(S) /\ Len(rs) = m /\ \A j \in 1 .. m : rs[j] = s[(m - j) + 1]
  BY <1>1, <1>2, <1>4
<1>6. SubSeq(rs, 1, m) = rs
  BY <1>1, <1>5
<1>7. m <= n => /\ SubSeq(rq, 1, m) \in Seq(S) /\ Len(SubSeq(rq, 1, m)) = m
                /\ \A j \in 1 .. m : SubSeq(rq, 1, m)[j] = rq[j]
  BY <1>1, <1>5
<1>8. IsSuffix(s, q) <=> m <= n /\ rs = SubSeq(rq, 1, m)
  BY <1>5, <1>6 DEF IsSuffix, IsPrefix, rs, rq
<1>9. m <= n => (rs = SubSeq(rq, 1, m) <=> \A j \in 1 .. m : rs[j] = rq[j])
  <2> SUFFICES ASSUME m <= n PROVE rs = SubSeq(rq, 1, m) <=> \A j \in 1 .. m : rs[j] = rq[j]
    OBVIOUS
  <2> QED BY <1>1, <1>5, <1>7, SeqEqual
<1>10. ASSUME m <= n, \A j \in 1 .. m : rs[j] = rq[j], NEW j \in 1 .. m
       PROVE  s[j] = q[(n - m) + j]
  <2>1. /\ (m - j) + 1 \in 1 .. m /\ (m - j) + 1 \in 1 .. n
        /\ (m - ((m - j) + 1)) + 1 = j /\ (n - ((m - j) + 1)) + 1 = (n - m) + j
    BY <1>1, <1>10
  <2>2. rs[(m - j) + 1] = s[(m - ((m - j) + 1)) + 1] /\ rq[(m - j) + 1] = q[(n - ((m - j) + 1)) + 1]
    BY <1>5, <2>1
  <2> QED BY <1>10, <2>1, <2>2
<1>11. ASSUME m <= n, \A j \in 1 .. m : s[j] = q[(n - m) + j], NEW j \in 1 .. m
       PROVE  rs[j] = rq[j]
  <2>1. /\ (m - j) + 1 \in 1 .. m /\ j \in 1 .. n
        /\ (n - m) + ((m - j) + 1) = (n - j) + 1
    BY <1>1, <1>11
  <2>2. s[(m - j) + 1] = q[(n - m) + ((m - j) + 1)]
    BY <1>11, <2>1
  <2> QED BY <1>5, <2>1, <2>2
<1>12. IsSuffix(s, q) <=> m <= n /\ \A j \in 1 .. m : s[j] = q[(n - m) + j]
  BY <1>8, <1>9, <1>10, <1>11
<1>13. ASSUME IsStrictSuffix(s, q) PROVE \E i \in 1 .. n - 1 : s = TailOf(q, i)
  <2>1. s # q /\ m <= n /\ \A j \in 1 .. m : s[j] = q[(n - m) + j]
    BY <1>12, <1>13 DEF IsStrictSuffix
  <2>2. n # m
    <3> SUFFICES ASSUME n = m PROVE FALSE
      OBVIOUS
    <3>1. \A j \in 1 .. m : s[j] = q[j]
      BY <1>1, <2>1
    <3>2. s = q
      BY <1>1, <3>1, SeqEqual DEF n, m
    <3> QED BY <2>1, <3>2
  <2> DEFINE i == n - m
  <2>3. i \in 1 .. n - 1 /\ i \in 0 .. n /\ n - i = m
    BY <1>1, <2>1, <2>2
  <2> HIDE DEF i
  <2>4. /\ TailOf(q, i) \in Seq(S) /\ Len(TailOf(q, i)) = m
        /\ \A j \in 1 .. m : TailOf(q, i)[j] = q[i + j]
    BY <2>3, TailRight DEF n
  <2>5. s = TailOf(q, i)
    BY <2>1, <2>4, SeqEqual DEF i, m
  <2> QED BY <2>3, <2>5
<1>14. ASSUME NEW i \in 1 .. n - 1, s = TailOf(q, i) PROVE IsStrictSuffix(s, q)
  <2>1. i \in 0 .. n /\ i \in Nat /\ i # 0 /\ i < n
    BY <1>1
  <2>2. m = n - i /\ \A j \in 1 .. n - i : s[j] = q[i + j]
    BY <1>14, <2>1, TailRight DEF n, m
  <2>3. m <= n /\ n - m = i /\ m # n
    BY <1>1, <2>1, <2>2
  <2>4. IsSuffix(s, q)
    BY <1>12, <2>2, <2>3
  <2>5. s # q
    BY <2>3 DEF n, m
  <2> QED BY <2>4, <2>5 DEF IsStrictSuffix
<1> QED BY <1>13, <1>14 DEF n

\* What Cookies_get looks up: a domain and a kind.
LookupSet == [d : [dot : BOOLEAN, labels : Seq(STRING)], hostOnly : BOOLEAN]

LEMMA AsksRight ==
  ASSUME NEW l \in LookupSet, NEW c \in Cookie
  PROVE  Asks(l, c) <=> /\ l.d.dot <=> c.domain.dot
                        /\ l.d.labels = c.domain.labels
                        /\ l.hostOnly <=> c.hostOnly
<1>1. /\ l.d \in [dot : BOOLEAN, labels : Seq(STRING)] /\ l.hostOnly \in BOOLEAN
  BY DEF LookupSet
<1>2. /\ c.domain \in [dot : BOOLEAN, labels : Seq(STRING)] /\ c.hostOnly \in BOOLEAN
  BY CookieParts
<1>3. \A d, e \in [dot : BOOLEAN, labels : Seq(STRING)] :
        d = e <=> (d.dot <=> e.dot) /\ d.labels = e.labels
  OBVIOUS
<1>4. l.d = c.domain <=> (l.d.dot <=> c.domain.dot) /\ l.d.labels = c.domain.labels
  BY <1>1, <1>2, <1>3
<1>5. l.hostOnly = c.hostOnly <=> (l.hostOnly <=> c.hostOnly)
  BY <1>1, <1>2
<1> QED BY <1>4, <1>5 DEF Asks

\* Cookies_get looks up the domains a cookie for the host may have, each of them once.
LEMMA LookupsRight ==
  ASSUME NEW r \in Requests
  PROVE  /\ Len(Lookups(r.host)) \in Nat
         /\ \A i, j \in 1 .. Len(Lookups(r.host)) :
              /\ Lookups(r.host)[i].d = Lookups(r.host)[j].d
              /\ Lookups(r.host)[i].hostOnly = Lookups(r.host)[j].hostOnly
              => i = j
         /\ \A c \in Cookie :
              (\E j \in 1 .. Len(Lookups(r.host)) : Asks(Lookups(r.host)[j], c)) <=> IsFor(c, r.host)
<1> DEFINE host == r.host
           h == Len(host)
           ls == Lookups(host)
           dotted == [d |-> Dom(TRUE, host), hostOnly |-> FALSE]
           own == [d |-> Dom(FALSE, host), hostOnly |-> TRUE]
           plain == [d |-> Dom(FALSE, host), hostOnly |-> FALSE]
           Tail_(i) == [j \in 1 .. (h - i) |-> host[i + j]]
           At(k) == [d |-> Dom(k % 2 = 1, Tail_((k + 1) \div 2)), hostOnly |-> FALSE]
           a == <<own, plain>>
           b == <<dotted, own, plain>>
           m == 2 * (h - 1)
           above == [k \in 1 .. m |-> At(k)]
           P(l, dot, labels, only) == /\ l \in LookupSet /\ l.d.labels = labels
                                      /\ (l.d.dot <=> dot) /\ (l.hostOnly <=> only)
<1>1. host \in Seq(STRING) /\ h \in Nat \ {0} /\ m \in Nat
  <2>1. host \in Seq(STRING) /\ host # <<>>
    BY HostsHaveNames
  <2>2. h \in Nat \ {0}
    BY <2>1
  <2> HIDE DEF h
  <2> QED BY <2>1, <2>2
<1>2. ls = IF host \in Addresses THEN a ELSE b \o above
  BY DEF Lookups
<1>3. \A i : Tail_(i) = TailOf(host, i)
  BY DEF TailOf
<1>4. ASSUME NEW i \in 1 .. h - 1 PROVE Tail_(i) \in Seq(STRING) /\ Len(Tail_(i)) = h - i
  <2>1. i \in 0 .. Len(host)
    BY <1>1
  <2>2. TailOf(host, i) \in Seq(STRING) /\ Len(TailOf(host, i)) = Len(host) - i
    BY <1>1, <2>1, TailRight
  <2> QED BY <1>3, <2>2
<1> HIDE DEF host, h, Tail_
\* The lookups above the host go through its tails, each with the dot and without.
<1>5. ASSUME NEW k \in 1 .. m
      PROVE  /\ (k + 1) \div 2 \in 1 .. h - 1 /\ (k + 1) \div 2 \in Int
             /\ k = 2 * ((k + 1) \div 2) - (IF k % 2 = 1 THEN 1 ELSE 0)
  BY <1>1
<1>6. ASSUME NEW i \in 1 .. h - 1, NEW dot \in BOOLEAN
      PROVE  \E k \in 1 .. m : (k % 2 = 1 <=> dot) /\ (k + 1) \div 2 = i
  <2>1. CASE dot
    <3>1. 2 * i - 1 \in 1 .. m /\ (2 * i - 1) % 2 = 1 /\ (2 * i - 1 + 1) \div 2 = i
      BY <1>1
    <3> QED BY <2>1, <3>1
  <2>2. CASE ~dot
    <3>1. 2 * i \in 1 .. m /\ (2 * i) % 2 # 1 /\ (2 * i + 1) \div 2 = i
      BY <1>1
    <3> QED BY <2>2, <3>1
  <2> QED BY <2>1, <2>2
<1>7. P(dotted, TRUE, host, FALSE) /\ P(own, FALSE, host, TRUE) /\ P(plain, FALSE, host, FALSE)
  BY <1>1 DEF Dom, LookupSet
<1>8. ASSUME NEW k \in 1 .. m PROVE P(At(k), k % 2 = 1, Tail_((k + 1) \div 2), FALSE)
  <2> DEFINE dot == k % 2 = 1
             t == Tail_((k + 1) \div 2)
  <2>1. t \in Seq(STRING) /\ dot \in BOOLEAN
    BY <1>4, <1>5
  <2>2. At(k) = [d |-> [dot |-> dot, labels |-> t], hostOnly |-> FALSE]
    BY DEF Dom
  <2> HIDE DEF dot, t, At
  <2>3. P(At(k), dot, t, FALSE)
    BY <2>1, <2>2 DEF LookupSet
  <2> QED BY <2>3 DEF dot, t
<1> HIDE DEF dotted, own, plain, At
<1>9. ASSUME NEW c \in Cookie, NEW l, NEW dot, NEW labels, NEW only, P(l, dot, labels, only)
      PROVE  Asks(l, c) <=> /\ c.domain.dot <=> dot
                            /\ c.domain.labels = labels
                            /\ c.hostOnly <=> only
  BY <1>9, AsksRight
<1>10. ASSUME NEW c \in Cookie
       PROVE  /\ c.domain.dot \in BOOLEAN /\ c.hostOnly \in BOOLEAN /\ (c.hostOnly => ~c.domain.dot)
              /\ c.domain.labels \in Seq(STRING) /\ c.domain.labels # <<>>
  BY CookieParts
<1>11. ASSUME NEW c \in Cookie
       PROVE  /\ Asks(dotted, c) <=> ~c.hostOnly /\ c.domain.dot /\ c.domain.labels = host
              /\ Asks(own, c) <=> c.hostOnly /\ c.domain.labels = host
              /\ Asks(plain, c) <=> ~c.hostOnly /\ ~c.domain.dot /\ c.domain.labels = host
  <2> HIDE DEF P
  <2>1. Asks(dotted, c) <=> /\ c.domain.dot <=> TRUE
                            /\ c.domain.labels = host
                            /\ c.hostOnly <=> FALSE
    BY <1>7, <1>9
  <2>2. Asks(own, c) <=> /\ c.domain.dot <=> FALSE
                         /\ c.domain.labels = host
                         /\ c.hostOnly <=> TRUE
    BY <1>7, <1>9
  <2>3. Asks(plain, c) <=> /\ c.domain.dot <=> FALSE
                           /\ c.domain.labels = host
                           /\ c.hostOnly <=> FALSE
    BY <1>7, <1>9
  <2> QED BY <1>10, <2>1, <2>2, <2>3
<1>12. CASE host \in Addresses
  <2>1. ls = a /\ Len(a) = 2 /\ a[1] = own /\ a[2] = plain
    BY <1>2, <1>12
  <2> HIDE DEF ls, a
  <2>2. ASSUME NEW c \in Cookie PROVE (\E j \in 1 .. Len(ls) : Asks(ls[j], c)) <=> IsFor(c, host)
    <3>1. (\E j \in 1 .. 2 : Asks(ls[j], c)) <=> Asks(ls[1], c) \/ Asks(ls[2], c)
      <4>1. \A j : j \in 1 .. 2 <=> j = 1 \/ j = 2
        OBVIOUS
      <4> QED BY <4>1
    <3>2. IsFor(c, host) <=> c.domain.labels = host /\ ~c.domain.dot
      BY <1>10, <1>12 DEF IsFor
    <3> QED BY <1>10, <1>11, <2>1, <3>1, <3>2
  <2>3. ASSUME NEW i \in 1 .. Len(ls), NEW j \in 1 .. Len(ls), ls[i].hostOnly = ls[j].hostOnly
        PROVE  i = j
    <3>1. (i = 1 \/ i = 2) /\ (j = 1 \/ j = 2)
      BY <2>1
    <3>2. own.hostOnly # plain.hostOnly
      BY <1>7
    <3> QED BY <2>1, <2>3, <3>1, <3>2
  <2> QED BY <2>1, <2>2, <2>3 DEF ls, host
<1>13. CASE host \notin Addresses
  <2>1. ls = b \o above
    BY <1>2, <1>13
  <2> DEFINE A == {dotted, own, plain} \cup {At(k) : k \in 1 .. m}
  <2>2. b \in Seq(A) /\ Len(b) = 3 /\ b[1] = dotted /\ b[2] = own /\ b[3] = plain
    OBVIOUS
  <2>3. above \in Seq(A) /\ Len(above) = m /\ \A k \in 1 .. m : above[k] = At(k)
    <3>1. \A k \in 1 .. m : At(k) \in A
      OBVIOUS
    <3> HIDE DEF A, m
    <3> QED BY <1>1, <3>1
  <2> HIDE DEF ls, b, above, A, m
  <2>4. /\ Len(ls) = 3 + m
        /\ ls[1] = dotted /\ ls[2] = own /\ ls[3] = plain
        /\ \A k \in 1 .. m : ls[3 + k] = At(k)
    <3>1. /\ Len(b \o above) = Len(b) + Len(above)
          /\ \A i \in 1 .. Len(b) + Len(above) :
               (b \o above)[i] = IF i <= Len(b) THEN b[i] ELSE above[i - Len(b)]
      BY <2>2, <2>3, ConcatProperties
    <3>2. /\ Len(ls) = 3 + m
          /\ \A i \in 1 .. 3 + m : ls[i] = IF i <= 3 THEN b[i] ELSE above[i - 3]
      BY <2>1, <2>2, <2>3, <3>1
    <3>3. \A k \in 1 .. m : 3 + k \in 1 .. 3 + m /\ ~(3 + k <= 3) /\ 3 + k - 3 = k
      BY <1>1
    <3>4. 1 \in 1 .. 3 + m /\ 2 \in 1 .. 3 + m /\ 3 \in 1 .. 3 + m
      BY <1>1
    <3>5. ls[1] = b[1] /\ ls[2] = b[2] /\ ls[3] = b[3]
      BY <3>2, <3>4
    <3>6. ASSUME NEW k \in 1 .. m PROVE ls[3 + k] = At(k)
      <4>1. ls[3 + k] = above[3 + k - 3]
        BY <3>2, <3>3
      <4> QED BY <2>3, <3>3, <4>1
    <3> QED BY <2>2, <3>2, <3>5, <3>6
  \* Which of them a lookup is.
  <2>5. ASSUME NEW j \in 1 .. Len(ls)
        PROVE  \/ j = 1 /\ ls[j] = dotted
               \/ j = 2 /\ ls[j] = own
               \/ j = 3 /\ ls[j] = plain
               \/ j - 3 \in 1 .. m /\ ls[j] = At(j - 3)
    <3>1. j = 1 \/ j = 2 \/ j = 3 \/ (j - 3 \in 1 .. m /\ j = 3 + (j - 3))
      BY <1>1, <2>4
    <3>2. ASSUME j - 3 \in 1 .. m, j = 3 + (j - 3) PROVE ls[j] = At(j - 3)
      <4> DEFINE k == j - 3
      <4>1. ls[3 + k] = At(k)
        BY <2>4, <3>2
      <4> HIDE DEF k
      <4>2. ls[j] = ls[3 + k]
        BY <3>2 DEF k
      <4> QED BY <4>1, <4>2 DEF k
    <3>3. j = 1 => ls[j] = dotted
      BY <2>4
    <3>4. j = 2 => ls[j] = own
      BY <2>4
    <3>5. j = 3 => ls[j] = plain
      BY <2>4
    <3> QED BY <3>1, <3>2, <3>3, <3>4, <3>5
  <2>6. ASSUME NEW c \in Cookie PROVE (\E j \in 1 .. Len(ls) : Asks(ls[j], c)) <=> IsFor(c, host)
    <3> DEFINE Above == \E k \in 1 .. m : Asks(At(k), c)
    <3>1. (\E j \in 1 .. Len(ls) : Asks(ls[j], c))
             <=> Asks(dotted, c) \/ Asks(own, c) \/ Asks(plain, c) \/ Above
      <4>1. \A k \in 1 .. m : 3 + k \in 1 .. 3 + m
        BY <1>1
      <4>2. 1 \in 1 .. 3 + m /\ 2 \in 1 .. 3 + m /\ 3 \in 1 .. 3 + m
        BY <1>1
      <4> QED BY <2>4, <2>5, <4>1, <4>2
    <3>2. Above <=> ~c.hostOnly /\ \E i \in 1 .. h - 1 : c.domain.labels = Tail_(i)
      <4>1. ASSUME NEW k \in 1 .. m
            PROVE  Asks(At(k), c) <=> /\ c.domain.dot <=> k % 2 = 1
                                      /\ c.domain.labels = Tail_((k + 1) \div 2)
                                      /\ c.hostOnly <=> FALSE
        <5> HIDE DEF P
        <5> QED BY <1>8, <1>9 DEF m
      <4>2. ASSUME NEW k \in 1 .. m, Asks(At(k), c)
            PROVE  ~c.hostOnly /\ \E i \in 1 .. h - 1 : c.domain.labels = Tail_(i)
        <5>1. (k + 1) \div 2 \in 1 .. h - 1
          BY <1>5 DEF m
        <5> QED BY <4>1, <4>2, <5>1
      <4>3. ASSUME ~c.hostOnly, NEW i \in 1 .. h - 1, c.domain.labels = Tail_(i) PROVE Above
        <5>1. PICK k \in 1 .. m : (k % 2 = 1 <=> c.domain.dot) /\ (k + 1) \div 2 = i
          BY <1>6, <1>10 DEF m
        <5>2. Asks(At(k), c)
          BY <4>1, <4>3, <5>1
        <5> QED BY <5>2
      <4> QED BY <4>2, <4>3
    <3>3. (\E i \in 1 .. h - 1 : c.domain.labels = Tail_(i)) <=> IsStrictSuffix(c.domain.labels, host)
      <4>1. IsStrictSuffix(c.domain.labels, host)
              <=> \E i \in 1 .. Len(host) - 1 : c.domain.labels = TailOf(host, i)
        BY <1>1, <1>10, SuffixIsTail
      <4> QED BY <1>3, <4>1 DEF h
    <3>4. IsFor(c, host) <=> IF c.hostOnly THEN host = c.domain.labels
                             ELSE host = c.domain.labels \/ IsStrictSuffix(c.domain.labels, host)
      BY <1>13 DEF IsFor
    <3> QED BY <1>10, <1>11, <3>1, <3>2, <3>3, <3>4
  <2>7. ASSUME NEW i \in 1 .. Len(ls), NEW j \in 1 .. Len(ls),
               ls[i].d = ls[j].d, ls[i].hostOnly = ls[j].hostOnly
        PROVE  i = j
    <3>1. ASSUME NEW k \in 1 .. m
          PROVE  /\ Len(At(k).d.labels) = h - (k + 1) \div 2 /\ At(k).d.labels # host
                 /\ At(k).d.dot <=> k % 2 = 1
      <4>1. At(k).d.labels = Tail_((k + 1) \div 2) /\ (At(k).d.dot <=> k % 2 = 1)
        BY <1>8 DEF m
      <4>2. /\ Len(At(k).d.labels) = h - (k + 1) \div 2
            /\ (k + 1) \div 2 \in Int /\ (k + 1) \div 2 >= 1
        BY <1>1, <1>4, <1>5, <4>1 DEF m
      <4>3. Len(At(k).d.labels) # h
        BY <1>1, <4>2
      <4> QED BY <4>1, <4>2, <4>3 DEF h
    <3>2. /\ dotted.d.labels = host /\ dotted.d.dot /\ ~dotted.hostOnly
          /\ own.d.labels = host /\ ~own.d.dot /\ own.hostOnly
          /\ plain.d.labels = host /\ ~plain.d.dot /\ ~plain.hostOnly
      BY <1>7
    <3>3. CASE i - 3 \in 1 .. m /\ j - 3 \in 1 .. m
      <4> DEFINE x == i - 3
                 y == j - 3
      <4>1. ls[i] = At(x) /\ ls[j] = At(y)
        BY <1>1, <2>5, <3>3
      <4>2. x \in 1 .. m /\ y \in 1 .. m /\ i = x + 3 /\ j = y + 3
        BY <2>4, <3>3
      <4> HIDE DEF x, y
      <4>3. /\ h - (x + 1) \div 2 = h - (y + 1) \div 2
            /\ (x % 2 = 1 <=> y % 2 = 1)
        <5>1. At(x).d = At(y).d
          BY <2>7, <4>1
        <5> QED BY <3>1, <4>2, <5>1
      <4>4. /\ x = 2 * ((x + 1) \div 2) - (IF x % 2 = 1 THEN 1 ELSE 0)
            /\ y = 2 * ((y + 1) \div 2) - (IF y % 2 = 1 THEN 1 ELSE 0)
            /\ (x + 1) \div 2 \in Int /\ (y + 1) \div 2 \in Int
        BY <1>5, <4>2 DEF m
      <4>5. (x + 1) \div 2 = (y + 1) \div 2
        BY <1>1, <4>3, <4>4
      <4> QED BY <4>2, <4>3, <4>4, <4>5
    <3>4. CASE i - 3 \in 1 .. m /\ j - 3 \notin 1 .. m
      <4>1. ls[i].d.labels # host
        BY <2>5, <3>1, <3>4
      <4>2. ls[j].d.labels = host
        BY <2>5, <3>2, <3>4
      <4> QED BY <2>7, <4>1, <4>2
    <3>5. CASE i - 3 \notin 1 .. m /\ j - 3 \in 1 .. m
      <4>1. ls[j].d.labels # host
        BY <2>5, <3>1, <3>5
      <4>2. ls[i].d.labels = host
        BY <2>5, <3>2, <3>5
      <4> QED BY <2>7, <4>1, <4>2
    <3>6. CASE i - 3 \notin 1 .. m /\ j - 3 \notin 1 .. m
      <4>1. \/ i = 1 /\ ls[i] = dotted
            \/ i = 2 /\ ls[i] = own
            \/ i = 3 /\ ls[i] = plain
        BY <2>5, <3>6
      <4>2. \/ j = 1 /\ ls[j] = dotted
            \/ j = 2 /\ ls[j] = own
            \/ j = 3 /\ ls[j] = plain
        BY <2>5, <3>6
      <4>3. dotted.d # plain.d /\ dotted.d # own.d /\ own.hostOnly # plain.hostOnly
        BY <3>2
      <4> QED BY <2>7, <4>1, <4>2, <4>3
    <3> QED BY <3>3, <3>4, <3>5, <3>6
  <2>8. Len(ls) \in Nat
    BY <1>1, <2>4 DEF m
  <2> QED BY <2>6, <2>7, <2>8 DEF ls, host
<1> QED BY <1>12, <1>13

\* Cookies_get answers with what the request may have.
LEMMA GetIsRight ==
  ASSUME useCount \in Nat, Store \in GoodStores,
         NEW r \in Requests, Get(r.host, r.path, r.ssl)
  PROVE  SentIsRight'
<1> DEFINE ls == Lookups(r.host)
           s == Swept(ls)[Len(ls)]
           a == Answer(Swept(ls), ls, r.path, r.ssl)
           q == s.all
           Right(c) == Wanted(c, r.path, r.ssl) /\ IsFor(c, r.host)
<1>1. /\ all' = UsedList(q, a) /\ time' = time
      /\ sent'.host = r.host /\ sent'.path = r.path /\ sent'.ssl = r.ssl
      /\ sent'.cookies = UsedList(a, a)
  BY DEF Get, SetStore, UsedStore
<1>2. /\ Len(ls) \in Nat
      /\ \A i, j \in 1 .. Len(ls) : ls[i].d = ls[j].d /\ ls[i].hostOnly = ls[j].hostOnly => i = j
      /\ \A c \in Cookie : (\E j \in 1 .. Len(ls) : Asks(ls[j], c)) <=> IsFor(c, r.host)
  BY LookupsRight
<1>3. s \in SweptOf(Store)
  <2>1. Len(ls) \in 0 .. Len(ls)
    BY <1>2
  <2> QED BY <1>2, <2>1, SweptRight
<1>4. /\ a \in Answers
      /\ \A e : Among(a, e) <=>
            /\ e \in Cookie /\ Among(Store.all, e)
            /\ Wanted(e, r.path, r.ssl)
            /\ \E j \in 1 .. Len(ls) : Asks(ls[j], e)
  <2> HIDE DEF ls
  <2> QED BY <1>2, AnswerRight
<1>5. \A e \in Cookie : Among(a, e) <=> Among(Store.all, e) /\ Right(e)
  BY <1>2, <1>4
<1> HIDE DEF ls, s, a
<1>6. /\ s \in GoodStores /\ q \in Seq(Cookie) /\ a \in Seq(Cookie)
      /\ Distinct(a) /\ ByPath(a)
  <2>1. s \in GoodStores /\ s \in Stores
    BY <1>3 DEF SweptOf, GoodStores
  <2> QED BY <1>4, <2>1, StoreParts DEF Answers
<1>7. \A e \in Cookie : Among(q, e) => (Among(a, e) <=> Right(e))
  BY <1>3, <1>5 DEF SweptOf, Fewer
<1>8. \A e \in Cookie : Among(a, e) => Among(q, e)
  BY <1>3, <1>5 DEF SweptOf, KeepsLive, Wanted
<1> HIDE DEF q, Right
<1> DEFINE A == UsedList(q, a)
           B == UsedList(a, a)
<1>9. /\ A \in Seq(Cookie) /\ B \in Seq(Cookie) /\ Len(B) = Len(a)
      /\ \A c : Among(A, c) <=> \E e \in Cookie : Among(q, e) /\ Used(e, a) = c
      /\ \A c : Among(B, c) <=> \E e \in Cookie : Among(a, e) /\ Used(e, a) = c
      /\ \A i \in 1 .. Len(a) : B[i] = Used(a[i], a) /\ a[i] \in Cookie
  BY <1>6, UsedListRight
<1> HIDE DEF A, B
<1>10. \A c : (c \in ToSet(A) <=> Among(A, c)) /\ (c \in ToSet(B) <=> Among(B, c))
  BY <1>9 DEF ToSet, Among
<1>11. ASSUME NEW x \in Cookie, NEW y \in Cookie, Among(q, x), Among(q, y), Used(x, a) = Used(y, a)
       PROVE  x = y
  BY <1>6, <1>11, UsedApart DEF q
<1>12. ASSUME NEW c, Among(A, c) PROVE Among(B, c) <=> Right(c)
  <2>1. PICK e \in Cookie : Among(q, e) /\ Used(e, a) = c
    BY <1>9, <1>12
  <2>2. Among(B, c) <=> Among(a, e)
    BY <1>8, <1>9, <1>11, <2>1
  <2>3. Right(c) <=> Right(e)
    <3>1. /\ c.domain = e.domain /\ c.hostOnly = e.hostOnly /\ c.path = e.path
          /\ c.expires = e.expires /\ c.secure = e.secure
      BY <2>1, UsedCookie
    <3> QED BY <3>1 DEF Right, Wanted, IsFor, Expired
  <2> QED BY <1>7, <2>1, <2>2, <2>3
<1>13. \A c : Among(B, c) => Among(A, c)
  BY <1>8, <1>9
<1>14. IsInjective(B)
  <2> SUFFICES ASSUME NEW i \in DOMAIN B, NEW j \in DOMAIN B, B[i] = B[j] PROVE i = j
    BY DEF IsInjective
  <2>1. i \in 1 .. Len(a) /\ j \in 1 .. Len(a)
    BY <1>9
  <2>2. /\ a[i] \in Cookie /\ a[j] \in Cookie /\ Among(a, a[i]) /\ Among(a, a[j])
        /\ Used(a[i], a) = Used(a[j], a)
    BY <1>9, <2>1 DEF Among
  <2>3. a[i] = a[j]
    BY <1>8, <1>11, <2>2
  <2> QED BY <1>6, <2>1, <2>3 DEF Distinct
<1>15. \A i, j \in DOMAIN B : i < j => PathLength(B[i].path) >= PathLength(B[j].path)
  <2> SUFFICES ASSUME NEW i \in DOMAIN B, NEW j \in DOMAIN B, i < j
               PROVE  PathLength(B[i].path) >= PathLength(B[j].path)
    OBVIOUS
  <2>1. i \in 1 .. Len(a) /\ j \in 1 .. Len(a)
    BY <1>9
  <2>2. B[i].path = a[i].path /\ B[j].path = a[j].path
    BY <1>9, <2>1, UsedCookie
  <2> QED BY <1>6, <2>1, <2>2 DEF ByPath
<1> DEFINE Fit(c) == /\ ~(c.expires < time)
                     /\ IsFor(c, r.host)
                     /\ PathMatches(r.path, c.path)
                     /\ c.secure => r.ssl
<1>16. \A c \in ToSet(A) : c \in ToSet(B) <=> Fit(c)
  <2>1. ASSUME NEW c PROVE Right(c) <=> Fit(c)
    BY DEF Right, Wanted, Expired
  <2> HIDE DEF Fit
  <2>2. ASSUME NEW c \in ToSet(A) PROVE c \in ToSet(B) <=> Fit(c)
    <3>1. Among(A, c)
      BY <1>10
    <3>2. Among(B, c) <=> Right(c)
      BY <1>12, <3>1
    <3> QED BY <1>10, <2>1, <3>2
  <2> QED BY <2>2
<1>17. ToSet(B) \subseteq ToSet(A)
  BY <1>10, <1>13
<1>18. all' = A /\ sent'.cookies = B
  BY <1>1 DEF A, B
<1>19. \A c \in ToSet(all') :
         c \in ToSet(sent'.cookies) <=>
               /\ ~(c.expires < time')
               /\ IsFor(c, sent'.host)
               /\ PathMatches(sent'.path, c.path)
               /\ c.secure => sent'.ssl
  <2>1. \A c : Fit(c) <=>
        /\ ~(c.expires < time')
        /\ IsFor(c, sent'.host)
        /\ PathMatches(sent'.path, c.path)
        /\ c.secure => sent'.ssl
    <3>1. time' = time /\ sent'.host = r.host /\ sent'.path = r.path /\ sent'.ssl = r.ssl
      BY <1>1
    <3> QED BY <3>1, Zenon
  <2> HIDE DEF Fit
  <2> QED BY <1>16, <1>18, <2>1
<1>20. ToSet(sent'.cookies) \subseteq ToSet(all') /\ IsInjective(sent'.cookies)
  BY <1>14, <1>17, <1>18
<1>21. \A i, j \in DOMAIN sent'.cookies :
         i < j => PathLength(sent'.cookies[i].path) >= PathLength(sent'.cookies[j].path)
  BY <1>15, <1>18
<1>22. SentIsRight' <=>
         (sent'.host # NoValue =>
            /\ \A c \in ToSet(all') :
                  c \in ToSet(sent'.cookies) <=>
                        /\ ~(c.expires < time')
                        /\ IsFor(c, sent'.host)
                        /\ PathMatches(sent'.path, c.path)
                        /\ c.secure => sent'.ssl
            /\ ToSet(sent'.cookies) \subseteq ToSet(all')
            /\ IsInjective(sent'.cookies)
            /\ \A i, j \in DOMAIN sent'.cookies :
                 i < j => PathLength(sent'.cookies[i].path) >= PathLength(sent'.cookies[j].path))
  BY Zenon DEF SentIsRight, Expired
<1> QED BY <1>19, <1>20, <1>21, <1>22, Zenon

\* The inductive invariant of the cookie store.
CookiesInv ==
  /\ time \in Nat /\ useCount \in Nat
  /\ file \in Seq(Cookie)
  /\ Store \in GoodStores

LEMMA StoreIsSet ==
  ASSUME NEW s \in GoodStores, SetStore(s)
  PROVE  Store' = s
<1>1. s = [domains |-> s.domains, all |-> s.all]
  BY StoreParts DEF GoodStores
<1> QED BY <1>1 DEF Store, SetStore

LEMMA CookiesStep ==
  ASSUME CookiesInv, [CookiesNext]_cookieVars
  PROVE  CookiesInv'
<1> SUFFICES time' \in Nat /\ useCount' \in Nat /\ file' \in Seq(Cookie) /\ Store' \in GoodStores
  BY DEF CookiesInv
<1>1. /\ time \in Nat /\ useCount \in Nat
      /\ file \in Seq(Cookie) /\ Store \in GoodStores
      /\ Sound(Store, {}) /\ InLimits(Store)
  BY DEF CookiesInv, GoodStores
<1>2. domains' = domains /\ all' = all => Store' = Store
  BY DEF Store
<1>3. domains' = <<>> /\ all' = <<>> => Store' \in GoodStores
  BY EmptyIsGood DEF Store
<1>4. ASSUME NEW r \in Requests, NEW line \in Lines, SetCookie(r.host, r.path, line)
      PROVE  time' \in Nat /\ useCount' \in Nat /\ file' \in Seq(Cookie) /\ Store' \in GoodStores
  <2> DEFINE c == NewCookie(r.host, r.path, line)
             t == AddCookie(Store, c)
  <2>1. /\ SetStore(t) /\ time' = time /\ file' = file
        /\ useCount' = IF c.expires > time THEN useCount + 1 ELSE useCount
    BY <1>4 DEF SetCookie
  <2>2. c \in Cookie
    BY <1>1, <1>4, NewCookieRight DEF SetCookie
  <2> HIDE DEF c
  <2>3. t \in GoodStores
    BY <1>1, <2>2, AddCookieRight DEF GoodStores, Sound
  <2> HIDE DEF t
  <2>4. Store' = t
    BY <2>1, <2>3, StoreIsSet
  <2>5. useCount' \in Nat
    BY <1>1, <2>1
  <2> QED BY <1>1, <2>1, <2>3, <2>4, <2>5
<1>5. ASSUME NEW r \in Requests, Get(r.host, r.path, r.ssl)
      PROVE  time' \in Nat /\ useCount' \in Nat /\ file' \in Seq(Cookie) /\ Store' \in GoodStores
  <2> DEFINE ls == Lookups(r.host)
             s == Swept(ls)[Len(ls)]
             answer == Answer(Swept(ls), ls, r.path, r.ssl)
             t == UsedStore(s, answer)
  <2>1. /\ SetStore(t) /\ time' = time /\ file' = file
        /\ useCount' = IF answer = <<>> THEN useCount ELSE useCount + 1
    BY <1>5 DEF Get
  <2>2. s \in GoodStores
    <3>1. Len(ls) \in Nat /\ Len(ls) \in 0 .. Len(ls)
      BY LookupsRight
    <3> QED BY <1>1, <3>1, SweptRight DEF SweptOf
  <2> HIDE DEF s, answer
  <2>3. t \in GoodStores
    BY <1>1, <2>2, UsedStoreRight
  <2> HIDE DEF t
  <2>4. Store' = t
    BY <2>1, <2>3, StoreIsSet
  <2>5. useCount' \in Nat
    BY <1>1, <2>1
  <2> QED BY <1>1, <2>1, <2>3, <2>4, <2>5
<1>6. CASE Tick
  BY <1>1, <1>2, <1>6 DEF Tick
<1>7. CASE Truncate
  BY <1>1, <1>2, <1>7 DEF Truncate
<1>8. CASE Save
  BY <1>1, <1>3, <1>8, SavedRight DEF Save
<1>9. CASE Crash
  BY <1>1, <1>3, <1>9 DEF Crash
<1>10. CASE Start
  <2>1. Loaded.store \in GoodStores /\ Loaded.n \in Nat
    BY <1>1, LoadedRight DEF Loading
  <2>2. SetStore(Loaded.store) /\ useCount' = Loaded.n /\ time' = time /\ file' = file
    BY <1>10 DEF Start
  <2>3. Store' = Loaded.store
    BY <2>1, <2>2, StoreIsSet
  <2> QED BY <1>1, <2>1, <2>2, <2>3
<1>11. CASE UNCHANGED cookieVars
  BY <1>1, <1>2, <1>11 DEF cookieVars
<1> QED BY <1>4, <1>5, <1>6, <1>7, <1>8, <1>9, <1>10, <1>11 DEF CookiesNext

\* A store that is sound is consistent.
LEMMA GoodIsConsistent ==
  ASSUME Store \in GoodStores
  PROVE  StoreIsConsistent
<1>1. Store.domains = domains /\ Store.all = all
  BY DEF Store
<1>2. /\ Store \in Stores /\ Sound(Store, {})
      /\ Distinct(all) /\ Len(all) <= MaxTotalCookies
      /\ \A c \in Cookie : Among(all, c) <=> Among(ListOf(Store, c.domain), c)
      /\ \A d \in DOMAIN domains : ListIsOf(domains[d], d) /\ domains[d] # <<>>
  BY <1>1 DEF GoodStores, Sound, InLimits
<1>3. /\ all \in Seq(Cookie) /\ DOMAIN domains \subseteq CookieDomains
      /\ domains \in [DOMAIN domains -> Seq(Cookie)]
  BY <1>1, <1>2, StoreParts
<1>4. \A d \in DOMAIN domains : domains[d] \in Seq(Cookie) /\ ListOf(Store, d) = domains[d]
  BY <1>1, <1>3 DEF ListOf, HasNode
<1>5. IsInjective(all)
  BY <1>2, <1>3 DEF IsInjective, Distinct
<1>6. \A q \in Seq(Cookie) : \A c : c \in ToSet(q) <=> Among(q, c)
  BY DEF ToSet, Among
<1>7. \A q \in Seq(Cookie) : \A c : Among(q, c) => c \in Cookie
  BY DEF Among
<1>8. ToSet(all) = UNION {ToSet(domains[d]) : d \in DOMAIN domains}
  <2>1. ASSUME NEW c \in Cookie, Among(all, c)
        PROVE  \E d \in DOMAIN domains : Among(domains[d], c)
    BY <1>1, <1>2, <2>1, CookieHasNode
  <2>2. ASSUME NEW d \in DOMAIN domains, NEW c \in Cookie, Among(domains[d], c)
        PROVE  Among(all, c)
    <3>1. Among(ListOf(Store, d), c) /\ d \in CookieDomains
      BY <1>3, <1>4, <2>2
    <3> QED BY <1>1, <1>2, <3>1, Listed
  <2>3. \A c : c \in ToSet(all) <=> \E d \in DOMAIN domains : c \in ToSet(domains[d])
    BY <1>3, <1>4, <1>6, <1>7, <2>1, <2>2
  <2> QED BY <2>3
<1>9. ASSUME NEW d \in DOMAIN domains
      PROVE  /\ domains[d] # <<>> /\ Len(domains[d]) <= MaxDomainCookies
             /\ \A i, j \in DOMAIN domains[d] :
                   /\ domains[d][i].domain = d
                   /\ i # j => ~SameCookie(domains[d][i], domains[d][j])
  <2>1. Len(domains[d]) <= MaxDomainCookies
    <3>1. Len(ListOf(Store, d)) <= MaxDomainCookies
      BY <1>3 DEF GoodStores, InLimits
    <3> QED BY <1>4, <3>1
  <2>2. DOMAIN domains[d] = 1 .. Len(domains[d])
    BY <1>4
  <2> QED BY <1>2, <2>1, <2>2 DEF ListIsOf
<1> QED BY <1>2, <1>5, <1>8, <1>9 DEF StoreIsConsistent

\* What was answered is gone when the browser has ended.
AnswersInv ==
  /\ CookiesInv
  /\ running # "yes" => sent = NothingSent
  /\ SentIsRight

LEMMA AnswersStep ==
  ASSUME AnswersInv, [CookiesNext]_cookieVars
  PROVE  AnswersInv'
<1>1. CookiesInv'
  BY CookiesStep DEF AnswersInv
<1>2. sent' = NothingSent => SentIsRight'
  BY DEF SentIsRight, NothingSent
<1>3. ASSUME NEW r \in Requests, NEW line \in Lines, SetCookie(r.host, r.path, line)
      PROVE  SentIsRight' /\ running' = "yes"
  BY <1>2, <1>3 DEF SetCookie, Alive
<1>4. ASSUME NEW r \in Requests, Get(r.host, r.path, r.ssl)
      PROVE  SentIsRight' /\ running' = "yes"
  <2>1. SentIsRight'
    BY <1>4, GetIsRight DEF AnswersInv, CookiesInv
  <2> QED BY <1>4, <2>1 DEF Get, Alive
<1>5. SentIsRight' /\ (running' # "yes" => sent' = NothingSent)
  <2>1. CASE Tick \/ Truncate \/ Crash
    BY <1>2, <2>1 DEF Tick, Truncate, Crash
  <2>2. CASE Save \/ Start
    BY <1>2, <2>2 DEF Save, Start, AnswersInv
  <2>3. CASE UNCHANGED cookieVars
    BY <2>3 DEF cookieVars, AnswersInv, SentIsRight, Expired
  <2> QED BY <1>3, <1>4, <2>1, <2>2, <2>3 DEF CookiesNext
<1> QED BY <1>1, <1>5 DEF AnswersInv

\* Whatever is accepted, replaced, expired, thrown out, written and read: the lists of the
\* domains and all_cookies hold the same cookies, no domain without cookies has a node, the
\* limits hold, and no two cookies of a domain have the same name, path and kind
\* (Cookies_add_cookie, Cookies_too_many, Cookies_rm_expired_cookies, Cookies_load_cookies);
\* and what Cookies_get answers to a request are the live cookies of its host, path and
\* scheme, all of them, each once, longest paths first (Cookies_add_matching_cookies).
THEOREM CookiesRight == CookiesSpec => []CookiesAreRight
<1>1. CookiesInit => AnswersInv
  <2> SUFFICES ASSUME CookiesInit PROVE AnswersInv
    OBVIOUS
  <2>1. CookiesInv
    BY EmptyIsGood DEF CookiesInit, CookiesInv, Store
  <2>2. SentIsRight
    BY DEF CookiesInit, SentIsRight, NothingSent
  <2> QED BY <2>1, <2>2 DEF CookiesInit, AnswersInv
<1>2. AnswersInv /\ [CookiesNext]_cookieVars => AnswersInv'
  BY AnswersStep
<1>3. AnswersInv => CookiesAreRight
  BY GoodIsConsistent DEF AnswersInv, CookiesInv, CookiesAreRight
<1> QED BY <1>1, <1>2, <1>3, PTL DEF CookiesSpec
==============================================================================
