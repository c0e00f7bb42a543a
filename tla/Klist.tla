------------------------------- MODULE Klist -------------------------------
(***************************************************************************)
(* Key lists, src/src/klist.c, on the sorted lists of dlib/dlib.c: the keys  *)
(* of http sockets, cache clients and channels.  A key is the next value of  *)
(* an int counter; the counter wraps, and so does the difference of two keys *)
(* that orders the list.  The list is sorted only among keys less than half *)
(* the range apart: no key is held here for Half insertions (2^31).          *)
(***************************************************************************)
EXTENDS Integers, Sequences, SequencesExt

CONSTANTS Half,     \* 2^31 in the code: keys are -Half .. Half - 1
          MaxNodes  \* bound on the list

ASSUME HalfIsNumber == Half \in Nat /\ Half > 2
ASSUME MaxNodesIsNumber == MaxNodes \in Nat

VARIABLES list,     \* the keys of the nodes, in list order
          counter,  \* Counter
          clean     \* Clean: no wrap since the list was empty

klistVars == <<list, counter, clean>>

KlistInit == list = <<>> /\ counter = 0 /\ clean = TRUE

Wrap(n) == ((n + Half) % (2 * Half)) - Half

\* Klist_node_by_key_cmp, Klist_node_by_node_cmp
Compare(a, b) == Wrap(a - b)

\* One turn of the loop of dList_find_sorted and dList_insert_sorted, which looks for the key
\* between min and max; st is the result of the comparison at the place at.  Its break leaves
\* nothing between them.
Turn(s, key, x) ==
    LET m == (x.min + x.max - 2) \div 2 + 1
        c == Compare(s[m], key)
    IN  IF x.min > x.max THEN x
        ELSE [min |-> IF c > 0 THEN x.min ELSE m + 1,
              max |-> IF c < 0 THEN x.max ELSE IF c > 0 THEN m - 1 ELSE m,
              at |-> m, st |-> c]

\* The binary search, which is over after as many turns as there are nodes: the place where
\* it ends, and the last comparison.
Search(s, key) ==
    LET loop[n \in 0..Len(s)] ==
            IF n = 0 THEN [min |-> 1, max |-> Len(s), at |-> 0, st |-> 0]
            ELSE Turn(s, key, loop[n - 1])
    IN  loop[Len(s)]

\* a_Klist_get_data
Found(s, key) == s # <<>> /\ Search(s, key).st = 0

\* Seeded bug: the order of keys does not wrap with them.
Mut_InsertSorted(s, key) ==
    LET Less == {i \in DOMAIN s : s[i] < key} IN
    InsertAt(s, IF Less = {} THEN 1 ELSE 1 + CHOOSE i \in Less : \A j \in Less : j <= i, key)

InsertSorted(s, key) ==
    IF s = <<>> THEN <<key>>
    ELSE LET p == Search(s, key) IN InsertAt(s, IF p.st >= 0 THEN p.at ELSE p.at + 1, key)

\* The counter after one more try; it never stops at 0, and from the wrap on keys are
\* compared with those in use.
Step(c) == IF Wrap(c.counter + 1) = 0 THEN [counter |-> 1, clean |-> FALSE]
           ELSE [c EXCEPT !.counter = Wrap(c.counter + 1)]

Taken(c) == ~c.clean /\ Found(list, c.counter)

\* a_Klist_insert
Insert ==
    /\ Len(list) < MaxNodes
    /\ \A key \in ToSet(list) : Compare(counter, key) \in 0..(Half - 3)
    /\ LET Tried[n \in 1..(MaxNodes + 1)] ==
               IF n = 1 THEN Step([counter |-> counter, clean |-> clean])
               ELSE IF Taken(Tried[n - 1]) THEN Step(Tried[n - 1]) ELSE Tried[n - 1]
           new == Tried[MaxNodes + 1]
       IN /\ counter' = new.counter /\ clean' = new.clean
          /\ list' = InsertSorted(list, new.counter)

\* a_Klist_remove, by a client that holds the key.
RemoveKey(key) ==
    /\ list' = IF Found(list, key) THEN RemoveAt(list, Search(list, key).at) ELSE list
    /\ clean' = (clean \/ list' = <<>>)
    /\ UNCHANGED counter

KlistNext == Insert \/ \E key \in ToSet(list) : RemoveKey(key)

KlistSpec == KlistInit /\ [][KlistNext]_klistVars

\* As the counter runs through its wrap, with keys of both sides of it in the list, no two
\* nodes have the same key and each is found by its key.
KeysAreDistinct ==
    /\ IsInjective(list)
    /\ \A i \in DOMAIN list : Found(list, list[i]) /\ Search(list, list[i]).at = i
=============================================================================
