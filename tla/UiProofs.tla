------------------------------ MODULE UiProofs ------------------------------
(***************************************************************************)
(* Proofs about the user interface: the tabs of the windows, for any number *)
(* of tabs and windows; the panels of a page, for any search engines,      *)
(* whichever boxes the preferences allow; the keys, for every keysrc; and   *)
(* the engine of the search bar, for every dillorc.                         *)
(*                                                                         *)
(* The loops that close tabs are recursive functions, and what they do is  *)
(* proved by their least counterexample (LeastOf).                         *)
(***************************************************************************)
EXTENDS Panels, Keys, Prefs, FiniteSetTheorems, SequenceTheorems, WellFoundedInduction, TLAPS

\* A set of naturals that is not empty has a least element.
LEMMA LeastOf ==
  ASSUME NEW T, T \subseteq Nat, T # {}
  PROVE  \E x \in T : \A y \in T : x <= y
<1> DEFINE R == OpToRel(<, Nat)
<1>1. IsWellFoundedOn(R, Nat)
  BY NatLessThanWellFounded
<1>2. \A x, y \in Nat : x < y => <<x, y>> \in R
  BY DEF OpToRel
<1> HIDE DEF R
<1>3. PICK x \in T : \A y \in T : ~(<<y, x>> \in R)
  BY <1>1, WFMin
<1>4. \A y \in T : ~(y < x)
  BY <1>2, <1>3
<1> QED BY <1>3, <1>4

-----------------------------------------------------------------------------
(* Tabs.  The records that the handlers of Tabs pass on are good ones: a window shows  *)
(* one of its pages and says so.                                               *)

Texts == PageTitles \cup {NoTitle}

\* The records that the handlers work on.
StateSet ==
  [pack : [Windows -> Seq(Tabs)], wizard : [Windows -> Seq(Tabs)], visible : SUBSET Tabs,
   lit : SUBSET Tabs, collapsed : SUBSET Tabs, bar : SUBSET Windows, bws : Seq(Tabs),
   label : [Tabs -> Texts], title : [Windows -> Texts]]

\* The window shows the page v, and says so.
Shows(s, w, v) ==
  /\ v \in ToSet(s.pack[w])
  /\ s.visible \cap ToSet(s.pack[w]) = {v}
  /\ s.lit \cap ToSet(s.pack[w]) = {v}
  /\ s.title[w] = s.label[v]

\* Its buttons are its pages, each once.
OwnParts(s, w) == s.pack[w] = s.wizard[w] /\ IsInjective(s.pack[w])

Reachable(s, w) ==
  Len(s.pack[w]) > 1 => w \in s.bar /\ ToSet(s.pack[w]) \cap s.collapsed = {}

Apart(s) == \A u, w \in Windows : u # w => ToSet(s.pack[u]) \cap ToSet(s.pack[w]) = {}

Listed(s) ==
  /\ IsInjective(s.bws)
  /\ \A t \in Tabs : t \in ToSet(s.bws) <=> \E w \in Windows : t \in ToSet(s.pack[w])

WindowGood(s, w) ==
  /\ OwnParts(s, w) /\ Reachable(s, w)
  /\ s.pack[w] # <<>> => \E v \in Tabs : Shows(s, w, v)

Good(s) ==
  /\ s \in StateSet
  /\ \A w \in Windows : WindowGood(s, w)
  /\ Apart(s) /\ Listed(s)

-----------------------------------------------------------------------------
(* Sequences. *)

\* The index of an element is one of its positions.
LEMMA IndexInRight ==
  ASSUME NEW S, NEW q \in Seq(S), NEW t \in ToSet(q)
  PROVE  IndexIn(q, t) \in 1 .. Len(q) /\ q[IndexIn(q, t)] = t
BY DEF IndexIn, Contains, ToSet

\* Without its element at a position, an injective sequence has all the others.
LEMMA RemoveAtRight ==
  ASSUME NEW S, NEW q \in Seq(S), IsInjective(q), NEW t \in ToSet(q)
  PROVE  LET r == RemoveAt(q, IndexIn(q, t)) IN
         /\ r \in Seq(S) /\ IsInjective(r)
         /\ ToSet(r) = ToSet(q) \ {t}
         /\ Len(r) = Len(q) - 1
<1> DEFINE i == IndexIn(q, t)
           r == RemoveAt(q, i)
<1>1. i \in 1 .. Len(q) /\ q[i] = t
  BY IndexInRight
<1> HIDE DEF i
<1>2. /\ r \in Seq(S) /\ Len(r) = Len(q) - 1
      /\ \A k \in 1 .. Len(q) - 1 : r[k] = IF k < i THEN q[k] ELSE q[k + 1]
  <2> DEFINE x == SubSeq(q, 1, i - 1)
             y == SubSeq(q, i + 1, Len(q))
  <2>1. x \in Seq(S) /\ Len(x) = i - 1 /\ \A k \in 1 .. i - 1 : x[k] = q[k]
    BY <1>1
  <2>2. y \in Seq(S) /\ Len(y) = Len(q) - i /\ \A k \in 1 .. Len(q) - i : y[k] = q[k + i]
    <3>1. y \in Seq(S) /\ Len(y) = Len(q) - i
      BY <1>1
    <3>2. \A k \in 1 .. Len(q) - (i + 1) + 1 : y[k] = q[(i + 1) + k - 1]
      <4>1. /\ i + 1 \in Int /\ Len(q) \in Int
            /\ \A k \in i + 1 .. Len(q) : q[k] \in S
        BY <1>1
      <4> QED BY <4>1, SubSeqProperties
    <3>3. \A k \in 1 .. Len(q) - i : k \in 1 .. Len(q) - (i + 1) + 1 /\ (i + 1) + k - 1 = k + i
      BY <1>1
    <3> HIDE DEF y
    <3> QED BY <3>1, <3>2, <3>3
  <2>3. r = x \o y
    BY DEF RemoveAt
  <2> HIDE DEF x, y, r
  <2>4. r \in Seq(S) /\ Len(r) = Len(q) - 1
    <3>1. r \in Seq(S) /\ Len(r) = Len(x) + Len(y)
      BY <2>1, <2>2, <2>3, ConcatProperties
    <3> QED BY <1>1, <2>1, <2>2, <3>1
  <2>5. ASSUME NEW k \in 1 .. Len(q) - 1, k < i PROVE r[k] = q[k]
    BY <1>1, <2>1, <2>2, <2>3, <2>5
  <2>6. ASSUME NEW k \in 1 .. Len(q) - 1, ~(k < i) PROVE r[k] = q[k + 1]
    <3>1. k - (i - 1) \in 1 .. Len(q) - i /\ k > Len(x) /\ k <= Len(x) + Len(y)
      BY <1>1, <2>1, <2>2, <2>6
    <3>2. r[k] = y[k - Len(x)]
      BY <2>1, <2>2, <2>3, <3>1
    <3> QED BY <1>1, <2>1, <2>2, <3>1, <3>2
  <2> QED BY <2>4, <2>5, <2>6
<1> HIDE DEF r
<1>3. IsInjective(r)
  <2> SUFFICES ASSUME NEW a \in 1 .. Len(q) - 1, NEW b \in 1 .. Len(q) - 1, r[a] = r[b] PROVE a = b
    BY <1>2 DEF IsInjective
  <2> DEFINE at(k) == IF k < i THEN k ELSE k + 1
  <2>a. ASSUME NEW k \in 1 .. Len(q) - 1 PROVE at(k) \in 1 .. Len(q) /\ q[at(k)] = r[k]
    <3>1. Len(q) \in Nat
      BY <1>1
    <3>2. CASE k < i
      <4>1. r[k] = q[k]
        BY <1>2, <3>2
      <4> QED BY <3>1, <3>2, <4>1
    <3>3. CASE ~(k < i)
      <4>1. r[k] = q[k + 1]
        BY <1>2, <3>3
      <4> QED BY <3>1, <3>3, <4>1
    <3> QED BY <3>2, <3>3
  <2>1. at(a) \in 1 .. Len(q) /\ at(b) \in 1 .. Len(q) /\ q[at(a)] = q[at(b)]
    <3> HIDE DEF at
    <3> QED BY <2>a
  <2>2. at(a) = at(b)
    BY <2>1 DEF IsInjective
  <2> QED BY <1>1, <2>2
<1>4. \A x \in ToSet(r) : x \in ToSet(q) \ {t}
  BY <1>1, <1>2 DEF ToSet, IsInjective
<1>5. \A x \in ToSet(q) \ {t} : x \in ToSet(r)
  <2> SUFFICES ASSUME NEW k \in 1 .. Len(q), q[k] # t PROVE q[k] \in ToSet(r)
    BY DEF ToSet
  <2>1. CASE k < i
    BY SMTT(20), <1>1, <1>2, <2>1 DEF ToSet
  <2>2. CASE k > i
    <3>1. k - 1 \in 1 .. Len(q) - 1 /\ ~(k - 1 < i) /\ r[k - 1] = q[k]
      BY <1>1, <1>2, <2>2
    <3> QED BY <1>2, <3>1 DEF ToSet
  <2> QED BY <1>1, <2>1, <2>2
<1> QED BY <1>2, <1>3, <1>4, <1>5 DEF i, r

\* With a new element at its end a sequence stays injective.
LEMMA AppendRight ==
  ASSUME NEW S, NEW q \in Seq(S), IsInjective(q), NEW t \in S, t \notin ToSet(q)
  PROVE  /\ Append(q, t) \in Seq(S) /\ IsInjective(Append(q, t))
         /\ ToSet(Append(q, t)) = ToSet(q) \cup {t}
         /\ Len(Append(q, t)) = Len(q) + 1
<1> DEFINE r == Append(q, t)
<1>1. /\ r \in Seq(S) /\ Len(r) = Len(q) + 1
      /\ \A k \in 1 .. Len(q) : r[k] = q[k]
      /\ r[Len(q) + 1] = t
  OBVIOUS
<1> HIDE DEF r
<1>2. IsInjective(r)
  BY <1>1 DEF IsInjective, ToSet
<1>3. \A x \in ToSet(r) : x \in ToSet(q) \cup {t}
  BY <1>1 DEF ToSet
<1>4. \A x \in ToSet(q) \cup {t} : x \in ToSet(r)
  BY <1>1 DEF ToSet
<1> QED BY <1>1, <1>2, <1>3, <1>4 DEF r

\* ListRemove takes one item away, and keeps the others.
LEMMA ListRemoveRight ==
  ASSUME NEW S, NEW q \in Seq(S), IsInjective(q), NEW t \in ToSet(q)
  PROVE  LET r == ListRemove(q, t) IN
         /\ r \in Seq(S) /\ IsInjective(r)
         /\ ToSet(r) = ToSet(q) \ {t}
         /\ Len(r) = Len(q) - 1
<1> DEFINE n == Len(q)
           r == [i \in 1 .. n - 1 |-> IF q[i] = t THEN q[n] ELSE q[i]]
<1>1. PICK j \in 1 .. n : q[j] = t
  BY DEF ToSet
<1>2. ListRemove(q, t) = r
  BY <1>1 DEF ListRemove, Contains, Last
<1>3. n \in Nat /\ n >= 1 /\ \A i \in 1 .. n : q[i] \in S
  BY <1>1
<1>4. \A i \in 1 .. n - 1 : r[i] = IF i = j THEN q[n] ELSE q[i]
  BY <1>1, <1>3 DEF IsInjective
<1>5. r \in Seq(S) /\ Len(r) = n - 1 /\ DOMAIN r = 1 .. n - 1
  <2>1. n - 1 \in Nat
    BY <1>3
  <2>2. \A i \in 1 .. n - 1 : (IF q[i] = t THEN q[n] ELSE q[i]) \in S
    BY <1>3
  <2>3. r \in [1 .. n - 1 -> S]
    BY <2>2
  <2> QED BY <2>1, <2>3
<1> HIDE DEF r
<1>6. IsInjective(r)
  BY <1>1, <1>3, <1>4, <1>5 DEF IsInjective
<1>7. \A x \in ToSet(r) : x \in ToSet(q) \ {t}
  BY <1>1, <1>3, <1>4, <1>5 DEF ToSet, IsInjective
<1>8. \A x \in ToSet(q) \ {t} : x \in ToSet(r)
  <2> SUFFICES ASSUME NEW k \in 1 .. n, q[k] # t PROVE q[k] \in ToSet(r)
    BY DEF ToSet
  <2>1. CASE k = n
    <3>1. j \in 1 .. n - 1 /\ r[j] = q[k]
      BY <1>1, <1>3, <1>4, <2>1
    <3> QED BY <1>5, <3>1 DEF ToSet
  <2>2. CASE k # n
    <3>1. k \in 1 .. n - 1 /\ r[k] = q[k]
      BY <1>1, <1>3, <1>4, <2>2
    <3> QED BY <1>5, <3>1 DEF ToSet
  <2> QED BY <2>1, <2>2
<1> QED BY <1>2, <1>5, <1>6, <1>7, <1>8

-----------------------------------------------------------------------------
(* The handlers of Tabs, on good states. *)

\* Asking the wizard changes nothing where one page is visible.
LEMMA AskedRight ==
  ASSUME NEW s, Good(s), NEW w \in Windows, NEW v \in Tabs, Shows(s, w, v)
  PROVE  WizardValue(s, w) = v /\ Asked(s, w) = s
<1>1. s.wizard[w] = s.pack[w] /\ s.pack[w] \in Seq(Tabs)
  BY DEF Good, WindowGood, OwnParts, StateSet
<1> DEFINE q == s.wizard[w]
           seen == {i \in DOMAIN q : q[i] \in s.visible}
<1>2. PICK k \in 1 .. Len(q) : q[k] = v
  BY <1>1 DEF Shows, ToSet
<1>3. seen = {k}
  <2>1. v \in s.visible
    BY DEF Shows
  <2>2. k \in seen
    BY <1>1, <1>2, <2>1
  <2>3. \A i \in seen : q[i] = v
    BY <1>1 DEF Shows, ToSet
  <2>4. IsInjective(q)
    BY DEF Good, WindowGood, OwnParts
  <2> QED BY <1>2, <2>2, <2>3, <2>4 DEF IsInjective
<1>4. (CHOOSE i \in seen : \A j \in seen : i <= j) = k
  BY <1>2, <1>3
<1>5. WizardValue(s, w) = v
  BY <1>2, <1>3, <1>4 DEF WizardValue, FirstShown
<1>6. (s.visible \ ToSet(q)) \cup {v} = s.visible
  BY <1>1 DEF Shows
<1>7. Asked(s, w) = [s EXCEPT !.visible = s.visible]
  BY <1>5, <1>6 DEF Asked, ShowOnly
<1> QED BY <1>5, <1>7 DEF Good, StateSet

\* What switch_tab leaves when the page is another one than is shown.
LEMMA SwitchTabRight ==
  ASSUME NEW s, Good(s), NEW w \in Windows, NEW v \in Tabs, Shows(s, w, v),
         NEW t \in ToSet(s.pack[w])
  PROVE  /\ Good(SwitchTab(s, w, t)) /\ Shows(SwitchTab(s, w, t), w, t)
         /\ SwitchTab(s, w, t).pack = s.pack
         /\ SwitchTab(s, w, t).bws = s.bws
<1>1. WizardValue(s, w) = v /\ Asked(s, w) = s
  BY AskedRight
<1>2. CASE t = v
  BY <1>1, <1>2 DEF SwitchTab
<1>3. CASE t # v
  <2> DEFINE r == SwitchTab(s, w, t)
  <2>1. s \in StateSet /\ s.pack[w] = s.wizard[w] /\ t \in Tabs
    BY DEF Good, WindowGood, OwnParts, StateSet, ToSet
  <2>2. Contains(s.pack[w], v)
    BY SMTT(20), <2>1 DEF Shows, Contains, ToSet
  <2>3. ButtonIndex(s, w, v) # 0
    BY <2>1, IndexInRight DEF ButtonIndex, Shows, StateSet
  <2>4. HasBw(s, t)
    <3>1. t \in ToSet(s.bws) /\ s.bws \in Seq(Tabs)
      BY <2>1 DEF Good, Listed, StateSet
    <3> QED BY <3>1 DEF HasBw, Contains, ToSet
  <2>5. r = [s EXCEPT !.visible = (s.visible \ ToSet(s.wizard[w])) \cup {t},
                      !.lit = (s.lit \ {v}) \cup {t}, !.title[w] = s.label[t]]
    BY <1>1, <1>3, <2>1, <2>3, <2>4 DEF SwitchTab, ShowOnly, StateSet
  <2> HIDE DEF r
  <2>6. /\ r \in StateSet
        /\ r.visible = (s.visible \ ToSet(s.pack[w])) \cup {t}
        /\ r.lit = (s.lit \ {v}) \cup {t}
        /\ r.title = [s.title EXCEPT ![w] = s.label[t]]
        /\ r.pack = s.pack /\ r.wizard = s.wizard /\ r.bws = s.bws /\ r.label = s.label
        /\ r.bar = s.bar /\ r.collapsed = s.collapsed
    BY <2>1, <2>5 DEF StateSet
  <2>7. Shows(r, w, t)
    BY <2>6, <2>1 DEF Shows, StateSet
  <2>8. ASSUME NEW u \in Windows, u # w, s.pack[u] # <<>> PROVE \E x \in Tabs : Shows(r, u, x)
    <3>1. PICK x \in Tabs : Shows(s, u, x)
      BY <2>8 DEF Good, WindowGood
    <3>2. ToSet(s.pack[u]) \cap ToSet(s.pack[w]) = {}
      BY <2>8 DEF Good, Apart
    <3>3. v \in ToSet(s.pack[w])
      BY DEF Shows
    <3>4. r.title[u] = s.title[u]
      BY <2>1, <2>6, <2>8 DEF StateSet
    <3> QED BY <2>6, <3>1, <3>2, <3>3, <3>4 DEF Shows
  <2>9. Good(r)
    <3>1. ASSUME NEW u \in Windows PROVE OwnParts(r, u) /\ Reachable(r, u)
      BY <2>6, <3>1 DEF Good, WindowGood, OwnParts, Reachable
    <3>2. \A u \in Windows : WindowGood(r, u)
      BY <2>1, <2>7, <2>8, <3>1, <2>6 DEF WindowGood
    <3>3. Apart(r) /\ Listed(r)
      BY <2>6 DEF Good, Apart, Listed
    <3> QED BY <2>6, <3>2, <3>3 DEF Good
  <2> QED BY <2>6, <2>7, <2>9 DEF r
<1> QED BY <1>2, <1>3

\* The tab beside another, around the ends.
LEMMA TurnRight ==
  ASSUME NEW s, Good(s), NEW w \in Windows, NEW v \in Tabs, Shows(s, w, v)
  PROVE  /\ \E u \in ToSet(s.pack[w]) :
              PrevTab(s, w) = SwitchTab(s, w, u) /\ (Len(s.pack[w]) > 1 => u # v)
         /\ \E u \in ToSet(s.pack[w]) :
              NextTab(s, w) = SwitchTab(s, w, u) /\ (Len(s.pack[w]) > 1 => u # v)
<1> DEFINE q == s.pack[w]
           n == Len(q)
           i == ButtonIndex(s, w, v)
           before == IF i > 1 THEN i - 1 ELSE n
           after == IF i < n THEN i + 1 ELSE 1
<1>1. q \in Seq(Tabs) /\ IsInjective(q) /\ n \in Nat
  BY DEF Good, WindowGood, OwnParts, StateSet
<1>2. i \in 1 .. n /\ q[i] = v
  BY <1>1, IndexInRight DEF ButtonIndex, Shows
<1>3. WizardValue(s, w) = v
  BY AskedRight
<1>4. PrevTab(s, w) = SwitchTab(s, w, q[before]) /\ NextTab(s, w) = SwitchTab(s, w, q[after])
  BY <1>2, <1>3 DEF PrevTab, NextTab
<1> HIDE DEF i, n
<1>5. before \in 1 .. n /\ after \in 1 .. n /\ (n > 1 => before # i /\ after # i)
  BY <1>1, <1>2
<1> HIDE DEF before, after
<1>6. q[before] \in ToSet(q) /\ q[after] \in ToSet(q)
  BY <1>1, <1>5 DEF ToSet, n
<1>7. n > 1 => q[before] # v /\ q[after] # v
  BY <1>1, <1>2, <1>5 DEF IsInjective, n
<1> QED BY <1>4, <1>6, <1>7 DEF n

\* What remove_tab does first: a window with several tabs shows another one.
LEMMA MovedRight ==
  ASSUME NEW s, Good(s), NEW w \in Windows, NEW t \in ToSet(s.pack[w])
  PROVE  LET m == IF WizardValue(Asked(s, w), w) # t THEN Asked(s, w)
                  ELSE IF ButtonIndex(Asked(s, w), w, t) > 1
                       THEN PrevTab(Asked(s, w), w) ELSE NextTab(Asked(s, w), w)
         IN  /\ Good(m) /\ m.pack = s.pack /\ m.bws = s.bws
             /\ \E v \in Tabs : Shows(m, w, v) /\ (Len(s.pack[w]) > 1 => v # t)
<1>1. s.pack[w] \in Seq(Tabs)
  BY DEF Good, StateSet
<1>2. s.pack[w] # <<>>
  BY <1>1 DEF ToSet
<1>3. PICK v \in Tabs : Shows(s, w, v)
  BY <1>2 DEF Good, WindowGood
<1>4. WizardValue(s, w) = v /\ Asked(s, w) = s
  BY <1>3, AskedRight
<1>5. CASE v # t
  BY <1>3, <1>4, <1>5
<1>6. CASE v = t
  <2>1. PICK u \in ToSet(s.pack[w]) :
           PrevTab(s, w) = SwitchTab(s, w, u) /\ (Len(s.pack[w]) > 1 => u # v)
    BY <1>3, TurnRight
  <2>2. PICK x \in ToSet(s.pack[w]) :
           NextTab(s, w) = SwitchTab(s, w, x) /\ (Len(s.pack[w]) > 1 => x # v)
    BY <1>3, TurnRight
  <2>3. u \in Tabs /\ x \in Tabs
    BY <1>1 DEF ToSet
  <2>4. \A y \in ToSet(s.pack[w]) :
           /\ Good(SwitchTab(s, w, y)) /\ Shows(SwitchTab(s, w, y), w, y)
           /\ SwitchTab(s, w, y).pack = s.pack
           /\ SwitchTab(s, w, y).bws = s.bws
    BY <1>3, SwitchTabRight
  <2> QED BY <1>4, <1>6, <2>1, <2>2, <2>3, <2>4
<1> QED BY <1>5, <1>6

\* a_UIcmd_close_bw leaves a good state without the tab.
LEMMA CloseBwRight ==
  ASSUME NEW s, Good(s), NEW w \in Windows, NEW t \in ToSet(s.pack[w])
  PROVE  LET r == CloseBw(s, t) IN
         /\ Good(r)
         /\ Len(r.pack[w]) = Len(s.pack[w]) - 1
         /\ Len(r.bws) = Len(s.bws) - 1
<1>1. /\ s \in StateSet /\ s.pack[w] \in Seq(Tabs) /\ s.pack[w] = s.wizard[w] /\ t \in Tabs
      /\ IsInjective(s.pack[w]) /\ IsInjective(s.bws) /\ s.bws \in Seq(Tabs)
  BY DEF Good, WindowGood, OwnParts, Listed, StateSet, ToSet
<1>2. (CHOOSE x \in Windows : Contains(s.wizard[x], t)) = w
  <2>1. \A x \in Windows : s.wizard[x] \in Seq(Tabs) /\ s.wizard[x] = s.pack[x]
    BY DEF Good, WindowGood, OwnParts, StateSet
  <2>2. \A x \in Windows : Contains(s.wizard[x], t) <=> t \in ToSet(s.pack[x])
    BY <2>1 DEF Contains, ToSet
  <2>3. \A x \in Windows : t \in ToSet(s.pack[x]) <=> x = w
    BY DEF Good, Apart
  <2> QED BY <2>2, <2>3
<1> DEFINE m == IF WizardValue(Asked(s, w), w) # t THEN Asked(s, w)
                ELSE IF ButtonIndex(Asked(s, w), w, t) > 1
                     THEN PrevTab(Asked(s, w), w) ELSE NextTab(Asked(s, w), w)
           q == RemoveAt(s.pack[w], IndexIn(s.pack[w], t))
           gone == [m EXCEPT !.pack[w] = RemoveAt(@, IndexIn(@, t)),
                             !.wizard[w] = RemoveAt(@, IndexIn(@, t)),
                             !.visible = @ \ {t}, !.lit = @ \ {t},
                             !.collapsed = @ \ {t}]
           removed == IF ~always /\ Len(gone.pack[w]) = 1
                      THEN [gone EXCEPT !.bar = @ \ {w},
                                        !.collapsed = @ \cup {Head(gone.pack[w])}]
                      ELSE gone
           r == [removed EXCEPT !.bar = IF removed.pack[w] = <<>> THEN @ \ {w} ELSE @,
                                !.title[w] = IF removed.pack[w] = <<>> THEN NoTitle ELSE @,
                                !.label[t] = NoTitle,
                                !.bws = ListRemove(@, t)]
<1>3. CloseBw(s, t) = r
  <2>1. RemoveTab(s, w, t) = removed
    BY DEF RemoveTab
  <2> DEFINE closed(x, y) == [x EXCEPT !.bar = IF x.pack[y] = <<>> THEN @ \ {y} ELSE @,
                                       !.title[y] = IF x.pack[y] = <<>> THEN NoTitle ELSE @,
                                       !.label[t] = NoTitle,
                                       !.bws = ListRemove(@, t)]
             home == CHOOSE x \in Windows : Contains(s.wizard[x], t)
  <2>2. CloseBw(s, t) = closed(RemoveTab(s, home, t), home)
    BY DEF CloseBw
  <2>3. r = closed(removed, w)
    BY Zenon
  <2> HIDE DEF m, removed, closed, home, r
  <2> QED BY <1>2, <2>1, <2>2, <2>3 DEF home
<1>4. /\ Good(m) /\ m.pack = s.pack /\ m.bws = s.bws
      /\ \E v \in Tabs : Shows(m, w, v) /\ (Len(s.pack[w]) > 1 => v # t)
  BY MovedRight
<1> HIDE DEF m
<1>5. m \in StateSet /\ m.wizard = m.pack
  <2>1. m \in StateSet /\ \A x \in Windows : m.wizard[x] = m.pack[x]
    BY <1>4 DEF Good, WindowGood, OwnParts
  <2> QED BY <2>1 DEF StateSet
<1>6. /\ q \in Seq(Tabs) /\ IsInjective(q) /\ ToSet(q) = ToSet(s.pack[w]) \ {t}
      /\ Len(q) = Len(s.pack[w]) - 1
  BY <1>1, RemoveAtRight
<1> HIDE DEF q
<1>7. /\ gone \in StateSet
      /\ gone.pack = [m.pack EXCEPT ![w] = q] /\ gone.wizard = [m.pack EXCEPT ![w] = q]
      /\ gone.visible = m.visible \ {t} /\ gone.lit = m.lit \ {t}
      /\ gone.collapsed = m.collapsed \ {t}
      /\ gone.bar = m.bar /\ gone.bws = m.bws /\ gone.label = m.label /\ gone.title = m.title
      /\ gone.pack[w] = q
  <2>1. gone = [m EXCEPT !.pack = [m.pack EXCEPT ![w] = q], !.wizard = [m.pack EXCEPT ![w] = q],
                         !.visible = m.visible \ {t}, !.lit = m.lit \ {t},
                         !.collapsed = m.collapsed \ {t}]
    BY <1>4, <1>5 DEF StateSet, q
  <2> HIDE DEF gone
  <2>2. [m.pack EXCEPT ![w] = q] \in [Windows -> Seq(Tabs)]
    BY <1>5, <1>6 DEF StateSet
  <2> QED BY <1>5, <2>1, <2>2 DEF StateSet
<1> HIDE DEF gone
<1>8. /\ removed \in StateSet
      /\ removed.pack = gone.pack /\ removed.wizard = gone.wizard
      /\ removed.visible = gone.visible /\ removed.lit = gone.lit
      /\ removed.bws = gone.bws /\ removed.label = gone.label /\ removed.title = gone.title
      /\ Len(q) # 1 => removed.bar = gone.bar /\ removed.collapsed = gone.collapsed
      /\ \A u \in Windows : u # w => (u \in removed.bar <=> u \in gone.bar)
      /\ \A x \in Tabs : x \notin ToSet(q) => (x \in removed.collapsed <=> x \in gone.collapsed)
  <2>1. CASE ~always /\ Len(q) = 1
    <3>1. Head(q) \in ToSet(q) /\ Head(q) \in Tabs
      BY <1>6, <2>1 DEF ToSet
    <3>2. removed = [gone EXCEPT !.bar = gone.bar \ {w},
                                 !.collapsed = gone.collapsed \cup {Head(q)}]
      BY <1>7, <2>1
    <3> HIDE DEF removed
    <3> QED BY <1>7, <2>1, <3>1, <3>2 DEF StateSet
  <2>2. CASE ~(~always /\ Len(q) = 1)
    BY <1>7, <2>2
  <2> QED BY <2>1, <2>2
<1> HIDE DEF removed
<1>9. /\ ListRemove(s.bws, t) \in Seq(Tabs) /\ IsInjective(ListRemove(s.bws, t))
      /\ ToSet(ListRemove(s.bws, t)) = ToSet(s.bws) \ {t}
      /\ Len(ListRemove(s.bws, t)) = Len(s.bws) - 1
  <2>1. t \in ToSet(s.bws)
    BY <1>1 DEF Good, Listed
  <2> QED BY <1>1, <2>1, ListRemoveRight
<1>10. /\ r \in StateSet
       /\ r.pack = [m.pack EXCEPT ![w] = q] /\ r.wizard = r.pack
       /\ r.visible = m.visible \ {t} /\ r.lit = m.lit \ {t}
       /\ r.bws = ListRemove(s.bws, t)
       /\ r.label = [m.label EXCEPT ![t] = NoTitle]
       /\ \A u \in Windows : u # w \/ q # <<>> => r.title[u] = m.title[u]
       /\ Len(q) > 1 => r.bar = m.bar /\ r.collapsed = m.collapsed \ {t}
       /\ \A u \in Windows : u # w => (u \in r.bar <=> u \in m.bar)
       /\ \A x \in Tabs : x \notin ToSet(q) => (x \in r.collapsed <=> x \in m.collapsed \ {t})
  <2> DEFINE bar1 == IF q = <<>> THEN removed.bar \ {w} ELSE removed.bar
             title1 == [removed.title EXCEPT ![w] = IF q = <<>> THEN NoTitle ELSE @]
             label1 == [removed.label EXCEPT ![t] = NoTitle]
  <2>1. removed.pack[w] = q
    BY <1>7, <1>8
  <2>2. r = [removed EXCEPT !.bar = bar1, !.title = title1, !.label = label1,
                            !.bws = ListRemove(s.bws, t)]
    BY <1>4, <1>7, <1>8, <2>1 DEF StateSet
  <2> HIDE DEF r
  <2>3. /\ title1 \in [Windows -> Texts] /\ label1 \in [Tabs -> Texts]
        /\ \A u \in Windows : u # w \/ q # <<>> => title1[u] = removed.title[u]
    BY <1>1, <1>8 DEF StateSet, Texts
  <2>4. bar1 \in SUBSET Windows /\ (Len(q) > 1 => bar1 = removed.bar)
        /\ \A u \in Windows : u # w => (u \in bar1 <=> u \in removed.bar)
    BY <1>6, <1>8 DEF StateSet
  <2> HIDE DEF bar1, title1
  <2>5. /\ r \in StateSet
        /\ r.pack = removed.pack /\ r.wizard = removed.wizard
        /\ r.visible = removed.visible /\ r.lit = removed.lit
        /\ r.bws = ListRemove(s.bws, t) /\ r.label = label1
        /\ r.title = title1 /\ r.bar = bar1 /\ r.collapsed = removed.collapsed
    BY <1>8, <1>9, <2>2, <2>3, <2>4 DEF StateSet
  <2>6. r.label = [m.label EXCEPT ![t] = NoTitle]
    BY <1>7, <1>8, <2>5
  <2>10. r.pack = [m.pack EXCEPT ![w] = q] /\ r.wizard = r.pack
    BY <1>7, <1>8, <2>5
  <2>11. r.visible = m.visible \ {t} /\ r.lit = m.lit \ {t}
    BY <1>7, <1>8, <2>5
  <2> HIDE DEF label1
  <2>7. Len(q) > 1 => r.bar = m.bar /\ r.collapsed = m.collapsed \ {t}
    <3> SUFFICES ASSUME Len(q) > 1 PROVE r.bar = m.bar /\ r.collapsed = m.collapsed \ {t}
      OBVIOUS
    <3>1. Len(q) # 1
      BY <1>1, <1>6
    <3>2. removed.bar = gone.bar /\ removed.collapsed = gone.collapsed
      BY <1>8, <3>1
    <3> QED BY <1>7, <2>4, <2>5, <3>2
  <2>8. /\ \A u \in Windows : u # w => (u \in r.bar <=> u \in m.bar)
        /\ \A x \in Tabs : x \notin ToSet(q) => (x \in r.collapsed <=> x \in m.collapsed \ {t})
    BY <1>7, <1>8, <2>4, <2>5
  <2>9. \A u \in Windows : u # w \/ q # <<>> => r.title[u] = m.title[u]
    BY <1>7, <1>8, <2>3, <2>5
  <2> QED BY <2>5, <2>6, <2>7, <2>8, <2>9, <2>10, <2>11
<1> HIDE DEF r
<1>11. r.pack[w] = q /\ \A u \in Windows : u # w => r.pack[u] = s.pack[u]
  BY <1>4, <1>5, <1>10 DEF StateSet
<1>12. Apart(r)
  BY <1>4, <1>6, <1>10, <1>11 DEF Good, Apart
<1>13. Listed(r)
  <2>1. \A x \in Tabs : x \in ToSet(r.bws) <=> \E u \in Windows : x \in ToSet(s.pack[u]) /\ x # t
    BY <1>9, <1>10 DEF Good, Listed
  <2>2. \A u \in Windows : u # w => t \notin ToSet(s.pack[u])
    BY DEF Good, Apart
  <2>3. \A x \in Tabs, u \in Windows :
           x \in ToSet(r.pack[u]) <=> x \in ToSet(s.pack[u]) /\ x # t
    BY <1>6, <1>11, <2>2
  <2> QED BY <1>9, <1>10, <2>1, <2>3 DEF Listed
<1>14. ASSUME NEW u \in Windows, u # w PROVE WindowGood(r, u)
  <2>1. ToSet(s.pack[u]) \cap ToSet(s.pack[w]) = {} /\ t \notin ToSet(s.pack[u])
    BY <1>14 DEF Good, Apart
  <2>2. r.pack[u] = m.pack[u] /\ m.pack[u] = s.pack[u]
    BY <1>4, <1>11, <1>14
  <2>3. WindowGood(m, u) /\ ToSet(m.pack[u]) \subseteq Tabs
    BY <1>4, <1>5 DEF Good, StateSet, ToSet
  <2>4. OwnParts(r, u)
    BY <1>10, <2>2, <2>3 DEF WindowGood, OwnParts
  <2>5. Reachable(r, u)
    BY <1>6, <1>10, <1>14, <2>1, <2>2, <2>3 DEF WindowGood, Reachable
  <2>6. ASSUME NEW v \in Tabs, Shows(m, u, v) PROVE Shows(r, u, v)
    <3>1. v # t /\ r.label[v] = m.label[v]
      BY <1>5, <1>10, <2>1, <2>2, <2>6 DEF Shows, StateSet
    <3> QED BY <1>10, <1>14, <2>1, <2>2, <2>6, <3>1 DEF Shows
  <2> QED BY <2>2, <2>3, <2>4, <2>5, <2>6 DEF WindowGood
<1>15. WindowGood(r, w)
  <2>1. OwnParts(r, w)
    BY <1>6, <1>10, <1>11 DEF OwnParts
  <2>2. Reachable(r, w)
    <3> SUFFICES ASSUME Len(q) > 1 PROVE w \in r.bar /\ ToSet(q) \cap r.collapsed = {}
      BY <1>11 DEF Reachable
    <3>1. Len(m.pack[w]) > 1
      BY <1>1, <1>4, <1>6
    <3>2. w \in m.bar /\ ToSet(m.pack[w]) \cap m.collapsed = {}
      BY <1>4, <3>1 DEF Good, WindowGood, Reachable
    <3> QED BY <1>4, <1>6, <1>10, <3>2
  <2>3. ASSUME q # <<>> PROVE \E v \in Tabs : Shows(r, w, v)
    <3>1. Len(s.pack[w]) > 1
      BY <1>1, <1>6, <2>3
    <3>2. PICK v \in Tabs : Shows(m, w, v) /\ v # t
      BY <1>4, <3>1
    <3>3. v \in ToSet(q) /\ r.label[v] = m.label[v]
      BY <1>4, <1>5, <1>6, <1>10, <3>2 DEF Shows, StateSet
    <3> QED BY <1>4, <1>6, <1>10, <1>11, <2>3, <3>2, <3>3 DEF Shows
  <2> QED BY <1>11, <2>1, <2>2, <2>3 DEF WindowGood
<1>16. Good(r)
  BY <1>10, <1>12, <1>13, <1>14, <1>15 DEF Good
<1> QED BY <1>3, <1>6, <1>9, <1>10, <1>11, <1>16

\* The first visible child is the value of the wizard.
LEMMA FirstVisible ==
  ASSUME NEW s \in StateSet, NEW w \in Windows, NEW i \in 1 .. Len(s.wizard[w]),
         s.wizard[w][i] \in s.visible,
         \A j \in 1 .. Len(s.wizard[w]) : j < i => s.wizard[w][j] \notin s.visible
  PROVE  WizardValue(s, w) = s.wizard[w][i]
<1> DEFINE q == s.wizard[w]
           seen == {j \in DOMAIN q : q[j] \in s.visible}
<1>1. q \in Seq(Tabs)
  BY DEF StateSet
<1>2. i \in seen /\ \A j \in seen : i <= j /\ j \in Nat /\ i \in Nat
  BY <1>1
<1>3. (CHOOSE k \in seen : \A j \in seen : k <= j) = i
  <2>1. \A k \in seen : (\A j \in seen : k <= j) => k = i
    BY <1>2
  <2> HIDE DEF seen
  <2> QED BY <1>2, <2>1
<1> QED BY <1>2, <1>3 DEF WizardValue, FirstShown

\* Of an open window that shows v and gets the page t, or of one that gets its first page.
AddedTo(b, s, w, t, shown) ==
  LET a == Append(s.pack[w], t)
  IN  /\ b \in StateSet
      /\ b.pack = [s.pack EXCEPT ![w] = a] /\ b.wizard = b.pack
      /\ b.label = [s.label EXCEPT ![t] = NoTitle]
      /\ b.title = s.title /\ b.bws = s.bws
      /\ \A x \in Tabs \ ToSet(a) : /\ x \in b.visible <=> x \in s.visible
                                    /\ x \in b.lit <=> x \in s.lit
                                    /\ x \in b.collapsed <=> x \in s.collapsed
      /\ \A u \in Windows : u # w => (u \in b.bar <=> u \in s.bar)
      /\ Len(a) > 1 => w \in b.bar /\ ToSet(a) \cap b.collapsed = {}
      /\ b.visible \cap ToSet(a) = {shown}
      /\ b.lit \cap ToSet(a) = {shown}

LEMMA AddNewTabRight ==
  ASSUME NEW s, Good(s), NEW w \in Windows, NEW t \in Tabs, NEW front \in BOOLEAN,
         \A u \in Windows : t \notin ToSet(s.pack[u]),
         s.pack[w] = <<>> => front
  PROVE  IF front THEN AddedTo(AddNewTab(s, w, t, front), s, w, t, t)
         ELSE \E v \in ToSet(s.pack[w]) :
                Shows(s, w, v) /\ AddedTo(AddNewTab(s, w, t, front), s, w, t, v)
<1> DEFINE q == s.pack[w]
           a == Append(q, t)
           page == [s EXCEPT !.wizard[w] = Append(@, t), !.visible = @ \cup {t},
                             !.label[t] = NoTitle]
           button == [page EXCEPT !.pack[w] = Append(@, t),
                                  !.lit = IF front THEN @ \cup {t} ELSE @ \ {t},
                                  !.collapsed = @ \ {t}]
           count == Len(button.pack[w])
           b == IF always \/ count = 2
                THEN [button EXCEPT !.bar = @ \cup {w},
                                    !.collapsed = @ \ {Head(button.pack[w])}]
                ELSE button
           f == IF front THEN SwitchTab(b, w, t) ELSE b
           alone == IF ~always /\ count = 1
                    THEN [f EXCEPT !.collapsed = @ \cup {t}] ELSE f
<1>1. AddNewTab(s, w, t, front) = Asked(alone, w)
  BY DEF AddNewTab
<1>2. /\ s \in StateSet /\ q \in Seq(Tabs) /\ s.wizard = s.pack /\ IsInjective(q)
      /\ t \notin ToSet(q)
  <2>1. s \in StateSet /\ \A u \in Windows : s.wizard[u] = s.pack[u]
    BY DEF Good, WindowGood, OwnParts
  <2> QED BY <2>1 DEF Good, WindowGood, OwnParts, StateSet
<1>3. /\ a \in Seq(Tabs) /\ IsInjective(a) /\ ToSet(a) = ToSet(q) \cup {t}
      /\ Len(a) = Len(q) + 1 /\ \A i \in 1 .. Len(q) : a[i] = q[i] /\ a[Len(a)] = t
      /\ Len(q) = 0 <=> q = <<>>
  BY <1>2, AppendRight
<1>3a. \A i, j \in 1 .. Len(a) : a[i] = a[j] => i = j
  <2> HIDE DEF a
  <2> QED BY <1>3 DEF IsInjective
<1>4. /\ button \in StateSet
      /\ button.pack = [s.pack EXCEPT ![w] = a] /\ button.wizard = button.pack
      /\ button.visible = s.visible \cup {t}
      /\ button.lit = IF front THEN s.lit \cup {t} ELSE s.lit \ {t}
      /\ button.collapsed = s.collapsed \ {t}
      /\ button.bar = s.bar /\ button.bws = s.bws /\ button.title = s.title
      /\ button.label = [s.label EXCEPT ![t] = NoTitle]
  <2> DEFINE pack1 == [s.pack EXCEPT ![w] = a]
             lit1 == IF front THEN s.lit \cup {t} ELSE s.lit \ {t}
             label1 == [s.label EXCEPT ![t] = NoTitle]
  <2>1. pack1 \in [Windows -> Seq(Tabs)] /\ lit1 \in SUBSET Tabs /\ label1 \in [Tabs -> Texts]
    BY <1>2, <1>3 DEF StateSet, Texts
  <2>2. button = [s EXCEPT !.pack = pack1, !.wizard = pack1, !.visible = s.visible \cup {t},
                           !.lit = lit1, !.collapsed = s.collapsed \ {t}, !.label = label1]
    BY <1>2 DEF StateSet
  <2> HIDE DEF button, pack1, lit1, label1
  <2>3. /\ button \in StateSet
        /\ button.pack = pack1 /\ button.wizard = pack1
        /\ button.visible = s.visible \cup {t} /\ button.lit = lit1
        /\ button.collapsed = s.collapsed \ {t} /\ button.label = label1
        /\ button.bar = s.bar /\ button.bws = s.bws /\ button.title = s.title
    BY <1>2, <2>1, <2>2 DEF StateSet
  <2> QED BY <2>3 DEF pack1, lit1, label1
<1>5. button.pack[w] = a
  BY <1>2, <1>4 DEF StateSet
<1> HIDE DEF button
<1>6. /\ b \in StateSet
      /\ b.pack = button.pack /\ b.wizard = button.pack /\ b.visible = button.visible
      /\ b.lit = button.lit /\ b.label = button.label /\ b.title = s.title /\ b.bws = s.bws
      /\ \A x \in Tabs \ ToSet(a) : x \in b.collapsed <=> x \in s.collapsed
      /\ \A u \in Windows : u # w => (u \in b.bar <=> u \in s.bar)
  <2>1. CASE always \/ count = 2
    <3>1. b = [button EXCEPT !.bar = s.bar \cup {w},
                             !.collapsed = (s.collapsed \ {t}) \ {Head(a)}]
      BY <1>4, <1>5, <2>1
    <3>2. Head(a) \in ToSet(a)
      BY <1>3 DEF ToSet
    <3> HIDE DEF b
    <3> QED BY <1>3, <1>4, <3>1, <3>2 DEF StateSet
  <2>2. CASE ~(always \/ count = 2)
    BY <1>3, <1>4, <2>2
  <2> QED BY <2>1, <2>2
<1>7. ASSUME Len(a) > 1 PROVE w \in b.bar /\ ToSet(a) \cap b.collapsed = {}
  <2>1. Reachable(s, w)
    BY DEF Good, WindowGood
  <2>2. Len(q) > 1 => w \in s.bar /\ ToSet(q) \cap s.collapsed = {}
    BY <2>1 DEF Reachable
  <2>3. Len(q) = 1 => ToSet(a) = {Head(a), t}
    BY <1>2, <1>3 DEF ToSet
  <2>4. CASE always \/ count = 2
    <3>1. b = [button EXCEPT !.bar = s.bar \cup {w},
                             !.collapsed = (s.collapsed \ {t}) \ {Head(a)}]
      BY <1>4, <1>5, <2>4
    <3>2. b.bar = s.bar \cup {w} /\ b.collapsed = (s.collapsed \ {t}) \ {Head(a)}
      BY <1>4, <3>1 DEF StateSet
    <3>3. Len(q) = 1 \/ Len(q) > 1
      <4>1. Len(q) \in Nat /\ Len(a) = Len(q) + 1 /\ Len(a) > 1
        BY <1>2, <1>3, <1>7
      <4>2. \A n \in Nat : n + 1 > 1 => n = 1 \/ n > 1
        OBVIOUS
      <4> HIDE DEF a, q
      <4> QED BY <4>1, <4>2
    <3> HIDE DEF b
    <3> QED BY <1>3, <2>2, <2>3, <3>2, <3>3
  <2>5. CASE ~(always \/ count = 2)
    <3>1. Len(q) > 1
      BY <1>2, <1>3, <1>5, <1>7, <2>5
    <3> QED BY <1>3, <1>4, <2>2, <2>5, <3>1
  <2> QED BY <2>4, <2>5
<1> HIDE DEF b
<1>8. /\ b.pack[w] = a /\ b.wizard[w] = a
      /\ \A x \in Tabs \ ToSet(a) : /\ x \in b.visible <=> x \in s.visible
                                    /\ x \in b.lit <=> x \in s.lit
  BY <1>3, <1>4, <1>5, <1>6
<1>9. count = Len(a)
  BY <1>5
\* The first page of a window.
<1>10. CASE q = <<>>
  <2>1. front /\ Len(a) = 1 /\ a[1] = t /\ ToSet(a) = {t}
    BY <1>3, <1>10 DEF ToSet
  <2>2. t \in b.visible /\ t \in b.lit
    BY <1>4, <1>6, <2>1
  <2>3. WizardValue(b, w) = t
    BY <1>6, <1>8, <2>1, <2>2, FirstVisible
  <2>4. Asked(b, w) = b
    <3>1. (b.visible \ ToSet(a)) \cup {t} = b.visible
      BY <2>1, <2>2
    <3>2. Asked(b, w) = [b EXCEPT !.visible = b.visible]
      BY <1>8, <2>3, <3>1 DEF Asked, ShowOnly
    <3> QED BY <1>6, <3>2 DEF StateSet
  <2>5. f = b
    BY <2>1, <2>3, <2>4 DEF SwitchTab
  <2>6. /\ alone \in StateSet
        /\ alone.pack = b.pack /\ alone.wizard = b.wizard /\ alone.visible = b.visible
        /\ alone.lit = b.lit /\ alone.label = b.label /\ alone.title = b.title
        /\ alone.bws = b.bws /\ alone.bar = b.bar
        /\ \A x \in Tabs : x # t => (x \in alone.collapsed <=> x \in b.collapsed)
    BY <1>6, <2>5 DEF StateSet
  <2> HIDE DEF alone
  <2>7. WizardValue(alone, w) = t
    BY <1>8, <2>1, <2>2, <2>6, FirstVisible
  <2>8. Asked(alone, w) = alone
    <3>1. (alone.visible \ ToSet(a)) \cup {t} = alone.visible
      BY <2>1, <2>2, <2>6
    <3>2. Asked(alone, w) = [alone EXCEPT !.visible = alone.visible]
      BY <1>8, <2>6, <2>7, <3>1 DEF Asked, ShowOnly
    <3> QED BY <2>6, <3>2 DEF StateSet
  <2>9. AddedTo(alone, s, w, t, t)
    <3>1. alone.visible \cap ToSet(a) = {t} /\ alone.lit \cap ToSet(a) = {t}
      BY <2>1, <2>2, <2>6
    <3>2. /\ alone.pack = [s.pack EXCEPT ![w] = a] /\ alone.wizard = alone.pack
          /\ alone.label = [s.label EXCEPT ![t] = NoTitle]
          /\ alone.title = s.title /\ alone.bws = s.bws
      BY <1>4, <1>6, <2>6
    <3>3. \A x \in Tabs \ ToSet(a) : /\ x \in alone.visible <=> x \in s.visible
                                     /\ x \in alone.lit <=> x \in s.lit
                                     /\ x \in alone.collapsed <=> x \in s.collapsed
      BY <1>6, <1>8, <2>1, <2>6
    <3>4. \A u \in Windows : u # w => (u \in alone.bar <=> u \in s.bar)
      BY <1>6, <2>6
    <3>5. ~(Len(a) > 1)
      BY <2>1
    <3> QED BY <2>6, <3>1, <3>2, <3>3, <3>4, <3>5 DEF AddedTo
  <2> QED BY <1>1, <2>1, <2>8, <2>9
\* One more page, of a window that shows v.
<1>11. CASE q # <<>>
  <2>1. PICK v \in Tabs : Shows(s, w, v)
    BY <1>11 DEF Good, WindowGood
  <2>2. v \in ToSet(q) /\ v # t /\ Len(a) > 1
    BY <1>2, <1>3, <1>11, <2>1 DEF Shows
  <2>3. PICK k \in 1 .. Len(q) : q[k] = v
    BY <1>2, <2>2 DEF ToSet
  <2>4. k \in 1 .. Len(a) /\ a[k] = v /\ \A j \in 1 .. Len(a) : j < k => a[j] \in ToSet(q) \ {v}
    <3>1. \A j \in 1 .. Len(a) : j < k => j \in 1 .. Len(q) /\ a[j] = q[j]
      BY <1>2, <1>3, <2>3
    <3> QED BY <1>2, <1>3, <2>3, <3>1 DEF ToSet, IsInjective
  <2>5. v \in b.visible /\ \A x \in ToSet(q) \ {v} : x \notin b.visible
    BY <1>2, <1>4, <1>6, <2>1 DEF Shows
  <2>6. WizardValue(b, w) = v
    <3>1. /\ k \in 1 .. Len(b.wizard[w]) /\ b.wizard[w][k] = v /\ v \in b.visible
          /\ \A j \in 1 .. Len(b.wizard[w]) : j < k => b.wizard[w][j] \notin b.visible
      BY <1>8, <2>4, <2>5
    <3> QED BY <1>6, <3>1, FirstVisible
  <2> DEFINE c == Asked(b, w)
  <2>7. /\ c \in StateSet
        /\ c.visible = (b.visible \ ToSet(a)) \cup {v}
        /\ c.pack = b.pack /\ c.wizard = b.wizard /\ c.lit = b.lit /\ c.label = b.label
        /\ c.title = b.title /\ c.bws = b.bws /\ c.bar = b.bar /\ c.collapsed = b.collapsed
    <3>1. c = [b EXCEPT !.visible = (b.visible \ ToSet(a)) \cup {v}]
      BY <1>8, <2>6 DEF Asked, ShowOnly
    <3>2. (b.visible \ ToSet(a)) \cup {v} \in SUBSET Tabs
      BY <1>6 DEF StateSet
    <3> HIDE DEF c
    <3> QED BY <1>6, <3>1, <3>2 DEF StateSet
  <2>8. CASE ~front
    <3>1. alone = b
      BY <1>2, <1>3, <1>9, <2>2, <2>8
    <3>2. b.lit = s.lit \ {t}
      BY <1>4, <1>6, <2>8
    <3>3. c.visible \cap ToSet(a) = {v} /\ c.lit \cap ToSet(a) = {v}
      BY <1>3, <2>1, <2>2, <2>7, <3>2 DEF Shows
    <3> HIDE DEF c
    <3>4. AddedTo(c, s, w, t, v)
      <4>1. /\ c.pack = [s.pack EXCEPT ![w] = a] /\ c.wizard = c.pack
            /\ c.label = [s.label EXCEPT ![t] = NoTitle]
            /\ c.title = s.title /\ c.bws = s.bws
        BY <1>4, <1>6, <2>7
      <4>2. \A x \in Tabs \ ToSet(a) : /\ x \in c.visible <=> x \in s.visible
                                       /\ x \in c.lit <=> x \in s.lit
                                       /\ x \in c.collapsed <=> x \in s.collapsed
        BY <1>3, <1>6, <1>8, <2>2, <2>7
      <4>3. \A u \in Windows : u # w => (u \in c.bar <=> u \in s.bar)
        BY <1>6, <2>7
      <4>4. w \in c.bar /\ ToSet(a) \cap c.collapsed = {}
        BY <1>7, <2>2, <2>7
      <4> QED BY <2>7, <3>3, <4>1, <4>2, <4>3, <4>4 DEF AddedTo
    <3> QED BY <1>1, <2>1, <2>2, <2>8, <3>1, <3>4 DEF c
  <2>9. CASE front
    <3> HIDE DEF c
    <3>1. WizardValue(c, w) = v
      <4>1. c.wizard[w] = a
        BY <1>8, <2>7
      <4>2. v \in c.visible /\ \A j \in 1 .. Len(a) : j < k => a[j] \notin c.visible
        BY <1>3, <2>2, <2>4, <2>7
      <4>3. /\ k \in 1 .. Len(c.wizard[w]) /\ c.wizard[w][k] = v
            /\ \A j \in 1 .. Len(c.wizard[w]) : j < k => c.wizard[w][j] \notin c.visible
        BY <2>4, <4>1, <4>2
      <4> QED BY <2>7, <4>2, <4>3, FirstVisible
    <3>2. ButtonIndex(c, w, v) # 0
      <4>1. v \in ToSet(a) /\ c.pack[w] = a
        BY <1>3, <1>8, <2>2, <2>7
      <4>2. IndexIn(a, v) \in 1 .. Len(a)
        BY <1>3, <4>1, IndexInRight
      <4> QED BY <1>3, <4>1, <4>2 DEF ButtonIndex
    <3>3. ~HasBw(c, t)
      <4>1. t \notin ToSet(s.bws) /\ s.bws \in Seq(Tabs)
        BY <1>2 DEF Good, Listed, StateSet
      <4> QED BY <1>6, <2>7, <4>1 DEF HasBw, Contains, ToSet
    <3> DEFINE d == SwitchTab(b, w, t)
    <3>4. d = [ShowOnly(c, w, t) EXCEPT !.lit = (@ \ {v}) \cup {t}]
      BY <2>2, <3>1, <3>2, <3>3 DEF SwitchTab, c
    <3>5. /\ d \in StateSet
          /\ d.visible = (c.visible \ ToSet(a)) \cup {t} /\ d.lit = (c.lit \ {v}) \cup {t}
          /\ d.pack = c.pack /\ d.wizard = c.wizard /\ d.label = c.label
          /\ d.title = c.title /\ d.bws = c.bws /\ d.bar = c.bar /\ d.collapsed = c.collapsed
      <4> HIDE DEF d
      <4>1. c.wizard[w] = a
        BY <1>8, <2>7
      <4>2. d = [c EXCEPT !.visible = (c.visible \ ToSet(a)) \cup {t},
                          !.lit = (c.lit \ {v}) \cup {t}]
        BY <2>7, <3>4, <4>1 DEF ShowOnly, StateSet
      <4> QED BY <2>7, <4>2 DEF StateSet
    <3>6. alone = d
      BY <1>2, <1>3, <1>9, <2>2, <2>9
    <3> HIDE DEF d, alone
    <3>7. WizardValue(d, w) = t
      <4>1. d.wizard[w] = a /\ Len(a) \in 1 .. Len(a) /\ a[Len(a)] = t
        BY <1>2, <1>3, <1>8, <2>2, <2>3, <2>7, <3>5
      <4>2. \A j \in 1 .. Len(a) : j < Len(a) => a[j] # t
        BY <1>3a, <4>1
      <4>3. \A j \in 1 .. Len(a) : j < Len(a) => a[j] \notin d.visible
        BY <1>3, <3>5, <4>2 DEF ToSet
      <4>4. t \in d.visible
        BY <3>5
      <4>5. /\ Len(a) \in 1 .. Len(d.wizard[w]) /\ d.wizard[w][Len(a)] = t
            /\ \A j \in 1 .. Len(d.wizard[w]) : j < Len(a) => d.wizard[w][j] \notin d.visible
        BY <4>1, <4>3
      <4> HIDE DEF a
      <4> QED BY <3>5, <4>4, <4>5, FirstVisible
    <3>8. Asked(d, w) = d
      <4>1. (d.visible \ ToSet(a)) \cup {t} = d.visible
        BY <1>3, <3>5
      <4>2. Asked(d, w) = [d EXCEPT !.visible = d.visible]
        BY ZenonT(30), <1>8, <2>7, <3>5, <3>7, <4>1 DEF Asked, ShowOnly
      <4> QED BY <3>5, <4>2 DEF StateSet
    <3>9. AddedTo(d, s, w, t, t)
      <4>1. /\ d.pack = [s.pack EXCEPT ![w] = a] /\ d.wizard = d.pack
            /\ d.label = [s.label EXCEPT ![t] = NoTitle]
            /\ d.title = s.title /\ d.bws = s.bws
        BY <1>4, <1>6, <2>7, <3>5
      <4>2. \A x \in Tabs \ ToSet(a) : /\ x \in d.visible <=> x \in s.visible
                                       /\ x \in d.lit <=> x \in s.lit
                                       /\ x \in d.collapsed <=> x \in s.collapsed
        BY <1>3, <1>6, <1>8, <2>2, <2>7, <3>5
      <4>3. \A u \in Windows : u # w => (u \in d.bar <=> u \in s.bar)
        BY <1>6, <2>7, <3>5
      <4>4. w \in d.bar /\ ToSet(a) \cap d.collapsed = {}
        BY <1>7, <2>2, <2>7, <3>5
      <4>5. d.visible \cap ToSet(a) = {t} /\ d.lit \cap ToSet(a) = {t}
        <5>1. d.lit = ((s.lit \cup {t}) \ {v}) \cup {t}
          BY <1>4, <1>6, <2>7, <2>9, <3>5
        <5>2. s.lit \cap ToSet(q) = {v}
          BY <2>1 DEF Shows
        <5> QED BY <1>3, <3>5, <5>1, <5>2
      <4> QED BY <3>5, <4>1, <4>2, <4>3, <4>4, <4>5 DEF AddedTo
    <3> QED BY <1>1, <2>9, <3>6, <3>8, <3>9
  <2> QED BY <2>8, <2>9
<1> QED BY <1>10, <1>11

\* UIcmd_tab_new: the page is listed, and the window says which it shows.
LEMMA TabNewRight ==
  ASSUME NEW s, Good(s), NEW w \in Windows, NEW t \in Tabs, NEW front \in BOOLEAN,
         \A u \in Windows : t \notin ToSet(s.pack[u]),
         s.pack[w] = <<>> => front
  PROVE  Good(TabNew(s, w, t, front))
<1> DEFINE q == s.pack[w]
           a == Append(q, t)
           b == AddNewTab(s, w, t, front)
           r == TabNew(s, w, t, front)
<1>1. /\ s \in StateSet /\ q \in Seq(Tabs) /\ IsInjective(q) /\ t \notin ToSet(q)
      /\ IsInjective(s.bws) /\ s.bws \in Seq(Tabs) /\ t \notin ToSet(s.bws)
  BY DEF Good, WindowGood, OwnParts, StateSet, Listed
<1>2. /\ a \in Seq(Tabs) /\ IsInjective(a) /\ ToSet(a) = ToSet(q) \cup {t}
  BY <1>1, AppendRight
<1>3. PICK v \in ToSet(a) : /\ AddedTo(b, s, w, t, v)
                            /\ IF front THEN v = t ELSE v # t /\ Shows(s, w, v)
  BY <1>1, <1>2, AddNewTabRight
<1> HIDE DEF b
<1>4. /\ b \in StateSet
      /\ b.pack = [s.pack EXCEPT ![w] = a] /\ b.wizard = b.pack
      /\ b.label = [s.label EXCEPT ![t] = NoTitle]
      /\ b.title = s.title /\ b.bws = s.bws
  BY <1>3 DEF AddedTo
<1>5. /\ Append(s.bws, t) \in Seq(Tabs) /\ IsInjective(Append(s.bws, t))
      /\ ToSet(Append(s.bws, t)) = ToSet(s.bws) \cup {t}
  BY <1>1, AppendRight
<1>6. /\ r \in StateSet
      /\ r.pack = b.pack /\ r.wizard = b.wizard /\ r.visible = b.visible /\ r.lit = b.lit
      /\ r.collapsed = b.collapsed /\ r.bar = b.bar /\ r.label = b.label
      /\ r.bws = Append(s.bws, t)
      /\ r.title = IF front THEN [s.title EXCEPT ![w] = b.label[t]] ELSE s.title
  <2> DEFINE title1 == IF front THEN [s.title EXCEPT ![w] = b.label[t]] ELSE s.title
  <2>1. title1 \in [Windows -> Texts]
    BY <1>1, <1>4 DEF StateSet
  <2>2. r = [b EXCEPT !.bws = Append(s.bws, t), !.title = title1]
    BY <1>4 DEF TabNew, b, StateSet
  <2> HIDE DEF title1, r
  <2>3. /\ r \in StateSet
        /\ r.pack = b.pack /\ r.wizard = b.wizard /\ r.visible = b.visible /\ r.lit = b.lit
        /\ r.collapsed = b.collapsed /\ r.bar = b.bar /\ r.label = b.label
        /\ r.bws = Append(s.bws, t) /\ r.title = title1
    BY <1>4, <1>5, <2>1, <2>2 DEF StateSet
  <2> QED BY <2>3 DEF title1
<1> HIDE DEF r, a
<1>7. r.pack[w] = a /\ \A u \in Windows : u # w => r.pack[u] = s.pack[u]
  BY <1>1, <1>4, <1>6 DEF StateSet
<1>8. Apart(r)
  <2>1. Apart(s) /\ \A u \in Windows : t \notin ToSet(s.pack[u])
    BY DEF Good
  <2>2. \A u \in Windows : u # w => ToSet(r.pack[u]) \cap ToSet(r.pack[w]) = {}
    BY <1>2, <1>7, <2>1 DEF Apart
  <2>3. \A u, x \in Windows : u # w /\ x # w /\ u # x => ToSet(r.pack[u]) \cap ToSet(r.pack[x]) = {}
    BY <1>7, <2>1 DEF Apart
  <2> QED BY <2>2, <2>3 DEF Apart
<1>9. Listed(r)
  <2>1. \A x \in Tabs : x \in ToSet(r.bws) <=> x = t \/ \E u \in Windows : x \in ToSet(s.pack[u])
    BY <1>5, <1>6 DEF Good, Listed
  <2>2. \A x \in Tabs, u \in Windows :
           x \in ToSet(r.pack[u]) <=> x \in ToSet(s.pack[u]) \/ (x = t /\ u = w)
    BY <1>2, <1>7
  <2>3. \A x \in Tabs : x \in ToSet(r.bws) <=> \E u \in Windows : x \in ToSet(r.pack[u])
    BY <2>1, <2>2
  <2> QED BY <1>5, <1>6, <2>3 DEF Listed
<1>10. ASSUME NEW u \in Windows, u # w PROVE WindowGood(r, u)
  <2>1. /\ ToSet(s.pack[u]) \cap ToSet(s.pack[w]) = {} /\ t \notin ToSet(s.pack[u])
        /\ WindowGood(s, u) /\ ToSet(s.pack[u]) \subseteq Tabs
    <3>1. ToSet(s.pack[u]) \subseteq Tabs
      BY <1>1 DEF StateSet, ToSet
    <3> QED BY <1>10, <3>1 DEF Good, Apart
  <2>2. ToSet(s.pack[u]) \subseteq Tabs \ ToSet(a)
    BY <1>2, <2>1
  <2>3. r.pack[u] = s.pack[u] /\ r.wizard[u] = r.pack[u]
    BY <1>4, <1>6, <1>7, <1>10
  <2>4. OwnParts(r, u)
    BY <2>1, <2>3 DEF WindowGood, OwnParts
  <2>5. \A x \in ToSet(s.pack[u]) : /\ x \in r.visible <=> x \in s.visible
                                    /\ x \in r.lit <=> x \in s.lit
                                    /\ x \in r.collapsed <=> x \in s.collapsed
    BY <1>3, <1>6, <2>2 DEF AddedTo, a
  <2>6. u \in r.bar <=> u \in s.bar
    BY <1>3, <1>6, <1>10 DEF AddedTo
  <2>7. Reachable(r, u)
    BY <2>1, <2>3, <2>5, <2>6 DEF WindowGood, Reachable
  <2>8. ASSUME NEW x \in Tabs, Shows(s, u, x) PROVE Shows(r, u, x)
    <3>1. x # t /\ r.label[x] = s.label[x]
      BY <1>1, <1>4, <1>6, <2>1, <2>8 DEF Shows, StateSet
    <3>2. r.title[u] = s.title[u]
      BY <1>1, <1>6, <1>10 DEF StateSet
    <3> QED BY <2>3, <2>5, <2>8, <3>1, <3>2 DEF Shows
  <2> QED BY <2>1, <2>3, <2>4, <2>7, <2>8 DEF WindowGood
<1>11. WindowGood(r, w)
  <2>1. OwnParts(r, w)
    BY <1>2, <1>4, <1>6, <1>7 DEF OwnParts
  <2>2. Reachable(r, w)
    BY <1>3, <1>6, <1>7 DEF AddedTo, Reachable, a
  <2>3. r.visible \cap ToSet(a) = {v} /\ r.lit \cap ToSet(a) = {v}
    BY <1>3, <1>6 DEF AddedTo, a
  <2>4. v \in Tabs
    BY <1>2 DEF ToSet
  <2>5. r.title[w] = r.label[v]
    <3>1. CASE front
      BY <1>1, <1>3, <1>6, <3>1 DEF StateSet
    <3>2. CASE ~front
      BY <1>1, <1>3, <1>4, <1>6, <2>4, <3>2 DEF StateSet, Shows
    <3> QED BY <3>1, <3>2
  <2>6. Shows(r, w, v)
    BY <1>7, <2>3, <2>5 DEF Shows
  <2> QED BY <2>1, <2>2, <2>4, <2>6 DEF WindowGood
<1>12. Good(r)
  BY <1>6, <1>8, <1>9, <1>10, <1>11 DEF Good
<1> QED BY <1>12 DEF r

-----------------------------------------------------------------------------
(* Closing many.  The functions that describe the loops exist, by the least     *)
(* number of turns for which they would not.                                    *)

LEMMA CloseShownLoop ==
  ASSUME NEW s, NEW w, NEW n \in Nat
  PROVE  \E close : /\ close[0] = s /\ CloseShown(s, w, n) = close[n]
                    /\ \A k \in 1 .. n :
                         close[k] = CloseBw(close[k - 1], WizardValue(close[k - 1], w))
<1> DEFINE Turn(x) == CloseBw(x, WizardValue(x, w))
           Works(m, f) == f = [k \in 0 .. m |-> IF k = 0 THEN s ELSE Turn(f[k - 1])]
           Bad == {m \in Nat : ~\E f : Works(m, f)}
<1> HIDE DEF Turn
<1>1. Bad = {}
  <2> SUFFICES ASSUME Bad # {} PROVE FALSE
    OBVIOUS
  <2>1. PICK m \in Bad : \A y \in Bad : m <= y
    <3>1. Bad \subseteq Nat
      OBVIOUS
    <3> HIDE DEF Bad
    <3> QED BY <3>1, LeastOf
  <2>2. m # 0
    <3> SUFFICES Works(0, [k \in 0 .. 0 |-> s])
      BY <2>1
    <3> QED OBVIOUS
  <2>3. PICK f : Works(m - 1, f)
    <3>1. m - 1 \in Nat /\ ~(m <= m - 1)
      BY <2>1, <2>2
    <3> HIDE DEF Works
    <3> QED BY <2>1, <3>1
  <2> DEFINE g == [k \in 0 .. m |-> IF k < m THEN f[k] ELSE Turn(f[m - 1])]
  <2>4. Works(m, g)
    <3>1. \A k \in 0 .. m : g[k] = IF k < m THEN f[k] ELSE Turn(f[m - 1])
      OBVIOUS
    <3>2. \A k \in 0 .. m - 1 : f[k] = IF k = 0 THEN s ELSE Turn(f[k - 1])
      BY <2>3
    <3>3. m \in Nat /\ \A k \in 0 .. m : k # 0 => k - 1 \in 0 .. m /\ k - 1 < m
      BY <2>1
    <3> HIDE DEF g
    <3>4. \A k \in 0 .. m : g[k] = IF k = 0 THEN s ELSE Turn(g[k - 1])
      BY <2>2, <3>1, <3>2, <3>3
    <3>5. g = [k \in 0 .. m |-> g[k]]
      BY DEF g
    <3> QED BY <3>4, <3>5
  <2> QED BY <2>1, <2>4
<1> DEFINE f == CHOOSE f : f = [k \in 0 .. n |-> IF k = 0 THEN s ELSE Turn(f[k - 1])]
<1>2. f = [k \in 0 .. n |-> IF k = 0 THEN s ELSE Turn(f[k - 1])]
  <2>1. \E x : Works(n, x)
    BY <1>1
  <2> QED BY <2>1
<1>3. CloseShown(s, w, n) = f[n]
  BY DEF CloseShown, Turn
<1> HIDE DEF f
<1>4. \A k \in 0 .. n : f[k] = IF k = 0 THEN s ELSE Turn(f[k - 1])
  BY <1>2
<1>5. f[0] = s /\ \A k \in 1 .. n : f[k] = Turn(f[k - 1])
  BY <1>4
<1> QED BY <1>3, <1>5 DEF Turn

\* Every tab of a window is closed, however many there are.
LEMMA CloseShownRight ==
  ASSUME NEW s, Good(s), NEW w \in Windows
  PROVE  Good(CloseShown(s, w, Len(s.pack[w])))
<1> DEFINE n == Len(s.pack[w])
<1>1. n \in Nat
  BY DEF Good, StateSet
<1> HIDE DEF n
<1>2. PICK close : /\ close[0] = s /\ CloseShown(s, w, n) = close[n]
                   /\ \A k \in 1 .. n :
                        close[k] = CloseBw(close[k - 1], WizardValue(close[k - 1], w))
  BY <1>1, CloseShownLoop
<1> DEFINE Right(k) == Good(close[k]) /\ Len(close[k].pack[w]) = n - k
           Bad == {k \in 0 .. n : ~Right(k)}
<1>3. Bad = {}
  <2> SUFFICES ASSUME Bad # {} PROVE FALSE
    OBVIOUS
  <2>1. PICK k \in Bad : \A y \in Bad : k <= y
    <3>1. Bad \subseteq Nat
      OBVIOUS
    <3> HIDE DEF Bad
    <3> QED BY <3>1, LeastOf
  <2>2. Right(0)
    BY <1>1, <1>2 DEF n
  <2>3. k \in 1 .. n
    BY <1>1, <2>1, <2>2
  <2>4. Right(k - 1)
    <3>1. k - 1 \in 0 .. n /\ ~(k <= k - 1)
      BY <1>1, <2>3
    <3> HIDE DEF Right
    <3> QED BY <2>1, <3>1
  <2> DEFINE x == close[k - 1]
  <2>5. Good(x) /\ Len(x.pack[w]) = n - (k - 1) /\ close[k] = CloseBw(x, WizardValue(x, w))
    BY <1>2, <2>3, <2>4
  <2> HIDE DEF x
  <2>6. x.pack[w] # <<>>
    BY <1>1, <2>3, <2>5
  <2>7. PICK v \in Tabs : Shows(x, w, v)
    BY <2>5, <2>6 DEF Good, WindowGood
  <2>8. WizardValue(x, w) = v /\ v \in ToSet(x.pack[w])
    BY <2>5, <2>7, AskedRight DEF Shows
  <2>9. Good(close[k]) /\ Len(close[k].pack[w]) = Len(x.pack[w]) - 1
    BY <2>5, <2>8, CloseBwRight
  <2>10. Right(k)
    BY <1>1, <2>3, <2>5, <2>9
  <2> QED BY <2>1, <2>10
<1>4. Right(n)
  BY <1>1, <1>3
<1> QED BY <1>2, <1>4 DEF n

LEMMA CloseFirstLoop ==
  ASSUME NEW s, s.bws \in Seq(Tabs)
  PROVE  \E close : /\ close[0] = s /\ CloseFirst(s) = close[Len(s.bws)]
                    /\ \A k \in 1 .. Len(s.bws) :
                         close[k] = CloseBw(close[k - 1], Head(close[k - 1].bws))
<1> DEFINE n == Len(s.bws)
           Turn(x) == CloseBw(x, Head(x.bws))
           Works(m, f) == f = [k \in 0 .. m |-> IF k = 0 THEN s ELSE Turn(f[k - 1])]
           Bad == {m \in Nat : ~\E f : Works(m, f)}
<1>0. n \in Nat
  OBVIOUS
<1> HIDE DEF Turn, n
<1>1. Bad = {}
  <2> SUFFICES ASSUME Bad # {} PROVE FALSE
    OBVIOUS
  <2>1. PICK m \in Bad : \A y \in Bad : m <= y
    <3>1. Bad \subseteq Nat
      OBVIOUS
    <3> HIDE DEF Bad
    <3> QED BY <3>1, LeastOf
  <2>2. m # 0
    <3> SUFFICES Works(0, [k \in 0 .. 0 |-> s])
      BY <2>1
    <3> QED OBVIOUS
  <2>3. PICK f : Works(m - 1, f)
    <3>1. m - 1 \in Nat /\ ~(m <= m - 1)
      BY <2>1, <2>2
    <3> HIDE DEF Works
    <3> QED BY <2>1, <3>1
  <2> DEFINE g == [k \in 0 .. m |-> IF k < m THEN f[k] ELSE Turn(f[m - 1])]
  <2>4. Works(m, g)
    <3>1. \A k \in 0 .. m : g[k] = IF k < m THEN f[k] ELSE Turn(f[m - 1])
      OBVIOUS
    <3>2. \A k \in 0 .. m - 1 : f[k] = IF k = 0 THEN s ELSE Turn(f[k - 1])
      BY <2>3
    <3>3. m \in Nat /\ \A k \in 0 .. m : k # 0 => k - 1 \in 0 .. m /\ k - 1 < m
      BY <2>1
    <3> HIDE DEF g
    <3>4. \A k \in 0 .. m : g[k] = IF k = 0 THEN s ELSE Turn(g[k - 1])
      BY <2>2, <3>1, <3>2, <3>3
    <3>5. g = [k \in 0 .. m |-> g[k]]
      BY DEF g
    <3> QED BY <3>4, <3>5
  <2> QED BY <2>1, <2>4
<1> DEFINE f == CHOOSE f : f = [k \in 0 .. n |-> IF k = 0 THEN s ELSE Turn(f[k - 1])]
<1>2. f = [k \in 0 .. n |-> IF k = 0 THEN s ELSE Turn(f[k - 1])]
  <2>1. \E x : Works(n, x)
    BY <1>0, <1>1
  <2> QED BY <2>1
<1>3. CloseFirst(s) = f[n]
  BY DEF CloseFirst, Turn, n
<1> HIDE DEF f
<1>4. \A k \in 0 .. n : f[k] = IF k = 0 THEN s ELSE Turn(f[k - 1])
  BY <1>2
<1>5. f[0] = s /\ \A k \in 1 .. n : f[k] = Turn(f[k - 1])
  BY <1>0, <1>4
<1> QED BY <1>3, <1>5 DEF Turn, n

LEMMA CloseFirstRight ==
  ASSUME NEW s, Good(s)
  PROVE  Good(CloseFirst(s))
<1> DEFINE n == Len(s.bws)
<1>1. n \in Nat /\ s.bws \in Seq(Tabs)
  BY DEF Good, StateSet
<1>2. PICK close : /\ close[0] = s /\ CloseFirst(s) = close[n]
                   /\ \A k \in 1 .. n : close[k] = CloseBw(close[k - 1], Head(close[k - 1].bws))
  BY <1>1, CloseFirstLoop
<1> HIDE DEF n
<1> DEFINE Right(k) == Good(close[k]) /\ Len(close[k].bws) = n - k
           Bad == {k \in 0 .. n : ~Right(k)}
<1>3. Bad = {}
  <2> SUFFICES ASSUME Bad # {} PROVE FALSE
    OBVIOUS
  <2>1. PICK k \in Bad : \A y \in Bad : k <= y
    <3>1. Bad \subseteq Nat
      OBVIOUS
    <3> HIDE DEF Bad
    <3> QED BY <3>1, LeastOf
  <2>2. Right(0)
    BY <1>1, <1>2 DEF n
  <2>3. k \in 1 .. n
    BY <1>1, <2>1, <2>2
  <2>4. Right(k - 1)
    <3>1. k - 1 \in 0 .. n /\ ~(k <= k - 1)
      BY <1>1, <2>3
    <3> HIDE DEF Right
    <3> QED BY <2>1, <3>1
  <2> DEFINE x == close[k - 1]
  <2>5. Good(x) /\ Len(x.bws) = n - (k - 1) /\ close[k] = CloseBw(x, Head(x.bws))
    BY <1>2, <2>3, <2>4
  <2> HIDE DEF x
  <2>6. x.bws \in Seq(Tabs) /\ x.bws # <<>>
    BY <1>1, <2>3, <2>5 DEF Good, StateSet
  <2>7. Head(x.bws) \in ToSet(x.bws) /\ Head(x.bws) \in Tabs
    BY <2>6 DEF ToSet
  <2>8. PICK w \in Windows : Head(x.bws) \in ToSet(x.pack[w])
    BY <2>5, <2>7 DEF Good, Listed
  <2>9. Good(close[k]) /\ Len(close[k].bws) = Len(x.bws) - 1
    BY <2>5, <2>8, CloseBwRight
  <2>10. Right(k)
    BY SMTT(20), <1>1, <2>3, <2>5, <2>9
  <2> QED BY <2>1, <2>10
<1>4. Right(n)
  BY <1>1, <1>3
<1> QED BY <1>2, <1>4

-----------------------------------------------------------------------------
(* The specification.  A dialog that asks about a window holds how many tabs    *)
(* the window has: titles may arrive meanwhile, but no tab comes or goes.       *)

GoodTabs == Good(State)

TabsInv ==
  /\ GoodTabs
  /\ asking = NotAsking \/ asking.kind = "all"
     \/ /\ asking.window \in Windows
        /\ asking.count = Len(pack[asking.window])

LEMMA BecomeRight ==
  ASSUME NEW r, Good(r), Become(r)
  PROVE  GoodTabs' /\ pack' = r.pack
<1>1. State' = r
  BY DEF Good, StateSet, State, Become
<1> QED BY <1>1 DEF GoodTabs, Become

\* Where no dialog is open afterwards.
LEMMA Settled ==
  ASSUME NEW r, Good(r), Become(r), asking' = NotAsking
  PROVE  TabsInv'
BY BecomeRight DEF TabsInv

LEMMA NothingMoved ==
  ASSUME GoodTabs, UNCHANGED tabsOnly
  PROVE  GoodTabs' /\ pack' = pack
BY DEF GoodTabs, tabsOnly, State

\* The window of a listed page, and what a free identifier is.
LEMMA WindowOfRight ==
  ASSUME GoodTabs, NEW t \in ToSet(bws)
  PROVE  /\ WindowOf(t) \in Windows /\ t \in ToSet(pack[WindowOf(t)])
         /\ t \in Tabs /\ pack[WindowOf(t)] # <<>>
<1>1. State.bws = bws /\ State.pack = pack /\ State.wizard = wizard
  BY DEF State
<1>2. /\ bws \in Seq(Tabs) /\ \A w \in Windows : pack[w] \in Seq(Tabs) /\ wizard[w] = pack[w]
  BY <1>1 DEF GoodTabs, Good, StateSet, WindowGood, OwnParts
<1>3. t \in Tabs
  BY <1>2 DEF ToSet
<1>4. \E w \in Windows : t \in ToSet(pack[w])
  BY <1>1, <1>3 DEF GoodTabs, Good, Listed
<1>5. \A w \in Windows : Contains(wizard[w], t) <=> t \in ToSet(pack[w])
  BY <1>2 DEF Contains, ToSet
<1>6. WindowOf(t) \in Windows /\ t \in ToSet(pack[WindowOf(t)])
  BY <1>4, <1>5 DEF WindowOf
<1> QED BY <1>2, <1>3, <1>6 DEF ToSet

LEMMA FreshTabRight ==
  ASSUME GoodTabs, Free # {}
  PROVE  FreshTab \in Tabs /\ \A u \in Windows : FreshTab \notin ToSet(pack[u])
<1>1. \A w \in Windows : wizard[w] = pack[w]
  BY DEF GoodTabs, Good, WindowGood, OwnParts, State
<1>2. Free \subseteq Tabs /\ Free \subseteq Nat
  BY IdentifiersAreNumbers DEF Free
<1>3. FreshTab \in Free
  <2>1. \E t \in Free : \A u \in Free : t <= u
    BY <1>2, LeastOf
  <2> QED BY <2>1 DEF FreshTab
<1> QED BY <1>1, <1>2, <1>3 DEF Free

LEMMA OpenWindowShows ==
  ASSUME GoodTabs, NEW w \in OpenWindows
  PROVE  w \in Windows /\ \E v \in Tabs : Shows(State, w, v) /\ v \in ToSet(pack[w])
BY DEF OpenWindows, GoodTabs, Good, WindowGood, Shows, State

LEMMA TabsStart == TabsInit => TabsInv
<1> SUFFICES ASSUME TabsInit PROVE TabsInv
  OBVIOUS
<1>1. /\ State.pack = [w \in Windows |-> <<>>] /\ State.wizard = State.pack
      /\ State.visible = {} /\ State.lit = {} /\ State.collapsed = {} /\ State.bar = {}
      /\ State.bws = <<>> /\ State.label = [t \in Tabs |-> NoTitle]
      /\ State.title = [w \in Windows |-> NoTitle]
  BY DEF TabsInit, State
<1>2. State \in StateSet
  <2>1. [w \in Windows |-> <<>>] \in [Windows -> Seq(Tabs)]
    OBVIOUS
  <2>2. NoTitle \in Texts
    BY DEF Texts
  <2> HIDE DEF NoTitle
  <2> QED BY <2>1, <2>2 DEF TabsInit, State, StateSet
<1>3. \A w \in Windows : State.pack[w] = <<>> /\ ToSet(State.pack[w]) = {}
  BY <1>1 DEF ToSet
<1>4. \A w \in Windows : WindowGood(State, w)
  BY <1>1, <1>3 DEF WindowGood, OwnParts, Reachable, IsInjective
<1>5. Apart(State) /\ Listed(State)
  <2>1. IsInjective(<<>>) /\ ToSet(<<>>) = {}
    BY DEF IsInjective, ToSet
  <2> QED BY <1>1, <1>3, <2>1 DEF Apart, Listed
<1> QED BY <1>2, <1>4, <1>5 DEF TabsInit, TabsInv, GoodTabs, Good

LEMMA TitleRight ==
  ASSUME TabsInv, NEW t \in ToSet(bws), NEW name \in PageTitles, SetPageTitle(t, name)
  PROVE  TabsInv'
<1> DEFINE w == WindowOf(t)
           named == [Asked(State, w) EXCEPT !.label[t] = name]
           r == IF WizardValue(named, w) = t THEN [named EXCEPT !.title[w] = name] ELSE named
<1>1. Become(r) /\ UNCHANGED <<always, asking, leaving>>
  BY Zenon DEF SetPageTitle
<1>2. w \in Windows /\ t \in ToSet(pack[w]) /\ t \in Tabs /\ pack[w] # <<>>
  BY WindowOfRight DEF TabsInv
<1> HIDE DEF w
<1>3. Good(State) /\ State.pack = pack
  BY DEF TabsInv, GoodTabs, State
<1>4. PICK v \in Tabs : Shows(State, w, v)
  BY <1>2, <1>3 DEF Good, WindowGood
<1>5. Asked(State, w) = State /\ WizardValue(State, w) = v
  BY <1>2, <1>3, <1>4, AskedRight
<1>6. State \in StateSet
  BY <1>3 DEF Good
<1> DEFINE s == State
<1> HIDE DEF s
<1>7. /\ named \in StateSet
      /\ named.label = [s.label EXCEPT ![t] = name] /\ named.title = s.title
      /\ named.pack = s.pack /\ named.wizard = s.wizard /\ named.visible = s.visible
      /\ named.lit = s.lit /\ named.collapsed = s.collapsed /\ named.bar = s.bar
      /\ named.bws = s.bws
  <2>1. [s.label EXCEPT ![t] = name] \in [Tabs -> Texts]
    BY <1>2, <1>6 DEF StateSet, Texts, s
  <2>2. named = [s EXCEPT !.label = [s.label EXCEPT ![t] = name]]
    BY <1>5, <1>6 DEF s, StateSet
  <2> HIDE DEF named
  <2> QED BY <1>6, <2>1, <2>2 DEF StateSet, s
<1> HIDE DEF named
<1>8. WizardValue(named, w) = WizardValue(s, w)
  <2>1. named.wizard = s.wizard /\ named.visible = s.visible
    BY <1>7
  <2> QED BY <2>1 DEF WizardValue
<1>9. /\ r \in StateSet
      /\ r.label = [s.label EXCEPT ![t] = name]
      /\ r.title = IF v = t THEN [s.title EXCEPT ![w] = name] ELSE s.title
      /\ r.pack = s.pack /\ r.wizard = s.wizard /\ r.visible = s.visible
      /\ r.lit = s.lit /\ r.collapsed = s.collapsed /\ r.bar = s.bar
      /\ r.bws = s.bws
  <2>1. CASE v = t
    <3>1. [s.title EXCEPT ![w] = name] \in [Windows -> Texts]
      BY <1>2, <1>6 DEF StateSet, Texts, s
    <3>2. r = [named EXCEPT !.title = [s.title EXCEPT ![w] = name]]
      BY <1>5, <1>7, <1>8, <2>1 DEF s, StateSet
    <3> HIDE DEF r
    <3> QED BY <1>7, <2>1, <3>1, <3>2 DEF StateSet
  <2>2. CASE v # t
    BY <1>5, <1>7, <1>8, <2>2 DEF s
  <2> QED BY <2>1, <2>2
<1> HIDE DEF r
<1>10. Good(s) /\ s.pack = pack /\ Shows(s, w, v)
  BY <1>3, <1>4 DEF s
<1>11. ASSUME NEW u \in Windows, NEW x \in Tabs, Shows(s, u, x) PROVE Shows(r, u, x)
  <2>1. u # w => t \notin ToSet(s.pack[u])
    BY <1>2, <1>10 DEF Good, Apart
  <2>2. u = w => x = v
    BY <1>10, <1>11 DEF Shows
  <2>3. r.title[u] = r.label[x]
    BY <1>2, <1>9, <1>10, <1>11, <2>1, <2>2 DEF Good, StateSet, Shows
  <2> QED BY <1>9, <1>11, <2>3 DEF Shows
<1>12. Good(r)
  <2>1. \A u \in Windows : OwnParts(r, u) /\ Reachable(r, u)
    BY <1>9, <1>10 DEF Good, WindowGood, OwnParts, Reachable
  <2>2. \A u \in Windows : WindowGood(r, u)
    BY <1>9, <1>10, <1>11, <2>1 DEF Good, WindowGood
  <2>3. Apart(r) /\ Listed(r)
    BY <1>9, <1>10 DEF Good, Apart, Listed
  <2> QED BY <1>9, <2>2, <2>3 DEF Good
<1>13. GoodTabs' /\ pack' = pack /\ asking' = asking
  BY <1>1, <1>9, <1>10, <1>12, BecomeRight
<1> QED BY <1>13 DEF TabsInv

LEMMA TabsKeep == TabsInv /\ [TabsNext]_tabsVars => TabsInv'
<1> SUFFICES ASSUME TabsInv, [TabsNext]_tabsVars PROVE TabsInv'
  OBVIOUS
<1>0. GoodTabs /\ Good(State) /\ State.pack = pack /\ State.bws = bws
  BY DEF TabsInv, GoodTabs, State
<1>1. CASE BrowserWindowNew
  <2> DEFINE closed == Windows \ OpenWindows
             w == CHOOSE x \in closed : \A y \in closed : x <= y
  <2>1. closed # {} /\ closed \subseteq Nat
    BY <1>1, IdentifiersAreNumbers DEF BrowserWindowNew, OpenWindows
  <2>2. w \in closed
    <3>1. \E x \in closed : \A y \in closed : x <= y
      BY <2>1, LeastOf
    <3> QED BY <3>1
  <2>3. w \in Windows /\ pack[w] = <<>>
    BY <2>2 DEF OpenWindows
  <2>4. Become(TabNew(State, w, FreshTab, TRUE)) /\ asking' = NotAsking
    BY <1>1 DEF BrowserWindowNew, Idle
  <2> HIDE DEF w
  <2>5. FreshTab \in Tabs /\ \A u \in Windows : FreshTab \notin ToSet(pack[u])
    BY <1>0, <1>1, FreshTabRight DEF BrowserWindowNew
  <2>6. Good(TabNew(State, w, FreshTab, TRUE))
    BY <1>0, <2>3, <2>5, TabNewRight
  <2> QED BY <2>4, <2>6, Settled
<1>2. ASSUME NEW t \in ToSet(bws), NEW front \in BOOLEAN, OpenUrlNt(t, front) PROVE TabsInv'
  <2>1. WindowOf(t) \in Windows /\ pack[WindowOf(t)] # <<>>
    BY <1>0, WindowOfRight
  <2>2. FreshTab \in Tabs /\ \A u \in Windows : FreshTab \notin ToSet(pack[u])
    BY <1>0, <1>2, FreshTabRight DEF OpenUrlNt
  <2>3. Good(TabNew(State, WindowOf(t), FreshTab, front))
    BY <1>0, <2>1, <2>2, TabNewRight
  <2> QED BY <1>2, <2>3, Settled DEF OpenUrlNt, Idle
<1>3. ASSUME NEW w \in OpenWindows, NEW t \in Tabs, TabBtnCb(w, t) PROVE TabsInv'
  <2>1. PICK v \in Tabs : w \in Windows /\ Shows(State, w, v)
    BY <1>0, OpenWindowShows
  <2>2. t \in ToSet(pack[w])
    BY <1>3 DEF TabBtnCb
  <2>3. Good(SwitchTab(State, w, t)) /\ Good(CloseBw(State, t))
    BY <1>0, <2>1, <2>2, SwitchTabRight, CloseBwRight
  <2> QED BY <1>3, <2>3, Settled DEF TabBtnCb, Idle
<1>4. ASSUME NEW w \in OpenWindows, CloseTab(w) PROVE TabsInv'
  <2>1. PICK v \in Tabs : w \in Windows /\ Shows(State, w, v) /\ v \in ToSet(pack[w])
    BY <1>0, OpenWindowShows
  <2>2. WizardValue(State, w) = v
    BY <1>0, <2>1, AskedRight
  <2>3. Good(CloseBw(State, v))
    BY <1>0, <2>1, CloseBwRight
  <2> QED BY <1>4, <2>2, <2>3, Settled DEF CloseTab, Idle
<1>5. ASSUME NEW w \in OpenWindows, TurnTab(w) PROVE TabsInv'
  <2>1. PICK v \in Tabs : w \in Windows /\ Shows(State, w, v)
    BY <1>0, OpenWindowShows
  <2>2. Good(PrevTab(State, w)) /\ Good(NextTab(State, w))
    BY <1>0, <2>1, TurnRight, SwitchTabRight
  <2> QED BY <1>5, <2>2, Settled DEF TurnTab, Idle
<1>6. ASSUME NEW w \in OpenWindows, WinCb(w) PROVE TabsInv'
  <2>1. w \in Windows
    BY DEF OpenWindows
  <2>2. CASE Become(CloseShown(State, w, Len(pack[w]))) /\ UNCHANGED asking
    BY <1>0, <1>6, <2>1, <2>2, CloseShownRight, Settled DEF WinCb, Idle
  <2>3. CASE /\ asking' = [kind |-> "window", window |-> w, count |-> Len(pack[w])]
             /\ UNCHANGED tabsOnly
    BY <1>0, <2>1, <2>3, NothingMoved DEF TabsInv
  <2> QED BY <1>6, <2>2, <2>3 DEF WinCb
<1>7. CASE CloseAll
  BY <1>0, <1>7, NothingMoved DEF CloseAll, Idle, TabsInv
<1>8. CASE CloseAllBw
  <2>1. CASE Become(CloseFirst(State)) /\ UNCHANGED asking
    BY <1>0, <1>8, <2>1, CloseFirstRight, Settled DEF CloseAllBw
  <2>2. CASE asking' = [kind |-> "all", window |-> 0, count |-> 0] /\ UNCHANGED tabsOnly
    BY <1>0, <2>2, NothingMoved DEF TabsInv
  <2> QED BY <1>8, <2>1, <2>2 DEF CloseAllBw
<1>9. CASE Prefer
  BY <1>0, <1>9, NothingMoved DEF Prefer, Idle, TabsInv
<1>10. ASSUME NEW close \in BOOLEAN, Answer(close) PROVE TabsInv'
  <2>1. CASE UNCHANGED tabsOnly
    BY <1>0, <1>10, <2>1, NothingMoved DEF Answer, TabsInv
  <2>2. CASE /\ asking.kind = "window"
             /\ Become(CloseShown(State, asking.window, asking.count))
    <3>1. asking.window \in Windows /\ asking.count = Len(pack[asking.window])
      BY <1>10, <2>2 DEF TabsInv, Answer
    <3> QED BY <1>0, <1>10, <2>2, <3>1, CloseShownRight, Settled DEF Answer
  <2>3. CASE Become(CloseFirst(State))
    BY <1>0, <1>10, <2>3, CloseFirstRight, Settled DEF Answer
  <2> QED BY <1>10, <2>1, <2>2, <2>3 DEF Answer
<1>11. ASSUME NEW t \in ToSet(bws), NEW name \in PageTitles, SetPageTitle(t, name) PROVE TabsInv'
  BY <1>11, TitleRight
<1>12. CASE UNCHANGED tabsVars
  BY <1>0, <1>12, NothingMoved DEF tabsVars, tabsOnly, TabsInv
<1> QED BY <1>1, <1>2, <1>3, <1>4, <1>5, <1>6, <1>7, <1>8, <1>9, <1>10, <1>11, <1>12 DEF TabsNext

\* uicmd.cc, bw.c: for every number of windows and tabs, the three representations of the
\* tabs stay one, and a window says what it shows.
THEOREM TabsRight == TabsSpec => []TabsAreOne
<1>1. TabsInv => TabsAreOne
  <2> SUFFICES ASSUME TabsInv PROVE TabsAreOne
    OBVIOUS
  <2>1. /\ Good(State) /\ State.pack = pack /\ State.wizard = wizard /\ State.bws = bws
        /\ State.lit = lit /\ State.visible = visible /\ State.title = title
        /\ State.label = label /\ State.bar = bar /\ State.collapsed = collapsed
    BY DEF TabsInv, GoodTabs, State
  <2>2. PartsBelong
    <3>1. \A w \in Windows : pack[w] \in Seq(Tabs) /\ ToSet(pack[w]) \subseteq Tabs
      BY <2>1 DEF Good, StateSet, ToSet
    <3>2. bws \in Seq(Tabs) /\ ToSet(bws) \subseteq Tabs
      BY <2>1 DEF Good, StateSet, ToSet
    <3>3. ToSet(bws) = UNION {ToSet(pack[w]) : w \in Windows}
      BY <2>1, <3>1, <3>2 DEF Good, Listed
    <3> QED BY <2>1, <3>3 DEF PartsBelong, Good, WindowGood, OwnParts, Listed, Apart
  <2>3. ShownIsMarked
    <3> SUFFICES ASSUME NEW w \in OpenWindows
                 PROVE  LET t == WizardValue(State, w)
                        IN  /\ lit \cap ToSet(pack[w]) = {t}
                            /\ title[w] = label[t]
                            /\ visible \cap ToSet(pack[w]) = {t}
      BY DEF ShownIsMarked
    <3>1. PICK v \in Tabs : w \in Windows /\ Shows(State, w, v)
      BY <2>1, OpenWindowShows DEF GoodTabs
    <3>2. WizardValue(State, w) = v
      BY <2>1, <3>1, AskedRight
    <3> QED BY <2>1, <3>1, <3>2 DEF Shows
  <2>4. TabsReachable
    BY <2>1 DEF TabsReachable, OpenWindows, Good, WindowGood, Reachable
  <2> QED BY <2>2, <2>3, <2>4 DEF TabsAreOne
<1> QED BY TabsStart, TabsKeep, <1>1, PTL DEF TabsSpec

-----------------------------------------------------------------------------
(* Panels.  The front decides what the panels may be: only panels that are     *)
(* shown, of a page that is in front, have it in one of their boxes, and the   *)
(* search box is grey only while it does not have it.                          *)

PanelTypes ==
  /\ barsShown \in BOOLEAN /\ temporary \in BOOLEAN /\ wished \in BOOLEAN
  /\ finding \in BOOLEAN /\ grey \in BOOLEAN /\ inFront \in BOOLEAN
  /\ focus \in Widgets

PanelInv ==
  /\ PanelTypes
  /\ PanelsAreRight
  \* Panels that are shown for an entry are panels the user has hidden.
  /\ temporary => ~wished
  /\ focus \in {"location", "search"} => barsShown
  /\ ~inFront => focus = "page"
  /\ focus = "search" => ~grey
  \* A box that is not in use is grey or has a query.
  /\ focus # "search" => grey \/ box # ""

\* Where the focus goes, the search box is what it should be, when it was before.
LEMMA BoxFollows ==
  ASSUME PanelInv, NEW from \in Widgets, NEW to \in Widgets, from = focus,
         inFront, engine' = engine, BoxSees(from, to)
  PROVE  /\ grey' \in BOOLEAN
         /\ to = "search" => ~grey'
         /\ to # "search" => IF grey' THEN box' = engine' ELSE box' # ""
BY DEF PanelInv, PanelTypes, PanelsAreRight, BoxIsCurrent, BoxSees, BoxLeft, BoxEntered, boxVars

\* What holds of the focus after a step, as far as the panels and the box go.
FocusIsRight ==
  /\ finding \in BOOLEAN /\ grey \in BOOLEAN /\ focus \in Widgets
  /\ FindHasFocus
  /\ focus \in {"location", "search"} => barsShown
  /\ focus = "search" => ~grey
  /\ focus # "search" => IF grey THEN box = engine ELSE box # ""

LEMMA HandIsRight ==
  ASSUME PanelInv, inFront, engine' = engine, NEW widget \in Widgets \ {"find"},
         barsShown => barsShown', Hand(widget)
  PROVE  FocusIsRight'
<1> DEFINE taken == IF ~CanFocus(widget) THEN focus
                    ELSE IF focus = "find" /\ widget # "find" THEN "page" ELSE widget
<1>1. focus' = taken /\ finding' = (taken = "find")
  BY DEF Hand
<1>2. taken \in Widgets
  BY DEF PanelInv, PanelTypes, Widgets
<1>3. taken \in {"location", "search"} => barsShown'
  BY DEF PanelInv, CanFocus
<1>4. CASE focus = "find" /\ widget = "search" /\ CanFocus(widget)
  BY <1>1, <1>2, <1>4
  DEF Hand, FocusIsRight, FindHasFocus, PanelInv, PanelTypes, PanelsAreRight, BoxIsCurrent,
      boxVars, Widgets
<1>5. CASE ~(focus = "find" /\ widget = "search" /\ CanFocus(widget))
  <2>1. BoxSees(focus, taken)
    BY <1>5 DEF Hand
  <2>2. focus \in Widgets
    BY DEF PanelInv, PanelTypes
  <2> HIDE DEF taken
  <2>3. /\ grey' \in BOOLEAN
        /\ taken = "search" => ~grey'
        /\ taken # "search" => IF grey' THEN box' = engine' ELSE box' # ""
    BY <1>2, <2>1, <2>2, BoxFollows
  <2> QED BY <1>1, <1>2, <1>3, <2>3 DEF FocusIsRight, FindHasFocus
<1> QED BY <1>4, <1>5

LEMMA PanelsStart == PanelInit => PanelInv
BY DEF PanelInit, PanelInv, PanelTypes, Widgets, PanelsAreRight, PanelsAreWished, FindHasFocus,
       BoxIsCurrent

\* A page that stays in front: the panels are as wished, the focus is right.
LEMMA InFrontIsRight ==
  ASSUME PanelInv, inFront', FocusIsRight',
         barsShown' \in BOOLEAN, temporary' \in BOOLEAN, wished' \in BOOLEAN,
         PanelsAreWished', temporary' => ~wished'
  PROVE  PanelInv'
BY DEF PanelInv, PanelTypes, PanelsAreRight, BoxIsCurrent, FocusIsRight

LEMMA PanelsKeep == PanelInv /\ [PanelNext]_panelVars => PanelInv'
<1> SUFFICES ASSUME PanelInv, [PanelNext]_panelVars PROVE PanelInv'
  OBVIOUS
<1> USE DEF Widgets
<1>0. PanelTypes
  BY DEF PanelInv
<1>1. CASE HidePanels
  <2>1. FocusIsRight'
    <3>1. CASE barsShown
      <4> DEFINE stays == IF focus \in {"location", "search"} THEN "page" ELSE focus
      <4>1. focus' = stays /\ finding' = finding /\ BoxSees(focus, stays)
        BY <1>1, <3>1 DEF HidePanels, HideBars
      <4>2. stays \in Widgets /\ focus \in Widgets
        BY <1>0 DEF PanelTypes
      <4>3. /\ grey' \in BOOLEAN
            /\ stays = "search" => ~grey'
            /\ stays # "search" => IF grey' THEN box' = engine' ELSE box' # ""
        BY <1>1, <4>1, <4>2, BoxFollows DEF HidePanels
      <4> QED BY <1>0, <1>1, <4>1, <4>3
              DEF FocusIsRight, PanelInv, PanelTypes, PanelsAreRight, FindHasFocus
    <3>2. CASE ~barsShown
      BY <1>1, <3>2 DEF HidePanels, FocusIsRight, PanelInv, PanelTypes, PanelsAreRight,
                        FindHasFocus, BoxIsCurrent, boxVars
    <3> QED BY <3>1, <3>2
  <2> QED BY <1>0, <1>1, <2>1, InFrontIsRight DEF HidePanels, PanelTypes, PanelsAreWished
<1>2. CASE Enter
  <2>1. focus \in Widgets /\ "page" \in Widgets
    BY <1>0 DEF PanelTypes
  <2>2. /\ grey' \in BOOLEAN
        /\ IF grey' THEN box' = engine' ELSE box' # ""
    BY <1>2, <2>1, BoxFollows DEF Enter
  <2>3. FocusIsRight'
    BY <1>0, <1>2, <2>2 DEF Enter, FocusIsRight, PanelInv, PanelTypes, PanelsAreRight, FindHasFocus
  <2>4. barsShown
    BY <1>2 DEF Enter, PanelInv
  <2> QED BY <1>0, <1>2, <2>3, <2>4, InFrontIsRight
          DEF Enter, PanelTypes, PanelInv, PanelsAreRight, PanelsAreWished
<1>3. CASE Leave
  <2>1. FocusIsRight'
    BY <1>3, HandIsRight DEF Leave
  <2> QED BY <1>0, <1>3, <2>1, InFrontIsRight
          DEF Leave, PanelTypes, PanelInv, PanelsAreRight, PanelsAreWished
<1>4. CASE Find
  <2>1. focus \in Widgets /\ "find" \in Widgets
    BY <1>0 DEF PanelTypes
  <2>2. /\ grey' \in BOOLEAN
        /\ IF grey' THEN box' = engine' ELSE box' # ""
    BY <1>4, <2>1, BoxFollows DEF Find
  <2>3. FocusIsRight'
    BY <1>4, <2>2 DEF Find, FocusIsRight, FindHasFocus
  <2> QED BY <1>0, <1>4, <2>3, InFrontIsRight
          DEF Find, PanelTypes, PanelInv, PanelsAreRight, PanelsAreWished
<1>5. CASE TypeQuery
  BY <1>5 DEF TypeQuery, PanelInv, PanelTypes, PanelsAreRight, PanelsAreWished, FindHasFocus,
              BoxIsCurrent
<1>6. CASE TabAway
  BY <1>6 DEF TabAway, PanelInv, PanelTypes, PanelsAreRight, PanelsAreWished, FindHasFocus,
              BoxIsCurrent, BoxSees, BoxLeft, boxVars
<1>7. CASE TabBack
  BY <1>7 DEF TabBack, PanelInv, PanelTypes, PanelsAreRight, PanelsAreWished, FindHasFocus,
              BoxIsCurrent, BoxLeft, boxVars
<1>8. ASSUME NEW widget \in {"location", "search"}, GoTo(widget) PROVE PanelInv'
  <2>1. FocusIsRight'
    BY <1>8, HandIsRight DEF GoTo
  <2> QED BY <1>0, <1>8, <2>1, InFrontIsRight
          DEF GoTo, PanelTypes, PanelInv, PanelsAreRight, PanelsAreWished
<1>9. ASSUME NEW widget \in {"location", "search"}, ClickOn(widget) PROVE PanelInv'
  <2>1. FocusIsRight'
    BY <1>9, HandIsRight DEF ClickOn
  <2> QED BY <1>0, <1>9, <2>1, InFrontIsRight
          DEF ClickOn, PanelTypes, PanelInv, PanelsAreRight, PanelsAreWished
<1>10. ASSUME NEW e \in EngineNames, PickEngine(e) PROVE PanelInv'
  BY <1>10 DEF PickEngine, PanelInv, PanelTypes, PanelsAreRight, PanelsAreWished, FindHasFocus,
               BoxIsCurrent, boxVars
<1>11. ASSUME NEW e \in EngineNames, ChangedElsewhere(e) PROVE PanelInv'
  BY <1>11 DEF ChangedElsewhere, PanelInv, PanelTypes, PanelsAreRight, PanelsAreWished,
               FindHasFocus, BoxIsCurrent, boxVars
<1>12. CASE UNCHANGED panelVars
  BY <1>12 DEF panelVars, PanelInv, PanelTypes, PanelsAreRight, PanelsAreWished,
               FindHasFocus, BoxIsCurrent
<1> QED BY <1>1, <1>2, <1>3, <1>4, <1>5, <1>6, <1>7, <1>8, <1>9, <1>10, <1>11, <1>12 DEF PanelNext

\* ui.cc, findbar.cc: the panels are what the user last asked for, except while they are
\* shown for an entry; the find bar is there exactly while it has the focus; the search
\* box says which engine a search would use.
THEOREM PanelsRight == PanelSpec => []PanelsAreRight
<1>1. PanelInv => PanelsAreRight
  BY DEF PanelInv
<1> QED BY PanelsStart, PanelsKeep, <1>1, PTL DEF PanelSpec

\* uicmd.cc, ui.cc: windows whose tabs and panels move as the two modules say are what the
\* user sees and asked for, however the steps of the two are interleaved.
THEOREM WindowsRight == TabsSpec /\ PanelSpec => []WindowsAreRight
<1>1. TabsAreOne /\ PanelsAreRight => WindowsAreRight
  BY DEF WindowsAreRight
<1> QED BY <1>1, TabsRight, PanelsRight, PTL

-----------------------------------------------------------------------------
(* Keys.  The table never has two nodes for a key, and the node it has is what  *)
(* keysrc means.                                                                *)

KeyInv ==
  /\ keysrc \in Seq(KeyLines)
  /\ \A node \in bindings : node.key \in Codes /\ node.modifier \in SUBSET Modifiers
  /\ \A key \in Codes \ {0}, state \in SUBSET Modifiers :
       IF AtKey(bindings, key, state) = {} THEN Meaning(key, state) = {"nop"}
       ELSE \E node \in bindings : /\ AtKey(bindings, key, state) = {node}
                                   /\ node.cmd \in Meaning(key, state)
  /\ \A node \in bindings : node.key # 0

\* The lines about a key.
LinesOn(src, key, state) == {i \in DOMAIN src : LineNames(src[i], key, state)}

\* Of lines there is a last one.
LEMMA LastLine ==
  ASSUME NEW n \in Nat, NEW T \in SUBSET (1 .. n), T # {}
  PROVE  \E i \in T : \A j \in T : j <= i
<1> DEFINE D == {n - i : i \in T}
<1>0. \A i \in 1 .. n : n - i \in Nat
  OBVIOUS
<1>1. D \subseteq Nat /\ D # {}
  BY <1>0
<1> HIDE DEF D
<1>2. PICK d \in D : \A e \in D : d <= e
  BY <1>1, LeastOf
<1>3. PICK i \in T : d = n - i
  BY <1>2 DEF D
<1>4. \A j \in T : d <= n - j
  BY <1>2 DEF D
<1> QED BY <1>3, <1>4

\* A line that is not about a key does not change what keysrc means for it.
LEMMA OtherLine ==
  ASSUME keysrc \in Seq(KeyLines), NEW line \in KeyLines, NEW key, NEW state,
         keysrc' = Append(keysrc, line), ~LineNames(line, key, state)
  PROVE  Meaning(key, state)' = Meaning(key, state)
<1> DEFINE n == Len(keysrc)
           lines == LinesOn(keysrc, key, state)
<1>1. n \in Nat /\ DOMAIN keysrc = 1 .. n /\ DOMAIN keysrc' = 1 .. n + 1
  OBVIOUS
<1>2. keysrc'[n + 1] = line /\ \A i \in 1 .. n : keysrc'[i] = keysrc[i]
  OBVIOUS
<1>3. LinesOn(keysrc', key, state) = lines
  BY <1>1, <1>2 DEF LinesOn
<1>4. lines \in SUBSET (1 .. n)
  BY <1>1 DEF LinesOn
<1> HIDE DEF n, lines
<1>5. ASSUME lines # {}
      PROVE  keysrc'[CHOOSE i \in lines : \A j \in lines : j <= i] =
             keysrc[CHOOSE i \in lines : \A j \in lines : j <= i]
  BY <1>1, <1>2, <1>4, <1>5, LastLine
<1>6. Meaning(key, state) =
        IF lines # {} THEN {keysrc[CHOOSE i \in lines : \A j \in lines : j <= i].cmd}
        ELSE IF {node \in DefaultKeys : node.key = key /\ node.modifier = state} = {}
             THEN {"nop"}
             ELSE {node.cmd : node \in {node \in DefaultKeys :
                                          node.key = key /\ node.modifier = state}}
  BY DEF Meaning, lines, LinesOn
<1>7. Meaning(key, state)' =
        IF lines # {} THEN {keysrc'[CHOOSE i \in lines : \A j \in lines : j <= i].cmd}
        ELSE IF {node \in DefaultKeys : node.key = key /\ node.modifier = state} = {}
             THEN {"nop"}
             ELSE {node.cmd : node \in {node \in DefaultKeys :
                                          node.key = key /\ node.modifier = state}}
  BY <1>3 DEF Meaning, LinesOn
<1> QED BY <1>5, <1>6, <1>7

\* A line about a key is what keysrc then means for it.
LEMMA OwnLine ==
  ASSUME keysrc \in Seq(KeyLines), NEW line \in KeyLines, NEW key, NEW state,
         keysrc' = Append(keysrc, line), LineNames(line, key, state)
  PROVE  Meaning(key, state)' = {line.cmd}
<1> DEFINE n == Len(keysrc)
           lines == LinesOn(keysrc', key, state)
<1>1. n \in Nat /\ DOMAIN keysrc' = 1 .. n + 1 /\ keysrc'[n + 1] = line
  OBVIOUS
<1>2. n + 1 \in lines /\ lines \subseteq 1 .. n + 1
  BY <1>1 DEF LinesOn
<1> HIDE DEF n, lines
<1>a. \A j \in lines : j <= n + 1
  BY <1>1, <1>2
<1>b. \A i \in lines : n + 1 <= i => i = n + 1
  BY <1>1, <1>2
<1>c. \A i \in lines : (\A j \in lines : j <= i) <=> i = n + 1
  BY <1>2, <1>a, <1>b
<1>3. (CHOOSE i \in lines : \A j \in lines : j <= i) = n + 1
  BY <1>2, <1>c
<1>4. Meaning(key, state)' =
        IF lines # {} THEN {keysrc'[CHOOSE i \in lines : \A j \in lines : j <= i].cmd}
        ELSE IF {node \in DefaultKeys : node.key = key /\ node.modifier = state} = {}
             THEN {"nop"}
             ELSE {node.cmd : node \in {node \in DefaultKeys :
                                          node.key = key /\ node.modifier = state}}
  BY DEF Meaning, lines, LinesOn
<1> QED BY <1>1, <1>2, <1>3, <1>4

LEMMA KeysStart == KeysInit => KeyInv
<1> SUFFICES ASSUME KeysInit PROVE KeyInv
  OBVIOUS
<1>1. bindings = {node \in DefaultKeys : node.key # 0} /\ keysrc = <<>>
  BY DEF KeysInit
<1>2. \A node \in bindings : node.key \in Codes /\ node.modifier \in SUBSET Modifiers /\ node.key # 0
  BY <1>1, KeysAreCodes
<1>3. ASSUME NEW key \in Codes \ {0}, NEW state \in SUBSET Modifiers
      PROVE  IF AtKey(bindings, key, state) = {} THEN Meaning(key, state) = {"nop"}
             ELSE \E node \in bindings : /\ AtKey(bindings, key, state) = {node}
                                         /\ node.cmd \in Meaning(key, state)
  <2> DEFINE built == {node \in DefaultKeys : node.key = key /\ node.modifier = state}
  <2>1. AtKey(bindings, key, state) = built
    BY <1>1 DEF AtKey
  <2>2. Meaning(key, state) = IF built = {} THEN {"nop"} ELSE {node.cmd : node \in built}
    BY <1>1 DEF Meaning
  <2>3. \A a, b \in built : a = b
    BY KeysAreCodes
  <2>4. \A node \in built : node \in bindings
    BY <1>1
  <2> HIDE DEF built
  <2>5. CASE built = {}
    BY <2>1, <2>2, <2>5
  <2>6. CASE built # {}
    <3>1. PICK node \in built : built = {node}
      BY <2>3, <2>6
    <3> QED BY <2>1, <2>2, <2>4, <3>1
  <2> QED BY <2>5, <2>6
<1> QED BY <1>1, <1>2, <1>3 DEF KeyInv

LEMMA KeysKeep == KeyInv /\ [KeysNext]_keyVars => KeyInv'
<1> SUFFICES ASSUME KeyInv, [KeysNext]_keyVars PROVE KeyInv'
  OBVIOUS
<1>1. CASE UNCHANGED keyVars
  <2>1. bindings' = bindings /\ keysrc' = keysrc
    BY <1>1 DEF keyVars
  <2>2. \A key, state : Meaning(key, state)' = Meaning(key, state)
    BY <2>1 DEF Meaning
  <2>3. \A key, state : AtKey(bindings', key, state) = AtKey(bindings, key, state)
    BY <2>1
  <2>4. \A key \in Codes \ {0}, state \in SUBSET Modifiers :
          IF AtKey(bindings', key, state) = {} THEN Meaning(key, state)' = {"nop"}
          ELSE \E node \in bindings' : /\ AtKey(bindings', key, state) = {node}
                                       /\ node.cmd \in Meaning(key, state)'
    BY <2>1, <2>2, <2>3 DEF KeyInv
  <2> QED BY <2>1, <2>4 DEF KeyInv
<1>2. ASSUME NEW line \in KeyLines, bindings' = ParseKey(bindings, line),
             keysrc' = Append(keysrc, line)
      PROVE  KeyInv'
  <2> DEFINE k == KeyCode(line)
             m == LineModifier(line)
             valid == line.cmd \in Commands \cup {"nop"} /\ k # 0
             new == [cmd |-> line.cmd, modifier |-> m, key |-> k]
             kept == bindings \ AtKey(bindings, k, m)
  <2>1. k \in Codes /\ m \in SUBSET Modifiers
    BY KeysAreCodes DEF KeyCode, LineModifier
  <2>2. keysrc \in Seq(KeyLines) /\ keysrc' \in Seq(KeyLines)
    BY <1>2 DEF KeyInv
  <2>3. bindings' = IF ~valid THEN bindings
                    ELSE IF line.cmd = "nop" THEN kept ELSE kept \cup {new}
    BY <1>2 DEF ParseKey
  <2>4. \A key \in Codes \ {0}, state \in SUBSET Modifiers :
           LineNames(line, key, state) <=> valid /\ key = k /\ state = m
    BY DEF LineNames
  <2>5. new.key = k /\ new.modifier = m /\ new.cmd = line.cmd
    OBVIOUS
  <2> HIDE DEF k, m, new, valid
  <2>6. \A node \in bindings' : node.key \in Codes /\ node.modifier \in SUBSET Modifiers
                                /\ node.key # 0
    BY <2>1, <2>3, <2>5 DEF KeyInv, valid
  <2>7. ASSUME NEW key \in Codes \ {0}, NEW state \in SUBSET Modifiers
        PROVE  IF AtKey(bindings', key, state) = {} THEN Meaning(key, state)' = {"nop"}
               ELSE \E node \in bindings' : /\ AtKey(bindings', key, state) = {node}
                                            /\ node.cmd \in Meaning(key, state)'
    <3>1. CASE ~LineNames(line, key, state)
      <4>1. AtKey(bindings', key, state) = AtKey(bindings, key, state)
        BY <2>3, <2>4, <2>5, <3>1 DEF AtKey
      <4>2. Meaning(key, state)' = Meaning(key, state)
        BY <1>2, <2>2, <3>1, OtherLine
      <4>3. AtKey(bindings', key, state) \subseteq bindings'
        BY DEF AtKey
      <4> QED BY <4>1, <4>2, <4>3 DEF KeyInv
    <3>2. CASE LineNames(line, key, state)
      <4>1. Meaning(key, state)' = {line.cmd}
        BY <1>2, <2>2, <3>2, OwnLine
      <4>2. valid /\ key = k /\ state = m
        BY <2>4, <3>2
      <4>3. CASE line.cmd = "nop"
        <5>1. AtKey(bindings', key, state) = {}
          BY <2>3, <4>2, <4>3 DEF AtKey
        <5> QED BY <4>1, <4>3, <5>1
      <4>4. CASE line.cmd # "nop"
        <5>1. AtKey(bindings', key, state) = {new} /\ new \in bindings'
          BY <2>3, <2>5, <4>2, <4>4 DEF AtKey
        <5> QED BY <2>5, <4>1, <5>1
      <4> QED BY <4>3, <4>4
    <3> QED BY <3>1, <3>2
  <2> QED BY <2>2, <2>6, <2>7 DEF KeyInv
<1> QED BY <1>1, <1>2 DEF KeysNext, ParseLine

\* What a key press looks up.
LEMMA Pressed ==
  ASSUME NEW key, NEW state \in SUBSET KeyState
  PROVE  LET found == IF Alters(key, state) THEN AtKey(bindings, ShiftedTo(key), {})
                      ELSE AtKey(bindings, key, state)
         IN  GetKeyCmd(key, state) = IF found = {} THEN "nop"
                                     ELSE (CHOOSE node \in found : TRUE).cmd
<1>1. state \cap KeyState = state
  OBVIOUS
<1>2. CASE Alters(key, state)
  <2>1. EventText(key, state) = ShiftedTo(key) /\ ShiftedTo(key) # 0 /\ ShiftedTo(key) # key
    BY <1>2 DEF Alters, EventText
  <2> QED BY <1>2, <2>1 DEF GetKeyCmd
<1>3. CASE ~Alters(key, state)
  <2> DEFINE t == EventText(key, state)
             p == IF t = 0 THEN key ELSE t
  <2>1. p = key
    BY <1>3 DEF Alters
  <2>2. GetKeyCmd(key, state) =
          LET found == AtKey(bindings, p, IF p = key THEN state \cap KeyState ELSE {})
          IN  IF found = {} THEN "nop" ELSE (CHOOSE node \in found : TRUE).cmd
    BY DEF GetKeyCmd
  <2> HIDE DEF p
  <2> QED BY <1>1, <1>3, <2>1, <2>2
<1> QED BY <1>2, <1>3
\* A key pressed does what keysrc means for it.
LEMMA LineCounts == KeyInv => LastLineCounts
<1> SUFFICES ASSUME KeyInv, NEW key \in KeysPressed, NEW state \in SUBSET KeyState
             PROVE  GetKeyCmd(key, state) \in
                      IF Alters(key, state) THEN Meaning(ShiftedTo(key), {})
                      ELSE Meaning(key, state)
  BY DEF LastLineCounts
<1>1. key \in Codes \ {0}
  BY KeysAreCodes DEF KeysPressed
<1>2. state \in SUBSET Modifiers
  BY DEF KeyState
<1>3. \A k \in Codes \ {0}, m \in SUBSET Modifiers :
        (IF AtKey(bindings, k, m) = {} THEN "nop"
         ELSE (CHOOSE node \in AtKey(bindings, k, m) : TRUE).cmd) \in Meaning(k, m)
  <2> SUFFICES ASSUME NEW k \in Codes \ {0}, NEW m \in SUBSET Modifiers
               PROVE  (IF AtKey(bindings, k, m) = {} THEN "nop"
                       ELSE (CHOOSE node \in AtKey(bindings, k, m) : TRUE).cmd) \in Meaning(k, m)
    OBVIOUS
  <2>1. CASE AtKey(bindings, k, m) = {}
    BY <2>1 DEF KeyInv
  <2>2. CASE AtKey(bindings, k, m) # {}
    <3>1. PICK node \in bindings : AtKey(bindings, k, m) = {node} /\ node.cmd \in Meaning(k, m)
      BY <2>2 DEF KeyInv
    <3> QED BY <2>2, <3>1
  <2> QED BY <2>1, <2>2
<1>4. CASE Alters(key, state)
  <2>1. ShiftedTo(key) \in Codes \ {0}
    BY <1>1, <1>4, KeysAreCodes DEF Alters, EventText
  <2>2. {} \in SUBSET Modifiers
    OBVIOUS
  <2>3. GetKeyCmd(key, state) =
          IF AtKey(bindings, ShiftedTo(key), {}) = {} THEN "nop"
          ELSE (CHOOSE node \in AtKey(bindings, ShiftedTo(key), {}) : TRUE).cmd
    BY <1>4, Pressed
  <2> QED BY <1>3, <1>4, <2>1, <2>2, <2>3
<1>5. CASE ~Alters(key, state)
  <2>1. GetKeyCmd(key, state) =
          IF AtKey(bindings, key, state) = {} THEN "nop"
          ELSE (CHOOSE node \in AtKey(bindings, key, state) : TRUE).cmd
    BY <1>5, Pressed
  <2> QED BY <1>1, <1>2, <1>3, <1>5, <2>1
<1> QED BY <1>4, <1>5

\* The number that the modifiers' bits make.
Bit(m, name) == IF name \in m THEN 1 ELSE 0
BitsOf(m) == Bit(m, "Shift") + 2 * Bit(m, "Ctrl") + 4 * Bit(m, "Alt")
             + 8 * Bit(m, "Meta") + 16 * Bit(m, "Button1")
Offset(key) == key + MaxCode
RankOf(node) == 32 * Offset(node.key) + BitsOf(node.modifier)

LEMMA CodesAreOrdered ==
  ASSUME NEW k \in Codes, NEW l \in Codes
  PROVE  /\ k \in Int /\ Offset(k) \in Nat /\ Offset(l) \in Nat
         /\ Offset(k) < Offset(l) => k < l
         /\ Offset(k) = Offset(l) => k = l
  BY KeysAreCodes DEF Codes, Offset

LEMMA ModifiersByBits ==
  ASSUME NEW m \in SUBSET Modifiers, NEW n \in SUBSET Modifiers
  PROVE  /\ BitsOf(m) \in 0 .. 31 /\ BitsOf(n) \in 0 .. 31
         /\ BitsOf(m) = BitsOf(n) => m = n
         /\ BitsOf(m) < BitsOf(n) => ModifierLess(m, n)
<1>1. /\ DOMAIN ModifierNames = 1 .. 5 /\ Len(ModifierNames) = 5
      /\ ModifierNames[1] = "Shift" /\ ModifierNames[2] = "Ctrl" /\ ModifierNames[3] = "Alt"
      /\ ModifierNames[4] = "Meta" /\ ModifierNames[5] = "Button1"
  BY DEF ModifierNames
<1>2. Modifiers = {"Shift", "Ctrl", "Alt", "Meta", "Button1"}
  BY <1>1 DEF Modifiers
<1> DEFINE M(name) == Bit(m, name)
           N(name) == Bit(n, name)
<1>3. \A name : /\ M(name) \in 0 .. 1 /\ N(name) \in 0 .. 1
                /\ M(name) = N(name) <=> (name \in m <=> name \in n)
                /\ M(name) < N(name) <=> name \in n \ m
  BY DEF Bit
<1>4. /\ BitsOf(m) = M("Shift") + 2 * M("Ctrl") + 4 * M("Alt") + 8 * M("Meta") + 16 * M("Button1")
      /\ BitsOf(n) = N("Shift") + 2 * N("Ctrl") + 4 * N("Alt") + 8 * N("Meta") + 16 * N("Button1")
  BY DEF BitsOf
<1> HIDE DEF M, N
<1>5. /\ BitsOf(m) \in 0 .. 31 /\ BitsOf(n) \in 0 .. 31
      /\ BitsOf(m) = BitsOf(n) =>
           /\ M("Shift") = N("Shift") /\ M("Ctrl") = N("Ctrl") /\ M("Alt") = N("Alt")
           /\ M("Meta") = N("Meta") /\ M("Button1") = N("Button1")
      /\ BitsOf(m) < BitsOf(n) =>
           \/ M("Button1") < N("Button1")
           \/ M("Button1") = N("Button1") /\ M("Meta") < N("Meta")
           \/ M("Button1") = N("Button1") /\ M("Meta") = N("Meta") /\ M("Alt") < N("Alt")
           \/ /\ M("Button1") = N("Button1") /\ M("Meta") = N("Meta") /\ M("Alt") = N("Alt")
              /\ M("Ctrl") < N("Ctrl")
           \/ /\ M("Button1") = N("Button1") /\ M("Meta") = N("Meta") /\ M("Alt") = N("Alt")
              /\ M("Ctrl") = N("Ctrl") /\ M("Shift") < N("Shift")
  <2>1. \A a, b, c, d, e, v, w, x, y, z \in 0 .. 1 :
          LET p == a + 2 * b + 4 * c + 8 * d + 16 * e
              q == v + 2 * w + 4 * x + 8 * y + 16 * z
          IN  /\ p \in 0 .. 31 /\ q \in 0 .. 31
              /\ p = q => a = v /\ b = w /\ c = x /\ d = y /\ e = z
              /\ p < q => \/ e < z
                          \/ e = z /\ d < y
                          \/ e = z /\ d = y /\ c < x
                          \/ e = z /\ d = y /\ c = x /\ b < w
                          \/ e = z /\ d = y /\ c = x /\ b = w /\ a < v
    BY SMT
  <2> QED BY <1>3, <1>4, <2>1
<1>6. BitsOf(m) = BitsOf(n) => m = n
  <2>1. BitsOf(m) = BitsOf(n) => \A name \in Modifiers : name \in m <=> name \in n
    BY <1>2, <1>3, <1>5
  <2> QED BY <2>1
<1> DEFINE Decides(i) ==
      /\ ModifierNames[i] \in n \ m
      /\ \A j \in i + 1 .. 5 : ModifierNames[j] \in m <=> ModifierNames[j] \in n
           E(i) == M(ModifierNames[i]) = N(ModifierNames[i])
           L(i) == M(ModifierNames[i]) < N(ModifierNames[i])
<1>7. \A i \in 1 .. 5 : Decides(i) <=> L(i) /\ \A j \in i + 1 .. 5 : E(j)
  BY <1>3
<1>8. BitsOf(m) < BitsOf(n) =>
        \/ L(5) \/ (E(5) /\ L(4)) \/ (E(5) /\ E(4) /\ L(3)) \/ (E(5) /\ E(4) /\ E(3) /\ L(2))
        \/ (E(5) /\ E(4) /\ E(3) /\ E(2) /\ L(1))
  BY <1>1, <1>5
<1>9. ModifierLess(m, n) <=> \E i \in 1 .. 5 : Decides(i)
  BY <1>1 DEF ModifierLess
<1> HIDE DEF Decides, E, L
<1>10. /\ L(5) => Decides(5)
       /\ E(5) /\ L(4) => Decides(4)
       /\ E(5) /\ E(4) /\ L(3) => Decides(3)
       /\ E(5) /\ E(4) /\ E(3) /\ L(2) => Decides(2)
       /\ E(5) /\ E(4) /\ E(3) /\ E(2) /\ L(1) => Decides(1)
  <2>1. /\ \A j \in 5 + 1 .. 5 : FALSE
        /\ \A j \in 4 + 1 .. 5 : j = 5
        /\ \A j \in 3 + 1 .. 5 : j = 5 \/ j = 4
        /\ \A j \in 2 + 1 .. 5 : j = 5 \/ j = 4 \/ j = 3
        /\ \A j \in 1 + 1 .. 5 : j = 5 \/ j = 4 \/ j = 3 \/ j = 2
    OBVIOUS
  <2>2. L(5) => Decides(5)
    BY <1>7, <2>1
  <2>3. E(5) /\ L(4) => Decides(4)
    BY <1>7, <2>1
  <2>4. E(5) /\ E(4) /\ L(3) => Decides(3)
    BY <1>7, <2>1
  <2>5. E(5) /\ E(4) /\ E(3) /\ L(2) => Decides(2)
    BY <1>7, <2>1
  <2>6. E(5) /\ E(4) /\ E(3) /\ E(2) /\ L(1) => Decides(1)
    BY <1>7, <2>1
  <2> QED BY <2>2, <2>3, <2>4, <2>5, <2>6
<1>11. Decides(1) \/ Decides(2) \/ Decides(3) \/ Decides(4) \/ Decides(5) =>
         \E i \in 1 .. 5 : Decides(i)
  <2>1. 1 \in 1 .. 5 /\ 2 \in 1 .. 5 /\ 3 \in 1 .. 5 /\ 4 \in 1 .. 5 /\ 5 \in 1 .. 5
    OBVIOUS
  <2> QED BY <2>1
<1> QED BY <1>5, <1>6, <1>8, <1>9, <1>10, <1>11

\* The first of the nodes with a command is one node.
LEMMA FirstNode ==
  ASSUME KeyInv, NEW cmd, {node \in bindings : node.cmd = cmd} # {}
  PROVE  Cardinality(GetShortcut(cmd)) = 1
<1> DEFINE nodes == {node \in bindings : node.cmd = cmd}
           ranks == {RankOf(node) : node \in nodes}
<1>1. \A node \in nodes : node.key \in Codes \ {0} /\ node.modifier \in SUBSET Modifiers
  BY DEF KeyInv
<1>2. \A a, b \in nodes : a.key = b.key /\ a.modifier = b.modifier => a = b
  <2> SUFFICES ASSUME NEW a \in nodes, NEW b \in nodes, a.key = b.key, a.modifier = b.modifier
               PROVE  a = b
    OBVIOUS
  <2>1. a \in AtKey(bindings, a.key, a.modifier) /\ b \in AtKey(bindings, a.key, a.modifier)
    BY DEF AtKey
  <2>2. PICK node \in bindings : AtKey(bindings, a.key, a.modifier) = {node}
    BY <1>1, <2>1 DEF KeyInv
  <2> QED BY <2>1, <2>2
<1> HIDE DEF nodes
<1>3. \A node \in nodes : BitsOf(node.modifier) \in 0 .. 31
  BY <1>1, ModifiersByBits
<1>4. \A node \in nodes : RankOf(node) \in Nat
  <2>1. \A k \in Nat, b \in 0 .. 31 : 32 * k + b \in Nat
    OBVIOUS
  <2>2. \A node \in nodes : Offset(node.key) \in Nat
    BY <1>1, CodesAreOrdered
  <2> QED BY <1>3, <2>1, <2>2 DEF RankOf
<1>5. ranks \subseteq Nat /\ ranks # {}
  BY <1>4 DEF nodes
<1> HIDE DEF ranks
<1>6. PICK r \in ranks : \A other \in ranks : r <= other
  BY <1>5, LeastOf
<1>7. PICK least \in nodes : \A other \in nodes : RankOf(least) <= RankOf(other)
  BY <1>6 DEF ranks
<1>8. \A a, b \in nodes : RankOf(a) <= RankOf(b) /\ a # b => NodeLess(a, b)
  <2> SUFFICES ASSUME NEW a \in nodes, NEW b \in nodes, RankOf(a) <= RankOf(b), a # b
               PROVE  NodeLess(a, b)
    OBVIOUS
  <2>1. \A k, l \in Nat, x, y \in 0 .. 31 :
          32 * k + x <= 32 * l + y => k < l \/ (k = l /\ x <= y)
    OBVIOUS
  <2>a. Offset(a.key) \in Nat /\ Offset(b.key) \in Nat
    BY <1>1, CodesAreOrdered
  <2>b. \/ Offset(a.key) < Offset(b.key)
        \/ Offset(a.key) = Offset(b.key) /\ BitsOf(a.modifier) <= BitsOf(b.modifier)
    BY <1>3, <2>1, <2>a DEF RankOf
  <2>2. a.key < b.key \/ (a.key = b.key /\ BitsOf(a.modifier) <= BitsOf(b.modifier))
    BY <1>1, <2>b, CodesAreOrdered
  <2>3. CASE a.key = b.key /\ BitsOf(a.modifier) <= BitsOf(b.modifier)
    <3>1. BitsOf(a.modifier) # BitsOf(b.modifier)
      BY <1>1, <1>2, <2>3, ModifiersByBits
    <3>2. BitsOf(a.modifier) < BitsOf(b.modifier)
      BY <1>3, <2>3, <3>1
    <3>3. ModifierLess(a.modifier, b.modifier)
      BY <1>1, <3>2, ModifiersByBits
    <3> QED BY <2>3, <3>3 DEF NodeLess
  <2> QED BY <2>2, <2>3 DEF NodeLess
<1>9. \A a, b \in nodes : NodeLess(a, b) /\ NodeLess(b, a) => FALSE
  PROOF
  <2> SUFFICES ASSUME NEW a \in nodes, NEW b \in nodes, NodeLess(a, b), NodeLess(b, a)
               PROVE  FALSE
    OBVIOUS
  <2>0. a.key \in Int /\ b.key \in Int
    BY <1>1, CodesAreOrdered
  <2>1. \A k, l \in Int : ~(k < l /\ l < k) /\ ~(k < l /\ l = k)
    OBVIOUS
  <2>2. a.key = b.key /\ ModifierLess(a.modifier, b.modifier) /\ ModifierLess(b.modifier, a.modifier)
    BY <2>0, <2>1 DEF NodeLess
  <2>3. PICK i \in DOMAIN ModifierNames :
          /\ ModifierNames[i] \in b.modifier \ a.modifier
          /\ \A j \in i + 1 .. Len(ModifierNames) :
               ModifierNames[j] \in a.modifier <=> ModifierNames[j] \in b.modifier
    BY <2>2 DEF ModifierLess
  <2>4. PICK l \in DOMAIN ModifierNames :
          /\ ModifierNames[l] \in a.modifier \ b.modifier
          /\ \A j \in l + 1 .. Len(ModifierNames) :
               ModifierNames[j] \in b.modifier <=> ModifierNames[j] \in a.modifier
    BY <2>2 DEF ModifierLess
  <2>5. DOMAIN ModifierNames = 1 .. 5 /\ Len(ModifierNames) = 5
    BY DEF ModifierNames
  <2>6. i < l => l \in i + 1 .. 5
    BY <2>5
  <2>7. l < i => i \in l + 1 .. 5
    BY <2>5
  <2>8. i = l \/ i < l \/ l < i
    BY <2>5
  <2> QED BY <2>3, <2>4, <2>5, <2>6, <2>7, <2>8
<1>10. GetShortcut(cmd) = {least}
  <2>1. GetShortcut(cmd) = {node \in nodes : \A other \in nodes \ {node} : NodeLess(node, other)}
    BY DEF GetShortcut, nodes
  <2>2. \A other \in nodes \ {least} : NodeLess(least, other)
    BY <1>7, <1>8
  <2>3. \A node \in nodes : (\A other \in nodes \ {node} : NodeLess(node, other)) => node = least
    BY <1>9, <2>2
  <2> QED BY <2>1, <2>2, <2>3
<1> QED BY <1>10, FS_Singleton

\* No node is shadowed by another one for the same key.
LEMMA ShortcutsWork == KeyInv => ShortcutWorks
<1> SUFFICES ASSUME KeyInv, NEW cmd \in Commands,
                    NEW node \in GetShortcut(cmd), node.modifier \subseteq KeyState,
                    ~Alters(node.key, node.modifier)
             PROVE  GetKeyCmd(node.key, node.modifier) = cmd
  BY FirstNode DEF ShortcutWorks
<1>1. node \in bindings /\ node.cmd = cmd
  BY DEF GetShortcut
<1>2. node.key \in Codes \ {0} /\ node.modifier \in SUBSET Modifiers
  BY <1>1 DEF KeyInv
<1> DEFINE found == AtKey(bindings, node.key, node.modifier)
<1>3. node \in found
  BY <1>1 DEF AtKey
<1>4. PICK one \in bindings : found = {one}
  BY <1>2, <1>3 DEF KeyInv
<1>5. found = {node}
  BY <1>3, <1>4
<1>6. GetKeyCmd(node.key, node.modifier) =
        IF found = {} THEN "nop" ELSE (CHOOSE n \in found : TRUE).cmd
  BY Pressed
<1> HIDE DEF found
<1> QED BY <1>1, <1>5, <1>6

\* For every keysrc, whatever its lines name twice and with lines in error among them:
\* a key does what its last line says, and each command's shortcut is one key that gives
\* the command (parseKey, getKeyCmd and getShortcut of keys.cc).
THEOREM KeysRight == KeysSpec => []KeysAreRight
<1>1. KeyInv => KeysAreRight
  BY LineCounts, ShortcutsWork DEF KeysAreRight
<1> QED BY <1>1, KeysStart, KeysKeep, PTL DEF KeysSpec

-----------------------------------------------------------------------------
(* Preferences.  The dialog works on a list of its own, of any engines, and    *)
(* the index is put right only when it takes the place of the list in use.   *)

\* The dialog, while it is open.
DialogIsRight ==
  prefsDialog # NoPref =>
    \E list \in Seq(Engines) : \E values, line :
      prefsDialog = [values |-> values, list |-> list, line |-> line]

PrefsInv ==
  /\ engines \in Seq(Engines)
  /\ rc.engines \in Seq(Engines)
  /\ DialogIsRight
  /\ index \in Nat
  /\ EngineExists
  /\ engines = <<>> => index = 0

\* The lines of the dialog are engines.
LEMMA LinesAreEngines ==
  ASSUME NEW es \in Seq(Engines)
  PROVE  EngineLines(es) \in Seq(Engines)
<1> DEFINE n == Len(es)
           Turn(list, i) == IF Valid(es[i]) THEN Append(list, es[i]) ELSE list
           Works(m, f) == f = [i \in 0 .. m |-> IF i = 0 THEN <<>> ELSE Turn(f[i - 1], i)]
           Right(m) == \E f : Works(m, f) /\ f[m] \in Seq(Engines)
           Bad == {m \in 0 .. n : ~Right(m)}
<1>0. n \in Nat /\ \A list \in Seq(Engines), i \in 1 .. n : Turn(list, i) \in Seq(Engines)
  OBVIOUS
<1> HIDE DEF Turn, n
<1>1. Bad = {}
  <2> SUFFICES ASSUME Bad # {} PROVE FALSE
    OBVIOUS
  <2>1. PICK m \in Bad : \A y \in Bad : m <= y
    <3>1. Bad \subseteq Nat
      OBVIOUS
    <3> HIDE DEF Bad
    <3> QED BY <3>1, LeastOf
  <2>2. Right(0)
    <3> DEFINE z == [i \in 0 .. 0 |-> <<>>]
    <3>1. Works(0, z) /\ z[0] \in Seq(Engines)
      OBVIOUS
    <3> HIDE DEF z, Works
    <3> QED BY <3>1
  <2>3. m \in 1 .. n
    <3>1. m \in 0 .. n /\ ~Right(m)
      BY <2>1
    <3> HIDE DEF Right
    <3> QED BY <1>0, <2>2, <3>1
  <2>4. Right(m - 1)
    <3>1. m - 1 \in 0 .. n /\ ~(m <= m - 1)
      BY <1>0, <2>3
    <3> HIDE DEF Right
    <3> QED BY <2>1, <3>1
  <2>5. PICK f : Works(m - 1, f) /\ f[m - 1] \in Seq(Engines)
    BY <2>4
  <2> DEFINE g == [k \in 0 .. m |-> IF k < m THEN f[k] ELSE Turn(f[m - 1], m)]
  <2>6. \A k \in 0 .. m : g[k] = IF k < m THEN f[k] ELSE Turn(f[m - 1], m)
    OBVIOUS
  <2>7. Works(m, g)
    <3>2. \A k \in 0 .. m - 1 : f[k] = IF k = 0 THEN <<>> ELSE Turn(f[k - 1], k)
      BY <2>5
    <3>3. m \in Nat /\ \A k \in 0 .. m : k # 0 => k - 1 \in 0 .. m /\ k - 1 < m
      BY <2>3
    <3>5. g = [k \in 0 .. m |-> g[k]]
      BY DEF g
    <3> HIDE DEF g
    <3>4. \A k \in 0 .. m : g[k] = IF k = 0 THEN <<>> ELSE Turn(g[k - 1], k)
      BY <2>3, <2>6, <3>2, <3>3
    <3> QED BY <3>4, <3>5
  <2>8. g[m] \in Seq(Engines)
    <3> HIDE DEF g
    <3>1. g[m] = Turn(f[m - 1], m)
      BY <2>3, <2>6
    <3> QED BY <1>0, <2>3, <2>5, <3>1
  <2> HIDE DEF g, Works
  <2> QED BY <2>1, <2>7, <2>8
<1> DEFINE f == CHOOSE f : f = [i \in 0 .. n |-> IF i = 0 THEN <<>> ELSE Turn(f[i - 1], i)]
<1>2. PICK h : Works(n, h) /\ h[n] \in Seq(Engines)
  <2>1. n \in 0 .. n
    BY <1>0
  <2> HIDE DEF Works
  <2> QED BY <1>1, <2>1
<1>3. Works(n, f)
  BY <1>2
<1>4. EngineLines(es) = f[n]
  BY DEF EngineLines, Turn, n
<1> HIDE DEF f
\* There is one such function.
<1>5. f[n] = h[n]
  <2> DEFINE Same(m) == f[m] = h[m]
             Other == {m \in 0 .. n : ~Same(m)}
  <2>1. /\ \A k \in 0 .. n : f[k] = IF k = 0 THEN <<>> ELSE Turn(f[k - 1], k)
        /\ \A k \in 0 .. n : h[k] = IF k = 0 THEN <<>> ELSE Turn(h[k - 1], k)
    BY <1>2, <1>3
  <2>2. Other = {}
    <3> SUFFICES ASSUME Other # {} PROVE FALSE
      OBVIOUS
    <3>1. PICK m \in Other : \A y \in Other : m <= y
      <4>1. Other \subseteq Nat
        OBVIOUS
      <4> HIDE DEF Other
      <4> QED BY <4>1, LeastOf
    <3>a. Same(0)
      <4>1. 0 \in 0 .. n
        BY <1>0
      <4>2. f[0] = <<>> /\ h[0] = <<>>
        BY <2>1, <4>1
      <4> QED BY <4>2
    <3>b. m \in 0 .. n /\ ~Same(m)
      BY <3>1
    <3>2. m \in 1 .. n
      <4> HIDE DEF Same
      <4> QED BY <1>0, <3>a, <3>b
    <3>3. m - 1 \in 0 .. n /\ ~(m <= m - 1) /\ m # 0
      BY <1>0, <3>2
    <3>4. Same(m - 1)
      <4> HIDE DEF Same
      <4> QED BY <3>1, <3>3
    <3>5. f[m] = h[m]
      BY <2>1, <3>1, <3>3, <3>4
    <3> QED BY <3>1, <3>5
  <2> QED BY SMTT(20), <1>0, <2>2
<1> QED BY <1>2, <1>4, <1>5

\* Without one of its elements a list is still a list.
LEMMA RemovedIsList ==
  ASSUME NEW S, NEW q \in Seq(S), NEW i \in DOMAIN q
  PROVE  RemoveAt(q, i) \in Seq(S)
BY DEF RemoveAt

LEMMA PrefsStart == PrefsInit => PrefsInv
<1> SUFFICES ASSUME PrefsInit PROVE PrefsInv
  OBVIOUS
<1>1. rc.engines \in Seq(Engines) /\ DefaultEngines \in Seq(Engines)
  BY EnginesAreLists DEF PrefsInit
<1>2. engines \in Seq(Engines) /\ index = 0 /\ prefsDialog = NoPref
  BY <1>1 DEF PrefsInit, ReadEngines
<1> QED BY <1>1, <1>2 DEF PrefsInv, EngineExists, DialogIsRight

LEMMA PrefsKeep == PrefsInv /\ [PrefsNext]_prefsVars => PrefsInv'
<1> SUFFICES ASSUME PrefsInv, [PrefsNext]_prefsVars PROVE PrefsInv'
  OBVIOUS
<1>0. /\ engines \in Seq(Engines) /\ rc.engines \in Seq(Engines) /\ index \in Nat
      /\ engines # <<>> => index + 1 \in DOMAIN engines
      /\ engines = <<>> => index = 0
  BY DEF PrefsInv, EngineExists
\* What leaves the engines alone and the list of the dialog one of engines.
<1>a. ASSUME engines' = engines, index' = index, rc' = rc, DialogIsRight'
      PROVE  PrefsInv'
  BY <1>0, <1>a DEF PrefsInv, EngineExists
<1>b. ASSUME InDialog
      PROVE  /\ engines' = engines /\ index' = index /\ rc' = rc
             /\ \E list \in Seq(Engines) : \E values, line :
                  prefsDialog = [values |-> values, list |-> list, line |-> line]
  BY <1>b DEF InDialog, OpenPrefs, PrefsInv, DialogIsRight
<1>1. CASE OpenDialog
  <2>1. EngineLines(engines) \in Seq(Engines)
    BY <1>0, LinesAreEngines
  <2> QED BY <1>1, <1>a, <2>1 DEF OpenDialog, DialogIsRight
<1>2. CASE SelectLine
  <2>0. PICK list \in Seq(Engines) : \E values, line :
          prefsDialog = [values |-> values, list |-> list, line |-> line]
    BY <1>2, <1>b DEF SelectLine
  <2>1. PICK values, line : prefsDialog = [values |-> values, list |-> list, line |-> line]
    BY <2>0
  <2>5. DialogIsRight'
    BY <1>2, <2>1 DEF SelectLine, DialogIsRight
  <2> QED BY <1>2, <1>a, <1>b, <2>5 DEF SelectLine
<1>3. CASE AddEngine
  <2>0. PICK list \in Seq(Engines) : \E values, line :
          prefsDialog = [values |-> values, list |-> list, line |-> line]
    BY <1>3, <1>b DEF AddEngine
  <2>1. PICK values, line : prefsDialog = [values |-> values, list |-> list, line |-> line]
    BY <2>0
  <2>2. PICK e \in Engines : prefsDialog' = [prefsDialog EXCEPT !.list = Append(@, e)]
    BY <1>3 DEF AddEngine
  <2>3. Append(list, e) \in Seq(Engines)
    OBVIOUS
  <2>5. DialogIsRight'
    BY <2>1, <2>2, <2>3 DEF DialogIsRight
  <2> QED BY <1>3, <1>a, <1>b, <2>5 DEF AddEngine
<1>4. CASE EditEngine
  <2>0. PICK list \in Seq(Engines) : \E values, line :
          prefsDialog = [values |-> values, list |-> list, line |-> line]
    BY <1>4, <1>b DEF EditEngine
  <2>1. PICK values, line : prefsDialog = [values |-> values, list |-> list, line |-> line]
    BY <2>0
  <2>2. PICK e \in Engines : prefsDialog' = [prefsDialog EXCEPT !.list[prefsDialog.line] = e]
    BY <1>4 DEF EditEngine
  <2>3. [list EXCEPT ![line] = e] \in Seq(Engines)
    <3>1. line \in DOMAIN list
      BY <1>4, <2>1 DEF EditEngine, OnLine
    <3> QED BY <3>1
  <2>5. DialogIsRight'
    BY <2>1, <2>2, <2>3 DEF DialogIsRight
  <2> QED BY <1>4, <1>a, <1>b, <2>5 DEF EditEngine
<1>5. CASE DeleteEngine
  <2>0. PICK list \in Seq(Engines) : \E values, line :
          prefsDialog = [values |-> values, list |-> list, line |-> line]
    BY <1>5, <1>b DEF DeleteEngine
  <2>1. PICK values, line : prefsDialog = [values |-> values, list |-> list, line |-> line]
    BY <2>0
  <2>2. line \in DOMAIN list
    BY <1>5, <2>1 DEF DeleteEngine, OnLine
  <2>3. RemoveAt(list, line) \in Seq(Engines)
    BY <2>2, RemovedIsList
  <2>4. DialogIsRight'
    BY <1>5, <2>1, <2>3 DEF DeleteEngine, DialogIsRight
  <2> QED BY <1>5, <1>a, <1>b, <2>4 DEF DeleteEngine
<1>6. CASE MoveEngine
  <2>0. PICK list \in Seq(Engines) : \E values, line :
          prefsDialog = [values |-> values, list |-> list, line |-> line]
    BY <1>6, <1>b DEF MoveEngine
  <2>1. PICK values, line : prefsDialog = [values |-> values, list |-> list, line |-> line]
    BY <2>0
  <2>2. line \in DOMAIN list
    BY <1>6, <2>1 DEF MoveEngine, OnLine
  <2>3. PICK to \in DOMAIN list :
          prefsDialog' = [prefsDialog EXCEPT !.list[line] = list[to],
                                             !.list[to] = list[line], !.line = to]
    BY <1>6, <2>1 DEF MoveEngine
  <2> DEFINE moved == [[list EXCEPT ![line] = list[to]] EXCEPT ![to] = list[line]]
  <2>4. moved \in Seq(Engines)
    <3>1. [list EXCEPT ![line] = list[to]] \in Seq(Engines)
      BY <2>2, <2>3
    <3> QED BY <2>2, <2>3, <3>1
  <2>5. prefsDialog' = [values |-> values, list |-> moved, line |-> to]
    BY <2>1, <2>3
  <2> HIDE DEF moved
  <2>6. DialogIsRight'
    BY <2>4, <2>5 DEF DialogIsRight
  <2> QED BY <1>6, <1>a, <1>b, <2>6 DEF MoveEngine
<1>7. ASSUME NEW o \in Options, SetOption(o) PROVE PrefsInv'
  <2>0. PICK list \in Seq(Engines) : \E values, line :
          prefsDialog = [values |-> values, list |-> list, line |-> line]
    BY <1>7, <1>b DEF SetOption
  <2>1. PICK values, line : prefsDialog = [values |-> values, list |-> list, line |-> line]
    BY <2>0
  <2>5. DialogIsRight'
    BY <1>7, <2>1 DEF SetOption, DialogIsRight
  <2> QED BY <1>7, <1>a, <1>b, <2>5 DEF SetOption
<1>8. CASE Apply
  <2>1. prefsDialog.list \in Seq(Engines)
    BY <1>8 DEF Apply, OpenPrefs, PrefsInv, DialogIsRight
  <2>2. engines' = prefsDialog.list /\ prefsDialog' = NoPref /\ rc'.engines = engines'
    BY <1>8 DEF Apply, Write, Written
  <2>3. index' = IF index >= Len(engines') THEN 0 ELSE index
    BY <1>8, <2>2 DEF Apply
  <2> QED BY <1>0, <2>1, <2>2, <2>3 DEF PrefsInv, EngineExists, DialogIsRight
<1>9. CASE CancelPrefs
  BY <1>9, <1>a, <1>b DEF CancelPrefs, DialogIsRight
<1>10. ASSUME NEW e \in Engines, AddSearch(e) PROVE PrefsInv'
  <2>1. engines' = Append(engines, e) /\ index' = index /\ prefsDialog' = prefsDialog
        /\ rc'.engines = engines'
    BY <1>10 DEF AddSearch, Write, Written
  <2> QED BY <1>0, <2>1 DEF PrefsInv, EngineExists, DialogIsRight
<1>11. CASE ChooseEngine
  <2>1. engines' = engines /\ prefsDialog' = prefsDialog /\ rc' = rc
    BY <1>11 DEF ChooseEngine
  <2>2. PICK i \in 1 .. Len(engines) : index' = i - 1
    BY <1>11 DEF ChooseEngine
  <2> QED BY <1>0, <2>1, <2>2 DEF PrefsInv, EngineExists, DialogIsRight
<1>12. CASE RestartPrefs
  <2>1. engines' \in Seq(Engines)
    BY <1>0, <1>12, EnginesAreLists DEF RestartPrefs, ReadEngines
  <2> QED BY <1>0, <1>12, <2>1 DEF RestartPrefs, PrefsInv, EngineExists, DialogIsRight
<1>13. CASE UNCHANGED prefsVars
  BY <1>13, <1>a DEF prefsVars, PrefsInv, DialogIsRight
<1> QED BY <1>1, <1>2, <1>3, <1>4, <1>5, <1>6, <1>7, <1>8, <1>9, <1>10, <1>11, <1>12, <1>13
        DEF PrefsNext

\* UIcmd_make_search_str (uicmd.cc): for every list of engines and whatever the dialog, a
\* form, the popup menu or a restart does to it, the search bar's engine is on the list.
THEOREM EnginesExist == PrefsSpec => []EngineExists
<1>1. PrefsInv => EngineExists
  BY DEF PrefsInv
<1> QED BY <1>1, PrefsStart, PrefsKeep, PTL DEF PrefsSpec
=============================================================================
