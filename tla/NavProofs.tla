------------------------------ MODULE NavProofs ------------------------------
(* Proofs about navigation (Nav), for every number of windows, pages and      *)
(* fragments, every length of a stack and of the list of timeouts: the stack, *)
(* the expected URL and the pending refresh of a window agree with what it    *)
(* shows and loads.                                                           *)
(*                                                                            *)
(* The functions of nav.c work on one window, and so does what is proved of   *)
(* them.  NavIsRight is not inductive: a page that arrives may only be        *)
(* recorded as it is because a window that waits for a page it does not       *)
(* expect has no refresh pending, and a refresh is asked for by the page that *)
(* is loading because that page is the one shown.  GoodBw says these too.     *)
EXTENDS Nav, SequenceTheorems, WellFoundedInduction, TLAPS

\* A window has its parts, and its pointer is inside the stack.
ShapeOk(b) ==
    /\ b \in Bws
    /\ b.ptr \in -1 .. Size(b) - 1
    /\ (b.ptr = -1) = (b.stack = <<>>)

\* What it expects is on its way, or is in the stack.
Expected(b) == b.expect # None =>
    \/ b.root # None /\ b.root.url = b.expect.url /\ b.root.st = "waiting"
    \/ b.expect.way = "push" /\ b.expect.url \in Range(b.stack)

\* No entry of the stack, up to a place, is that of the next one.
Distinct(b, n) == \A i \in 1 .. n - 1 : b.stack[i] # b.stack[i + 1]

\* A page that is loading into the window is shown in it.
LoadingIsShown(b) == b.root # None /\ b.root.st = "shown" => b.shown = b.root.url

\* A page that is waited for and not expected finds no refresh pending.
NoStaleRefresh(b) ==
    b.root # None /\ b.root.st = "waiting" /\ b.expect = None => b.status # 2

\* A window, but for what it expects.
AlmostGood(b) ==
    /\ ShapeOk(b) /\ Distinct(b, Size(b)) /\ LoadingIsShown(b) /\ NoStaleRefresh(b)
    /\ b.status = 2 => b.asker = b.shown /\ b.refresh \in Urls

\* A window between two events.
GoodBw(b) == AlmostGood(b) /\ Expected(b)

\* The inductive invariant: every open window is good, and the menu belongs to one.
NavInv ==
    /\ bw \in [NavWindows -> Bws \cup {None}]
    /\ \A w \in Open : GoodBw(bw[w])
    /\ timeouts \in Seq(Callbacks \X NavWindows)
    /\ menu # None => menu.win \in Open /\ menu.dir \in {-1, 1}

----------------------------------------------------------------------------
(* The functions of nav.c. *)

\* The stack of a window is a list of URLs.
LEMMA SizeIs == \A b \in Bws : Size(b) \in Nat /\ b.stack \in Seq(Urls)
  BY DEF Size, Bws

\* A stack without equal neighbours has none when its last entry is left out.
LEMMA DistinctLess ==
  ASSUME NEW b \in Bws, Distinct(b, Size(b))
  PROVE  Distinct(b, Size(b) - 1)
<1> DEFINE n == Size(b)
<1>1. n \in Nat
  BY SizeIs
<1> HIDE DEF n
<1>2. \A i \in 1 .. n - 1 - 1 : i \in 1 .. n - 1
  BY <1>1
<1> QED BY <1>2 DEF n, Distinct

\* A move of the pointer to an entry.
LEMMA MovePtrShape ==
  ASSUME NEW b, ShapeOk(b), NEW offset \in Int
  PROVE  LET m == MovePtr(b, offset) IN
         /\ ShapeOk(m)
         /\ m.stack = b.stack /\ m.expect = b.expect /\ m.root = b.root /\ m.status = b.status
         /\ m.refresh = b.refresh /\ m.shown = b.shown /\ m.asker = b.asker
<1>1. b.ptr + offset \in Int /\ b \in Bws /\ Size(b) \in Nat
  BY SizeIs DEF ShapeOk, Bws
<1>2. CASE InStack(b, b.ptr + offset)
  <2>1. 0 <= b.ptr + offset /\ b.ptr + offset < Size(b)
    BY <1>2 DEF InStack
  <2>2. MovePtr(b, offset) = [b EXCEPT !.ptr = b.ptr + offset]
    BY <1>2 DEF MovePtr
  <2>3. b.stack # <<>>
    BY <1>1, <2>1, EmptySeq DEF Size
  <2> QED BY SMTT(20), <1>1, <2>1, <2>2, <2>3 DEF ShapeOk, Bws, Size
<1>3. CASE ~InStack(b, b.ptr + offset)
  BY <1>3 DEF MovePtr
<1> QED BY <1>2, <1>3

\* A move of the pointer leaves a window as good as it was.
LEMMA MovePtrGood ==
  ASSUME NEW b, NEW offset \in Int, AlmostGood(b)
  PROVE  AlmostGood(MovePtr(b, offset))
BY MovePtrShape DEF AlmostGood, Distinct, LoadingIsShown, NoStaleRefresh, Size

\* a_Nav_cancel_expect.
LEMMA CancelIs ==
  ASSUME NEW b \in Bws
  PROVE  LET c == Cancel(b) IN
         /\ c \in Bws /\ c.expect = None /\ c.status # 2
         /\ c.stack = b.stack /\ c.ptr = b.ptr /\ c.root = b.root /\ c.shown = b.shown
<1> DEFINE c == Cancel(b)
           n == IF b.status > 0 THEN b.status - 1 ELSE b.status
<1>1. n \in 0 .. 2 /\ n # 2
  BY DEF Bws
<1>2. c = [b EXCEPT !.expect = None, !.status = n]
  BY DEF Cancel
<1> HIDE DEF n, c
<1> QED BY <1>1, <1>2 DEF Bws, c

\* A window that expects nothing.
LEMMA CancelGood ==
  ASSUME NEW b, AlmostGood(b)
  PROVE  LET c == Cancel(b) IN
         /\ GoodBw(c) /\ c.expect = None /\ c.status # 2
         /\ c.stack = b.stack /\ c.ptr = b.ptr /\ c.root = b.root
<1> DEFINE c == Cancel(b)
<1>1. /\ c \in Bws /\ c.expect = None /\ c.status # 2
      /\ c.stack = b.stack /\ c.ptr = b.ptr /\ c.root = b.root /\ c.shown = b.shown
  BY CancelIs DEF AlmostGood, ShapeOk
<1> HIDE DEF c
<1> QED BY <1>1 DEF c, GoodBw, AlmostGood, ShapeOk, Expected, Distinct, LoadingIsShown, NoStaleRefresh, Size

\* Nav_open_url finds what it is asked for at the pointer, or has it fetched.
LEMMA OpenUrlGood ==
  ASSUME NEW b, NEW u \in Urls, NEW way \in Ways, NEW offset \in Int,
         AlmostGood(b), b.status # 2,
         \/ b.expect = None
         \/ b.expect = [url |-> u, way |-> way]
  PROVE  GoodBw(OpenUrl(b, u, way, offset))
<1> DEFINE m == MovePtr(b, offset)
<1>1. /\ AlmostGood(m) /\ m \in Bws
      /\ m.stack = b.stack /\ m.expect = b.expect /\ m.root = b.root /\ m.status = b.status
  BY MovePtrShape, MovePtrGood DEF AlmostGood, ShapeOk
<1>2. b \in Bws /\ ShapeOk(b)
  BY DEF AlmostGood, ShapeOk
<1> HIDE DEF m
<1>3. CASE Forced(way) \/ Top(b) = None \/ Top(b) # u
  <2> DEFINE r == [m EXCEPT !.root = [url |-> u, st |-> "waiting"]]
  <2>1. OpenUrl(b, u, way, offset) = r
    BY <1>3 DEF OpenUrl, m
  <2>2. /\ r \in Bws /\ r.root.url = u /\ r.root.st = "waiting"
        /\ r.stack = m.stack /\ r.ptr = m.ptr /\ r.expect = m.expect /\ r.status = m.status
    BY <1>1 DEF Bws, Roots
  <2>3. r.expect # None => r.root # None
    BY NavNone DEF Roots
  <2> HIDE DEF r
  <2>4. AlmostGood(r)
    BY <1>1, <2>2 DEF AlmostGood, ShapeOk, Distinct, LoadingIsShown, NoStaleRefresh, Size
  <2>5. Expected(r)
    BY <1>1, <2>2, <2>3 DEF Expected
  <2> QED BY <2>1, <2>4, <2>5 DEF GoodBw
<1>4. CASE ~(Forced(way) \/ Top(b) = None \/ Top(b) # u)
  <2>1. OpenUrl(b, u, way, offset) = m
    BY <1>4 DEF OpenUrl, m
  <2>2. way = "push" /\ u = b.stack[b.ptr + 1] /\ InStack(b, b.ptr)
    BY <1>4 DEF Forced, Top, Entry
  <2>3. u \in Range(m.stack)
    <3>1. b.ptr + 1 \in 1 .. Len(b.stack) /\ b.stack \in Seq(Urls)
      BY <1>2, <2>2, SizeIs DEF InStack, Size, ShapeOk
    <3> QED BY <3>1, <2>2, <1>1 DEF Range
  <2>4. Expected(m)
    BY <1>1, <2>2, <2>3 DEF Expected
  <2> QED BY <1>1, <2>1, <2>4 DEF GoodBw
<1> QED BY <1>3, <1>4

\* The address is typed for Expect.
LEMMA ExpectGood ==
  ASSUME NEW b, NEW u \in Urls, NEW way \in Ways, AlmostGood(b), b.status # 2
  PROVE  LET e == Expect(b, u, way) IN
         /\ AlmostGood(e) /\ e.status # 2 /\ e.expect = [url |-> u, way |-> way]
         /\ e.stack = b.stack /\ e.ptr = b.ptr
<1> DEFINE e == Expect(b, u, way)
<1>1. b \in Bws
  BY DEF AlmostGood, ShapeOk
<1>2. /\ e \in Bws /\ e.expect = [url |-> u, way |-> way]
      /\ e.stack = b.stack /\ e.ptr = b.ptr /\ e.root = b.root /\ e.status = b.status
      /\ e.shown = b.shown /\ e.asker = b.asker
  BY <1>1 DEF Expect, Bws
<1> HIDE DEF e
<1> QED BY <1>2 DEF e, AlmostGood, ShapeOk, Distinct, LoadingIsShown, NoStaleRefresh, Size

\* a_Nav_push, which does nothing when its URL is expected already.
LEMMA PushGood ==
  ASSUME NEW b, NEW u \in Urls, NEW way \in Ways, AlmostGood(b),
         b.expect # None /\ b.expect.url = u => Expected(b)
  PROVE  GoodBw(Push(b, u, way))
<1>1. CASE b.expect # None /\ b.expect.url = u
  BY <1>1 DEF Push, GoodBw
<1>2. CASE ~(b.expect # None /\ b.expect.url = u)
  <2> DEFINE e == Expect(Cancel(b), u, way)
  <2>1. AlmostGood(Cancel(b)) /\ Cancel(b).status # 2
    BY CancelGood DEF GoodBw
  <2>2. AlmostGood(e) /\ e.status # 2 /\ e.expect = [url |-> u, way |-> way]
    BY <2>1, ExpectGood
  <2>3. Push(b, u, way) = OpenUrl(e, u, way, 0)
    BY <1>2 DEF Push
  <2> HIDE DEF e
  <2> QED BY <2>2, <2>3, OpenUrlGood
<1> QED BY <1>1, <1>2

\* The entry at the pointer of a window with a stack.
LEMMA TopIs ==
  ASSUME NEW b, ShapeOk(b), Size(b) # 0
  PROVE  Top(b) \in Urls
<1>1. b.stack \in Seq(Urls) /\ Size(b) \in Nat /\ b.stack # <<>>
  BY SizeIs DEF ShapeOk, Size
<1>2. InStack(b, b.ptr) /\ b.ptr + 1 \in 1 .. Len(b.stack)
  BY <1>1 DEF ShapeOk, InStack, Size
<1> QED BY <1>1, <1>2 DEF Top, Entry

\* An entry of the stack is a URL.
LEMMA EntryIs ==
  ASSUME NEW b \in Bws, NEW i \in Int, InStack(b, i)
  PROVE  Entry(b, i) \in Urls
<1>1. b.stack \in Seq(Urls) /\ i + 1 \in 1 .. Len(b.stack)
  BY SizeIs DEF InStack, Size
<1> QED BY <1>1 DEF Entry

\* Nav_repush and Nav_reload ask for the page at the pointer once more.
LEMMA AgainGood ==
  ASSUME NEW b, NEW way \in Ways, AlmostGood(b)
  PROVE  GoodBw(Again(b, way))
<1>1. CASE Size(b) = 0
  BY <1>1, CancelGood DEF Again
<1>2. CASE Size(b) # 0
  <2> DEFINE u == Top(b)
             e == Expect(Cancel(b), u, way)
  <2>1. u \in Urls
    BY <1>2, TopIs DEF AlmostGood
  <2>2. AlmostGood(Cancel(b)) /\ Cancel(b).status # 2
    BY CancelGood DEF GoodBw
  <2>3. Again(b, way) = OpenUrl(e, u, way, 0)
    BY <1>2 DEF Again
  <2> HIDE DEF u
  <2>4. AlmostGood(e) /\ e.status # 2 /\ e.expect = [url |-> u, way |-> way]
    BY <2>1, <2>2, ExpectGood
  <2> HIDE DEF e
  <2> QED BY <2>1, <2>3, <2>4, OpenUrlGood
<1> QED BY <1>1, <1>2

\* Nav_stack_clean: of the last two entries, one goes when they are equal.
LEMMA ForgetGood ==
  ASSUME NEW b, ShapeOk(b), Distinct(b, Size(b) - 1), LoadingIsShown(b),
         b.expect = None, b.status # 2
  PROVE  GoodBw(Forget(b))
<1> DEFINE n == Size(b)
           both == n >= 2 /\ Entry(b, n - 2) = Entry(b, n - 1)
<1>1. b \in Bws /\ b.stack \in Seq(Urls) /\ n \in Nat /\ n = Len(b.stack)
  BY SizeIs DEF ShapeOk, Size
<1>2. n >= 2 => Entry(b, n - 2) = b.stack[n - 1] /\ Entry(b, n - 1) = b.stack[n]
  BY <1>1 DEF Entry, InStack
<1>3. CASE both
  <2> DEFINE p == IF b.ptr >= n - 1 THEN n - 2 ELSE b.ptr
             f == [b EXCEPT !.stack = Front(b.stack), !.ptr = p]
  <2>1. Forget(b) = f
    BY <1>3 DEF Forget
  <2>2. /\ Front(b.stack) \in Seq(Urls) /\ Len(Front(b.stack)) = n - 1
        /\ \A i \in 1 .. n - 1 : Front(b.stack)[i] = b.stack[i]
    BY <1>1, <1>3 DEF Front
  <2>3. p \in Int /\ p \in 0 .. n - 2
    BY <1>1, <1>3, EmptySeq DEF ShapeOk, Bws, Size
  <2> HIDE DEF p
  <2>4. /\ f \in Bws /\ f.stack = Front(b.stack) /\ f.ptr = p /\ f.expect = None
        /\ f.root = b.root /\ f.status = b.status /\ f.shown = b.shown
    BY <1>1, <2>2, <2>3 DEF Bws
  <2> HIDE DEF f
  <2>5. Size(f) = n - 1 /\ f.stack # <<>>
    BY <1>1, <1>3, <2>2, <2>4, EmptySeq DEF Size
  <2>6. ShapeOk(f)
    BY <2>3, <2>4, <2>5, <1>1 DEF ShapeOk
  <2>7. Distinct(f, Size(f))
    BY <1>1, <2>2, <2>4, <2>5 DEF Distinct
  <2> QED BY <2>1, <2>4, <2>6, <2>7 DEF GoodBw, AlmostGood, Expected, LoadingIsShown, NoStaleRefresh
<1>4. CASE ~both
  <2>1. Forget(b) = b
    BY <1>4 DEF Forget
  <2>2. Distinct(b, n)
    BY <1>1, <1>2, <1>4 DEF Distinct
  <2> QED BY <2>1, <2>2 DEF GoodBw, AlmostGood, Expected, NoStaleRefresh
<1> QED BY <1>3, <1>4

\* Nav_stack_truncate, Nav_stack_append and the move of the pointer to the new entry.
LEMMA AppendGood ==
  ASSUME NEW b, NEW u \in Urls, ShapeOk(b), Distinct(b, Size(b))
  PROVE  LET a == MovePtr(Append1(b, u), 1) IN
         /\ ShapeOk(a) /\ Distinct(a, Size(a) - 1)
         /\ a.expect = b.expect /\ a.root = b.root /\ a.status = b.status /\ a.shown = b.shown
<1> DEFINE k == b.ptr + 1
           s == Append(SubSeq(b.stack, 1, k), u)
           a == [b EXCEPT !.stack = s]
           m == [a EXCEPT !.ptr = k]
<1>1. b \in Bws /\ b.stack \in Seq(Urls) /\ k \in Nat /\ k <= Len(b.stack) /\ b.ptr \in Int
  BY SizeIs DEF ShapeOk, Size, Bws
<1>2. /\ SubSeq(b.stack, 1, k) \in Seq(Urls) /\ Len(SubSeq(b.stack, 1, k)) = k
      /\ \A i \in 1 .. k : SubSeq(b.stack, 1, k)[i] = b.stack[i]
  BY <1>1
<1>3. /\ s \in Seq(Urls) /\ Len(s) = k + 1
      /\ \A i \in 1 .. k : s[i] = b.stack[i]
  BY <1>2, <1>1
<1> HIDE DEF s
<1>4. a \in Bws /\ a.stack = s /\ a.ptr = b.ptr
  BY <1>1, <1>3 DEF Bws
<1>7. a.expect = b.expect /\ a.root = b.root /\ a.status = b.status /\ a.shown = b.shown
  BY <1>1 DEF Bws
<1>5. MovePtr(a, 1) = m
  <2>1. InStack(a, a.ptr + 1)
    BY <1>1, <1>3, <1>4 DEF InStack, Size
  <2> QED BY <1>4, <2>1 DEF MovePtr
<1>6. Append1(b, u) = a
  BY DEF Append1, s
<1> HIDE DEF a, k
<1>8. /\ m \in Bws /\ m.stack = s /\ m.ptr = k
      /\ m.expect = b.expect /\ m.root = b.root /\ m.status = b.status /\ m.shown = b.shown
  <2>1. k \in Int /\ a \in Bws
    BY <1>1, <1>4
  <2>2. m \in Bws /\ m.ptr = k
    BY <2>1 DEF Bws
  <2>3. /\ m.stack = a.stack /\ m.expect = a.expect /\ m.root = a.root
        /\ m.status = a.status /\ m.shown = a.shown
    BY <2>1 DEF Bws
  <2> HIDE DEF m
  <2> QED BY <2>2, <2>3, <1>4, <1>7
<1> HIDE DEF m
<1>9. ShapeOk(m)
  BY <1>1, <1>3, <1>8, EmptySeq DEF ShapeOk, Size
<1>10. Distinct(m, Size(m) - 1)
  <2>1. SUFFICES ASSUME NEW i \in 1 .. k - 1
                 PROVE  s[i] # s[i + 1]
    BY <1>1, <1>3, <1>8 DEF Distinct, Size
  <2>2. i \in 1 .. k /\ i + 1 \in 1 .. k /\ i \in 1 .. Len(b.stack) - 1
    BY <1>1
  <2> QED BY <1>3, <2>2 DEF Distinct, Size
<1> QED BY <1>5, <1>6, <1>8, <1>9, <1>10

\* a_Web_dispatch_by_type and a_Nav_expect_done: the page that was waited for is shown
\* and recorded.
LEMMA ArriveGood ==
  ASSUME NEW b, GoodBw(b), b.root # None, b.root.st = "waiting"
  PROVE  GoodBw(ExpectDone([b EXCEPT !.root.st = "shown", !.shown = b.root.url]))
<1> DEFINE c == [b EXCEPT !.root.st = "shown", !.shown = b.root.url]
<1>1. b \in Bws /\ b.root \in Roots
  BY DEF GoodBw, AlmostGood, ShapeOk, Bws
<1>2. /\ c \in Bws /\ c.stack = b.stack /\ c.ptr = b.ptr /\ c.expect = b.expect
      /\ c.status = b.status /\ c.root.url = b.root.url /\ c.shown = c.root.url
  BY <1>1 DEF Bws, Roots
<1> HIDE DEF c
<1>3. ShapeOk(c) /\ Distinct(c, Size(c)) /\ LoadingIsShown(c)
  BY <1>2 DEF GoodBw, AlmostGood, ShapeOk, Distinct, LoadingIsShown, Size
<1>4. CASE c.expect = None
  <2>1. ExpectDone(c) = Forget(c)
    BY <1>4 DEF ExpectDone
  <2>2. c.status # 2
    BY <1>2, <1>4 DEF GoodBw, AlmostGood, NoStaleRefresh
  <2>3. Distinct(c, Size(c) - 1)
    BY <1>2, <1>3, DistinctLess
  <2> QED BY <1>3, <1>4, <2>1, <2>2, <2>3, ForgetGood DEF c
<1>5. CASE c.expect # None
  <2>1. PICK d : /\ ExpectDone(c) = Forget(Cancel(d))
                 /\ ShapeOk(d) /\ Distinct(d, Size(d) - 1) /\ LoadingIsShown(d)
    <3>1. CASE c.expect.way \in {"repush", "reload"}
      <4>1. Distinct(c, Size(c) - 1)
        BY <1>2, <1>3, DistinctLess
      <4> QED BY <1>3, <1>5, <3>1, <4>1 DEF ExpectDone
    <3>2. CASE c.expect.way \notin {"repush", "reload"}
      <4> DEFINE a == MovePtr(Append1(c, c.expect.url), 1)
      <4>1. c.expect.url \in Urls
        BY <1>2, <1>5 DEF Bws
      <4>2. /\ ShapeOk(a) /\ Distinct(a, Size(a) - 1)
            /\ a.root = c.root /\ a.shown = c.shown
        BY <1>3, <4>1, AppendGood
      <4>3. ExpectDone(c) = Forget(Cancel(a))
        BY <1>5, <3>2 DEF ExpectDone
      <4> HIDE DEF a
      <4> QED BY <1>3, <4>2, <4>3 DEF LoadingIsShown
    <3> QED BY <3>1, <3>2
  <2>2. /\ Cancel(d) \in Bws /\ Cancel(d).expect = None /\ Cancel(d).status # 2
        /\ Cancel(d).stack = d.stack /\ Cancel(d).ptr = d.ptr /\ Cancel(d).root = d.root
        /\ Cancel(d).shown = d.shown
    BY <2>1, CancelIs DEF ShapeOk
  <2> DEFINE e == Cancel(d)
  <2> HIDE DEF e
  <2>3. ShapeOk(e) /\ Distinct(e, Size(e) - 1) /\ LoadingIsShown(e)
    BY <2>1, <2>2 DEF e, ShapeOk, Distinct, LoadingIsShown, Size
  <2> QED BY <2>1, <2>2, <2>3, ForgetGood DEF e, c
<1> QED BY <1>4, <1>5 DEF c

----------------------------------------------------------------------------
(* The steps. *)

\* What a step does to one window.
LEMMA SetGood ==
  ASSUME NavInv, NEW w \in NavWindows, NEW b, GoodBw(b), SetBw(w, b)
  PROVE  /\ bw' \in [NavWindows -> Bws \cup {None}]
         /\ \A x \in Open' : GoodBw(bw'[x])
         /\ \A x \in Open : x \in Open'
<1>1. b \in Bws /\ b # None
  BY NavNone DEF GoodBw, AlmostGood, ShapeOk
<1>2. /\ bw' = [bw EXCEPT ![w] = b]
      /\ bw \in [NavWindows -> Bws \cup {None}]
      /\ \A x \in Open : GoodBw(bw[x])
  BY DEF SetBw, NavInv
<1>3. \A x \in NavWindows : bw'[x] = IF x = w THEN b ELSE bw[x]
  BY <1>2
<1>4. bw' \in [NavWindows -> Bws \cup {None}]
  BY <1>1, <1>2
<1>5. \A x \in Open' : GoodBw(bw'[x])
  BY <1>2, <1>3 DEF Open
<1> QED BY <1>1, <1>3, <1>4, <1>5 DEF Open

\* ... and to nothing else but the timeouts.
LEMMA StepGood ==
  ASSUME NavInv, NEW w \in NavWindows, NEW b, GoodBw(b), SetBw(w, b), UNCHANGED menu,
         timeouts' \in Seq(Callbacks \X NavWindows)
  PROVE  NavInv'
<1>1. /\ bw' \in [NavWindows -> Bws \cup {None}]
      /\ \A x \in Open' : GoodBw(bw'[x])
      /\ \A x \in Open : x \in Open'
  BY SetGood
<1>2. menu' # None => menu'.win \in Open' /\ menu'.dir \in {-1, 1}
  BY <1>1 DEF NavInv
<1> QED BY <1>1, <1>2 DEF NavInv

\* A window that is open.
LEMMA OpenIs ==
  ASSUME NavInv, NEW w \in NavWindows, bw[w] # None
  PROVE  /\ GoodBw(bw[w]) /\ AlmostGood(bw[w]) /\ ShapeOk(bw[w])
         /\ Expected(bw[w]) /\ bw[w] \in Bws
BY DEF NavInv, Open, GoodBw, AlmostGood, ShapeOk

\* A window that is new.
LEMMA NewGood == GoodBw(NewBw)
<1>1. NewBw \in Bws /\ Size(NewBw) = 0
  BY EmptySeq DEF NewBw, Bws, Size
<1> QED BY <1>1 DEF GoodBw, AlmostGood, ShapeOk, Expected, Distinct, LoadingIsShown,
                    NoStaleRefresh, NewBw

\* A window without a client, which expects nothing but what is in its stack.
LEMMA NoRootGood ==
  ASSUME NEW b, AlmostGood(b),
         b.expect # None => b.expect.way = "push" /\ b.expect.url \in Range(b.stack)
  PROVE  GoodBw([b EXCEPT !.root = None])
<1> DEFINE r == [b EXCEPT !.root = None]
<1>1. b \in Bws
  BY DEF AlmostGood, ShapeOk
<1>2. /\ r \in Bws /\ r.root = None
      /\ r.stack = b.stack /\ r.ptr = b.ptr /\ r.expect = b.expect /\ r.status = b.status
      /\ r.shown = b.shown /\ r.asker = b.asker /\ r.refresh = b.refresh
  BY <1>1 DEF Bws
<1> HIDE DEF r
<1> QED BY <1>2 DEF r, GoodBw, AlmostGood, ShapeOk, Expected, Distinct, LoadingIsShown,
                    NoStaleRefresh, Size

\* The commands of the user.
LEMMA CommandStep ==
  ASSUME NavInv, NEW w \in NavWindows,
         \/ NewWindow(w) \/ CloseWindow(w) \/ Back(w) \/ Forw(w) \/ Stop(w)
         \/ \E u \in Urls : OpenLink(w, u)
  PROVE  NavInv'
<1> DEFINE b == bw[w]
<1>1. timeouts \in Seq(Callbacks \X NavWindows)
  BY DEF NavInv
<1>2. CASE NewWindow(w)
  BY <1>1, <1>2, NewGood, StepGood DEF NewWindow
<1>3. CASE CloseWindow(w)
  <2>1. /\ bw' = [bw EXCEPT ![w] = None] /\ menu' = None
        /\ bw \in [NavWindows -> Bws \cup {None}]
        /\ UNCHANGED timeouts
    BY <1>3 DEF CloseWindow, SetBw, NavInv
  <2>2. \A x \in NavWindows : bw'[x] = IF x = w THEN None ELSE bw[x]
    BY <2>1
  <2>3. \A x \in Open' : x \in Open /\ bw'[x] = bw[x]
    BY <2>2 DEF Open
  <2>4. \A x \in Open' : GoodBw(bw'[x])
    BY <2>3 DEF NavInv
  <2>5. bw' \in [NavWindows -> Bws \cup {None}]
    BY <2>1
  <2> QED BY <1>1, <2>1, <2>4, <2>5 DEF NavInv
<1>4. ASSUME b # None, NEW i \in {-1, 1}, InStack(b, b.ptr + i),
             SetBw(w, OpenUrl(Cancel(b), Entry(b, b.ptr + i), "push", i)),
             UNCHANGED <<timeouts, menu>>
      PROVE  NavInv'
  <2>1. AlmostGood(b) /\ b \in Bws
    BY <1>4, OpenIs
  <2>2. Entry(b, b.ptr + i) \in Urls
    <3>1. b.ptr + i \in Int
      BY <2>1 DEF Bws
    <3> QED BY <2>1, <3>1, <1>4, EntryIs
  <2>3. AlmostGood(Cancel(b)) /\ Cancel(b).expect = None /\ Cancel(b).status # 2
    BY <2>1, CancelGood DEF GoodBw
  <2>4. GoodBw(OpenUrl(Cancel(b), Entry(b, b.ptr + i), "push", i))
    <3>1. i \in Int /\ "push" \in Ways
      BY DEF Ways
    <3> QED BY <2>2, <2>3, <3>1, OpenUrlGood
  <2> QED BY <1>1, <1>4, <2>4, StepGood
<1>5. CASE Back(w)
  <2>1. b # None /\ b \in Bws /\ ShapeOk(b) /\ b.ptr > 0
    BY <1>5, OpenIs DEF Back
  <2>2. b.ptr - 1 = b.ptr + (-1) /\ InStack(b, b.ptr + (-1))
    BY <2>1, SizeIs DEF ShapeOk, InStack, Bws
  <2>3. SetBw(w, OpenUrl(Cancel(b), Entry(b, b.ptr + (-1)), "push", -1))
    BY <1>5, <2>2 DEF Back
  <2> QED BY <1>4, <1>5, <2>1, <2>2, <2>3 DEF Back
<1>6. CASE Forw(w)
  <2>1. b # None /\ b \in Bws /\ ShapeOk(b) /\ b.ptr + 1 < Size(b)
    BY <1>6, OpenIs DEF Forw
  <2>2. InStack(b, b.ptr + 1)
    BY <2>1, SizeIs DEF ShapeOk, InStack, Bws
  <2>3. SetBw(w, OpenUrl(Cancel(b), Entry(b, b.ptr + 1), "push", 1))
    BY <1>6 DEF Forw
  <2> QED BY <1>4, <1>6, <2>1, <2>2, <2>3 DEF Forw
<1>7. CASE Stop(w)
  <2>1. AlmostGood(Cancel(b)) /\ Cancel(b).expect = None
    BY <1>7, OpenIs, CancelGood DEF Stop, GoodBw
  <2>2. GoodBw([Cancel(b) EXCEPT !.root = None])
    BY <2>1, NoRootGood
  <2> QED BY <1>1, <1>7, <2>2, StepGood DEF Stop
<1>8. ASSUME NEW u \in Urls, OpenLink(w, u)
      PROVE  NavInv'
  <2>1. AlmostGood(b) /\ Expected(b)
    BY <1>8, OpenIs DEF OpenLink
  <2>2. GoodBw(Push(b, u, "push"))
    BY <2>1, PushGood DEF Ways
  <2> QED BY <1>1, <1>8, <2>2, StepGood DEF OpenLink
<1> QED BY <1>2, <1>3, <1>5, <1>6, <1>7, <1>8

\* The answers of the network.
LEMMA NetworkStep ==
  ASSUME NavInv, NEW w \in NavWindows,
         \/ Arrive(w) \/ Finish(w) \/ Fail(w)
         \/ \E u \in Urls, way \in Ways : HttpRedirect(w, u, way)
  PROVE  NavInv'
<1> DEFINE b == bw[w]
<1>1. timeouts \in Seq(Callbacks \X NavWindows)
  BY DEF NavInv
<1>2. bw[w] # None /\ b.root # None
  BY DEF Arrive, Finish, Fail, HttpRedirect, Loading
<1>3. GoodBw(b) /\ AlmostGood(b) /\ Expected(b) /\ b \in Bws /\ b.root \in Roots
  BY <1>2, OpenIs DEF Bws
<1>4. CASE Arrive(w)
  <2>1. b.root.st = "waiting"
    BY <1>4 DEF Arrive, Loading
  <2>2. GoodBw(ExpectDone([b EXCEPT !.root.st = "shown", !.shown = b.root.url]))
    BY <1>2, <1>3, <2>1, ArriveGood
  <2> QED BY <1>1, <1>4, <2>2, StepGood DEF Arrive
<1>5. CASE Finish(w)
  <2>1. b.root.st # "waiting"
    BY <1>5 DEF Finish, Loading
  <2>2. GoodBw([b EXCEPT !.root = None])
    BY <1>3, <2>1, NoRootGood DEF Expected
  <2> QED BY <1>1, <1>5, <2>2, StepGood DEF Finish
<1>6. CASE Fail(w)
  <2> DEFINE c == CancelIfEq(b, b.root.url)
  <2>1. CASE b.expect # None /\ SamePage(b.expect.url, b.root.url)
    <3>1. c = Cancel(b)
      BY <2>1 DEF CancelIfEq
    <3>2. AlmostGood(Cancel(b)) /\ Cancel(b).expect = None
      BY <1>3, CancelGood DEF GoodBw
    <3>3. GoodBw([Cancel(b) EXCEPT !.root = None])
      BY <3>2, NoRootGood
    <3> QED BY <1>1, <1>6, <3>1, <3>3, StepGood DEF Fail
  <2>2. CASE ~(b.expect # None /\ SamePage(b.expect.url, b.root.url))
    <3>1. c = b
      BY <2>2 DEF CancelIfEq
    <3>2. b.expect # None => b.expect.url # b.root.url
      BY <2>2 DEF SamePage
    <3>3. GoodBw([b EXCEPT !.root = None])
      BY <1>3, <3>2, NoRootGood DEF Expected
    <3> QED BY <1>1, <1>6, <3>1, <3>3, StepGood DEF Fail
  <2> QED BY <2>1, <2>2
<1>7. ASSUME NEW u \in Urls, NEW way \in Ways, HttpRedirect(w, u, way)
      PROVE  NavInv'
  <2> DEFINE r == [b EXCEPT !.root = None]
  <2>1. /\ r \in Bws /\ r.root = None
        /\ r.stack = b.stack /\ r.ptr = b.ptr /\ r.expect = b.expect /\ r.status = b.status
        /\ r.shown = b.shown /\ r.asker = b.asker /\ r.refresh = b.refresh
    BY <1>3 DEF Bws
  <2>2. b.root.url # u
    BY <1>7 DEF HttpRedirect, SamePage
  <2>3. SetBw(w, Push(r, u, way)) /\ UNCHANGED <<timeouts, menu>>
    BY <1>7 DEF HttpRedirect
  <2> HIDE DEF r
  <2>4. AlmostGood(r)
    BY <1>3, <2>1 DEF AlmostGood, ShapeOk, Distinct, LoadingIsShown, NoStaleRefresh, Size
  <2>5. r.expect # None /\ r.expect.url = u => Expected(r)
    BY <1>3, <2>1, <2>2 DEF Expected
  <2>6. GoodBw(Push(r, u, way))
    BY <2>4, <2>5, PushGood
  <2> QED BY <1>1, <2>3, <2>6, StepGood
<1> QED BY <1>4, <1>5, <1>6, <1>7

\* The timeouts.
Timeouts == Callbacks \X NavWindows

\* A timeout is put, or the first one is taken.
LEMMA TimeoutTyped ==
  ASSUME NavInv, NEW w \in NavWindows, NEW cb \in Callbacks
  PROVE  /\ AddTimeout(cb, w) => timeouts' \in Seq(Timeouts)
         /\ timeouts # <<>> => Tail(timeouts) \in Seq(Timeouts)
<1>1. <<cb, w>> \in Timeouts
  BY DEF Timeouts
<1>2. timeouts \in Seq(Timeouts)
  BY DEF Timeouts, NavInv
<1> QED BY <1>1, <1>2 DEF AddTimeout

\* A set of natural numbers has a least element.
LEMMA LeastNatural ==
  ASSUME NEW T, T \subseteq Nat, T # {}
  PROVE  \E x \in T : \A y \in T : x <= y
<1> DEFINE R == OpToRel(<, Nat)
<1>1. IsWellFoundedOn(R, Nat)
  BY NatLessThanWellFounded
<1>2. \A x, y \in Nat : x < y => <<x, y>> \in R
  BY DEF OpToRel
<1> HIDE DEF R
<1>3. PICK x \in T : \A y \in T : ~(<<y, x>> \in R)
  BY <1>1, WFMin
<1>4. \A y \in T : ~(y < x)
  BY <1>2, <1>3
<1> QED BY <1>3, <1>4

\* What is left of a list when an entry is taken out of it wherever it is, as a
\* function of how much of the list was looked at.
LeftOf(s, t, g) == g = [i \in 0 .. Len(s) |->
    IF i = 0 THEN <<>>
    ELSE IF s[i] = t THEN g[i - 1] ELSE Append(g[i - 1], s[i])]

\* There is such a function (induction over the length of the list).
LEMMA LeftExists ==
  ASSUME NEW S, NEW s \in Seq(S), NEW t
  PROVE  \E g : LeftOf(s, t, g)
<1> DEFINE Upto(n, g) == /\ g \in [0 .. n -> Seq(S)]
                         /\ \A i \in 0 .. n : g[i] =
                              IF i = 0 THEN <<>>
                              ELSE IF s[i] = t THEN g[i - 1] ELSE Append(g[i - 1], s[i])
           Bad == {n \in 0 .. Len(s) : \A g : ~Upto(n, g)}
<1>0. Len(s) \in Nat /\ Bad \subseteq Nat
  OBVIOUS
<1>1. ASSUME Bad # {} PROVE FALSE
  <2>0. PICK n \in Bad : \A m \in Bad : n <= m
    <3> HIDE DEF Bad
    <3> QED BY <1>0, <1>1, LeastNatural
  <2>1. /\ n \in 0 .. Len(s) /\ \A g : ~Upto(n, g)
        /\ \A m \in 0 .. Len(s) : m < n => \E g : Upto(m, g)
    <3> HIDE DEF Upto
    <3> QED BY <2>0, <1>0
  <2>2. n # 0
    <3>1. Upto(0, [i \in 0 .. 0 |-> <<>>])
      OBVIOUS
    <3> HIDE DEF Upto
    <3> QED BY <3>1, <2>1
  <2>3. PICK g : Upto(n - 1, g)
    <3> HIDE DEF Upto
    <3> QED BY <2>1, <2>2
  <2> DEFINE e == IF s[n] = t THEN g[n - 1] ELSE Append(g[n - 1], s[n])
             h == [i \in 0 .. n |-> IF i = n THEN e ELSE g[i]]
  <2>4. e \in Seq(S)
    BY <2>1, <2>2, <2>3
  <2> HIDE DEF e
  <2>5. h \in [0 .. n -> Seq(S)]
    BY <2>1, <2>2, <2>3, <2>4
  <2>6. \A i \in 0 .. n : h[i] =
          IF i = 0 THEN <<>>
          ELSE IF s[i] = t THEN h[i - 1] ELSE Append(h[i - 1], s[i])
    <3>1. h[n] = IF s[n] = t THEN h[n - 1] ELSE Append(h[n - 1], s[n])
      BY <2>1, <2>2 DEF e
    <3>2. ASSUME NEW i \in 0 .. n - 1
          PROVE  h[i] = IF i = 0 THEN <<>>
                        ELSE IF s[i] = t THEN h[i - 1] ELSE Append(h[i - 1], s[i])
      <4>1. h[i] = g[i] /\ (i # 0 => h[i - 1] = g[i - 1])
        BY <2>1, <2>2, <1>0
      <4> HIDE DEF h
      <4> QED BY <4>1, <2>3, <2>1, <2>2, <1>0
    <3> HIDE DEF h
    <3> QED BY <3>1, <3>2, <2>1, <2>2
  <2> QED BY <2>1, <2>5, <2>6
<1>2. PICK g : Upto(Len(s), g)
  <2>1. Len(s) \notin Bad /\ Len(s) \in 0 .. Len(s)
    <3> HIDE DEF Bad
    <3> QED BY <1>0, <1>1
  <2> HIDE DEF Upto
  <2> QED BY <2>1
<1>3. g = [i \in 0 .. Len(s) |->
             IF i = 0 THEN <<>>
             ELSE IF s[i] = t THEN g[i - 1] ELSE Append(g[i - 1], s[i])]
  BY <1>2
<1> QED BY <1>3 DEF LeftOf

\* What it leaves of a list is a list of the same items (induction again).
LEMMA LeftTyped ==
  ASSUME NEW S, NEW s \in Seq(S), NEW t, NEW g, LeftOf(s, t, g)
  PROVE  g[Len(s)] \in Seq(S)
<1> DEFINE Bad == {i \in 0 .. Len(s) : g[i] \notin Seq(S)}
<1>1. \A i \in 0 .. Len(s) : g[i] =
         IF i = 0 THEN <<>> ELSE IF s[i] = t THEN g[i - 1] ELSE Append(g[i - 1], s[i])
  BY DEF LeftOf
<1>0. Len(s) \in Nat /\ Bad \subseteq Nat
  OBVIOUS
<1>2. ASSUME Bad # {} PROVE FALSE
  <2>1. PICK n \in Bad : \A m \in Bad : n <= m
    <3> HIDE DEF Bad
    <3> QED BY <1>0, <1>2, LeastNatural
  <2>2. n # 0
    BY <1>1, <2>1, EmptySeq
  <2>3. n - 1 \in 0 .. Len(s) /\ n \in 1 .. Len(s) /\ n \in 0 .. Len(s)
    BY <2>1, <2>2, <1>0
  <2>4. g[n - 1] \in Seq(S) /\ s[n] \in S
    <3>1. n - 1 \notin Bad
      <4> HIDE DEF Bad
      <4> QED BY <2>1, <1>0
    <3> QED BY <2>3, <3>1
  <2>5. g[n] = IF s[n] = t THEN g[n - 1] ELSE Append(g[n - 1], s[n])
    BY <1>1, <2>2, <2>3
  <2>6. g[n] \in Seq(S)
    BY <2>4, <2>5
  <2> QED BY <2>1, <2>6
<1> QED BY <1>2, <1>0

\* a_Timeout_remove and the end of the callback.
LEMMA WithoutTyped ==
  ASSUME NavInv, timeouts # <<>>, NEW t
  PROVE  Without(t) \in Seq(Timeouts)
<1> DEFINE rest == Tail(timeouts)
           kept == CHOOSE g : LeftOf(rest, t, g)
<1>1. rest \in Seq(Timeouts)
  BY DEF Timeouts, NavInv
<1>2. Without(t) = kept[Len(rest)]
  BY DEF Without, LeftOf
<1> HIDE DEF rest
<1>3. LeftOf(rest, t, kept)
  BY <1>1, LeftExists
<1> HIDE DEF kept
<1> QED BY <1>1, <1>2, <1>3, LeftTyped

\* The history menu.
LEMMA MenuStep ==
  ASSUME NavInv,
         \/ \E w \in NavWindows, dir \in {-1, 1} : HistoryPopup(w, dir)
         \/ \E j \in 1 .. MaxStack : Jump(j)
         \/ Dismiss
  PROVE  NavInv'
<1>1. ASSUME NEW w \in NavWindows, NEW dir \in {-1, 1}, HistoryPopup(w, dir)
      PROVE  NavInv'
  <2>1. /\ bw[w] # None /\ UNCHANGED <<bw, timeouts>>
        /\ menu'.win = w /\ menu'.dir = dir
    BY <1>1 DEF HistoryPopup
  <2> QED BY <2>1 DEF NavInv, Open
<1>2. ASSUME NEW j \in 1 .. MaxStack, Jump(j)
      PROVE  NavInv'
  <2> DEFINE w == menu.win
             b == bw[w]
             o == Offset(menu, j)
             to == Entry(b, b.ptr + o)
  <2>1. /\ w \in NavWindows /\ b # None /\ menu.dir \in {-1, 1}
        /\ to # None /\ menu' = None /\ UNCHANGED timeouts
        /\ SetBw(w, OpenUrl(Cancel(b), to, "push", o))
    BY <1>2 DEF Jump, NavInv, Open
  <2>2. o \in Int
    BY <2>1, NavBounds DEF Offset
  <2>3. AlmostGood(b) /\ b \in Bws
    BY <2>1, OpenIs
  <2>4. to \in Urls
    <3>1. InStack(b, b.ptr + o) /\ b.ptr + o \in Int
      BY <2>1, <2>2, <2>3 DEF Entry, Bws
    <3> QED BY <2>3, <3>1, EntryIs
  <2> HIDE DEF w, o, to
  <2>5. GoodBw(OpenUrl(Cancel(b), to, "push", o))
    <3>1. AlmostGood(Cancel(b)) /\ Cancel(b).expect = None /\ Cancel(b).status # 2
      BY <2>3, CancelGood DEF GoodBw
    <3>2. "push" \in Ways
      BY DEF Ways
    <3> QED BY <2>2, <2>4, <3>1, <3>2, OpenUrlGood
  <2>6. bw' \in [NavWindows -> Bws \cup {None}] /\ \A x \in Open' : GoodBw(bw'[x])
    BY <2>1, <2>5, SetGood
  <2> QED BY <2>1, <2>6 DEF NavInv
<1>3. CASE Dismiss
  BY <1>3 DEF Dismiss, NavInv, Open
<1> QED BY <1>1, <1>2, <1>3

\* What is asked for and done later.
LEMMA AskStep ==
  ASSUME NavInv, NEW w \in NavWindows,
         \/ \E cb \in {"reload", "repush"} : AskAgain(w, cb)
         \/ AskRepush(w)
         \/ \E u \in Urls : MetaRefresh(w, u)
  PROVE  NavInv'
<1>1. ASSUME NEW cb \in Callbacks, AddTimeout(cb, w), UNCHANGED <<bw, menu>>
      PROVE  NavInv'
  BY <1>1, TimeoutTyped DEF NavInv, Open, Timeouts
<1>2. CASE \E cb \in {"reload", "repush"} : AskAgain(w, cb)
  BY <1>1, <1>2 DEF AskAgain, Callbacks
<1>3. CASE AskRepush(w)
  BY <1>1, <1>3 DEF AskRepush, Callbacks
<1>4. ASSUME NEW u \in Urls, MetaRefresh(w, u)
      PROVE  NavInv'
  <2> DEFINE b == bw[w]
             n == 2
             r == [b EXCEPT !.refresh = u, !.status = n, !.asker = b.root.url]
  <2>1. b # None /\ b.root # None /\ b.root.st = "shown"
    BY <1>4 DEF MetaRefresh, Loading
  <2>2. GoodBw(b) /\ b \in Bws /\ b.root \in Roots
    BY <2>1, OpenIs DEF Bws
  <2>3. b.root.url \in Urls
    BY <2>2 DEF Roots
  <2>4. /\ r \in Bws /\ r.status = 2 /\ r.refresh = u /\ r.asker = b.root.url
        /\ r.stack = b.stack /\ r.ptr = b.ptr /\ r.expect = b.expect
        /\ r.root = b.root /\ r.shown = b.shown
    <3>1. n \in 0 .. 2 /\ n = 2
      OBVIOUS
    <3> HIDE DEF n
    <3>2. b \in Bws
      BY <2>2
    <3> HIDE DEF b
    <3> QED BY <2>3, <3>1, <3>2 DEF Bws
  <2>5. SetBw(w, r) /\ AddTimeout("refresh", w) /\ UNCHANGED menu
    BY <1>4 DEF MetaRefresh
  <2> HIDE DEF r
  <2>6. GoodBw(r)
    BY <2>1, <2>2, <2>4 DEF GoodBw, AlmostGood, ShapeOk, Expected, Distinct, LoadingIsShown,
                            NoStaleRefresh, Size
  <2>7. timeouts' \in Seq(Callbacks \X NavWindows)
    BY <2>5, TimeoutTyped DEF Callbacks, Timeouts
  <2> QED BY <2>5, <2>6, <2>7, StepGood
<1> QED BY <1>2, <1>3, <1>4

\* Timeouts that are due.
LEMMA DueStep ==
  ASSUME NavInv, NEW w \in NavWindows,
         \/ Repush(w)
         \/ \E confirmed \in BOOLEAN : ReloadCallback(w, confirmed)
         \/ Refresh(w)
  PROVE  NavInv'
<1> DEFINE b == bw[w]
<1>1. b # None /\ timeouts # <<>>
  BY DEF Repush, ReloadCallback, Refresh, Due
<1>2. GoodBw(b) /\ AlmostGood(b) /\ Expected(b) /\ b \in Bws
  BY <1>1, OpenIs
<1>3. /\ Tail(timeouts) \in Seq(Callbacks \X NavWindows)
      /\ \A t : Without(t) \in Seq(Callbacks \X NavWindows)
  BY <1>1, TimeoutTyped, WithoutTyped DEF Timeouts, Callbacks
<1>4. CASE Repush(w)
  <2>1. GoodBw(Again(b, "repush"))
    BY <1>2, AgainGood DEF Ways
  <2> QED BY <1>3, <1>4, <2>1, StepGood DEF Repush
<1>5. ASSUME NEW confirmed \in BOOLEAN, ReloadCallback(w, confirmed)
      PROVE  NavInv'
  <2>1. GoodBw(Again(b, "reload")) /\ GoodBw(Cancel(b))
    BY <1>2, AgainGood, CancelGood DEF Ways
  <2> QED BY <1>3, <1>5, <2>1, StepGood DEF ReloadCallback
<1>6. CASE Refresh(w)
  <2> DEFINE b1 == IF b.status = 2 THEN Push(MovePtr(b, -1), b.refresh, "e2e") ELSE b
             n == 0
             r == [b1 EXCEPT !.refresh = None, !.status = n]
  <2>1. GoodBw(b1)
    <3>1. CASE b.status = 2
      <4> DEFINE m == MovePtr(b, -1)
      <4>1. AlmostGood(m) /\ m.stack = b.stack /\ m.expect = b.expect /\ m.root = b.root
        BY <1>2, MovePtrGood, MovePtrShape DEF AlmostGood
      <4>2. b.refresh \in Urls /\ "e2e" \in Ways
        BY <1>2, <3>1 DEF AlmostGood, Ways
      <4> HIDE DEF m
      <4>3. Expected(m)
        BY <1>2, <4>1 DEF Expected
      <4>4. GoodBw(Push(m, b.refresh, "e2e"))
        BY <4>1, <4>2, <4>3, PushGood
      <4> QED BY <3>1, <4>4 DEF m
    <3>2. CASE b.status # 2
      BY <1>2, <3>2
    <3> QED BY <3>1, <3>2
  <2>2. SetBw(w, r) /\ UNCHANGED menu /\ timeouts' = Without(<<"refresh", w>>)
    BY <1>6 DEF Refresh
  <2> HIDE DEF b1
  <2>3. b1 \in Bws
    BY <2>1 DEF GoodBw, AlmostGood, ShapeOk
  <2>4. /\ r \in Bws /\ r.status = 0
        /\ r.stack = b1.stack /\ r.ptr = b1.ptr /\ r.expect = b1.expect
        /\ r.root = b1.root /\ r.shown = b1.shown
    <3>1. n \in 0 .. 2 /\ n = 0
      OBVIOUS
    <3> HIDE DEF n
    <3> QED BY <2>3, <3>1 DEF Bws
  <2> HIDE DEF r
  <2>5. GoodBw(r)
    BY <2>1, <2>4 DEF GoodBw, AlmostGood, ShapeOk, Expected, Distinct, LoadingIsShown,
                      NoStaleRefresh, Size
  <2> QED BY <1>3, <2>2, <2>5, StepGood
<1> QED BY <1>4, <1>5, <1>6

\* The timeout of a window that was freed.
LEMMA OrphanStep ==
  ASSUME NavInv, Orphan
  PROVE  NavInv'
BY DEF Orphan, NavInv, Open

----------------------------------------------------------------------------
(* The theorems. *)

\* No window is open at first.
LEMMA InitGood == NavInit => NavInv
BY EmptySeq DEF NavInit, NavInv, Open

\* A step of something else.
LEMMA StutterGood ==
  ASSUME NavInv, UNCHANGED navVars
  PROVE  NavInv'
BY DEF NavInv, navVars, Open

\* Every action keeps every window good.
LEMMA NavNextGood ==
  ASSUME NavInv, NavNext
  PROVE  NavInv'
BY CommandStep, NetworkStep, MenuStep, AskStep, DueStep, OrphanStep DEF NavNext

\* Whatever the user does in its windows while pages arrive and timeouts come, every
\* window is good between two events (nav.c).
THEOREM WindowsStayGood == NavSpec => []NavInv
<1>1. NavInv /\ [NavNext]_navVars => NavInv'
  BY NavNextGood, StutterGood
<1> QED BY <1>1, InitGood, PTL DEF NavSpec

\* The stack of a window has no entry twice in a row and its pointer is inside it, the
\* page that is expected is the one that is waited for, and a refresh that will be
\* followed was asked for by the page that is shown (nav.c, uicmd.cc, menu.cc).
THEOREM NavRight == NavSpec => []NavIsRight
<1>1. NavInv => NavIsRight
  <2> SUFFICES ASSUME NavInv PROVE NavIsRight
    OBVIOUS
  <2>1. \A w \in Open : GoodBw(bw[w])
    BY DEF NavInv
  <2>2. NavTypeOk
    BY <2>1 DEF NavInv, NavTypeOk, GoodBw, AlmostGood, ShapeOk
  <2>3. ExpectedIsOnItsWay
    BY <2>1 DEF ExpectedIsOnItsWay, GoodBw, Expected
  <2>4. NoEqualNeighbours
    BY <2>1 DEF NoEqualNeighbours, GoodBw, AlmostGood, Distinct
  <2>5. RefreshIsOfShown
    BY <2>1 DEF RefreshIsOfShown, GoodBw, AlmostGood
  <2> QED BY <2>2, <2>3, <2>4, <2>5 DEF NavIsRight
<1> QED BY <1>1, WindowsStayGood, PTL
=============================================================================
