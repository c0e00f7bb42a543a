------------------------------ MODULE LiveProofs ------------------------------
(* Proofs about authentication (Auth) and downloads (Download), for every     *)
(* server, its pages and realms, every number of windows and every number and *)
(* size of downloads.                                                         *)
(*                                                                            *)
(* That a realm keeps what it includes follows from the paths alone: a path   *)
(* is only deleted for one around it.  That passwords go where they were      *)
(* asked for needs the window that is asked for to be one whose page a realm  *)
(* protects, which AuthInv adds.  For the file of the downloads DownloadInv   *)
(* adds that only one window is open at a time, and that its position in the  *)
(* resource is the end of the file and of what stdio has not written yet.     *)
EXTENDS Auth, Download, SequenceTheorems, WellFoundedInduction, TLAPS

-----------------------------------------------------------------------------
(* Paths. *)

\* A path around one that is around a third is around the third.
LEMMA PrefixTransitive ==
  ASSUME NEW S, NEW p \in Seq(S), NEW q \in Seq(S), NEW r \in Seq(S),
         IsPrefix(p, q), IsPrefix(q, r)
  PROVE  IsPrefix(p, r)
<1>1. Len(p) <= Len(q) /\ Len(q) <= Len(r) /\ Len(p) <= Len(r)
  BY DEF IsPrefix
<1>2. \A i \in 1 .. Len(p) : SubSeq(p, 1, Len(p))[i] = SubSeq(q, 1, Len(p))[i]
  BY DEF IsPrefix
<1>3. \A i \in 1 .. Len(q) : SubSeq(q, 1, Len(q))[i] = SubSeq(r, 1, Len(q))[i]
  BY DEF IsPrefix
<1>4. \A i \in 1 .. Len(p) : p[i] = r[i]
  BY <1>1, <1>2, <1>3
<1>5. SubSeq(p, 1, Len(p)) = SubSeq(r, 1, Len(p))
  BY <1>1, <1>4
<1> QED BY <1>1, <1>5 DEF IsPrefix

\* A path is around itself.
LEMMA PrefixReflexive ==
  ASSUME NEW S, NEW p \in Seq(S)
  PROVE  IsPrefix(p, p)
BY DEF IsPrefix

\* A set of numbers has a least element.
LEMMA LeastOf ==
  ASSUME NEW T, T \subseteq Nat, T # {}
  PROVE  \E x \in T : \A y \in T : x <= y
<1> DEFINE R == OpToRel(<, Nat)
<1>1. IsWellFoundedOn(R, Nat)
  BY NatLessThanWellFounded
<1>2. \A x, y \in Nat : x < y => <<x, y>> \in R
  BY DEF OpToRel
<1> HIDE DEF R
<1>3. PICK x \in T : \A y \in T : ~(<<y, x>> \in R)
  BY <1>1, WFMin
<1>4. \A y \in T : ~(y < x)
  BY <1>2, <1>3
<1> QED BY <1>3, <1>4

-----------------------------------------------------------------------------
(* Authentication. *)

Passwords == {"none", "right", "wrong"}
RealmSet == [paths : SUBSET Pages, password : Passwords]
WinSet == [page : Pages \cup {NoRealm}, state : {"idle", "asked", "shown", "denied", "reload"},
           with : Realms \cup {NoRealm}, password : Passwords]

\* The types of the variables of Auth.
AuthTypeOk ==
    /\ realm \in [Realms -> RealmSet]
    /\ win \in [AuthWindows -> WinSet]
    /\ busy \in AuthWindows \cup {NoRealm}
    /\ dialog \in BOOLEAN

\* A window that is not idle has a page; the one that is asked for, one that is protected.
AskedForIsProtected ==
    /\ \A w \in AuthWindows : \/ win[w].page \in Pages
                              \/ win[w].state = "idle" /\ win[w].with = NoRealm
    /\ busy # NoRealm => win[busy].state = "denied" /\ Protects[win[busy].page] \in Realms
    /\ dialog => busy # NoRealm

\* The inductive invariant of Auth.
AuthInv == AuthTypeOk /\ AskedForIsProtected /\ PasswordsWereAskedFor

\* One realm learns a path that it protects.
Learns(r, page) ==
    /\ realm' \in [Realms -> RealmSet]
    /\ realm'[r].paths = {p \in realm[r].paths : ~IsPrefix(page, p)} \cup {page}
    /\ \A o \in Realms \ {r} : realm'[o] = realm[o]

\* AddPath as Learns has it, whatever becomes of the password.
LEMMA AddPathLearns ==
  ASSUME AuthInv, NEW r \in Realms, NEW page \in Pages, NEW password \in Passwords,
         \/ realm' = [realm EXCEPT ![r] = AddPath(r, page)]
         \/ realm' = [realm EXCEPT ![r] = [AddPath(r, page) EXCEPT !.password = password]]
  PROVE  Learns(r, page)
<1>1. realm \in [Realms -> RealmSet] /\ realm[r] \in RealmSet
  BY DEF AuthInv, AuthTypeOk
<1> DEFINE new == {p \in realm[r].paths : ~IsPrefix(page, p)} \cup {page}
<1>2. new \subseteq Pages
  BY <1>1 DEF RealmSet
<1> HIDE DEF new
<1>3. AddPath(r, page) = [paths |-> new, password |-> realm[r].password]
  <2>1. \A x \in RealmSet : \A n : [x EXCEPT !.paths = n] = [paths |-> n, password |-> x.password]
    BY DEF RealmSet
  <2>2. AddPath(r, page) = [realm[r] EXCEPT !.paths = new]
    BY DEF AddPath, new
  <2> QED BY <1>1, <2>1, <2>2
<1>4. PICK pw \in Passwords : realm' = [realm EXCEPT ![r] = [paths |-> new, password |-> pw]]
  <2>1. realm[r].password \in Passwords
    BY <1>1 DEF RealmSet
  <2>2. [AddPath(r, page) EXCEPT !.password = password] = [paths |-> new, password |-> password]
    BY <1>3
  <2> QED BY <1>3, <2>1, <2>2
<1>5. [paths |-> new, password |-> pw] \in RealmSet
  BY <1>2, <1>4 DEF RealmSet
<1>6. realm' \in [Realms -> RealmSet] /\ realm'[r] = [paths |-> new, password |-> pw]
      /\ \A o \in Realms \ {r} : realm'[o] = realm[o]
  BY <1>1, <1>4, <1>5
<1> QED BY <1>6 DEF Learns, new

\* A realm includes a page that it has learnt, and all that it has included.
LEMMA LearningKeeps ==
  ASSUME AuthInv, NEW r \in Realms, NEW page \in Pages, Learns(r, page)
  PROVE  /\ \A o \in Realms : \A x \in Pages : Includes(o, x) => Includes(o, x)'
         /\ Includes(r, page)'
<1>1. /\ Pages \subseteq Seq(STRING)
      /\ \A o \in Realms : realm[o].paths \subseteq Pages
  BY AuthAssumption DEF AuthInv, AuthTypeOk, RealmSet
<1>2. Includes(r, page)'
  BY <1>1, PrefixReflexive DEF Learns, Includes
<1>3. ASSUME NEW o \in Realms, NEW x \in Pages, Includes(o, x)
      PROVE  Includes(o, x)'
  <2>1. PICK p \in realm[o].paths : IsPrefix(p, x)
    BY <1>3 DEF Includes
  <2>2. CASE o # r
    BY <2>1, <2>2 DEF Includes, Learns
  <2>3. CASE o = r /\ ~IsPrefix(page, p)
    BY <2>1, <2>3 DEF Includes, Learns
  <2>4. CASE o = r /\ IsPrefix(page, p)
    <3>1. IsPrefix(page, x)
      BY <1>1, <2>1, <2>4, PrefixTransitive
    <3> QED BY <3>1, <2>4 DEF Includes, Learns
  <2> QED BY <2>2, <2>3, <2>4
<1> QED BY <1>2, <1>3

\* Where the longest path around a page is looked for, there is one if there is any.
LEMMA RealmByPathIncludes ==
  ASSUME AuthInv, NEW page \in Pages
  PROVE  LET r == RealmByPath(page) IN
         r \in Realms \cup {NoRealm} /\ (r # NoRealm => Includes(r, page))
<1> DEFINE All == UNION {{r} \X realm[r].paths : r \in Realms}
           Around == {rp \in All : IsPrefix(rp[2], page)}
           Ends(rp) == \A o \in Around : Len(rp[2]) >= Len(o[2])
<1>1. \A rp \in Around : /\ rp[1] \in Realms /\ rp[2] \in realm[rp[1]].paths
                         /\ rp[2] \in Seq(STRING) /\ IsPrefix(rp[2], page)
  BY AuthAssumption DEF AuthInv, AuthTypeOk, RealmSet
<1>2. page \in Seq(STRING)
  BY AuthAssumption
<1>3. RealmByPath(page) = IF Around = {} THEN NoRealm ELSE (CHOOSE rp \in Around : Ends(rp))[1]
  BY DEF RealmByPath
<1> HIDE DEF All, Around
<1>4. ASSUME Around # {}
      PROVE  \E rp \in Around : Ends(rp)
  <2> DEFINE T == {Len(page) - Len(rp[2]) : rp \in Around}
  <2>1. \A rp \in Around : Len(page) - Len(rp[2]) \in Nat /\ Len(rp[2]) \in Nat /\ Len(page) \in Nat
    BY <1>1, <1>2 DEF IsPrefix
  <2>2. T \subseteq Nat /\ T # {}
    BY <1>4, <2>1
  <2>3. PICK x \in T : \A y \in T : x <= y
    <3> HIDE DEF T
    <3> QED BY <2>2, LeastOf
  <2>4. PICK rp \in Around : x = Len(page) - Len(rp[2])
    OBVIOUS
  <2>5. \A o \in Around : Len(page) - Len(rp[2]) <= Len(page) - Len(o[2])
    BY <2>3, <2>4
  <2> QED BY <2>1, <2>4, <2>5
<1>5. CASE Around = {}
  BY <1>3, <1>5
<1>6. CASE Around # {}
  <2> DEFINE rp == CHOOSE x \in Around : Ends(x)
  <2>1. rp \in Around
    BY <1>4, <1>6
  <2> HIDE DEF rp, Ends
  <2>2. RealmByPath(page) = rp[1]
    BY <1>3, <1>6 DEF rp
  <2> QED BY <1>1, <2>1, <2>2 DEF Includes
<1> QED BY <1>5, <1>6

\* A request carries the password of a realm that includes its page.
LEMMA RequestIsCovered ==
  ASSUME AuthInv, NEW w \in AuthWindows, NEW page \in Pages
  PROVE  LET q == Request(w, page) IN
         /\ q \in WinSet /\ q.page = page /\ q.state = "asked"
         /\ q.with # NoRealm => Includes(q.with, page)
<1> DEFINE r == RealmByPath(page)
           pw == IF r = NoRealm THEN "none" ELSE realm[r].password
<1>1. r \in Realms \cup {NoRealm} /\ (r # NoRealm => Includes(r, page))
  BY RealmByPathIncludes
<1>2. Request(w, page) = [page |-> page, state |-> "asked", with |-> r, password |-> pw]
  BY DEF Request
<1>3. pw \in Passwords
  <2> HIDE DEF r
  <2> QED BY <1>1 DEF AuthInv, AuthTypeOk, RealmSet, Passwords
<1> HIDE DEF r, pw
<1> QED BY <1>1, <1>2, <1>3 DEF WinSet

\* What becomes of the passwords when a realm learns a path and a window changes its state.
LEMMA LearningIsSound ==
  ASSUME AuthInv, busy # NoRealm, NEW r, r = Protects[win[busy].page], Learns(r, win[busy].page),
         win' = [win EXCEPT ![busy].state = "reload"],
         busy' = NoRealm, dialog' = FALSE
  PROVE  /\ AuthInv'
         /\ \A o \in Realms : \A x \in Pages : Includes(o, x) => Includes(o, x)'
<1>1. /\ busy \in AuthWindows /\ win[busy].page \in Pages /\ r \in Realms
      /\ win \in [AuthWindows -> WinSet]
  BY DEF AuthInv, AuthTypeOk, AskedForIsProtected
<1>2. \A o \in Realms : \A x \in Pages : Includes(o, x) => Includes(o, x)'
  BY <1>1, LearningKeeps
<1>3. \A w \in AuthWindows : /\ win'[w] \in WinSet
                             /\ win'[w].page = win[w].page /\ win'[w].with = win[w].with
                             /\ win'[w].state = IF w = busy THEN "reload" ELSE win[w].state
  <2>1. \A x \in WinSet : LET y == [x EXCEPT !.state = "reload"] IN
           y \in WinSet /\ y.page = x.page /\ y.with = x.with /\ y.state = "reload"
    BY DEF WinSet
  <2>2. \A w \in AuthWindows : win'[w] = IF w = busy THEN [win[w] EXCEPT !.state = "reload"] ELSE win[w]
    BY <1>1
  <2> QED BY <1>1, <2>1, <2>2
<1>4. AuthTypeOk'
  <2>1. win' \in [AuthWindows -> WinSet]
    BY <1>1, <1>3
  <2> QED BY <2>1 DEF AuthTypeOk, Learns
<1>5. AskedForIsProtected'
  BY <1>1, <1>3 DEF AskedForIsProtected, AuthInv
<1>6. PasswordsWereAskedFor'
  <2>1. (\A w \in AuthWindows : win[w].with # NoRealm => Includes(win[w].with, win[w].page))'
    <3>1. SUFFICES ASSUME NEW w \in AuthWindows, win[w].with # NoRealm
                   PROVE  \E p \in realm'[win[w].with].paths : IsPrefix(p, win[w].page)
      BY <1>3 DEF Includes
    <3>2. Includes(win[w].with, win[w].page) /\ win[w].with \in Realms
      BY <1>1, <3>1 DEF AuthInv, PasswordsWereAskedFor, WinSet
    <3>3. win[w].page \in Pages
      BY <3>1 DEF AuthInv, AskedForIsProtected
    <3> QED BY <1>2, <3>2, <3>3 DEF Includes
  <2>2. (\A o \in Realms : \A p \in realm[o].paths : Protects[p] = o)'
    BY <1>1 DEF Learns, AuthInv, PasswordsWereAskedFor
  <2> QED BY <2>1, <2>2 DEF PasswordsWereAskedFor
<1> QED BY <1>2, <1>4, <1>5, <1>6 DEF AuthInv

\* What becomes of them when a window requests a page.
LEMMA RequestIsSound ==
  ASSUME AuthInv, NEW w \in AuthWindows, NEW page \in Pages, busy # w,
         win' = [win EXCEPT ![w] = Request(w, page)], UNCHANGED <<realm, busy, dialog>>
  PROVE  AuthInv'
<1> DEFINE q == Request(w, page)
<1>1. q \in WinSet /\ q.page = page /\ q.state = "asked" /\ (q.with # NoRealm => Includes(q.with, page))
  BY RequestIsCovered
<1> HIDE DEF q
<1>2. /\ win \in [AuthWindows -> WinSet] /\ win' \in [AuthWindows -> WinSet]
      /\ win'[w] = q /\ \A v \in AuthWindows \ {w} : win'[v] = win[v]
  <2>1. win' = [win EXCEPT ![w] = q]
    BY DEF q
  <2> QED BY <1>1, <2>1 DEF AuthInv, AuthTypeOk
<1>3. AuthTypeOk'
  BY <1>2 DEF AuthInv, AuthTypeOk
<1>4. AskedForIsProtected'
  BY <1>1, <1>2 DEF AuthInv, AuthTypeOk, AskedForIsProtected
<1>5. PasswordsWereAskedFor'
  BY <1>1, <1>2 DEF AuthInv, PasswordsWereAskedFor, Includes
<1> QED BY <1>3, <1>4, <1>5 DEF AuthInv

\* Every step keeps the invariant, and what a realm includes it goes on to include.
LEMMA AuthStep ==
  ASSUME AuthInv, [AuthNext]_authVars
  PROVE  /\ AuthInv'
         /\ \A r \in Realms, page \in Pages : Includes(r, page) => Includes(r, page)'
<1> DEFINE Grows == \A r \in Realms, page \in Pages : Includes(r, page) => Includes(r, page)'
<1>1. UNCHANGED realm => Grows
  BY DEF Includes
<1>2. ASSUME NEW w \in AuthWindows, NEW page \in Pages, busy # w, Visit(w, page)
      PROVE  AuthInv' /\ Grows
  BY <1>1, <1>2, RequestIsSound DEF Visit
<1>3. ASSUME NEW w \in AuthWindows, Answer(w)
      PROVE  AuthInv' /\ Grows
  <2> DEFINE s == IF Accepted(w) THEN "shown" ELSE "denied"
  <2>1. win[w].state = "asked" /\ win[w].page \in Pages /\ win \in [AuthWindows -> WinSet]
    BY <1>3 DEF Answer, AuthInv, AskedForIsProtected, AuthTypeOk
  <2>2. ~Accepted(w) => Protects[win[w].page] \in Realms
    BY <2>1, AuthAssumption DEF Accepted
  <2>3. win' = [win EXCEPT ![w].state = s] /\ s \in {"shown", "denied"}
    BY <1>3 DEF Answer
  <2>4. \A v \in AuthWindows : /\ win'[v] \in WinSet
                               /\ win'[v].page = win[v].page /\ win'[v].with = win[v].with
                               /\ win'[v].state = IF v = w THEN s ELSE win[v].state
    <3> HIDE DEF s
    <3>1. \A x \in WinSet : LET y == [x EXCEPT !.state = s] IN
             y \in WinSet /\ y.page = x.page /\ y.with = x.with /\ y.state = s
      BY <2>3 DEF WinSet
    <3>2. \A v \in AuthWindows : win'[v] = IF v = w THEN [win[v] EXCEPT !.state = s] ELSE win[v]
      <4>1. win' = [win EXCEPT ![w] = [win[w] EXCEPT !.state = s]]
        BY <2>3
      <4> QED BY <2>1, <4>1
    <3> QED
      <4> SUFFICES ASSUME NEW v \in AuthWindows
                   PROVE  /\ win'[v] \in WinSet
                          /\ win'[v].page = win[v].page /\ win'[v].with = win[v].with
                          /\ win'[v].state = IF v = w THEN s ELSE win[v].state
        OBVIOUS
      <4>1. win[v] \in WinSet
        BY <2>1
      <4>2. CASE v = w
        BY <3>1, <3>2, <4>1, <4>2
      <4>3. CASE v # w
        BY <3>2, <4>1, <4>3
      <4> QED BY <4>2, <4>3
  <2>5. AuthTypeOk'
    <3>1. win' \in [AuthWindows -> WinSet]
      BY <2>1, <2>3, <2>4
    <3> QED BY <1>3, <3>1 DEF AuthInv, AuthTypeOk, Answer
  <2>6. busy' = (IF ~Accepted(w) /\ busy = NoRealm THEN w ELSE busy) /\ UNCHANGED <<realm, dialog>>
    BY <1>3 DEF Answer
  <2>7. AskedForIsProtected'
    <3>1. \A v \in AuthWindows : \/ win'[v].page \in Pages
                                 \/ win'[v].state = "idle" /\ win'[v].with = NoRealm
      BY <2>1, <2>4 DEF AuthInv, AskedForIsProtected
    <3>2. busy' # NoRealm => win'[busy'].state = "denied" /\ Protects[win'[busy'].page] \in Realms
      <4>1. CASE ~Accepted(w) /\ busy = NoRealm
        BY <2>2, <2>4, <2>6, <4>1
      <4>2. CASE ~(~Accepted(w) /\ busy = NoRealm)
        BY <2>1, <2>4, <2>6, <4>2 DEF AuthInv, AskedForIsProtected, AuthTypeOk
      <4> QED BY <4>1, <4>2
    <3>3. dialog' => busy' # NoRealm
      BY <2>6 DEF AuthInv, AskedForIsProtected
    <3> QED BY <3>1, <3>2, <3>3 DEF AskedForIsProtected
  <2>8. PasswordsWereAskedFor'
    BY <2>4, <2>6 DEF AuthInv, PasswordsWereAskedFor, Includes
  <2> QED BY <1>1, <2>5, <2>6, <2>7, <2>8 DEF AuthInv
<1>4. ASSUME NEW w \in AuthWindows, Reload(w)
      PROVE  AuthInv' /\ Grows
  <2>1. win[w].page \in Pages
    BY <1>4 DEF AuthInv, AskedForIsProtected, Reload
  <2>2. busy # w
    BY <1>4, AuthAssumption DEF AuthInv, AskedForIsProtected, Reload
  <2> QED BY <1>1, <1>4, <2>1, <2>2, RequestIsSound DEF Reload
<1>5. ASSUME AuthCallback
      PROVE  AuthInv' /\ Grows
  <2>1. PICK r : r = Protects[win[busy].page] /\
             \/ /\ realm' = [realm EXCEPT ![r] = AddPath(r, win[busy].page)]
                /\ win' = [win EXCEPT ![busy].state = "reload"]
                /\ busy' = NoRealm /\ UNCHANGED dialog
             \/ AskUser
    BY <1>5 DEF AuthCallback
  <2>2. busy # NoRealm /\ ~dialog /\ win[busy].page \in Pages /\ r \in Realms
    BY <1>5, <2>1 DEF AuthCallback, AuthInv, AskedForIsProtected, AuthTypeOk
  <2>3. CASE AskUser
    BY <1>1, <2>2, <2>3 DEF AskUser, AuthInv, AuthTypeOk, AskedForIsProtected,
       PasswordsWereAskedFor, Includes
  <2>4. CASE ~AskUser
    <3>1. Learns(r, win[busy].page)
      BY <2>1, <2>2, <2>4, AddPathLearns DEF Passwords
    <3>2. dialog' = FALSE
      BY <2>1, <2>2, <2>4 DEF AuthInv, AuthTypeOk
    <3> QED BY <2>1, <2>2, <2>4, <3>1, <3>2, LearningIsSound
  <2> QED BY <2>3, <2>4
<1>6. ASSUME NEW password \in {"right", "wrong"}, DialogOk(password)
      PROVE  AuthInv' /\ Grows
  <2> DEFINE page == win[busy].page
             r == Protects[page]
  <2>1. /\ realm' = [realm EXCEPT ![r] = [AddPath(r, page) EXCEPT !.password = password]]
        /\ win' = [win EXCEPT ![busy].state = "reload"] /\ busy' = NoRealm /\ dialog' = FALSE
        /\ busy # NoRealm
    BY <1>6 DEF DialogOk, AuthInv, AskedForIsProtected
  <2>2. page \in Pages /\ r \in Realms
    BY <2>1 DEF AuthInv, AskedForIsProtected, AuthTypeOk
  <2>3. Learns(r, page)
    <3> HIDE DEF page, r
    <3> QED BY <2>1, <2>2, AddPathLearns DEF Passwords
  <2> QED BY <2>1, <2>2, <2>3, LearningIsSound
<1>7. ASSUME DialogCancel
      PROVE  AuthInv' /\ Grows
  BY <1>1, <1>7 DEF DialogCancel, AuthInv, AuthTypeOk, AskedForIsProtected,
     PasswordsWereAskedFor, Includes
<1>8. ASSUME UNCHANGED authVars
      PROVE  AuthInv' /\ Grows
  BY <1>1, <1>8 DEF authVars, AuthInv, AuthTypeOk, AskedForIsProtected,
     PasswordsWereAskedFor, Includes
<1> QED BY <1>2, <1>3, <1>4, <1>5, <1>6, <1>7, <1>8 DEF AuthNext

\* The initial state has the invariant.
LEMMA AuthStart == AuthInit => AuthInv
<1> SUFFICES ASSUME AuthInit PROVE AuthInv
  OBVIOUS
<1>1. AuthTypeOk
  BY DEF AuthInit, AuthTypeOk, RealmSet, WinSet, Passwords
<1>2. AskedForIsProtected
  BY DEF AuthInit, AskedForIsProtected
<1>3. PasswordsWereAskedFor
  BY DEF AuthInit, PasswordsWereAskedFor
<1> QED BY <1>1, <1>2, <1>3 DEF AuthInv

\* auth.c: a realm never forgets a page, in whatever order answers come, paths are learnt and
\* superfluous ones deleted; and a request carries a password only inside a path that the
\* server has protected with its realm.  For every set of pages, realms and windows.
THEOREM AuthRight == AuthSpec => AuthIsRight
<1>1. AuthInit => AuthInv
  BY AuthStart
<1>2. AuthInv /\ [AuthNext]_authVars => AuthInv'
  BY AuthStep
<1>3. AuthSpec => []AuthInv
  BY <1>1, <1>2, PTL DEF AuthSpec
<1>4. AuthInv => PasswordsWereAskedFor
  BY DEF AuthInv
<1>5. AuthInv /\ [AuthNext]_authVars =>
        [\A r \in Realms, page \in Pages : Includes(r, page) => Includes(r, page)']_authVars
  BY AuthStep
<1> QED BY <1>3, <1>4, <1>5, PTL DEF AuthSpec, AuthIsRight, CoverageGrows

-----------------------------------------------------------------------------
(* Downloads. *)

\* Two neighbouring stretches of the resource are one.
LEMMA PiecesJoin ==
  ASSUME NEW from \in Nat, NEW m \in Nat, NEW n \in Nat
  PROVE  /\ Pieces(from, m) \o Pieces(from + m, n) = Pieces(from, m + n)
         /\ Pieces(from, m) \in Seq(Int) /\ Len(Pieces(from, m)) = m
<1>1. /\ Pieces(from, m) \in Seq(Int) /\ Len(Pieces(from, m)) = m
      /\ Pieces(from + m, n) \in Seq(Int) /\ Len(Pieces(from + m, n)) = n
      /\ Pieces(from, m + n) \in Seq(Int) /\ Len(Pieces(from, m + n)) = m + n
  BY DEF Pieces
<1>2. /\ \A i \in 1 .. m : Pieces(from, m)[i] = Pieces(from, m + n)[i]
      /\ \A i \in 1 .. n : Pieces(from + m, n)[i] = Pieces(from, m + n)[m + i]
  BY DEF Pieces
<1> DEFINE p == Pieces(from, m)
           q == Pieces(from + m, n)
           r == Pieces(from, m + n)
<1>3. /\ p \in Seq(Int) /\ Len(p) = m /\ q \in Seq(Int) /\ Len(q) = n
      /\ r \in Seq(Int) /\ Len(r) = m + n
      /\ \A i \in 1 .. m : p[i] = r[i]
      /\ \A i \in 1 .. n : q[i] = r[m + i]
  BY <1>1, <1>2
<1> HIDE DEF p, q, r
<1>4. /\ p \o q \in Seq(Int) /\ Len(p \o q) = m + n
      /\ \A i \in 1 .. m + n : (p \o q)[i] = IF i <= m THEN p[i] ELSE q[i - m]
  <2>1. p \in Seq(Int) /\ q \in Seq(Int) /\ Len(p) = m /\ Len(q) = n
    BY <1>3
  <2> QED BY <2>1, ConcatProperties
<1>5. \A i \in 1 .. m + n : (p \o q)[i] = r[i]
  <2>1. SUFFICES ASSUME NEW i \in 1 .. m + n
                 PROVE  (p \o q)[i] = r[i]
    OBVIOUS
  <2>2. CASE i <= m
    BY <1>3, <1>4, <2>2
  <2>3. CASE ~(i <= m)
    <3>1. PICK k \in 1 .. n : k = i - m
      BY <2>3
    <3>2. i = m + k /\ ~(i <= m)
      BY <2>3, <3>1
    <3>3. (p \o q)[i] = q[k]
      BY <1>4, <3>1, <3>2
    <3>4. q[k] = r[m + k]
      BY <1>3
    <3> QED BY <3>2, <3>3, <3>4
  <2> QED BY <2>2, <2>3
<1>6. p \o q = r
  <2>1. r \in Seq(Int) /\ Len(r) = m + n
    BY <1>3
  <2> QED BY <1>4, <1>5, <2>1, SeqEqual
<1> QED BY <1>1, <1>6 DEF p, q, r

\* The types of the variables of Download.
DownloadTypeOk ==
  /\ window \in [Downloads -> {"none", "shown", "hidden", "given", "deleted"}]
  /\ driving \in [Downloads -> BOOLEAN] /\ cleaning \in [Downloads -> BOOLEAN]
  /\ running \in [Downloads -> {0, 1}] /\ closes \in [Downloads -> BOOLEAN]
  /\ offset \in [Downloads -> Nat] /\ got \in [Downloads -> Nat]
  /\ buffer \in [Downloads -> Seq(Int)] /\ saved \in Seq(Int)
  /\ alert \in Downloads \cup {0}

\* A window has its timeouts, or has been hidden and given away; an alert is a failure's.
TimeoutsAreOf(d) ==
  /\ cleaning[d] => window[d] \in {"shown", "hidden"}
  /\ driving[d] => d \in failed \/ window[d] \in {"shown", "hidden", "given"}
  /\ alert = d => d \in failed

\* What stdio has not written goes on where the file ends, and what libcurl will pass on
\* goes on where that ends.
GoesOn(d) ==
  /\ ~HasWindow(d) => buffer[d] = <<>>
  /\ window[d] = "none" => got[d] = 0
  /\ HasWindow(d) => /\ buffer[d] = Pieces(Len(saved), Len(buffer[d]))
                     /\ offset[d] + got[d] = Len(saved) + Len(buffer[d])

\* The user waits for a window to be deleted.
OneWindow == \A d, e \in Downloads : HasWindow(d) /\ HasWindow(e) => d = e

\* The inductive invariant of Download.
DownloadInv ==
  /\ DownloadTypeOk
  /\ \A d \in Downloads : TimeoutsAreOf(d)
  /\ Patient => OneWindow /\ FileIsBeginning /\ \A d \in Downloads : GoesOn(d)

\* The initial state has the invariant.
LEMMA DownloadStart == DownloadInit => DownloadInv
<1> SUFFICES ASSUME DownloadInit PROVE DownloadInv
  OBVIOUS
<1>1. DownloadTypeOk
  BY DEF DownloadInit, DownloadTypeOk
<1>2. \A d \in Downloads : TimeoutsAreOf(d)
  BY DownloadAssumption DEF DownloadInit, TimeoutsAreOf
<1>3. OneWindow /\ \A d \in Downloads : GoesOn(d)
  BY DEF DownloadInit, OneWindow, GoesOn, HasWindow
<1>4. FileIsBeginning
  BY DEF DownloadInit, FileIsBeginning, Pieces
<1> QED BY <1>1, <1>2, <1>3, <1>4 DEF DownloadInv

\* A step of one download leaves those of the others.
LEMMA OthersKeepTimeouts ==
  ASSUME DownloadInv, NEW d \in Downloads,
         \A e \in Downloads \ {d} : /\ cleaning'[e] = cleaning[e] /\ driving'[e] = driving[e]
                                    /\ window'[e] = window[e],
         failed \subseteq failed', alert' \in {0, d, alert}, TimeoutsAreOf(d)'
  PROVE  (\A e \in Downloads : TimeoutsAreOf(e))'
<1> SUFFICES ASSUME NEW e \in Downloads, e # d
             PROVE  TimeoutsAreOf(e)'
  OBVIOUS
<1>1. TimeoutsAreOf(e)
  BY DEF DownloadInv
<1> QED BY <1>1, DownloadAssumption DEF TimeoutsAreOf

\* Types and timeouts.
LEMMA DownloadStepTimeouts ==
  ASSUME DownloadInv, [DownloadNext]_downloadVars
  PROVE  (DownloadTypeOk /\ \A d \in Downloads : TimeoutsAreOf(d))'
<1> DEFINE Good == DownloadTypeOk /\ \A e \in Downloads : TimeoutsAreOf(e)
<1> USE DownloadAssumption
<1>1. ASSUME NEW d \in Downloads, Start(d)
      PROVE  Good'
  <2>1. DownloadTypeOk'
    <3>1. Len(saved) \in Nat
      BY DEF DownloadInv, DownloadTypeOk
    <3>2. offset' \in [Downloads -> Nat] /\ running' \in [Downloads -> {0, 1}]
          /\ closes' \in [Downloads -> BOOLEAN]
      BY ZenonT(30), <1>1, <3>1 DEF Start, DownloadInv, DownloadTypeOk
    <3> QED BY <1>1, <3>2 DEF Start, DownloadInv, DownloadTypeOk
  <2>2. TimeoutsAreOf(d)'
    BY <1>1 DEF Start, DownloadInv, DownloadTypeOk, TimeoutsAreOf
  <2> QED BY <1>1, <2>1, <2>2, OthersKeepTimeouts DEF Start, DownloadInv, DownloadTypeOk
<1>2. ASSUME NEW d \in Downloads, StartFails(d)
      PROVE  Good'
  <2>1. DownloadTypeOk'
    BY <1>2 DEF StartFails, DownloadInv, DownloadTypeOk
  <2>2. TimeoutsAreOf(d)'
    BY <1>2 DEF StartFails, Fails, DownloadInv, DownloadTypeOk, TimeoutsAreOf
  <2> QED BY <1>2, <2>1, <2>2, OthersKeepTimeouts DEF StartFails, Fails, DownloadInv, DownloadTypeOk
<1>3. ASSUME NEW d \in Downloads, CloseWindow(d)
      PROVE  Good'
  <2>1. DownloadTypeOk'
    BY <1>3 DEF CloseWindow, DownloadInv, DownloadTypeOk
  <2>2. TimeoutsAreOf(d)'
    BY <1>3 DEF CloseWindow, DownloadInv, DownloadTypeOk, TimeoutsAreOf
  <2> QED BY <1>3, <2>1, <2>2, OthersKeepTimeouts DEF CloseWindow, DownloadInv, DownloadTypeOk
<1>4. ASSUME NEW d \in Downloads, Check(d)
      PROVE  Good'
  <2>1. DownloadTypeOk'
    BY <1>4 DEF Check, DownloadInv, DownloadTypeOk
  <2> QED BY <1>4, <2>1 DEF Check, DownloadInv, TimeoutsAreOf
<1>5. ASSUME NEW d \in Downloads, DownloadCallback(d)
      PROVE  Good'
  <2>0. /\ driving[d] /\ HasWindow(d) /\ UNCHANGED <<cleaning, closes, offset, saved>>
        /\ DownloadTypeOk /\ TimeoutsAreOf(d)
    BY <1>5 DEF DownloadCallback, DownloadInv
  <2>1. CASE running[d] = 0 /\ Complete(d) /\ UNCHANGED <<driving, failed>>
    <3>1. DownloadTypeOk'
      BY <2>0, <2>1 DEF Complete, DownloadTypeOk
    <3>2. TimeoutsAreOf(d)'
      BY <2>0, <2>1 DEF Complete, DownloadTypeOk, TimeoutsAreOf
    <3> QED BY <2>0, <2>1, <3>1, <3>2, OthersKeepTimeouts DEF Complete, DownloadTypeOk
  <2>2. CASE running[d] # 0 /\ Perform(d) /\ UNCHANGED <<window, driving, alert, failed>>
    <3>1. PICK n \in 0 .. Whole - offset[d] - got[d] :
            /\ got' = [got EXCEPT ![d] = @ + n]
            /\ buffer' = [buffer EXCEPT ![d] = @ \o Pieces(offset[d] + got[d], n)]
            /\ running' \in {[running EXCEPT ![d] = r] : r \in {0, 1}}
      BY <2>2 DEF Perform
    <3>2. n \in Nat /\ offset[d] + got[d] \in Nat /\ buffer[d] \in Seq(Int)
      BY <2>0 DEF DownloadTypeOk
    <3>3. Pieces(offset[d] + got[d], n) \in Seq(Int)
      BY <3>2, PiecesJoin
    <3>4. buffer' \in [Downloads -> Seq(Int)]
      <4> DEFINE more == Pieces(offset[d] + got[d], n)
      <4> HIDE DEF more
      <4>1. buffer[d] \o more \in Seq(Int)
        BY <3>2, <3>3 DEF more
      <4>2. buffer' = [buffer EXCEPT ![d] = buffer[d] \o more]
        BY <3>1 DEF more
      <4> QED BY <2>0, <4>1, <4>2 DEF DownloadTypeOk
    <3>5. got' \in [Downloads -> Nat] /\ running' \in [Downloads -> {0, 1}]
      <4>1. got[d] + n \in Nat
        BY <2>0, <3>2 DEF DownloadTypeOk
      <4> QED BY <2>0, <3>1, <4>1 DEF DownloadTypeOk
    <3>6. DownloadTypeOk'
      BY <2>0, <2>2, <3>4, <3>5 DEF DownloadTypeOk
    <3> QED BY <2>0, <2>2, <3>6 DEF DownloadInv, TimeoutsAreOf
  <2>3. CASE /\ running[d] # 0 /\ Fails(d) /\ alert = 0
             /\ alert' = d
             /\ driving' = [driving EXCEPT ![d] = FALSE]
             /\ UNCHANGED <<window, got, buffer, running>>
    <3>1. DownloadTypeOk'
      BY <2>0, <2>3 DEF DownloadTypeOk
    <3>2. TimeoutsAreOf(d)'
      BY <2>0, <2>3 DEF Fails, DownloadTypeOk, TimeoutsAreOf
    <3> QED BY <2>0, <2>3, <3>1, <3>2, OthersKeepTimeouts DEF Fails, DownloadTypeOk
  <2> QED BY <1>5, <2>1, <2>2, <2>3 DEF DownloadCallback
<1>6. ASSUME NEW d \in Downloads, CleanupWindow(d)
      PROVE  Good'
  <2>1. DownloadTypeOk'
    BY <1>6 DEF CleanupWindow, DownloadInv, DownloadTypeOk
  <2>2. TimeoutsAreOf(d)'
    BY <1>6 DEF CleanupWindow, DownloadInv, DownloadTypeOk, TimeoutsAreOf
  <2> QED BY <1>6, <2>1, <2>2, OthersKeepTimeouts DEF CleanupWindow, DownloadInv, DownloadTypeOk
<1>7. ASSUME NEW d \in Downloads, Delete(d)
      PROVE  Good'
  <2>0. saved' \in Seq(Int) /\ buffer' \in [Downloads -> Seq(Int)]
    BY <1>7 DEF Delete, DownloadInv, DownloadTypeOk
  <2>1. DownloadTypeOk'
    BY <1>7, <2>0 DEF Delete, DownloadInv, DownloadTypeOk
  <2>2. TimeoutsAreOf(d)'
    BY <1>7 DEF Delete, DownloadInv, DownloadTypeOk, TimeoutsAreOf
  <2> QED BY <1>7, <2>1, <2>2, OthersKeepTimeouts DEF Delete, DownloadInv, DownloadTypeOk
<1>8. ASSUME NEW d \in Downloads, Flush(d)
      PROVE  Good'
  <2>0. saved' \in Seq(Int) /\ buffer' \in [Downloads -> Seq(Int)]
    BY <1>8 DEF Flush, DownloadInv, DownloadTypeOk
  <2>1. DownloadTypeOk'
    BY <1>8, <2>0 DEF Flush, DownloadInv, DownloadTypeOk
  <2> QED BY <1>8, <2>1 DEF Flush, DownloadInv, TimeoutsAreOf
<1>9. ASSUME AlertEnds
      PROVE  Good'
  <2>1. DownloadTypeOk'
    BY <1>9 DEF AlertEnds, DownloadInv, DownloadTypeOk
  <2>2. PICK d \in Downloads : d = alert
    BY <1>9 DEF AlertEnds, DownloadInv, DownloadTypeOk
  <2>3. TimeoutsAreOf(d)'
    BY <1>9, <2>2 DEF AlertEnds, DownloadInv, DownloadTypeOk, TimeoutsAreOf
  <2> QED BY <1>9, <2>1, <2>2, <2>3, OthersKeepTimeouts DEF AlertEnds, DownloadInv, DownloadTypeOk
<1>10. ASSUME UNCHANGED downloadVars
       PROVE  Good'
  BY <1>10 DEF downloadVars, DownloadInv, DownloadTypeOk, TimeoutsAreOf
<1> QED BY <1>1, <1>2, <1>3, <1>4, <1>5, <1>6, <1>7, <1>8, <1>9, <1>10 DEF DownloadNext

\* A step that opens and deletes no window, and neither reads nor writes, leaves the file.
LEMMA FileStays ==
  ASSUME DownloadInv, Patient, UNCHANGED <<buffer, got, offset, saved>>,
         \A d \in Downloads : /\ HasWindow(d)' = HasWindow(d)
                              /\ window'[d] = "none" => window[d] = "none"
  PROVE  (OneWindow /\ FileIsBeginning /\ \A d \in Downloads : GoesOn(d))'
BY DEF DownloadInv, OneWindow, FileIsBeginning, GoesOn

\* What stdio had not written goes to the end of the file.
LEMMA FileGrows ==
  ASSUME DownloadInv, Patient, NEW d \in Downloads, HasWindow(d),
         saved' = saved \o buffer[d], buffer' = [buffer EXCEPT ![d] = <<>>],
         UNCHANGED <<got, offset>>,
         \A e \in Downloads \ {d} : window'[e] = window[e],
         window'[d] \in {window[d], "deleted"}
  PROVE  (OneWindow /\ FileIsBeginning /\ \A e \in Downloads : GoesOn(e))'
<1> DEFINE m == Len(saved)
           n == Len(buffer[d])
<1>1. /\ m \in Nat /\ n \in Nat /\ saved = Pieces(0, m) /\ buffer[d] = Pieces(m, n)
      /\ saved \in Seq(Int) /\ buffer[d] \in Seq(Int)
      /\ offset[d] + got[d] = m + n
  BY DEF DownloadInv, DownloadTypeOk, FileIsBeginning, GoesOn
<1>2. Len(saved') = m + n
  BY <1>1
<1> HIDE DEF m, n
<1>3. saved' = Pieces(0, m + n)
  <2>1. Pieces(0, m) \o Pieces(0 + m, n) = Pieces(0, m + n) /\ 0 + m = m
    <3> DEFINE z == 0
    <3>1. z \in Nat /\ z + m = m
      BY <1>1
    <3> HIDE DEF z
    <3>2. Pieces(z, m) \o Pieces(z + m, n) = Pieces(z, m + n)
      BY <1>1, <3>1, PiecesJoin
    <3> QED BY <3>1, <3>2 DEF z
  <2> QED BY <1>1, <2>1
<1>4. FileIsBeginning'
  BY <1>2, <1>3 DEF FileIsBeginning
<1>5. OneWindow'
  BY DEF DownloadInv, OneWindow, HasWindow
<1>6. /\ buffer'[d] = <<>> /\ Len(buffer'[d]) = 0
      /\ \A e \in Downloads \ {d} : buffer'[e] = buffer[e]
  BY DEF DownloadInv, DownloadTypeOk
<1>7. \A e \in Downloads \ {d} : ~HasWindow(e) /\ ~HasWindow(e)'
  BY DEF DownloadInv, OneWindow, HasWindow
<1>8. (\A e \in Downloads : GoesOn(e))'
  <2>1. SUFFICES ASSUME NEW e \in Downloads
                 PROVE  GoesOn(e)'
    OBVIOUS
  <2>2. CASE e # d
    <3>1. GoesOn(e)
      BY DEF DownloadInv
    <3> QED BY <1>6, <1>7, <2>2, <3>1 DEF GoesOn
  <2>3. CASE e = d
    <3>1. buffer'[d] = Pieces(Len(saved'), Len(buffer'[d]))
      BY <1>6 DEF Pieces
    <3>2. offset'[d] + got'[d] = Len(saved') + Len(buffer'[d])
      <4>1. offset'[d] + got'[d] = m + n /\ m + n \in Nat
        BY <1>1
      <4> QED BY <1>2, <1>6, <4>1
    <3>3. window'[d] # "none"
      BY DEF HasWindow
    <3> QED BY <1>6, <2>3, <3>1, <3>2, <3>3 DEF GoesOn
  <2> QED BY <2>2, <2>3
<1> QED BY <1>4, <1>5, <1>8

\* The file and the positions, when the user is patient.
LEMMA DownloadStepFile ==
  ASSUME DownloadInv, [DownloadNext]_downloadVars, Patient
  PROVE  (OneWindow /\ FileIsBeginning /\ \A d \in Downloads : GoesOn(d))'
<1> DEFINE Good == OneWindow /\ FileIsBeginning /\ \A e \in Downloads : GoesOn(e)
<1>0. DownloadTypeOk /\ OneWindow /\ FileIsBeginning /\ \A e \in Downloads : GoesOn(e)
  BY DEF DownloadInv
<1>1. ASSUME NEW d \in Downloads, Start(d)
      PROVE  Good'
  <2>1. \A e \in Downloads : ~HasWindow(e)
    BY <1>1 DEF Start, Wish, Started, HasWindow
  <2>2. \A e \in Downloads \ {d} : window'[e] = window[e] /\ offset'[e] = offset[e]
    BY <1>0, <1>1 DEF Start, DownloadTypeOk
  <2>3. OneWindow'
    BY <2>1, <2>2 DEF OneWindow, HasWindow
  <2>4. UNCHANGED <<got, buffer, saved>>
    BY <1>1 DEF Start
  <2>5. FileIsBeginning'
    BY <1>0, <2>4 DEF FileIsBeginning
  <2>6. GoesOn(d)'
    <3>1. window[d] = "none" /\ buffer[d] = <<>> /\ got[d] = 0
      BY <1>0, <1>1, <2>1 DEF Start, GoesOn
    <3>2. offset'[d] = Len(saved) /\ window'[d] = "shown" /\ Len(saved) \in Nat
      BY <1>0, <1>1 DEF Start, DownloadTypeOk
    <3>3. buffer'[d] = Pieces(Len(saved'), Len(buffer'[d])) /\ Len(buffer'[d]) = 0
      BY <2>4, <3>1 DEF Pieces
    <3> QED BY <2>4, <3>1, <3>2, <3>3 DEF GoesOn, HasWindow
  <2>7. \A e \in Downloads \ {d} : GoesOn(e)'
    BY <1>0, <2>1, <2>2, <2>4 DEF GoesOn, HasWindow
  <2> QED BY <2>3, <2>5, <2>6, <2>7
<1>2. ASSUME NEW d \in Downloads, StartFails(d)
      PROVE  Good'
  <2>1. \A e \in Downloads : ~HasWindow(e)
    BY <1>2 DEF StartFails, Wish, Started, HasWindow
  <2>2. \A e \in Downloads \ {d} : window'[e] = window[e] /\ offset'[e] = offset[e]
    BY <1>0, <1>2 DEF StartFails, DownloadTypeOk
  <2>3. OneWindow'
    BY <2>1, <2>2 DEF OneWindow, HasWindow
  <2>4. UNCHANGED <<got, buffer, saved>>
    BY <1>2 DEF StartFails
  <2>5. FileIsBeginning'
    BY <1>0, <2>4 DEF FileIsBeginning
  <2>6. GoesOn(d)'
    <3>1. window[d] = "none" /\ buffer[d] = <<>> /\ got[d] = 0
      BY <1>0, <1>2, <2>1 DEF StartFails, GoesOn
    <3>2. offset'[d] = Len(saved) /\ window'[d] = "hidden" /\ Len(saved) \in Nat
      BY <1>0, <1>2 DEF StartFails, DownloadTypeOk
    <3>3. buffer'[d] = Pieces(Len(saved'), Len(buffer'[d])) /\ Len(buffer'[d]) = 0
      BY <2>4, <3>1 DEF Pieces
    <3> QED BY <2>4, <3>1, <3>2, <3>3 DEF GoesOn, HasWindow
  <2>7. \A e \in Downloads \ {d} : GoesOn(e)'
    BY <1>0, <2>1, <2>2, <2>4 DEF GoesOn, HasWindow
  <2> QED BY <2>3, <2>5, <2>6, <2>7
<1>3. ASSUME NEW d \in Downloads, CloseWindow(d) \/ Check(d) \/ CleanupWindow(d)
      PROVE  Good'
  <2>1. \A e \in Downloads : /\ HasWindow(e)' = HasWindow(e)
                             /\ window'[e] = "none" => window[e] = "none"
    <3>1. cleaning[d] => window[d] \in {"shown", "hidden"}
      BY DEF DownloadInv, TimeoutsAreOf
    <3> QED BY <1>0, <1>3, <3>1 DEF CloseWindow, Check, CleanupWindow, HasWindow, DownloadTypeOk
  <2> QED BY <1>3, <2>1, FileStays DEF CloseWindow, Check, CleanupWindow
<1>4. ASSUME NEW d \in Downloads, DownloadCallback(d)
      PROVE  Good'
  <2>0. HasWindow(d) /\ UNCHANGED <<offset, saved>>
    BY <1>4 DEF DownloadCallback
  <2>1. CASE UNCHANGED <<got, buffer>> /\ (Complete(d) \/ UNCHANGED window)
    <3>1. \A e \in Downloads : /\ HasWindow(e)' = HasWindow(e)
                               /\ window'[e] = "none" => window[e] = "none"
      BY <1>0, <2>1 DEF Complete, HasWindow, DownloadTypeOk
    <3> QED BY <2>0, <2>1, <3>1, FileStays
  <2>2. CASE Perform(d) /\ UNCHANGED window
    <3>1. PICK n \in 0 .. Whole - offset[d] - got[d] :
            /\ got' = [got EXCEPT ![d] = @ + n]
            /\ buffer' = [buffer EXCEPT ![d] = @ \o Pieces(offset[d] + got[d], n)]
      BY <2>2 DEF Perform
    <3> DEFINE m == Len(saved)
               k == Len(buffer[d])
    <3>2. /\ m \in Nat /\ k \in Nat /\ n \in Nat /\ got[d] \in Nat /\ offset[d] \in Nat
          /\ buffer[d] = Pieces(m, k) /\ offset[d] + got[d] = m + k
      BY <1>0, <2>0 DEF DownloadTypeOk, GoesOn
    <3>3. /\ buffer'[d] = buffer[d] \o Pieces(m + k, n) /\ got'[d] = got[d] + n
          /\ \A e \in Downloads \ {d} : buffer'[e] = buffer[e] /\ got'[e] = got[e]
      BY <1>0, <3>1, <3>2 DEF DownloadTypeOk
    <3>4. m' = m /\ offset'[d] = offset[d]
      BY <2>0
    <3> HIDE DEF m, k
    <3>5. buffer'[d] = Pieces(m, k + n) /\ Len(buffer'[d]) = k + n
      <4>1. Pieces(m, k) \o Pieces(m + k, n) = Pieces(m, k + n)
        BY <3>2, PiecesJoin
      <4>2. buffer'[d] = Pieces(m, k + n)
        BY <3>2, <3>3, <4>1
      <4>3. k + n \in Nat
        BY <3>2
      <4> DEFINE j == k + n
      <4> HIDE DEF j
      <4>4. Len(Pieces(m, j)) = j
        BY <3>2, <4>3, PiecesJoin DEF j
      <4> QED BY <4>2, <4>4 DEF j
    <3>6. GoesOn(d)'
      <4>1. HasWindow(d)' /\ window'[d] # "none"
        BY <2>0, <2>2 DEF HasWindow
      <4>2. buffer'[d] = Pieces(Len(saved'), Len(buffer'[d]))
        BY <3>4, <3>5 DEF m
      <4>3. offset'[d] + got'[d] = Len(saved') + Len(buffer'[d])
        <5>1. offset'[d] + got'[d] = m + (k + n)
          <6>1. offset'[d] + got'[d] = offset[d] + (got[d] + n)
            BY <3>3, <3>4
          <6> DEFINE o == offset[d]
                     g == got[d]
          <6>2. o \in Nat /\ g \in Nat /\ o + g = m + k
            BY <3>2
          <6> HIDE DEF o, g
          <6>3. o + (g + n) = m + (k + n)
            BY <3>2, <6>2
          <6> QED BY <6>1, <6>3 DEF o, g
        <5> QED BY <3>4, <3>5, <5>1 DEF m
      <4> QED BY <4>1, <4>2, <4>3 DEF GoesOn
    <3>7. \A e \in Downloads \ {d} : GoesOn(e)'
      BY <1>0, <2>0, <2>2, <3>3 DEF GoesOn, HasWindow
    <3>8. OneWindow' /\ FileIsBeginning'
      BY <1>0, <2>0, <2>2 DEF OneWindow, HasWindow, FileIsBeginning
    <3> QED BY <3>6, <3>7, <3>8
  <2> QED BY <1>4, <2>1, <2>2 DEF DownloadCallback, Complete
<1>5. ASSUME NEW d \in Downloads, Flush(d)
      PROVE  Good'
  BY <1>5, FileGrows DEF Flush
<1>6. ASSUME NEW d \in Downloads, Delete(d)
      PROVE  Good'
  <2>1. HasWindow(d) /\ window'[d] = "deleted" /\ \A e \in Downloads \ {d} : window'[e] = window[e]
    BY <1>0, <1>6 DEF Delete, HasWindow, DownloadTypeOk
  <2> QED BY <1>6, <2>1, FileGrows DEF Delete
<1>7. ASSUME AlertEnds
      PROVE  Good'
  <2>1. \A e \in Downloads : /\ HasWindow(e)' = HasWindow(e)
                             /\ window'[e] = "none" => window[e] = "none"
    BY <1>0, <1>7 DEF AlertEnds, HasWindow, DownloadTypeOk
  <2> QED BY <1>7, <2>1, FileStays DEF AlertEnds
<1>8. ASSUME UNCHANGED downloadVars
      PROVE  Good'
  BY <1>0, <1>8 DEF downloadVars, OneWindow, HasWindow, FileIsBeginning, GoesOn
<1> QED BY <1>1, <1>2, <1>3, <1>4, <1>5, <1>6, <1>7, <1>8 DEF DownloadNext

\* download.cc: neither a timeout nor an interrupted main loop uses a window that is deleted
\* (but that of a download with which libcurl itself has failed), and however often a
\* download is cancelled and resumed the file is the beginning of the resource, each piece
\* once.  For every number of downloads and any resource; the user resumes a file only when
\* its old window is gone.
THEOREM DownloadsRight ==
  ASSUME Patient
  PROVE  DownloadSpec => []DownloadsAreRight
<1>1. DownloadInit => DownloadInv
  BY DownloadStart
<1>2. DownloadInv /\ [DownloadNext]_downloadVars => DownloadInv'
  BY DownloadStepTimeouts, DownloadStepFile DEF DownloadInv
<1>3. DownloadInv => DownloadsAreRight
  <2>1. SUFFICES ASSUME DownloadInv
                 PROVE  DownloadsAreRight
    OBVIOUS
  <2>2. NoUseAfterDelete
    BY <2>1 DEF DownloadInv, TimeoutsAreOf, NoUseAfterDelete
  <2> QED BY <2>1, <2>2 DEF DownloadInv, DownloadsAreRight
<1> QED BY <1>1, <1>2, <1>3, PTL DEF DownloadSpec

\* The same without a condition on the user: no timeout and no main loop uses a window that
\* is deleted.
THEOREM WindowsSafe == DownloadSpec => []NoUseAfterDelete
<1>1. DownloadInit => DownloadInv
  BY DownloadStart
<1>2. DownloadInv /\ [DownloadNext]_downloadVars => DownloadInv'
  BY DownloadStepTimeouts, DownloadStepFile DEF DownloadInv
<1>3. DownloadInv => NoUseAfterDelete
  BY DEF DownloadInv, TimeoutsAreOf, NoUseAfterDelete
<1> QED BY <1>1, <1>2, <1>3, PTL DEF DownloadSpec
=============================================================================
