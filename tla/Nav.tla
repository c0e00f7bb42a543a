-------------------------------- MODULE Nav ---------------------------------
(***************************************************************************)
(* Navigation: src/src/nav.c over the window structure of bw.c, the history *)
(* list of history.c, the commands of uicmd.cc and the history menu of       *)
(* menu.cc.  A window has a stack of URLs with a pointer, the URL it expects  *)
(* (recorded when its data arrives, by a_Web_dispatch_by_type), at most one   *)
(* root client, and the state of a zero-delay META refresh.                  *)
(*                                                                         *)
(* Work that must wait for the current calls to return (repush, reload,     *)
(* refresh) is a timeout of delay 0, kept in timeouts with its window.  A    *)
(* window is its address: a closed one may be opened again.  The stack holds *)
(* history indexes in the code; a_History_add_url gives one index to one     *)
(* (URL, fragment), so the model holds the URLs.  Each root client has a     *)
(* connection of its own here (module Cache has those that share one).       *)
(***************************************************************************)
EXTENDS Integers, Sequences, SequencesExt

CONSTANTS NavWindows,
          NavPages,       \* URLs without fragment: what a_Url_cmp compares
          Fragments,
          MaxStack,    \* bound on the length of a navigation stack
          MaxTimeouts, \* bound on the pending timeouts
          None         \* the NULL pointer

ASSUME NavBounds == MaxStack \in Nat \ {0} /\ MaxTimeouts \in Nat

Urls == [page : NavPages, frag : Fragments]
SamePage(u, v) == u.page = v.page

\* How an expected URL is flagged: plain, URL_E2EQuery (a META refresh or a 302),
\* URL_ReloadFromCache, URL_ReloadPage with URL_E2EQuery.
Ways == {"push", "e2e", "repush", "reload"}
Forced(way) == way # "push"

\* A client of a page, and a window (a_Bw_new).  status and refresh:
\* meta_refresh_status and meta_refresh_url; shown: the page of the layout; asker: the
\* page that asked for the refresh.
Roots == [url : Urls, st : {"waiting", "shown"}]
Bws == [stack : Seq(Urls), ptr : Int, expect : [url : Urls, way : Ways] \cup {None},
        root : Roots \cup {None}, status : 0..2,
        refresh : Urls \cup {None}, shown : Urls \cup {None}, asker : Urls \cup {None}]

ASSUME NavNone == None \notin Urls \cup Roots \cup Bws

VARIABLES bw,        \* the open windows, by address; None: freed
          timeouts,  \* pending timeouts <<callback, window>>, oldest first
          menu       \* the history menu that is popped up, or None

navVars == <<bw, timeouts, menu>>

NewBw == [stack |-> <<>>, ptr |-> -1, expect |-> None, root |-> None,
          status |-> 0, refresh |-> None, shown |-> None, asker |-> None]

NavInit ==
    /\ bw = [w \in NavWindows |-> None]
    /\ timeouts = <<>>
    /\ menu = None

Open == {w \in NavWindows : bw[w] # None}
Size(b) == Len(b.stack)
InStack(b, i) == 0 <= i /\ i < Size(b)
Entry(b, i) == IF InStack(b, i) THEN b.stack[i + 1] ELSE None
Top(b) == Entry(b, b.ptr)

----------------------------------------------------------------------------
(* The functions of nav.c, from a window to a window. *)

MovePtr(b, offset) == IF InStack(b, b.ptr + offset) THEN [b EXCEPT !.ptr = @ + offset] ELSE b

\* Nav_stack_truncate and Nav_stack_append.
Append1(b, u) == [b EXCEPT !.stack = Append(SubSeq(@, 1, b.ptr + 1), u)]

\* Seeded bug: the pointer stays at the entry that was removed.
Mut_CleanPtr(b) ==
    LET n == Size(b) IN
    IF n >= 2 /\ Entry(b, n - 2) = Entry(b, n - 1)
    THEN [b EXCEPT !.stack = Front(@)]
    ELSE b

\* Nav_stack_clean looks at the two last entries, wherever the pointer is.
Forget(b) ==
    LET n == Size(b) IN
    IF n >= 2 /\ Entry(b, n - 2) = Entry(b, n - 1)
    THEN [b EXCEPT !.stack = Front(@), !.ptr = IF @ >= n - 1 THEN n - 2 ELSE @]
    ELSE b

\* a_Nav_cancel_expect: a refresh that is on its way is no longer wanted (2 to 1).
Cancel(b) == [b EXCEPT !.expect = None, !.status = IF @ > 0 THEN @ - 1 ELSE @]

CancelIfEq(b, u) ==
    IF b.expect # None /\ SamePage(b.expect.url, u) THEN Cancel(b) ELSE b

Expect(b, u, way) == [b EXCEPT !.expect = [url |-> u, way |-> way]]

\* Nav_open_url: the pointer moves, and unless the page at the old pointer is asked
\* for, the clients of the window are stopped and a root client is opened.
OpenUrl(b, u, way, offset) ==
    LET old == Top(b)
        m == MovePtr(b, offset)
    IN  IF Forced(way) \/ old = None \/ old # u
        THEN [m EXCEPT !.root = [url |-> u, st |-> "waiting"]]
        ELSE m

\* a_Nav_push: nothing when the URL is expected already (a double click).
Push(b, u, way) ==
    IF b.expect # None /\ b.expect.url = u THEN b
    ELSE OpenUrl(Expect(Cancel(b), u, way), u, way, 0)

\* a_Nav_expect_done: the expected URL is recorded, unless it is there already.
ExpectDone(b) ==
    Forget(IF b.expect = None THEN b
          ELSE Cancel(IF b.expect.way \in {"repush", "reload"} THEN b
                      ELSE MovePtr(Append1(b, b.expect.url), 1)))

Again(b, way) ==
    IF Size(b) = 0 THEN Cancel(b)
    ELSE OpenUrl(Expect(Cancel(b), Top(b), way), Top(b), way, 0)

----------------------------------------------------------------------------
(* Commands of the user, taken when no menu is popped up. *)

Fits(b) == b.ptr + 2 <= MaxStack
SetBw(w, b) == bw' = [bw EXCEPT ![w] = b]

NewWindow(w) ==
    /\ menu = None /\ bw[w] = None
    /\ SetBw(w, NewBw)
    /\ UNCHANGED <<timeouts, menu>>

\* a_UIcmd_close_bw: the clients are stopped, the pending timeouts are not.
CloseWindow(w) ==
    /\ menu = None /\ bw[w] # None
    /\ SetBw(w, None)
    /\ UNCHANGED <<timeouts, menu>>

\* a_UIcmd_open_url, a link, the location bar or the home button.
OpenLink(w, u) ==
    /\ menu = None /\ bw[w] # None /\ Fits(bw[w])
    /\ SetBw(w, Push(bw[w], u, "push"))
    /\ UNCHANGED <<timeouts, menu>>

Back(w) ==
    /\ menu = None /\ bw[w] # None /\ bw[w].ptr > 0
    /\ SetBw(w, OpenUrl(Cancel(bw[w]), Entry(bw[w], bw[w].ptr - 1), "push", -1))
    /\ UNCHANGED <<timeouts, menu>>

\* The button is insensitive while a URL is expected, the key is not.
Forw(w) ==
    /\ menu = None /\ bw[w] # None /\ bw[w].ptr + 1 < Size(bw[w])
    /\ SetBw(w, OpenUrl(Cancel(bw[w]), Entry(bw[w], bw[w].ptr + 1), "push", 1))
    /\ UNCHANGED <<timeouts, menu>>

\* a_UIcmd_stop.
Stop(w) ==
    /\ menu = None /\ bw[w] # None
    /\ SetBw(w, [Cancel(bw[w]) EXCEPT !.root = None])
    /\ UNCHANGED <<timeouts, menu>>

AddTimeout(cb, w) ==
    /\ Len(timeouts) < MaxTimeouts
    /\ timeouts' = Append(timeouts, <<cb, w>>)

\* a_Nav_reload (the button) and a_Nav_repush (a preference of the menu).
AskAgain(w, cb) ==
    /\ menu = None /\ bw[w] # None
    /\ AddTimeout(cb, w)
    /\ UNCHANGED <<bw, menu>>

\* a_Menu_history_popup: the URLs behind or ahead, nearest first, as they are now.
History(b, dir) ==
    [j \in 1..(IF dir < 0 THEN b.ptr ELSE Size(b) - 1 - b.ptr) |-> Entry(b, b.ptr + dir * j)]

HistoryPopup(w, dir) ==
    /\ menu = None /\ bw[w] # None /\ Len(History(bw[w], dir)) > 0
    /\ menu' = [win |-> w, dir |-> dir, list |-> History(bw[w], dir)]
    /\ UNCHANGED <<bw, timeouts>>

Offset(m, j) == m.dir * j

\* Menu_history_cb and a_Nav_jump.  An offset that leads out of the stack gives a
\* NULL URL, which Nav_open_url dereferences: the process ends there.
Jump(j) ==
    /\ menu # None /\ j \in DOMAIN menu.list
    /\ LET b == bw[menu.win]
           to == Entry(b, b.ptr + Offset(menu, j))
       IN  /\ to # None
           /\ SetBw(menu.win, OpenUrl(Cancel(b), to, "push", Offset(menu, j)))
    /\ menu' = None
    /\ UNCHANGED timeouts

Dismiss ==
    /\ menu # None /\ menu' = None
    /\ UNCHANGED <<bw, timeouts>>

----------------------------------------------------------------------------
(* The answers of the network.  They come while a menu is up, too. *)

Loading(w, st) == bw[w] # None /\ bw[w].root # None /\ bw[w].root.st = st

\* a_Web_dispatch_by_type for a root URL: a viewer is put in the window.
Arrive(w) ==
    /\ Loading(w, "waiting")
    /\ SetBw(w, ExpectDone([bw[w] EXCEPT !.root.st = "shown", !.shown = bw[w].root.url]))
    /\ UNCHANGED <<timeouts, menu>>

\* a_Bw_close_client at the end of the data.
Finish(w) ==
    /\ Loading(w, "shown")
    /\ SetBw(w, [bw[w] EXCEPT !.root = None])
    /\ UNCHANGED <<timeouts, menu>>

\* The connection fails (capi.c, OpAbort), or the type has no viewer (cache.c).
Fail(w) ==
    /\ bw[w] # None /\ bw[w].root # None
    /\ SetBw(w, [CancelIfEq(bw[w], bw[w].root.url) EXCEPT !.root = None])
    /\ UNCHANGED <<timeouts, menu>>

\* Cache_redirect, when the client of the redirected page has been closed; a
\* temporary redirection (302) is flagged URL_E2EQuery.
HttpRedirect(w, u, way) ==
    /\ Loading(w, "waiting") /\ Fits(bw[w]) /\ ~SamePage(u, bw[w].root.url)
    /\ way \in {"push", "e2e"}
    /\ SetBw(w, Push([bw[w] EXCEPT !.root = None], u, way))
    /\ UNCHANGED <<timeouts, menu>>

\* a_Nav_redirection0: a META element with delay 0; the parser stops.
MetaRefresh(w, u) ==
    /\ Loading(w, "shown") /\ ~SamePage(u, bw[w].root.url)
    /\ SetBw(w, [bw[w] EXCEPT !.refresh = u, !.status = 2, !.asker = bw[w].root.url])
    /\ AddTimeout("refresh", w)
    /\ UNCHANGED menu

\* The parser finds another charset, or the last style sheet has come: a_Nav_repush.
AskRepush(w) ==
    /\ Loading(w, "shown")
    /\ AddTimeout("repush", w)
    /\ UNCHANGED <<bw, menu>>

----------------------------------------------------------------------------
(* Timeouts.  A repush and a refresh remove the equal ones that wait. *)

Without(t) ==
    LET rest == Tail(timeouts)
        kept[i \in 0..Len(rest)] ==
            IF i = 0 THEN <<>>
            ELSE IF rest[i] = t THEN kept[i - 1] ELSE Append(kept[i - 1], rest[i])
    IN  kept[Len(rest)]

Due(cb, w) == timeouts # <<>> /\ Head(timeouts) = <<cb, w>> /\ bw[w] # None

Repush(w) ==
    /\ Due("repush", w)
    /\ SetBw(w, Again(bw[w], "repush"))
    /\ timeouts' = Without(<<"repush", w>>)
    /\ UNCHANGED menu

\* Nav_reload_callback; confirmed: the answer about a form that was posted.
ReloadCallback(w, confirmed) ==
    /\ Due("reload", w)
    /\ SetBw(w, IF confirmed THEN Again(bw[w], "reload") ELSE Cancel(bw[w]))
    /\ timeouts' = Tail(timeouts)
    /\ UNCHANGED menu

\* Nav_redirection0_callback: the page that asked leaves the stack, unless it is
\* the first one; a refresh that was cancelled (status 1) is dropped.
Refresh(w) ==
    /\ Due("refresh", w)
    /\ bw[w].status = 2 => Fits(MovePtr(bw[w], -1))
    /\ LET b == bw[w]
           b1 == IF b.status = 2 THEN Push(MovePtr(b, -1), b.refresh, "e2e") ELSE b
       IN  SetBw(w, [b1 EXCEPT !.refresh = None, !.status = 0])
    /\ timeouts' = Without(<<"refresh", w>>)
    /\ UNCHANGED menu

\* The callback of a window that was freed: what it does is undefined, and the
\* behaviours that go on are those in which it does nothing.
Orphan ==
    /\ timeouts # <<>> /\ bw[Head(timeouts)[2]] = None
    /\ timeouts' = Tail(timeouts)
    /\ UNCHANGED <<bw, menu>>

NavNext ==
    \/ \E w \in NavWindows :
          \/ NewWindow(w) \/ CloseWindow(w) \/ Back(w) \/ Forw(w) \/ Stop(w)
          \/ Arrive(w) \/ Finish(w) \/ Fail(w) \/ AskRepush(w) \/ Repush(w) \/ Refresh(w)
          \/ \E u \in Urls : OpenLink(w, u)
          \/ \E u \in Urls : MetaRefresh(w, u)
          \/ \E u \in Urls, way \in Ways : HttpRedirect(w, u, way)
          \/ \E cb \in {"reload", "repush"} : AskAgain(w, cb)
          \/ \E dir \in {-1, 1} : HistoryPopup(w, dir)
          \/ \E c \in BOOLEAN : ReloadCallback(w, c)
    \/ \E j \in 1..MaxStack : Jump(j)
    \/ Dismiss \/ Orphan

NavSpec == NavInit /\ [][NavNext]_navVars

----------------------------------------------------------------------------
(* Properties. *)

Callbacks == {"repush", "reload", "refresh"}

\* The variables have their types; the stack pointer is inside the stack, and -1
\* only when the stack is empty.
NavTypeOk ==
    /\ bw \in [NavWindows -> Bws \cup {None}]
    /\ \A w \in Open : bw[w].ptr \in -1..(Size(bw[w]) - 1) /\ (bw[w].ptr = -1) = (bw[w].stack = <<>>)
    /\ timeouts \in Seq(Callbacks \X NavWindows)
    /\ menu # None => menu.win \in Open /\ menu.dir \in {-1, 1}

\* What a window expects is what its root client waits for, so that the page that
\* arrives is the one that is recorded (a_Nav_expect_done does not look at it).
\* There is one exception: a push of the page at the pointer loads nothing, and then
\* the URL that stays expected is one of the stack.
ExpectedIsOnItsWay ==
    \A w \in Open :
        LET b == bw[w] IN
        b.expect # None =>
            \/ b.root # None /\ b.root.url = b.expect.url /\ b.root.st = "waiting"
            \/ b.expect.way = "push" /\ b.expect.url \in Range(b.stack)

\* No two neighbours of a stack are equal, though Nav_stack_clean only looks at
\* the last two entries (else Back would seem to do nothing).
NoEqualNeighbours ==
    \A w \in Open : \A i \in 1..(Size(bw[w]) - 1) : bw[w].stack[i] # bw[w].stack[i + 1]

\* A META refresh that will still be followed was asked for by the page that the
\* window shows: no command of the user since then, and no new page, is undone by
\* a timeout that was set before it.
RefreshIsOfShown ==
    \A w \in Open : bw[w].status = 2 => bw[w].asker = bw[w].shown

\* nav.c: the stack, the expected URL and the pending refresh of a window agree with
\* what it shows and loads, whatever the user does while pages arrive.
NavIsRight == NavTypeOk /\ ExpectedIsOnItsWay /\ NoEqualNeighbours /\ RefreshIsOfShown
=============================================================================
