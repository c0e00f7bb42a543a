-------------------------------- MODULE Auth --------------------------------
(***************************************************************************)
(* HTTP authentication, src/src/auth.c, with the part of the cache that     *)
(* calls it (Cache_auth_entry, Cache_auth_callback) and the modal dialog:    *)
(* windows that request pages of one host, a server that protects some of    *)
(* them, and what the browser knows of the server's realms.                  *)
(*                                                                         *)
(* A path is the sequence of its segments, a trailing "/" not counted.  The  *)
(* paths of a realm are a set: none is in its list twice, and the order of    *)
(* the list, which dList_remove_fast changes, is not used.                   *)
(***************************************************************************)
EXTENDS Integers, Sequences, FiniteSets, SequencesExt

CONSTANTS Pages,      \* paths that are requested
          Realms,     \* names of realms
          Protects,   \* the realm that protects each page, or NoRealm
          AuthWindows,
          NoRealm

\* What a server protects are its pages.
ASSUME AuthAssumption ==
    /\ Pages \subseteq Seq(STRING)
    /\ Protects \in [Pages -> Realms \cup {NoRealm}]
    /\ NoRealm \notin Realms /\ NoRealm \notin Pages /\ NoRealm \notin AuthWindows

VARIABLES realm,   \* realm[r]: the paths and the password known for r
          win,     \* what each window shows, and its request
          busy,    \* Cache_auth_entry's busy: the window that is asked for, or NoRealm
          dialog   \* the dialog is shown

authVars == <<realm, win, busy, dialog>>

AuthInit ==
    /\ realm = [r \in Realms |-> [paths |-> {}, password |-> "none"]]
    /\ win = [w \in AuthWindows |->
                [page |-> NoRealm, state |-> "idle", with |-> NoRealm, password |-> "none"]]
    /\ busy = NoRealm /\ dialog = FALSE

----------------------------------------------------------------------------
\* Auth_realm_includes_path, with Auth_path_is_inside for each of its paths
Includes(r, page) == \E p \in realm[r].paths : IsPrefix(p, page)

\* Seeded bug: the paths around the new one are deleted, not those inside it.
Mut_AddPath(r, page) ==
    [realm[r] EXCEPT !.paths = {p \in @ : ~IsPrefix(p, page)} \cup {page}]

\* Auth_realm_add_path: the paths inside the new one are superfluous.
AddPath(r, page) ==
    [realm[r] EXCEPT !.paths = {p \in @ : ~IsPrefix(page, p)} \cup {page}]

\* Auth_realm_by_path: the realm with the longest path around the page.
RealmByPath(page) ==
    LET Around == {rp \in UNION {{r} \X realm[r].paths : r \in Realms} :
                      IsPrefix(rp[2], page)}
    IN IF Around = {} THEN NoRealm
       ELSE (CHOOSE rp \in Around : \A o \in Around : Len(rp[2]) >= Len(o[2]))[1]

\* A window requests a page with what a_Auth_get_auth_str finds now.
Request(w, page) ==
    LET r == RealmByPath(page) IN
    [page |-> page, state |-> "asked", with |-> r,
     password |-> IF r = NoRealm THEN "none" ELSE realm[r].password]

----------------------------------------------------------------------------
\* The dialog is modal: meanwhile the user visits no page.
Visit(w, page) ==
    /\ ~dialog
    /\ win' = [win EXCEPT ![w] = Request(w, page)]
    /\ UNCHANGED <<realm, busy, dialog>>

Accepted(w) ==
    LET r == Protects[win[w].page] IN
    r = NoRealm \/ (win[w].with = r /\ win[w].password = "right")

\* The answer.  After a 401 a timeout to ask is set, unless one is set already.
Answer(w) ==
    /\ win[w].state = "asked"
    /\ win' = [win EXCEPT ![w].state = IF Accepted(w) THEN "shown" ELSE "denied"]
    /\ busy' = IF ~Accepted(w) /\ busy = NoRealm THEN w ELSE busy
    /\ UNCHANGED <<realm, dialog>>

\* Auth_do_auth_dialog: the dialog comes up.
AskUser == dialog' = TRUE /\ UNCHANGED <<realm, win, busy>>

\* Cache_auth_callback, Auth_do_auth_required: known for other pages only, the password
\* is tried for this one too; otherwise the user is asked for it.
AuthCallback ==
    /\ busy # NoRealm /\ ~dialog
    /\ \E page \in Pages, r \in Realms :
          /\ r = Protects[page] /\ win[busy].page = page
          /\ IF realm[r].password # "none" /\ ~Includes(r, page)
             THEN /\ realm' = [realm EXCEPT ![r] = AddPath(r, page)]
                  /\ win' = [win EXCEPT ![busy].state = "reload"]
                  /\ busy' = NoRealm
                  /\ UNCHANGED dialog
             ELSE AskUser

\* Auth_do_auth_dialog_cb, after OK.
DialogOk(password) ==
    /\ dialog
    /\ LET page == win[busy].page
           r == Protects[page]
       IN realm' = [realm EXCEPT ![r] = [AddPath(r, page) EXCEPT !.password = password]]
    /\ win' = [win EXCEPT ![busy].state = "reload"]
    /\ busy' = NoRealm /\ dialog' = FALSE

DialogCancel ==
    /\ dialog
    /\ busy' = NoRealm /\ dialog' = FALSE
    /\ UNCHANGED <<realm, win>>

\* a_Nav_reload waits for a timeout.
Reload(w) ==
    /\ win[w].state = "reload"
    /\ win' = [win EXCEPT ![w] = Request(w, win[w].page)]
    /\ UNCHANGED <<realm, busy, dialog>>

AuthNext ==
    \/ \E w \in AuthWindows :
          \/ \E page \in Pages : win[w].state \in {"idle", "shown", "denied"} /\ busy # w /\ Visit(w, page)
          \/ Answer(w)
          \/ Reload(w)
    \/ AuthCallback
    \/ \E password \in {"right", "wrong"} : DialogOk(password)
    \/ DialogCancel

AuthFairness ==
    /\ \A w \in AuthWindows : WF_authVars(Answer(w)) /\ WF_authVars(Reload(w))
    /\ WF_authVars(AuthCallback)

AuthSpec == AuthInit /\ [][AuthNext]_authVars /\ AuthFairness

----------------------------------------------------------------------------
(* Properties. *)

\* What a realm has been found to include it goes on to include, in whatever order the
\* pages are found and the superfluous paths deleted: no page is forgotten and asked again.
CoverageGrows ==
    [][\A r \in Realms, page \in Pages : Includes(r, page) => Includes(r, page)']_authVars

\* A request that carries the password of a realm is for a page inside a path of the realm,
\* still when its answer comes, and every path of a realm was protected with its name.
PasswordsWereAskedFor ==
    /\ \A w \in AuthWindows : win[w].with # NoRealm => Includes(win[w].with, win[w].page)
    /\ \A r \in Realms : \A p \in realm[r].paths : Protects[p] = r

\* auth.c: no page is forgotten and asked for again, and passwords are sent where they were
\* asked for.
AuthIsRight == CoverageGrows /\ []PasswordsWereAskedFor

\* The browser does not go on reloading on its own, trying a password it has: if it reloads
\* again and again the user is asked again and again.
ReloadsNeedUser == []<>(\E w \in AuthWindows : win[w].state = "reload") => []<>dialog
=============================================================================
