------------------------------ MODULE Cookies ------------------------------
(***************************************************************************)
(* The cookie store, src/src/cookies.c: what a server's Set-Cookie lines    *)
(* add and replace, what a request sends back, the limits per domain and in *)
(* all with the removal of expired and least recently used cookies, and the *)
(* file the store is kept in from one run of the browser to the next.       *)
(*                                                                         *)
(* A host is the sequence of its labels; a domain may have a leading dot.   *)
(* A path is the sequence of what stands between its slashes: "/" is <<"">>, *)
(* "/a" is <<"a">>, "/a/" is <<"a", "">>.                                    *)
(***************************************************************************)
EXTENDS Integers, Sequences, FiniteSets, SequencesExt

CONSTANTS Requests,      \* URLs: [host, path, ssl], where a host is its labels
          Addresses,     \* those of them that are IP addresses
          WideTlds,      \* top level domains that need two inner dots
          Lines,         \* Set-Cookie lines: [name, domain, path, age, secure], where the
                         \* domain, the path and the lifetime may be NoValue
          Control,       \* the rules of cookiesrc, a set of [domain, action]
          DefaultAction, \* "accept", "session" or "deny"
          MaxDomainCookies, MaxTotalCookies,  \* 20 and 1200 in the code
          MaxTime, MaxUses,                   \* bounds on the clock and cookies_use_counter
          NoValue

ASSUME LimitsAreNumbers ==
    MaxDomainCookies \in Nat \ {0} /\ MaxTotalCookies \in Nat \ {0}
ASSUME HostsHaveNames ==
    \A r \in Requests : /\ r.host \in Seq(STRING) /\ r.host # <<>>
                        /\ r.path \in Seq(STRING)
                        /\ NoValue # [dot |-> FALSE, labels |-> r.host]
ASSUME LinesAreParsed ==
    \A line \in Lines :
        /\ line.domain # NoValue => line.domain \in [dot : BOOLEAN, labels : Seq(STRING)]
        /\ line.path # NoValue => line.path \in Seq(STRING)

VARIABLES domains,   \* domains: the list of cookies of each domain that has a node
          all,       \* all_cookies
          useCount,  \* cookies_use_counter
          time,
          file,      \* cookies.txt: the list of its cookies
          running,   \* the browser runs: "yes", "saving" while it ends, "no"
          sent,      \* the last request, and the cookies of its answer
          kept       \* what should be found in the file by the next run

cookieVars == <<domains, all, useCount, time, file, running, sent, kept>>

NothingSent == [host |-> NoValue, path |-> NoValue, ssl |-> FALSE, cookies |-> <<>>]

CookiesInit ==
    /\ domains = <<>> /\ all = <<>> /\ useCount = 0 /\ time = 0
    /\ file = <<>> /\ running = "yes" /\ kept = {}
    /\ sent = NothingSent

----------------------------------------------------------------------------
(* Domains and paths. *)

Dom(dot, labels) == [dot |-> dot, labels |-> labels]

\* Cookies_domain_matches: is B the host A, or a tail of it after a dot?
DomainMatches(A, B) ==
    \/ A = B.labels
    \/ A \notin Addresses /\ B.labels \notin Addresses /\ IsStrictSuffix(B.labels, A)

InternalDotsRequired(host) == IF host[Len(host)] \in WideTlds THEN 2 ELSE 1

\* Cookies_validate_domain; a cookie without Domain attribute is for its host only.
ValidDomain(d, host) ==
    d # NoValue => DomainMatches(host, d) /\ Len(d.labels) > InternalDotsRequired(host)

\* Cookies_path_matches
PathMatches(url, path) ==
    \/ IsPrefix(path, url)
    \/ Last(path) = "" /\ IsPrefix(Front(path), url) /\ Len(url) >= Len(path)

\* Cookies_validate_path: by default the path of the URL up to its last slash.
ValidPath(attr, url) ==
    IF attr # NoValue THEN attr ELSE IF Len(url) > 1 THEN Front(url) ELSE <<"">>

\* strlen of the path, every segment being one character long
PathLength(path) == Len(path) + Cardinality({i \in DOMAIN path : path[i] # ""})

\* Cookies_control_check_domain: the most specific rule, for a host or the domain of a
\* cookie in the file.
Matches(rule, d) ==
    IF rule.dot THEN IsStrictSuffix(rule.labels, d.labels) \/ (d.dot /\ rule.labels = d.labels)
    ELSE rule = d
\* Cookie_control_init keeps the rules with the longest domains first.
MostSpecific(Rules) ==
    CHOOSE c \in Rules : \A r \in Rules :
        Len(c.domain.labels) * 2 + (IF c.domain.dot THEN 1 ELSE 0)
            >= Len(r.domain.labels) * 2 + (IF r.domain.dot THEN 1 ELSE 0)
Action(d) ==
    LET Rules == {c \in Control : Matches(c.domain, d)} IN
    IF Rules = {} THEN DefaultAction
    ELSE MostSpecific(Rules).action

----------------------------------------------------------------------------
(* The store: [domains, all], changed by the functions below. *)

Store == [domains |-> domains, all |-> all]

HasNode(s, d) == d \in DOMAIN s.domains
ListOf(s, d) == IF HasNode(s, d) THEN s.domains[d] ELSE <<>>
DeleteNode(s, d) ==
    [s EXCEPT !.domains = [e \in DOMAIN @ \ {d} |-> @[e]]]

\* Where a cookie stands in a list.
PlaceOf(list, c) == Min({i \in DOMAIN list : list[i] = c})

\* dList_remove
RemoveFrom(list, c) == RemoveAt(list, PlaceOf(list, c))

\* dList_remove_fast: the last element takes the place of the removed one.
RemoveFast(list, c) == Front([list EXCEPT ![PlaceOf(list, c)] = Last(list)])

\* Seeded bug: the cookie stays in all_cookies.
Mut_Drop(s, c) ==
    [domains |-> [s.domains EXCEPT ![c.domain] = RemoveFrom(@, c)], all |-> s.all]

\* A cookie leaves its list and all_cookies.
Drop(s, c) ==
    [domains |-> [s.domains EXCEPT ![c.domain] = RemoveFrom(@, c)], all |-> RemoveFast(s.all, c)]

DropLast(s, c) ==
    LET t == Drop(s, c) IN IF t.domains[c.domain] = <<>> THEN DeleteNode(t, c.domain) ELSE t

Expired(c) == c.expires < time

\* The cookies of a domain, or, for NoValue, all of them.
CookiesOf(s, d) == IF d = NoValue THEN s.all ELSE ListOf(s, d)

\* A turn of the loop of Cookies_rm_expired_cookies, at cookie i of the list: what comes
\* to the place of a removed cookie is looked at next.
RmTurn(x, d) ==
    LET c == CookiesOf(x.store, d)[x.i] IN
    IF Expired(c) THEN [x EXCEPT !.store = DropLast(@, c)] ELSE [x EXCEPT !.i = @ + 1]

RmExpired(s, d) ==
    LET loop[k \in 0..Len(CookiesOf(s, d))] ==
            IF k = 0 THEN [store |-> s, i |-> 1] ELSE RmTurn(loop[k - 1], d)
    IN  loop[Len(CookiesOf(s, d))].store

\* Cookies_get_LRU: the first of the least recently used.
LRU(list) ==
    list[Min({i \in DOMAIN list : \A j \in DOMAIN list : list[i].lastUsed <= list[j].lastUsed})]

\* Room in the list of a domain that is full.
MakeRoom(s, d) ==
    IF Len(ListOf(s, d)) < MaxDomainCookies THEN s
    ELSE LET t == RmExpired(s, d) IN
         IF t = s THEN DropLast(s, LRU(ListOf(s, d))) ELSE t

\* Room in all_cookies.  The node of the new cookie is looked up again only after
\* expired cookies were removed: Cookies_too_many may have freed it.  Here the cookie gets
\* a node again.
MakeRoomInAll(s) ==
    IF Len(s.all) < MaxTotalCookies THEN s
    ELSE LET t == RmExpired(s, NoValue) IN
         IF t # s THEN t ELSE DropLast(s, LRU(s.all))

\* Cookies_cmp
SameCookie(a, b) == a.hostOnly = b.hostOnly /\ a.name = b.name /\ a.path = b.path

\* The first cookie that c takes the place of is removed, until there is none.
ReplaceTurn(s, c) ==
    LET list == ListOf(s, c.domain)
        same == {i \in DOMAIN list : SameCookie(list[i], c)}
    IN  IF same = {} THEN s ELSE Drop(s, list[Min(same)])

Replaced(s, c) ==
    LET loop[k \in 0..Len(ListOf(s, c.domain))] ==
            IF k = 0 THEN s ELSE ReplaceTurn(loop[k - 1], c)
    IN  loop[Len(ListOf(s, c.domain))]

PruneNode(s, d) == IF HasNode(s, d) /\ s.domains[d] = <<>> THEN DeleteNode(s, d) ELSE s

\* The cookie comes to the end of both lists.
Added(s, c) ==
    [domains |-> [d \in DOMAIN s.domains \cup {c.domain} |->
                    IF d = c.domain THEN Append(ListOf(s, d), c) ELSE s.domains[d]],
     all |-> Append(s.all, c)]

\* Cookies_add_cookie
AddCookie(s, c) ==
    LET r == Replaced(s, c) IN
    IF c.expires <= time THEN PruneNode(r, c.domain)
    ELSE Added(MakeRoomInAll(MakeRoom(r, c.domain)), c)

SetStore(s) == domains' = s.domains /\ all' = s.all

----------------------------------------------------------------------------
(* Set-Cookie and Cookie. *)

Alive == running = "yes"

\* Cookies_parse, with what the URL gives.  Without Expires or Max-Age the cookie ends with
\* the session, and in a year.
NewCookie(host, url, line) ==
    LET Own == Dom(FALSE, host) IN
    [name |-> line.name,
     domain |-> IF line.domain = NoValue THEN Own ELSE line.domain,
     hostOnly |-> line.domain = NoValue,
     path |-> ValidPath(line.path, url), secure |-> line.secure,
     expires |-> IF line.age = NoValue THEN MaxTime + 1 ELSE time + line.age,
     session |-> line.age = NoValue \/ Action(Own) = "session",
     lastUsed |-> useCount]

\* One line of a_Cookies_set: validation and Cookies_add_cookie.
SetCookie(host, url, line) ==
    /\ Alive /\ useCount < MaxUses
    /\ Action(Dom(FALSE, host)) # "deny"
    /\ ValidDomain(line.domain, host)
    /\ LET c == NewCookie(host, url, line)
       IN /\ SetStore(AddCookie(Store, c))
          /\ useCount' = IF c.expires > time THEN useCount + 1 ELSE useCount
    /\ sent' = NothingSent
    /\ UNCHANGED <<time, file, running, kept>>

\* The domains Cookies_get looks up, with the host_only value it asks for.
Lookups(host) ==
    LET Own(dot, only) == [d |-> Dom(dot, host), hostOnly |-> only]
        Tail_(i) == [j \in 1..(Len(host) - i) |-> host[i + j]]
        Above == [k \in 1..2 * (Len(host) - 1) |->
                    [d |-> Dom(k % 2 = 1, Tail_((k + 1) \div 2)), hostOnly |-> FALSE]]
    IN IF host \in Addresses THEN <<Own(FALSE, TRUE), Own(FALSE, FALSE)>>
       ELSE <<Own(TRUE, FALSE), Own(FALSE, TRUE), Own(FALSE, FALSE)>> \o Above

\* Cookies_match
CookieMatches(c, url, only, ssl) ==
    c.hostOnly = only /\ (c.secure => ssl) /\ PathMatches(url, c.path)

\* Longest paths first, in the order they are found: before the first shorter one.
InsertByPath(list, c) ==
    LET shorter == {i \in DOMAIN list : PathLength(list[i].path) < PathLength(c.path)}
    IN InsertAt(list, IF shorter = {} THEN Len(list) + 1 ELSE Min(shorter), c)

\* A turn of the loop of Cookies_add_matching_cookies.
MatchTurn(found, c, url, l, ssl) ==
    IF ~Expired(c) /\ CookieMatches(c, url, l.hostOnly, ssl) THEN InsertByPath(found, c) ELSE found

\* Cookies_add_matching_cookies, of the list of a domain, for one lookup.
AddMatching(found, list, url, l, ssl) ==
    LET loop[k \in 0..Len(list)] ==
            IF k = 0 THEN found ELSE MatchTurn(loop[k - 1], list[k], url, l, ssl)
    IN  loop[Len(list)]

\* The store before each of the lookups ls: Cookies_add_matching_cookies also removes the
\* cookies of its domain that are expired.
Swept(ls) ==
    LET loop[k \in 0..Len(ls)] == IF k = 0 THEN Store ELSE RmExpired(loop[k - 1], ls[k].d)
    IN  loop

\* The cookies of the answer, longest paths first.
Answer(swept, ls, url, ssl) ==
    LET found[k \in 0..Len(ls)] ==
            IF k = 0 THEN <<>>
            ELSE AddMatching(found[k - 1], ListOf(swept[k], ls[k].d), url, ls[k], ssl)
    IN  found[Len(ls)]

\* The cookies of the answer have been used now.
Used(c, answer) == IF c \in ToSet(answer) THEN [c EXCEPT !.lastUsed = useCount] ELSE c
UsedList(list, answer) == [i \in DOMAIN list |-> Used(list[i], answer)]
UsedStore(s, answer) ==
    [domains |-> [d \in DOMAIN s.domains |-> UsedList(s.domains[d], answer)],
     all |-> UsedList(s.all, answer)]

\* Cookies_get for a request.
Get(host, url, ssl) ==
    /\ Alive /\ useCount < MaxUses
    /\ Action(Dom(FALSE, host)) # "deny"
    /\ LET ls == Lookups(host)
           swept == Swept(ls)
           answer == Answer(swept, ls, url, ssl)
       IN /\ SetStore(UsedStore(swept[Len(ls)], answer))
          /\ useCount' = IF answer = <<>> THEN useCount ELSE useCount + 1
          /\ sent' = [host |-> host, path |-> url, ssl |-> ssl,
                     cookies |-> UsedList(answer, answer)]
    /\ UNCHANGED <<time, file, running, kept>>

----------------------------------------------------------------------------
(* The file, and the life of the browser. *)

Tick == time < MaxTime /\ time' = time + 1 /\ sent' = NothingSent
        /\ UNCHANGED <<domains, all, useCount, file, running, kept>>

\* Seeded bug: session cookies are kept.
Mut_Persistent(c) == c.expires > time

Persistent(c) == ~c.session /\ c.expires > time

\* a_Cookies_freeall truncates the file; what it writes gets there when it is closed.
Truncate ==
    /\ Alive
    /\ running' = "saving" /\ file' = <<>> /\ sent' = NothingSent
    /\ kept' = {c \in ToSet(all) : ~c.session /\ c.expires > time}
    /\ UNCHANGED <<domains, all, useCount, time>>

\* The lines of the file, domain by domain.
SavedOf(list) ==
    LET loop[k \in 0..Len(list)] ==
            IF k = 0 THEN <<>>
            ELSE IF Persistent(list[k]) THEN Append(loop[k - 1], list[k]) ELSE loop[k - 1]
    IN  loop[Len(list)]

Saved ==
    LET nodes == SetToSeq(DOMAIN domains)
        loop[k \in 0..Len(nodes)] ==
            IF k = 0 THEN <<>> ELSE loop[k - 1] \o SavedOf(domains[nodes[k]])
    IN  loop[Len(nodes)]

Save ==
    /\ running = "saving" /\ running' = "no"
    /\ file' = Saved
    /\ domains' = <<>> /\ all' = <<>> /\ useCount' = 0
    /\ UNCHANGED <<time, sent, kept>>

\* The process is killed: nothing is saved, nor what was being written.
Crash ==
    /\ running \in {"yes", "saving"} /\ running' = "no"
    /\ domains' = <<>> /\ all' = <<>> /\ useCount' = 0 /\ sent' = NothingSent
    /\ kept' = IF running = "yes" THEN kept ELSE {}
    /\ UNCHANGED <<time, file>>

\* Cookies_load_cookies, a line: the rules apply to the domain of the cookie.
LoadTurn(x, c) ==
    LET d == [c EXCEPT !.lastUsed = x.n, !.session = Action(c.domain) = "session"] IN
    IF Action(c.domain) = "deny" THEN x
    ELSE [store |-> AddCookie(x.store, d), n |-> x.n + (IF d.expires > time THEN 1 ELSE 0)]

Loaded ==
    LET loop[k \in 0..Len(file)] ==
            IF k = 0 THEN [store |-> Store, n |-> 0] ELSE LoadTurn(loop[k - 1], file[k])
    IN  loop[Len(file)]

Start ==
    /\ running = "no" /\ running' = "yes"
    /\ SetStore(Loaded.store) /\ useCount' = Loaded.n
    /\ UNCHANGED <<time, file, sent, kept>>

CookiesNext ==
    \/ \E r \in Requests :
          \/ \E line \in Lines : SetCookie(r.host, r.path, line)
          \/ Get(r.host, r.path, r.ssl)
    \/ Tick
    \/ Truncate
    \/ Save
    \/ Crash
    \/ Start

CookiesSpec == CookiesInit /\ [][CookiesNext]_cookieVars

----------------------------------------------------------------------------
(* Properties. *)

\* Whatever is added, replaced, expired or thrown out, the lists of the domains and
\* all_cookies hold the same cookies, no domain without cookies keeps its node, the limits
\* hold, and no two cookies of a domain have the same name, path and kind.
StoreIsConsistent ==
    /\ Len(all) <= MaxTotalCookies
    /\ IsInjective(all)
    /\ ToSet(all) = UNION {ToSet(domains[d]) : d \in DOMAIN domains}
    /\ \A d \in DOMAIN domains :
          /\ domains[d] # <<>> /\ Len(domains[d]) <= MaxDomainCookies
          /\ \A i, j \in DOMAIN domains[d] :
                /\ domains[d][i].domain = d
                /\ i # j => ~SameCookie(domains[d][i], domains[d][j])

\* A cookie without Domain attribute is for the host that set it, any other for its domain,
\* with or without the dot, and for the names under it.  For an address no domain with a
\* dot is looked up.
IsFor(c, host) ==
    IF c.hostOnly THEN host = c.domain.labels
    ELSE \/ host = c.domain.labels /\ (c.domain.dot => host \notin Addresses)
         \/ host \notin Addresses /\ IsStrictSuffix(c.domain.labels, host)

\* An answer has exactly the live cookies that are for the host, the path and the scheme of
\* its request, each of them once, longest paths first.
SentIsRight ==
    sent.host # NoValue =>
        /\ \A c \in ToSet(all) :
              c \in ToSet(sent.cookies) <=>
                 /\ ~Expired(c)
                 /\ IsFor(c, sent.host)
                 /\ PathMatches(sent.path, c.path)
                 /\ c.secure => sent.ssl
        /\ ToSet(sent.cookies) \subseteq ToSet(all)
        /\ IsInjective(sent.cookies)
        /\ \A i, j \in DOMAIN sent.cookies :
              i < j => PathLength(sent.cookies[i].path) >= PathLength(sent.cookies[j].path)

\* cookies.c: what the store holds, and what a request is given of it.
CookiesAreRight == StoreIsConsistent /\ SentIsRight

Identity(c) == [c EXCEPT !.lastUsed = 0, !.session = FALSE]

\* A start brings back the persistent cookies of the last orderly end that have not expired
\* meanwhile and whose domain the rules allow, and no others, even if the browser was killed
\* since; only a kill while the file is written loses them.
RestartKeepsCookies ==
    [][running = "no" /\ running' = "yes" =>
         {Identity(c) : c \in ToSet(all')}
           = {Identity(c) : c \in {k \in kept : k.expires > time /\ Action(k.domain) # "deny"}}]_cookieVars
=============================================================================
