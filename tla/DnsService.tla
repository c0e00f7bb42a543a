----------------------------- MODULE DnsService -----------------------------
(***************************************************************************)
(* What the resolver promises its callers, with no channel, queue or thread *)
(* in sight: a request is answered at most once; a host that resolves stays *)
(* known, and from then on its requests all succeed.                        *)
(***************************************************************************)
CONSTANTS Hosts, Requests, None

VARIABLES asked,     \* the host each request has asked for, or None
          result,    \* "none" until the callback, then "found" or "failed"
          known      \* hosts whose addresses are known for good

svars == <<asked, result, known>>

SInit ==
    /\ asked = [r \in Requests |-> None]
    /\ result = [r \in Requests |-> "none"]
    /\ known = {}

\* a_Dns_resolve: a known host is answered before the call returns.
Ask(r, h) ==
    /\ asked[r] = None
    /\ asked' = [asked EXCEPT ![r] = h]
    /\ result' = IF h \in known THEN [result EXCEPT ![r] = "found"] ELSE result
    /\ UNCHANGED known

\* A lookup succeeds for a host that somebody still waits for.
Learn(h) ==
    /\ h \notin known
    /\ \E r \in Requests : asked[r] = h /\ result[r] = "none"
    /\ known' = known \cup {h}
    /\ UNCHANGED <<asked, result>>

\* The callback of a request.
Answer(r) ==
    /\ asked[r] # None /\ result[r] = "none"
    /\ result' = [result EXCEPT ![r] = IF asked[r] \in known THEN "found" ELSE "failed"]
    /\ UNCHANGED <<asked, known>>

SNext ==
    \/ \E r \in Requests, h \in Hosts : Ask(r, h)
    \/ \E h \in Hosts : Learn(h)
    \/ \E r \in Requests : Answer(r)

Service == SInit /\ [][SNext]_svars
=============================================================================
