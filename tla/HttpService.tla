---------------------------- MODULE HttpService ----------------------------
(***************************************************************************)
(* What the connection pool promises: a fetch names a server and waits      *)
(* (open) until fewer than MaxConns fetches are connected to it; it may be   *)
(* closed at any time, and in the end it is.                                *)
(***************************************************************************)
EXTENDS Integers, FiniteSets

CONSTANTS Hosts, Socks, MaxConns, None

VARIABLES state, server

svars == <<state, server>>

SInit ==
    /\ state = [s \in Socks |-> "none"]
    /\ server = [s \in Socks |-> None]

Ask(s, h) ==
    /\ state[s] = "none"
    /\ state' = [state EXCEPT ![s] = "open"]
    /\ server' = [server EXCEPT ![s] = h]

ConnectedTo(h) == {s \in Socks : state[s] = "connected" /\ server[s] = h}

Connect(s) ==
    /\ state[s] = "open"
    /\ Cardinality(ConnectedTo(server[s])) < MaxConns
    /\ state' = [state EXCEPT ![s] = "connected"]
    /\ UNCHANGED server

Close(s) ==
    /\ state[s] \in {"open", "connected"}
    /\ state' = [state EXCEPT ![s] = "closed"]
    /\ UNCHANGED server

SNext ==
    \/ \E s \in Socks, h \in Hosts : Ask(s, h)
    \/ \E s \in Socks : Connect(s) \/ Close(s)

Service == SInit /\ [][SNext]_svars
FairService == Service /\ \A s \in Socks : WF_svars(Close(s))
=============================================================================
