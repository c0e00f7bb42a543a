-------------------------------- MODULE MCLive --------------------------------
(***************************************************************************)
(* What waits for the user and for timeouts: authentication and downloads.  *)
(* They share no variable; a behaviour moves one of them.                   *)
(***************************************************************************)
EXTENDS Auth, Download, TLC

VARIABLE moving  \* the component that moves in this behaviour

LiveInit == moving \in {"auth", "download"} /\ AuthInit /\ DownloadInit

LiveNext ==
    /\ UNCHANGED moving
    /\ \/ moving = "auth" /\ AuthNext /\ UNCHANGED downloadVars
       \/ moving = "download" /\ DownloadNext /\ UNCHANGED authVars

\* Nothing is enabled in the component that does not move: its fairness asks nothing.
LiveSpec ==
    LiveInit /\ [][LiveNext]_<<authVars, downloadVars, moving>> /\ AuthFairness /\ DownloadFairness

----------------------------------------------------------------------------
\* What waits for the user does not go on without him, and what waits for a timeout does
\* not stay: a browser that reloads again and again asks again and again (Auth), and a
\* window that was closed is deleted (Download).
WaitsEndRight == ReloadsNeedUser /\ ClosedAreDeleted

----------------------------------------------------------------------------
SomePages == {<<>>, <<"a">>, <<"a", "b">>, <<"c">>}
SomeProtects ==
    [p \in SomePages |-> IF p = <<"a">> THEN "s" ELSE IF p = <<"c">> THEN NoRealm ELSE "r"]
=============================================================================
