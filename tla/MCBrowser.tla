------------------------------- MODULE MCBrowser -------------------------------
(***************************************************************************)
(* The browser around a page: the images it keeps decoded, the tabs of its  *)
(* windows and the panels in them, bookmarks, the listings of the           *)
(* file plugin, and the strings, lists and lines of dlib.  The components   *)
(* share no variable, so that a behaviour moves one of them and leaves the  *)
(* others where they are.                                                   *)
(***************************************************************************)
EXTENDS Dicache, Dlib, Bookmarks, File, Panels, TLC

CONSTANTS u1, u2, k1, k2, k3

VARIABLE moving  \* the component that moves in this behaviour; of Dlib its strings or lists

RootPage == SendDir(<<"/">>)
OneEngine == CHOOSE engine1 \in EngineNames : TRUE

\* A component that does not move stays in one of its initial states.
BrowserInit ==
    /\ moving \in {"dicache", "string", "list", "line", "bookmarks", "file", "tabs", "panels"}
    /\ IF moving = "line" THEN TRUE ELSE line = <<>>
    /\ IF moving = "tabs" THEN TRUE ELSE always = TRUE
    /\ IF moving = "panels" THEN TRUE ELSE barsShown = TRUE /\ engine = OneEngine
    /\ IF moving = "file" THEN FileInit ELSE path = <<"/">> /\ page = RootPage /\ type = NoType
    /\ DicacheInit /\ DlibInit /\ BookmarkInit /\ TabsInit /\ PanelInit

BrowserNext ==
    /\ UNCHANGED moving
    /\ IF moving = "dicache" THEN DicacheNext ELSE UNCHANGED dicacheVars
    /\ CASE moving = "string" -> StringNext
         [] moving = "list" -> ListNext
         [] OTHER -> UNCHANGED dlibVars
    /\ IF moving = "bookmarks" THEN BookmarkNext ELSE UNCHANGED bookmarkVars
    /\ IF moving = "file" THEN FileNext ELSE UNCHANGED fileVars
    /\ IF moving = "tabs" THEN TabsNext ELSE UNCHANGED tabsVars
    /\ IF moving = "panels" THEN PanelNext ELSE UNCHANGED panelVars

BrowserSpec ==
    BrowserInit
    /\ [][BrowserNext]_<<moving, dicacheVars, dlibVars, bookmarkVars, fileVars, tabsVars,
                         panelVars>>

\* Image clients and URLs are interchangeable.
Symmetry == Permutations(Keys) \cup Permutations(Urls)

----------------------------------------------------------------------------
(* The properties that cost most to look at, where their component moves.               *)

\* Images are shared and freed with the clients that show them (Dicache).
ImagesAreShared == moving = "dicache" => DicacheIsRight

\* The strings, lists and lines of dlib are what was put into them (Dlib).
StringsAreRight == moving \in {"string", "list", "line"} => DlibIsRight

\* The listings of the file plugin lead to the files (File).
ListingsAreTrue == moving = "file" => ListingIsTrue

----------------------------------------------------------------------------
(* Files and configuration lines. *)

SomeGuess(contents) == IF contents = "page" THEN "text/html" ELSE "application/octet-stream"
FileNames == {<<"a">>, <<"a", "#", "b">>, <<"%", "2", "3">>, <<"%", "2", "5", "2", "3">>, <<"a", " ", "b">>,
          <<"a", ":">>, <<"'">>, <<"&", "\"">>, <<"a", "?", "b">>, <<"a", ".", "g">>}
SomeDirs == {<<"/">>} \cup {<<"/">> \o n : n \in {n \in FileNames : Len(n) # 1 /\ ~Contains(n, ".")}}
SomeDiskFiles ==
    {<<"/">> \o n : n \in {n \in FileNames : Len(n) = 1 \/ Contains(n, ".")}} \cup
    {p \o <<"/">> \o n : p \in SomeDirs \ {<<"/">>}, n \in FileNames} \cup
    {<<"/", ".", "a">>, <<"/", "#", "a">>, <<"/", "a", "~">>}
SomeData(p) == IF Len(p) > 4 THEN "page" ELSE "data"
SomeTyped == {<<"/", "/", "a">>, <<"/", "a", "#", "b">>, <<"/", "b">>, <<"/", "%", "2", "5", "2", "3">>,
              <<"/", "'", "/">>, <<"/", "a", "%", "2", "3", "b", "/">>}

SomeRcLines == UNION {[1..n -> {"a", "A", " ", "=", "Q", "#"}] : n \in 0..4}
===============================================================================
