-------------------------------- MODULE MCNet --------------------------------
(***************************************************************************)
(* What a window asks for and sends: its navigation, links, forms and       *)
(* searches, the cookie store, the files of preferences and of keys, and    *)
(* the key lists.                                                           *)
(* They share no variable, so that a run picks one of them at its start and *)
(* leaves the others where they are: one run checks them all.               *)
(***************************************************************************)
EXTENDS Nav, Url, Form, Cookies, Klist, Keys, TLC

CONSTANTS w1, page1, page2, fragment1

VARIABLE moving  \* the component that moves in this behaviour

netVars == <<navVars, urlVars, searchVars, cookieVars, klistVars, keyVars, moving>>

OneForm == CHOOSE form1 \in Forms : TRUE
OneRc == CHOOSE rc1 \in RcFiles : TRUE
OneBase == CHOOSE base1 \in Bases : TRUE

NetInit ==
    /\ moving \in {"nav", "url", "form", "prefs", "search", "cookies", "klist", "keys"}
    /\ NavInit /\ UrlInit /\ SearchInit /\ CookiesInit /\ KlistInit /\ KeysInit
    /\ moving \notin {"form", "search"} => form = OneForm
    /\ moving \notin {"prefs", "search"} => rc = OneRc
    /\ moving # "url" => base = OneBase

\* A search is made from a form as it was loaded.
SearchNext ==
    \/ moving = "form" /\ FormNext /\ UNCHANGED <<prefsVars, origin, opened>>
    \/ moving = "prefs" /\ PrefsNext /\ UNCHANGED <<formVars, origin, opened>>
    \/ moving = "search" /\ (CreateSearch \/ OpenSearch)
    \/ moving = "search" /\ ChooseEngine /\ UNCHANGED <<formVars, origin, opened>>

NetNext ==
    /\ UNCHANGED moving
    /\ IF moving = "nav" THEN NavNext ELSE UNCHANGED navVars
    /\ IF moving = "url" THEN UrlNext ELSE UNCHANGED urlVars
    /\ IF moving \in {"form", "prefs", "search"} THEN SearchNext ELSE UNCHANGED searchVars
    /\ IF moving = "cookies" THEN CookiesNext ELSE UNCHANGED cookieVars
    /\ IF moving = "klist" THEN KlistNext ELSE UNCHANGED klistVars
    /\ IF moving = "keys" THEN KeysNext ELSE UNCHANGED keyVars

NetSpec == NetInit /\ [][NetNext]_netVars

\* Pages are interchangeable.
Symmetry == Permutations(NavPages)

\* cookies.c and prefsparser.cc: what is written to a file in the user's directory is
\* what a later start reads from it.
RestartsKeep == RestartKeepsCookies /\ RestartKeepsPrefs

----------------------------------------------------------------------------
(* Links. *)

Path(abs, segs) == [abs |-> abs, segs |-> segs]
SomeBases == {Url("http", "host", NoPart, NoPart, NoPart),
              Url("http", "host", Path(TRUE, <<"a", "b", "c">>), "q", "f")}
Segments == {"a", "", ".", ".."}
Paths == {Path(abs, s) : abs \in BOOLEAN, s \in UNION {[1..n -> Segments] : n \in 1..3}}
SomeReferences ==
    {Url(NoPart, NoPart, path, NoPart, NoPart) : path \in {x \in Paths : x.segs[1] # ""}}
    \cup {Url(NoPart, NoPart, path, query, fragment) :
            path \in {NoPart, Path(FALSE, <<"..">>)}, query \in {NoPart, "q"}, fragment \in {NoPart, "g"}}
    \cup {Url(NoPart, "other", path, NoPart, NoPart) : path \in {NoPart, Path(TRUE, <<"a">>)}}

----------------------------------------------------------------------------
(* Cookies. *)

Www == <<"www", "ex", "com">>
Ex == <<"ex", "com">>
Ip == <<"10", "0", "1">>
SomeAddresses == {Ip}
SomeRequests ==
    { [host |-> Www, path |-> <<"a", "b">>, ssl |-> FALSE],
      [host |-> Ex, path |-> <<"b">>, ssl |-> TRUE],
      [host |-> Ip, path |-> <<"a">>, ssl |-> TRUE] }
CookieLine(domain, path, age, secure) ==
    [name |-> "n", domain |-> domain, path |-> path, age |-> age, secure |-> secure]
SomeLines ==
    { CookieLine(NoValue, NoValue, 1, TRUE),
      CookieLine(NoValue, NoValue, 0, FALSE),
      CookieLine(Dom(TRUE, Ex), NoValue, 2, FALSE),
      CookieLine(Dom(FALSE, Ex), <<"">>, NoValue, FALSE),
      CookieLine(Dom(TRUE, Ip), <<"">>, NoValue, FALSE) }
NoRules == {}

----------------------------------------------------------------------------
(* The keys. *)
SomeKeyCodes == "a" :> 97 @@ "A" :> 65 @@ "F5" :> 200 @@ "f5" :> 200 @@ "0xc8" :> 200 @@ "hyper" :> 0
SomeShifted(key) == IF key = 97 THEN 65 ELSE key
Node(cmd, modifier, key) == [cmd |-> cmd, modifier |-> modifier, key |-> key]
SomeDefaultKeys == {Node("reload", {"Ctrl"}, 97), Node("reload", {}, 200), Node("find", {}, 97),
                 Node("back", {"Shift"}, 200), Node("preferences", {}, 0)}
SomeKeyLines ==
  [modifiers : {<<>>, <<"Ctrl">>, <<"Shift">>, <<"Hyper", "Button1">>},
   key : DOMAIN SomeKeyCodes, cmd : {"nop", "find", "reload", "preferences", "fly"}]

----------------------------------------------------------------------------
(* Forms and preferences. *)
Input(type, name, value) ==
    [type |-> type, name |-> name, value |-> value, checked |-> FALSE, options |-> <<>>]
Checked(c) == [c EXCEPT !.checked = TRUE]
Option(value, selected, enabled) == [value |-> value, selected |-> selected, enabled |-> enabled]
Selection(type, name, options) == [Input(type, name, Unset) EXCEPT !.options = options]
UrlForm(inputs) == [enctype |-> "urlencoded", inputs |-> inputs]
FileForm(inputs) == [enctype |-> "multipart", inputs |-> inputs]

SomeForms == {
    UrlForm(<<Input("text", <<"n">>, <<"&">>), Input("text", <<"m">>, Unset),
              Input("submit", <<"s">>, <<"go">>), Input("submit", <<"s">>, <<"no">>)>>),
    UrlForm(<<Input("radio", <<"r">>, <<"1">>), Checked(Input("radio", <<"r">>, <<"2">>)),
              Checked(Input("radio", Unset, <<"3">>)), Checked(Input("checkbox", <<"=">>, <<"on">>)),
              Input("hidden", <<"h">>, <<" ">>), Input("image", Unset, <<>>), Input("reset", Unset, <<>>)>>),
    UrlForm(<<Input("index", Unset, Unset)>>),
    UrlForm(<<Selection("multi", <<"l">>, <<Option(<<"1">>, TRUE, TRUE), Option(<<"2">>, TRUE, FALSE), Option(<<"3">>, FALSE, TRUE)>>),
              Selection("select", <<"o">>, <<Option(<<>>, FALSE, TRUE), Option(<<"LF">>, FALSE, TRUE)>>),
              Input("password", <<"p">>, Unset)>>),
    FileForm(<<Input("file", <<"f">>, <<>>), Input("textarea", <<"t">>, <<>>),
               Input("image", <<"i">>, <<>>)>>) }
SomeTexts == {<<>>, <<"a", "LF">>, <<"B">>}
SomeFiles == (<<"x">> :> <<"B", "y">>) @@ (<<"z">> :> Unset)

SomeOptions == {"http_proxy", "load_images"}
SomeKinds == "http_proxy" :> "url" @@ "load_images" :> "plain"
SomeDefaults == "http_proxy" :> NoPref @@ "load_images" :> "YES"
SomeValues(o) == IF o = "load_images" THEN {"YES", "NO"} ELSE {NoPref, "proxy"}
Engine(u) == [valid |-> TRUE, url |-> <<"?", u, "=", "%", "s">>]
NoEngine == [valid |-> FALSE, url |-> <<"?">>]
SomeEngines == {Engine("a"), Engine("b"), NoEngine}
SomeDefaultEngines == <<Engine("a"), Engine("b")>>
SomeRcFiles == {[options |-> <<>>, engines |-> <<>>],
                [options |-> "http_proxy" :> "proxy",
                 engines |-> <<NoEngine, Engine("b")>>]}
=============================================================================
