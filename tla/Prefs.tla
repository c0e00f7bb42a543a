------------------------------- MODULE Prefs --------------------------------
(***************************************************************************)
(* The preferences and the search engines: src/src/prefs.c, prefsparser.cc,  *)
(* the dialog of prefsui.cc, and the search bar's uses of the engines in     *)
(* menu.cc and uicmd.cc.                                                    *)
(*                                                                         *)
(* An option is of a kind of SymNode_t, reduced to what matters for a file   *)
(* that is written and read again: "string", and "url", which is never       *)
(* quoted; numbers, colours and the like are "plain".  The URL of an engine  *)
(* is a sequence of characters.                                             *)
(***************************************************************************)
EXTENDS Integers, Sequences, SequencesExt

CONSTANTS Options,         \* the options
          Kind,            \* the kind of each
          Default,         \* the values a_Prefs_init sets
          PrefValues(_),       \* the values the dialog can give an option
          Engines,         \* the search engines the user and the file know
          DefaultEngines,  \* the ones a_Prefs_init adds
          RcFiles,         \* what dillorc may hold at first
          MaxEngines,      \* bound on the engines in the list
          NoPref            \* NULL

ASSUME EnginesAreLists ==
  /\ DefaultEngines \in Seq(Engines)
  /\ \A file \in RcFiles : file.engines \in Seq(Engines)

Valid(engine) == engine.valid

VARIABLES prefs,    \* the values of the options
          engines,  \* prefs.search_urls
          index,    \* prefs.search_url_idx
          rc,       \* the user's dillorc: its options and its search_url lines
          prefsDialog    \* the dialog: its values, its list and the line selected; or NoPref

prefsVars == <<prefs, engines, index, rc, prefsDialog>>

----------------------------------------------------------------------------
(* The file. *)

EmptyUrl == ""
Quoted(v) == "\"" \o v \o "\""

\* The file of values v and engines es.  writeOption leaves out NULL, and makes a comment
\* of an empty string.
Written(v, es) ==
    [options |-> [o \in {o \in Options : Kind[o] = "plain" \/ v[o] \notin {NoPref, EmptyUrl}} |-> v[o]],
     engines |-> es]

\* dParser_parse_rc_line takes the quotes from around a value.
Unquoted(v) ==
    IF \E o \in Options : \E w \in PrefValues(o) : Kind[o] # "plain" /\ w # NoPref /\ v = Quoted(w)
    THEN CHOOSE w \in UNION {PrefValues(o) : o \in Options} : w # NoPref /\ v = Quoted(w)
    ELSE v

\* PrefsParser::parse, over the defaults.  The first search_url line removes the defaults.
ReadOptions(file) ==
    [o \in Options |-> IF o \in DOMAIN file.options
                       THEN IF Kind[o] = "plain" THEN file.options[o] ELSE Unquoted(file.options[o])
                       ELSE Default[o]]
ReadEngines(file) == IF file.engines = <<>> THEN DefaultEngines ELSE file.engines

PrefsInit ==
    /\ rc \in RcFiles
    /\ prefs = ReadOptions(rc)
    /\ engines = ReadEngines(rc)
    /\ index = 0
    /\ prefsDialog = NoPref

\* PrefsUI_write
Write(v, es) == rc' = Written(v, es)

----------------------------------------------------------------------------
(* The dialog, which is modal. *)

OpenPrefs == prefsDialog # NoPref

\* make_search_tab: the lines of the list are those of the engines that can be parsed.
EngineLines(es) ==
    LET f[i \in 0..Len(es)] ==
            IF i = 0 THEN <<>> ELSE IF Valid(es[i]) THEN Append(f[i - 1], es[i]) ELSE f[i - 1]
    IN f[Len(es)]

\* PrefsDialog: the list has copies of the engines, the first selected.
OpenDialog ==
    /\ ~OpenPrefs
    /\ LET list == EngineLines(engines) IN
       prefsDialog' = [values |-> prefs, list |-> list, line |-> IF list = <<>> THEN 0 ELSE 1]
    /\ UNCHANGED <<prefs, engines, index, rc>>

InDialog == OpenPrefs /\ UNCHANGED <<prefs, engines, index, rc>>
OnLine == prefsDialog.line \in DOMAIN prefsDialog.list

SetOption(o) ==
    /\ InDialog
    /\ \E v \in PrefValues(o) : prefsDialog' = [prefsDialog EXCEPT !.values[o] = v]

SelectLine == InDialog /\ \E l \in DOMAIN prefsDialog.list : prefsDialog' = [prefsDialog EXCEPT !.line = l]

\* Search_edit accepts an engine only when its URL can be parsed.  Without a selected line
\* PrefsUI_search_edit_cb parses NULL; here it does nothing.
AddEngine ==
    /\ InDialog /\ Len(prefsDialog.list) < MaxEngines
    /\ \E e \in Engines : Valid(e) /\ prefsDialog' = [prefsDialog EXCEPT !.list = Append(@, e)]

EditEngine ==
    /\ InDialog /\ OnLine
    /\ \E e \in Engines : Valid(e) /\ prefsDialog' = [prefsDialog EXCEPT !.list[prefsDialog.line] = e]

\* PrefsUI_search_delete_cb: the line keeps its number, which the last one loses.
DeleteEngine ==
    /\ InDialog /\ OnLine /\ Len(prefsDialog.list) # 1
    /\ LET list == RemoveAt(prefsDialog.list, prefsDialog.line) IN
       prefsDialog' = [prefsDialog EXCEPT !.list = list,
                                !.line = IF @ \in DOMAIN list THEN @ ELSE 0]

\* PrefsUI_search_move_up_cb and _dn_cb.
MoveEngine ==
    /\ InDialog /\ OnLine
    /\ \E to \in {prefsDialog.line - 1, prefsDialog.line + 1} \cap DOMAIN prefsDialog.list :
          prefsDialog' = [prefsDialog EXCEPT !.list[prefsDialog.line] = prefsDialog.list[to],
                                   !.list[to] = prefsDialog.list[prefsDialog.line], !.line = to]

\* Seeded bug: the index is not looked at when the list gets shorter.
Mut_Apply ==
    /\ OpenPrefs
    /\ prefs' = prefsDialog.values
    /\ engines' = prefsDialog.list
    /\ index' = index
    /\ Write(prefs', engines')
    /\ prefsDialog' = NoPref

\* PrefsUI_return_cb
Apply ==
    /\ OpenPrefs
    /\ prefs' = prefsDialog.values
    /\ engines' = prefsDialog.list
    /\ index' = IF index >= Len(prefsDialog.list) THEN 0 ELSE index
    /\ Write(prefs', engines')
    /\ prefsDialog' = NoPref

CancelPrefs == InDialog /\ prefsDialog' = NoPref

----------------------------------------------------------------------------
(* Outside of the dialog. *)

\* a_PrefsUI_add_search, with the engine made from a form.
AddSearch(e) ==
    /\ ~OpenPrefs /\ Len(engines) < MaxEngines /\ Valid(e)
    /\ engines' = Append(engines, e)
    /\ Write(prefs, engines')
    /\ UNCHANGED <<prefs, index, prefsDialog>>

\* searchmenu_cb: the menu of a_Menu_search_popup ends before the first engine that cannot
\* be parsed, whose item has no label.
ChooseEngine ==
    /\ ~OpenPrefs
    /\ \E i \in 1..Len(engines) :
          (\A j \in 1..i : Valid(engines[j])) /\ index' = i - 1
    /\ UNCHANGED <<prefs, engines, rc, prefsDialog>>

\* The program ends, with or without a dialog, and starts again.
RestartPrefs ==
    /\ prefs' = ReadOptions(rc)
    /\ engines' = ReadEngines(rc)
    /\ index' = 0
    /\ prefsDialog' = NoPref
    /\ UNCHANGED rc

PrefsNext ==
    \/ OpenDialog \/ SelectLine \/ AddEngine \/ EditEngine \/ DeleteEngine \/ MoveEngine
    \/ \E o \in Options : SetOption(o)
    \/ Apply \/ CancelPrefs
    \/ \E e \in Engines : AddSearch(e)
    \/ ChooseEngine
    \/ RestartPrefs

PrefsSpec == PrefsInit /\ [][PrefsNext]_prefsVars

\* UIcmd_make_search_str, for an encoded query: "%s" is the query, "%%" a percent, and any
\* other specifier is dropped.
MakeSearch(url, keys) ==
    LET f[k \in 1..(Len(url) + 1)] ==
            IF k > Len(url) THEN <<>>
            ELSE IF url[k] # "%" THEN <<url[k]>> \o f[k + 1]
            ELSE IF k = Len(url) THEN <<>>
            ELSE (CASE url[k + 1] = "s" -> keys [] url[k + 1] = "%" -> <<"%">> [] OTHER -> <<>>)
                 \o f[k + 2]
    IN f[1]

----------------------------------------------------------------------------
(* Properties. *)

\* What is saved is what is read: after a restart the options and the engines are the ones
\* of the dialog (PrefsWriter and PrefsParser agree on every kind of option).
RestartKeepsPrefs ==
    [][rc' # rc => ReadOptions(rc') = prefs' /\ ReadEngines(rc') = engines']_prefsVars

\* The engine of the search bar is one of the list, however the list was edited, so that
\* a search finds a URL.
EngineExists == engines # <<>> => index + 1 \in DOMAIN engines
=============================================================================
