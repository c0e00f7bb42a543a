------------------------------- MODULE Panels -------------------------------
(***************************************************************************)
(* The panels of a page (src/src/ui.cc, findbar.cc and the commands of     *)
(* uicmd.cc on them): the bars can be hidden and be shown for one entry    *)
(* only, the find bar lives as long as it has the focus, and the search    *)
(* box shows the name of the search engine while nothing is typed in it.   *)
(*                                                                         *)
(* The toolkit delivers a change of focus while the call that makes it is  *)
(* running: the widget that loses it may take the focus itself, and then   *)
(* the caller does not have it.  This is one page of those that Tabs keeps  *)
(* in the windows; it shares no variable with them.                        *)
(***************************************************************************)
EXTENDS Tabs

CONSTANTS EngineNames,  \* names of the search engines; one may be empty
          Boxes         \* the boxes that the preferences show_url and show_search allow

ASSUME BoxesAreKnown == Boxes \subseteq {"location", "search"}

VARIABLES barsShown,   \* Panelmode = UI_NORMAL: the bars are visible
          temporary,   \* PanelTemporary
          wished,      \* what the user last asked of the panels (history)
          finding,     \* the find bar is visible
          focus,       \* the widget with the keyboard
          box,         \* text of the search box: "", "typed" or the name of an engine
          grey,        \* ... which is in FL_INACTIVE_COLOR
          engine,      \* prefs.search_url_idx
          inFront      \* this page is the one its window shows

panelVars == <<barsShown, temporary, wished, finding, focus, box, grey, engine, inFront>>
boxVars == <<box, grey>>

Widgets == {"page", "location", "search", "find"}

\* take_focus refuses what is not visible; UI::customize has hidden the boxes that are
\* not wanted.
CanFocus(widget) ==
  CASE widget \in {"location", "search"} -> widget \in Boxes /\ barsShown'
    [] widget = "find" -> finding'
    [] OTHER -> TRUE

\* SearchInput::handle at FL_UNFOCUS and at FL_FOCUS: the name of the engine is put
\* in a box where nothing was typed, and taken out of it again.
BoxLeft == IF box = "" \/ grey THEN box' = engine /\ grey' = TRUE ELSE UNCHANGED boxVars
BoxEntered == IF grey THEN box' = "" /\ grey' = FALSE ELSE UNCHANGED boxVars

\* The search box where the focus goes from one widget to another.
BoxSees(from, to) ==
  IF from = "search" /\ to # "search" THEN BoxLeft
  ELSE IF to = "search" /\ from # "search" THEN BoxEntered
  ELSE UNCHANGED boxVars

\* Findbar's input loses the focus: the bar hides and the page takes the focus,
\* whatever the focus was for (MyInput::handle, findbar_toggle).
Hand(widget) ==
  LET taken == IF ~CanFocus(widget) THEN focus
               ELSE IF focus = "find" /\ widget # "find" THEN "page" ELSE widget
  IN  /\ focus' = taken
      /\ finding' = (taken = "find")
      \* A box that took the focus and lost it again is where it was.
      /\ IF focus = "find" /\ widget = "search" /\ CanFocus(widget)
         THEN UNCHANGED boxVars ELSE BoxSees(focus, taken)

\* Bars that hide take the focus away from their children (Fl_Widget::hide).
HideBars ==
  LET stays == IF focus \in {"location", "search"} THEN "page" ELSE focus
  IN  focus' = stays /\ BoxSees(focus, stays) /\ UNCHANGED finding

-----------------------------------------------------------------------------

\* UI::panels_toggle, as KEYS_HIDE_PANELS calls it: the user has decided.
HidePanels ==
  /\ inFront
  /\ barsShown' = ~barsShown
  /\ temporary' = FALSE
  /\ wished' = ~barsShown
  /\ IF barsShown THEN HideBars ELSE UNCHANGED <<focus, finding, boxVars>>
  /\ UNCHANGED <<engine, inFront>>

\* KEYS_GOTO and KEYS_WEBSEARCH: hidden panels are shown for this entry, also for a box
\* that the preferences leave out, which then does not take the focus.
GoTo(widget) ==
  /\ inFront
  /\ barsShown' = TRUE
  /\ temporary' = (temporary \/ ~barsShown)
  /\ Hand(widget)
  /\ UNCHANGED <<wished, engine, inFront>>

\* location_cb and search_cb: the entry is sent, and panels that were shown for it
\* go (panels_toggle).  A page that opens takes the focus (a_UIcmd_open_url).
Enter ==
  /\ inFront /\ focus \in {"location", "search"}
  /\ barsShown' = IF temporary THEN ~barsShown ELSE barsShown
  /\ focus' = "page"
  /\ BoxSees(focus, "page")
  /\ UNCHANGED <<temporary, wished, finding, engine, inFront>>

\* CustInput::handle: Escape gives the focus back; so does a click on the page.
\* In the find bar it hides the bar.
Leave ==
  /\ inFront /\ UNCHANGED barsShown /\ Hand("page")
  /\ UNCHANGED <<temporary, wished, engine, inFront>>

\* A click into one of the boxes.
ClickOn(widget) ==
  /\ inFront /\ barsShown /\ widget \in Boxes /\ UNCHANGED barsShown /\ Hand(widget)
  /\ UNCHANGED <<temporary, wished, engine, inFront>>

\* KEYS_FIND and the menu: findbar_toggle(1), and Findbar::show takes the focus.
Find ==
  /\ inFront
  /\ finding' = TRUE
  /\ focus' = "find" /\ BoxSees(focus, "find")
  /\ UNCHANGED <<barsShown, temporary, wished, engine, inFront>>

\* Text is typed into the search box, or deleted.
TypeQuery ==
  /\ inFront /\ focus = "search"
  /\ box' \in {"", "typed"} /\ UNCHANGED grey
  /\ UNCHANGED <<barsShown, temporary, wished, finding, focus, engine, inFront>>

\* a_UIcmd_search_popup, from the search box: searchmenu_cb has made the box take
\* the focus before the menu chooses the engine.
PickEngine(e) ==
  /\ inFront /\ focus = "search"
  /\ engine' = e
  /\ UNCHANGED <<barsShown, temporary, wished, finding, focus, boxVars, inFront>>

\* CustTabs::switch_tab to another page: this one is hidden, and its widgets lose
\* the focus.
TabAway ==
  /\ inFront
  /\ inFront' = FALSE
  /\ focus' = "page" /\ finding' = FALSE
  /\ BoxSees(focus, "page")
  /\ UNCHANGED <<barsShown, temporary, wished, engine>>

\* The engine is changed in another tab.
ChangedElsewhere(e) ==
  /\ ~inFront
  /\ engine' = e
  /\ UNCHANGED <<barsShown, temporary, wished, finding, focus, boxVars, inFront>>

\* switch_tab to this page: UI::handle at FL_SHOW renews the name in the box.
TabBack ==
  /\ ~inFront
  /\ inFront' = TRUE
  /\ BoxLeft
  /\ UNCHANGED <<barsShown, temporary, wished, finding, focus, engine>>

\* UI::UI: prefs.fullwindow_start hides the panels; make_location fills the box.
PanelInit ==
  /\ barsShown \in BOOLEAN /\ wished = barsShown
  /\ temporary = FALSE /\ finding = FALSE /\ focus = "page"
  /\ engine \in EngineNames /\ box = engine /\ grey = TRUE
  /\ inFront = TRUE

PanelNext ==
  \/ HidePanels \/ Enter \/ Leave \/ Find \/ TypeQuery \/ TabAway \/ TabBack
  \/ \E widget \in {"location", "search"} : GoTo(widget) \/ ClickOn(widget)
  \/ \E e \in EngineNames : PickEngine(e) \/ ChangedElsewhere(e)

PanelSpec == PanelInit /\ [][PanelNext]_panelVars

-----------------------------------------------------------------------------
\* Panels are other than the user asked for only while they are shown for an
\* entry, and the entry hides them: it never hides panels the user wants.
PanelsAreWished == barsShown # wished => barsShown /\ temporary

\* The find bar is never left behind without the keyboard, nor the keyboard with a
\* find bar that is hidden.
FindHasFocus == finding <=> focus = "find"

\* The name in the search box is that of the engine a search would use, and a box that
\* is not grey and not in use holds a query.
BoxIsCurrent ==
  inFront /\ focus # "search" => IF grey THEN box = engine ELSE box # ""

PanelsAreRight == PanelsAreWished /\ FindHasFocus /\ BoxIsCurrent

\* uicmd.cc, ui.cc: the tabs of the windows, and the panels in each of them, agree with
\* what the user sees and asked for.
WindowsAreRight == TabsAreOne /\ PanelsAreRight
=============================================================================
