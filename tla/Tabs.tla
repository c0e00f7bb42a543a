-------------------------------- MODULE Tabs --------------------------------
(***************************************************************************)
(* The windows and their tabs (src/src/uicmd.cc, CustTabs and the          *)
(* functions that open and close; the list of windows of src/src/bw.c).    *)
(*                                                                         *)
(* A tab exists three times: as a button of the bar (Pack), as a page      *)
(* (the UI, child of an Fl_Wizard) and as a BrowserWindow in the list bws. *)
(* Each is looked up from another by a search.  A page, its UI and its     *)
(* BrowserWindow share one identifier here; an identifier that is free     *)
(* again may be used again, as an address may.                             *)
(*                                                                         *)
(* What the wizard shows is not stored: it is the first child that is      *)
(* visible, and asking for it hides every other one (Fl_Wizard::value).    *)
(***************************************************************************)
EXTENDS Naturals, Sequences, FiniteSets, SequencesExt

CONSTANTS Tabs,        \* identifiers of tabs, naturals: bounds how many there are
          Windows,     \* identifiers of windows, naturals
          PageTitles       \* page titles

ASSUME IdentifiersAreNumbers == Tabs \subseteq Nat /\ Windows \subseteq Nat

\* DEFAULT_TAB_LABEL, and the empty label of a new UI.
NoTitle == "New Tab"

VARIABLES pack,        \* per window, the tab buttons from left to right
          wizard,      \* per window, the children of its Fl_Wizard
          visible,     \* the pages whose visible flag is set
          lit,         \* the tab buttons in the colour of the active tab
          collapsed,   \* the tab buttons that are hidden
          bar,         \* the windows whose tab bar has its height
          bws,         \* the list of browser windows
          label,       \* label of a page
          title,       \* title of a window
          always,      \* prefs.always_show_tabs
          asking,      \* the dialog that is open, or None
          leaving      \* the timeout of "close all" is pending

tabsVars == <<pack, wizard, visible, lit, collapsed, bar, bws, label, title,
              always, asking, leaving>>
\* What the dialog, the preference and the timeout do not change.
tabsOnly == <<pack, wizard, visible, lit, collapsed, bar, bws, label, title>>

NotAsking == [kind |-> "none", window |-> 0, count |-> 0]

OpenWindows == {w \in Windows : pack[w] # <<>>}
WindowOf(t) == CHOOSE w \in Windows : Contains(wizard[w], t)

\* The state the handlers work on, as one record: a handler is a composition of
\* functions on it.
State == [pack |-> pack, wizard |-> wizard, visible |-> visible, lit |-> lit,
          collapsed |-> collapsed, bar |-> bar, bws |-> bws, label |-> label,
          title |-> title]

Become(s) ==
  /\ pack' = s.pack
  /\ wizard' = s.wizard
  /\ visible' = s.visible
  /\ lit' = s.lit
  /\ collapsed' = s.collapsed
  /\ bar' = s.bar
  /\ bws' = s.bws
  /\ label' = s.label
  /\ title' = s.title

\* Fl_Wizard::value(): the first visible child, else the last one.
FirstShown(children, those) ==
  LET seen == {i \in DOMAIN children : children[i] \in those}
  IN  IF seen = {} THEN Last(children)
      ELSE children[CHOOSE i \in seen : \A j \in seen : i <= j]
WizardValue(s, w) == FirstShown(s.wizard[w], s.visible)

\* ... which stays the only visible one.  Fl_Wizard::value(kid) does the same for
\* a child of choice.
ShowOnly(s, w, t) ==
  [s EXCEPT !.visible = (@ \ ToSet(s.wizard[w])) \cup {t}]

Asked(s, w) == ShowOnly(s, w, WizardValue(s, w))

\* Position of a child of a group, 0 when it is not there (Fl_Group::find).
IndexIn(children, t) ==
  IF Contains(children, t) THEN CHOOSE i \in 1 .. Len(children) : children[i] = t ELSE 0

\* get_btn_idx: position of the button of a page.
ButtonIndex(s, w, t) == IndexIn(s.pack[w], t)

\* a_UIcmd_get_bw_by_widget finds one.
HasBw(s, t) == Contains(s.bws, t)

\* CustTabs::switch_tab.
SwitchTab(s0, w, t) ==
  LET s == Asked(s0, w)
      old == WizardValue(s, w)
      dark == IF ButtonIndex(s, w, old) # 0 THEN {old} ELSE {}
      shown == [ShowOnly(s, w, t) EXCEPT !.lit = (@ \ dark) \cup {t}]
  IN  IF t = old THEN s
      ELSE IF HasBw(s, t) THEN [shown EXCEPT !.title[w] = s.label[t]]
      ELSE shown

\* CustTabs::prev_tab and next_tab: around the ends.
PrevTab(s, w) ==
  LET i == ButtonIndex(s, w, WizardValue(s, w))
      n == Len(s.pack[w])
  IN  IF i = 0 THEN Asked(s, w)
      ELSE SwitchTab(s, w, s.pack[w][IF i > 1 THEN i - 1 ELSE n])

NextTab(s, w) ==
  LET i == ButtonIndex(s, w, WizardValue(s, w))
      n == Len(s.pack[w])
  IN  IF i = 0 THEN Asked(s, w)
      ELSE SwitchTab(s, w, s.pack[w][IF i < n THEN i + 1 ELSE 1])

\* CustTabs::add_new_tab: the page first, then its button; then the bar, the
\* focus and the lonely button.
AddNewTab(s, w, t, focus) ==
  LET page == [s EXCEPT !.wizard[w] = Append(@, t), !.visible = @ \cup {t},
                        !.label[t] = NoTitle]
      button == [page EXCEPT !.pack[w] = Append(@, t),
                             !.lit = IF focus THEN @ \cup {t} ELSE @ \ {t},
                             !.collapsed = @ \ {t}]
      count == Len(button.pack[w])
      barred == IF always \/ count = 2
                THEN [button EXCEPT !.bar = @ \cup {w},
                                    !.collapsed = @ \ {Head(button.pack[w])}]
                ELSE button
      focused == IF focus THEN SwitchTab(barred, w, t) ELSE barred
      alone == IF ~always /\ count = 1
               THEN [focused EXCEPT !.collapsed = @ \cup {t}] ELSE focused
  IN  Asked(alone, w)

\* UIcmd_tab_new: the title of the window is that of the new page when it has the
\* focus (switch_tab has found no BrowserWindow for it yet).
TabNew(s, w, t, focus) ==
  LET added == AddNewTab(s, w, t, focus)
      listed == [added EXCEPT !.bws = Append(@, t)]
  IN  IF focus THEN [listed EXCEPT !.title[w] = listed.label[t]] ELSE listed

\* A removal that forgets to show another tab first.
Mut_RemoveTab(s, w, t) ==
  LET gone == [s EXCEPT !.pack[w] = RemoveAt(@, IndexIn(@, t)),
                        !.wizard[w] = RemoveAt(@, IndexIn(@, t)),
                        !.visible = @ \ {t}, !.lit = @ \ {t},
                        !.collapsed = @ \ {t}]
  IN  IF ~always /\ Len(gone.pack[w]) = 1
      THEN [gone EXCEPT !.bar = @ \ {w}, !.collapsed = @ \cup {Head(gone.pack[w])}]
      ELSE gone

\* CustTabs::remove_tab: another tab is shown before the button and the page go.
RemoveTab(s0, w, t) ==
  LET s == Asked(s0, w)
      moved == IF WizardValue(s, w) # t THEN s
               ELSE IF ButtonIndex(s, w, t) > 1 THEN PrevTab(s, w) ELSE NextTab(s, w)
      gone == [moved EXCEPT !.pack[w] = RemoveAt(@, IndexIn(@, t)),
                            !.wizard[w] = RemoveAt(@, IndexIn(@, t)),
                            !.visible = @ \ {t}, !.lit = @ \ {t},
                            !.collapsed = @ \ {t}]
  IN  IF ~always /\ Len(gone.pack[w]) = 1
      THEN [gone EXCEPT !.bar = @ \ {w}, !.collapsed = @ \cup {Head(gone.pack[w])}]
      ELSE gone

\* a_List_remove, as a_Bw_free uses it: the last item takes the place.
ListRemove(list, t) ==
  IF Contains(list, t)
  THEN [i \in 1 .. Len(list) - 1 |-> IF list[i] = t THEN Last(list) ELSE list[i]]
  ELSE list

\* a_UIcmd_close_bw; a window without tabs is deleted.
CloseBw(s, t) ==
  LET w == CHOOSE x \in Windows : Contains(s.wizard[x], t)
      removed == RemoveTab(s, w, t)
      empty == removed.pack[w] = <<>>
  IN  [removed EXCEPT !.bar = IF empty THEN @ \ {w} ELSE @,
                      !.title[w] = IF empty THEN NoTitle ELSE @,
                      !.label[t] = NoTitle,
                      !.bws = ListRemove(@, t)]

-----------------------------------------------------------------------------
(* Opening: a window, or a tab beside a page.                              *)

Free == Tabs \ UNION {ToSet(wizard[w]) : w \in Windows}
FreshTab == CHOOSE t \in Free : \A u \in Free : t <= u

\* The user is held by a dialog; a timeout of zero seconds comes before the next
\* thing the user does.
Idle == asking = NotAsking /\ ~leaving

\* a_UIcmd_browser_window_new: from the command line (no window yet) or from a page.
BrowserWindowNew ==
  /\ Idle /\ Free # {} /\ OpenWindows # Windows
  /\ LET w == CHOOSE x \in Windows \ OpenWindows : \A y \in Windows \ OpenWindows : x <= y
     IN  Become(TabNew(State, w, FreshTab, TRUE))
  /\ UNCHANGED <<always, asking, leaving>>

\* a_UIcmd_open_url_nt.
OpenUrlNt(t, focus) ==
  /\ Idle /\ Free # {}
  /\ Become(TabNew(State, WindowOf(t), FreshTab, focus))
  /\ UNCHANGED <<always, asking, leaving>>

-----------------------------------------------------------------------------
(* Choosing and closing.                                                   *)

\* tab_btn_cb: the left button shows the tab, another closes it.  A hidden button
\* cannot be pressed, and a bar without height shows none.
TabBtnCb(w, t) ==
  /\ Idle /\ w \in bar /\ t \in ToSet(pack[w]) \ collapsed
  /\ \/ Become(SwitchTab(State, w, t))
     \/ Become(CloseBw(State, t))
  /\ UNCHANGED <<always, asking, leaving>>

\* close_tab_btn_cb and KEYS_CLOSE_TAB.
CloseTab(w) ==
  /\ Idle
  /\ Become(CloseBw(State, WizardValue(State, w)))
  /\ UNCHANGED <<always, asking, leaving>>

\* KEYS_LEFT_TAB and KEYS_RIGHT_TAB.
TurnTab(w) ==
  /\ Idle
  /\ Become(PrevTab(State, w)) \/ Become(NextTab(State, w))
  /\ UNCHANGED <<always, asking, leaving>>

\* "while (ntabs-- > 0)": the page that is shown is closed, n times over.
CloseShown(s, w, n) ==
  LET close[k \in 0 .. n] ==
        IF k = 0 THEN s ELSE CloseBw(close[k - 1], WizardValue(close[k - 1], w))
  IN  close[n]

\* win_cb: the window manager closes a window.  The number of tabs is taken
\* before the question; prefs.show_quit_dialog is set or not.
WinCb(w) ==
  /\ Idle
  /\ LET ntabs == Len(pack[w])
     IN  \/ /\ ntabs > 1
            /\ asking' = [kind |-> "window", window |-> w, count |-> ntabs]
            /\ UNCHANGED tabsOnly
         \/ /\ Become(CloseShown(State, w, ntabs))
            /\ UNCHANGED asking
  /\ UNCHANGED <<always, leaving>>

\* KEYS_CLOSE_ALL only sets a timeout.
CloseAll ==
  /\ Idle /\ bws # <<>>
  /\ leaving' = TRUE
  /\ UNCHANGED <<tabsOnly, always, asking>>

\* "while ((bw = a_Bw_get(0)))".
CloseFirst(s) ==
  LET n == Len(s.bws)
      close[k \in 0 .. n] == IF k = 0 THEN s ELSE CloseBw(close[k - 1], Head(close[k - 1].bws))
  IN  close[n]

\* a_UIcmd_close_all_bw.
CloseAllBw ==
  /\ leaving /\ asking = NotAsking
  /\ leaving' = FALSE
  /\ \/ /\ Len(bws) > 1
        /\ asking' = [kind |-> "all", window |-> 0, count |-> 0]
        /\ UNCHANGED tabsOnly
     \/ /\ Become(CloseFirst(State))
        /\ UNCHANGED asking
  /\ UNCHANGED always

\* The answer to a_Dialog_choice.
Answer(close) ==
  /\ asking # NotAsking
  /\ asking' = NotAsking
  /\ IF ~close THEN UNCHANGED tabsOnly
     ELSE IF asking.kind = "window"
          THEN Become(CloseShown(State, asking.window, asking.count))
          ELSE Become(CloseFirst(State))
  /\ UNCHANGED <<always, leaving>>

-----------------------------------------------------------------------------
(* Titles and the preference.                                              *)

\* a_UIcmd_set_page_title, when the title of a page arrives; also while a dialog
\* waits.  The window takes it only from the page that it shows.
SetPageTitle(t, name) ==
  /\ LET w == WindowOf(t)
         named == [Asked(State, w) EXCEPT !.label[t] = name]
     IN  Become(IF WizardValue(named, w) = t THEN [named EXCEPT !.title[w] = name] ELSE named)
  /\ UNCHANGED <<always, asking, leaving>>

\* The preferences dialog sets prefs.always_show_tabs; no bar changes by it.
Prefer ==
  /\ Idle /\ bws # <<>>
  /\ always' = ~always
  /\ UNCHANGED <<tabsOnly, asking, leaving>>

TabsInit ==
  /\ pack = [w \in Windows |-> <<>>] /\ wizard = [w \in Windows |-> <<>>]
  /\ visible = {} /\ lit = {} /\ collapsed = {} /\ bar = {} /\ bws = <<>>
  /\ label = [t \in Tabs |-> NoTitle] /\ title = [w \in Windows |-> NoTitle]
  /\ always \in BOOLEAN
  /\ asking = NotAsking /\ leaving = FALSE

TabsNext ==
  \/ BrowserWindowNew
  \/ \E t \in ToSet(bws), focus \in BOOLEAN : OpenUrlNt(t, focus)
  \/ \E w \in OpenWindows, t \in Tabs : TabBtnCb(w, t)
  \/ \E w \in OpenWindows : CloseTab(w) \/ TurnTab(w) \/ WinCb(w)
  \/ CloseAll \/ CloseAllBw \/ Prefer
  \/ \E close \in BOOLEAN : Answer(close)
  \/ \E t \in ToSet(bws), name \in PageTitles : SetPageTitle(t, name)

TabsSpec == TabsInit /\ [][TabsNext]_tabsVars

-----------------------------------------------------------------------------
\* A tab has its three parts: the buttons, the pages and the browser windows are
\* the same tabs, each once, and the buttons stand in the order of the pages.
PartsBelong ==
  /\ \A w \in Windows : pack[w] = wizard[w] /\ IsInjective(pack[w])
  /\ IsInjective(bws)
  /\ ToSet(bws) = UNION {ToSet(pack[w]) : w \in Windows}
  /\ \A v, w \in Windows : v # w => ToSet(pack[v]) \cap ToSet(pack[w]) = {}

\* What a window says is what it shows: of its buttons only that of the page it
\* shows has the active colour, and the title of the window is that page's.
ShownIsMarked ==
  \A w \in OpenWindows : LET t == WizardValue(State, w)
                  IN  /\ lit \cap ToSet(pack[w]) = {t}
                      /\ title[w] = label[t]
                      /\ visible \cap ToSet(pack[w]) = {t}

\* Every tab of a window with several can be reached: the bar has its height and
\* no button of it is hidden.
TabsReachable ==
  \A w \in OpenWindows : Len(pack[w]) > 1 => w \in bar /\ ToSet(pack[w]) \cap collapsed = {}

\* Whatever is opened, switched and closed in whatever order, the three
\* representations of the tabs stay one.
TabsAreOne == PartsBelong /\ ShownIsMarked /\ TabsReachable
=============================================================================
