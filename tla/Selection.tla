----------------------------- MODULE Selection -----------------------------
(***************************************************************************)
(* Selecting text with the mouse (dw/selection.cc; the events come from    *)
(* Textblock::sendSelectionEvent).  Two machines share the events: the     *)
(* selection, and the link the button was pressed on.  The selected region *)
(* lies between two words of the page, each with a character; its          *)
(* highlighting is adjusted to every motion by as little as possible.      *)
(***************************************************************************)
EXTENDS Content

CONSTANT Buttons       \* the buttons the user uses on links

VARIABLES document,
          held,        \* the buttons that are down
          start,       \* where button 1 went down: a word and a character
          selectionState, from, to,      \* a limit is [at, ch]
          linkState, linkButton, link, linkNumber,
          lamp,        \* the highlighting of HIGHLIGHT_SELECTION
          left         \* the textblocks where a click without a selection left its mark

selVars == <<document, held, start, selectionState, from, to, linkState, linkButton,
             link, linkNumber, lamp, left>>

NoLimit == [at |-> 0, ch |-> 0]

Limit(at, ch) == [at |-> at, ch |-> ch]

Before(a, b) == a.at < b.at

(* SelectionState::highlight0 between two limits: every text word between  *)
(* them is highlighted, or taken out of the region in a direction.         *)
Lighten(lights, a, b) ==
  IF a.at = b.at
  THEN Highlight(document, lights, a.at, IF a.ch < b.ch THEN a.ch ELSE b.ch,
                 IF a.ch < b.ch THEN b.ch ELSE a.ch)
  ELSE LET lo == IF Before(a, b) THEN a ELSE b
           hi == IF Before(a, b) THEN b ELSE a
           Step(l, n) ==
             IF ~IsText(document, n) THEN l
             ELSE Highlight(document, l, n, IF n = lo.at THEN lo.ch ELSE 0,
                            IF n = hi.at THEN hi.ch ELSE Size(document, n) + 1)
       IN  FoldLeft(Step, lights, From(lo.at, hi.at))

Darken(lights, a, b, dir) ==
  IF a.at = 0 THEN lights
  ELSE IF a.at = b.at THEN Unhighlight(document, lights, a.at, 0)
  ELSE LET lo == IF Before(a, b) THEN a ELSE b
           hi == IF Before(a, b) THEN b ELSE a
           Step(l, n) == IF IsText(document, n) THEN Unhighlight(document, l, n, dir) ELSE l
       IN  FoldLeft(Step, lights, From(lo.at, hi.at))

(* A mutant: a change of the order of the limits is overlooked.            *)
Mut_Adjusted(new) ==
  LET cmpOld == to.at - from.at
      cmpNew == new.at - from.at
      cmpDiff == new.at - to.at
      shrunk == IF cmpOld * cmpDiff < 0 THEN Darken(lamp, to, new, cmpDiff) ELSE lamp
  IN  IF cmpOld = 0 \/ cmpNew = 0
      THEN Lighten(Darken(lamp, from, to, 0), from, new)
      ELSE IF cmpOld * cmpDiff > 0
      THEN IF cmpDiff < 0
           THEN Lighten(lamp, new, Limit(to.at, Size(document, to.at) + 1))
           ELSE Lighten(lamp, Limit(to.at, 0), new)
      ELSE IF cmpOld < 0
      THEN Highlight(document, shrunk, new.at, new.ch, Size(document, new.at) + 1)
      ELSE Highlight(document, shrunk, new.at, 0, new.ch)

(* SelectionState::adjustSelection: the new highlighting when the second   *)
(* limit moves.                                                            *)
Adjusted(new) ==
  LET cmpOld == to.at - from.at
      cmpNew == new.at - from.at
      cmpDiff == new.at - to.at
      brute == cmpOld = 0 \/ cmpNew = 0 \/ cmpOld * cmpNew < 0
      shrunk == IF cmpOld * cmpDiff < 0 THEN Darken(lamp, to, new, cmpDiff) ELSE lamp
  IN  IF brute THEN Lighten(Darken(lamp, from, to, 0), from, new)
      ELSE IF cmpOld * cmpDiff > 0
      THEN IF cmpDiff < 0
           THEN Lighten(lamp, new, Limit(to.at, Size(document, to.at) + 1))
           ELSE Lighten(lamp, Limit(to.at, 0), new)
      ELSE IF cmpOld < 0
      THEN Highlight(document, shrunk, new.at, new.ch, Size(document, new.at) + 1)
      ELSE Highlight(document, shrunk, new.at, 0, new.ch)

(* SelectionState::copy, called when a selection is finished: what lies between *)
(* the limits, character by character; a break is one character, and two   *)
(* when it has a gap.                                                      *)
Copy(a, b) ==
  LET lo == IF Before(a, b) THEN a ELSE b
      hi == IF Before(a, b) THEN b ELSE a
      Part(n, first, last) == [i \in 1 .. (last - first) |-> <<n, first + i>>]
      Word(n) ==
        Part(n, IF n = lo.at THEN lo.ch ELSE 0,
             IF n = hi.at THEN hi.ch
             ELSE Len(document[n].text) + (IF document[n].space THEN 1 ELSE 0))
      Break(n) == IF document[n].gap THEN <<<<n, 1>>, <<n, 2>>>> ELSE <<<<n, 1>>>>
  IN  IF a.at = b.at
      THEN IF ~IsText(document, a.at) THEN <<>>
           ELSE IF a.ch < b.ch THEN Part(a.at, a.ch, b.ch) ELSE Part(a.at, b.ch, a.ch)
      ELSE FoldLeft(LAMBDA s, n: s \o (IF IsText(document, n) THEN Word(n) ELSE Break(n)),
                    <<>>, From(lo.at, hi.at))

-----------------------------------------------------------------------------
(* SelectionState::switchLinkToSelection, on a limit under the pointer.    *)
SwitchLinkToSelection(new) ==
  /\ from' = link /\ to' = new
  /\ selectionState' = "SELECTING"
  /\ lamp' = Lighten(Darken(lamp, from, to, 0), link, new)
  /\ linkState' = "NONE" /\ link' = NoLimit

(* SelectionState::buttonPress on a link, and elsewhere with button 1.     *)
Press(p, button) ==
  /\ button \notin held
  /\ held' = held \cup {button}
  /\ start' = IF button = 1 THEN p ELSE start
  /\ IF document[p.at].link # -1
     THEN /\ linkState' = "PRESSED" /\ linkButton' = button
          /\ link' = p /\ linkNumber' = document[p.at].link
          /\ UNCHANGED <<selectionState, from, to, lamp>>
     ELSE /\ IF button = 1
             THEN /\ selectionState' = "SELECTING" /\ from' = p /\ to' = p
                  /\ lamp' = Darken(lamp, from, to, 0)
             ELSE UNCHANGED <<selectionState, from, to, lamp>>
          /\ UNCHANGED <<linkState, linkButton, link, linkNumber>>
  /\ UNCHANGED document

(* The normal end of a selection, in SelectionState::buttonRelease, when   *)
(* the limits were first and second.                                       *)
Finish(first, second, lights) ==
  /\ lamp' = lights
  /\ IF first = second
     THEN selectionState' = "NONE" /\ from' = NoLimit /\ to' = NoLimit
     ELSE selectionState' = "SELECTED" /\ from' = first /\ to' = second

(* SelectionState::buttonRelease: on the link that was pressed, elsewhere  *)
(* after a link was pressed, and the end of a selection.                   *)
Release(p, button) ==
  LET here == document[p.at].link
      onLink == linkState = "PRESSED" /\ button = linkButton
  IN  /\ button \in held
      /\ held' = held \ {button}
      /\ \/ /\ onLink /\ here = linkNumber
            /\ linkState' = "NONE" /\ link' = NoLimit
            /\ IF selectionState = "SELECTING" /\ button = 1
               THEN Finish(from, p, Adjusted(p))
               ELSE UNCHANGED <<selectionState, from, to, lamp>>
         \/ /\ onLink /\ here # linkNumber /\ button = 1
            /\ linkState' = "NONE" /\ link' = NoLimit
            /\ LET lights == Lighten(Darken(lamp, from, to, 0), link, p) IN
                 Finish(link, p,
                        IF p.at = link.at
                        THEN Lighten(Darken(lights, link, p, 0), link, p)
                        ELSE IF p.at < link.at
                        THEN Highlight(document, lights, p.at, p.ch, Size(document, p.at) + 1)
                        ELSE Highlight(document, lights, p.at, 0, p.ch))
         \/ /\ ~onLink \/ (here # linkNumber /\ button # 1)
            /\ IF selectionState = "SELECTING" /\ button = 1
               THEN Finish(from, p, Adjusted(p))
               ELSE UNCHANGED <<selectionState, from, to, lamp>>
            /\ UNCHANGED <<linkState, link>>
      /\ start' = IF button = 1 THEN NoLimit ELSE start
      /\ UNCHANGED <<document, linkButton, linkNumber>>

(* SelectionState::buttonMotion; the textblock passes a motion on only     *)
(* while button 1 is down.                                                 *)
Motion(p) ==
  /\ 1 \in held
  /\ IF linkState = "PRESSED"
     THEN /\ document[p.at].link # linkNumber
          /\ SwitchLinkToSelection(p)
     ELSE /\ selectionState = "SELECTING"
          /\ to' = p /\ lamp' = Adjusted(p)
          /\ UNCHANGED <<selectionState, from, linkState, link>>
  /\ UNCHANGED <<document, held, start, linkButton, linkNumber>>

(* What the pointer may be on: a word and a character of it, as            *)
(* SelectionState::correctCharPos limits it.                               *)
Points == UNION {{Limit(n, c) : c \in 0 .. Size(document, n)} : n \in DOMAIN document}

SelectionInit ==
  /\ document \in Documents
  /\ held = {} /\ start = NoLimit
  /\ selectionState = "NONE" /\ from = NoLimit /\ to = NoLimit
  /\ linkState = "NONE" /\ linkButton = 0 /\ link = NoLimit /\ linkNumber = -1
  /\ lamp = Dark
  /\ left = {}

(* The mark a click leaves: the empty region of its word stays highlighted *)
(* until the highlighting of its textblock is reset.                       *)
Leave(new) ==
  left' = {w \in left \cup new : lamp'[w].hlStart.index <= lamp'[w].hlEnd.index}

Clicked(p) == IF selectionState' = "NONE" THEN {document[p.at].widget} ELSE {}

SelectionNext ==
  \/ \E p \in Points, b \in Buttons : Press(p, b) /\ Leave({})
  \/ \E p \in Points, b \in Buttons : Release(p, b) /\ Leave(Clicked(p))
  \/ \E p \in Points : Motion(p) /\ Leave({})

SelectionSpec == SelectionInit /\ [][SelectionNext]_selVars

-----------------------------------------------------------------------------
(* The characters of the text words between two limits.                    *)
Between(a, b) ==
  LET lo == IF Before(a, b) \/ (a.at = b.at /\ a.ch < b.ch) THEN a ELSE b
      hi == IF lo = a THEN b ELSE a
  IN  {x \in UNION {{<<n, p>> : p \in 1 .. Len(document[n].text)} : n \in DOMAIN document} :
         /\ x[1] \in lo.at .. hi.at
         /\ x[1] = lo.at => x[2] > lo.ch
         /\ x[1] = hi.at => x[2] <= hi.ch}

(* While there is a selection, all that lies between its limits is         *)
(* highlighted, and nothing else, but in a textblock where an earlier      *)
(* click has left its mark (SelectionState::adjustSelection); what is      *)
(* copied is what is highlighted (SelectionState::copy).                   *)
LitIsBetween ==
  LET lit == Lit(document, lamp)
      right == Between(from, to)
  IN  /\ right \subseteq lit
      /\ \A x \in lit \ right : document[x[1]].widget \in left

CopiedIsBetween ==
  LET copied == Copy(from, to) IN
    /\ {x \in ToSet(copied) : /\ IsText(document, x[1])
                              /\ x[2] <= Len(document[x[1]].text)} = Between(from, to)
    /\ \A i \in 1 .. Len(copied) - 1 :
         copied[i][1] < copied[i + 1][1]
           \/ (copied[i][1] = copied[i + 1][1] /\ copied[i][2] < copied[i + 1][2])

(* A selection begins where the button went down, whatever happened to     *)
(* links and other buttons before (SelectionState::switchLinkToSelection). *)
StartsWherePressed == selectionState = "SELECTING" /\ 1 \in held => from = start

(* The selection the user sees is the one made with the mouse and the one  *)
(* that is copied.                                                         *)
SelectionIsRight ==
  /\ selectionState # "NONE" => LitIsBetween
  /\ selectionState = "SELECTED" => CopiedIsBetween
  /\ StartsWherePressed
=============================================================================
