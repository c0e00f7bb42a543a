------------------------------- MODULE Content -------------------------------
(***************************************************************************)
(* What a page looks like to the search and to the selection               *)
(* (dw/iterator.cc, and the iterator and the highlighting of               *)
(* dw/textblock.cc).  A deep iterator walks the tree of widgets and never  *)
(* returns a widget, so a page is here the sequence of the words it        *)
(* visits: the text words and the breaks, each with the textblock that     *)
(* holds it and its index there.                                           *)
(*                                                                         *)
(* A char iterator is a word and a position in it.  Word 0 is START, the   *)
(* one after the last is END.  The position keeps its old value on a break.*)
(* A word has the widget and index it is found at, its text, whether a     *)
(* space or a gap between blocks follows, and its link, or -1.             *)
(***************************************************************************)
EXTENDS Integers, Sequences, FiniteSets, SequencesExt

CONSTANTS Widgets,    \* the textblocks
          Documents   \* the pages that may be shown

IsText(page, n) == n \in 1 .. Len(page) /\ page[n].kind = "text"

Size(page, n) == IF IsText(page, n) THEN Len(page[n].text) ELSE 1

Chars(page, n) == Len(page[n].text) + (IF page[n].space THEN 1 ELSE 0)

StartOf(page) == [at |-> 0, pos |-> 0]

(* CharIterator::getChar. *)
CharAt(page, c) ==
  CASE c.at = 0 -> "START"
    [] c.at > Len(page) -> "END"
    [] page[c.at].kind = "break" -> "\n"
    [] c.pos = Len(page[c.at].text) -> " "
    [] OTHER -> page[c.at].text[c.pos + 1]

(* CharIterator::next: the space after a word is a character of its own.   *)
NextChar(page, c) ==
  IF IsText(page, c.at) /\ c.pos + 1 < Chars(page, c.at)
  THEN [c EXCEPT !.pos = @ + 1]
  ELSE LET n == IF c.at > Len(page) THEN c.at ELSE c.at + 1
       IN  [at |-> n,
            pos |-> IF IsText(page, n) THEN 0
                    ELSE IF IsText(page, c.at) THEN Len(page[c.at].text) ELSE c.pos]

PrevChar(page, c) ==
  IF IsText(page, c.at) /\ c.pos > 0
  THEN [c EXCEPT !.pos = @ - 1]
  ELSE LET n == IF c.at = 0 THEN 0 ELSE c.at - 1
       IN  [at |-> n, pos |-> IF IsText(page, n) THEN Chars(page, n) - 1 ELSE c.pos]

Ahead(page, c, n) == FoldLeft(LAMBDA x, i: NextChar(page, x), c, [i \in 1 .. n |-> i])
Behind(page, c, n) == FoldLeft(LAMBDA x, i: PrevChar(page, x), c, [i \in 1 .. n |-> i])

-----------------------------------------------------------------------------
(* The highlighting of a textblock in one layer: a first and a last word,  *)
(* each with a character; nothing when the first is after the last.        *)
NoLight == [hlStart |-> [index |-> 1, nChar |-> 0], hlEnd |-> [index |-> 0, nChar |-> 0]]

Dark == [w \in Widgets |-> NoLight]

(* TextblockIterator::highlight: the region of the textblock grows to the  *)
(* word, and is never cut.                                                 *)
Highlight(page, light, n, start, end) ==
  LET w == page[n].widget
      i == page[n].index
      old == light[w]
      empty == old.hlStart.index > old.hlEnd.index
  IN  [light EXCEPT ![w] =
         [hlStart |-> IF empty \/ old.hlStart.index >= i
                      THEN [index |-> i, nChar |-> start] ELSE old.hlStart,
          hlEnd |-> IF empty \/ old.hlEnd.index <= i
                    THEN [index |-> i, nChar |-> end] ELSE old.hlEnd]]

Infinite == 1000

(* TextblockIterator::unhighlight.                                         *)
Unhighlight(page, light, n, direction) ==
  LET w == page[n].widget
      i == page[n].index
      old == light[w]
  IN  CASE old.hlStart.index > old.hlEnd.index -> light
        [] direction = 0 ->
             [light EXCEPT ![w].hlStart.index = 1, ![w].hlEnd.index = 0]
        [] direction > 0 /\ old.hlStart.index <= i ->
             [light EXCEPT ![w].hlStart = [index |-> i + 1, nChar |-> 0]]
        [] direction < 0 /\ old.hlEnd.index >= i ->
             [light EXCEPT ![w].hlEnd = [index |-> i - 1, nChar |-> Infinite]]
        [] OTHER -> light

(* The words from one to another, in the order an iterator visits them.    *)
From(first, last) == [k \in 1 .. (last - first + 1) |-> first + k - 1]

(* CharIterator::highlight.                                                *)
HighlightChars(page, light, c1, c) ==
  LET c2 == IF CharAt(page, c) = "END" THEN PrevChar(page, c) ELSE c
      Step(l, n) ==
        Highlight(page, l, n, IF n = c1.at THEN c1.pos ELSE 0,
                  IF n = c2.at THEN c2.pos ELSE Size(page, n))
  IN  FoldLeft(Step, light, From(c1.at, c2.at))

(* CharIterator::unhighlight.                                              *)
UnhighlightChars(page, light, c1, c2) ==
  IF c1.at = c2.at THEN Unhighlight(page, light, c1.at, 0)
  ELSE FoldLeft(LAMBDA l, n: IF n > Len(page) THEN l
                             ELSE Unhighlight(page, l, n, -1),
                light, From(c1.at, c2.at))

(* The characters Textblock::drawText shows highlighted.                   *)
Lit(page, light) ==
  {x \in UNION {{<<n, p>> : p \in 1 .. Len(page[n].text)} : n \in DOMAIN page} :
     LET i == page[x[1]].index
         l == light[page[x[1]].widget]
     IN  /\ i \in l.hlStart.index .. l.hlEnd.index
         /\ i = l.hlStart.index => x[2] > l.hlStart.nChar
         /\ i = l.hlEnd.index => x[2] <= l.hlEnd.nChar}
=============================================================================
