------------------------------ MODULE Findtext ------------------------------
(***************************************************************************)
(* The search in a page (dw/findtext.cc, called from findbar.cc through    *)
(* uicmd.cc).  The search keeps its key, the table of the                  *)
(* Knuth-Morris-Pratt algorithm, the place it goes on from and the place   *)
(* where the highlighted occurrence ends.                                  *)
(*                                                                         *)
(* When the user changes the direction while searching for one key, the    *)
(* table of the first direction is kept: what is found from then on is     *)
(* anything, up to the assertion in search.  turned tells these states.    *)
(***************************************************************************)
EXTENDS Content

CONSTANTS Keys,        \* the keys: sequences of characters
          Lower,       \* tolower, a function on the characters
          Blanks       \* the characters isspace holds of

VARIABLES page,        \* the page shown
          key,         \* FindtextState::key, or NoKey
          caseSens,
          nexttab,     \* indexed from 0
          direction,   \* whether the last search went backwards
          turned,      \* the table is not the one of the direction
          iterator,    \* FindtextState::iterator
          hlIterator,  \* FindtextState::hlIterator, or NoIterator
          light,       \* the highlighting of HIGHLIGHT_FINDTEXT
          result,      \* what the last call returned
          turn         \* changes with every call, so that no call is a stutter

findVars == <<page, key, caseSens, nexttab, direction, turned, iterator, hlIterator, light,
              result, turn>>

NoKey == <<>>
NoIterator == [at |-> -1, pos |-> 0]

charsEqual(c, d, sens) ==
  IF sens THEN c = d
  ELSE \/ c \in DOMAIN Lower /\ d \in DOMAIN Lower /\ Lower[c] = Lower[d]
       \/ c \in Blanks /\ d \in Blanks

Rev(k, backwards) == IF backwards THEN Reverse(k) ELSE k

(* FindtextState::createNexttab: entry i is the length of the longest      *)
(* border of the first i characters.                                       *)
createNexttab(needle, sens, backwards) ==
  LET k == Rev(needle, backwards)
      Fill[i \in 0 .. Len(k), j \in -1 .. Len(k), tab \in Seq(Int)] ==
        IF i >= Len(k) - 1 /\ i > 0 THEN tab
        ELSE IF j = -1 \/ charsEqual(k[i + 1], k[j + 1], sens)
        THEN Fill[i + 1, j + 1, Append(tab, j + 1)]
        ELSE Fill[i, tab[j + 1], tab]
  IN  Fill[0, -1, <<-1>>]

(* A new char iterator, moved to the first or to the last character.       *)
Begin(p, backwards) ==
  IF backwards THEN PrevChar(p, [at |-> Len(p) + 1, pos |-> 0])
  ELSE NextChar(p, StartOf(p))

(* A mutant: a key of two characters is looked for from where it was found. *)
Mut_Positioned(it, k, backwards, firstTrial) ==
  CASE backwards /\ ~firstTrial /\ Len(k) = 1 -> Behind(page, it, 2)
    [] backwards /\ ~firstTrial /\ Len(k) >= 4 -> Ahead(page, it, Len(k) - 3)
    [] backwards /\ firstTrial /\ Len(k) = 1 -> Ahead(page, it, 1)
    [] OTHER -> it

(* FindtextState::search0: the iterator is put where the scan starts, then *)
(* the scan compares, and falls back in the key by the table.              *)
Positioned(it, k, backwards, firstTrial) ==
  CASE backwards /\ ~firstTrial /\ Len(k) = 1 -> Behind(page, it, 2)
    [] backwards /\ ~firstTrial /\ Len(k) = 2 -> Behind(page, it, 1)
    [] backwards /\ ~firstTrial /\ Len(k) >= 4 -> Ahead(page, it, Len(k) - 3)
    [] backwards /\ firstTrial /\ Len(k) = 1 -> Ahead(page, it, 1)
    [] OTHER -> it

Iterators == [at: Int, pos: Int]

search0(it, k, sens, tab, backwards, firstTrial) ==
  LET needle == Rev(k, backwards)
      More(x) == IF backwards THEN x.at > 0 ELSE x.at <= Len(page)
      Move(x) == IF backwards THEN PrevChar(page, x) ELSE NextChar(page, x)
      Scan[x \in Iterators, j \in -1 .. Len(k)] ==
        IF j = -1 \/ charsEqual(CharAt(page, x), needle[j + 1], sens)
        THEN IF More(Move(x)) /\ j + 1 < Len(k) THEN Scan[Move(x), j + 1]
             ELSE [it |-> Move(x), j |-> j + 1]
        ELSE Scan[x, tab[j + 1]]
      end == Scan[Positioned(it, k, backwards, firstTrial), 0]
  IN  IF CharAt(page, it) = "END" THEN [found |-> FALSE, it |-> it]
      ELSE IF end.j < Len(k) THEN [found |-> FALSE, it |-> end.it]
      ELSE [found |-> TRUE,
            it |-> IF backwards THEN NextChar(page, end.it)
                   ELSE Behind(page, end.it, Len(k))]

(* FindtextState::unhighlight.                                             *)
Cleared == IF hlIterator = NoIterator THEN light
           ELSE UnhighlightChars(page, light, Behind(page, hlIterator, Len(key)), hlIterator)

(* The successful end of FindtextState::search.                            *)
Show(found, k, lights) ==
  LET end == Ahead(page, found.it, Len(k)) IN
    /\ hlIterator' = end
    /\ light' = HighlightChars(page, lights, found.it, end)
    /\ iterator' = NextChar(page, found.it)

(* FindtextState::search.  The third outcome is the assertion that a       *)
(* restarted search succeeds.                                              *)
Search(k, sens, backwards) ==
  LET newKey == key = NoKey \/ caseSens # sens \/ key # k
      tab == IF newKey THEN createNexttab(k, sens, backwards) ELSE nexttab
      firstTrial == hlIterator = NoIterator \/ newKey
      start == IF newKey THEN Begin(page, backwards) ELSE iterator
      first == search0(start, k, sens, tab, backwards, firstTrial)
      again == search0(Begin(page, backwards), k, sens, tab, backwards, TRUE)
  IN  /\ result # "ABORT"
      /\ key' = k /\ caseSens' = sens /\ nexttab' = tab
      /\ direction' = backwards
      /\ turned' = (~newKey /\ turned # (backwards # direction))
      /\ turn' = ~turn
      /\ \/ /\ first.found
            /\ result' = "SUCCESS"
            /\ Show(first, k, Cleared)
         \/ /\ ~first.found /\ firstTrial
            /\ result' = "NOT_FOUND"
            /\ iterator' = first.it /\ hlIterator' = NoIterator /\ light' = Cleared
         \/ /\ ~first.found /\ ~firstTrial /\ again.found
            /\ result' = "RESTART"
            /\ Show(again, k, Cleared)
         \/ /\ ~first.found /\ ~firstTrial /\ ~again.found
            /\ result' = "ABORT"
            /\ iterator' = again.it /\ hlIterator' = NoIterator /\ light' = Cleared
      /\ UNCHANGED page

(* FindtextState::resetSearch: the find bar is closed.                     *)
ResetSearch ==
  /\ key # NoKey /\ result # "ABORT"
  /\ light' = Cleared
  /\ key' = NoKey /\ hlIterator' = NoIterator
  /\ UNCHANGED <<page, caseSens, nexttab, direction, turned, iterator, result, turn>>

(* Layout::setWidget and FindtextState::setWidget: another page is shown,  *)
(* its textblocks are new.                                                 *)
SetWidget(p) ==
  /\ p # page /\ result # "ABORT"
  /\ page' = p
  /\ key' = NoKey /\ nexttab' = <<>> /\ caseSens' = FALSE /\ direction' = FALSE
  /\ turned' = FALSE
  /\ iterator' = StartOf(p) /\ hlIterator' = NoIterator
  /\ light' = Dark
  /\ result' = "NONE"
  /\ turn' = FALSE

FindInit ==
  /\ page \in Documents
  /\ key = NoKey /\ caseSens = FALSE /\ nexttab = <<>> /\ direction = FALSE
  /\ turned = FALSE
  /\ iterator = StartOf(page) /\ hlIterator = NoIterator
  /\ light = Dark
  /\ result = "NONE"
  /\ turn = FALSE

\* The buttons of the find bar, and typing into it; an empty key is not searched.
search_cb == \E k \in Keys, sens \in BOOLEAN : Search(k, sens, FALSE)
searchBackwards_cb == \E k \in Keys, sens \in BOOLEAN : Search(k, sens, TRUE)

FindNext ==
  \/ search_cb
  \/ searchBackwards_cb
  \/ ResetSearch
  \/ \E p \in Documents : SetWidget(p)

FindSpec == FindInit /\ [][FindNext]_findVars

-----------------------------------------------------------------------------
(* The text of the page, character by character: for each its word and its *)
(* position there.                                                         *)
Places(p) ==
  FlattenSeq([n \in DOMAIN p |->
                IF p[n].kind = "break" THEN <<[at |-> n, pos |-> 0]>>
                ELSE [i \in 1 .. Chars(p, n) |-> [at |-> n, pos |-> i - 1]]])

(* Where a key occurs.                                                     *)
Occurrences(p, k, sens) ==
  LET text == Places(p) IN
    {o \in 1 .. Len(text) - Len(k) + 1 :
       \A i \in 1 .. Len(k) : charsEqual(CharAt(p, text[o + i - 1]), k[i], sens)}

Nearest(S) == CHOOSE x \in S : \A y \in S : x <= y
Greatest(S) == CHOOSE x \in S : \A y \in S : x >= y

(* The occurrence that is highlighted: the iterator is one past its start. *)
Current ==
  IF hlIterator = NoIterator THEN 0
  ELSE LET text == Places(page)
           start == PrevChar(page, iterator)
       IN  CHOOSE o \in DOMAIN text : text[o].at = start.at
             /\ (IsText(page, start.at) => text[o].pos = start.pos)

(* The one case in which the search stays where it is: backwards, for one  *)
(* character, from an occurrence at the very end of the page.              *)
StuckAtEnd(k, backwards) ==
  backwards /\ Len(k) = 1 /\ Current = Len(Places(page))

(* Every call finds what the page says: the next occurrence of the key     *)
(* after (before) the one shown; when there is none, the first (last) of   *)
(* the page, with RESTART; NOT_FOUND only when the key does not occur at   *)
(* all: a search that starts again finds something ("We expect a           *)
(* success").  FindtextState::search, with the table of its direction.     *)
Finds(k, sens, backwards) ==
  LET all == Occurrences(page, k, sens)
      Best(S) == IF backwards THEN Greatest(S) ELSE Nearest(S)
      fresh == key # k \/ caseSens # sens \/ Current = 0
      rest == IF fresh THEN all
              ELSE {o \in all : IF backwards THEN o < Current ELSE o > Current}
  IN  IF rest # {} THEN result' = "SUCCESS" /\ Current' = Best(rest)
      ELSE IF all # {} THEN result' = "RESTART" /\ Current' = Best(all)
      ELSE result' = "NOT_FOUND" /\ Current' = 0

SearchIsRight ==
  [][key' # NoKey /\ page' = page /\ ~turned'
       => \/ key = key' /\ StuckAtEnd(key', direction')
          \/ Finds(key', caseSens', direction')]_findVars

(* What is highlighted is the occurrence that was found, no more, and no   *)
(* less but for a last character that ends the page (CharIterator::        *)
(* highlight steps back from END by one character).                        *)
FoundIsShown ==
  LET text == Places(page)
      found == IF Current = 0 THEN {}
               ELSE {<<text[o].at, text[o].pos + 1>> :
                       o \in Current .. Current + Len(key) - 1}
      last == <<Len(page), Len(page[Len(page)].text)>>
      words == UNION {{<<n, p>> : p \in 1 .. Len(page[n].text)} : n \in DOMAIN page}
  IN  /\ Lit(page, light) \subseteq found
      /\ (found \cap words) \ {last} \subseteq Lit(page, light)

(* findtext.cc: a search finds the next occurrence, and shows that one.    *)
SearchIsSound == []FoundIsShown /\ SearchIsRight

=============================================================================
