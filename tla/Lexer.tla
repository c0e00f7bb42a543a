-------------------------------- MODULE Lexer --------------------------------
(***************************************************************************)
(* The tokens of a page, Html_write_raw of src/src/html.cc and what it calls: *)
(* spaces, words, entities, comments, tags with their attributes, and the     *)
(* content of elements that is not HTML.                                    *)
(*                                                                         *)
(* The page arrives in pieces; each time the parser is called with all that   *)
(* has come and goes on from Start_Ofs, the first token it did not finish.   *)
(* What the elements do to the page is module Html: here an element is a      *)
(* parse mode.  A character is a string, the end of the buffer (its NUL) Nul; *)
(* text is a sequence of characters, with Gap for the space between words.   *)
(***************************************************************************)
EXTENDS Integers, Sequences, SequencesExt, FiniteSetsExt

CONSTANTS Pages,    \* the pages that may arrive
          Modes,    \* parse mode of each element: body, line, pre, stash or verbatim
          Wanted,   \* the attribute that the page's tags are asked for
          Entities, \* the names, and the numbers as text, of characters
          MaxPiece, \* bound on how much arrives at once, if not all the rest does
          Tab       \* TAB_SIZE: 8 in the code

ASSUME LexerTab == Tab \in Nat \ {0}

VARIABLES arriving, \* the page
          arrived,  \* how much of it has come, BufSize
          lex,      \* DilloHtml: what has been read, and the parser's state
          eof       \* the last call was made

lexerVars == <<arriving, arrived, lex, eof>>

Nul == ""
Gap == "gap"
NoValue == <<"no value">>
Newlines == {"\r", "\n"}
Space == {" ", "\t"} \cup Newlines
Quotes == {"'", "\""}
Digit == {"0", "1", "2"}
Marks == {"<", ">", "/", "!", "?", "-", "=", "&", ";", "#"}
Alpha(c) == c \notin Space \cup Quotes \cup Digit \cup Marks \cup {Nul}

\* DilloHtml::DilloHtml.  at: Start_Ofs; text, tags and titles: what the page is made of.
NewLex ==
    [at |-> 1, open |-> <<>>, text |-> <<>>, tags |-> <<>>, stash |-> <<>>,
     stashes |-> <<>>, stashSpace |-> FALSE, cr |-> FALSE, first |-> FALSE, column |-> 0]

Char(buf, i) == IF i <= Len(buf) THEN buf[i] ELSE Nul
\* strcspn
Upto(buf, i, stops) ==
    Min({j \in i .. Len(buf) : buf[j] \in stops} \cup {Len(buf) + 1})
After(buf, i, run) ==
    Min({j \in i .. Len(buf) : buf[j] \notin run} \cup {Len(buf) + 1})
Sub(buf, i, j) == SubSeq(buf, i, j - 1)
Within(lx) == IF lx.open = <<>> THEN "body" ELSE Last(lx.open).mode

----------------------------------------------------------------------------
(* Entities. *)

\* Html_entity_search, and the number of a numeric reference.
EntitySearch(name) == IF name \in DOMAIN Entities THEN Entities[name] ELSE Nul

\* Html_parse_entity for the "&" at i: [char, next], or char = Nul for none.
Entity(buf, i) ==
    LET numeric == Char(buf, i + 1) = "#"
        from == IF numeric THEN i + 2 ELSE i + 1
        end == IF numeric THEN After(buf, from, Digit)
               ELSE Min({j \in from .. Len(buf) : ~Alpha(buf[j]) /\ buf[j] \notin Digit \cup {"-"}}
                        \cup {Len(buf) + 1})
        name == Sub(buf, i + 1, end)
        first == Char(buf, from)
        starts == IF numeric THEN first \in Digit ELSE Alpha(first)
    IN IF starts /\ EntitySearch(name) # Nul
       THEN [char |-> EntitySearch(name), next |-> IF Char(buf, end) = ";" THEN end + 1 ELSE end]
       ELSE [char |-> Nul, next |-> i + 1]

\* a_Html_parse_entities
ParseEntities(token) ==
    LET read(st, i) ==
            IF i < st.next THEN st
            ELSE LET e == Entity(token, i) IN
                 IF token[i] = "&" /\ e.char # Nul
                 THEN [out |-> Append(st.out, e.char), next |-> e.next]
                 ELSE [out |-> Append(st.out, token[i]), next |-> i + 1]
    IN FoldLeft(read, [out |-> <<>>, next |-> 1], [i \in DOMAIN token |-> i]).out

----------------------------------------------------------------------------
(* Spaces and words. *)

\* Textblock::addSpace: a word is followed by at most one space; none is seen at a break.
AddSpace(lx) ==
    IF lx.text = <<>> \/ Last(lx.text) \in {Gap, "\n"} THEN lx
    ELSE [lx EXCEPT !.text = Append(@, Gap)]
AddLinebreak(lx) ==
    [lx EXCEPT !.text = Append(IF @ # <<>> /\ Last(@) = Gap THEN Front(@) ELSE @, "\n")]
AddText(lx, chars) == [lx EXCEPT !.text = @ \o chars]

IsBreak(lx, c) == c = "\r" \/ (c = "\n" /\ ~lx.cr)

\* Html_process_space_pre_line
SpacePreLine(lx, space) ==
    LET read(st, c) ==
            IF IsBreak(st.lx, c)
            THEN [lx |-> AddLinebreak([st.lx EXCEPT !.cr = (c = "\r")]), count |-> st.count + 1]
            ELSE st
        end == FoldLeft(read, [lx |-> lx, count |-> 0], space)
    IN IF end.count = 0 THEN AddSpace(lx) ELSE end.lx

\* The part of Html_process_space for PRE.  The first line break is left out.
SpacePre(lx, space) ==
    LET read(st, c) ==
            LET broken == IF ~st.first /\ IsBreak(st, c)
                          THEN [AddLinebreak(st) EXCEPT !.column = 0] ELSE st
                width == CASE c \in Newlines -> 0
                           [] c = "\t" -> Tab - (broken.column % Tab)
                           [] OTHER -> 1
            IN [AddText(broken, [k \in 1 .. width |-> " "])
                    EXCEPT !.first = FALSE, !.column = @ + width, !.cr = (c = "\r")]
    IN FoldLeft(read, lx, space)

\* Html_process_space
ProcessSpace(lx, space) ==
    CASE Within(lx) = "stash"    -> [lx EXCEPT !.stashSpace = (lx.stash # <<>>)]
      [] Within(lx) = "verbatim" -> [lx EXCEPT !.stash = @ \o space]
      [] Within(lx) = "pre"      -> SpacePre(lx, space)
      [] Within(lx) = "line"     -> SpacePreLine(lx, space)
      [] OTHER                   -> AddSpace(lx)

\* A word whose entities may be white space is taken apart.
AddWords(lx, word) ==
    LET put(st, i) ==
            IF i < st.next THEN st
            ELSE IF word[i] \in Space
                 THEN LET j == After(word, i, Space) IN
                      [lx |-> ProcessSpace(st.lx, Sub(word, i, j)), next |-> j]
                 ELSE LET j == Upto(word, i, Space) IN
                      [lx |-> [AddText(st.lx, Sub(word, i, j))
                                   EXCEPT !.column = @ + (j - i), !.first = FALSE], next |-> j]
    IN FoldLeft(put, [lx |-> lx, next |-> 1], [i \in DOMAIN word |-> i]).lx

\* Html_process_word
ProcessWord(lx, word) ==
    CASE Within(lx) = "stash" ->
            [lx EXCEPT !.stash = @ \o (IF lx.stashSpace THEN <<" ">> ELSE <<>>)
                                   \o ParseEntities(word),
                       !.stashSpace = FALSE]
      [] Within(lx) = "verbatim" -> [lx EXCEPT !.stash = @ \o word]
      [] OTHER -> AddWords(lx, ParseEntities(word))

----------------------------------------------------------------------------
(* Tags. *)

\* One character of Html_get_attr2; a state that is left without its character is
\* entered with it at once.  An unquoted value is delimited by a space.
MatchName(st, c, name) ==
    IF st.pos = Len(name) /\ c \in Space \cup {"=", ">"}
    THEN [st EXCEPT !.found = TRUE,
                    !.state = CASE c = "=" -> "seek value" [] c = ">" -> "finished"
                                [] OTHER -> "seek token"]
    ELSE IF st.pos < Len(name) /\ c = name[st.pos + 1] THEN [st EXCEPT !.pos = @ + 1]
    ELSE [st EXCEPT !.state = "seek attr"]

Value(st, c, e) ==
    IF c = st.delim \/ (st.delim = " " /\ c \in Space \cup (IF st.found THEN {">"} ELSE {}))
    THEN [st EXCEPT !.state = IF st.found THEN "finished" ELSE "seek token"]
    ELSE IF ~st.found \/ c = "\n" THEN st
    ELSE IF c = "&" /\ e.char # Nul THEN [st EXCEPT !.value = Append(@, e.char), !.next = e.next]
    ELSE [st EXCEPT !.value = Append(@, IF c \in {"\r", "\t"} THEN " " ELSE c)]

AttrStep(st, tag, i, name) ==
    LET c == tag[i]  e == Entity(tag, i) IN
    CASE i < st.next -> st
      [] st.state = "seek attr" ->
            [st EXCEPT !.state = CASE c \in Space -> "seek token" [] c = "=" -> "seek value"
                                   [] OTHER -> @]
      [] st.state = "match name" -> MatchName(st, c, name)
      [] st.state = "seek token" /\ c = "=" -> [st EXCEPT !.state = "seek value"]
      [] st.state = "seek token" /\ c \notin Space /\ c # "=" ->
            IF st.found THEN [st EXCEPT !.state = "finished"]
            ELSE MatchName([st EXCEPT !.pos = 0, !.state = "match name"], c, name)
      [] st.state = "seek value" /\ c \notin Space ->
            IF c \in Quotes THEN [st EXCEPT !.delim = c, !.state = "value"]
            ELSE Value([st EXCEPT !.delim = " ", !.state = "value"], c, e)
      [] st.state = "value" -> Value(st, c, e)
      [] OTHER -> st

\* a_Html_get_attr: Html_get_attr2 and the trimming of the value.
GetAttr(tag, name) ==
    LET st == FoldLeft(LAMBDA s, i : AttrStep(s, tag, i, name),
                       [state |-> "seek attr", found |-> FALSE, pos |-> 0, delim |-> Nul,
                        value |-> <<>>, next |-> 2], [i \in DOMAIN tag |-> i])
        kept == {i \in DOMAIN st.value : st.value[i] \notin Space}
    IN IF ~st.found THEN NoValue
       ELSE IF kept = {} THEN <<>> ELSE SubSeq(st.value, Min(kept), Max(kept))

\* Html_push_tag and the open function: an element has its parent's parse mode or its own.
OpenElement(lx, name) ==
    LET mode == IF Modes[name] = "body" THEN Within(lx) ELSE Modes[name]
        stashing == Modes[name] \in {"stash", "verbatim"}
        toPre == mode = "pre" /\ Within(lx) # "pre"
    IN [lx EXCEPT !.open = Append(@, [name |-> name, mode |-> mode]),
                  !.stash = IF stashing THEN <<>> ELSE @,
                  !.stashSpace = IF stashing THEN FALSE ELSE @,
                  !.column = IF toPre THEN 0 ELSE @,
                  !.first = IF toPre THEN TRUE ELSE @]

\* The close function: the element is left with those inside, and what was stashed is used.
CloseElement(lx, name) ==
    LET depths == {d \in DOMAIN lx.open : lx.open[d].name = name} IN
    IF depths = {} THEN lx
    ELSE [lx EXCEPT !.open = SubSeq(@, 1, Max(depths) - 1),
                    !.stashes = IF Modes[name] \in {"stash", "verbatim"}
                                THEN Append(@, lx.stash) ELSE @]

\* Html_process_tag; an unknown tag is ignored.
ProcessTag(lx, tag) ==
    LET closing == Char(tag, 2) = "/"
        from == IF closing THEN 3 ELSE 2
        end == Upto(tag, from, Space \cup {">", "/"})
        name == Sub(tag, from, end)
        n == Len(tag)
        xml == /\ n > 3 /\ tag[n - 1] = "/"
               /\ (tag[n - 2] \in Quotes \cup {" "} \/ n = Len(name) + 3)
        seen == [lx EXCEPT !.tags = Append(@, [name |-> name, at |-> Len(lx.text),
                                               value |-> GetAttr(tag, Wanted)])]
        opened == IF closing THEN lx ELSE OpenElement(seen, name)
    IN IF name \notin DOMAIN Modes THEN lx
       ELSE IF closing \/ xml THEN CloseElement(opened, name) ELSE opened

\* The end of a tag: its ">", or the last character before another tag starts, or the end of
\* the buffer.  A quoted string without its second quote ends at a ">" that a "<" follows
\* before any quote.
TagEnd(buf, start) ==
    LET N == Len(buf) + 1
        end[i \in 1 .. N] ==
            LET j == Upto(buf, Min({i + 1, N}), {">", "<"} \cup Quotes)
                c == Char(buf, j)
                k == Upto(buf, Min({j + 1, N}), {c, ">"})
                ahead == Upto(buf, Min({k + 1, N}), {c, "<"})
            IN CASE i = N \/ c = Nul -> N
                 [] c = ">" -> j
                 [] c = "<" -> j - 1
                 [] OTHER -> IF Char(buf, k) # ">" THEN end[k]
                             ELSE IF Char(buf, ahead) = "<" THEN k ELSE end[ahead]
    IN end[start]

\* Html_match_tag for the close tag of the verbatim element, at i.
ClosesVerbatim(buf, i, name) ==
    /\ i + Len(name) + 2 <= Len(buf)
    /\ Sub(buf, i, i + 2 + Len(name)) = <<"<", "/">> \o name
    /\ buf[i + 2 + Len(name)] \in Space \cup {">", "/"}

----------------------------------------------------------------------------
(* Html_write_raw. *)

IsTag(buf, i) == buf[i] = "<" /\ (Alpha(Char(buf, i + 1)) \/ Char(buf, i + 1) \in {"/", "!", "?"})

\* What is not finished is left for the next call: the token begins at lx.at then as well.
TagToken(lx, buf) ==
    LET i == lx.at
        closes == {j \in i + 2 .. Len(buf) : buf[j] = ">" /\ buf[j - 1] = "-" /\ buf[j - 2] = "-"}
        end == TagEnd(buf, i)
    IN IF i + 3 <= Len(buf) /\ Sub(buf, i, i + 4) = <<"<", "!", "-", "-">>
       THEN (IF closes = {} THEN lx ELSE [lx EXCEPT !.at = Min(closes) + 1])
       ELSE IF end > Len(buf) THEN lx
            ELSE [ProcessTag(lx, Sub(buf, i, end + 1)) EXCEPT !.at = end + 1]

\* Seeded bug: the word at the end of what has arrived is taken for a whole one.
Mut_WordToken(lx, buf, last) ==
    LET end == Min({j \in lx.at + 1 .. Len(buf) : buf[j] \in Space \/ IsTag(buf, j)}
                   \cup {Len(buf) + 1})
    IN [ProcessWord(lx, Sub(buf, lx.at, end)) EXCEPT !.at = end]

WordToken(lx, buf, last) ==
    LET i == lx.at
        ends(j) == \/ buf[j] \in Space
                   \/ IsTag(buf, j)
                   \/ j = Len(buf) /\ buf[j] = "<"
        end == Min({j \in i + 1 .. Len(buf) : ends(j)} \cup {Len(buf) + 1})
    IN IF end <= Len(buf) \/ last
       THEN [ProcessWord(lx, Sub(buf, i, end)) EXCEPT !.at = end] ELSE lx

Token(lx, buf, last) ==
    LET i == lx.at  j == After(buf, i, Space) IN
    IF buf[i] \in Space THEN [ProcessSpace(lx, Sub(buf, i, j)) EXCEPT !.at = j]
    ELSE IF IsTag(buf, i) THEN TagToken(lx, buf)
    ELSE WordToken(lx, buf, last)

\* Non-HTML code is stashed up to its close tag.
NextToken(lx, buf, last) ==
    LET closes == {j \in lx.at .. Len(buf) : ClosesVerbatim(buf, j, Last(lx.open).name)} IN
    IF lx.at > Len(buf) THEN lx
    ELSE IF Within(lx) # "verbatim" THEN Token(lx, buf, last)
    ELSE IF closes = {} THEN lx
    ELSE Token([lx EXCEPT !.stash = @ \o Sub(buf, lx.at, Min(closes)), !.at = Min(closes)],
               buf, last)

WriteRaw(lx, buf, last) ==
    FoldLeft(LAMBDA st, k : NextToken(st, buf, last), lx, [k \in 1 .. Len(buf) + 1 - lx.at |-> k])

----------------------------------------------------------------------------
(* DilloHtml::write, called by the cache through Html_callback. *)

LexerInit ==
    /\ arriving \in Pages
    /\ arrived = 0 /\ lex = NewLex /\ eof = FALSE

\* More of the page has come.
PageArrives ==
    /\ arrived < Len(arriving.text)
    /\ arrived' \in (arrived + 1 .. arrived + MaxPiece) \cup {Len(arriving.text)}
    /\ arrived' <= Len(arriving.text)
    /\ lex' = WriteRaw(lex, SubSeq(arriving.text, 1, arrived'), FALSE)
    /\ UNCHANGED <<arriving, eof>>

\* Html_callback at the end of the data.
ArriveLast ==
    /\ arrived = Len(arriving.text) /\ ~eof
    /\ eof' = TRUE
    /\ lex' = WriteRaw(lex, arriving.text, TRUE)
    /\ UNCHANGED <<arriving, arrived>>

LexerNext == PageArrives \/ ArriveLast
LexerSpec == LexerInit /\ [][LexerNext]_lexerVars

----------------------------------------------------------------------------
(* Properties. *)

\* However a page was cut into pieces on its way, and wherever the cuts are (inside a tag, an
\* entity, a comment, a quoted value, the close tag of a script), its text, its tags with
\* their attribute values and its stashed content are those that the page was written with.
PageIsRead ==
    eof => /\ lex.text = arriving.reads.text
           /\ lex.tags = arriving.reads.tags
           /\ lex.stashes = arriving.reads.stashes
=============================================================================
