------------------------------ MODULE CssParser ------------------------------
(***************************************************************************)
(* The style sheet parser, src/src/cssparser.cc: recursive descent with one   *)
(* token of look-ahead, and no error but the loss of what it cannot read.     *)
(*                                                                         *)
(* A style sheet is a sequence of lexemes; a token is known by the lexeme it   *)
(* begins with, the end of the sheet is End.  Whether `#' begins a colour      *)
(* depends on withinBlock, the argument `in' below.  A value that was read is  *)
(* its lexemes, and the position behind it.                                 *)
(***************************************************************************)
EXTENDS Integers, Sequences, FiniteSets, FiniteSetsExt, SequencesExt

CONSTANT Statements  \* style sheets are made of: text, and what it means

VARIABLES statements, \* what the style sheet was put together from
          sheet,      \* its lexemes
          at,         \* the look-ahead token
          added,      \* the rules that were added, in their order
          imports,    \* the style sheets that were imported
          importsAreAllowed

parserVars == <<statements, sheet, at, added, imports, importsAreAllowed>>

----------------------------------------------------------------------------
(* Tokens. *)

End == "end of style sheet"
Space == " "
Comments == {"/**/", "<!--", "-->"}
Specials == {":", ";", "{", "}", ",", ">", "+", ".", "#", "@", "!", "(", ")", "*", "%"}
Numbers == {"0", "1", "-1", "400"}
Negative == {"-1"}
Strings == {"'s'"}

Tok(p) == IF p > Len(sheet) THEN End ELSE sheet[p]
IsSymbol(p) ==
    p <= Len(sheet) /\ sheet[p] \notin Specials \union Numbers \union Strings
IsColor(p, in) == in /\ Tok(p) = "#"

SkipIgnored(p) ==
    Min({q \in p .. Len(sheet) : sheet[q] \notin Comments \union {Space}} \union {Len(sheet) + 1})

\* Space, and not only a comment, before the token.
SpaceSeparated(p) ==
    \E q \in 1 .. p - 1 :
        /\ sheet[q] = Space
        /\ \A r \in q .. p - 1 : sheet[r] \in Comments \union {Space}

\* nextToken: a colour is its # and the digits behind it.
NextToken(p, in) ==
    IF p > Len(sheet) THEN p ELSE SkipIgnored(p + (IF IsColor(p, in) THEN 2 ELSE 1))

\* What is made of a value, which is found once.
With(value, Op(_)) == Op(value)

\* The first token from p on that is one of `ends', or the end.
SkipTo(p, ends, in) ==
    LET to[q \in 1 .. Len(sheet) + 1] ==
            IF Tok(q) \in ends \union {End} THEN q ELSE to[NextToken(q, in)]
    IN to[p]

----------------------------------------------------------------------------
(* Values. *)

\* Css_property_info: properties of each type, with what they may be besides.
Info ==
    LET info(types, enums) == [types |-> types, enums |-> enums]
    IN [p \in {"color", "display", "width", "margin-top", "margin-bottom", "margin-left",
               "margin-right", "border-style", "border-color", "content", "font-family",
               "font-weight", "text-decoration", "line-height"} |->
        CASE p = "color" -> info(<<"color">>, {})
          [] p = "display" -> info(<<"enum">>, {"block"})
          [] p = "width" -> info(<<"length%">>, {})
          [] p = "border-style" -> info(<<"enum">>, {"solid"})
          [] p = "border-color" -> info(<<"enum", "color">>, {"transparent"})
          [] p = "content" -> info(<<"string">>, {})
          [] p = "font-family" -> info(<<"symbol">>, {})
          [] p = "font-weight" -> info(<<"enum", "weight">>, {"bold"})
          [] p = "text-decoration" -> info(<<"multi">>, {"underline", "blink"})
          [] p = "line-height" -> info(<<"enum", "length%number">>, {"normal"})
          [] OTHER -> info(<<"signed length">>, {})]

\* Css_shorthand_info
Margins == <<"margin-top", "margin-bottom", "margin-left", "margin-right">>
Shorthands == [s \in {"margin", "border", "font"} |->
                  CASE s = "margin" -> [type |-> "directions", properties |-> Margins]
                    [] s = "border" -> [type |-> "multiple",
                                        properties |-> <<"border-style", "border-color">>]
                    [] OTHER -> [type |-> "multiple",
                                 properties |-> <<"font-weight", "font-family">>]]

Units == {"px", "em"}
ColorNames == {"red", "blue"}
Lengths == {"length%", "length%number", "length"}

\* tokenMatchesProperty: the type of the token as a value of prop, or "none".
TypeIn(info, p) ==
    LET is(type) ==
            CASE type = "enum" -> IsSymbol(p) /\ Tok(p) \in info.enums
              [] type = "multi" -> IsSymbol(p) /\ Tok(p) \in info.enums \union {"none"}
              [] type = "color" -> IsColor(p, TRUE) \/ Tok(p) \in ColorNames \union {"rgb"}
              [] type = "string" -> Tok(p) \in Strings
              [] type = "symbol" -> IsSymbol(p) \/ Tok(p) \in Strings
              [] type = "weight" -> Tok(p) = "400"
              [] OTHER -> Tok(p) \in Numbers \union {"auto"}
        \* A negative number ends the search at a type that is a length.
        tried == {i \in DOMAIN info.types :
                     \A j \in 1 .. i : ~(info.types[j] \in Lengths /\ Tok(p) \in Negative)}
        fit == {i \in tried : is(info.types[i])}
    IN IF fit = {} THEN "none" ELSE info.types[Min(fit)]
TypeOf(prop, p) == TypeIn(Info[prop], p)

Read(ok, p, q) == [ok |-> ok, p |-> q, val |-> SelectSeq(SubSeq(sheet, p, q - 1),
                                                         LAMBDA l : l \notin Comments \union {Space})]

\* A component of parseRgbColor; percent is -1 until the first one is read.
RgbComponent(p, percent) ==
    LET q == NextToken(p, TRUE)
        isPercent == IF Tok(q) = "%" THEN 1 ELSE 0
    IN IF Tok(p) \notin Numbers THEN [ok |-> FALSE, percent |-> percent, p |-> p]
       ELSE IF percent \notin {-1, isPercent} THEN [ok |-> FALSE, percent |-> percent, p |-> q]
       ELSE [ok |-> TRUE, percent |-> isPercent,
             p |-> IF isPercent = 1 THEN NextToken(q, TRUE) ELSE q]

\* parseRgbColor, at the parenthesis; it stays at the closing one.
RgbColor(p) ==
    LET read(c, end) == IF c.ok /\ Tok(c.p) = end THEN c ELSE [c EXCEPT !.ok = FALSE]
        after(c) == IF c.ok THEN RgbComponent(NextToken(c.p, TRUE), c.percent) ELSE c
    IN IF Tok(p) # "(" THEN [ok |-> FALSE, percent |-> -1, p |-> p]
       ELSE read(after(read(after(read(RgbComponent(NextToken(p, TRUE), -1), ",")), ",")), ")")

\* The number with its unit, or without where that is allowed.
LengthValue(type, p) == With(NextToken(p, TRUE), LAMBDA q :
    LET unit == ~SpaceSeparated(q) /\ IsSymbol(q) /\ Tok(q) \in Units
        percent == ~SpaceSeparated(q) /\ type # "signed length" /\ Tok(q) = "%"
        bare == type = "length%number" \/ Tok(p) = "0"
    IN IF Tok(p) = "auto" THEN Read(TRUE, p, q)
       ELSE IF unit \/ percent THEN Read(TRUE, p, NextToken(q, TRUE))
       ELSE Read(bare, p, q))

\* parseValue, of a type that the token has.
ParseValue(type, p) ==
    LET one == Read(TRUE, p, NextToken(p, TRUE))
        while[q \in 1 .. Len(sheet) + 1] ==
            IF IsSymbol(q) \/ (type = "symbol" /\ (Tok(q) \in Strings \/ Tok(q) = ","))
            THEN while[NextToken(q, TRUE)] ELSE q
        color == With(RgbColor(NextToken(p, TRUE)), LAMBDA rgb :
                      Read(rgb.ok, p, NextToken(rgb.p, TRUE)))
    IN IF type \in {"multi", "symbol"} THEN Read(TRUE, p, while[p])
       ELSE IF type = "color" /\ Tok(p) = "rgb" THEN color
       ELSE IF type \in Lengths \union {"signed length"} THEN LengthValue(type, p)
       ELSE one

\* parseWeight
ParseWeight(p) ==
    LET q == NextToken(p, TRUE)
    IN IF Tok(p) # "!" THEN [important |-> FALSE, p |-> p]
       ELSE IF Tok(q) = "important" THEN [important |-> TRUE, p |-> NextToken(q, TRUE)]
       ELSE [important |-> FALSE, p |-> q]

----------------------------------------------------------------------------
(* Declarations: what is set, in its order, and the token behind. *)

Set(prop, weight, val) == [prop |-> prop, important |-> weight.important, val |-> val]
Nothing(p) == [p |-> p, sets |-> <<>>]
PassedBy(first, from) == [p |-> from[first.p].p, sets |-> first.sets \o from[first.p].sets]

\* A property of its own.
Longhand(prop, p) ==
    With(TypeOf(prop, p), LAMBDA type :
        IF type = "none" THEN Nothing(p)
        ELSE With(ParseValue(type, p), LAMBDA value :
                 IF ~value.ok THEN Nothing(value.p)
                 ELSE With(ParseWeight(value.p), LAMBDA weight :
                          [p |-> weight.p, sets |-> <<Set(prop, weight, value.val)>>])))

\* CSS_SHORTHAND_MULTIPLE: the values are taken for the first property they fit.
Multiple(properties, p) ==
    LET fits(q) == {i \in DOMAIN properties : TypeOf(properties[i], q) # "none"}
        from[q \in 1 .. Len(sheet) + 1] ==
            IF fits(q) = {} THEN Nothing(q)
            ELSE PassedBy(Longhand(properties[Min(fits(q))], q), from)
    IN from[p]

\* CSS_SHORTHAND_DIRECTIONS: one to four values, for top, bottom, left and right.
Directions(properties, p) ==
    LET more(st) == Len(st.vals) < 4 /\ TypeOf(properties[1], st.p) # "none"
        take(st, value) ==
            IF value.ok THEN [st EXCEPT !.p = value.p, !.vals = Append(@, value.val)]
            ELSE [st EXCEPT !.p = value.p, !.done = TRUE]
        read(st, n) == IF st.done \/ ~more(st) THEN [st EXCEPT !.done = TRUE]
                       ELSE take(st, ParseValue(TypeOf(properties[1], st.p), st.p))
        dirSet == << <<1, 1, 1, 1>>, <<1, 1, 2, 2>>, <<1, 3, 2, 2>>, <<1, 3, 4, 2>> >>
        all(values, weight) ==
            IF values.vals = <<>> THEN Nothing(weight.p)
            ELSE [p |-> weight.p,
                  sets |-> [i \in 1 .. 4 |-> Set(properties[i], weight,
                                                 values.vals[dirSet[Len(values.vals)][i]])]]
    IN With(FoldLeft(read, [p |-> p, vals |-> <<>>, done |-> FALSE], <<1, 2, 3, 4>>),
            LAMBDA values : all(values, ParseWeight(values.p)))

\* Seeded bug: the rest of a declaration is not skipped.
Mut_ParseDeclaration(p) ==
    LET colon == NextToken(p, TRUE)
        value == NextToken(colon, TRUE)
        known == IsSymbol(p) /\ Tok(p) \in DOMAIN Info /\ Tok(colon) = ":"
        read == IF known THEN Longhand(Tok(p), value) ELSE Nothing(colon)
    IN [read EXCEPT !.p = IF Tok(@) = ";" THEN NextToken(@, TRUE) ELSE @]

\* What parseDeclaration reads.
Declaration(p) ==
    LET colon == NextToken(p, TRUE)
        value == NextToken(colon, TRUE)
        shorthand == Shorthands[Tok(p)]
    IN IF ~IsSymbol(p) \/ Tok(p) \notin DOMAIN Info \union DOMAIN Shorthands THEN Nothing(p)
       ELSE IF Tok(colon) # ":" THEN Nothing(colon)
       ELSE IF Tok(p) \in DOMAIN Info THEN Longhand(Tok(p), value)
       ELSE IF shorthand.type = "directions" THEN Directions(shorthand.properties, value)
       ELSE Multiple(shorthand.properties, value)

\* parseDeclaration: whatever it did not read is skipped.
ParseDeclaration(p) ==
    [Declaration(p) EXCEPT !.p =
        With(SkipTo(@, {";", "}"}, TRUE), LAMBDA end :
            IF Tok(end) = ";" THEN NextToken(end, TRUE) ELSE end)]

\* The block of parseRuleset, up to its brace.
Declarations[p \in 1 .. Len(sheet) + 1] ==
    With(ParseDeclaration(p), LAMBDA first :
        IF Tok(first.p) \in {"}", End} THEN first ELSE PassedBy(first, Declarations))

----------------------------------------------------------------------------
(* Selectors and rulesets. *)

\* The part of parseSimpleSelector after the element: id, classes, pseudo class.
Qualifiers(p) ==
    LET from[q \in 1 .. Len(sheet) + 1, pseudo \in BOOLEAN] ==
            LET name == NextToken(q, FALSE)
                next == NextToken(name, FALSE)
            IN IF Tok(q) \notin {"#", ".", ":"} THEN [ok |-> TRUE, p |-> q]
               ELSE IF Tok(q) = ":" /\ pseudo THEN [ok |-> FALSE, p |-> q]
               ELSE IF SpaceSeparated(name) THEN [ok |-> TRUE, p |-> name]
               ELSE IF ~IsSymbol(name) THEN [ok |-> FALSE, p |-> name]
               ELSE IF SpaceSeparated(next) THEN [ok |-> TRUE, p |-> next]
               ELSE from[next, pseudo \/ Tok(q) = ":"]
    IN from[p, FALSE]

SimpleSelector(p) ==
    LET next == NextToken(p, FALSE)
    IN IF IsSymbol(p) \/ Tok(p) = "*"
       THEN IF SpaceSeparated(next) THEN [ok |-> TRUE, p |-> next] ELSE Qualifiers(next)
       ELSE IF Tok(p) \in {"#", ".", ":"} THEN Qualifiers(p)
       ELSE [ok |-> FALSE, p |-> p]

\* parseSelector: up to the comma or the brace, whether it could be read or not.
ParseSelector(p) ==
    LET from[q \in 1 .. Len(sheet) + 1] ==
            With(SimpleSelector(q), LAMBDA simple :
                LET r == simple.p
                IN IF ~simple.ok THEN simple
                   ELSE IF Tok(r) \in {",", "{"} THEN simple
                   ELSE IF Tok(r) \in {">", "+"} THEN from[NextToken(r, FALSE)]
                   ELSE IF Tok(r) # End /\ SpaceSeparated(r) THEN from[r]
                   ELSE [ok |-> FALSE, p |-> r])
    IN With(from[p], LAMBDA selector :
           Read(selector.ok, p, SkipTo(selector.p, {",", "{"}, FALSE)))

\* The selectors of a ruleset; one that cannot be read is left out.
Selectors(p) ==
    LET from[q \in 1 .. Len(sheet) + 1] ==
            With(ParseSelector(q), LAMBDA one :
                LET own == IF one.ok THEN <<one.val>> ELSE <<>>
                IN IF Tok(one.p) # "," THEN [p |-> one.p, list |-> own]
                   ELSE With(from[NextToken(one.p, FALSE)], LAMBDA rest :
                            [p |-> rest.p, list |-> own \o rest.list]))
    IN from[p]

\* parseRuleset, with the rules it adds.
RulesetBlock(p) == IF Tok(p) = End THEN Nothing(p) ELSE Declarations[NextToken(p, TRUE)]
ParseRuleset(p) ==
    LET sets(block, important) == SelectSeq(block.sets, LAMBDA s : s.important = important)
        rule(selector, block, important) ==
            IF sets(block, important) = <<>> THEN <<>>
            ELSE << [selector |-> selector, sets |-> sets(block, important)] >>
        ruleset(list, block) ==
            [p |-> IF Tok(block.p) = "}" THEN NextToken(block.p, FALSE) ELSE block.p,
             rules |-> FlattenSeq([i \in DOMAIN list |->
                          rule(list[i], block, FALSE) \o rule(list[i], block, TRUE)])]
    IN With(Selectors(p), LAMBDA selectors : ruleset(selectors.list, RulesetBlock(selectors.p)))

----------------------------------------------------------------------------
(* At-rules. *)

IgnoreBlock(p) ==
    LET from[q \in 1 .. Len(sheet) + 1, depth \in 0 .. Len(sheet)] ==
            IF q > Len(sheet) THEN q
            ELSE IF Tok(q) = "}" /\ depth = 1 THEN NextToken(q, FALSE)
            ELSE from[NextToken(q, FALSE), IF Tok(q) = "{" THEN depth + 1
                                           ELSE IF Tok(q) = "}" THEN depth - 1 ELSE depth]
    IN from[p, 0]

IgnoreStatement(p) ==
    With(SkipTo(p, {";", "{"}, FALSE), LAMBDA end :
        IF Tok(end) = ";" THEN NextToken(end, FALSE)
        ELSE IF Tok(end) = "{" THEN IgnoreBlock(end) ELSE end)

\* The list of media of parseMedia and parseImport.
MediaList(p) ==
    LET from[q \in 1 .. Len(sheet) + 1, selected \in BOOLEAN] ==
            LET next == NextToken(q, FALSE)
                now == selected \/ Tok(q) \in {"all", "screen"}
            IN IF ~IsSymbol(q) THEN [p |-> q, ok |-> FALSE, selected |-> selected]
               ELSE IF Tok(next) = "," THEN from[NextToken(next, FALSE), now]
               ELSE [p |-> next, ok |-> TRUE, selected |-> now]
    IN from[p, FALSE]

\* The rulesets of parseMedia, up to its brace, and parseMedia.
MediaRulesets[p \in 1 .. Len(sheet) + 1] ==
    IF Tok(p) = End THEN [p |-> p, rules |-> <<>>]
    ELSE With(ParseRuleset(p), LAMBDA one :
             IF Tok(one.p) = "}" THEN [one EXCEPT !.p = NextToken(@, FALSE)]
             ELSE [p |-> MediaRulesets[one.p].p, rules |-> one.rules \o MediaRulesets[one.p].rules])

ParseMedia(p) ==
    With(MediaList(NextToken(p, FALSE)), LAMBDA media :
        IF ~(media.ok /\ Tok(media.p) = "{")
        THEN [p |-> IgnoreStatement(media.p), rules |-> <<>>]
        ELSE IF media.selected THEN MediaRulesets[NextToken(media.p, FALSE)]
        ELSE [p |-> IgnoreBlock(media.p), rules |-> <<>>])

\* parseUrl: the lexemes of the URL, none when there is none.
ParseUrl(p) ==
    LET paren == NextToken(p, FALSE)
        first == NextToken(paren, FALSE)
        end == IF Tok(first) \in Strings THEN NextToken(first, FALSE)
               ELSE SkipTo(first, {")"}, FALSE)
    IN IF Tok(paren) # "(" THEN [p |-> paren, urls |-> <<>>]
       ELSE IF Tok(end) = ")" THEN [p |-> end, urls |-> <<Read(TRUE, first, end).val>>]
       ELSE [p |-> end, urls |-> <<>>]

ParseImport(p) ==
    LET name == NextToken(p, FALSE)
        url == IF Tok(name) = "url" THEN ParseUrl(name)
               ELSE [p |-> name, urls |-> IF Tok(name) \in Strings THEN << <<Tok(name)>> >>
                                          ELSE <<>>]
        list(q) == IF IsSymbol(q) THEN MediaList(q) ELSE [p |-> q, ok |-> TRUE, selected |-> TRUE]
        import(urls, media) ==
            IF media.ok /\ Tok(media.p) = ";"
            THEN [p |-> NextToken(media.p, FALSE), urls |-> IF media.selected THEN urls ELSE <<>>]
            ELSE [p |-> IgnoreStatement(media.p), urls |-> <<>>]
    IN With(url, LAMBDA u : import(u.urls, list(NextToken(u.p, FALSE))))

----------------------------------------------------------------------------
(* The loop of CssParser::parse, one action for each kind of statement. *)

Keyword == NextToken(at, FALSE)
AtRule(word) == Tok(at) = "@" /\ IsSymbol(Keyword) /\ Tok(Keyword) = word
Same == UNCHANGED <<statements, sheet>>

Import ==
    /\ AtRule("import") /\ importsAreAllowed
    /\ \E read \in {ParseImport(Keyword)} : at' = read.p /\ imports' = imports \o read.urls
    /\ Same /\ UNCHANGED <<added, importsAreAllowed>>

Media ==
    /\ AtRule("media")
    /\ \E read \in {ParseMedia(Keyword)} : at' = read.p /\ added' = added \o read.rules
    /\ Same /\ UNCHANGED <<imports, importsAreAllowed>>

Unknown ==
    /\ Tok(at) = "@"
    /\ ~AtRule("media") /\ ~(AtRule("import") /\ importsAreAllowed)
    /\ at' = IgnoreStatement(Keyword)
    /\ Same /\ UNCHANGED <<added, imports, importsAreAllowed>>

Ruleset ==
    /\ Tok(at) \notin {"@", End}
    /\ importsAreAllowed' = FALSE
    /\ \E read \in {ParseRuleset(at)} : at' = read.p /\ added' = added \o read.rules
    /\ Same /\ UNCHANGED imports

ParserInit ==
    /\ statements \in Statements
    /\ sheet = FlattenSeq([i \in DOMAIN statements |-> statements[i].text])
    /\ at = SkipIgnored(1)
    /\ added = <<>>
    /\ imports = <<>>
    /\ importsAreAllowed = TRUE

ParserNext == Import \/ Media \/ Unknown \/ Ruleset

ParserSpec == ParserInit /\ [][ParserNext]_parserVars

----------------------------------------------------------------------------
(* Properties. *)

\* What the statements mean, one by one; an import counts only before the first ruleset.
Meaning ==
    FlattenSeq([i \in DOMAIN statements |-> statements[i].rules])
Imported ==
    FlattenSeq([i \in DOMAIN statements |->
        IF \A j \in 1 .. i : ~statements[j].ruleset THEN statements[i].imports ELSE <<>>])

\* A style sheet that was read to its end means what its statements mean, each taken alone:
\* one that cannot be read costs nothing but itself, whatever comes before and after it.
SheetIsUnderstood == Tok(at) = End => added = Meaning /\ imports = Imported
=============================================================================
