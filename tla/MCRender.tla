------------------------------- MODULE MCRender -------------------------------
(***************************************************************************)
(* How a page is shown: style sheets are parsed, elements get their styles, *)
(* tables and text blocks their sizes, and the user searches and selects    *)
(* text.  The components share no variable, so that a behaviour moves one   *)
(* of them and leaves the others where they are.                            *)
(***************************************************************************)
EXTENDS Css, CssParser, Table, Layout, Findtext, Selection, TLC

VARIABLE moving  \* the component that moves in this behaviour

----------------------------------------------------------------------------
(* Pages that are searched and selected. *)

T(w, i, text, space, l) ==
  [widget |-> w, index |-> i, kind |-> "text", text |-> text, space |-> space,
   gap |-> FALSE, link |-> l]
B(w, i) ==
  [widget |-> w, index |-> i, kind |-> "break", text |-> <<>>, space |-> FALSE,
   gap |-> TRUE, link |-> -1]

Searched ==
  { <<T(1, 0, <<"a", "b", "b", "b">>, FALSE, -1)>>,
    <<B(1, 0), T(1, 1, <<"a">>, TRUE, -1), T(2, 0, <<"a", "a">>, FALSE, -1), B(2, 1),
      T(1, 3, <<"b">>, FALSE, -1), T(1, 4, <<"a", "b">>, TRUE, -1)>> }

Selected ==
  { <<T(1, 0, <<"a">>, TRUE, -1), T(2, 0, <<"a">>, TRUE, 7),
      T(2, 1, <<"b">>, FALSE, -1), T(1, 2, <<"b">>, FALSE, -1)>>,
    <<T(1, 0, <<"a", "b", "A">>, TRUE, 7), B(1, 1), T(1, 2, <<"b">>, FALSE, -1)>> }

TheDocuments == Searched \cup Selected

TheKeys == { <<"a">>, <<"a", "a">>, <<"b", "A">>, <<"a", "b", "b">> }
TheLower == [c \in {"a", "b", "A", " ", "\n"} |-> IF c = "A" THEN "a" ELSE c]
TheBlanks == {" ", "\n"}

----------------------------------------------------------------------------
(* A component that does not move stays in one of its initial states. *)

OnePage == CHOOSE page1 \in Documents : TRUE
OneSheet == CHOOSE statements1 \in Statements : TRUE
OneWidth == CHOOSE width1 \in Widths : TRUE
OneWindow == CHOOSE window1 \in Windows : TRUE

RenderInit ==
    /\ moving \in {"css", "parser", "table", "layout", "find", "selection"}
    /\ IF moving = "parser" THEN TRUE ELSE statements = OneSheet
    /\ IF moving = "table" THEN TRUE ELSE width = OneWidth
    /\ IF moving = "find" THEN TRUE ELSE page = OnePage
    /\ IF moving = "selection" THEN document \in Selected ELSE document = OnePage
    /\ CssInit /\ ParserInit /\ TableInit /\ LayoutInit /\ FindInit /\ SelectionInit
    /\ moving # "layout" => S.window = OneWindow

RenderNext ==
    /\ UNCHANGED moving
    /\ IF moving = "css" THEN CssNext ELSE UNCHANGED cssVars
    /\ IF moving = "parser" THEN ParserNext ELSE UNCHANGED parserVars
    /\ IF moving = "table" THEN TableNext ELSE UNCHANGED tableVars
    /\ IF moving = "layout" THEN LayoutNext ELSE UNCHANGED layoutVars
    /\ IF moving = "find" THEN FindNext ELSE UNCHANGED findVars
    /\ IF moving = "selection" THEN SelectionNext ELSE UNCHANGED selVars

RenderSpec ==
    RenderInit
    /\ [][RenderNext]_<<moving, cssVars, parserVars, tableVars, layoutVars, findVars, selVars>>

----------------------------------------------------------------------------
(* The properties of the components, each of them looked at where its component moves.  *)

\* Every element has the style that the cascade gives it (Css).
StylesAreRight == moving = "css" => StyleIsRight

\* A style sheet is read as it says, around what is wrong in it (CssParser).
SheetsAreUnderstood == moving = "parser" => SheetIsUnderstood

\* Tables have room for their cells, where the spans put them (Table), and pages are laid
\* out again as far as they must be (Layout, Textblock).
LayoutsAreRight == (moving = "table" => TableIsSound) /\ (moving = "layout" => LayoutIsRight)

\* What is selected is what the user marked (Selection).
SelectionsAreRight == moving = "selection" => SelectionIsRight

----------------------------------------------------------------------------
(* Tables and texts. *)

Cell(colspan, rowspan, min, max, height, percent) ==
    [colspan |-> colspan, rowspan |-> rowspan, min |-> min, max |-> max, height |-> height,
     percent |-> percent]
SomeCells == { Cell(1, 1, 1, 3, 1, 50), Cell(2, 1, 5, 7, 2, Auto),
               Cell(1, 2, 0, 4, 5, Auto), Cell(0, 9, 3, 3, 2, Auto) }
SomeWidths == { [force |-> TRUE, total |-> 11], [force |-> FALSE, total |-> 4],
                [force |-> FALSE, total |-> 30] }

TextWord(size, space, nowrap) == Word("text", size, 1, space, 0, nowrap)
SomeTexts == {TextWord(1, 1, FALSE), TextWord(2, 0, FALSE)}
SomeWindows == {[width |-> 3, height |-> 3], [width |-> 5, height |-> 3]}

----------------------------------------------------------------------------
(* Documents and style sheets for the style engine. *)

Elem(element, klass) == [element |-> element, id |-> "", klass |-> klass, pseudo |-> "",
                         hints |-> {}, tagStyle |-> {}, tagStyleImportant |-> {}]
SomeKinds == { Elem("a", <<>>), [Elem("b", <<"k">>) EXCEPT !.hints = {"color"}] }

Simple(element, klass) == [element |-> element, id |-> "", klass |-> klass, pseudo |-> ""]
Part(combinator, simple) == [combinator |-> combinator, simple |-> simple]
IsA == Simple("a", <<>>)
IsB == Simple("b", <<>>)
IsK == Simple(AnyElement, <<"k">>)
SetTo(parts, props, important) ==
    [parts |-> parts, props |-> props, important |-> important, origin |-> "author"]
First(simple) == Part("child", simple)
SomeRulesets ==
    { SetTo(<<First(IsB)>>, {"color", "background"}, {"background"}),
      SetTo(<<First(IsB), Part("descendant", IsA), Part("descendant", IsB)>>, {"color"}, {}),
      SetTo(<<First(IsA), Part("adjacent", IsK)>>, {"color"}, {}),
      [SetTo(<<First(IsK), Part("child", IsB)>>, {"background"}, {"color"}) EXCEPT !.origin = "user"] }

----------------------------------------------------------------------------
(* Style sheets for the parser, put together from what is well-formed and what is not. *)

Decl(text, sets) == [text |-> text, sets |-> sets]
One(prop, val) == [prop |-> prop, important |-> FALSE, val |-> val]
Red == Decl(<<"color", ":", " ", "red", ";", " ">>, <<One("color", <<"red">>)>>)
Decls ==
    { Red,
      Decl(<<"color", ":", "#", "fff", "/**/", "!", "important", ";">>,
           << [One("color", <<"#", "fff">>) EXCEPT !.important = TRUE] >>),
      Decl(<<"color", ":", "rgb", "(", "1", ",", "0", "%", ",", "1", ")", ";">>, <<>>),
      Decl(<<"color", ":", "rgb", "(", "1", ",", "0", ",", "1", ")", ";">>,
           <<One("color", <<"rgb", "(", "1", ",", "0", ",", "1", ")">>)>>),
      Decl(<<"width", ":", "1", "px", ";">>, <<One("width", <<"1", "px">>)>>),
      Decl(<<"width", ":", "-1", "px", ";">>, <<>>),
      Decl(<<"width", ":", "1", " ", "px", ";">>, <<>>),
      Decl(<<"margin", ":", "-1", "em", " ", "0", ";">>,
           [i \in 1 .. 4 |-> One(Margins[i], IF i <= 2 THEN <<"-1", "em">> ELSE <<"0">>)]),
      Decl(<<"font", ":", "bold", " ", "'s'", ",", "serif", ";">>,
           <<One("font-weight", <<"bold">>), One("font-family", <<"'s'", ",", "serif">>)>>),
      Decl(<<"text-decoration", ":", "blink", " ", "none", ";">>,
           <<One("text-decoration", <<"blink", "none">>)>>),
      Decl(<<"serif", ":", "'s'", ";">>, <<>>),
      Decl(<<"color", "red", ";">>, <<>>),
      Decl(<<":", "#", "fff", ";", ";">>, <<>>) }

Sel(text) == [text |-> text, ok |-> TRUE]
Bad(text) == [text |-> text, ok |-> FALSE]
SomeSelectors ==
    { Sel(<<"h1">>), Sel(<<"h1", "/**/", " ", ">", "p", ".", "k">>),
      Sel(<<"*", " ", "p", " ", "#", "fff">>), Bad(<<"1", " ", "p">>),
      Bad(<<"h1", ":", "link", ":", "link">>), Bad(<<"h1", "(", ":">>) }

Text(words) == SelectSeq(words, LAMBDA l : l \notin Comments \union {Space})
Rules(sels, decls) ==
    LET sets == FlattenSeq([i \in DOMAIN decls |-> decls[i].sets])
        of(sel, important) ==
            LET own == SelectSeq(sets, LAMBDA s : s.important = important)
            IN IF own = <<>> \/ ~sel.ok THEN <<>> ELSE << [selector |-> Text(sel.text), sets |-> own] >>
    IN FlattenSeq([i \in DOMAIN sels |-> of(sels[i], FALSE) \o of(sels[i], TRUE)])

Statement(text, says, urls, ruleset) ==
    [text |-> text, rules |-> says, imports |-> urls, ruleset |-> ruleset]
Block(sels, decls) ==
    FlattenSeq([i \in DOMAIN sels |-> (IF i = 1 THEN <<>> ELSE <<",", " ">>) \o sels[i].text])
    \o <<" ", "{", " ">> \o FlattenSeq([i \in DOMAIN decls |-> decls[i].text])
Styled(sels, decls) ==
    Statement(Block(sels, decls) \o <<"}", "-->">>, Rules(sels, decls), <<>>, TRUE)

Plain == Styled(<<Sel(<<"p">>)>>, <<Red>>)
Styles == {Styled(<<Sel(<<"h1">>)>>, <<d, e>>) : d, e \in Decls}
          \union {Styled(<<s, t>>, <<Red>>) : s, t \in SomeSelectors}

Import2(text, urls) == Statement(<<"@", "import", " ">> \o text, <<>>, urls, FALSE)
AtRules ==
    { Import2(<<"'s'", ";">>, << <<"'s'">> >>), Import2(<<"'s'", " ", "print", ";">>, <<>>),
      Import2(<<"url", "(", "a", ".", "b", ")", " ", "print", ",", "screen", ";">>,
              << <<"a", ".", "b">> >>),
      Import2(<<"url", "a", ")", " ", "{", "{", "}", "}">>, <<>>),
      Statement(<<"@", "media", " ", "print", ",", "all", "{">> \o Plain.text \o Plain.text
                \o <<"}">>, Plain.rules \o Plain.rules, <<>>, FALSE),
      Statement(<<"@", "media", " ", "print", "{">> \o Plain.text \o <<"}">>, <<>>, <<>>, FALSE),
      Statement(<<"@", "media", " ", "1", "{", "{", "}", "}">>, <<>>, <<>>, FALSE),
      Statement(<<"@", "page", " ", "'s'", ";">>, <<>>, <<>>, FALSE),
      Statement(<<"@", "1", "{">> \o Plain.text \o <<"}">>, <<>>, <<>>, FALSE) }

\* A sheet that ends within a block.
Ends == { [Plain EXCEPT !.text = Block(<<Sel(<<"p">>)>>, <<Red>>)],
          Statement(<<"p", ",">>, <<>>, <<>>, TRUE) }

SomeStatements ==
    {<<s, Plain>> : s \in Styles}
    \union {<<a, b, c>> : a \in AtRules, b \in AtRules \union {Plain},
                          c \in AtRules \union {Plain} \union Ends}
===============================================================================
