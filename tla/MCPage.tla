-------------------------------- MODULE MCPage --------------------------------
(***************************************************************************)
(* What becomes of a page that arrives: its body is decoded, its text is    *)
(* read, its elements are built and its images are drawn.  The components   *)
(* share no variable here, so that a behaviour moves one of them and leaves *)
(* the others where they are.                                               *)
(***************************************************************************)
EXTENDS Lexer, Gif, Html, Body, TLC

CONSTANT sheet1

VARIABLE moving  \* the component that moves in this behaviour

OnePage == CHOOSE page1 \in Pages : TRUE
OneImage == CHOOSE image1 \in Images : TRUE
OneFile == Bytes(OneImage)
OneDocument == CHOOSE document1 \in Documents : TRUE
OneMessage == CHOOSE message1 \in Messages : TRUE

\* A component that does not move stays in one of its initial states.
PageInit ==
    /\ moving \in {"lexer", "gif", "html", "body"}
    /\ IF moving = "lexer" THEN LexerInit
       ELSE arriving = OnePage /\ arrived = 0 /\ lex = NewLex /\ eof = FALSE
    /\ IF moving = "gif" THEN GifInit
       ELSE image = OneImage /\ bytes = OneFile /\ gifArrived = 0 /\ gif = NewGif
    /\ IF moving = "html" THEN HtmlInit
       ELSE html = NewHtml(OneDocument, FALSE) /\ sheet = [u \in Sheets |-> "absent"]
    /\ IF moving = "body" THEN TRUE ELSE msg = OneMessage
    /\ BodyInit

PageNext ==
    /\ UNCHANGED moving
    /\ \/ moving = "lexer" /\ LexerNext /\ UNCHANGED <<gifVars, htmlVars, bodyVars>>
       \/ moving = "gif" /\ GifNext /\ UNCHANGED <<lexerVars, htmlVars, bodyVars>>
       \/ moving = "html" /\ HtmlNext /\ UNCHANGED <<lexerVars, gifVars, bodyVars>>
       \/ moving = "body" /\ BodyNext /\ UNCHANGED <<lexerVars, gifVars, htmlVars>>

PageSpec == PageInit /\ [][PageNext]_<<moving, lexerVars, gifVars, htmlVars, bodyVars>>

----------------------------------------------------------------------------
(* The properties of the components, each of them looked at where its component moves.  *)

\* DilloHtml::write reads a page as its tokens say (Lexer).
PagesAreRead == moving = "lexer" => PageIsRead

\* The GIF decoder gives the rows that the file has (Gif).
ImagesAreRight == moving = "gif" => ImageIsRight

\* Bodies are decoded and translated as a whole (Body).
BodiesAreRight == moving = "body" => BodyIsRight

----------------------------------------------------------------------------
(* Documents: each page uses the elements of one of them; a document is chosen for what  *)
(* its elements do to each other.                                                        *)

HtmlPage(elements, depth, controls) ==
    [elements |-> elements, depth |-> depth, controls |-> controls]
SoupDocuments ==
    { HtmlPage({"head", "link", "form", "input"}, 6, 3),
      HtmlPage({"head", "meta", "body", "p"}, 6, 0),
      HtmlPage({"form", "select", "option", "p"}, 7, 5),
      HtmlPage({"form", "textarea", "button", "h1"}, 7, 3),
      HtmlPage({"select", "option", "button", "isindex"}, 7, 4),
      HtmlPage({"html", "body", "script", "title"}, 5, 0),
      HtmlPage({"table", "tr", "td", "map"}, 8, 0),
      HtmlPage({"ul", "li", "p", "dt", "blockquote"}, 8, 0),
      HtmlPage({"pre", "select", "option", "hr"}, 7, 3) }

----------------------------------------------------------------------------
(* Bodies. *)

Msg(chunks, chunked, gzip, mimeType) ==
    [chunks |-> chunks, chunked |-> chunked, gzip |-> gzip, type |-> mimeType]
SomeMessages ==
    { Msg(<<<<"L", "T", "meta">>, <<"L", "T">>>>, TRUE, FALSE, "latin"),
      Msg(<<<<"L">>, <<"T", "meta", "a">>>>, TRUE, FALSE, Absent),
      Msg(<<<<"L", "T", "T", "L", "T">>>>, FALSE, FALSE, "multi"),
      Msg(<<<<"z">>, <<"y", "end">>>>, TRUE, TRUE, "latin") }
SomeInflated ==
    "z" :> <<"a", "L", "T">> @@ "y" :> <<"meta", "L", "T", "b", "b">> @@ "end" :> <<>>
TwoWindows == <<"w1", "w2">>

----------------------------------------------------------------------------
(* Pages for the lexer, put together from tokens, with what each token says. *)

B == <<"b">>  Pr == <<"p", "r">>  Li == <<"l">>  Ti == <<"t", "i">>  Sc == <<"s", "c">>
MCModes ==
    (B :> "body") @@ (Pr :> "pre") @@ (Li :> "line") @@ (Ti :> "stash") @@ (Sc :> "verbatim")
MCWanted == <<"h", "r">>
MCEntities == (<<"l", "t">> :> "<") @@ (<<"#", "1">> :> " ") @@ (<<"#", "1", "0">> :> "x")

Word(text, means) == [kind |-> "word", text |-> text, means |-> means]
Blank(text, newlines) == [kind |-> "blank", text |-> text, newlines |-> newlines]
Tagged(text, values) == [kind |-> "start", text |-> text, values |-> values]
Raw(text, means) == [kind |-> "raw", text |-> text, means |-> means]
Nothing(text) == [kind |-> "nothing", text |-> text]

Words == { Word(<<"a">>, <<"a">>), Word(<<"a", "<", "1">>, <<"a", "<", "1">>),
           Word(<<"&", "l", "t", ";", "b">>, <<"<", "b">>),
           Word(<<"&", "l", "t", "/">>, <<"<", "/">>),
           Word(<<"&", "l", ";">>, <<"&", "l", ";">>), Word(<<"&", "#", "2">>, <<"&", "#", "2">>),
           Word(<<"&", "#", "1", "0", "1">>, <<"&", "#", "1", "0", "1">>) }
Gaps == { Blank(<<" ">>, 0), Blank(<<"\n">>, 1), Blank(<<"\r", "\n">>, 1),
            Blank(<<"\t">>, 0), Blank(<<" ", "\n", "\n">>, 2) }
Starts ==
    { Tagged(<<"<", "b", " ", "h", "r", "=", "a", "/", ">">>, << <<"a", "/">> >>),
      Tagged(<<"<", "b", " ", "t", "=", "\"", " ", "h", "r", "=", "b", "\"", " ", "h", "r", "=",
              "'", "a", ">", "b", "'", ">">>, << <<"a", ">", "b">> >>),
      Tagged(<<"<", "b", " ", "h", "r", " ", "=", "'", " ", "&", "l", "t", ";", "\n", "\"",
              " ", "'", "/", ">">>, << <<"<", "\"">> >>),
      Tagged(<<"<", "b", " ", "h", "r", ">">>, << <<>> >>),
      Tagged(<<"<", "b", " ", "h", "r", "x", "=", "a", " ", "h", "r", "=", "b", " ", "h", "r",
              "=", "c", "/", ">">>, << <<"b">> \o <<>> >>),
      Tagged(<<"<", "b", " ", "t", "=", "'", "a", ">", "<", "b", "/", ">">>,
            << NoValue, NoValue >>),
      Tagged(<<"<", "b", "<", "b", " ", "/", ">">>, << NoValue, NoValue >>) }
Raws == { Raw(<<"<", "s", "c", ">", "a", "<", "b", ">", "\"", "<", "/", "s", "<", "/", "s", "c",
                "x", "<", "/", "s", "c", " ", ">">>,
              <<"a", "<", "b", ">", "\"", "<", "/", "s", "<", "/", "s", "c", "x">>) }
Nothings == { Nothing(<<"<", "!", "-", "-", "<", "b", ">", "-", ">", "\"", "-", "-", ">">>),
              Nothing(<<"<", "!", "z", " ", "'", ">", "'", ">">>), Nothing(<<"<", "/", "b", ">">>) }

\* What a page says, token by token; mode is that of the element all of it is in.
Column(text) == Len(text) - Max({i \in DOMAIN text : text[i] = "\n"} \cup {0})
Fill(text, n) == text \o [k \in 1 .. n |-> " "]
Breaks(text, n) == text \o [k \in 1 .. n |-> "\n"]
SayBlank(st, t, mode) ==
    LET dropped == IF st.fresh /\ t.text[1] \in Newlines THEN 1 ELSE 0 IN
    CASE mode = "pre" ->
            [st EXCEPT !.fresh = FALSE,
                       !.text = CASE t.text = <<"\t">> -> Fill(@, Tab - (Column(@) % Tab))
                                  [] t.text[1] = " " -> Breaks(Fill(@, 1), t.newlines)
                                  [] OTHER -> Breaks(@, t.newlines - dropped)]
      [] mode = "stash" -> [st EXCEPT !.gap = (st.stash # <<>>)]
      [] mode = "line" /\ t.newlines > 0 ->
            [st EXCEPT !.text = Breaks(IF @ # <<>> /\ Last(@) = Gap THEN Front(@) ELSE @, t.newlines)]
      [] OTHER -> [st EXCEPT !.text = IF @ = <<>> \/ Last(@) \in {Gap, "\n"} THEN @ ELSE Append(@, Gap)]
Say(st, t, mode) ==
    CASE t.kind = "blank" -> SayBlank(st, t, mode)
      [] t.kind = "word" /\ mode # "stash" -> [st EXCEPT !.text = @ \o t.means, !.fresh = FALSE]
      [] t.kind = "word" /\ mode = "stash" ->
            [st EXCEPT !.stash = @ \o (IF st.gap THEN <<" ">> ELSE <<>>) \o t.means, !.gap = FALSE]
      [] t.kind = "start" ->
            [st EXCEPT !.tags = @ \o [i \in DOMAIN t.values |->
                                        [name |-> B, at |-> Len(st.text), value |-> t.values[i]]]]
      [] t.kind = "raw" ->
            [st EXCEPT !.tags = Append(@, [name |-> Sc, at |-> Len(st.text), value |-> NoValue]),
                       !.stashes = Append(@, t.means)]
      [] OTHER -> st

Page(mode, name, tokens) ==
    LET start == [text |-> <<>>, tags |-> << [name |-> name, at |-> 0, value |-> NoValue] >>,
                  stash |-> <<>>, stashes |-> <<>>, gap |-> FALSE, fresh |-> mode = "pre"]
        said == FoldLeft(LAMBDA st, t : Say(st, t, mode), start, tokens)
    IN [text |-> <<"<">> \o name \o <<">">> \o FlattenSeq([i \in DOMAIN tokens |-> tokens[i].text])
                 \o <<"<", "/">> \o name \o <<">">>,
        reads |-> [text |-> said.text, tags |-> said.tags,
                   stashes |-> IF mode = "stash" THEN Append(said.stashes, said.stash) ELSE said.stashes]]

\* Two words would be one, and line breaks of two kinds are not told apart.
Neighbours(t, u) ==
    /\ t.kind = "word" => u.kind # "word"
    /\ t.kind = "blank" => u.kind # "blank"
Tokens == Words \cup Gaps \cup Starts \cup Raws \cup Nothings
Texts == Words \cup Gaps
Fits(page) ==
    /\ \A i \in 1 .. Len(page) - 1 : Neighbours(page[i], page[i + 1])
    /\ \A i, j \in DOMAIN page :
            page[i].kind = "blank" /\ page[j].kind = "blank" /\ "\r" \in ToSet(page[i].text)
                => page[j].newlines = 0 \/ "\r" \in ToSet(page[j].text)
Pages3(mode, name, S, T, U) ==
    {Page(mode, name, p) : p \in {q \in {<<t, u, w>> : t \in S, u \in T, w \in U} : Fits(q)}}
MCPages ==
    Pages3("body", B, Tokens, Tokens, {Nothing(<<>>)})
    \cup Pages3("pre", Pr, Gaps, Tokens, Gaps)
    \cup Pages3("line", Li, Gaps, Words, Gaps)
    \cup Pages3("stash", Ti, Texts, Texts, Texts)

----------------------------------------------------------------------------
(* GIF files. *)

Picture(w, h, interlace, blocks) ==
  [width |-> w, height |-> h, interlace |-> interlace, global |-> 4, local |-> 0,
   comment |-> FALSE, application |-> FALSE, transparent |-> -1, input |-> 2,
   blocks |-> blocks]

\* Any two bytes, and two more in a block of their own.
AnyPictures ==
  {Picture(3, 2, FALSE, <<<<x, y>>, <<z, 45>>>>) :
     x \in {12, 76, 140}, y \in {10, 99}, z \in {209}}

\* Five rows in four passes, with the other parts a file may have.
Interlaces ==
  {[Picture(2, 5, TRUE, <<<<68>>, <<140, 33, 83>>>>)
      EXCEPT !.local = l, !.comment = c, !.application = ~c, !.transparent = t] :
     l \in {0, 2}, c \in BOOLEAN, t \in {-1, 3}}
  \cup {Picture(1, 5, TRUE, <<<<132, 28>>, <<5>>>>),
        Picture(2, 5, TRUE, <<<<179, 35, 174>>, <<0>>>>)}

TheImages == AnyPictures \cup Interlaces
===============================================================================
