-------------------------------- MODULE Html --------------------------------
(***************************************************************************)
(* The HTML parser, src/src/html.cc, with the forms of form.cc, the tables  *)
(* of table.cc and the element stack of styleengine.cc.                     *)
(*                                                                         *)
(* A page is any sequence of the tokens that Html_write_raw finds: tags and *)
(* words over the elements of one member of Documents.  Every element that  *)
(* is open has an item on the stack, with the widget its text goes to and   *)
(* the parse mode; the StyleEngine keeps a second stack of the same         *)
(* elements, and InFlags a third view of them.  Each function of the code   *)
(* is an operator from a parser to a parser.  Left out: attributes that     *)
(* only style or link, list numbers, the characters of words.               *)
(***************************************************************************)
EXTENDS Integers, Sequences, FiniteSets, SequencesExt

CONSTANTS Documents,    \* the elements a page may use, and bounds for such a page on the
                        \* depth of the stack and on the forms, controls and options
          Sheets,       \* style sheets a page may link to
          CounterSize,  \* the element counters are uchar_t: 256 in the code
          None

ASSUME HtmlBounds ==
    /\ \A d \in Documents : d.depth \in Nat /\ d.controls \in Nat
    /\ CounterSize \in Nat /\ CounterSize > 2

----------------------------------------------------------------------------
(* The columns of Tags[]. *)

Heading == {"h1", "h2", "h3", "h4", "h5", "h6"}
BlockContainers ==
    {"blockquote", "body", "center", "dd", "dir", "div", "dl", "form", "frameset", "html",
     "iframe", "li", "menu", "ol", "table", "td", "th", "tr", "ul"}
BlockElements == BlockContainers \cup Heading \cup {"address", "dt", "frame", "hr", "p", "pre"}
Containers == BlockContainers \cup {"button", "del", "head", "map", "object", "script"}
HeadElements ==
    {"base", "head", "isindex", "link", "meta", "object", "script", "style", "title"}
NotOfBody == {"base", "head", "html", "link", "meta", "style", "title"}
OptionalEnd ==
    {"body", "dd", "dt", "head", "html", "li", "option", "p", "td", "th", "tr"}
ForbiddenEnd ==
    {"area", "base", "br", "frame", "hr", "img", "input", "isindex", "link", "meta"}
TagLevel(t) ==
    CASE t \in ForbiddenEnd -> 0
      [] t = "td" -> 3
      [] t = "tr" -> 4
      [] t = "table" -> 5
      [] t \in OptionalEnd \ {"td", "tr"} -> 1
      [] OTHER -> 2

\* Html_needs_optional_close: does opening new end the element old?
NeedsOptionalClose(old, new) ==
    \/ old \in {"p", "dt"} /\ new \in BlockElements
    \/ old = "li" /\ new = "li"
    \/ old \in {"td", "th"} /\ new \in {"td", "th", "tr"}
    \/ old = "tr" /\ new = "tr"
    \/ old = "dd" /\ new \in {"dd", "dt"}
    \/ old = "option"

----------------------------------------------------------------------------
VARIABLES html,    \* the DilloHtml of the window's page
          sheet    \* the cache entry of each style sheet: absent, loading or complete

htmlVars == <<html, sheet>>

Root == [tag |-> None, tb |-> 0, kind |-> "text", mode |-> "init", tmode |-> "none",
         table |-> None]

\* DilloHtml::DilloHtml.  type, meta: the content type the page was opened with and the
\* one of its cache entry come from a META element.  pending, loading: the window's
\* NumPendingStyleSheets, zeroed for each page by a_Bw_cleanup, and the clients it counts.
\* repush: None, or why another load is due.  raw: the element whose content is being read as
\* it is.
NewHtml(doc, meta) ==
    [doc |-> doc, type |-> meta, meta |-> meta,
     stack |-> <<Root>>, dw |-> 0, doctree |-> <<>>,
     flags |-> {}, num |-> [html |-> 0, head |-> 0, body |-> 0],
     req |-> FALSE, soup |-> TRUE, stop |-> FALSE, eof |-> FALSE,
     cssUrls |-> {}, pending |-> 0, loading |-> {}, repush |-> None,
     forms |-> <<>>, outside |-> <<>>, raw |-> None]

HtmlInit ==
    /\ html \in {NewHtml(d, FALSE) : d \in Documents}
    /\ sheet \in [Sheets -> {"absent", "loading", "complete"}]
    /\ "link" \notin html.doc.elements => \A u \in Sheets : sheet[u] = "absent"

Top(h) == Last(h.stack)
SetTop(h, item) == [h EXCEPT !.stack[Len(h.stack)] = item]
In(h, flag) == flag \in h.flags
Raise(h, fs) == [h EXCEPT !.flags = @ \cup fs]
Lower(h, fs) == [h EXCEPT !.flags = @ \ fs]
Count(h, n) == [h EXCEPT !.num[n] = (@ + 1) % CounterSize]

\* A new widget: an address nothing on the stack has.
Fresh(h) ==
    CHOOSE w \in 0..(2 * Len(h.stack)) :
        \A i \in DOMAIN h.stack : h.stack[i].tb # w /\ h.stack[i].table # w

----------------------------------------------------------------------------
(* Controls (form.cc).  A select has opts options, the first filled of which have their  *)
(* text; state "done": they were given to the widget.  early: made in the HEAD section.   *)

\* Html_get_current_input looks where Html_add_input puts a control now.
Controls(h) == IF In(h, "form") THEN Last(h.forms).inputs ELSE h.outside

SetControls(h, cs) ==
    IF In(h, "form")
    THEN [h EXCEPT !.forms[Len(h.forms)].inputs = cs]
    ELSE [h EXCEPT !.outside = cs]

CurrentInput(h) == Last(Controls(h))
SetInput(h, c) == SetControls(h, [Controls(h) EXCEPT ![Len(Controls(h))] = c])

\* Seeded bug: controls outside of a form stay enabled while style sheets are loading.
Mut_AddInput(h, type) ==
    SetControls(h, Append(Controls(h),
        [type |-> type, opts |-> 0, filled |-> 0, state |-> "open", early |-> In(h, "head"),
         on |-> ~In(h, "form") \/ Last(h.forms).enabled]))

\* Html_add_input: enabled as the form was when it began, or by the sheets pending now.
AddInput(h, type) ==
    SetControls(h, Append(Controls(h),
        [type |-> type, opts |-> 0, filled |-> 0, state |-> "open", early |-> In(h, "head"),
         on |-> IF In(h, "form") THEN Last(h.forms).enabled ELSE h.pending = 0]))

FormNew(h) == [h EXCEPT !.forms = Append(@, [inputs |-> <<>>, enabled |-> h.pending = 0])]

IsSelect(c) == c.type = "select"

\* Html_option_finish gives its text to the last option.
OptionFinish(h) ==
    LET c == CurrentInput(h) IN
    IF IsSelect(c) THEN SetInput(h, [c EXCEPT !.filled = c.opts]) ELSE h

AllControls(h) ==
    ToSet(h.outside) \cup UNION {ToSet(h.forms[i].inputs) : i \in DOMAIN h.forms}
NumInputs(cs) == FoldSeq(LAMBDA c, n : n + 1 + c.opts, 0, cs)
NumControls(h) == NumInputs(h.outside) + FoldSeq(LAMBDA f, n : n + NumInputs(f.inputs) + 1, 0, h.forms)

----------------------------------------------------------------------------
(* The stack of elements. *)

\* doctree: the elements of the StyleEngine, each with whether its white-space is "pre",
\* which the user agent style sets for PRE and other elements inherit.
StartElement(h, t) ==
    LET inherited == h.doctree # <<>> /\ Last(h.doctree).pre IN
    [h EXCEPT !.doctree = Append(@, [el |-> t, pre |-> t = "pre" \/ inherited])]
EndElement(h) == [h EXCEPT !.doctree = Front(@)]

\* Html_push_tag copies the top item.
Push(h, t) == [h EXCEPT !.stack = Append(@, [Top(h) EXCEPT !.tag = t]), !.dw = Top(h).tb]
ForcePush(h, t) == Push(StartElement(h, t), t)

\* Html_add_textblock, and the widgets of LI, TD, TH and BUTTON.
AddTextblock(h, kind) ==
    LET w == Fresh(h) IN
    [SetTop(h, [Top(h) EXCEPT !.tb = w, !.kind = kind]) EXCEPT !.dw = w]

\* Html_real_pop_tag, Html_eventually_pop_dw.
RealPop(h) ==
    LET rest == Front(h.stack) IN
    [EndElement(h) EXCEPT !.stack = rest, !.dw = Last(rest).tb]

\* a_Html_load_stylesheet: a sheet complete in the cache is parsed; one without an entry
\* gets a client; one that is already on its way, for whomever, gets none.
LoadSheets(h, urls) ==
    LET absent == {u \in urls \ h.loading : sheet[u] = "absent"} IN
    [h EXCEPT !.pending = @ + Cardinality(absent),
              !.loading = @ \cup absent]

CloseSelect(h) ==
    IF ~In(h, "select") THEN h
    ELSE LET g == Lower(IF In(h, "option") THEN OptionFinish(h) ELSE h, {"select", "option"})
         IN SetInput(g, [CurrentInput(g) EXCEPT !.state = "done"])

FormFlags == {"form", "select", "option", "textarea"}

\* The close functions of the elements.
CloseFunction(h, t) ==
    CASE t \in {"html", "body"} -> IF h.num[t] = 1 THEN Lower(h, {t}) ELSE h
      [] t = "head" -> IF In(h, "head") THEN LoadSheets(Lower(h, {"head"}), h.cssUrls) ELSE h
      [] t = "form" -> Lower(h, FormFlags)
      [] t = "select" -> CloseSelect(h)
      [] t = "textarea" ->
            IF In(h, "textarea")
            THEN Lower(SetInput(h, [CurrentInput(h) EXCEPT !.state = "done"]), {"textarea"})
            ELSE h
      [] t \in {"button", "li", "pre", "map"} -> Lower(h, {t})
      [] OTHER -> h

\* Html_tag_cleanup_to_idx: close and pop from the top down to item idx.
CleanupTo(h, idx) ==
    LET n == Len(h.stack)
        close[k \in 0..(n - idx + 1)] ==
            IF k = 0 THEN h
            ELSE LET g == close[k - 1] IN RealPop(CloseFunction(g, Top(g).tag))
    IN close[n - idx + 1]

\* Html_tag_cleanup_at_close with w3c_plus_heuristics: the innermost element t that
\* only elements with an optional end, or of a lower level, stand before.
CleanupAtClose(h, t) ==
    LET Stops(i) == \/ h.stack[i].tag = t
                    \/ /\ h.stack[i].tag \notin OptionalEnd
                       /\ TagLevel(h.stack[i].tag) >= TagLevel(t)
        Found == {i \in 2..Len(h.stack) : Stops(i)}
    IN IF Found = {} THEN h
       ELSE LET i == CHOOSE i \in Found : \A j \in Found : j <= i IN
            IF h.stack[i].tag = t THEN CleanupTo(h, i) ELSE h

\* Html_stack_cleanup_at_open, for a block element or over an optional end.
Stays(h, new) ==
    LET old == Top(h).tag IN
    \/ old = None
    \/ old \in OptionalEnd /\ ~NeedsOptionalClose(old, new)
    \/ old \notin OptionalEnd /\ old \in Containers
    \/ In(h, "pre") /\ new = "hr"
    \/ In(h, "select") /\ new = "option"

CleanupAtOpen(h, new) ==
    LET close[k \in 0..Len(h.stack)] ==
            IF k = 0 THEN h
            ELSE LET g == close[k - 1] IN
                 IF Stays(g, new) THEN g ELSE CleanupAtClose(g, Top(g).tag)
    IN IF h.soup THEN close[Len(h.stack)] ELSE h

----------------------------------------------------------------------------
(* The open functions of the elements, on a stack that has the element. *)

SetMode(h, mode) == SetTop(h, [Top(h) EXCEPT !.mode = mode])

OpenHead(h) ==
    IF In(h, "body") \/ h.num.body > 0
    THEN [h EXCEPT !.req = TRUE]
    ELSE Count(Raise(h, {"head"}), "head")

\* A second BODY leaves the parse mode as it is.
OpenBody(h) ==
    LET g == Count(Raise(h, {"body"}), "body") IN
    IF g.num.body > 1 THEN g ELSE SetMode(g, "body")

\* META: a refresh without delay or a new content type stop the parser; the message for
\* other refreshes is parsed at once, and closes the elements it opens.
OpenMeta(h, attr) ==
    IF ~In(h, "head") THEN h
    ELSE CASE attr = "refresh" -> [h EXCEPT !.stop = TRUE, !.repush = "redirect"]
           [] attr = "delayed" -> [h EXCEPT !.req = FALSE]
           [] attr = "charset" ->
                [h EXCEPT !.meta = TRUE, !.stop = ~h.type,
                          !.repush = IF h.type THEN @ ELSE "charset"]
           [] OTHER -> h

OpenForm(h) ==
    IF In(h, "form") THEN h
    ELSE FormNew(Raise(Lower(
            IF In(h, "select")
            THEN SetInput(h, [CurrentInput(h) EXCEPT !.state = "dropped"]) ELSE h,
            FormFlags), {"form"}))

OpenSelect(h) ==
    IF In(h, "select") THEN h
    ELSE SetMode(AddInput(Raise(Lower(h, {"option"}), {"select"}), "select"), "stash")

OpenOption(h) ==
    IF ~In(h, "select") THEN h
    ELSE LET g == Raise(IF In(h, "option") THEN OptionFinish(h) ELSE h, {"option"})
             c == CurrentInput(g)
         IN SetMode(IF IsSelect(c) THEN SetInput(g, [c EXCEPT !.opts = @ + 1]) ELSE g,
                    "stash")

OpenTextarea(h) ==
    CASE In(h, "textarea") -> [h EXCEPT !.req = TRUE]
      [] In(h, "select") -> h
      [] OTHER -> AddInput(SetMode(Raise(h, {"textarea"}), "verbatim"), "textarea")

\* INPUT and ISINDEX; the latter is a form of its own.
OpenInput(h) == IF In(h, "select") \/ In(h, "button") THEN h ELSE AddInput(h, "input")
OpenIsindex(h) ==
    IF In(h, "form") THEN h
    ELSE Lower(AddInput(Raise(FormNew(h), {"form"}), "index"), {"form"})

OpenButton(h) ==
    IF In(h, "button") \/ In(h, "select") THEN h
    ELSE AddInput(AddTextblock(Raise(h, {"button"}), "button"), "button")

OpenTable(h) == SetTop(h, [Top(h) EXCEPT !.tmode = "top", !.table = Fresh(h)])

OpenRow(h) ==
    IF Top(h).tmode = "none" THEN h ELSE SetTop(h, [Top(h) EXCEPT !.tmode = "tr"])

\* TD and TH set the white-space of their element.
OpenCell(h) ==
    IF Top(h).tmode = "none" THEN h
    ELSE LET g == AddTextblock(h, "cell") IN
         [SetTop(g, [Top(g) EXCEPT !.tmode = "td"]) EXCEPT !.doctree[Len(h.doctree)].pre = FALSE]

OpenFunction(h, t, attr) ==
    CASE t = "html" -> Count(Raise(h, {"html"}), "html")
      [] t = "head" -> OpenHead(h)
      [] t = "body" -> OpenBody(h)
      [] t = "meta" -> OpenMeta(h, attr)
      [] t = "link" -> IF In(h, "head") /\ attr \in Sheets
                       THEN [h EXCEPT !.cssUrls = @ \cup {attr}] ELSE h
      [] t = "title" -> SetMode(h, "stash")
      [] t \in {"script", "style"} -> SetMode(h, "verbatim")
      [] t \in Heading -> SetMode(h, "stashbody")
      [] t \in {"blockquote", "dd", "div", "frameset", "ol", "ul"} -> AddTextblock(h, "text")
      [] t = "li" -> AddTextblock(Raise(h, {"li"}), "item")
      [] t = "pre" -> Raise(h, {"pre"})
      [] t = "map" -> IF attr = "name" THEN Raise(h, {"map"}) ELSE h
      [] t = "form" -> OpenForm(h)
      [] t = "select" -> OpenSelect(h)
      [] t = "option" -> OpenOption(h)
      [] t = "textarea" -> OpenTextarea(h)
      [] t = "input" -> OpenInput(h)
      [] t = "isindex" -> OpenIsindex(h)
      [] t = "button" -> OpenButton(h)
      [] t = "table" -> OpenTable(h)
      [] t = "tr" -> OpenRow(h)
      [] t \in {"td", "th"} -> OpenCell(h)
      [] OTHER -> h

----------------------------------------------------------------------------
(* Html_process_tag. *)

Implicit(h, t) == OpenFunction(ForcePush(h, t), t, None)

\* Html_test_section opens HTML, HEAD and BODY, and closes HEAD, where they are implied.
TestSection(h, t, closing) ==
    LET Implied(g, s) == IF t # s \/ closing THEN Implicit(g, s) ELSE g
        g == IF In(h, "html") THEN h ELSE Implied(h, "html")
    IN CASE t \in HeadElements -> IF In(g, "head") THEN g ELSE Implied(g, "head")
         [] t \notin HeadElements \cup NotOfBody ->
                Implied(IF In(g, "head") THEN CleanupAtClose(g, "head") ELSE g, "body")
         [] OTHER -> g

Sectioned(h, t, closing) == IF In(h, "body") THEN h ELSE TestSection(h, t, closing)

\* Elements that must not have an end tag, or whose tag ends in "/>", are closed now.
Finish(h, t, attr) ==
    IF t \in ForbiddenEnd \/ h.req \/ attr = "slash"
    THEN [CleanupAtClose(h, t) EXCEPT !.req = FALSE]
    ELSE h

\* White-space "pre" overrides the parse mode the open function has set.
WhiteSpace(h) == IF Last(h.doctree).pre THEN SetMode(h, "pre") ELSE h

ProcessOpen(h, t, attr) ==
    LET s == Sectioned(h, t, FALSE)
        over == Top(s).tag # None /\ Top(s).tag \in OptionalEnd
        c == IF t \in BlockElements \/ over THEN CleanupAtOpen(s, t) ELSE s
        o == OpenFunction(StartElement(Push(c, t), t), t, attr)
    IN IF o.stop THEN o ELSE Finish(WhiteSpace(o), t, attr)

ProcessClose(h, t) == [CleanupAtClose(Sectioned(h, t, TRUE), t) EXCEPT !.req = FALSE]

----------------------------------------------------------------------------
(* The steps: tokens of the page, and what its style sheets and its window do. *)

Parsing == ~html.stop /\ ~html.eof

\* The new parser, within the bounds; its clients are entries of the cache.
HtmlBecomes(h) ==
    /\ Len(h.stack) <= h.doc.depth
    /\ NumControls(h) <= h.doc.controls
    /\ html' = h
    /\ sheet' = [u \in Sheets |-> IF u \in h.loading \ html.loading THEN "loading" ELSE sheet[u]]

RawElements == {"script", "style", "textarea"}

Attributes(t) ==
    CASE t = "meta" -> {"refresh", "delayed", "charset"}
      [] t = "link" -> Sheets
      [] t = "map" -> {None, "name"}
      [] t \in ForbiddenEnd -> {None}
      [] OTHER -> {None, "slash"}

\* In VERBATIM mode only the end tag of the element is a token.
StartTag(t, attr) ==
    /\ Parsing /\ Top(html).mode # "verbatim" /\ html.raw = None
    /\ LET h == ProcessOpen(html, t, attr) IN
       HtmlBecomes([h EXCEPT !.raw = IF t \in RawElements /\ attr # "slash" THEN t ELSE None])

EndTag(t) ==
    /\ Parsing
    /\ Top(html).mode = "verbatim" => t = Top(html).tag
    /\ html.raw \in {None, t}
    /\ HtmlBecomes([ProcessClose(html, t) EXCEPT !.raw = None])

\* finishParsing closes the elements left open.
Eof ==
    /\ Parsing
    /\ LET n == Len(html.stack)
           close[k \in 0..n] ==
               IF k = 0 THEN html
               ELSE LET g == close[k - 1] IN
                    IF Len(g.stack) = 1 THEN g ELSE CleanupAtClose(g, Top(g).tag)
       IN HtmlBecomes([close[n] EXCEPT !.eof = TRUE])

\* Html_css_load_callback, at the end of a sheet the page has a client for.
SheetArrives(u) ==
    /\ sheet[u] = "loading"
    /\ sheet' = [sheet EXCEPT ![u] = "complete"]
    /\ html' = IF u \notin html.loading THEN html
               ELSE [html EXCEPT !.loading = @ \ {u}, !.pending = @ - 1,
                                 !.repush = IF html.pending = 1 /\ @ = None THEN "css" ELSE @]

\* The page is loaded again, as repush asks or the user does, or another one is.  The
\* window stops its clients, but the cache goes on with their sheets.
LoadSheet ==
    /\ html' \in IF html.repush = "redirect"
                 THEN {NewHtml(d, FALSE) : d \in Documents}
                 ELSE {NewHtml(html.doc, html.meta)}
    /\ UNCHANGED sheet

HtmlNext ==
    \/ \E t \in html.doc.elements :
          \/ \E attr \in Attributes(t) : StartTag(t, attr)
          \/ EndTag(t)
    \/ Eof
    \/ \E u \in Sheets : SheetArrives(u)
    \/ LoadSheet

HtmlSpec == HtmlInit /\ [][HtmlNext]_htmlVars

----------------------------------------------------------------------------
(* Properties. *)

OnStack(t) == \E i \in DOMAIN html.stack : html.stack[i].tag = t

HtmlTypeOk ==
    /\ html.stack[1].tag = None
    /\ html.pending = Cardinality(html.loading)
    /\ \A u \in html.loading : sheet[u] = "loading"

\* The words of the page go to the widget of the innermost element, whatever elements
\* were left open, closed twice or closed in the wrong order (Html_eventually_pop_dw).
TextGoesToTop == html.dw = Top(html).tb

\* The StyleEngine has exactly the open elements, so that every word gets the style of
\* the elements around it (the assertion of StyleEngine::endElement).
StyleFollowsStack ==
    /\ Len(html.doctree) = Len(html.stack) - 1
    /\ \A i \in DOMAIN html.doctree : html.doctree[i].el = html.stack[i + 1].tag

\* A flag of InFlags says of an element that it is open: no content is refused for an
\* element that has been closed.
FlagsHaveElement ==
    \A f \in html.flags \cap {"form", "select", "textarea", "button", "pre", "head"} : OnStack(f)

\* What Html_get_current_input returns while a select or a textarea is open is that
\* select or textarea, and an open option is one of its options.
InputIsCurrent ==
    /\ html.flags \cap {"select", "option", "textarea"} # {} => Controls(html) # <<>>
    /\ In(html, "select") => CurrentInput(html).type = "select"
    /\ In(html, "option") => In(html, "select") /\ CurrentInput(html).opts > 0
    /\ In(html, "textarea") => CurrentInput(html).type = "textarea"

\* A select that has been closed is complete: it has its menu, and every option its text;
\* only a FORM inside the SELECT element makes the parser drop it.
SelectsComplete ==
    \A c \in AllControls(html) :
        c.type = "select" /\ (html.eof \/ ~OnStack("select")) =>
            c.state = "dropped" \/ (c.state = "done" /\ c.filled = c.opts)

\* When the last style sheet arrives and the page is about to be parsed again, no control
\* was there to type into: it comes back enabled and without data loss.
RepushLosesNothing ==
    [][html.repush # "css" /\ html'.repush = "css"
         => \A c \in AllControls(html) : c.early \/ ~c.on]_htmlVars

ParserIsSound ==
    HtmlTypeOk /\ TextGoesToTop /\ StyleFollowsStack /\ FlagsHaveElement /\ InputIsCurrent /\ SelectsComplete

\* html.cc: at every point of a page, however its tags are mixed up, the stack, the widgets,
\* the flags and the controls agree, and no load for the sake of a sheet loses a control's data.
PageIsBuilt == []ParserIsSound /\ RepushLosesNothing
=============================================================================
