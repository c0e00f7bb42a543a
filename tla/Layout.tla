-------------------------------- MODULE Layout --------------------------------
(***************************************************************************)
(* The layout of a page, src/dw/layout.cc, the size protocol of its widgets, *)
(* src/dw/widget.cc, and the viewport, src/dw/fltkviewport.cc: a parser adds *)
(* words to text blocks, an image gets its size, the window is resized, the *)
(* user scrolls, and idle functions bring sizes and positions up to date.   *)
(*                                                                         *)
(* The tree is the page, a block "box" that it may contain, and an image in  *)
(* either.  Only the vertical position of widgets is kept.  One anchor may    *)
(* be set and asked for.                                                    *)
(***************************************************************************)
EXTENDS Textblock, FiniteSets

CONSTANTS Texts,        \* the words the parser adds
          Spaces,       \* spaces of paragraph breaks
          Lines,        \* there are line breaks
          MaxWords,     \* bound on the words of the tree
          MaxY,         \* bound on positions the user or the history scrolls to
          ImageSize,    \* the side of the image, once it is known
          Windows,      \* sizes of the window, [width, height]
          Bar,          \* SCROLLBAR_THICKNESS
          MaxEvents     \* bound on window resizes and on the user's scrolls

VARIABLES
    S,       \* the widgets, the layout and the view
    cur,     \* the block the parser adds to
    parsing, \* between the first word added and flush: one handler
    events   \* resizes and scrolls so far

layoutVars == <<S, cur, parsing, events>>

None == "none"
Blocks == {"page", "box"}
Parts == Blocks \cup {"image"}

NewWidget == [parent |-> None, ref |-> NoRef, resize |-> TRUE, allocate |-> FALSE, extremes |-> TRUE,
              was |-> FALSE, size |-> [width |-> 0, height |-> 0], ext |-> [min |-> 0, max |-> 0],
              at |-> [y |-> 0, width |-> 0, height |-> 0]]

----------------------------------------------------------------------------
(* Queueing a resize. *)

Put(T, b, B) == [T EXCEPT !.block[b] = B]
ParentOf(T, x) == T.w[x].parent

Mark(T, x, ref, extremes) ==
    LET M == [T EXCEPT !.w[x].resize = TRUE, !.w[x].allocate = TRUE,
                       !.w[x].extremes = @ \/ extremes]
    IN IF x \in Blocks THEN Put(M, x, MarkChange(M.block[x], ref)) ELSE M

\* The parent is told of the line of its child.
MarkParent(T, x, extremes) ==
    IF ParentOf(T, x) = None THEN T ELSE Mark(T, ParentOf(T, x), T.w[x].ref, extremes)

\* Seeded bug: only the parent is marked, not the widgets above it.
Mut_QueueResize(T, x, ref, extremes) ==
    [MarkParent(Mark(T, x, ref, extremes), x, extremes) EXCEPT !.idle = TRUE]

\* Widget::queueResize: the widget and all above it, each with its child's line.
QueueResize(T, x, ref, extremes) ==
    LET p == ParentOf(T, x)
        M == MarkParent(Mark(T, x, ref, extremes), x, extremes)
    IN [(IF p = None THEN M ELSE MarkParent(M, p, extremes)) EXCEPT !.idle = TRUE]

\* setWidth and setAscent of a text block
SetHints(T, b, width, height) ==
    IF T.block[b].avail = width /\ T.block[b].availHeight = height THEN T
    ELSE QueueResize([T EXCEPT !.block[b].avail = width, !.block[b].availHeight = height,
                               !.block[b].must = FALSE], b, 1, FALSE)

\* Layout::setSizeHints
SetSizeHints(T) ==
    SetHints(T, "page", T.window.width - (IF T.greater THEN Bar ELSE 0), T.window.height - Bar)

----------------------------------------------------------------------------
(* Sizes. *)

ImageRequest(T) ==
    IF T.loaded THEN [width |-> ImageSize, height |-> ImageSize] ELSE [width |-> 1, height |-> 1]

RECURSIVE SizeRequest(_, _), GetExtremes(_, _)

\* calcWidgetSize, with sizeRequest: the word gets the size of its widget.
CalcWidgetSize(T, b, x) ==
    SizeRequest(IF x = "box" THEN SetHints(T, x, T.block[b].avail, T.block[b].availHeight) ELSE T, x)

WordExtremes(T, word) ==
    IF IsWidget(word) THEN T.w[word.kind].ext ELSE [min |-> word.width, max |-> word.width]

\* A word is wrapped with the extremes of its widget.
Wrap(T, b, i) ==
    Put(T, b, WordWrap(T.block[b], i, WordExtremes(T, T.block[b].words[i])))
WrapWord(T, b, i) ==
    LET word == T.block[b].words[i] IN
    Wrap(IF IsWidget(word) THEN GetExtremes(T, word.kind) ELSE T, b, i)

WithSize(word, size) == [word EXCEPT !.width = size.width, !.height = size.height]

\* The widget knows the line that its word has been put into.
Located(T, b, x) == [T EXCEPT !.w[x].ref = Len(T.block[b].lines)]

RewrapWidget(T, b, i, x) ==
    Located(WrapWord([T EXCEPT !.block[b].words[i] = WithSize(@, T.w[x].size)], b, i), b, x)

RewrapWord(T, b, i) ==
    LET x == T.block[b].words[i].kind IN
    IF IsWidget(T.block[b].words[i]) THEN RewrapWidget(CalcWidgetSize(T, b, x), b, i, x)
    ELSE WrapWord(T, b, i)

Upto(m, n) == [k \in 1..(n - m + 1) |-> m + k - 1]

\* Textblock::rewrap
RewrapLines(T, b) ==
    [FoldLeft(LAMBDA st, i : RewrapWord(st, b, i), T,
              Upto(NextWord(T.block[b]), Len(T.block[b].words)))
        EXCEPT !.block[b].wrapRef = NoRef]
Rewrap(T, b) ==
    IF T.block[b].wrapRef = NoRef THEN T ELSE RewrapLines(Put(T, b, CutLines(T.block[b])), b)

\* Widget::sizeRequest
Sized(T, x) ==
    [T EXCEPT !.w[x].size = IF x \in Blocks THEN SizeOf(T.block[x]) ELSE ImageRequest(T),
              !.w[x].resize = FALSE]
SizeRequest(T, x) ==
    IF ~T.w[x].resize THEN T ELSE Sized(IF x \in Blocks THEN Rewrap(T, x) ELSE T, x)

\* Widget::getExtremes: those of the widgets in a block first.
BlockExtremes(T, b) ==
    LET B == T.block[b] IN ExtremesOf(B, [i \in DOMAIN B.words |-> WordExtremes(T, B.words[i])])
WithExtremes(T, x) ==
    [T EXCEPT !.w[x].ext = IF x \in Blocks THEN BlockExtremes(T, x)
                           ELSE [min |-> T.w[x].size.width, max |-> T.w[x].size.width],
              !.w[x].extremes = FALSE]
GetExtremes(T, x) ==
    IF ~T.w[x].extremes THEN T
    ELSE WithExtremes(IF x \in Blocks
                      THEN FoldLeft(LAMBDA st, word : GetExtremes(st, word.kind), T,
                                    SelectSeq(T.block[x].words, IsWidget))
                      ELSE SizeRequest(T, x), x)

----------------------------------------------------------------------------
(* Scrolling and anchors. *)

\* Layout::scrollTo0
ScrollTo0(T, y) == [T EXCEPT !.scroll = TRUE, !.target = y]

\* Layout::updateAnchor.  scrollIdleNotInterrupted is set with every idle function, so that
\* none is removed.
UpdateAnchor(T) ==
    IF T.requested /\ T.anchor # None /\ T.anchorY # -1 THEN ScrollTo0(T, T.anchorY) ELSE T

SetAnchor(T, requested) == UpdateAnchor([T EXCEPT !.requested = requested])

\* Layout::scrollPosChanged
ScrollPosChanged(T) ==
    IF T.viewY = T.layoutY THEN T ELSE SetAnchor([T EXCEPT !.layoutY = T.viewY], FALSE)

Clamp(y, max) == Most(0, Least(y, max))

\* FltkViewport::scrollTo: the view has its own idea of the last position.
ViewScrollTo(T, y) ==
    LET to == Clamp(y, T.canvas.height - T.window.height + (IF T.hbar THEN Bar ELSE 0)) IN
    IF to = T.viewY THEN T ELSE ScrollPosChanged([T EXCEPT !.viewY = to])

LastY(T) == T.canvas.height - (T.window.height - Bar)

----------------------------------------------------------------------------
(* Allocation, and the idle function. *)

RECURSIVE SizeAllocate(_, _, _)

\* The first position of a word, from the top of its block.
WordY(B, i) == LET line == B.lines[LineOfWord(B, i)] IN line.top

FindAnchor(T, b, at) ==
    IF T.anchor # b THEN T
    ELSE UpdateAnchor([T EXCEPT !.anchorY =
                          at.y + (IF T.anchorWord > Len(T.block[b].words) THEN at.height
                                  ELSE WordY(T.block[b], T.anchorWord))])

\* Textblock::sizeAllocateImpl: the children, and the anchor if it is here.
AllocateImpl(T, b, at) ==
    LET B == T.block[b]
        child(st, i) ==
            LET word == B.words[i]
                line == B.lines[LineOfWord(B, i)]
            IN IF ~IsWidget(word) THEN st
               ELSE SizeAllocate(st, word.kind, [y |-> at.y + line.top + line.height - word.height,
                                                 width |-> word.width, height |-> word.height])
    IN FindAnchor(FoldLeft(child, T, Upto(1, Len(B.words))), b, at)

\* Widget::sizeAllocate
SizeAllocate(T, x, at) ==
    IF ~T.w[x].allocate /\ T.w[x].at = at THEN T
    ELSE [(IF x \in Blocks THEN AllocateImpl(T, x, at) ELSE T)
             EXCEPT !.w[x].at = at, !.w[x].allocate = FALSE, !.w[x].was = TRUE]

\* FltkViewport::setViewportSize
SetViewportSize(T) ==
    LET bars == [h |-> T.canvas.width > T.window.width, v |-> T.canvas.height > T.window.height]
    IN ViewScrollTo([T EXCEPT !.hbar = bars.h], IF bars.v THEN T.viewY ELSE 0)

\* Layout::resizeIdle: the page gets its size and its place, then the view its bars, which
\* may make the page narrower;
AllocatePage(T) ==
    LET size == T.w["page"].size IN
    [SizeAllocate(T, "page", [y |-> 0, width |-> size.width, height |-> size.height])
        EXCEPT !.canvas = size]
FitView(T) ==
    LET hbar == IF T.canvas.width > T.window.width THEN Bar ELSE 0 IN
    SetViewportSize(IF ~T.greater /\ T.canvas.height > T.window.height - hbar
                    THEN SetSizeHints([T EXCEPT !.greater = TRUE]) ELSE T)

RECURSIVE ResizeLoop(_)

\* again as long as it queues itself.
ResizeLoop(T) ==
    IF ~T.idle THEN UpdateAnchor(T)
    ELSE ResizeLoop(FitView(AllocatePage(SizeRequest([T EXCEPT !.idle = FALSE], "page"))))

----------------------------------------------------------------------------
(* The parser. *)

Words == Len(S.block["page"].words) + Len(S.block["box"].words)

\* Adding a word to the end of a block.
AddWord(T, b, word) ==
    LET U == [T EXCEPT !.block[b].words = Append(@, word)] IN
    WrapWord(U, b, Len(U.block[b].words))

\* addWidget: the widget is given its line when it has one.
AddSized(T, b, x) ==
    Located(AddWord(T, b, WithSize(Word(x, 0, 0, 0, 0, FALSE), T.w[x].size)), b, x)
AddWidget(T, b, x) ==
    AddSized(CalcWidgetSize(QueueResize([T EXCEPT !.w[x].parent = b, !.w[x].ref = NoRef], x, 1, TRUE),
                            b, x), b, x)

\* addParbreak: at the beginning of the box the break before it in the page is raised, if the
\* line before begins with a break; after a break that one is raised.
AddParbreak(T, b, space) ==
    LET B == T.block[b]
        P == T.block["page"]
        n == Len(B.words)
        ref == T.w[b].ref
    IN IF n = 0
       THEN IF b = "page" \/ P.words[1].kind = b \/ ref <= 1 THEN T
            ELSE LET f == P.lines[ref - 1].first IN
                 IF P.words[f].kind # "break" \/ P.words[f].brk >= space THEN T
                 ELSE QueueResize([T EXCEPT !.block["page"].words[f].brk = space,
                                            !.block["page"].must = FALSE], "page", ref, FALSE)
       ELSE IF B.words[n].kind = "break"
       THEN [T EXCEPT !.block[b].words[n].brk = Most(@, space),
                      !.block[b].lines[Len(B.lines)].brk = Most(@, Most(B.words[n].brk, space))]
       ELSE AddWord(T, b, Word("break", 0, 0, 0, space, FALSE))

\* addLinebreak
AddLinebreak(T, b) ==
    LET B == T.block[b]
        empty == B.words = <<>> \/ Last(B.words).kind = "break"
    IN AddWord(T, b, Word("break", 0, IF empty THEN 1 ELSE 0, 0, 0, FALSE))

\* handOverBreak
HandOverBreak(T, b) ==
    LET lines == T.block[b].lines IN
    IF lines = <<>> \/ Last(lines).brk = 0 \/ ParentOf(T, b) = None THEN T
    ELSE AddParbreak(T, ParentOf(T, b), Last(lines).brk)

\* flush
Flush(T, b) ==
    IF T.block[b].must
    THEN [QueueResize(T, b, NoRef, TRUE) EXCEPT !.block[b].must = FALSE] ELSE T

\* Textblock::addAnchor, Layout::addAnchor
AddAnchor(T, b) ==
    LET lines == T.block[b].lines IN
    UpdateAnchor([T EXCEPT !.anchor = b, !.anchorWord = Len(T.block[b].words) + 1,
                           !.anchorY = IF ~T.w[b].was THEN -1
                                       ELSE T.w[b].at.y + (IF lines = <<>> THEN 0 ELSE Last(lines).top)])

\* Every word that is added belongs to a write of the parser, which flush ends.
Adds(T) ==
    /\ Words < MaxWords
    /\ S' = T /\ parsing' = TRUE /\ UNCHANGED events

AddText(word) == Adds(AddWord(S, cur, word)) /\ UNCHANGED cur
AddBreak(space) == Adds(AddParbreak(S, cur, space)) /\ UNCHANGED cur
AddBr == Adds(AddLinebreak(S, cur)) /\ UNCHANGED cur
AddImage == ParentOf(S, "image") = None /\ Adds(AddWidget(S, cur, "image")) /\ UNCHANGED cur

OpenBox ==
    /\ cur = "page" /\ ParentOf(S, "box") = None
    /\ Adds(AddWidget(S, "page", "box")) /\ cur' = "box"

\* Html_eventually_pop_dw
CloseBox ==
    /\ cur = "box" /\ cur' = "page"
    /\ S' = Flush(HandOverBreak(S, "box"), "box")
    /\ parsing' = TRUE /\ UNCHANGED events

AddAnchorHere ==
    /\ S.anchor = None /\ S' = AddAnchor(S, cur)
    /\ parsing' = TRUE /\ UNCHANGED <<cur, events>>

\* The end of a write: flush of the current block.
EndWrite ==
    /\ parsing /\ parsing' = FALSE
    /\ S' = Flush(S, cur)
    /\ UNCHANGED <<cur, events>>

----------------------------------------------------------------------------
(* Everything else happens between two writes. *)

BetweenEvents(T) == ~parsing /\ S' = T /\ UNCHANGED <<cur, parsing>>
Event(T) == events < MaxEvents /\ events' = events + 1 /\ BetweenEvents(T)

\* Image::setBuffer, with resize
ImageLoads ==
    /\ ParentOf(S, "image") # None /\ ~S.loaded
    /\ BetweenEvents([QueueResize(S, "image", 1, TRUE) EXCEPT !.loaded = TRUE])
    /\ UNCHANGED events

ResizeIdle == S.idle /\ BetweenEvents(ResizeLoop(S)) /\ UNCHANGED events

\* Layout::scrollIdle, to the top of the target
ScrollIdle ==
    /\ S.scroll
    /\ LET T == [S EXCEPT !.scroll = FALSE, !.layoutY = Clamp(S.target, LastY(S))] IN
       BetweenEvents(ViewScrollTo(T, T.layoutY))
    /\ UNCHANGED events

\* Layout::viewportSizeChanged
WindowResized(window) ==
    /\ window # S.window
    /\ Event(SetSizeHints([S EXCEPT !.greater = @ /\ window.width <= S.window.width,
                                    !.idle = TRUE, !.window = window]))

UserScrolls(y) == Event(ViewScrollTo(S, y))

\* a_UIcmd_set_scroll_xy: the position a page was left at.
Restore(y) == ~S.scroll /\ Event(ScrollTo0(S, y))

\* a_UIcmd_set_scroll_by_fragment
AskAnchor == ~S.requested /\ Event(SetAnchor(S, TRUE))

LayoutInit ==
    /\ \E window \in Windows :
          S = SetSizeHints(
                [w |-> [x \in Parts |-> NewWidget], block |-> [b \in Blocks |-> NewBlock],
                 idle |-> TRUE, loaded |-> FALSE, window |-> window, greater |-> FALSE,
                 hbar |-> FALSE, canvas |-> [width |-> 0, height |-> 0],
                 layoutY |-> 0, viewY |-> 0, scroll |-> FALSE, target |-> 0,
                 requested |-> FALSE, anchor |-> None, anchorWord |-> 0, anchorY |-> -1])
    /\ cur = "page" /\ parsing = FALSE /\ events = 0

LayoutNext ==
    \/ \E word \in Texts : AddText(word)
    \/ \E space \in Spaces : AddBreak(space)
    \/ Lines /\ AddBr
    \/ AddImage
    \/ OpenBox
    \/ CloseBox
    \/ AddAnchorHere
    \/ EndWrite
    \/ ImageLoads
    \/ ResizeIdle
    \/ ScrollIdle
    \/ \E window \in Windows : WindowResized(window)
    \/ \E y \in 0..MaxY : UserScrolls(y) \/ Restore(y)
    \/ AskAnchor

LayoutSpec == LayoutInit /\ [][LayoutNext]_layoutVars

----------------------------------------------------------------------------
(* Properties. *)

Settled == ~parsing /\ ~S.idle /\ ~S.scroll
InTree(b) == b = "page" \/ ParentOf(S, b) # None

\* The block rebuilt from its words, as they are sized now.
FromScratch(b) ==
    LET B == [S.block[b] EXCEPT !.wrapRef = 1]
    IN FoldLeft(LAMBDA C, i : WordWrap(C, i, WordExtremes(S, B.words[i])), CutLines(B),
                Upto(1, Len(B.words)))

Geometry(lines) ==
    [n \in DOMAIN lines |->
       <<lines[n].first, lines[n].last, lines[n].top, lines[n].height, lines[n].brk, lines[n].maxWidth>>]

\* doc/dw-widget-sizes and textblock.hh: the lines are redundant.  Once the idle functions
\* have run, after whatever was added, resized or loaded in between, the lines of each block
\* are those that its words alone would give.
LinesAreRedundant ==
    Settled => \A b \in Blocks : InTree(b) =>
        Geometry(S.block[b].lines) = Geometry(FromScratch(b).lines)

\* Then also no resize is forgotten: no widget waits for its size or its place, each child is
\* as large as its word, stands in the line its parent knows it by, and is placed there, and
\* the available width is that of the parent.
NothingForgotten ==
    Settled => \A b \in Blocks : InTree(b) =>
        LET B == S.block[b] IN
        /\ B.wrapRef = NoRef /\ ~S.w[b].resize /\ ~S.w[b].allocate
        /\ \A i \in DOMAIN B.words : IsWidget(B.words[i]) =>
              LET x == B.words[i].kind
                  line == B.lines[S.w[x].ref]
              IN /\ line.first <= i /\ i <= line.last
                 /\ ~S.w[x].resize /\ ~S.w[x].allocate
                 /\ S.w[x].size = [width |-> B.words[i].width, height |-> B.words[i].height]
                 /\ S.w[x].at.y = S.w[b].at.y + line.top + line.height - B.words[i].height
                 /\ x = "image" => S.w[x].size = ImageRequest(S)
                 /\ x = "box" => S.block[x].avail = B.avail

\* A page that is opened at an anchor goes on following it while it loads: once all is
\* settled, and unless the user has scrolled, it is shown from the line of the word after the
\* anchor, or as far down as the page allows.
AnchorIsShown ==
    Settled /\ S.requested /\ S.anchor # None =>
        LET B == S.block[S.anchor] IN
        S.anchorWord <= Len(B.words) =>
            S.layoutY = Clamp(S.w[S.anchor].at.y + WordY(B, S.anchorWord), LastY(S))

\* textblock.cc, layout.cc: what is resized again while a page grows is what must be, and the
\* anchor that was asked for is shown.
LayoutIsRight == LinesAreRedundant /\ NothingForgotten /\ AnchorIsShown
=============================================================================
