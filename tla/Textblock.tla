------------------------------ MODULE Textblock ------------------------------
(***************************************************************************)
(* Text blocks, src/dw/textblock.cc: the lines of a block are built from its *)
(* words as these are added, and rebuilt from the line where something has   *)
(* changed (wrapRef).  The operators here take and give a block; the tree of *)
(* widgets around it is in Layout.                                          *)
(*                                                                         *)
(* Lines are numbered from 1, so that 0 stands for the code's -1.  A word    *)
(* has one height, no margins, and is left aligned.                         *)
(***************************************************************************)
EXTENDS Integers, Sequences, SequencesExt

CONSTANT Indent  \* text-indent, the offset of the first line

NoRef == 0
Most(a, b) == IF a >= b THEN a ELSE b
Least(a, b) == IF a <= b THEN a ELSE b

NewBlock == [words |-> <<>>, lines |-> <<>>, wrapRef |-> NoRef, must |-> FALSE,
             avail |-> 0, availHeight |-> 0, offset |-> 0,
             lastWidth |-> 0, parMin |-> 0, parMax |-> 0]

\* addWord; the widget of a widget word is its kind.
Word(kind, width, height, space, brk, nowrap) ==
    [kind |-> kind, width |-> width, height |-> height, space |-> space, brk |-> brk,
     nowrap |-> nowrap]
IsWidget(word) == word.kind \notin {"text", "break"}

----------------------------------------------------------------------------
\* addLine
AddLine(B, i, newPar) ==
    LET first == B.lines = <<>>
        prev == Last(B.lines)
        parMin == IF newPar THEN 0 ELSE B.parMin
        parMax == IF newPar THEN 0 ELSE B.parMax
        maxPar == IF first THEN 0 ELSE prev.maxPar
        line == [first |-> i, last |-> i, height |-> 0, brk |-> 0,
                 top |-> IF first THEN 0 ELSE prev.top + prev.height + prev.brk,
                 maxWidth |-> Most(IF first THEN B.offset ELSE prev.maxWidth, B.lastWidth),
                 maxWordMin |-> IF first THEN 0 ELSE prev.maxWordMin,
                 maxPar |-> IF newPar THEN Most(maxPar, B.parMax) ELSE maxPar,
                 parMin |-> parMin, parMax |-> parMax]
    IN [B EXCEPT !.lines = Append(@, line), !.lastWidth = IF first THEN B.offset ELSE 0,
                 !.parMin = parMin, !.parMax = parMax]

SpaceBefore(B, i) == IF i > 1 THEN B.words[i - 1].space ELSE 0

StartsPar(B, i) == B.lines = <<>> \/ B.words[i - 1].kind = "break"

Fits(B, i) == B.lastWidth + SpaceBefore(B, i) + B.words[i].width <= B.avail

\* A new line is needed for word i.
NeedsLine(B, i) ==
    \/ StartsPar(B, i)
    \/ ~B.words[i].nowrap /\ Last(B.lines).first # i /\ ~Fits(B, i)

\* The word, of the given extremes, becomes the last one of the last line.
PutWord(B, i, e, newPar, newLine) ==
    LET word == B.words[i]
        space == SpaceBefore(B, i)
        line == Last(B.lines)
        parMin == IF word.nowrap THEN line.parMin + e.min + space ELSE line.parMin
        par == (IF newPar THEN 0 ELSE space) + e.max
    IN [B EXCEPT
          !.lines[Len(B.lines)] =
             [line EXCEPT !.last = i, !.height = Most(@, word.height),
                          !.brk = IF word.kind = "break" THEN Most(@, word.brk) ELSE @,
                          !.parMin = parMin,
                          !.maxWordMin = Most(@, IF word.nowrap THEN parMin ELSE e.min)],
          !.lastWidth = @ + (IF newLine THEN 0 ELSE space) + word.width,
          !.parMin = @ + par, !.parMax = @ + par,
          !.must = TRUE]

WrapInto(B, i, e) ==
    IF NeedsLine(B, i) THEN PutWord(AddLine(B, i, StartsPar(B, i)), i, e, StartsPar(B, i), TRUE)
    ELSE PutWord(B, i, e, FALSE, FALSE)

\* wordWrap: the next word is put into the last line or a new one.
WordWrap(B, i, e) ==
    WrapInto(IF i = 1 THEN [B EXCEPT !.offset = IF B.words[1].kind = "box" THEN 0 ELSE Indent]
             ELSE B, i, e)

\* The beginning of rewrap: the lines from wrapRef on are dropped, the width of the line
\* before it is that of its words, and the values of its paragraph are those of its start.
CutLines(B) ==
    LET kept == SubSeq(B.lines, 1, B.wrapRef - 1)
        line == Last(kept)
        width == FoldLeft(LAMBDA w, i : w + B.words[i].width
                                          + (IF i = line.last THEN 0 ELSE B.words[i].space),
                          0, [k \in 1..(line.last - line.first + 1) |-> line.first + k - 1])
    IN IF kept = <<>> THEN [B EXCEPT !.lines = <<>>, !.lastWidth = 0, !.parMin = 0, !.parMax = 0]
       ELSE [B EXCEPT !.lines = kept, !.lastWidth = width,
                      !.parMin = line.parMin, !.parMax = line.parMax]

NextWord(B) == IF B.lines = <<>> THEN 1 ELSE Last(B.lines).last + 1

\* markChange
MarkChange(B, ref) ==
    IF ref = NoRef THEN B
    ELSE [B EXCEPT !.wrapRef = IF @ = NoRef THEN ref ELSE Least(@, ref)]

\* findLineOfWord
LineOfWord(B, i) ==
    LET find[low \in Nat, high \in Nat] ==
            LET n == (low + high) \div 2 IN
            IF i < B.lines[n].first THEN find[low, n - 1]
            ELSE IF i > B.lines[n].last THEN find[n + 1, high]
            ELSE n
    IN find[1, Len(B.lines)]

\* sizeRequestImpl, after rewrap.
SizeOf(B) ==
    LET last == Last(B.lines) IN
    IF B.lines = <<>> THEN [width |-> Most(B.lastWidth, B.avail), height |-> 0]
    ELSE [width |-> Most(Most(last.maxWidth, B.lastWidth), B.avail),
          height |-> last.top + last.height]

\* getExtremesImpl, where e[i] are the extremes of word i: from the lines if they are up to
\* date, otherwise counting the words from wrapRef on.
ExtremesOf(B, e) ==
    LET last == Last(B.lines)
        from == B.lines[B.wrapRef]
        start == IF B.wrapRef = 1
                 THEN [min |-> 0, max |-> 0, parMin |-> 0, parMax |-> 0, space |-> 0]
                 ELSE [min |-> from.maxWordMin, max |-> from.maxPar, parMin |-> from.parMin,
                       parMax |-> from.parMax, space |-> 0]
        add(st, i) ==
            LET line == B.lines[LineOfWord(B, i)]
                nowrap == B.words[line.first].nowrap
                off == IF i = 1 THEN B.offset ELSE 0
                parMin == st.parMin + (IF nowrap THEN st.space + e[i].min + off ELSE 0)
                parMax == st.parMax + e[i].max + off
                            + (IF B.words[i].kind = "break" THEN 0 ELSE st.space)
                min == IF nowrap THEN st.min ELSE Most(st.min, e[i].min + off)
            IN IF i = line.last /\ (B.words[i].kind = "break" \/ line = last)
               THEN [min |-> IF nowrap THEN Most(min, parMin) ELSE min,
                     max |-> Most(st.max, parMax), parMin |-> 0, parMax |-> 0, space |-> 0]
               ELSE [st EXCEPT !.min = min, !.parMin = parMin, !.parMax = parMax,
                               !.space = B.words[i].space]
    IN IF B.lines = <<>> THEN [min |-> 0, max |-> 0]
       ELSE IF B.wrapRef = NoRef
       THEN [min |-> last.maxWordMin, max |-> Most(last.maxPar, B.parMax)]
       ELSE LET end == FoldLeft(add, start, [k \in 1..(last.last - from.first + 1) |-> from.first + k - 1])
            IN [min |-> end.min, max |-> end.max]
=============================================================================
