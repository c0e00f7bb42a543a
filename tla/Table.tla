-------------------------------- MODULE Table --------------------------------
(***************************************************************************)
(* Tables, src/dw/table.cc: the HTML parser adds rows and cells, which may     *)
(* span rows and columns, and the widths of the columns and the heights of     *)
(* the rows are computed from the sizes that the cells ask for.              *)
(*                                                                         *)
(* The children array is the code's: row by row, Null where there is no cell,  *)
(* and in a position that a cell spans a reference to the cell.  A cell is its *)
(* spans and what its widget asks for: the least and the greatest width, the    *)
(* height, and the percentage of the table's width (Auto when there is none).  *)
(* Lengths are exact where the code rounds through float, and borders are left *)
(* out.  A column of 0%, for which the code divides by zero, is left out too.  *)
(***************************************************************************)
EXTENDS Integers, Sequences, FiniteSets, FiniteSetsExt, SequencesExt

CONSTANTS Cells,     \* what may be added, see AddCell
          Widths,    \* the width of the table: whether it is its own, and what it is
          Spacing,   \* hBorderSpacing and vBorderSpacing
          SpanLimit, \* 50 in the code
          MaxCols, MaxRows, \* bounds on the table
          Null

ASSUME SpanLimitAssumption == SpanLimit \in Nat \ {0}

VARIABLES children, numRows, numCols, curRow, curCol, rowClosed,
          width,   \* the table's style and the width it is given
          done     \* the last cell was added

tableVars == <<children, numRows, numCols, curRow, curCol, rowClosed, width, done>>

Auto == -1
At(row, col) == children[row * numCols + col + 1]
IsCell(child) == child # Null /\ child.type = "cell"
Positions == (0 .. numRows - 1) \X (0 .. numCols - 1)
Roots == {p \in Positions : IsCell(At(p[1], p[2]))}

----------------------------------------------------------------------------
(* The children array. *)

Span(row, col) == [type |-> "span", startRow |-> row, startCol |-> col]

\* A table as [kids, rows, cols], while it is being changed.
Get(t, row, col) == t.kids[row * t.cols + col + 1]

\* A row of reallocChildren when the table gets wider: a cell of colspan 0 spans the new
\* columns as well, in each of its rows.
Widened(t, row, cols) ==
    LET root(col) == LET child == Get(t, row, col)
                     IN IF IsCell(child) THEN <<row, col>> ELSE <<child.startRow, child.startCol>>
        zero == {col \in 0 .. t.cols - 1 :
                    /\ Get(t, row, col) # Null
                    /\ Get(t, root(col)[1], root(col)[2]).orig = 0}
        new == IF zero = {} THEN Null ELSE Span(root(Min(zero))[1], root(Min(zero))[2])
    IN [col \in 1 .. cols |->
           IF col > t.cols THEN new
           ELSE IF IsCell(Get(t, row, col - 1)) /\ Get(t, row, col - 1).orig = 0
                THEN [Get(t, row, col - 1) EXCEPT !.colspan = cols - (col - 1)]
           ELSE Get(t, row, col - 1)]

\* reallocChildren
Realloc(t, cols, rows) ==
    [kids |-> FlattenSeq([row \in 1 .. rows |->
                  IF row > t.rows THEN [col \in 1 .. cols |-> Null]
                  ELSE Widened(t, row - 1, cols)]),
     rows |-> rows, cols |-> cols]

Longer(t, rows) == IF rows > t.rows THEN Realloc(t, t.cols, rows) ELSE t
Wider(t, cols) == IF cols > t.cols THEN Realloc(t, cols, t.rows) ELSE t
Grown(t, rows, cols) == Wider(Longer(t, rows), cols)

Larger(a, b) == IF a > b THEN a ELSE b
Smaller(a, b) == IF a < b THEN a ELSE b

\* addRow; a row that a span has created is there already.
RowAdded(t) == [t EXCEPT !.cur = @ + 1, !.at = 0, !.closed = FALSE,
                         !.tab = Grown(@, t.cur + 2, 0)]

Now == [tab |-> [kids |-> children, rows |-> numRows, cols |-> numCols],
        cur |-> curRow, at |-> curCol, closed |-> rowClosed]
Become(t) ==
    /\ children' = t.tab.kids /\ numRows' = t.tab.rows /\ numCols' = t.tab.cols
    /\ curRow' = t.cur /\ curCol' = t.at /\ rowClosed' = t.closed

AddRow ==
    /\ ~done
    /\ curRow + 1 < MaxRows
    /\ Become(RowAdded(Now))
    /\ UNCHANGED <<width, done>>

\* addCell: the row that the cell goes to,
Opened(t) == IF t.closed THEN RowAdded(t) ELSE t
RowForCell == Opened(IF numRows = 0 THEN RowAdded(Now) ELSE Now)

\* the first column there that no cell of a row above spans,
FreeColumn(t) ==
    LET taken(col) == /\ Get(t.tab, t.cur, col) # Null
                      /\ Get(t.tab, t.cur, col).type = "span"
    IN IF t.at >= t.tab.cols THEN t.at
       ELSE Min({col \in t.at .. t.tab.cols : col = t.tab.cols \/ ~taken(col)})

\* and the positions that the cell covers from there, in tab.
Covered(t, tab, col, root) ==
    LET new(i) == LET r == (i - 1) \div tab.cols
                      c == (i - 1) % tab.cols
                  IN IF r = t.cur /\ c = col THEN root
                     ELSE IF /\ r \in t.cur .. t.cur + root.rowspan - 1
                             /\ c \in col .. col + root.colspan - 1 THEN Span(t.cur, col)
                     ELSE tab.kids[i]
    IN [t EXCEPT !.tab = [tab EXCEPT !.kids = [i \in DOMAIN tab.kids |-> new(i)]],
                 !.at = col + root.colspan, !.closed = @ \/ root.orig = 0]

PutAt(t, col, root) == Covered(t, Grown(t.tab, t.cur + root.rowspan, col + root.colspan), col, root)

PutCell(t, cell) ==
    LET colspan == IF cell.colspan > SpanLimit \/ cell.colspan < 0 THEN SpanLimit ELSE cell.colspan
        rowspan == IF cell.rowspan > SpanLimit \/ cell.rowspan <= 0 THEN SpanLimit ELSE cell.rowspan
        eff == IF colspan = 0 THEN Larger(t.tab.cols - t.at, 1) ELSE colspan
    IN PutAt(t, FreeColumn(t),
           [type |-> "cell", orig |-> colspan, colspan |-> eff, rowspan |-> rowspan,
            min |-> cell.min, max |-> cell.max, height |-> cell.height,
            percent |-> cell.percent])

AddCell(cell) ==
    /\ ~done
    /\ \E t \in {PutCell(RowForCell, cell)} :
          /\ t.tab.cols <= MaxCols /\ t.tab.rows <= MaxRows
          /\ Become(t)
    /\ UNCHANGED <<width, done>>

----------------------------------------------------------------------------
(* Column extremes. *)

CellAt(p) == At(p[1], p[2])
Sum(f, S) == FoldSet(LAMBDA i, n : n + f[i], 0, S)
Columns(p) == p[2] .. p[2] + CellAt(p).colspan - 1

\* forceCalcColumnExtremes, cells of one column.
SingleExtremes ==
    LET own(col) == {p \in Roots : p[2] = col /\ CellAt(p).colspan = 1}
        percents(col) == {p \in own(col) : CellAt(p).percent # Auto}
    IN [col \in 0 .. numCols - 1 |->
           LET mins == {CellAt(p).min : p \in own(col)}
               maxs == {CellAt(p).max : p \in own(col)}
           IN [min |-> Max(mins \union {0}), max |-> Max(mins \union maxs \union {0}),
               percent |-> IF percents(col) = {} THEN Auto
                           ELSE CellAt(<<Min({p[1] : p \in percents(col)}), col>>).percent]]

\* Cells of several columns, column by column: what they need beyond the sum of their
\* columns is apportioned to these.
Apportioned(ext, p) ==
    LET cell == CellAt(p)
        cs == cell.colspan
        cols == Columns(p)
        min0 == Sum([i \in cols |-> ext[i].min], cols)
        max0 == Sum([i \in cols |-> ext[i].max], cols)
        spanMin == Larger(Larger(cs, min0), cell.min - (cs - 1) * Spacing)
        spanMax == Larger(Larger(cs, max0), cell.max - (cs - 1) * Spacing)
        \* No cell of one column: equal parts first.
        part(whole) == FoldLeft(LAMBDA st, i :
                            LET w == st.left \div (cs - i) IN [left |-> st.left - w, out |-> Append(st.out, w)],
                            [left |-> whole, out |-> <<>>], [i \in 1 .. cs |-> i - 1]).out
        equal == [i \in DOMAIN ext |->
                     IF i \in cols THEN [ext[i] EXCEPT !.min = part(spanMin)[i - p[2] + 1],
                                                       !.max = part(spanMax)[i - p[2] + 1]]
                     ELSE ext[i]]
        start == IF min0 = 0 THEN equal ELSE ext
        minSum == IF min0 = 0 THEN spanMin ELSE min0
        maxSum == IF min0 = 0 THEN spanMax ELSE max0
        percent == {i \in cols : ext[i].percent > 0}
        cum == Sum([i \in cols |-> ext[i].percent], percent)
        availMin == spanMin - Sum([i \in cols |-> start[i].min], cols \ percent)
        one(st, i) ==
            LET e == st.ext[i]
                dw == IF st.app > 0 THEN (st.extra * e.max) \div st.app ELSE 0
                wMin == IF percent = {} THEN e.min + dw
                        ELSE IF i \in percent THEN Larger(e.min, (availMin * e.percent) \div cum)
                        ELSE st.wMin
                goal == spanMax - st.newMax
                wMax == Larger(wMin, IF goal <= 0 THEN 0 ELSE (goal * e.max) \div (maxSum - st.oldMax))
            IN [ext |-> [st.ext EXCEPT ![i].max = wMax,
                                       ![i].min = IF percent = {} \/ i \in percent THEN wMin ELSE @],
                wMin |-> wMin, newMax |-> st.newMax + wMax, oldMax |-> st.oldMax + e.max,
                extra |-> st.extra - dw, app |-> st.app - e.max]
    IN IF min0 >= cell.min /\ max0 >= cell.max THEN ext
       ELSE FoldLeft(one, [ext |-> start, wMin |-> 0, newMax |-> 0, oldMax |-> 0,
                           extra |-> spanMin - minSum, app |-> maxSum],
                     [i \in 1 .. cs |-> p[2] + i - 1]).ext

ColumnOrder(S) == SetToSortSeq(S, LAMBDA p, q : p[2] < q[2] \/ (p[2] = q[2] /\ p[1] < q[1]))

\* forceCalcColumnExtremes
Extremes == FoldLeft(Apportioned, SingleExtremes, ColumnOrder({p \in Roots : CellAt(p).colspan > 1}))

----------------------------------------------------------------------------
(* Column widths. *)

Cols == 0 .. numCols - 1
ColSeq == [i \in 1 .. numCols |-> i - 1]
HasColPercent == \E p \in Roots : CellAt(p).colspan = 1 /\ CellAt(p).percent # Auto

\* apportion2, for the columns that have no percentage.
Apportion2(ext, total, force, widths) ==
    LET auto == {c \in Cols : ext[c].percent = Auto}
        minAuto == Sum([c \in Cols |-> ext[c].min], auto)
        maxAuto == Sum([c \in Cols |-> ext[c].max], auto)
        avail0 == total - Sum(widths, Cols \ auto)
        avail == IF ~force /\ maxAuto < avail0 THEN maxAuto ELSE avail0
        target == Larger(avail, minAuto)
        one(st, c) ==
            LET e == ext[c]
                w0 == IF st.max <= 0 THEN 0 ELSE (st.target * e.max) \div st.max
                w == IF w0 <= e.min THEN e.min
                     ELSE IF st.new - e.min + w0 > st.target THEN e.min + st.extra
                     ELSE w0
            IN [target |-> st.target - w, extra |-> st.extra - (w - e.min), max |-> st.max - e.max,
                new |-> st.new - e.min, widths |-> [st.widths EXCEPT ![c] = w]]
    IN IF maxAuto = 0 THEN widths
       ELSE FoldLeft(one, [target |-> target, extra |-> target - minAuto, max |-> maxAuto,
                           new |-> minAuto, widths |-> widths],
                     SelectSeq(ColSeq, LAMBDA c : c \in auto)).widths

\* apportion_percentages2 when only the table has a percentage: it is what apportion2 is
\* given afterwards that counts, which sets all columns anew.

\* apportion_percentages2, when columns have percentages.
Percents(ext) == {c \in Cols : ext[c].percent > 0}
CumPercent(ext) == Sum([c \in Cols |-> ext[c].percent], Percents(ext))
MinWidth(ext, cols) == Sum([c \in Cols |-> ext[c].min], cols)
MaxWidth(ext, cols) == Sum([c \in Cols |-> ext[c].max], cols)

\* The width to be apportioned: not more than gives every column its maximum.
Restricted(ext, total, force) ==
    LET cum == CumPercent(ext)
        maxNonPer == MaxWidth(ext, Cols \ Percents(ext))
        needed == Max({IF cum < 100 THEN (maxNonPer * 100) \div (100 - cum) ELSE 0}
                      \union {(ext[c].max * 100) \div ext[c].percent : c \in Percents(ext)})
    IN Larger(IF ~force /\ (maxNonPer = 0 \/ cum < 99) /\ needed < total THEN needed ELSE total,
              MinWidth(ext, Cols))

\* Every column of a percentage gets it, within its minimum and what is left, the others
\* their minimum.
ShareOut(ext, total, working, cur) ==
    LET one(st, c) ==
            LET e == ext[c]
                w0 == (working * e.percent) \div 100
                w == IF w0 < e.min THEN e.min
                     ELSE IF st.cur - e.min + w0 > working THEN e.min + st.extra
                     ELSE w0
            IN IF c \notin Percents(ext) THEN [st EXCEPT !.widths[c] = e.min]
               ELSE [extra |-> st.extra - (w - e.min), cur |-> st.cur + (w - e.min),
                     widths |-> [st.widths EXCEPT ![c] = w]]
    IN FoldLeft(one, [extra |-> total - MinWidth(ext, Cols), cur |-> cur,
                      widths |-> [c \in Cols |-> 0]], ColSeq)

\* Less than 99%: the table may stay narrower, so that the percentages are right.
Narrowed(total, cur, cum, given) == Smaller(Larger(total, (cur * 100) \div cum), given)
SpreadOver(ext, shared, cur, whole) ==
    LET rest == whole - cur - MinWidth(ext, Cols \ Percents(ext)) IN
    Apportion2(ext, whole, TRUE,
               IF Percents(ext) = Cols
               THEN [c \in Cols |-> shared[c] + ((rest * ext[c].percent) \div CumPercent(ext))]
               ELSE shared)
Below99(ext, shared, total, cur, given) ==
    SpreadOver(ext, shared.widths, cur, Narrowed(total, cur, CumPercent(ext), given))

ApportionTotal(ext, total, given) ==
    LET minNonPer == MinWidth(ext, Cols \ Percents(ext))
        shared == ShareOut(ext, total, total, MinWidth(ext, Cols))
    IN IF CumPercent(ext) >= 99
       THEN Apportion2(ext, total, TRUE,
                       ShareOut(ext, total, total - minNonPer, MinWidth(ext, Cols) - minNonPer).widths)
       ELSE Below99(ext, shared, total, shared.cur - minNonPer, given)
ApportionPercentages(ext, given, force) == ApportionTotal(ext, Restricted(ext, given, force), given)

\* forceCalcCellSizes, the widths: without the spacing, and no less than the minimum.
Total(ext) == Larger(width.total - (numCols + 1) * Spacing, MinWidth(ext, Cols))
ColWidths(ext) ==
    IF HasColPercent THEN ApportionPercentages(ext, Total(ext), width.force)
    ELSE Apportion2(ext, Total(ext), width.force, [c \in Cols |-> 0])

----------------------------------------------------------------------------
(* Row heights. *)

\* forceCalcCellSizes, the cells of one row.
SingleHeights ==
    [row \in 0 .. numRows - 1 |->
        Spacing + Max({CellAt(p).height : p \in {p \in Roots : p[1] = row /\ CellAt(p).rowspan = 1}}
                      \union {0})]

\* apportionRowSpan, one cell of several rows.
Taller(heights, p) ==
    LET cell == CellAt(p)
        sumRows == Sum(heights, p[1] .. p[1] + cell.rowspan - 1)
        span == cell.height + Spacing
        one(st, i) ==
            LET r == p[1] + i
                h == IF sumRows = 0 THEN (span - st.new) \div (cell.rowspan - i)
                     ELSE IF sumRows - st.old <= 0 THEN 0
                     ELSE ((span - st.new) * heights[r]) \div (sumRows - st.old)
            IN [new |-> st.new + h, old |-> st.old + heights[r],
                heights |-> [st.heights EXCEPT ![r] = h]]
    IN IF sumRows >= span THEN heights
       ELSE FoldLeft(one, [new |-> 0, old |-> 0, heights |-> heights],
                     [i \in 1 .. cell.rowspan |-> i - 1]).heights

RowOrder(S) == SetToSortSeq(S, LAMBDA p, q : p[1] < q[1] \/ (p[1] = q[1] /\ p[2] < q[2]))
RowHeights ==
    FoldLeft(Taller, SingleHeights, RowOrder({p \in Roots : CellAt(p).rowspan > 1}))

----------------------------------------------------------------------------
\* The table is complete, and laid out.
Allocate == /\ ~done
          /\ numCols > 0
          /\ done' = TRUE
          /\ UNCHANGED <<children, numRows, numCols, curRow, curCol, rowClosed, width>>

TableInit ==
    /\ children = <<>> /\ numRows = 0 /\ numCols = 0
    /\ curRow = -1 /\ curCol = 0 /\ rowClosed = FALSE
    /\ width \in Widths
    /\ done = FALSE

TableNext == AddRow \/ Allocate \/ \E cell \in Cells : AddCell(cell)

TableSpec == TableInit /\ [][TableNext]_tableVars

----------------------------------------------------------------------------
(* Properties. *)

\* A position that is spanned refers to a cell that covers it, and the cells lie within
\* the table.  The code reads the columns and rows of a cell, and the
\* cell of a spanned position, without a check.
SpansAreSound ==
    /\ Len(children) = numRows * numCols
    /\ \A p \in Roots : /\ p[1] + CellAt(p).rowspan <= numRows
                        /\ p[2] + CellAt(p).colspan <= numCols
    /\ \A p \in Positions : CellAt(p) # Null /\ ~IsCell(CellAt(p)) =>
          LET root == <<CellAt(p).startRow, CellAt(p).startCol>>
          IN /\ root \in Roots
             /\ p[1] \in root[1] .. root[1] + CellAt(root).rowspan - 1
             /\ p[2] \in Columns(root)

\* Every cell is as wide as it needs to be and as high as it wants to be, and the table is
\* no wider than it was told unless its columns need that.
WideEnough(widths, total) ==
    /\ \A p \in Roots :
          Sum(widths, Columns(p)) + (CellAt(p).colspan - 1) * Spacing >= CellAt(p).min
    /\ Sum(widths, Cols) <= total
HighEnough(heights) ==
    \A p \in Roots :
        Sum(heights, p[1] .. p[1] + CellAt(p).rowspan - 1) - Spacing >= CellAt(p).height
CellsFit ==
    done => /\ \E ext \in {Extremes} : WideEnough(ColWidths(ext), Total(ext))
            /\ HighEnough(RowHeights)

\* table.hh, table.cc: the cells lie where their spans put them, and fit.
TableIsSound == SpansAreSound /\ CellsFit
=============================================================================
