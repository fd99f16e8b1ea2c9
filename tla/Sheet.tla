------------------------------- MODULE Sheet -------------------------------
(***************************************************************************)
(* What a worksheet promises its client: MaxCol by MaxRow cells, each with *)
(* a content, and an attribute per row.  No store, no gaps, no file: Save, *)
(* Open and the getters do not exist here because they change nothing a    *)
(* client can see.                                                         *)
(***************************************************************************)
EXTENDS Integers

CONSTANTS MaxRow, MaxCol, CellTypes, CellValues, StyleIds, RowAttrs,
          Writes, ColStyles, Areas, FormulaOps,
          TimeValue, TimeStyle

VARIABLES cells, attrs

vars == <<cells, attrs>>

Rows == 1..MaxRow
Cols == 1..MaxCol

CellContent == [t : CellTypes, v : CellValues, s : StyleIds, f : BOOLEAN]
Blank == [t |-> "", v |-> "", s |-> 0, f |-> FALSE]

Init == /\ cells \in [Cols \X Rows -> CellContent]
        /\ attrs \in [Rows -> RowAttrs]

\* a value written to a cell without style takes the style of its column
Valued(content, w, colStyle) ==
  [content EXCEPT !.t = w.t, !.v = w.v, !.s = IF @ = 0 THEN colStyle ELSE @]

(* Each operation, as what it makes of a sheet S.                          *)

SetCell(S, col, row, w, colStyle) ==
  [S EXCEPT !.cells[<<col, row>>] = Valued(@, w, colStyle)]

SetCellTime(S, col, row, axisCol, axisRow, colStyle) ==
  LET valued == SetCell(S, col, row, [t |-> "", v |-> TimeValue], colStyle)
  IN  IF valued.cells[<<col, row>>].s = 0
      THEN [valued EXCEPT !.cells[<<axisCol, axisRow>>].s = TimeStyle]
      ELSE valued

SetCellFormula(S, col, row, present) == [S EXCEPT !.cells[<<col, row>>].f = present]

Between(x, a, b) == (a <= x /\ x <= b) \/ (b <= x /\ x <= a)

SetCellStyle(S, col1, row1, col2, row2, styleID) ==
  [S EXCEPT !.cells = [p \in Cols \X Rows |->
                         IF Between(p[1], col1, col2) /\ Between(p[2], row1, row2)
                         THEN [@[p] EXCEPT !.s = styleID]
                         ELSE @[p]]]

SetRowAttr(S, row, a) == [S EXCEPT !.attrs[row] = a]

\* src is the row (column) that a row (column) of the new sheet comes from;
\* 0 is a new, blank one
FromRow(S, src) ==
  [cells |-> [p \in Cols \X Rows |->
                IF src[p[2]] \in Rows THEN S.cells[<<p[1], src[p[2]]>>] ELSE Blank],
   attrs |-> [r \in Rows |-> IF src[r] \in Rows THEN S.attrs[src[r]] ELSE 0]]

FromCol(S, src) ==
  [S EXCEPT !.cells = [p \in Cols \X Rows |->
                         IF src[p[1]] \in Cols THEN @[<<src[p[1]], p[2]>>] ELSE Blank]]

InsertRow(S, row) ==
  FromRow(S, [r \in Rows |-> IF r < row THEN r ELSE IF r = row THEN 0 ELSE r - 1])

RemoveRow(S, row) == FromRow(S, [r \in Rows |-> IF r < row THEN r ELSE r + 1])

DuplicateRowTo(S, row, row2) ==
  FromRow(S, [r \in Rows |->
                IF r < row2 THEN r ELSE IF r = row2 THEN row ELSE r - 1])

InsertCol(S, col) ==
  FromCol(S, [c \in Cols |-> IF c < col THEN c ELSE IF c = col THEN 0 ELSE c - 1])

RemoveCol(S, col) == FromCol(S, [c \in Cols |-> IF c < col THEN c ELSE c + 1])

\* N is the sheet that S may become; a call may leave it as it is
Step(S, N) ==
  \/ N = S
  \/ \E col \in Cols, row \in Rows :
       \/ \E w \in Writes, cs \in ColStyles : N = SetCell(S, col, row, w, cs)
       \/ \E present \in FormulaOps : N = SetCellFormula(S, col, row, present)
  \/ \E a \in Areas :
       \/ \E cs \in ColStyles : N = SetCellTime(S, a[3], a[4], a[1], a[2], cs)
       \/ \E s \in StyleIds : N = SetCellStyle(S, a[1], a[2], a[3], a[4], s)
  \/ \E row \in Rows :
       \/ \E a \in RowAttrs : N = SetRowAttr(S, row, a)
       \/ N = InsertRow(S, row)
       \/ N = RemoveRow(S, row)
       \/ \E row2 \in Rows : N = DuplicateRowTo(S, row, row2)
  \/ \E col \in Cols : N = InsertCol(S, col) \/ N = RemoveCol(S, col)

Next == \E S \in {[cells |-> cells, attrs |-> attrs]},
           N \in {[cells |-> cells', attrs |-> attrs']} : Step(S, N)

Spec == Init /\ [][Next]_vars
=============================================================================
