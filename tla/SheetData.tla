----------------------------- MODULE SheetData -----------------------------
(***************************************************************************)
(* The cell store of one worksheet (xlsxSheetData) and the helpers every   *)
(* operation on cells goes through.                                        *)
(*                                                                         *)
(* A sheet is a sequence of rows, a row a sequence of cells.  Each row     *)
(* carries its own number R and each cell its own coordinates (its name,   *)
(* "C7"), as the XML does.  The code WRITES by position (Row[row-1].C[     *)
(* col-1], prepareCell) and READS by name (getCellStringFunc), so it is    *)
(* only right while position and name agree: that is Contiguous, below.    *)
(*                                                                         *)
(* Abstractions: a cell name is the pair (col, row) it spells; a value is  *)
(* a member of CellValues ("" is the empty string), a formula is only      *)
(* present or absent; height and outline level, whose setters and getters  *)
(* are alike (0 where a row has none or is not stored), are one row        *)
(* attribute.  The visibility of rows, which reads as hidden beyond the    *)
(* stored ones, is module Worksheet's.                                     *)
(***************************************************************************)
EXTENDS Integers, Sequences, FiniteSets

CONSTANTS CellTypes,    \* the t attribute: "" and the ones in use
          CellValues,   \* the v element, "" included
          StyleIds,     \* indices into cellXfs, 0 is the default style
          RowAttrs      \* height or outline level of a row, 0 is the default

ASSUME DefaultsAssumption == /\ "" \in CellTypes
                             /\ "" \in CellValues
                             /\ 0 \in StyleIds
                             /\ 0 \in RowAttrs

Coordinate == Nat \ {0}

Cell == [col : Coordinate, row : Coordinate,
         t : CellTypes, v : CellValues, s : StyleIds, f : BOOLEAN]

Row == [R : Coordinate, attr : RowAttrs, C : Seq(Cell)]

\* xlsxC{R: cellName} and xlsxRow{R: rowIdx + 1}
NewCell(col, row) == [col |-> col, row |-> row,
                      t |-> "", v |-> "", s |-> 0, f |-> FALSE]
NewRow(row) == [R |-> row, attr |-> 0, C |-> << >>]

-----------------------------------------------------------------------------
(* Position and name agree: what the rest of the package relies on.        *)

RowContiguous(r, i) == /\ r.R = i
                       /\ \A k \in 1..Len(r.C) : /\ r.C[k].col = k
                                                 /\ r.C[k].row = i

Contiguous(rows) == \A i \in 1..Len(rows) : RowContiguous(rows[i], i)

(* What a well-formed sheet part holds: rows and cells in ascending order, *)
(* with gaps.                                                              *)
CellsAscending(C) ==
  \A i, j \in 1..Len(C) : i <= j => C[j].col - C[i].col >= j - i

Sparse(rows) ==
  /\ \A i, j \in 1..Len(rows) : i < j => rows[i].R < rows[j].R
  /\ \A i \in 1..Len(rows) :
        /\ CellsAscending(rows[i].C)
        /\ \A k \in 1..Len(rows[i].C) : rows[i].C[k].row = rows[i].R

-----------------------------------------------------------------------------
(* Growing the store.                                                      *)

\* mutant: the column index is not turned into a column number
FillColumnsZeroBased(C, col, row) ==
  IF Len(C) < col
  THEN [k \in 1..col |-> IF k <= Len(C) THEN C[k] ELSE NewCell(k - 1, row)]
  ELSE C

FillColumns(C, col, row) ==
  IF Len(C) < col
  THEN [k \in 1..col |-> IF k <= Len(C) THEN C[k] ELSE NewCell(k, row)]
  ELSE C

FillRows(rows, row) ==
  IF Len(rows) < row
  THEN [i \in 1..row |-> IF i <= Len(rows) THEN rows[i] ELSE NewRow(i)]
  ELSE rows

PrepareSheetXML(rows, col, row) ==
  [FillRows(rows, row) EXCEPT ![row].C = FillColumns(@, col, row)]

\* every row of fromRow .. toRow - 1 gets at least colCount cells
MakeContiguousColumns(rows, fromRow, toRow, colCount) ==
  [i \in 1..Len(rows) |->
     IF fromRow <= i /\ i < toRow
     THEN [rows[i] EXCEPT !.C = FillColumns(@, colCount, i)]
     ELSE rows[i]]

-----------------------------------------------------------------------------
(* Writing.                                                                *)

\* prepareCellStyle: colStyle is the style of the last <col> covering the cell
CellStyle(s, colStyle) == IF s = 0 THEN colStyle ELSE s

ValuedCell(c, t, v, colStyle) ==
  [c EXCEPT !.t = t, !.v = v, !.s = CellStyle(c.s, colStyle)]

WriteCell(rows, col, row, t, v, colStyle) ==
  [PrepareSheetXML(rows, col, row) EXCEPT
     ![row].C[col] = ValuedCell(@, t, v, colStyle)]

WriteFormula(rows, col, row, present) ==
  [PrepareSheetXML(rows, col, row) EXCEPT ![row].C[col].f = present]

WriteStyle(rows, hcol, hrow, vcol, vrow, styleID) ==
  LET ready == MakeContiguousColumns(PrepareSheetXML(rows, vcol, vrow),
                                     hrow, vrow, vcol)
  IN  [i \in 1..Len(ready) |->
         IF hrow <= i /\ i <= vrow
         THEN [ready[i] EXCEPT !.C =
                 [k \in 1..Len(ready[i].C) |->
                    IF hcol <= k /\ k <= vcol
                    THEN [ready[i].C[k] EXCEPT !.s = styleID]
                    ELSE ready[i].C[k]]]
         ELSE ready[i]]

WriteRowAttr(rows, row, a) ==
  [PrepareSheetXML(rows, 0, row) EXCEPT ![row].attr = a]

-----------------------------------------------------------------------------
(* Renumbering, then closing the gaps renumbering leaves.                  *)

RenumberRow(r, num) ==
  [r EXCEPT !.R = num,
            !.C = [k \in 1..Len(r.C) |-> [r.C[k] EXCEPT !.row = num]]]

AdjustRowDimensions(rows, row, offset) ==
  [i \in 1..Len(rows) |->
     IF rows[i].R >= row /\ rows[i].R + offset > 0
     THEN RenumberRow(rows[i], rows[i].R + offset)
     ELSE rows[i]]

AdjustColDimensions(rows, col, offset) ==
  [i \in 1..Len(rows) |->
     [rows[i] EXCEPT !.C =
        [k \in 1..Len(rows[i].C) |->
           IF rows[i].C[k].col >= col /\ rows[i].C[k].col + offset > 0
           THEN [rows[i].C[k] EXCEPT !.col = @ + offset]
           ELSE rows[i].C[k]]]]

\* of the rows (cells) with the same number the last one survives
LastRowAt(rows, n) ==
  CHOOSE k \in 1..Len(rows) :
    /\ rows[k].R = n
    /\ \A j \in 1..Len(rows) : rows[j].R = n => j <= k

LastCellAt(C, n) ==
  CHOOSE k \in 1..Len(C) :
    /\ C[k].col = n
    /\ \A j \in 1..Len(C) : C[j].col = n => j <= k

CheckSheet(rows) ==
  LET n    == Len(rows)
      last == IF n >= 1 /\ rows[n].R >= n THEN rows[n].R ELSE n
  IN  [i \in 1..last |->
         IF \E k \in 1..n : rows[k].R = i THEN rows[LastRowAt(rows, i)]
                                          ELSE NewRow(i)]

NeedsFill(C) == Len(C) > 0 /\ Len(C) < C[Len(C)].col

CheckCells(C, row) ==
  IF NeedsFill(C)
  THEN [k \in 1..C[Len(C)].col |->
          IF \E j \in 1..Len(C) : C[j].col = k THEN C[LastCellAt(C, k)]
                                               ELSE NewCell(k, row)]
  ELSE C

\* mutant: adjustHelper forgets checkRow
CheckRowSkipped(rows) == rows

CheckRow(rows) ==
  [i \in 1..Len(rows) |-> [rows[i] EXCEPT !.C = CheckCells(@, i)]]

\* checkRow stores a cell beyond the new list: index out of range
CheckRowPanics(rows) ==
  \E i \in 1..Len(rows) :
    LET C == rows[i].C
    IN  NeedsFill(C) /\ \E k \in 1..Len(C) : C[k].col > C[Len(C)].col

Check(rows) == CheckRow(CheckSheet(rows))
CheckPanics(rows) == CheckRowPanics(CheckSheet(rows))

-----------------------------------------------------------------------------
(* Deleting, and what saving leaves of a row.                              *)

\* mutant: the last element fills the hole
WithoutSwap(s, i) == [k \in 1..(Len(s) - 1) |-> IF k = i THEN s[Len(s)] ELSE s[k]]

Without(s, i) == [k \in 1..(Len(s) - 1) |-> IF k < i THEN s[k] ELSE s[k + 1]]

\* the first row numbered n / the first cell in column n
FirstRowAt(rows, n) ==
  CHOOSE k \in 1..Len(rows) :
    /\ rows[k].R = n
    /\ \A j \in 1..Len(rows) : rows[j].R = n => k <= j

FirstCellAt(C, n) ==
  CHOOSE k \in 1..Len(C) :
    /\ C[k].col = n
    /\ \A j \in 1..Len(C) : C[j].col = n => k <= j

HasRow(rows, n) == \E k \in 1..Len(rows) : rows[k].R = n
HasCell(C, n) == \E k \in 1..Len(C) : C[k].col = n

DropColumn(rows, col) ==
  [i \in 1..Len(rows) |->
     IF HasCell(rows[i].C, col)
     THEN [rows[i] EXCEPT !.C = Without(@, FirstCellAt(@, col))]
     ELSE rows[i]]

CellBlank(c) == c.s = 0 /\ c.v = "" /\ ~c.f /\ c.t = ""

\* the cells that survive are kept in order: the i-th result is the cell
\* with exactly i survivors up to and including it
Kept(C) == {k \in 1..Len(C) : ~CellBlank(C[k])}
Rank(C, k) == Cardinality({j \in Kept(C) : j <= k})

TrimCell(C) ==
  [i \in 1..Cardinality(Kept(C)) |->
     C[CHOOSE k \in Kept(C) : Rank(C, k) = i]]

TrimRows(rows) == [i \in 1..Len(rows) |-> [rows[i] EXCEPT !.C = TrimCell(@)]]

-----------------------------------------------------------------------------
(* Reading.                                                                *)

Content(c) == [t |-> c.t, v |-> c.v, s |-> c.s, f |-> c.f]
BlankContent == [t |-> "", v |-> "", s |-> 0, f |-> FALSE]

\* getCellStringFunc: by name, the first match in row order, and only up to
\* the number of the last row
Named(r, col, row) ==
  r.R = row /\ \E k \in 1..Len(r.C) : r.C[k].col = col /\ r.C[k].row = row

CellAt(rows, col, row) ==
  IF \E i \in 1..Len(rows) : Named(rows[i], col, row) /\ row <= rows[Len(rows)].R
  THEN LET i == CHOOSE i \in 1..Len(rows) :
                  /\ Named(rows[i], col, row)
                  /\ \A j \in 1..(i - 1) : ~Named(rows[j], col, row)
           C == rows[i].C
           k == CHOOSE k \in 1..Len(C) :
                  /\ C[k].col = col /\ C[k].row = row
                  /\ \A j \in 1..(k - 1) : C[j].col # col \/ C[j].row # row
       IN  Content(C[k])
  ELSE BlankContent

\* the attribute of the row numbered row (GetRowHeight, GetRowOutlineLevel)
RowAttrAt(rows, row) ==
  IF HasRow(rows, row) THEN rows[FirstRowAt(rows, row)].attr ELSE 0

-----------------------------------------------------------------------------
(* Reading a whole sheet: from the XML of the rows, element by element, as *)
(* the row iterator, GetRows and SearchSheet do.  A value is what          *)
(* getValueFrom makes of the cell; number formats are left out.            *)

\* of the cells with one name the last one read stays
ValueIn(C, col) == IF HasCell(C, col) THEN C[LastCellAt(C, col)].v ELSE ""

\* Columns of the iterator: the list is as long as the row has cells, and is
\* indexed by the column each one names
ColumnsPanics(r) == \E k \in 1..Len(r.C) : r.C[k].col > Len(r.C)
Columns(r) == [col \in 1..Len(r.C) |-> ValueIn(r.C, col)]

\* getTotalRowsCols: the number of the last row, the largest column of any
TotalRows(rows) == IF rows = << >> THEN 0 ELSE rows[Len(rows)].R
TotalCols(rows) ==
  LET named == {0} \cup UNION {{rows[i].C[k].col : k \in 1..Len(rows[i].C)} :
                                i \in 1..Len(rows)}
  IN  CHOOSE c \in named : \A d \in named : d <= c

HasValue(r) == \E k \in 1..Len(r.C) : r.C[k].v # ""

\* GetRows: a table of that size, cut after the last row element with a value
GetRowsPanics(rows) == \E i \in 1..Len(rows) : rows[i].R > TotalRows(rows)
GetRows(rows) ==
  LET valued == {i \in 1..Len(rows) : HasValue(rows[i])}
      last   == IF valued = {} THEN 0
                ELSE rows[CHOOSE i \in valued : \A j \in valued : j <= i].R
  IN  [n \in 1..last |->
         [col \in 1..TotalCols(rows) |->
            IF HasRow(rows, n) THEN ValueIn(rows[LastRowAt(rows, n)].C, col) ELSE ""]]

\* SearchSheet: the column a cell names, the row its row element names
SearchSheet(rows, v) ==
  UNION {{<<rows[i].C[k].col, rows[i].R>> :
            k \in {j \in 1..Len(rows[i].C) : rows[i].C[j].v = v}} :
         i \in 1..Len(rows)}
=============================================================================
