-------------------------------- MODULE Grid --------------------------------
(***************************************************************************)
(* The public operations on the cells of one worksheet, as one handle of   *)
(* the library applies them to its cell store, with the save and open      *)
(* steps between two handles.                                              *)
(*                                                                         *)
(* A step is one whole call: the library is sequential.  Cell operations   *)
(* address a target (col, row); the redirection of a merged cell to the    *)
(* top left of its area, and the style a column gives its cells, come from *)
(* other parts of the worksheet and are inputs here, so every theorem      *)
(* holds whatever they are.  The sheet has no hyperlinks and no auto       *)
(* filter, for which adjustHelper does more (module Worksheet).            *)
(*                                                                         *)
(* Spec is a session that drops the handle after Save and opens the file   *)
(* again, spells columns in upper case and duplicates rows no further than *)
(* one past the last row; beyond that DuplicateRowTo appends a row whose   *)
(* position is not its number.  The API states none of these restrictions. *)
(* SpecReuse lifts the first.                                              *)
(***************************************************************************)
EXTENDS SheetData

CONSTANTS MaxRow,       \* bound on row numbers
          MaxCol,       \* bound on column numbers
          Writes,       \* the (t, v) pairs the SetCell* functions store
          ColStyles,    \* the styles columns give to their cells
          Areas,        \* the corners <<col1, row1, col2, row2>> SetCellStyle gets
          FormulaOps,   \* which of setting (TRUE) and clearing formulas happen
          TimeValue,    \* the serial number a date is stored as
          TimeStyle,    \* the number format style of dates
          Files         \* the sheet parts a session may start from

\* every row and every cell of the store lies on the sheet
Within(rs) ==
  \A i \in 1..Len(rs) : /\ rs[i].R <= MaxRow
                        /\ \A k \in 1..Len(rs[i].C) : rs[i].C[k].col <= MaxCol

ASSUME GridAssumption ==
  /\ MaxRow \in Coordinate /\ MaxCol \in Coordinate
  /\ Writes \subseteq [t : CellTypes, v : CellValues]
  /\ ColStyles \subseteq StyleIds
  /\ Areas \subseteq (1..MaxCol) \X (1..MaxRow) \X (1..MaxCol) \X (1..MaxRow)
  /\ FormulaOps \subseteq BOOLEAN
  /\ TimeValue \in CellValues /\ TimeStyle \in StyleIds
  /\ Files \subseteq Seq(Row) /\ \A file \in Files : Sparse(file) /\ Within(file)

VARIABLES rows,      \* SheetData.Row of the handle
          phase,     \* "closed": rows is a file nobody read; "open": a handle
                     \* holds rows; "saved": it has written them since
          panicked   \* the process died of an index out of range

vars == <<rows, phase, panicked>>

Rows == 1..MaxRow
Cols == 1..MaxCol

\* the shape of the state
TypeOK == /\ rows \in Seq(Row)
          /\ phase \in {"closed", "open", "saved"}
          /\ panicked \in BOOLEAN

Init == rows \in Files /\ phase = "closed" /\ panicked = FALSE

Store(newRows) == rows' = newRows /\ phase' = "open" /\ UNCHANGED panicked

\* the store after checkSheet and checkRow, or the panic of checkRow
StoreChecked(newRows) ==
  IF CheckPanics(newRows)
  THEN panicked' = TRUE /\ UNCHANGED <<rows, phase>>
  ELSE Store(Check(newRows))

-----------------------------------------------------------------------------
(* Cells.                                                                  *)

\* SetCellInt, SetCellBool, SetCellFloat, SetCellStr, SetCellDefault
SetCell(col, row, w, colStyle) ==
  Store(WriteCell(rows, col, row, w.t, w.v, colStyle))

\* the default format of dates, for a target without style, goes to the cell
\* the caller named: GetCellStyle redirects, SetCellStyle does not
SetDefaultTimeStyle(valued, col, row, axisCol, axisRow, colStyle) ==
  IF CellStyle(valued[row].C[col].s, colStyle) = 0
  THEN WriteStyle(valued, axisCol, axisRow, axisCol, axisRow, TimeStyle)
  ELSE valued

\* SetCellValue of a time: the value goes to the target of the redirection,
\* the top left of the merged area that has (axisCol, axisRow) in it
SetCellTime(col, row, axisCol, axisRow, colStyle) ==
  /\ col <= axisCol /\ row <= axisRow
  /\ Store(SetDefaultTimeStyle(
             WriteCell(rows, col, row, "", TimeValue, colStyle),
             col, row, axisCol, axisRow, colStyle))

SetCellFormula(col, row, present) ==
  Store(WriteFormula(rows, col, row, present))

\* reading a style creates the cell
GetCellStyle(col, row) == Store(PrepareSheetXML(rows, col, row))

SetCellStyle(col1, row1, col2, row2, styleID) ==
  LET hcol == IF col2 < col1 THEN col2 ELSE col1
      vcol == IF col2 < col1 THEN col1 ELSE col2
      hrow == IF row2 < row1 THEN row2 ELSE row1
      vrow == IF row2 < row1 THEN row1 ELSE row2
  IN  Store(WriteStyle(rows, hcol, hrow, vcol, vrow, styleID))

\* SetRowHeight, SetRowOutlineLevel
SetRowAttr(row, a) == Store(WriteRowAttr(rows, row, a))

-----------------------------------------------------------------------------
(* Rows and columns.                                                       *)

\* mutant: the row is inserted below the one named
InsertRowBelow(row) ==
  /\ row < Len(rows) => Len(rows) < MaxRow
  /\ StoreChecked(AdjustRowDimensions(rows, row + 1, 1))

InsertRow(row) ==
  /\ row <= Len(rows) => Len(rows) < MaxRow
  /\ StoreChecked(AdjustRowDimensions(rows, row, 1))

RemoveRow(row) ==
  /\ row <= Len(rows) /\ HasRow(rows, row)
  /\ StoreChecked(AdjustRowDimensions(Without(rows, FirstRowAt(rows, row)),
                                      row, -1))

DuplicateRowTo(row, row2) ==
  /\ row <= Len(rows) /\ row # row2 /\ HasRow(rows, row)
  /\ row2 <= Len(rows) => Len(rows) < MaxRow
  /\ LET shifted == AdjustRowDimensions(rows, row2, 1)
         checked == Check(shifted)
         copy    == RenumberRow(rows[FirstRowAt(rows, row)], row2)
     IN  IF CheckPanics(shifted)
         THEN panicked' = TRUE /\ UNCHANGED <<rows, phase>>
         ELSE IF HasRow(checked, row2)
         THEN Store([checked EXCEPT ![FirstRowAt(checked, row2)] = copy])
         ELSE IF Len(checked) >= row2
         THEN Store(checked)
         ELSE Store(Append(checked, copy))

InsertCol(col) ==
  /\ \A i \in 1..Len(rows) : \A k \in 1..Len(rows[i].C) :
        rows[i].C[k].col >= col => rows[i].C[k].col < MaxCol
  /\ StoreChecked(AdjustColDimensions(rows, col, 1))

\* the cell is looked up by the letters the caller wrote, which are taken to
\* be in upper case as those of the cell names are
RemoveCol(col) == StoreChecked(AdjustColDimensions(DropColumn(rows, col), col, -1))

-----------------------------------------------------------------------------
(* The file.                                                               *)

\* workSheetWriter trims the rows of the handle itself, then writes them
Save == rows' = TrimRows(rows) /\ phase' = "saved" /\ UNCHANGED panicked

\* a new handle reads the part: workSheetReader
Open == phase # "open" /\ StoreChecked(rows)

-----------------------------------------------------------------------------
Edit ==
  \/ \E col \in Cols, row \in Rows :
       \/ \E w \in Writes, cs \in ColStyles : SetCell(col, row, w, cs)
       \/ \E present \in FormulaOps : SetCellFormula(col, row, present)
       \/ GetCellStyle(col, row)
  \/ \E a \in Areas :
       \/ \E cs \in ColStyles : SetCellTime(a[3], a[4], a[1], a[2], cs)
       \/ \E s \in StyleIds : SetCellStyle(a[1], a[2], a[3], a[4], s)
  \/ \E row \in Rows :
       \/ \E a \in RowAttrs : SetRowAttr(row, a)
       \/ InsertRow(row)
       \/ RemoveRow(row)
       \/ \E row2 \in Rows : row2 <= Len(rows) + 1 /\ DuplicateRowTo(row, row2)
  \/ \E col \in Cols : InsertCol(col) \/ RemoveCol(col)

Next == ~panicked /\ (\/ phase = "open" /\ (Edit \/ Save)
                      \/ Open)

Spec == Init /\ [][Next]_vars

-----------------------------------------------------------------------------
\* to keep using the handle after Save
NextReuse == ~panicked /\ (\/ phase # "closed" /\ (Edit \/ Save)
                           \/ Open)

SpecReuse == Init /\ [][NextReuse]_vars

-----------------------------------------------------------------------------
(* Properties.                                                             *)

\* While a handle is in use, row n is at index n-1 and column k of a row at
\* index k-1, with the names to match: what prepareCell relies on when it
\* indexes Row[row-1].C[col-1] and what checkSheet and checkRow must restore
\* after every insertion, removal and load.
GridContiguous == phase = "open" => Contiguous(rows)

\* checkRow never stores a cell beyond the list it has allocated, whatever
\* sequence of insertions, removals, saves and loads came before.
NoPanic == ~panicked

\* Reading a sheet whole agrees with reading it cell by cell: the row iterator
\* never stores beyond its list and yields the values of its row, GetRows ends
\* with the last row that has a value and misses none to the right, and
\* SearchSheet answers with the cells that have the value and no others.
ReadersAgree ==
  phase = "open" =>
    LET at    == [p \in Cols \X Rows |-> CellAt(rows, p[1], p[2]).v]
        table == GetRows(rows)
    IN  /\ \A i \in 1..Len(rows) :
             /\ ~ColumnsPanics(rows[i])
             /\ \A c \in 1..Len(rows[i].C) : Columns(rows[i])[c] = at[<<c, i>>]
        /\ ~GetRowsPanics(rows)
        /\ Len(table) > 0 => \E c \in Cols : at[<<c, Len(table)>>] # ""
        /\ \A p \in Cols \X Rows :
             at[p] = IF p[2] <= Len(table) /\ p[1] <= TotalCols(rows)
                     THEN table[p[2]][p[1]] ELSE ""
        /\ \A v \in CellValues \ {""} : SearchSheet(rows, v) = {p \in Cols \X Rows : at[p] = v}

\* Setting a cell is seen by the next read of that cell: the write goes by
\* position, the read by name (prepareCell against getCellStringFunc).
SetIsRead ==
  [][\A col \in Cols, row \in Rows, w \in Writes, cs \in ColStyles :
       SetCell(col, row, w, cs) =>
         LET c == CellAt(rows', col, row) IN c.t = w.t /\ c.v = w.v]_vars

\* what a client reads of a store: every cell, and the attribute of every row
View(rs) == [cells |-> [p \in Cols \X Rows |-> CellAt(rs, p[1], p[2])],
             attrs |-> [r \in Rows |-> RowAttrAt(rs, r)]]

\* The abstract sheet of module Sheet, which is that view.
Abstract == INSTANCE Sheet WITH cells <- View(rows).cells, attrs <- View(rows).attrs

\* What a client reads of the store, by the names in it and whatever its gaps,
\* goes through the steps of module Sheet and no others.
ImplementsSheet == Abstract!Spec

\* Every call is the step of module Sheet that has its name and its arguments:
\* it changes the cells and row attributes that one says and no others.
\* Reading a style, which grows the store, Save and Open change none.
CallsExact ==
  [][LET S == View(rows)
         N == View(rows')
     IN  /\ Open => N = S
         /\ phase = "open" =>
              /\ Save => N = S
              /\ \A col \in Cols, row \in Rows, w \in Writes, cs \in ColStyles :
                   SetCell(col, row, w, cs) => N = Abstract!SetCell(S, col, row, w, cs)
              /\ \A col \in Cols, row \in Rows, b \in FormulaOps :
                   SetCellFormula(col, row, b) => N = Abstract!SetCellFormula(S, col, row, b)
              /\ \A col \in Cols, row \in Rows : GetCellStyle(col, row) => N = S
              /\ \A a \in Areas, cs \in ColStyles :
                   SetCellTime(a[3], a[4], a[1], a[2], cs) =>
                     N = Abstract!SetCellTime(S, a[3], a[4], a[1], a[2], cs)
              /\ \A a \in Areas, s \in StyleIds :
                   SetCellStyle(a[1], a[2], a[3], a[4], s) =>
                     N = Abstract!SetCellStyle(S, a[1], a[2], a[3], a[4], s)
              /\ \A row \in Rows, a \in RowAttrs :
                   SetRowAttr(row, a) => N = Abstract!SetRowAttr(S, row, a)
              /\ \A row \in Rows : InsertRow(row) => N = Abstract!InsertRow(S, row)
              /\ \A row \in Rows : RemoveRow(row) => N = Abstract!RemoveRow(S, row)
              /\ \A row, row2 \in Rows :
                   row2 <= Len(rows) + 1 /\ DuplicateRowTo(row, row2) =>
                     N = Abstract!DuplicateRowTo(S, row, row2)
              /\ \A col \in Cols : InsertCol(col) => N = Abstract!InsertCol(S, col)
              /\ \A col \in Cols : RemoveCol(col) => N = Abstract!RemoveCol(S, col)]_vars
=============================================================================
