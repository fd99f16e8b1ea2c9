----------------------------- MODULE GridProofs -----------------------------
(***************************************************************************)
(* Proofs about module Grid: for every size of the sheet, every set of     *)
(* values, styles and attributes and every well-formed file.               *)
(***************************************************************************)
EXTENDS Grid, FiniteSetTheorems, NaturalsInduction, WellFoundedInduction, TLAPS

\* cells 1, 2, ... of row i, each at its place
CellsGood(C, i) ==
  C \in Seq(Cell) /\ \A k \in 1..Len(C) : C[k].col = k /\ C[k].row = i

RowGood(r, i) == r \in Row /\ r.R = i /\ CellsGood(r.C, i)

Good(rs) == rs \in Seq(Row) /\ \A i \in 1..Len(rs) : RowGood(rs[i], i)

\* The store of a handle in use is contiguous, a store that only a file
\* holds is sparse, and no call has panicked.
GridInv ==
  /\ TypeOK
  /\ ~panicked
  /\ phase = "open" => Contiguous(rows)
  /\ phase # "open" => Sparse(rows)

-----------------------------------------------------------------------------
(* The pieces the operators are made of.                                   *)

\* the coordinates of cells and rows
LEMMA CellType ==
  \A c \in Cell : c.col \in Nat /\ c.col >= 1 /\ c.row \in Nat /\ c.row >= 1
  BY DEF Cell, Coordinate

\* the fields of rows
LEMMA RowType ==
  \A r \in Row : r.R \in Nat /\ r.R >= 1 /\ r.attr \in RowAttrs /\ r.C \in Seq(Cell)
  BY DEF Row, Coordinate

\* a contiguous store is a sequence of good rows
LEMMA GoodDef ==
  ASSUME NEW rs \in Seq(Row)
  PROVE  Good(rs) <=> Contiguous(rs)
  <1>1. \A i \in 1..Len(rs) : rs[i] \in Row /\ rs[i].C \in Seq(Cell)
    <2> SUFFICES ASSUME NEW i \in 1..Len(rs)
                 PROVE  rs[i] \in Row /\ rs[i].C \in Seq(Cell)
      OBVIOUS
    <2>1. rs[i] \in Row
      OBVIOUS
    <2> QED BY <2>1 DEF Row
  <1>2. \A i \in 1..Len(rs) : RowGood(rs[i], i) <=> RowContiguous(rs[i], i)
    BY <1>1 DEF RowGood, CellsGood, RowContiguous
  <1> QED BY <1>2 DEF Good, Contiguous

\* the cells fillColumns appends are well formed
LEMMA NewCellGood ==
  ASSUME NEW k \in Coordinate, NEW i \in Coordinate
  PROVE  NewCell(k, i) \in Cell /\ NewCell(k, i).col = k /\ NewCell(k, i).row = i
  BY DefaultsAssumption DEF NewCell, Cell

\* and so are the rows prepareSheetXML and checkSheet append
LEMMA NewRowGood ==
  ASSUME NEW i \in Coordinate
  PROVE  RowGood(NewRow(i), i)
  <1>0. << >> \in Seq(Cell)
    OBVIOUS
  <1>1. NewRow(i) \in Row
    BY <1>0, DefaultsAssumption DEF NewRow, Row
  <1>3. NewRow(i).R = i /\ NewRow(i).C = << >>
    BY DEF NewRow
  <1>2. CellsGood(<< >>, i)
    BY DEF CellsGood
  <1> QED BY <1>1, <1>2, <1>3 DEF RowGood

\* a sequence of n rows, each good at its place
LEMMA GoodSeq ==
  ASSUME NEW n \in Nat, NEW rs, rs = [i \in 1..n |-> rs[i]],
         \A i \in 1..n : RowGood(rs[i], i)
  PROVE  Good(rs) /\ Len(rs) = n
  <1>1. \A i \in 1..n : rs[i] \in Row
    BY DEF RowGood
  <1>2. rs \in Seq(Row) /\ Len(rs) = n
    BY <1>1
  <1> QED BY <1>2 DEF Good

\* a sequence of n cells, each good at its place
LEMMA CellsSeq ==
  ASSUME NEW n \in Nat, NEW i, NEW C, C = [k \in 1..n |-> C[k]],
         \A k \in 1..n : C[k] \in Cell /\ C[k].col = k /\ C[k].row = i
  PROVE  CellsGood(C, i) /\ Len(C) = n
  <1>1. C \in Seq(Cell) /\ Len(C) = n
    OBVIOUS
  <1> QED BY <1>1 DEF CellsGood

\* fillColumns keeps every cell at its place and makes col of them
LEMMA FillColumnsGood ==
  ASSUME NEW i \in Coordinate, NEW C, CellsGood(C, i), NEW col \in Nat
  PROVE  /\ CellsGood(FillColumns(C, col, i), i)
         /\ Len(FillColumns(C, col, i)) >= col
         /\ Len(FillColumns(C, col, i)) >= Len(C)
  <1>1. CASE Len(C) < col
    <2> DEFINE D == [k \in 1..col |-> IF k <= Len(C) THEN C[k] ELSE NewCell(k, i)]
    <2>1. \A k \in 1..col : D[k] \in Cell /\ D[k].col = k /\ D[k].row = i
      BY NewCellGood DEF CellsGood, Coordinate
    <2>2. D \in Seq(Cell) /\ Len(D) = col
      BY <2>1
    <2>3. FillColumns(C, col, i) = D
      BY <1>1 DEF FillColumns
    <2> HIDE DEF D
    <2> QED BY <1>1, <2>1, <2>2, <2>3 DEF CellsGood
  <1>2. CASE ~(Len(C) < col)
    BY <1>2 DEF FillColumns, CellsGood
  <1> QED BY <1>1, <1>2
\* replacing the cells of a good row by good cells
LEMMA RowWithCells ==
  ASSUME NEW i, NEW r, RowGood(r, i), NEW C, CellsGood(C, i)
  PROVE  RowGood([r EXCEPT !.C = C], i)
  BY DEF RowGood, CellsGood, Row

\* replacing one row of a good store by a good one
LEMMA GoodExcept ==
  ASSUME NEW rs, Good(rs), NEW i \in 1..Len(rs), NEW r, RowGood(r, i)
  PROVE  Good([rs EXCEPT ![i] = r]) /\ Len([rs EXCEPT ![i] = r]) = Len(rs)
  <1> DEFINE t == [rs EXCEPT ![i] = r]
  <1>1. t \in Seq(Row) /\ Len(t) = Len(rs)
    BY DEF Good, RowGood
  <1>2. \A j \in 1..Len(rs) : RowGood(t[j], j)
    BY DEF Good
  <1> QED BY <1>1, <1>2 DEF Good

\* prepareSheetXML appends rows in their places, up to row
LEMMA FillRowsGood ==
  ASSUME NEW rs, Good(rs), NEW row \in Coordinate
  PROVE  /\ Good(FillRows(rs, row))
         /\ row \in 1..Len(FillRows(rs, row))
  <1>0. Len(rs) \in Nat /\ row \in Nat
    BY DEF Good, Coordinate
  <1>1. CASE Len(rs) < row
    <2> DEFINE t == [i \in 1..row |-> IF i <= Len(rs) THEN rs[i] ELSE NewRow(i)]
    <2>1. \A i \in 1..row : RowGood(t[i], i)
      BY <1>0, NewRowGood DEF Good, Coordinate
    <2>2. Good(t) /\ Len(t) = row
      BY <1>0, <2>1, GoodSeq
    <2> QED BY <1>0, <1>1, <2>2 DEF FillRows, Coordinate
  <1>2. CASE ~(Len(rs) < row)
    BY <1>0, <1>2 DEF FillRows, Coordinate
  <1> QED BY <1>1, <1>2

\* prepareSheetXML keeps the store contiguous and makes the cell addressable:
\* Row[row-1].C[col-1] exists and is the cell named (col, row)
LEMMA PrepareGood ==
  ASSUME NEW rs, Good(rs), NEW row \in Coordinate, NEW col \in Nat
  PROVE  LET p == PrepareSheetXML(rs, col, row)
         IN  Good(p) /\ row \in 1..Len(p) /\ Len(p[row].C) >= col
  <1> DEFINE full  == FillRows(rs, row)
             cells == FillColumns(full[row].C, col, row)
             p     == [full EXCEPT ![row] = [full[row] EXCEPT !.C = cells]]
  <1>1. Good(full) /\ row \in 1..Len(full)
    BY FillRowsGood
  <1>2. RowGood(full[row], row)
    BY <1>1 DEF Good
  <1>3. CellsGood(cells, row) /\ Len(cells) >= col
    BY <1>2, FillColumnsGood DEF RowGood
  <1>4. RowGood([full[row] EXCEPT !.C = cells], row)
    BY <1>2, <1>3, RowWithCells
  <1>5. Good(p) /\ Len(p) = Len(full)
    BY <1>1, <1>4, GoodExcept
  <1>6. PrepareSheetXML(rs, col, row) = p
    BY DEF PrepareSheetXML
  <1>7. p[row].C = cells
    BY <1>1, <1>2 DEF RowGood, Row, Good
  <1> QED BY <1>1, <1>3, <1>5, <1>6, <1>7

\* rewriting a cell in place, its name kept
LEMMA CellExcept ==
  ASSUME NEW rs, Good(rs), NEW row \in 1..Len(rs), NEW col \in 1..Len(rs[row].C),
         NEW c \in Cell, c.col = col, c.row = row
  PROVE  Good([rs EXCEPT ![row].C[col] = c])
  <1> DEFINE C == rs[row].C
             D == [C EXCEPT ![col] = c]
  <1>1. CellsGood(C, row) /\ RowGood(rs[row], row)
    BY DEF Good, RowGood
  <1>2. D \in Seq(Cell) /\ Len(D) = Len(C)
    BY <1>1 DEF CellsGood
  <1>3. CellsGood(D, row)
    BY <1>1, <1>2 DEF CellsGood
  <1>4. RowGood([rs[row] EXCEPT !.C = D], row)
    BY <1>1, <1>3, RowWithCells
  <1>5. Good([rs EXCEPT ![row] = [rs[row] EXCEPT !.C = D]])
    BY <1>4, GoodExcept
  <1>6. [rs EXCEPT ![row].C[col] = c] = [rs EXCEPT ![row] = [rs[row] EXCEPT !.C = D]]
    OBVIOUS
  <1> QED BY <1>5, <1>6
-----------------------------------------------------------------------------
(* The operations on cells and row attributes keep the store contiguous.   *)

\* the cell that prepareCell returns a pointer to
LEMMA PreparedCell ==
  ASSUME NEW rs, Good(rs), NEW row \in Coordinate, NEW col \in Coordinate
  PROVE  LET p == PrepareSheetXML(rs, col, row)
         IN  /\ Good(p) /\ row \in 1..Len(p) /\ col \in 1..Len(p[row].C)
             /\ p[row].C[col] \in Cell
             /\ p[row].C[col].col = col /\ p[row].C[col].row = row
  <1> DEFINE p == PrepareSheetXML(rs, col, row)
  <1>1. Good(p) /\ row \in 1..Len(p) /\ Len(p[row].C) >= col
    BY PrepareGood DEF Coordinate
  <1>2. CellsGood(p[row].C, row)
    BY <1>1 DEF Good, RowGood
  <1>3. col \in 1..Len(p[row].C)
    BY <1>1, <1>2 DEF Coordinate, CellsGood
  <1> HIDE DEF p
  <1>4. /\ p[row].C[col] \in Cell
        /\ p[row].C[col].col = col /\ p[row].C[col].row = row
    BY <1>2, <1>3 DEF CellsGood
  <1> QED BY <1>1, <1>3, <1>4 DEF p

\* storing a value, as the SetCell* functions do, keeps every cell in place
LEMMA WriteCellGood ==
  ASSUME NEW rs, Good(rs), NEW row \in Coordinate, NEW col \in Coordinate,
         NEW t \in CellTypes, NEW v \in CellValues, NEW cs \in StyleIds
  PROVE  /\ Good(WriteCell(rs, col, row, t, v, cs))
         /\ row \in 1..Len(WriteCell(rs, col, row, t, v, cs))
  <1> DEFINE p == PrepareSheetXML(rs, col, row)
             c == p[row].C[col]
             d == ValuedCell(c, t, v, cs)
             q == [p EXCEPT ![row].C[col] = d]
  <1>1. /\ Good(p) /\ row \in 1..Len(p) /\ col \in 1..Len(p[row].C)
        /\ c \in Cell /\ c.col = col /\ c.row = row
    BY PreparedCell
  <1>a. CellStyle(c.s, cs) \in StyleIds
    BY <1>1 DEF Cell, CellStyle
  <1>2. d \in Cell /\ d.col = col /\ d.row = row
    BY <1>1, <1>a DEF Cell, ValuedCell
  <1> HIDE DEF d
  <1>3. Good(q)
    BY <1>1, <1>2, CellExcept
  <1>4. Len(q) = Len(p)
    BY <1>1, <1>3 DEF Good
  <1>5. WriteCell(rs, col, row, t, v, cs) = q
    BY DEF WriteCell, d
  <1> QED BY <1>1, <1>3, <1>4, <1>5

\* storing or clearing a formula keeps every cell in place
LEMMA WriteFormulaGood ==
  ASSUME NEW rs, Good(rs), NEW row \in Coordinate, NEW col \in Coordinate,
         NEW present \in BOOLEAN
  PROVE  Good(WriteFormula(rs, col, row, present))
  <1> DEFINE p == PrepareSheetXML(rs, col, row)
             c == p[row].C[col]
             d == [c EXCEPT !.f = present]
  <1>1. /\ Good(p) /\ row \in 1..Len(p) /\ col \in 1..Len(p[row].C)
        /\ c \in Cell /\ c.col = col /\ c.row = row
    BY PreparedCell
  <1>2. d \in Cell /\ d.col = col /\ d.row = row
    BY <1>1 DEF Cell
  <1> HIDE DEF d
  <1>3. Good([p EXCEPT ![row].C[col] = d])
    BY <1>1, <1>2, CellExcept
  <1>4. WriteFormula(rs, col, row, present) = [p EXCEPT ![row].C[col] = d]
    BY DEF WriteFormula, d
  <1> QED BY <1>3, <1>4

\* setting height, visibility or outline keeps every row in place
LEMMA WriteRowAttrGood ==
  ASSUME NEW rs, Good(rs), NEW row \in Coordinate, NEW a \in RowAttrs
  PROVE  Good(WriteRowAttr(rs, row, a))
  <1> DEFINE p == PrepareSheetXML(rs, 0, row)
             r == [p[row] EXCEPT !.attr = a]
  <1>1. Good(p) /\ row \in 1..Len(p)
    BY PrepareGood
  <1>2. RowGood(p[row], row)
    BY <1>1 DEF Good
  <1>3. RowGood(r, row)
    BY <1>2 DEF RowGood, Row
  <1>4. Good([p EXCEPT ![row] = r])
    BY <1>1, <1>3, GoodExcept
  <1> QED BY <1>4 DEF WriteRowAttr

\* makeContiguousColumns keeps the rows it lengthens good
LEMMA MakeContiguousGood ==
  ASSUME NEW rs, Good(rs), NEW fromRow \in Nat, NEW toRow \in Nat, NEW n \in Nat
  PROVE  /\ Good(MakeContiguousColumns(rs, fromRow, toRow, n))
         /\ Len(MakeContiguousColumns(rs, fromRow, toRow, n)) = Len(rs)
  <1> DEFINE t == MakeContiguousColumns(rs, fromRow, toRow, n)
  <1>0. Len(rs) \in Nat
    BY DEF Good
  <1>1. ASSUME NEW i \in 1..Len(rs)
        PROVE  RowGood(t[i], i)
    <2>1. RowGood(rs[i], i)
      BY DEF Good
    <2>2. CellsGood(FillColumns(rs[i].C, n, i), i)
      BY <1>0, <2>1, FillColumnsGood DEF RowGood, Coordinate
    <2>3. RowGood([rs[i] EXCEPT !.C = FillColumns(rs[i].C, n, i)], i)
      BY <2>1, <2>2, RowWithCells
    <2> QED BY <2>1, <2>3 DEF MakeContiguousColumns
  <1>2. t = [i \in 1..Len(rs) |-> t[i]]
    BY DEF MakeContiguousColumns
  <1> HIDE DEF t
  <1>3. Good(t) /\ Len(t) = Len(rs)
    BY <1>0, <1>1, <1>2, GoodSeq
  <1> QED BY <1>3 DEF t

\* SetCellStyle, for a rectangle with its corners in order
LEMMA WriteStyleGood ==
  ASSUME NEW rs, Good(rs), NEW hcol \in Coordinate, NEW hrow \in Coordinate,
         NEW vcol \in Coordinate, NEW vrow \in Coordinate, NEW st \in StyleIds
  PROVE  Good(WriteStyle(rs, hcol, hrow, vcol, vrow, st))
  <1> DEFINE p == PrepareSheetXML(rs, vcol, vrow)
             ready == MakeContiguousColumns(p, hrow, vrow, vcol)
             D(i) == [k \in 1..Len(ready[i].C) |->
                        IF hcol <= k /\ k <= vcol
                        THEN [ready[i].C[k] EXCEPT !.s = st]
                        ELSE ready[i].C[k]]
             t == WriteStyle(rs, hcol, hrow, vcol, vrow, st)
  <1>1. Good(p)
    BY PrepareGood DEF Coordinate
  <1>2. Good(ready)
    BY <1>1, MakeContiguousGood DEF Coordinate
  <1>3. Len(ready) \in Nat
    BY <1>2 DEF Good
  <1>4. ASSUME NEW i \in 1..Len(ready)
        PROVE  RowGood(t[i], i)
    <2>1. RowGood(ready[i], i)
      BY <1>2 DEF Good
    <2>2. /\ ready[i].C \in Seq(Cell) /\ Len(ready[i].C) \in Nat
          /\ \A k \in 1..Len(ready[i].C) : /\ ready[i].C[k] \in Cell
                                           /\ ready[i].C[k].col = k
                                           /\ ready[i].C[k].row = i
      BY <2>1 DEF RowGood, CellsGood
    <2> HIDE DEF ready
    <2>a. \A c \in Cell : LET d == [c EXCEPT !.s = st]
                          IN  d \in Cell /\ d.col = c.col /\ d.row = c.row
      BY DEF Cell
    <2>3. \A k \in 1..Len(ready[i].C) : /\ D(i)[k] \in Cell
                                        /\ D(i)[k].col = k
                                        /\ D(i)[k].row = i
      BY <2>2, <2>a
    <2> DEFINE E == D(i)
    <2>4. E = [k \in 1..Len(ready[i].C) |-> E[k]]
      OBVIOUS
    <2> HIDE DEF E
    <2>5. CellsGood(E, i)
      BY <2>2, <2>3, <2>4, CellsSeq DEF E
    <2>6. RowGood([ready[i] EXCEPT !.C = E], i)
      BY <2>1, <2>5, RowWithCells
    <2> QED BY <2>1, <2>6 DEF WriteStyle, ready, E
  <1>5. t = [i \in 1..Len(ready) |-> t[i]]
    BY DEF WriteStyle
  <1> HIDE DEF t
  <1>6. Good(t)
    BY <1>3, <1>4, <1>5, GoodSeq
  <1> QED BY <1>6 DEF t
-----------------------------------------------------------------------------
(* checkSheet and checkRow turn a store with gaps into a contiguous one.   *)

\* checkRow on one row: the gaps are filled, no cell is stored out of range
LEMMA CheckCellsGood ==
  ASSUME NEW i \in Coordinate, NEW C \in Seq(Cell), CellsAscending(C),
         \A k \in 1..Len(C) : C[k].row = i
  PROVE  /\ CellsGood(CheckCells(C, i), i)
         /\ \A k \in 1..Len(C) : C[k].col <= C[Len(C)].col
  <1>0. /\ Len(C) \in Nat
        /\ \A k \in 1..Len(C) : C[k] \in Cell /\ C[k].col \in Nat /\ C[k].col >= 1
    BY CellType
  <1>1. \A j, k \in 1..Len(C) : j <= k => C[k].col - C[j].col >= k - j
    BY DEF CellsAscending
  <1>2. \A k \in 1..Len(C) : C[k].col <= C[Len(C)].col
    BY <1>0, <1>1
  <1>3. CASE NeedsFill(C)
    <2> DEFINE last == C[Len(C)].col
               D == [k \in 1..last |->
                       IF \E j \in 1..Len(C) : C[j].col = k
                       THEN C[LastCellAt(C, k)] ELSE NewCell(k, i)]
    <2>1. last \in Nat
      BY <1>0, <1>3 DEF NeedsFill
    <2>2. ASSUME NEW k \in 1..last
          PROVE  D[k] \in Cell /\ D[k].col = k /\ D[k].row = i
      <3>1. CASE \E j \in 1..Len(C) : C[j].col = k
        <4>1. PICK j \in 1..Len(C) : C[j].col = k
          BY <3>1
        <4>2. \A m \in 1..Len(C) : C[m].col = k => m <= j
          BY <1>0, <1>1, <4>1
        <4>3. LastCellAt(C, k) \in 1..Len(C) /\ C[LastCellAt(C, k)].col = k
          BY <4>1, <4>2 DEF LastCellAt
        <4> QED BY <1>0, <3>1, <4>3
      <3>2. CASE ~\E j \in 1..Len(C) : C[j].col = k
        BY <2>1, <3>2, NewCellGood DEF Coordinate
      <3> QED BY <3>1, <3>2
    <2>3. D = [k \in 1..last |-> D[k]]
      OBVIOUS
    <2>4. CheckCells(C, i) = D
      BY <1>3 DEF CheckCells
    <2> HIDE DEF D
    <2>5. CellsGood(D, i)
      BY <2>1, <2>2, <2>3, CellsSeq
    <2> QED BY <1>2, <2>4, <2>5
  <1>4. CASE ~NeedsFill(C)
    <2>1. \A k \in 1..Len(C) : C[k].col = k
      <3> SUFFICES ASSUME NEW k \in 1..Len(C) PROVE C[k].col = k
        OBVIOUS
      <3>1. C[Len(C)].col <= Len(C)
        BY <1>0, <1>4 DEF NeedsFill
      <3>2. C[Len(C)].col - C[k].col >= Len(C) - k
        BY <1>0, <1>1
      <3>3. C[k].col - C[1].col >= k - 1
        BY <1>0, <1>1
      <3> QED BY <1>0, <3>1, <3>2, <3>3
    <2>2. CheckCells(C, i) = C
      BY <1>4 DEF CheckCells
    <2> QED BY <1>2, <2>1, <2>2 DEF CellsGood
  <1> QED BY <1>3, <1>4

\* a row as a well-formed part holds it, in the place its number asks for
RowSparse(r, i) == /\ r \in Row /\ r.R = i /\ CellsAscending(r.C)
                   /\ \A k \in 1..Len(r.C) : r.C[k].row = i

\* checkSheet gives every row the place of its number
LEMMA CheckSheetPlaces ==
  ASSUME NEW rs \in Seq(Row), Sparse(rs)
  PROVE  LET t == CheckSheet(rs)
         IN  /\ t \in Seq(Row) /\ Len(t) >= Len(rs)
             /\ \A i \in 1..Len(t) : RowSparse(t[i], i)
  <1> DEFINE n == Len(rs)
             last == IF n >= 1 /\ rs[n].R >= n THEN rs[n].R ELSE n
             t == [i \in 1..last |->
                     IF \E k \in 1..n : rs[k].R = i THEN rs[LastRowAt(rs, i)]
                                                    ELSE NewRow(i)]
  <1>0. n \in Nat /\ \A k \in 1..n : rs[k] \in Row /\ rs[k].R \in Nat
    BY RowType
  <1>1. last \in Nat /\ last >= n
    BY <1>0
  <1>2. ASSUME NEW i \in 1..last
        PROVE  t[i] \in Row /\ RowSparse(t[i], i)
    <2>1. CASE \E k \in 1..n : rs[k].R = i
      <3>1. PICK k \in 1..n : rs[k].R = i
        BY <2>1
      <3>2. \A m \in 1..n : rs[m].R = i => m <= k
        BY <1>0, <3>1 DEF Sparse
      <3>3. LastRowAt(rs, i) \in 1..n /\ rs[LastRowAt(rs, i)].R = i
        BY <3>1, <3>2 DEF LastRowAt
      <3>4. t[i] = rs[LastRowAt(rs, i)]
        BY <2>1
      <3> QED BY <1>0, <3>3, <3>4 DEF Sparse, RowSparse
    <2>2. CASE ~\E k \in 1..n : rs[k].R = i
      <3>1. RowGood(NewRow(i), i) /\ NewRow(i).C = << >>
        BY <1>1, NewRowGood DEF Coordinate, NewRow
      <3>2. CellsAscending(<< >>) /\ Len(<< >>) = 0
        BY DEF CellsAscending
      <3> QED BY <2>2, <3>1, <3>2 DEF RowSparse, RowGood, CellsGood
    <2> QED BY <2>1, <2>2
  <1>3. CheckSheet(rs) = t
    BY DEF CheckSheet
  <1>4. t = [i \in 1..last |-> t[i]]
    OBVIOUS
  <1> HIDE DEF t, last
  <1>5. t \in Seq(Row) /\ Len(t) = last
    BY <1>1, <1>2, <1>4
  <1> QED BY <1>1, <1>2, <1>3, <1>5

\* after checkSheet and checkRow position and name agree, and neither has
\* panicked: for a part read from disk and for a store with a gap in it
LEMMA CheckGood ==
  ASSUME NEW rs \in Seq(Row), Sparse(rs)
  PROVE  Good(Check(rs)) /\ Len(Check(rs)) >= Len(rs) /\ ~CheckPanics(rs)
  <1> DEFINE t == CheckSheet(rs)
             u == CheckRow(t)
  <1>1. t \in Seq(Row) /\ Len(t) >= Len(rs) /\ Len(t) \in Nat
    BY CheckSheetPlaces
  <1>2. \A i \in 1..Len(t) : RowSparse(t[i], i)
    BY CheckSheetPlaces
  <1> HIDE DEF t
  <1>3. ASSUME NEW i \in 1..Len(t)
        PROVE  /\ RowGood(u[i], i)
               /\ ~\E k \in 1..Len(t[i].C) : t[i].C[k].col > t[i].C[Len(t[i].C)].col
    <2>1. t[i] \in Row /\ t[i].R = i /\ t[i].C \in Seq(Cell)
      BY <1>2 DEF RowSparse, Row
    <2>2. /\ CellsGood(CheckCells(t[i].C, i), i)
          /\ \A k \in 1..Len(t[i].C) : t[i].C[k].col <= t[i].C[Len(t[i].C)].col
      <3>1. i \in Coordinate
        BY <1>1 DEF Coordinate
      <3>2. CellsAscending(t[i].C) /\ \A k \in 1..Len(t[i].C) : t[i].C[k].row = i
        BY <1>2 DEF RowSparse
      <3> QED BY <2>1, <3>1, <3>2, CheckCellsGood
    <2>3. RowGood([t[i] EXCEPT !.C = CheckCells(t[i].C, i)], i)
      BY <2>1, <2>2 DEF RowGood, CellsGood, Row
    <2>4. u[i] = [t[i] EXCEPT !.C = CheckCells(t[i].C, i)]
      BY DEF CheckRow
    <2>5. \A k \in 1..Len(t[i].C) : t[i].C[k].col \in Nat
      BY <2>1, CellType
    <2>6. \A k \in 1..Len(t[i].C) : Len(t[i].C) \in 1..Len(t[i].C)
      BY <2>1
    <2>7. ~\E k \in 1..Len(t[i].C) : t[i].C[k].col > t[i].C[Len(t[i].C)].col
      BY ONLY <2>2, <2>5, <2>6
    <2>8. RowGood(u[i], i)
      BY ONLY <2>3, <2>4
    <2> QED BY <2>7, <2>8
  <1>4. u = [i \in 1..Len(t) |-> u[i]]
    BY DEF CheckRow
  <1> HIDE DEF u
  <1>5. Good(u) /\ Len(u) = Len(t)
    BY <1>1, <1>3, <1>4, GoodSeq
  <1>6. ~CheckRowPanics(t)
    BY <1>3 DEF CheckRowPanics
  <1> QED BY <1>1, <1>5, <1>6 DEF Check, CheckPanics, t, u
-----------------------------------------------------------------------------
(* Renumbering leaves a store that checkSheet and checkRow can repair.     *)

\* a good row under another number
LEMMA RenumberGood ==
  ASSUME NEW i, NEW r, RowGood(r, i), NEW n \in Coordinate
  PROVE  RowGood(RenumberRow(r, n), n)
  <1> DEFINE D == [k \in 1..Len(r.C) |-> [r.C[k] EXCEPT !.row = n]]
  <1>1. /\ r \in Row /\ Len(r.C) \in Nat
        /\ \A k \in 1..Len(r.C) : r.C[k] \in Cell /\ r.C[k].col = k
    BY DEF RowGood, CellsGood
  <1>2. \A c \in Cell : LET d == [c EXCEPT !.row = n]
                        IN  d \in Cell /\ d.col = c.col /\ d.row = n
    BY DEF Cell
  <1>3. \A k \in 1..Len(r.C) : D[k] \in Cell /\ D[k].col = k /\ D[k].row = n
    BY <1>1, <1>2
  <1>4. D = [k \in 1..Len(r.C) |-> D[k]]
    OBVIOUS
  <1> HIDE DEF D
  <1>5. CellsGood(D, n)
    BY <1>1, <1>3, <1>4, CellsSeq
  <1>6. RenumberRow(r, n) = [r EXCEPT !.R = n, !.C = D]
    BY DEF RenumberRow, D
  <1> QED BY <1>1, <1>5, <1>6 DEF RowGood, CellsGood, Row

\* rows that are good under ascending numbers of their own make a sparse store
LEMMA SparseSeq ==
  ASSUME NEW n \in Nat, NEW t, t = [i \in 1..n |-> t[i]], NEW num,
         \A i \in 1..n : num[i] \in Nat /\ RowGood(t[i], num[i]),
         \A i, j \in 1..n : i < j => num[i] < num[j]
  PROVE  t \in Seq(Row) /\ Len(t) = n /\ Sparse(t)
  <1>1. \A i \in 1..n : t[i] \in Row /\ t[i].R = num[i]
    BY DEF RowGood
  <1>2. t \in Seq(Row) /\ Len(t) = n
    BY <1>1
  <1>3. ASSUME NEW i \in 1..n
        PROVE  /\ CellsAscending(t[i].C)
               /\ \A k \in 1..Len(t[i].C) : t[i].C[k].row = t[i].R
    <2>1. t[i].C \in Seq(Cell) /\ \A k \in 1..Len(t[i].C) :
             t[i].C[k].col = k /\ t[i].C[k].row = num[i]
      BY DEF RowGood, CellsGood
    <2> QED BY <1>1, <2>1 DEF CellsAscending
  <1>4. \A i, j \in 1..Len(t) : i < j => t[i].R < t[j].R
    BY <1>1, <1>2
  <1> QED BY <1>2, <1>3, <1>4 DEF Sparse

\* renumbering the rows from row on leaves one gap, in ascending order
LEMMA InsertRowSparse ==
  ASSUME NEW rs, Good(rs), NEW row \in Coordinate
  PROVE  LET t == AdjustRowDimensions(rs, row, 1)
         IN  t \in Seq(Row) /\ Len(t) = Len(rs) /\ Sparse(t)
  <1> DEFINE t == AdjustRowDimensions(rs, row, 1)
             n == Len(rs)
             num == [i \in 1..n |-> IF i >= row THEN i + 1 ELSE i]
  <1>0. n \in Nat /\ row \in Nat
    BY DEF Good, Coordinate
  <1>1. ASSUME NEW i \in 1..n
        PROVE  num[i] \in Nat /\ RowGood(t[i], num[i])
    <2>1. RowGood(rs[i], i) /\ rs[i].R = i
      BY DEF Good, RowGood
    <2>2. t[i] = IF i >= row THEN RenumberRow(rs[i], i + 1) ELSE rs[i]
      BY <1>0, <2>1 DEF AdjustRowDimensions
    <2>3. RowGood(RenumberRow(rs[i], i + 1), i + 1)
      BY <1>0, <2>1, RenumberGood DEF Coordinate
    <2> QED BY <1>0, <2>1, <2>2, <2>3
  <1>2. \A i, j \in 1..n : i < j => num[i] < num[j]
    BY <1>0
  <1>3. t = [i \in 1..n |-> t[i]]
    BY DEF AdjustRowDimensions
  <1> HIDE DEF t, num
  <1>4. t \in Seq(Row) /\ Len(t) = n /\ Sparse(t)
    BY <1>0, <1>1, <1>2, <1>3, SparseSeq
  <1> QED BY <1>4 DEF t

\* in a contiguous store the row numbered n is the n-th
LEMMA FirstRowGood ==
  ASSUME NEW rs, Good(rs), NEW n, HasRow(rs, n)
  PROVE  n \in 1..Len(rs) /\ FirstRowAt(rs, n) = n
  <1>1. \A k \in 1..Len(rs) : rs[k].R = k
    BY DEF Good, RowGood
  <1>2. n \in 1..Len(rs) /\ Len(rs) \in Nat
    BY <1>1 DEF HasRow, Good
  <1>3. \A k \in 1..Len(rs) : rs[k].R = n <=> k = n
    BY <1>1, <1>2
  <1> QED BY <1>2, <1>3 DEF FirstRowAt

\* dropping a row and renumbering the ones below leaves no disorder
LEMMA RemoveRowSparse ==
  ASSUME NEW rs, Good(rs), NEW row \in Coordinate, HasRow(rs, row)
  PROVE  LET t == AdjustRowDimensions(Without(rs, FirstRowAt(rs, row)), row, -1)
         IN  t \in Seq(Row) /\ Sparse(t)
  <1> DEFINE w == Without(rs, row)
             t == AdjustRowDimensions(w, row, -1)
             n == Len(rs) - 1
             num == [i \in 1..n |-> i]
  <1>0. row \in 1..Len(rs) /\ FirstRowAt(rs, row) = row
    BY FirstRowGood
  <1>1. n \in Nat /\ row \in Nat /\ row >= 1 /\ Len(rs) = n + 1
    BY <1>0 DEF Good, Coordinate
  <1>2. \A i \in 1..n : w[i] = IF i < row THEN rs[i] ELSE rs[i + 1]
    BY DEF Without
  <1>3. \A i \in 1..n : RowGood(w[i], IF i < row THEN i ELSE i + 1)
    BY <1>1, <1>2 DEF Good
  <1>4. w \in Seq(Row) /\ Len(w) = n
    <2>1. \A i \in 1..n : w[i] \in Row
      BY <1>3 DEF RowGood
    <2>2. w = [i \in 1..n |-> w[i]]
      BY DEF Without
    <2> HIDE DEF w
    <2> QED BY <1>1, <2>1, <2>2
  <1>5. ASSUME NEW i \in 1..n
        PROVE  num[i] \in Nat /\ RowGood(t[i], num[i])
    <2>0. i \in Coordinate /\ i \in Nat
      BY <1>1 DEF Coordinate
    <2>1. CASE i < row
      <3>1. RowGood(w[i], i) /\ w[i].R = i
        BY <1>3, <2>1 DEF RowGood
      <3>2. t[i] = w[i]
        BY <1>1, <1>4, <2>0, <2>1, <3>1 DEF AdjustRowDimensions
      <3> QED BY <2>0, <3>1, <3>2
    <2>2. CASE ~(i < row)
      <3>1. RowGood(w[i], i + 1) /\ w[i].R = i + 1
        BY <1>3, <2>2 DEF RowGood
      <3>2. (i + 1) + (-1) = i /\ i + 1 >= row /\ i > 0
        BY <1>1, <2>0, <2>2
      <3>3. t[i] = RenumberRow(w[i], i)
        BY <1>4, <3>1, <3>2 DEF AdjustRowDimensions
      <3> QED BY <2>0, <3>1, <3>3, RenumberGood
    <2> QED BY <2>1, <2>2
  <1>6. \A i, j \in 1..n : i < j => num[i] < num[j]
    BY <1>1
  <1>7. t = [i \in 1..n |-> t[i]]
    BY <1>4 DEF AdjustRowDimensions
  <1> HIDE DEF t, num
  <1>8. t \in Seq(Row) /\ Sparse(t)
    BY <1>1, <1>5, <1>6, <1>7, SparseSeq
  <1> QED BY <1>0, <1>8 DEF t
\* rows with gaps between their cells, each in its place
LEMMA SparseRows ==
  ASSUME NEW n \in Nat, NEW t, t = [i \in 1..n |-> t[i]],
         \A i \in 1..n : RowSparse(t[i], i)
  PROVE  t \in Seq(Row) /\ Len(t) = n /\ Sparse(t)
  <1>1. \A i \in 1..n : t[i] \in Row /\ t[i].R = i
    BY DEF RowSparse
  <1>2. t \in Seq(Row) /\ Len(t) = n
    BY <1>1
  <1>3. \A i \in 1..n : /\ CellsAscending(t[i].C)
                        /\ \A k \in 1..Len(t[i].C) : t[i].C[k].row = t[i].R
    BY DEF RowSparse
  <1> QED BY <1>1, <1>2, <1>3 DEF Sparse

\* shifting the cells of a contiguous row from column col on to the right
LEMMA InsertColSparse ==
  ASSUME NEW rs, Good(rs), NEW col \in Coordinate
  PROVE  LET t == AdjustColDimensions(rs, col, 1)
         IN  t \in Seq(Row) /\ Sparse(t)
  <1> DEFINE t == AdjustColDimensions(rs, col, 1)
             n == Len(rs)
  <1>0. n \in Nat /\ col \in Nat
    BY DEF Good, Coordinate
  <1>1. ASSUME NEW i \in 1..n
        PROVE  RowSparse(t[i], i)
    <2> DEFINE C == rs[i].C
               D == [k \in 1..Len(C) |->
                       IF C[k].col >= col /\ C[k].col + 1 > 0
                       THEN [C[k] EXCEPT !.col = @ + 1] ELSE C[k]]
    <2>1. RowGood(rs[i], i)
      BY DEF Good
    <2>2. /\ rs[i] \in Row /\ rs[i].R = i /\ Len(C) \in Nat
          /\ \A k \in 1..Len(C) : C[k] \in Cell /\ C[k].col = k /\ C[k].row = i
      BY <2>1 DEF RowGood, CellsGood
    <2>3. \A c \in Cell : LET d == [c EXCEPT !.col = @ + 1]
                          IN  d \in Cell /\ d.col = c.col + 1 /\ d.row = c.row
      BY DEF Cell, Coordinate
    <2>4. t[i] = [rs[i] EXCEPT !.C = D]
      BY DEF AdjustColDimensions
    <2>5. D = [k \in 1..Len(C) |-> D[k]]
      OBVIOUS
    <2> HIDE DEF C
    <2>6. \A k \in 1..Len(C) : /\ D[k] \in Cell /\ D[k].row = i
                               /\ D[k].col = IF k >= col THEN k + 1 ELSE k
      BY <1>0, <2>2, <2>3
    <2> HIDE DEF D
    <2>7. D \in Seq(Cell) /\ Len(D) = Len(C)
      BY <2>2, <2>5, <2>6
    <2>8. CellsAscending(D)
      BY <1>0, <2>2, <2>6, <2>7 DEF CellsAscending
    <2>9. t[i] \in Row /\ t[i].R = i /\ t[i].C = D
      BY <2>2, <2>4, <2>7 DEF Row
    <2> QED BY <2>6, <2>7, <2>8, <2>9 DEF RowSparse
  <1>2. t = [i \in 1..n |-> t[i]]
    BY DEF AdjustColDimensions
  <1> HIDE DEF t
  <1>3. t \in Seq(Row) /\ Sparse(t)
    BY <1>0, <1>1, <1>2, SparseRows
  <1> QED BY <1>3 DEF t

\* row i without a cell in column col: the other cells keep their names
RowLacks(r, i, col) ==
  /\ r \in Row /\ r.R = i
  /\ \A k \in 1..Len(r.C) :
       r.C[k].row = i /\ r.C[k].col = IF k < col THEN k ELSE k + 1

\* RemoveCol's loop takes the cell in column col out of every row
LEMMA DropColumnCells ==
  ASSUME NEW rs, Good(rs), NEW col \in Coordinate, NEW i \in 1..Len(rs)
  PROVE  RowLacks(DropColumn(rs, col)[i], i, col)
  <1> DEFINE C == rs[i].C
             r == DropColumn(rs, col)[i]
             w == Without(C, col)
  <1>1. RowGood(rs[i], i) /\ rs[i] \in Row /\ rs[i].R = i
    BY DEF Good, RowGood
  <1>2. /\ Len(C) \in Nat /\ C \in Seq(Cell)
        /\ \A k \in 1..Len(C) : C[k] \in Cell /\ C[k].col = k /\ C[k].row = i
    BY <1>1 DEF RowGood, CellsGood
  <1>3. CASE HasCell(C, col)
    <2>1. col \in 1..Len(C)
      BY <1>2, <1>3 DEF HasCell
    <2>2. FirstCellAt(C, col) = col
      BY <1>2, <2>1 DEF FirstCellAt
    <2>3. r = [rs[i] EXCEPT !.C = w]
      BY <1>3, <2>2 DEF DropColumn
    <2>4. w = [k \in 1..(Len(C) - 1) |-> w[k]] /\ Len(C) - 1 \in Nat
      BY <1>2, <2>1 DEF Without
    <2>5. \A k \in 1..(Len(C) - 1) : w[k] = IF k < col THEN C[k] ELSE C[k + 1]
      BY DEF Without
    <2> HIDE DEF C, w
    <2>6. \A k \in 1..(Len(C) - 1) : /\ w[k] \in Cell /\ w[k].row = i
                                     /\ w[k].col = IF k < col THEN k ELSE k + 1
      <3> SUFFICES ASSUME NEW k \in 1..(Len(C) - 1)
                   PROVE  /\ w[k] \in Cell /\ w[k].row = i
                          /\ w[k].col = IF k < col THEN k ELSE k + 1
        OBVIOUS
      <3>1. k \in 1..Len(C) /\ k + 1 \in 1..Len(C)
        BY ONLY <1>2, k \in 1..(Len(C) - 1)
      <3>2. w[k] = IF k < col THEN C[k] ELSE C[k + 1]
        BY <2>5
      <3>3. CASE k < col
        BY <1>2, <3>1, <3>2, <3>3
      <3>4. CASE ~(k < col)
        BY <1>2, <3>1, <3>2, <3>4
      <3> QED
        BY <3>3, <3>4
    <2>7. w \in Seq(Cell) /\ Len(w) = Len(C) - 1
      BY <2>4, <2>6
    <2>8. r \in Row /\ r.R = i /\ r.C = w
      BY <1>1, <2>3, <2>7 DEF Row
    <2> QED BY <2>6, <2>7, <2>8 DEF RowLacks
  <1>4. CASE ~HasCell(C, col)
    <2>1. r = rs[i]
      BY <1>4 DEF DropColumn
    <2>2. \A k \in 1..Len(C) : k < col
      BY <1>2, <1>4 DEF HasCell, Coordinate
    <2> QED BY <1>1, <1>2, <2>1, <2>2 DEF RowLacks
  <1> QED BY <1>3, <1>4

\* closing the gap a removed column leaves keeps the cells ascending
LEMMA RemoveColSparse ==
  ASSUME NEW rs, Good(rs), NEW col \in Coordinate
  PROVE  LET t == AdjustColDimensions(DropColumn(rs, col), col, -1)
         IN  t \in Seq(Row) /\ Sparse(t)
  <1> DEFINE w == DropColumn(rs, col)
             t == AdjustColDimensions(w, col, -1)
             n == Len(rs)
             num == [i \in 1..n |-> i]
  <1>0. n \in Nat /\ col \in Nat /\ col >= 1
    BY DEF Good, Coordinate
  <1>1. w \in Seq(Row) /\ Len(w) = n
    <2>1. \A i \in 1..n : w[i] \in Row
      BY DropColumnCells DEF RowLacks
    <2>2. w = [i \in 1..n |-> w[i]]
      BY DEF DropColumn
    <2> HIDE DEF w
    <2> QED BY <1>0, <2>1, <2>2
  <1>2. ASSUME NEW i \in 1..n
        PROVE  num[i] \in Nat /\ RowGood(t[i], num[i])
    <2> DEFINE C == w[i].C
               D == [k \in 1..Len(C) |->
                       IF C[k].col >= col /\ C[k].col + -1 > 0
                       THEN [C[k] EXCEPT !.col = @ + -1] ELSE C[k]]
    <2>1. /\ w[i] \in Row /\ w[i].R = i
          /\ \A k \in 1..Len(C) :
               C[k].row = i /\ C[k].col = IF k < col THEN k ELSE k + 1
      <3>1. RowLacks(DropColumn(rs, col)[i], i, col)
        BY DropColumnCells
      <3> QED BY <3>1 DEF RowLacks
    <2>2. C \in Seq(Cell) /\ Len(C) \in Nat /\ \A k \in 1..Len(C) : C[k] \in Cell
      BY <2>1, RowType
    <2>3. \A c \in Cell : c.col + -1 > 0 =>
             LET d == [c EXCEPT !.col = @ + -1]
             IN  d \in Cell /\ d.col = c.col + -1 /\ d.row = c.row
      BY DEF Cell, Coordinate
    <2>4. t[i] = [w[i] EXCEPT !.C = D]
      BY <1>1 DEF AdjustColDimensions
    <2>5. D = [k \in 1..Len(C) |-> D[k]]
      OBVIOUS
    <2> HIDE DEF w, C
    <2>6. ASSUME NEW k \in 1..Len(C)
          PROVE  D[k] \in Cell /\ D[k].row = i /\ D[k].col = k
      <3>1. k \in Nat /\ k >= 1 /\ C[k] \in Cell /\ C[k].row = i
        BY <2>1, <2>2
      <3>2. CASE k < col
        <4>1. C[k].col = k /\ ~(C[k].col >= col)
          BY <1>0, <2>1, <3>1, <3>2
        <4> QED BY <3>1, <4>1
      <3>3. CASE ~(k < col)
        <4>1. C[k].col = k + 1 /\ C[k].col >= col /\ C[k].col + -1 > 0
          BY <1>0, <2>1, <3>1, <3>3
        <4>2. D[k] = [C[k] EXCEPT !.col = @ + -1]
          BY <4>1
        <4>3. D[k] \in Cell /\ D[k].row = i /\ D[k].col = C[k].col + -1
          BY <2>3, <3>1, <4>1, <4>2
        <4> HIDE DEF D
        <4> QED BY <3>1, <4>1, <4>3
      <3> QED BY <3>2, <3>3
    <2> HIDE DEF D
    <2>7. CellsGood(D, i)
      BY <2>2, <2>5, <2>6, CellsSeq
    <2>8. RowGood(t[i], i)
      BY <2>1, <2>4, <2>7 DEF RowGood, CellsGood, Row
    <2> QED BY <1>0, <2>8
  <1>3. \A i, j \in 1..n : i < j => num[i] < num[j]
    BY <1>0
  <1>4. t = [i \in 1..n |-> t[i]]
    BY <1>1 DEF AdjustColDimensions
  <1> HIDE DEF t, num
  <1>5. t \in Seq(Row) /\ Sparse(t)
    BY <1>0, <1>2, <1>3, <1>4, SparseSeq
  <1> QED BY <1>5 DEF t
-----------------------------------------------------------------------------
(* What Save leaves of a contiguous row is in ascending order.             *)

\* between two columns at most as many cells survive as there are columns
LEMMA RankSteps ==
  ASSUME NEW C \in Seq(Cell), NEW k \in 1..Len(C), NEW l \in 1..Len(C), k <= l
  PROVE  /\ Rank(C, k) \in Nat /\ Rank(C, l) \in Nat
         /\ Rank(C, k) <= Rank(C, l)
         /\ Rank(C, l) - Rank(C, k) <= l - k
         /\ l \in Kept(C) /\ k < l => Rank(C, k) < Rank(C, l)
         /\ l \in Kept(C) => Rank(C, l) >= 1
         /\ Rank(C, l) <= Cardinality(Kept(C))
  <1> DEFINE K == Kept(C)
             lo == {j \in K : j <= k}
             hi == {j \in K : j <= l}
             mid == {j \in K : k < j /\ j <= l}
  <1>0. Len(C) \in Nat /\ k \in Nat /\ l \in Nat
    OBVIOUS
  <1>1. K \subseteq 1..Len(C) /\ IsFiniteSet(K)
    <2>1. K \subseteq 1..Len(C)
      BY DEF Kept
    <2>2. IsFiniteSet(1..Len(C))
      BY <1>0, FS_Interval
    <2> QED BY <2>1, <2>2, FS_Subset
  <1> HIDE DEF K
  <1>2. IsFiniteSet(lo) /\ IsFiniteSet(hi) /\ IsFiniteSet(mid)
    <2>1. lo \in SUBSET K /\ hi \in SUBSET K /\ mid \in SUBSET K
      OBVIOUS
    <2> HIDE DEF lo, hi, mid
    <2> QED BY <1>1, <2>1, FS_Subset
  <1>3. /\ Cardinality(lo) \in Nat /\ Cardinality(hi) \in Nat
        /\ Cardinality(mid) \in Nat
    <2> HIDE DEF lo, hi, mid
    <2> QED BY <1>2, FS_CardinalityType
  <1>4. hi = lo \cup mid /\ lo \cap mid = {}
    <2>1. \A j \in K : j \in Nat
      BY <1>1
    <2>2. \A j \in K : j <= l <=> (j <= k \/ (k < j /\ j <= l))
      BY <1>0, <2>1
    <2>3. \A j \in K : ~(j <= k /\ k < j)
      BY <1>0, <2>1
    <2> QED BY <2>2, <2>3, Zenon
  <1>5. Cardinality(hi) = Cardinality(lo) + Cardinality(mid)
    <2> HIDE DEF lo, hi, mid
    <2>1. Cardinality(lo \cap mid) = 0
      BY <1>4, FS_EmptySet
    <2>2. Cardinality(lo \cup mid)
            = Cardinality(lo) + Cardinality(mid) - Cardinality(lo \cap mid)
      BY <1>2, FS_Union
    <2> QED BY <1>3, <1>4, <2>1, <2>2
  <1>6. Cardinality(mid) <= l - k
    <2>1. mid \in SUBSET ((k + 1)..l)
      <3>1. \A j \in K : j \in Nat
        BY <1>1
      <3>2. \A j \in mid : j \in (k + 1)..l
        BY <1>0, <3>1
      <3> QED BY <3>2, Zenon
    <2>2. IsFiniteSet((k + 1)..l) /\ Cardinality((k + 1)..l) = l - k
      <3>1. k + 1 \in Int /\ l \in Int
        BY <1>0
      <3>2. /\ IsFiniteSet((k + 1)..l)
            /\ Cardinality((k + 1)..l) = IF k + 1 > l THEN 0 ELSE l - (k + 1) + 1
        BY <3>1, FS_Interval
      <3> QED BY <1>0, <3>2
    <2> HIDE DEF lo, hi, mid
    <2> QED BY <2>1, <2>2, FS_Subset, ZenonT(40)
  <1>7. ASSUME l \in K, k < l PROVE Cardinality(mid) >= 1
    <2>1. mid # {}
      BY <1>0, <1>7
    <2> HIDE DEF lo, hi, mid
    <2>2. Cardinality(mid) # 0
      BY <1>2, <2>1, FS_EmptySet
    <2> QED BY <1>3, <2>2
  <1>8. ASSUME l \in K PROVE Cardinality(hi) >= 1
    <2>1. hi # {}
      BY <1>0, <1>8
    <2> HIDE DEF lo, hi, mid
    <2>2. Cardinality(hi) # 0
      BY <1>2, <2>1, FS_EmptySet
    <2> QED BY <1>3, <2>2
  <1>9. Cardinality(hi) <= Cardinality(K)
    <2>1. hi \in SUBSET K
      OBVIOUS
    <2> HIDE DEF lo, hi, mid
    <2> QED BY <1>1, <2>1, FS_Subset
  <1>10. Rank(C, k) = Cardinality(lo) /\ Rank(C, l) = Cardinality(hi)
    BY DEF Rank, K
  <1> HIDE DEF lo, hi, mid
  <1> QED BY <1>0, <1>3, <1>5, <1>6, <1>7, <1>8, <1>9, <1>10 DEF K

\* every rank up to the number of survivors is some survivor's: by counting,
\* an injection between finite sets of the same size is onto
LEMMA RankOnto ==
  ASSUME NEW C \in Seq(Cell)
  PROVE  /\ Cardinality(Kept(C)) \in Nat
         /\ \A i \in 1..Cardinality(Kept(C)) : \E k \in Kept(C) : Rank(C, k) = i
  <1> DEFINE K == Kept(C)
             m == Cardinality(K)
             rank == [k \in K |-> Rank(C, k)]
  <1>1. K \subseteq 1..Len(C) /\ Len(C) \in Nat
    BY DEF Kept
  <1>2. IsFiniteSet(K) /\ m \in Nat
    <2>1. IsFiniteSet(1..Len(C))
      BY <1>1, FS_Interval
    <2> HIDE DEF K
    <2>2. IsFiniteSet(K)
      BY <1>1, <2>1, FS_Subset
    <2> QED BY <2>2, FS_CardinalityType
  <1>3. \A k \in K : Rank(C, k) \in 1..m
    <2> SUFFICES ASSUME NEW k \in K PROVE Rank(C, k) \in 1..m
      OBVIOUS
    <2>1. k \in 1..Len(C) /\ k <= k
      BY <1>1
    <2>2. Rank(C, k) \in Nat /\ Rank(C, k) >= 1 /\ Rank(C, k) <= m
      BY <2>1, RankSteps
    <2> QED BY <1>2, <2>2
  <1>4. \A k, l \in K : Rank(C, k) = Rank(C, l) => k = l
    <2> SUFFICES ASSUME NEW k \in K, NEW l \in K, Rank(C, k) = Rank(C, l), k # l
                 PROVE  FALSE
      OBVIOUS
    <2>1. k \in 1..Len(C) /\ l \in 1..Len(C) /\ (k < l \/ l < k)
      BY <1>1
    <2>2. CASE k < l
      BY <2>1, <2>2, RankSteps
    <2>3. CASE l < k
      BY <2>1, <2>3, RankSteps
    <2> QED BY <2>1, <2>2, <2>3
  <1>5. rank \in Injection(K, 1..m)
    BY <1>3, <1>4 DEF Injection, IsInjective
  <1>6. IsFiniteSet(1..m) /\ Cardinality(1..m) = m
    BY <1>2, FS_Interval
  <1> HIDE DEF K
  <1>7. rank \in Surjection(K, 1..m)
    BY <1>5, <1>6, FS_Injection
  <1>8. \A i \in 1..m : \E k \in K : rank[k] = i
    BY <1>7 DEF Surjection
  <1> QED BY <1>2, <1>8 DEF K

\* trimCell keeps cells, in ascending order
LEMMA TrimCellAscending ==
  ASSUME NEW i, NEW C, CellsGood(C, i)
  PROVE  /\ TrimCell(C) \in Seq(Cell)
         /\ CellsAscending(TrimCell(C))
         /\ \A k \in 1..Len(TrimCell(C)) : TrimCell(C)[k].row = i
  <1> DEFINE m == Cardinality(Kept(C))
             e == [n \in 1..m |-> CHOOSE k \in Kept(C) : Rank(C, k) = n]
             D == TrimCell(C)
  <1>1. /\ C \in Seq(Cell) /\ Len(C) \in Nat
        /\ \A k \in 1..Len(C) : C[k] \in Cell /\ C[k].col = k /\ C[k].row = i
    BY DEF CellsGood
  <1>2. m \in Nat /\ \A n \in 1..m : \E k \in Kept(C) : Rank(C, k) = n
    BY <1>1, RankOnto
  <1>3. \A n \in 1..m : e[n] \in Kept(C) /\ Rank(C, e[n]) = n
    BY <1>2
  <1>4. \A n \in 1..m : e[n] \in 1..Len(C)
    BY <1>3 DEF Kept
  <1>5. D = [n \in 1..m |-> C[e[n]]]
    BY DEF TrimCell
  <1> HIDE DEF m, e, D
  <1>6. \A n \in 1..m : D[n] \in Cell /\ D[n].col = e[n] /\ D[n].row = i
    BY <1>1, <1>4, <1>5
  <1>7. D \in Seq(Cell) /\ Len(D) = m
    BY <1>2, <1>5, <1>6
  <1>8. ASSUME NEW a \in 1..m, NEW b \in 1..m, a <= b
        PROVE  e[b] - e[a] >= b - a
    <2>0. e[a] \in Nat /\ e[b] \in Nat /\ a \in Nat /\ b \in Nat
      BY <1>1, <1>2, <1>4
    <2>1. CASE e[a] <= e[b]
      <3>1. Rank(C, e[b]) - Rank(C, e[a]) <= e[b] - e[a]
        BY <1>1, <1>4, <2>1, RankSteps
      <3> QED BY <1>3, <2>0, <3>1
    <2>2. CASE e[b] < e[a]
      <3>1. Rank(C, e[b]) < Rank(C, e[a])
        BY <1>1, <1>3, <1>4, <2>0, <2>2, RankSteps
      <3> QED BY <1>3, <1>8, <2>0, <3>1
    <2> QED BY <2>0, <2>1, <2>2
  <1>9. CellsAscending(D)
    BY <1>6, <1>7, <1>8 DEF CellsAscending
  <1> QED BY <1>6, <1>7, <1>9 DEF D

\* what workSheetWriter writes is a sparse sheet part
LEMMA TrimRowsSparse ==
  ASSUME NEW rs, Good(rs)
  PROVE  TrimRows(rs) \in Seq(Row) /\ Sparse(TrimRows(rs))
  <1> DEFINE t == TrimRows(rs)
  <1>0. Len(rs) \in Nat
    BY DEF Good
  <1>1. ASSUME NEW i \in 1..Len(rs)
        PROVE  RowSparse(t[i], i)
    <2>1. RowGood(rs[i], i) /\ CellsGood(rs[i].C, i)
      BY DEF Good, RowGood
    <2>2. /\ TrimCell(rs[i].C) \in Seq(Cell)
          /\ CellsAscending(TrimCell(rs[i].C))
          /\ \A k \in 1..Len(TrimCell(rs[i].C)) : TrimCell(rs[i].C)[k].row = i
      BY <2>1, TrimCellAscending
    <2>3. t[i] = [rs[i] EXCEPT !.C = TrimCell(rs[i].C)]
      BY DEF TrimRows
    <2>4. t[i] \in Row /\ t[i].R = i /\ t[i].C = TrimCell(rs[i].C)
      BY <2>1, <2>2, <2>3 DEF RowGood, Row
    <2> QED BY <2>2, <2>4 DEF RowSparse
  <1>2. t = [i \in 1..Len(rs) |-> t[i]]
    BY DEF TrimRows
  <1> HIDE DEF t
  <1>3. t \in Seq(Row) /\ Sparse(t)
    BY <1>0, <1>1, <1>2, SparseRows
  <1> QED BY <1>3 DEF t
-----------------------------------------------------------------------------
(* The invariant.                                                          *)

\* a call that stores a contiguous sheet
LEMMA StoreInv ==
  ASSUME ~panicked, panicked \in BOOLEAN, NEW t, Good(t), Store(t)
  PROVE  GridInv'
  <1>1. t \in Seq(Row) /\ Contiguous(t)
    BY GoodDef DEF Good
  <1> QED BY <1>1 DEF Store, GridInv, TypeOK

\* a call that ends in checkSheet and checkRow
LEMMA StoreCheckedInv ==
  ASSUME ~panicked, panicked \in BOOLEAN,
         NEW t \in Seq(Row), Sparse(t), StoreChecked(t)
  PROVE  GridInv'
  <1>1. Good(Check(t)) /\ ~CheckPanics(t)
    BY CheckGood
  <1> QED BY <1>1, StoreInv DEF StoreChecked

\* what a call on a handle in use may rely on
LEMMA OpenRows ==
  ASSUME GridInv, phase = "open"
  PROVE  ~panicked /\ panicked \in BOOLEAN /\ Good(rows) /\ rows \in Seq(Row)
  BY GoodDef DEF GridInv, TypeOK

\* a file nobody has read is sparse
LEMMA InitGridInv == Init => GridInv
  BY GridAssumption DEF Init, GridInv, TypeOK

\* duplicating a row no further than one past the last
LEMMA DuplicateRowInv ==
  ASSUME GridInv, phase = "open", NEW row \in Rows, NEW row2 \in Rows,
         row2 <= Len(rows) + 1, DuplicateRowTo(row, row2)
  PROVE  GridInv'
  <1> DEFINE shifted == AdjustRowDimensions(rows, row2, 1)
             checked == Check(shifted)
             copy    == RenumberRow(rows[FirstRowAt(rows, row)], row2)
  <1>0. ~panicked /\ panicked \in BOOLEAN /\ Good(rows) /\ Len(rows) \in Nat
    BY OpenRows DEF Good
  <1>1. row \in Coordinate /\ row2 \in Coordinate /\ row2 \in Nat
    BY GridAssumption DEF Rows, Coordinate
  <1>2. shifted \in Seq(Row) /\ Len(shifted) = Len(rows) /\ Sparse(shifted)
    BY <1>0, <1>1, InsertRowSparse
  <1> HIDE DEF shifted
  <1>3. Good(checked) /\ Len(checked) >= Len(rows) /\ ~CheckPanics(shifted)
    BY <1>2, CheckGood
  <1>4. HasRow(rows, row)
    BY DEF DuplicateRowTo
  <1>5. RowGood(rows[FirstRowAt(rows, row)], row)
    BY <1>0, <1>4, FirstRowGood DEF Good
  <1>6. RowGood(copy, row2)
    BY <1>1, <1>5, RenumberGood
  <1> HIDE DEF checked, copy
  <1>7. CASE HasRow(checked, row2)
    <2>1. row2 \in 1..Len(checked) /\ FirstRowAt(checked, row2) = row2
      BY <1>3, <1>7, FirstRowGood
    <2>2. Good([checked EXCEPT ![row2] = copy])
      BY <1>3, <1>6, <2>1, GoodExcept
    <2>3. Store([checked EXCEPT ![row2] = copy])
      BY <1>3, <1>7, <2>1 DEF DuplicateRowTo, shifted, checked, copy
    <2> QED BY <1>0, <2>2, <2>3, StoreInv
  <1>8. CASE ~HasRow(checked, row2)
    <2>0. Len(checked) \in Nat /\ checked \in Seq(Row)
          /\ \A k \in 1..Len(checked) : RowGood(checked[k], k)
      BY <1>3 DEF Good
    <2>1. \A k \in 1..Len(checked) : checked[k].R = k
      BY <2>0 DEF RowGood
    <2>2. Len(checked) = row2 - 1
      <3>1. ~(row2 <= Len(checked))
        BY <1>1, <1>8, <2>0, <2>1 DEF HasRow, Coordinate
      <3> QED BY <1>0, <1>1, <1>3, <2>0, <3>1
    <2>3. Store(Append(checked, copy))
      BY <1>1, <1>3, <1>8, <2>2 DEF DuplicateRowTo, shifted, checked, copy
    <2>4. copy \in Row
      BY <1>6 DEF RowGood
    <2>5. Good(Append(checked, copy))
      <3> DEFINE u == Append(checked, copy)
      <3>1. u \in Seq(Row) /\ Len(u) = row2
        BY <1>1, <2>0, <2>2, <2>4
      <3>2. ASSUME NEW k \in 1..row2 PROVE RowGood(u[k], k)
        <4>1. CASE k = row2
          <5>1. u[k] = copy
            BY <1>1, <2>0, <2>2, <2>4, <4>1
          <5> QED BY <1>6, <4>1, <5>1
        <4>2. CASE k # row2
          <5>1. k \in 1..Len(checked) /\ u[k] = checked[k]
            BY <1>1, <2>0, <2>2, <2>4, <4>2
          <5> QED BY <2>0, <5>1
        <4> QED BY <4>1, <4>2
      <3> HIDE DEF u
      <3>3. Good(u)
        BY <3>1, <3>2 DEF Good
      <3> QED BY <3>3 DEF u
    <2> QED BY <1>0, <2>3, <2>5, StoreInv
  <1> QED BY <1>7, <1>8

\* every call on a handle in use
LEMMA EditInv ==
  ASSUME GridInv, phase = "open", Edit
  PROVE  GridInv'
  <1>0. /\ ~panicked /\ panicked \in BOOLEAN
        /\ Good(rows) /\ rows \in Seq(Row) /\ Len(rows) \in Nat
    BY OpenRows
  <1>c. /\ \A c \in Cols : c \in Coordinate
        /\ \A r \in Rows : r \in Coordinate
    BY GridAssumption DEF Cols, Rows, Coordinate
  <1>1. ASSUME NEW col \in Cols, NEW row \in Rows, NEW w \in Writes,
               NEW cs \in ColStyles, SetCell(col, row, w, cs)
        PROVE  GridInv'
    <2>1. w.t \in CellTypes /\ w.v \in CellValues /\ cs \in StyleIds
      BY GridAssumption
    <2>2. Good(WriteCell(rows, col, row, w.t, w.v, cs))
      BY <1>0, <1>c, <2>1, WriteCellGood
    <2> QED BY <1>0, <1>1, <2>2, StoreInv DEF SetCell
  <1>2. ASSUME NEW col \in Cols, NEW row \in Rows, NEW present \in FormulaOps,
               SetCellFormula(col, row, present)
        PROVE  GridInv'
    <2>1. Good(WriteFormula(rows, col, row, present))
      BY <1>0, <1>c, GridAssumption, WriteFormulaGood
    <2> QED BY <1>0, <1>2, <2>1, StoreInv DEF SetCellFormula
  <1>3. ASSUME NEW col \in Cols, NEW row \in Rows, GetCellStyle(col, row)
        PROVE  GridInv'
    <2>1. Good(PrepareSheetXML(rows, col, row))
      BY <1>0, <1>c, PreparedCell
    <2> QED BY <1>0, <1>3, <2>1, StoreInv DEF GetCellStyle
  <1>4. ASSUME NEW a \in Areas, NEW cs \in ColStyles,
               SetCellTime(a[3], a[4], a[1], a[2], cs)
        PROVE  GridInv'
    <2> DEFINE valued == WriteCell(rows, a[3], a[4], "", TimeValue, cs)
               styled == WriteStyle(valued, a[1], a[2], a[1], a[2], TimeStyle)
    <2>1. /\ a[1] \in Coordinate /\ a[2] \in Coordinate
          /\ a[3] \in Coordinate /\ a[4] \in Coordinate
      BY GridAssumption DEF Coordinate
    <2>2. Good(valued)
      BY <1>0, <2>1, GridAssumption, DefaultsAssumption, WriteCellGood
    <2> HIDE DEF valued
    <2>3. Good(styled)
      BY <2>1, <2>2, GridAssumption, WriteStyleGood
    <2>4. Store(valued) \/ Store(styled)
      BY <1>4 DEF SetCellTime, SetDefaultTimeStyle, valued, styled
    <2> QED BY <1>0, <2>2, <2>3, <2>4, StoreInv
  <1>5. ASSUME NEW a \in Areas, NEW st \in StyleIds,
               SetCellStyle(a[1], a[2], a[3], a[4], st)
        PROVE  GridInv'
    <2>1. /\ a[1] \in Coordinate /\ a[2] \in Coordinate
          /\ a[3] \in Coordinate /\ a[4] \in Coordinate
      BY GridAssumption DEF Coordinate
    <2>2. PICK hc \in Coordinate, hr \in Coordinate, vc \in Coordinate,
               vr \in Coordinate : Store(WriteStyle(rows, hc, hr, vc, vr, st))
      BY <1>5, <2>1 DEF SetCellStyle
    <2>3. Good(WriteStyle(rows, hc, hr, vc, vr, st))
      BY <1>0, WriteStyleGood
    <2> QED BY <1>0, <2>2, <2>3, StoreInv
  <1>6. ASSUME NEW row \in Rows, NEW a \in RowAttrs, SetRowAttr(row, a)
        PROVE  GridInv'
    <2>1. Good(WriteRowAttr(rows, row, a))
      BY <1>0, <1>c, WriteRowAttrGood
    <2> QED BY <1>0, <1>6, <2>1, StoreInv DEF SetRowAttr
  <1>7. ASSUME NEW row \in Rows, InsertRow(row)
        PROVE  GridInv'
    <2> DEFINE t == AdjustRowDimensions(rows, row, 1)
    <2>1. t \in Seq(Row) /\ Sparse(t)
      BY <1>0, <1>c, InsertRowSparse
    <2>2. StoreChecked(t)
      BY <1>7 DEF InsertRow
    <2> HIDE DEF t
    <2> QED BY <1>0, <2>1, <2>2, StoreCheckedInv
  <1>8. ASSUME NEW row \in Rows, RemoveRow(row)
        PROVE  GridInv'
    <2> DEFINE t == AdjustRowDimensions(Without(rows, FirstRowAt(rows, row)), row, -1)
    <2>1. t \in Seq(Row) /\ Sparse(t)
      BY <1>0, <1>8, <1>c, RemoveRowSparse DEF RemoveRow
    <2>2. StoreChecked(t)
      BY <1>8 DEF RemoveRow
    <2> HIDE DEF t
    <2> QED BY <1>0, <2>1, <2>2, StoreCheckedInv
  <1>9. ASSUME NEW col \in Cols, InsertCol(col)
        PROVE  GridInv'
    <2> DEFINE t == AdjustColDimensions(rows, col, 1)
    <2>1. t \in Seq(Row) /\ Sparse(t)
      BY <1>0, <1>c, InsertColSparse
    <2>2. StoreChecked(t)
      BY <1>9 DEF InsertCol
    <2> HIDE DEF t
    <2> QED BY <1>0, <2>1, <2>2, StoreCheckedInv
  <1>10. ASSUME NEW col \in Cols, RemoveCol(col)
         PROVE  GridInv'
    <2> DEFINE t == AdjustColDimensions(DropColumn(rows, col), col, -1)
    <2>1. t \in Seq(Row) /\ Sparse(t)
      BY <1>0, <1>c, RemoveColSparse
    <2>2. StoreChecked(t)
      BY <1>10 DEF RemoveCol
    <2> HIDE DEF t
    <2> QED BY <1>0, <2>1, <2>2, StoreCheckedInv
  <1> QED
    BY <1>1, <1>2, <1>3, <1>4, <1>5, <1>6, <1>7, <1>8, <1>9, <1>10,
       DuplicateRowInv DEF Edit

\* GridInv is inductive: every call, every save and every open keeps it
THEOREM GridInvHolds == Spec => []GridInv
  <1>1. GridInv /\ [Next]_vars => GridInv'
    <2> SUFFICES ASSUME GridInv, [Next]_vars PROVE GridInv'
      OBVIOUS
    <2>1. CASE phase = "open" /\ Edit
      BY <2>1, EditInv
    <2>2. CASE phase = "open" /\ Save
      <3>1. ~panicked /\ Good(rows)
        BY <2>2, OpenRows
      <3>2. TrimRows(rows) \in Seq(Row) /\ Sparse(TrimRows(rows))
        BY <3>1, TrimRowsSparse
      <3> QED BY <2>2, <3>1, <3>2 DEF Save, GridInv, TypeOK
    <2>3. CASE Open
      <3>1. /\ ~panicked /\ panicked \in BOOLEAN
            /\ rows \in Seq(Row) /\ Sparse(rows) /\ StoreChecked(rows)
        BY <2>3 DEF GridInv, TypeOK, Open
      <3> QED BY <3>1, StoreCheckedInv
    <2>4. CASE UNCHANGED vars
      BY <2>4 DEF vars, GridInv, TypeOK
    <2> QED BY <2>1, <2>2, <2>3, <2>4 DEF Next
  <1> QED BY <1>1, InitGridInv, PTL DEF Spec

\* Type correctness of the cell store, for every sheet size and every input.
THEOREM TypeCorrect == Spec => []TypeOK
  <1>1. GridInv => TypeOK
    BY DEF GridInv
  <1> QED BY <1>1, GridInvHolds, PTL

\* A handle in use always has row n at index n-1 and column k at index k-1,
\* with the names to match: writing by position is writing by name.
THEOREM ContiguousAlways == Spec => []GridContiguous
  <1>1. GridInv => GridContiguous
    BY DEF GridInv, GridContiguous
  <1> QED BY <1>1, GridInvHolds, PTL

\* checkRow never indexes beyond the list it has allocated.
THEOREM NeverPanics == Spec => []NoPanic
  <1>1. GridInv => NoPanic
    BY DEF GridInv, NoPanic
  <1> QED BY <1>1, GridInvHolds, PTL

-----------------------------------------------------------------------------
(* Reading by name.  In a store whose rows and cells ascend, contiguous or  *)
(* not, a name leads to one cell.                                          *)

\* cell k of row i is a cell of the store
IsCell(rs, i, k) == i \in 1..Len(rs) /\ k \in 1..Len(rs[i].C)
\* no cell has the name
Absent(rs, c, r) == \A i, k : IsCell(rs, i, k) => ~(rs[i].R = r /\ rs[i].C[k].col = c)

\* what is used of a sparse store
LEMMA SparseFacts ==
  ASSUME NEW rs \in Seq(Row), Sparse(rs)
  PROVE  /\ Len(rs) \in Nat
         /\ \A i \in 1..Len(rs) : rs[i] \in Row /\ rs[i].C \in Seq(Cell) /\ rs[i].R \in Nat
         /\ \A i \in 1..Len(rs) : rs[i].R <= rs[Len(rs)].R
         /\ \A i, j \in 1..Len(rs) : rs[i].R = rs[j].R => i = j
         /\ \A i, k : IsCell(rs, i, k) =>
              rs[i].C[k] \in Cell /\ rs[i].C[k].row = rs[i].R /\ rs[i].C[k].col \in Nat
         /\ \A i, j, k : IsCell(rs, i, j) /\ IsCell(rs, i, k)
              /\ rs[i].C[j].col = rs[i].C[k].col => j = k
  <1> DEFINE n == Len(rs)
  <1>1. n \in Nat /\ \A i \in 1..n : rs[i] \in Row
    OBVIOUS
  <1>2. \A i \in 1..n : rs[i].C \in Seq(Cell) /\ rs[i].R \in Nat
    BY <1>1, RowType
  <1>3. \A i, j \in 1..n : i < j => rs[i].R < rs[j].R
    BY DEF Sparse
  <1>4. \A i, j \in 1..n : rs[i].R = rs[j].R => i = j
    <2> TAKE i, j \in 1..n
    <2>1. i < j => rs[i].R < rs[j].R
      BY <1>3
    <2>2. j < i => rs[j].R < rs[i].R
      BY <1>3
    <2> QED
      BY <1>1, <1>2, <2>1, <2>2
  <1>5. \A i \in 1..n : rs[i].R <= rs[n].R
    <2> TAKE i \in 1..n
    <2>1. n \in 1..n /\ (i = n \/ i < n)
      BY <1>1
    <2> QED
      BY <1>2, <1>3, <2>1
  <1>6. ASSUME NEW i \in 1..n, NEW j \in 1..Len(rs[i].C)
        PROVE  rs[i].C[j] \in Cell /\ rs[i].C[j].row = rs[i].R /\ rs[i].C[j].col \in Nat
    <2>1. rs[i].C[j] \in Cell
      BY <1>2
    <2>2. rs[i].C[j].row = rs[i].R
      BY DEF Sparse
    <2> QED
      BY <2>1, <2>2, CellType
  <1>7. ASSUME NEW i \in 1..n, NEW j \in 1..Len(rs[i].C), NEW k \in 1..Len(rs[i].C),
               rs[i].C[j].col = rs[i].C[k].col
        PROVE  j = k
    <2> DEFINE C == rs[i].C
    <2>1. C \in Seq(Cell) /\ Len(C) \in Nat /\ C[j].col \in Nat /\ C[k].col \in Nat
      BY <1>2, <1>6
    <2>2. \A x, y \in 1..Len(C) : x <= y => C[y].col - C[x].col >= y - x
      BY DEF Sparse, CellsAscending
    <2> HIDE DEF C
    <2>3. j <= k => C[k].col - C[j].col >= k - j
      BY <1>7, <2>2 DEF C
    <2>4. k <= j => C[j].col - C[k].col >= j - k
      BY <1>7, <2>2 DEF C
    <2>5. C[j].col = C[k].col /\ j \in Nat /\ k \in Nat
      BY <1>7, <2>1 DEF C
    <2> QED
      BY <2>1, <2>3, <2>4, <2>5
  <1> QED
    BY <1>1, <1>2, <1>4, <1>5, <1>6, <1>7 DEF IsCell

\* getCellStringFunc finds the cell of that name
LEMMA ReadCell ==
  ASSUME NEW rs \in Seq(Row), Sparse(rs), NEW i, NEW k, IsCell(rs, i, k)
  PROVE  CellAt(rs, rs[i].C[k].col, rs[i].R) = Content(rs[i].C[k])
  <1> DEFINE c == rs[i].C[k].col
             r == rs[i].R
             n == Len(rs)
             C == rs[i].C
  <1>1. /\ n \in Nat /\ i \in 1..n /\ k \in 1..Len(C) /\ C \in Seq(Cell)
        /\ r <= rs[n].R /\ \A j \in 1..n : rs[j].R = r => j = i
        /\ \A j \in 1..Len(C) : C[j].row = r
        /\ \A j \in 1..Len(C) : C[j].col = c => j = k
    BY SparseFacts DEF IsCell
  <1>2. Named(rs[i], c, r) /\ \A j \in 1..n : Named(rs[j], c, r) => j = i
    BY <1>1 DEF Named
  <1> DEFINE I == CHOOSE j \in 1..n : /\ Named(rs[j], c, r)
                                      /\ \A l \in 1..(j - 1) : ~Named(rs[l], c, r)
             K == CHOOSE j \in 1..Len(C) : /\ C[j].col = c /\ C[j].row = r
                                           /\ \A l \in 1..(j - 1) : C[l].col # c \/ C[l].row # r
  <1>3. I = i
    <2>1. \A l \in 1..(i - 1) : ~Named(rs[l], c, r)
      <3> TAKE l \in 1..(i - 1)
      <3>1. l \in 1..n /\ l # i
        BY <1>1
      <3> QED
        BY <1>2, <3>1
    <2> HIDE DEF c, r
    <2> QED
      BY <1>1, <1>2, <2>1
  <1>4. K = k
    <2>1. \A l \in 1..(k - 1) : C[l].col # c
      <3> TAKE l \in 1..(k - 1)
      <3>1. l \in 1..Len(C) /\ l # k
        BY <1>1
      <3> QED
        BY <1>1, <3>1
    <2>2. C[k].col = c /\ C[k].row = r
      BY <1>1
    <2> HIDE DEF c, r, C
    <2> QED
      BY <1>1, <2>1, <2>2
  <1>5. \E j \in 1..n : Named(rs[j], c, r) /\ r <= rs[n].R
    BY <1>1, <1>2
  <1>6. CellAt(rs, c, r) = Content(rs[I].C[CHOOSE j \in 1..Len(rs[I].C) :
                              /\ rs[I].C[j].col = c /\ rs[I].C[j].row = r
                              /\ \A l \in 1..(j - 1) : rs[I].C[l].col # c \/ rs[I].C[l].row # r])
    BY <1>5, Zenon DEF CellAt
  <1> HIDE DEF I
  <1>7. CellAt(rs, c, r) = Content(C[K])
    BY <1>3, <1>6
  <1> QED
    BY <1>4, <1>7

\* and nothing where there is none
LEMMA ReadNone ==
  ASSUME NEW rs \in Seq(Row), Sparse(rs), NEW c, NEW r, Absent(rs, c, r)
  PROVE  CellAt(rs, c, r) = BlankContent
  <1>1. \A j \in 1..Len(rs) : ~Named(rs[j], c, r)
    BY DEF Absent, Named, IsCell
  <1> QED
    BY <1>1 DEF CellAt

LEMMA ReadAttr ==
  ASSUME NEW rs \in Seq(Row), Sparse(rs), NEW i \in 1..Len(rs)
  PROVE  RowAttrAt(rs, rs[i].R) = rs[i].attr
  <1>1. \A j \in 1..Len(rs) : rs[j].R = rs[i].R => j = i
    BY SparseFacts
  <1>2. FirstRowAt(rs, rs[i].R) = i
    <2>1. i <= i
      BY SparseFacts
    <2> QED
      BY <1>1, <2>1 DEF FirstRowAt
  <1>3. HasRow(rs, rs[i].R)
    BY DEF HasRow
  <1> QED
    BY <1>2, <1>3 DEF RowAttrAt

LEMMA ReadNoAttr ==
  ASSUME NEW rs, NEW r, \A i \in 1..Len(rs) : rs[i].R # r
  PROVE  RowAttrAt(rs, r) = 0
  BY DEF RowAttrAt, HasRow

-----------------------------------------------------------------------------
(* Reading by position, which is the same in a contiguous store.           *)

HasAt(rs, c, r) == r \in 1..Len(rs) /\ c \in 1..Len(rs[r].C)
At(rs, c, r) == IF HasAt(rs, c, r) THEN Content(rs[r].C[c]) ELSE BlankContent
AttrOf(rs, r) == IF r \in 1..Len(rs) THEN rs[r].attr ELSE 0

\* what is used of a contiguous store
LEMMA GoodFacts ==
  ASSUME NEW rs, Good(rs)
  PROVE  /\ rs \in Seq(Row) /\ Len(rs) \in Nat
         /\ \A i \in 1..Len(rs) : /\ rs[i] \in Row /\ rs[i].R = i /\ i \in Nat
                                  /\ rs[i].C \in Seq(Cell) /\ Len(rs[i].C) \in Nat
         /\ \A i \in 1..Len(rs) : \A k \in 1..Len(rs[i].C) :
              rs[i].C[k] \in Cell /\ rs[i].C[k].col = k /\ rs[i].C[k].row = i
  BY DEF Good, RowGood, CellsGood

LEMMA GoodSparse ==
  ASSUME NEW rs, Good(rs)
  PROVE  rs \in Seq(Row) /\ Sparse(rs)
  <1>0. rs \in Seq(Row) /\ Len(rs) \in Nat
    BY GoodFacts
  <1>1. \A i \in 1..Len(rs) : rs[i].R = i /\ Len(rs[i].C) \in Nat
    BY GoodFacts
  <1>3. \A i \in 1..Len(rs) : \A k \in 1..Len(rs[i].C) : rs[i].C[k].col = k /\ rs[i].C[k].row = i
    BY GoodFacts
  <1>2. \A i \in 1..Len(rs) : CellsAscending(rs[i].C)
    BY <1>1, <1>3 DEF CellsAscending
  <1> QED
    BY <1>0, <1>1, <1>2, <1>3 DEF Sparse

\* reading by name is reading by position
LEMMA GoodRead ==
  ASSUME NEW rs, Good(rs), NEW c, NEW r
  PROVE  CellAt(rs, c, r) = At(rs, c, r) /\ RowAttrAt(rs, r) = AttrOf(rs, r)
  <1>0. rs \in Seq(Row) /\ Sparse(rs)
    BY GoodSparse
  <1>1. ASSUME HasAt(rs, c, r) PROVE CellAt(rs, c, r) = At(rs, c, r)
    <2>1. IsCell(rs, r, c) /\ rs[r].R = r /\ rs[r].C[c].col = c
      BY <1>1, GoodFacts DEF HasAt, IsCell
    <2>2. CellAt(rs, rs[r].C[c].col, rs[r].R) = Content(rs[r].C[c])
      BY <1>0, <2>1, ReadCell
    <2> QED
      BY <1>1, <2>1, <2>2 DEF At
  <1>2. ASSUME ~HasAt(rs, c, r) PROVE CellAt(rs, c, r) = At(rs, c, r)
    <2>1. Absent(rs, c, r)
      BY <1>2, GoodFacts DEF HasAt, IsCell, Absent
    <2> QED
      BY <1>0, <1>2, <2>1, ReadNone DEF At
  <1>3. ASSUME r \in 1..Len(rs) PROVE RowAttrAt(rs, r) = AttrOf(rs, r)
    <2>1. rs[r].R = r
      BY <1>3, GoodFacts
    <2>2. RowAttrAt(rs, rs[r].R) = rs[r].attr
      BY <1>0, <1>3, ReadAttr
    <2> QED
      BY <1>3, <2>1, <2>2 DEF AttrOf
  <1>4. ASSUME ~(r \in 1..Len(rs)) PROVE RowAttrAt(rs, r) = AttrOf(rs, r)
    <2>1. \A i \in 1..Len(rs) : rs[i].R # r
      BY <1>4, GoodFacts
    <2> QED
      BY <1>4, <2>1, ReadNoAttr DEF AttrOf
  <1>5. CellAt(rs, c, r) = At(rs, c, r)
    BY <1>1, <1>2
  <1>6. RowAttrAt(rs, r) = AttrOf(rs, r)
    BY <1>3, <1>4
  <1> QED
    BY <1>5, <1>6

\* a contiguous store lies on the sheet when its lists are short enough
LEMMA GoodWithin ==
  ASSUME NEW rs, Good(rs)
  PROVE  Within(rs) <=> /\ Len(rs) <= MaxRow
                        /\ \A i \in 1..Len(rs) : Len(rs[i].C) <= MaxCol
  <1>0. /\ Len(rs) \in Nat
        /\ \A i \in 1..Len(rs) : rs[i].R = i /\ Len(rs[i].C) \in Nat
        /\ \A i \in 1..Len(rs) : \A k \in 1..Len(rs[i].C) : rs[i].C[k].col = k
    BY GoodFacts
  <1>m. MaxRow \in Nat /\ MaxCol \in Nat
    BY GridAssumption DEF Coordinate
  <1>1. ASSUME Within(rs) PROVE Len(rs) <= MaxRow
    <2>1. CASE Len(rs) = 0
      BY <1>m, <2>1
    <2>2. CASE Len(rs) # 0
      <3>1. Len(rs) \in 1..Len(rs)
        BY <1>0, <2>2
      <3> QED
        BY <1>0, <1>1, <3>1 DEF Within
    <2> QED
      BY <2>1, <2>2
  <1>2. ASSUME Within(rs), NEW i \in 1..Len(rs) PROVE Len(rs[i].C) <= MaxCol
    <2>1. CASE Len(rs[i].C) = 0
      BY <1>m, <2>1
    <2>2. CASE Len(rs[i].C) # 0
      <3>1. Len(rs[i].C) \in 1..Len(rs[i].C)
        BY <1>0, <2>2
      <3> QED
        BY <1>0, <1>2, <3>1 DEF Within
    <2> QED
      BY <2>1, <2>2
  <1>3. ASSUME Len(rs) <= MaxRow, \A i \in 1..Len(rs) : Len(rs[i].C) <= MaxCol
        PROVE  Within(rs)
    <2>1. \A i \in 1..Len(rs) : rs[i].R <= MaxRow
      BY <1>0, <1>m, <1>3
    <2>2. \A i \in 1..Len(rs) : \A k \in 1..Len(rs[i].C) : rs[i].C[k].col <= MaxCol
      BY <1>0, <1>m, <1>3
    <2> QED
      BY <2>1, <2>2 DEF Within
  <1> QED
    BY <1>1, <1>2, <1>3

-----------------------------------------------------------------------------
(* What each operator does to the cells, read by position, and that it     *)
(* stays on the sheet.                                                     *)

CellIn(C, c) == IF c \in 1..Len(C) THEN Content(C[c]) ELSE BlankContent
CellsOf(rs, r) == IF r \in 1..Len(rs) THEN rs[r].C ELSE << >>

LEMMA AtIs ==
  ASSUME NEW rs, NEW c, NEW r
  PROVE  At(rs, c, r) = CellIn(CellsOf(rs, r), c)
  <1>1. CASE r \in 1..Len(rs)
    BY <1>1 DEF At, HasAt, CellIn, CellsOf
  <1>2. CASE ~(r \in 1..Len(rs))
    <2>1. ~(c \in 1..Len(<< >>))
      OBVIOUS
    <2> QED
      BY <1>2, <2>1 DEF At, HasAt, CellIn, CellsOf
  <1> QED
    BY <1>1, <1>2

\* a contiguous store on the sheet
Short(rs) == /\ Len(rs) <= MaxRow
             /\ \A i \in 1..Len(rs) : Len(rs[i].C) <= MaxCol
Fits(rs) == Good(rs) /\ Short(rs)

\* the same cells and row attributes
SameCells(rs, t) == \A c, r : At(t, c, r) = At(rs, c, r)
SameAttrs(rs, t) == \A r : AttrOf(t, r) = AttrOf(rs, r)

\* a new cell and a new row read as none
LEMMA NewReads ==
  /\ \A k, i : Content(NewCell(k, i)) = BlankContent
  /\ \A i : NewRow(i).C = << >> /\ NewRow(i).attr = 0
  BY DEF Content, NewCell, BlankContent, NewRow

\* fillColumns adds cells that read as none
LEMMA FillColumnsIs ==
  ASSUME NEW C \in Seq(Cell), NEW col \in Nat, NEW row
  PROVE  /\ \A c : CellIn(FillColumns(C, col, row), c) = CellIn(C, c)
         /\ Len(FillColumns(C, col, row)) = IF Len(C) < col THEN col ELSE Len(C)
  <1>0. Len(C) \in Nat
    OBVIOUS
  <1>1. CASE Len(C) < col
    <2> DEFINE D == FillColumns(C, col, row)
    <2>1. D = [k \in 1..col |-> IF k <= Len(C) THEN C[k] ELSE NewCell(k, row)]
      BY <1>1 DEF FillColumns
    <2>2. Len(D) = col /\ \A k \in 1..col : D[k] = IF k <= Len(C) THEN C[k] ELSE NewCell(k, row)
      BY <2>1
    <2> HIDE DEF D
    <2>3. ASSUME NEW c PROVE CellIn(D, c) = CellIn(C, c)
      <3>1. CASE c \in 1..Len(C)
        <4>1. c \in 1..col /\ c <= Len(C)
          BY <1>0, <1>1, <3>1
        <4>2. D[c] = C[c]
          BY <2>2, <4>1
        <4> QED
          BY <2>2, <3>1, <4>1, <4>2 DEF CellIn
      <3>2. CASE c \in 1..col /\ ~(c \in 1..Len(C))
        <4>1. ~(c <= Len(C))
          BY <1>0, <3>2
        <4>2. D[c] = NewCell(c, row)
          BY <2>2, <3>2, <4>1
        <4> QED
          BY <2>2, <3>2, <4>2, NewReads DEF CellIn
      <3>3. CASE ~(c \in 1..col) /\ ~(c \in 1..Len(C))
        BY <2>2, <3>3 DEF CellIn
      <3> QED
        BY <3>1, <3>2, <3>3
    <2> QED
      BY <1>1, <2>2, <2>3 DEF D
  <1>2. CASE ~(Len(C) < col)
    BY <1>2 DEF FillColumns
  <1> QED
    BY <1>1, <1>2

\* prepareSheetXML adds cells and rows that read as none, as far as asked for
LEMMA PrepareIs ==
  ASSUME NEW rs, Good(rs), NEW row \in Coordinate, NEW col \in Nat,
         NEW p, p = PrepareSheetXML(rs, col, row)
  PROVE  /\ Good(p) /\ row \in 1..Len(p) /\ Len(p[row].C) >= col
         /\ SameCells(rs, p) /\ SameAttrs(rs, p)
         /\ Short(rs) /\ row <= MaxRow /\ col <= MaxCol => Short(p)
  <1> DEFINE full == FillRows(rs, row)
             cells == FillColumns(full[row].C, col, row)
             n == Len(rs)
             m == Len(full)
  <1>0. n \in Nat /\ row \in Nat /\ row >= 1
    BY GoodFacts DEF Coordinate
  <1>1. Good(full) /\ row \in 1..m /\ m \in Nat
    BY FillRowsGood, GoodFacts
  <1>2. /\ m = IF n < row THEN row ELSE n
        /\ \A i \in 1..m : full[i] = IF i <= n THEN rs[i] ELSE NewRow(i)
    <2>1. CASE n < row
      <3>1. full = [i \in 1..row |-> IF i <= n THEN rs[i] ELSE NewRow(i)]
        BY <2>1 DEF FillRows
      <3> HIDE DEF full, n
      <3> QED
        BY <1>0, <2>1, <3>1
    <2>2. CASE ~(n < row)
      <3>1. full = rs
        BY <2>2 DEF FillRows
      <3> HIDE DEF full
      <3> QED
        BY <1>0, <2>2, <3>1
    <2> QED
      BY <2>1, <2>2
  <1> HIDE DEF full
  <1>3. full[row].C \in Seq(Cell) /\ full[row] \in Row
    BY <1>1, GoodFacts
  <1>4. /\ \A c : CellIn(cells, c) = CellIn(full[row].C, c)
        /\ Len(cells) = IF Len(full[row].C) < col THEN col ELSE Len(full[row].C)
    BY <1>3, FillColumnsIs
  <1> HIDE DEF cells
  <1>5. p = [full EXCEPT ![row] = [full[row] EXCEPT !.C = cells]]
    BY DEF PrepareSheetXML, full, cells
  <1>6. /\ Len(p) = m /\ \A i \in 1..m : i # row => p[i] = full[i]
        /\ p[row].C = cells /\ p[row].attr = full[row].attr
    BY <1>1, <1>3, <1>5, GoodFacts DEF Row
  <1>7. Good(p) /\ row \in 1..Len(p) /\ Len(p[row].C) >= col
    BY PrepareGood
  <1>8. \A r : AttrOf(p, r) = AttrOf(rs, r)
    <2> TAKE r
    <2>1. CASE r \in 1..n
      <3>1. r \in 1..m /\ r <= n
        BY <1>0, <1>2, <2>1
      <3> QED
        BY <1>2, <1>6, <2>1, <3>1 DEF AttrOf
    <2>2. CASE r \in 1..m /\ ~(r \in 1..n)
      <3>1. ~(r <= n)
        BY <1>0, <1>1, <2>2
      <3> QED
        BY <1>2, <1>6, <2>2, <3>1, NewReads DEF AttrOf
    <2>3. CASE ~(r \in 1..m) /\ ~(r \in 1..n)
      BY <1>6, <2>3 DEF AttrOf
    <2> QED
      BY <2>1, <2>2, <2>3
  <1>9. \A c, r : CellIn(CellsOf(p, r), c) = CellIn(CellsOf(full, r), c)
    BY <1>1, <1>4, <1>6 DEF CellsOf
  <1>10. \A r : CellsOf(full, r) = CellsOf(rs, r)
    <2> TAKE r
    <2>1. CASE r \in 1..n
      <3>1. r \in 1..m /\ r <= n
        BY <1>0, <1>2, <2>1
      <3> QED
        BY <1>2, <2>1, <3>1 DEF CellsOf
    <2>2. CASE r \in 1..m /\ ~(r \in 1..n)
      <3>1. ~(r <= n)
        BY <1>0, <1>1, <2>2
      <3> QED
        BY <1>2, <2>2, <3>1, NewReads DEF CellsOf
    <2>3. CASE ~(r \in 1..m) /\ ~(r \in 1..n)
      BY <2>3 DEF CellsOf
    <2> QED
      BY <2>1, <2>2, <2>3
  <1>11. ASSUME Short(rs), row <= MaxRow, col <= MaxCol PROVE Short(p)
    <2>m. MaxRow \in Nat /\ MaxCol \in Nat
      BY GridAssumption DEF Coordinate
    <2>1. m <= MaxRow
      BY <1>2, <1>11 DEF Short
    <2>2. \A i \in 1..m : Len(full[i].C) <= MaxCol
      <3> TAKE i \in 1..m
      <3>1. CASE i <= n
        <4>1. i \in 1..n
          BY <1>0, <1>1, <3>1
        <4> QED
          BY <1>2, <1>11, <3>1, <4>1 DEF Short
      <3>2. CASE ~(i <= n)
        <4>1. full[i].C = << >>
          BY <1>2, <3>2, NewReads
        <4> QED
          BY <4>1, <2>m
      <3> QED
        BY <3>1, <3>2
    <2>3. Len(cells) <= MaxCol
      BY <1>1, <1>4, <1>11, <2>2
    <2> QED
      BY <1>6, <2>1, <2>2, <2>3 DEF Short
  <1>12. SameCells(rs, p) /\ SameAttrs(rs, p)
    BY <1>8, <1>9, <1>10, AtIs DEF SameCells, SameAttrs
  <1> QED
    BY <1>7, <1>11, <1>12

\* t reads as rs but for one cell
Puts(rs, t, col, row, x) ==
  \A c, r : At(t, c, r) = IF c = col /\ r = row THEN x ELSE At(rs, c, r)

IsCellPut(q, p, col, row, d) == q = [p EXCEPT ![row].C[col] = d]

\* rewriting one cell in place
LEMMA CellPutIs ==
  ASSUME NEW p, Good(p), NEW row \in 1..Len(p), NEW col \in 1..Len(p[row].C),
         NEW d \in Cell, d.col = col, d.row = row, NEW q, IsCellPut(q, p, col, row, d)
  PROVE  /\ Good(q) /\ (Short(p) => Short(q)) /\ Puts(p, q, col, row, Content(d)) /\ SameAttrs(p, q)
         /\ HasAt(q, col, row) /\ q[row].C[col] = d
  <1> DEFINE C == p[row].C
             D == [C EXCEPT ![col] = d]
  <1>0. q = [p EXCEPT ![row].C[col] = d]
    BY DEF IsCellPut
  <1>1. Good(q)
    BY <1>0, CellExcept
  <1>2. p \in Seq(Row) /\ Len(p) \in Nat /\ p[row] \in Row /\ C \in Seq(Cell) /\ Len(C) \in Nat
    BY GoodFacts
  <1>3. q = [p EXCEPT ![row] = [p[row] EXCEPT !.C = D]]
    BY <1>0
  <1>4. Len(D) = Len(C) /\ D[col] = d /\ \A c \in 1..Len(C) : c # col => D[c] = C[c]
    BY <1>2
  <1> HIDE DEF D
  <1>5. /\ Len(q) = Len(p) /\ q[row].C = D /\ q[row].attr = p[row].attr
        /\ \A r \in 1..Len(p) : r # row => q[r] = p[r]
    BY <1>2, <1>3 DEF Row
  <1>6. \A r : AttrOf(q, r) = AttrOf(p, r)
    BY <1>5 DEF AttrOf
  <1>7. \A c : CellIn(D, c) = IF c = col THEN Content(d) ELSE CellIn(C, c)
    BY <1>2, <1>4 DEF CellIn
  <1>8. \A r : CellsOf(q, r) = IF r = row THEN D ELSE CellsOf(p, r)
    BY <1>5 DEF CellsOf
  <1>9. \A c, r : CellIn(CellsOf(q, r), c) = IF c = col /\ r = row THEN Content(d) ELSE CellIn(CellsOf(p, r), c)
    <2> TAKE c, r
    <2>1. CASE r = row
      <3>1. CellsOf(p, r) = C /\ CellsOf(q, r) = D
        BY <1>8, <2>1 DEF CellsOf
      <3> QED
        BY <1>7, <2>1, <3>1
    <2>2. CASE r # row
      BY <1>8, <2>2
    <2> QED
      BY <2>1, <2>2
  <1>10. Short(p) => Short(q)
    BY <1>4, <1>5 DEF Short
  <1>11. HasAt(q, col, row) /\ q[row].C[col] = d
    BY <1>4, <1>5 DEF HasAt
  <1> QED
    BY <1>1, <1>6, <1>9, <1>10, <1>11, AtIs DEF Puts, SameAttrs

\* the fields of what is read
LEMMA ContentIs ==
  ASSUME NEW c \in Cell
  PROVE  /\ Content(c).t = c.t /\ Content(c).v = c.v /\ Content(c).s = c.s /\ Content(c).f = c.f
         /\ c.t \in CellTypes /\ c.v \in CellValues /\ c.s \in StyleIds /\ c.f \in BOOLEAN
  BY DEF Content, Cell

Valued(x, ty, v, cs) == [t |-> ty, v |-> v, s |-> CellStyle(x.s, cs), f |-> x.f]

\* what was there before, in the store made ready for writing
LEMMA ReadyCell ==
  ASSUME NEW rs, Good(rs), NEW row \in Coordinate, NEW col \in Coordinate,
         NEW p, p = PrepareSheetXML(rs, col, row)
  PROVE  /\ Good(p) /\ row \in 1..Len(p) /\ col \in 1..Len(p[row].C)
         /\ p[row].C[col] \in Cell /\ p[row].C[col].col = col /\ p[row].C[col].row = row
         /\ Content(p[row].C[col]) = At(rs, col, row)
         /\ SameCells(rs, p) /\ SameAttrs(rs, p)
         /\ Short(rs) /\ row <= MaxRow /\ col <= MaxCol => Short(p)
  <1>1. /\ Good(p) /\ row \in 1..Len(p) /\ col \in 1..Len(p[row].C)
        /\ p[row].C[col] \in Cell /\ p[row].C[col].col = col /\ p[row].C[col].row = row
    <2> DEFINE x == PrepareSheetXML(rs, col, row)
    <2>1. /\ Good(x) /\ row \in 1..Len(x) /\ col \in 1..Len(x[row].C)
          /\ x[row].C[col] \in Cell /\ x[row].C[col].col = col /\ x[row].C[col].row = row
      BY ONLY Good(rs), row \in Coordinate, col \in Coordinate, PreparedCell
    <2>2. x = p
      OBVIOUS
    <2> HIDE DEF x
    <2> QED
      BY ONLY <2>1, <2>2
  <1>2. /\ SameCells(rs, p) /\ SameAttrs(rs, p)
        /\ Short(rs) /\ row <= MaxRow /\ col <= MaxCol => Short(p)
    BY PrepareIs DEF Coordinate
  <1>3. At(p, col, row) = Content(p[row].C[col])
    BY <1>1 DEF At, HasAt
  <1> QED
    BY <1>1, <1>2, <1>3 DEF SameCells

LEMMA WriteCellIs ==
  ASSUME NEW rs, Good(rs), NEW row \in Coordinate, NEW col \in Coordinate,
         NEW ty \in CellTypes, NEW v \in CellValues, NEW cs \in StyleIds,
         NEW t, t = WriteCell(rs, col, row, ty, v, cs)
  PROVE  /\ Good(t) /\ Puts(rs, t, col, row, Valued(At(rs, col, row), ty, v, cs)) /\ SameAttrs(rs, t)
         /\ Short(rs) /\ row <= MaxRow /\ col <= MaxCol => Short(t)
         /\ t[row].C[col].s = CellStyle(At(rs, col, row).s, cs)
  <1> DEFINE p == PrepareSheetXML(rs, col, row)
             c == p[row].C[col]
             d == ValuedCell(c, ty, v, cs)
  <1>1. /\ Good(p) /\ row \in 1..Len(p) /\ col \in 1..Len(p[row].C)
        /\ c \in Cell /\ c.col = col /\ c.row = row /\ Content(c) = At(rs, col, row)
        /\ SameCells(rs, p) /\ SameAttrs(rs, p)
        /\ Short(rs) /\ row <= MaxRow /\ col <= MaxCol => Short(p)
    BY ReadyCell
  <1>2. IsCellPut(t, p, col, row, d)
    BY DEF WriteCell, IsCellPut
  <1> HIDE DEF p
  <1>3. CellStyle(c.s, cs) \in StyleIds /\ CellStyle(c.s, cs) = CellStyle(At(rs, col, row).s, cs)
    BY <1>1, ContentIs DEF Cell, CellStyle
  <1>4. d \in Cell /\ d.col = col /\ d.row = row /\ d.s = CellStyle(c.s, cs)
        /\ Content(d) = [t |-> ty, v |-> v, s |-> CellStyle(c.s, cs), f |-> c.f]
    BY <1>1, <1>3 DEF Cell, ValuedCell, Content
  <1> HIDE DEF d
  <1>5. /\ Good(t) /\ (Short(p) => Short(t)) /\ Puts(p, t, col, row, Content(d)) /\ SameAttrs(p, t)
        /\ t[row].C[col] = d
    <2>1. Good(p) /\ row \in 1..Len(p) /\ col \in 1..Len(p[row].C)
      BY ONLY <1>1
    <2>2. d \in Cell /\ d.col = col /\ d.row = row
      BY ONLY <1>4
    <2> QED
      BY ONLY <1>2, <2>1, <2>2, CellPutIs
  <1>6. Content(d) = Valued(At(rs, col, row), ty, v, cs)
    BY <1>1, <1>3, <1>4, ContentIs DEF Valued
  <1>7. Puts(rs, t, col, row, Content(d)) /\ SameAttrs(rs, t)
    BY <1>1, <1>5 DEF Puts, SameCells, SameAttrs
  <1> QED
    BY <1>1, <1>3, <1>4, <1>5, <1>6, <1>7

Formed(x, present) == [t |-> x.t, v |-> x.v, s |-> x.s, f |-> present]

LEMMA WriteFormulaIs ==
  ASSUME NEW rs, Good(rs), NEW row \in Coordinate, NEW col \in Coordinate,
         NEW present \in BOOLEAN, NEW t, t = WriteFormula(rs, col, row, present)
  PROVE  /\ Good(t) /\ Puts(rs, t, col, row, Formed(At(rs, col, row), present)) /\ SameAttrs(rs, t)
         /\ Short(rs) /\ row <= MaxRow /\ col <= MaxCol => Short(t)
  <1> DEFINE p == PrepareSheetXML(rs, col, row)
             c == p[row].C[col]
             d == [c EXCEPT !.f = present]
  <1>1. /\ Good(p) /\ row \in 1..Len(p) /\ col \in 1..Len(p[row].C)
        /\ c \in Cell /\ c.col = col /\ c.row = row /\ Content(c) = At(rs, col, row)
        /\ SameCells(rs, p) /\ SameAttrs(rs, p)
        /\ Short(rs) /\ row <= MaxRow /\ col <= MaxCol => Short(p)
    BY ReadyCell
  <1>2. IsCellPut(t, p, col, row, d)
    BY DEF WriteFormula, IsCellPut
  <1> HIDE DEF p
  <1>4. d \in Cell /\ d.col = col /\ d.row = row
        /\ Content(d) = [t |-> c.t, v |-> c.v, s |-> c.s, f |-> present]
    BY <1>1 DEF Cell, Content
  <1> HIDE DEF d
  <1>5. /\ Good(t) /\ (Short(p) => Short(t)) /\ Puts(p, t, col, row, Content(d)) /\ SameAttrs(p, t)
    BY ONLY <1>1, <1>2, <1>4, CellPutIs, Zenon
  <1>6. Content(d) = Formed(At(rs, col, row), present)
    BY <1>1, <1>4, ContentIs DEF Formed
  <1>7. Puts(rs, t, col, row, Content(d)) /\ SameAttrs(rs, t)
    BY <1>1, <1>5 DEF Puts, SameCells, SameAttrs
  <1> QED
    BY <1>1, <1>5, <1>6, <1>7

LEMMA WriteRowAttrIs ==
  ASSUME NEW rs, Good(rs), NEW row \in Coordinate, NEW a \in RowAttrs,
         NEW t, t = WriteRowAttr(rs, row, a)
  PROVE  /\ Good(t) /\ SameCells(rs, t)
         /\ \A r : AttrOf(t, r) = IF r = row THEN a ELSE AttrOf(rs, r)
         /\ Short(rs) /\ row <= MaxRow => Short(t)
  <1> DEFINE p == PrepareSheetXML(rs, 0, row)
             x == [p[row] EXCEPT !.attr = a]
  <1>0. 0 \in Nat /\ 0 <= MaxCol
    BY GridAssumption DEF Coordinate
  <1>1. /\ Good(p) /\ row \in 1..Len(p) /\ SameCells(rs, p) /\ SameAttrs(rs, p)
        /\ Short(rs) /\ row <= MaxRow => Short(p)
    BY <1>0, PrepareIs
  <1>2. t = [p EXCEPT ![row] = x]
    BY DEF WriteRowAttr
  <1>3. Good(t)
    BY WriteRowAttrGood
  <1> HIDE DEF p
  <1>4. p \in Seq(Row) /\ p[row] \in Row
    BY <1>1, GoodFacts
  <1>5. x.C = p[row].C /\ x.attr = a
    BY <1>4 DEF Row
  <1> HIDE DEF x
  <1>6. /\ Len(t) = Len(p) /\ t[row] = x /\ \A r \in 1..Len(p) : r # row => t[r] = p[r]
    BY <1>1, <1>2, <1>4
  <1>7. \A r : AttrOf(t, r) = IF r = row THEN a ELSE AttrOf(p, r)
    BY <1>1, <1>5, <1>6 DEF AttrOf
  <1>8. \A r : CellsOf(t, r) = CellsOf(p, r)
    BY <1>5, <1>6 DEF CellsOf
  <1>9. Short(p) => Short(t)
    BY <1>5, <1>6 DEF Short
  <1>10. SameCells(p, t)
    BY <1>8, AtIs DEF SameCells
  <1> QED
    BY <1>1, <1>3, <1>7, <1>9, <1>10 DEF SameCells, SameAttrs

\* makeContiguousColumns adds cells that read as none
LEMMA MakeContiguousIs ==
  ASSUME NEW rs, Good(rs), NEW from \in Nat, NEW to \in Nat, NEW n \in Nat,
         NEW t, t = MakeContiguousColumns(rs, from, to, n)
  PROVE  /\ Good(t) /\ Len(t) = Len(rs) /\ SameCells(rs, t) /\ SameAttrs(rs, t)
         /\ \A i \in 1..Len(rs) : Len(t[i].C) >= Len(rs[i].C)
         /\ \A i \in 1..Len(rs) : from <= i /\ i < to => Len(t[i].C) >= n
         /\ Short(rs) /\ n <= MaxCol => Short(t)
  <1>1. Good(t) /\ Len(t) = Len(rs) /\ Len(rs) \in Nat
    BY MakeContiguousGood, GoodFacts
  <1>2. ASSUME NEW i \in 1..Len(rs)
        PROVE  /\ t[i].attr = rs[i].attr /\ \A c : CellIn(t[i].C, c) = CellIn(rs[i].C, c)
               /\ \/ from <= i /\ i < to /\ Len(t[i].C) = IF Len(rs[i].C) < n THEN n ELSE Len(rs[i].C)
                  \/ ~(from <= i /\ i < to) /\ t[i] = rs[i]
    <2> DEFINE D == FillColumns(rs[i].C, n, i)
    <2>1. rs[i] \in Row /\ rs[i].C \in Seq(Cell)
      BY GoodFacts
    <2>2. /\ \A c : CellIn(D, c) = CellIn(rs[i].C, c)
          /\ Len(D) = IF Len(rs[i].C) < n THEN n ELSE Len(rs[i].C)
      BY <2>1, FillColumnsIs
    <2>3. t[i] = IF from <= i /\ i < to THEN [rs[i] EXCEPT !.C = D] ELSE rs[i]
      BY DEF MakeContiguousColumns
    <2> HIDE DEF D
    <2>4. LET x == [rs[i] EXCEPT !.C = D] IN x.C = D /\ x.attr = rs[i].attr
      BY <2>1 DEF Row
    <2> QED
      BY <2>2, <2>3, <2>4
  <1>3. \A i \in 1..Len(rs) : Len(rs[i].C) \in Nat
    BY GoodFacts
  <1>4. \A i \in 1..Len(rs) : Len(t[i].C) >= Len(rs[i].C)
    BY <1>2, <1>3
  <1>5. \A i \in 1..Len(rs) : from <= i /\ i < to => Len(t[i].C) >= n
    BY <1>2, <1>3
  <1>6. Short(rs) /\ n <= MaxCol => Short(t)
    BY <1>1, <1>2, <1>3 DEF Short
  <1>7. \A r : AttrOf(t, r) = AttrOf(rs, r)
    BY <1>1, <1>2 DEF AttrOf
  <1>8. \A c, r : CellIn(CellsOf(t, r), c) = CellIn(CellsOf(rs, r), c)
    BY <1>1, <1>2 DEF CellsOf
  <1> QED
    BY <1>1, <1>4, <1>5, <1>6, <1>7, <1>8, AtIs DEF SameCells, SameAttrs

Styled(x, st) == [t |-> x.t, v |-> x.v, s |-> st, f |-> x.f]

\* a rectangle of styles
Styles(rs, t, hcol, hrow, vcol, vrow, st) ==
  \A c, r \in Nat : At(t, c, r) = IF hcol <= c /\ c <= vcol /\ hrow <= r /\ r <= vrow
                                  THEN Styled(At(rs, c, r), st) ELSE At(rs, c, r)

LEMMA WriteStyleIs ==
  ASSUME NEW rs, Good(rs), NEW hcol \in Coordinate, NEW hrow \in Coordinate,
         NEW vcol \in Coordinate, NEW vrow \in Coordinate, NEW st \in StyleIds,
         NEW t, t = WriteStyle(rs, hcol, hrow, vcol, vrow, st)
  PROVE  /\ Good(t) /\ SameAttrs(rs, t) /\ Styles(rs, t, hcol, hrow, vcol, vrow, st)
         /\ Short(rs) /\ vrow <= MaxRow /\ vcol <= MaxCol => Short(t)
  <1> DEFINE p == PrepareSheetXML(rs, vcol, vrow)
             ready == MakeContiguousColumns(p, hrow, vrow, vcol)
             n == Len(ready)
             D(i) == [k \in 1..Len(ready[i].C) |->
                        IF hcol <= k /\ k <= vcol
                        THEN [ready[i].C[k] EXCEPT !.s = st]
                        ELSE ready[i].C[k]]
  <1>0. hcol \in Nat /\ hrow \in Nat /\ vcol \in Nat /\ vrow \in Nat /\ hcol >= 1 /\ hrow >= 1
    BY DEF Coordinate
  <1>1. /\ Good(p) /\ vrow \in 1..Len(p) /\ Len(p[vrow].C) >= vcol
        /\ SameCells(rs, p) /\ SameAttrs(rs, p)
        /\ Short(rs) /\ vrow <= MaxRow /\ vcol <= MaxCol => Short(p)
    BY <1>0, PrepareIs
  <1>w. t = [i \in 1..n |->
               IF hrow <= i /\ i <= vrow THEN [ready[i] EXCEPT !.C = D(i)] ELSE ready[i]]
    BY DEF WriteStyle
  <1> HIDE DEF p
  <1>2. /\ Good(ready) /\ n = Len(p) /\ SameCells(p, ready) /\ SameAttrs(p, ready)
        /\ \A i \in 1..Len(p) : Len(ready[i].C) >= Len(p[i].C)
        /\ \A i \in 1..Len(p) : hrow <= i /\ i < vrow => Len(ready[i].C) >= vcol
        /\ Short(p) /\ vcol <= MaxCol => Short(ready)
    BY <1>0, <1>1, MakeContiguousIs
  <1> HIDE DEF ready
  <1>3. Good(t)
    BY WriteStyleGood
  <1>4. /\ n \in Nat
        /\ \A i \in 1..n : ready[i] \in Row /\ ready[i].C \in Seq(Cell) /\ Len(ready[i].C) \in Nat
        /\ \A i \in 1..n : \A k \in 1..Len(ready[i].C) : ready[i].C[k] \in Cell
    BY <1>2, GoodFacts
  <1>5. \A i \in 1..n : hrow <= i /\ i <= vrow => Len(ready[i].C) >= vcol
    <2> TAKE i \in 1..n
    <2> HAVE hrow <= i /\ i <= vrow
    <2>1. CASE i = vrow
      <3>1. Len(ready[i].C) >= Len(p[i].C) /\ Len(p[i].C) >= vcol
        BY <1>1, <1>2, <2>1
      <3>2. Len(p[i].C) \in Nat
        BY <1>1, <2>1, GoodFacts
      <3> QED
        BY <1>0, <1>4, <3>1, <3>2
    <2>2. CASE i # vrow
      <3>1. i < vrow
        BY <1>0, <1>4, <2>2
      <3> QED
        BY <1>2, <3>1
    <2> QED
      BY <2>1, <2>2
  <1>6. Len(t) = n /\ \A i \in 1..n : t[i] = IF hrow <= i /\ i <= vrow
                                            THEN [ready[i] EXCEPT !.C = D(i)] ELSE ready[i]
    <2> HIDE DEF D, n
    <2> QED
      BY <1>4, <1>w DEF n
  <1>7. ASSUME NEW i \in 1..n
        PROVE  /\ t[i].attr = ready[i].attr /\ Len(t[i].C) = Len(ready[i].C)
               /\ t[i].C = IF hrow <= i /\ i <= vrow THEN D(i) ELSE ready[i].C
    <2> DEFINE E == D(i)
    <2>1. Len(E) = Len(ready[i].C)
      BY <1>4
    <2>2. t[i] = IF hrow <= i /\ i <= vrow THEN [ready[i] EXCEPT !.C = E] ELSE ready[i]
      BY <1>6
    <2> HIDE DEF E
    <2>3. LET x == [ready[i] EXCEPT !.C = E] IN x.C = E /\ x.attr = ready[i].attr
      BY <1>4 DEF Row
    <2>4. /\ t[i].attr = ready[i].attr /\ Len(t[i].C) = Len(ready[i].C)
          /\ t[i].C = IF hrow <= i /\ i <= vrow THEN E ELSE ready[i].C
      BY <2>1, <2>2, <2>3
    <2> QED
      BY <2>4 DEF E
  <1>8. ASSUME NEW i \in 1..n, hrow <= i, i <= vrow, NEW c \in Nat
        PROVE  CellIn(D(i), c) = IF hcol <= c /\ c <= vcol THEN Styled(CellIn(ready[i].C, c), st)
                                 ELSE CellIn(ready[i].C, c)
    <2> DEFINE C == ready[i].C
               E == D(i)
    <2>1. C \in Seq(Cell) /\ Len(C) \in Nat /\ Len(C) >= vcol
      BY <1>4, <1>5, <1>8
    <2>2. Len(E) = Len(C) /\ \A k \in 1..Len(C) : E[k] = IF hcol <= k /\ k <= vcol
                                                         THEN [C[k] EXCEPT !.s = st] ELSE C[k]
      BY <2>1
    <2> HIDE DEF C, E
    <2>3. \A x \in Cell : Content([x EXCEPT !.s = st]) = Styled(Content(x), st)
      BY DEF Cell, Content, Styled
    <2>4. \A k \in 1..Len(C) : C[k] \in Cell
      BY <2>1
    <2>5. CASE c \in 1..Len(C)
      BY <2>2, <2>3, <2>4, <2>5 DEF CellIn, C, E
    <2>6. CASE ~(c \in 1..Len(C))
      <3>1. ~(hcol <= c /\ c <= vcol)
        BY <1>0, <2>1, <2>6
      <3> QED
        BY <2>2, <2>6, <3>1 DEF CellIn, C, E
    <2> QED
      BY <2>5, <2>6
  <1>9. \A r : AttrOf(t, r) = AttrOf(ready, r)
    BY <1>6, <1>7 DEF AttrOf
  <1>10. ASSUME NEW c \in Nat, NEW r \in Nat
         PROVE  At(t, c, r) = IF hcol <= c /\ c <= vcol /\ hrow <= r /\ r <= vrow
                              THEN Styled(At(ready, c, r), st) ELSE At(ready, c, r)
    <2> HIDE DEF D
    <2>0. At(t, c, r) = CellIn(CellsOf(t, r), c) /\ At(ready, c, r) = CellIn(CellsOf(ready, r), c)
      BY AtIs
    <2>1. CASE r \in 1..n
      <3>1. CellsOf(t, r) = t[r].C /\ CellsOf(ready, r) = ready[r].C
        BY <1>6, <2>1 DEF CellsOf
      <3>2. CASE hrow <= r /\ r <= vrow
        <4>1. CellIn(D(r), c) = IF hcol <= c /\ c <= vcol THEN Styled(CellIn(ready[r].C, c), st)
                                ELSE CellIn(ready[r].C, c)
          BY <1>8, <2>1, <3>2
        <4>2. t[r].C = D(r)
          BY <1>7, <2>1, <3>2
        <4> QED
          BY <2>0, <3>1, <3>2, <4>1, <4>2
      <3>3. CASE ~(hrow <= r /\ r <= vrow)
        BY <1>7, <2>0, <2>1, <3>1, <3>3
      <3> QED
        BY <3>2, <3>3
    <2>2. CASE ~(r \in 1..n)
      <3>1. ~(hrow <= r /\ r <= vrow)
        BY <1>0, <1>1, <1>2, <1>4, <2>2
      <3>2. CellsOf(t, r) = CellsOf(ready, r)
        BY <1>6, <2>2 DEF CellsOf
      <3> QED
        BY <2>0, <3>1, <3>2
    <2> QED
      BY <2>1, <2>2
  <1>11. Short(ready) => Short(t)
    BY <1>6, <1>7 DEF Short
  <1>12. SameCells(rs, ready) /\ SameAttrs(rs, t)
    BY <1>1, <1>2, <1>9 DEF SameCells, SameAttrs
  <1>13. Styles(rs, t, hcol, hrow, vcol, vrow, st)
    BY <1>10, <1>12 DEF SameCells, Styles
  <1> QED
    BY <1>1, <1>2, <1>3, <1>11, <1>12, <1>13

-----------------------------------------------------------------------------
(* Checking, renumbering and trimming.                                     *)

\* a set of numbers has a least one
LEMMA LeastNumber ==
  ASSUME NEW S, S \subseteq Nat, S # {}
  PROVE  \E n \in S : \A m \in S : n <= m
  <1> DEFINE R == OpToRel(<, Nat)
  <1>1. IsWellFoundedOn(R, Nat)
    BY NatLessThanWellFounded
  <1>2. \A x, y \in Nat : <<y, x>> \in R <=> y < x
    BY DEF R, OpToRel
  <1> HIDE DEF R
  <1>3. PICK x \in S : \A y \in S : ~ (<<y, x>> \in R)
    BY <1>1, WFMin
  <1>4. \A y \in S : ~(y < x)
    BY <1>2, <1>3, Zenon
  <1> QED
    BY <1>4

\* the rows of a sparse store are numbered no lower than they lie
LEMMA RowsReach ==
  ASSUME NEW rs \in Seq(Row), Sparse(rs)
  PROVE  \A k \in 1..Len(rs) : rs[k].R >= k
  <1> DEFINE n == Len(rs)
             S == {k \in 1..n : ~(rs[k].R >= k)}
  <1>1. n \in Nat /\ \A k \in 1..n : rs[k].R \in Nat /\ rs[k].R >= 1
    BY RowType
  <1>2. \A i, j \in 1..n : i < j => rs[i].R < rs[j].R
    BY DEF Sparse
  <1> HIDE DEF n
  <1>3. ASSUME S # {} PROVE FALSE
    <2>1. S \subseteq Nat
      BY <1>1
    <2>2. PICK k \in S : \A m \in S : k <= m
      <3> HIDE DEF S
      <3> QED
        BY <1>3, <2>1, LeastNumber
    <2>3. k \in 1..n /\ ~(rs[k].R >= k)
      BY <2>2
    <2>4. CASE k = 1
      BY <1>1, <2>3, <2>4
    <2>5. CASE k # 1
      <3>1. k - 1 \in 1..n /\ k - 1 < k /\ ~(k <= k - 1)
        BY <1>1, <2>3, <2>5
      <3>2. rs[k - 1].R >= k - 1
        BY <2>2, <3>1
      <3>3. rs[k - 1].R < rs[k].R
        BY <1>2, <2>3, <3>1
      <3>4. rs[k - 1].R \in Nat /\ rs[k].R \in Nat
        BY <1>1, <2>3, <3>1
      <3> QED
        BY <1>1, <2>3, <3>1, <3>2, <3>3, <3>4
    <2> QED
      BY <2>4, <2>5
  <1> QED
    BY <1>3 DEF n

\* checkSheet gives every row its place and fills the gaps with new rows
LEMMA PlacesIs ==
  ASSUME NEW rs \in Seq(Row), Sparse(rs), NEW u, u = CheckSheet(rs)
  PROVE  /\ Len(u) \in Nat
         /\ \A k \in 1..Len(rs) : rs[k].R \in 1..Len(u) /\ u[rs[k].R] = rs[k]
         /\ \A i \in 1..Len(u) : (\A k \in 1..Len(rs) : rs[k].R # i) => u[i] = NewRow(i)
         /\ Within(rs) => Len(u) <= MaxRow
  <1> DEFINE n == Len(rs)
             last == IF n >= 1 /\ rs[n].R >= n THEN rs[n].R ELSE n
  <1>0. /\ n \in Nat /\ \A k \in 1..n : rs[k].R \in Nat /\ rs[k].R <= rs[n].R
        /\ \A j, k \in 1..n : rs[j].R = rs[k].R => j = k
    BY SparseFacts
  <1>1. \A k \in 1..n : rs[k].R >= 1
    BY RowType
  <1>2. \A k \in 1..n : rs[k].R >= k
    BY RowsReach
  <1>3. u = [i \in 1..last |-> IF \E k \in 1..n : rs[k].R = i THEN rs[LastRowAt(rs, i)] ELSE NewRow(i)]
    BY DEF CheckSheet
  <1>4. last = IF n = 0 THEN 0 ELSE rs[n].R
    BY <1>0, <1>2
  <1>5. last \in Nat
    BY <1>0, <1>4
  <1>6. \A k \in 1..n : rs[k].R \in 1..last
    BY <1>0, <1>1, <1>4
  <1> HIDE DEF last, n
  <1>7. Len(u) = last
    BY <1>3, <1>5
  <1>8. ASSUME NEW k \in 1..n PROVE u[rs[k].R] = rs[k]
    <2>1. \A j \in 1..n : rs[j].R = rs[k].R => j <= k
      BY <1>0
    <2>2. LastRowAt(rs, rs[k].R) = k
      BY <1>0, <2>1 DEF LastRowAt, n
    <2>3. rs[k].R \in 1..last /\ \E j \in 1..n : rs[j].R = rs[k].R
      BY <1>6
    <2> QED
      BY <1>3, <2>2, <2>3
  <1>9. \A i \in 1..last : (\A k \in 1..n : rs[k].R # i) => u[i] = NewRow(i)
    BY <1>3
  <1>10. ASSUME Within(rs) PROVE last <= MaxRow
    <2>1. MaxRow \in Nat
      BY GridAssumption DEF Coordinate
    <2>2. CASE n = 0
      BY <1>4, <2>1, <2>2
    <2>3. CASE n # 0
      <3>1. n \in 1..Len(rs)
        BY <1>0, <2>3 DEF n
      <3> QED
        BY <1>4, <1>10, <2>3, <3>1 DEF Within
    <2> QED
      BY <2>2, <2>3
  <1> QED
    BY <1>5, <1>6, <1>7, <1>8, <1>9, <1>10 DEF n

\* checkRow gives every cell its place and fills the gaps with new cells
LEMMA CheckCellsIs ==
  ASSUME NEW i \in Coordinate, NEW C \in Seq(Cell), CellsAscending(C),
         \A k \in 1..Len(C) : C[k].row = i, NEW D, D = CheckCells(C, i)
  PROVE  /\ Len(D) \in Nat
         /\ \A k \in 1..Len(C) : C[k].col \in 1..Len(D) /\ D[C[k].col] = C[k]
         /\ \A c \in 1..Len(D) : (\A k \in 1..Len(C) : C[k].col # c) => D[c] = NewCell(c, i)
         /\ (\A k \in 1..Len(C) : C[k].col <= MaxCol) => Len(D) <= MaxCol
  <1>0. /\ Len(C) \in Nat /\ \A k \in 1..Len(C) : C[k].col \in Nat /\ C[k].col >= 1
    BY CellType
  <1>m. MaxCol \in Nat
    BY GridAssumption DEF Coordinate
  <1>1. CellsGood(D, i) /\ \A k \in 1..Len(C) : C[k].col <= C[Len(C)].col
    BY CheckCellsGood
  <1>2. CASE NeedsFill(C)
    <2> DEFINE last == C[Len(C)].col
    <2>1. Len(C) \in 1..Len(C)
      BY <1>0, <1>2 DEF NeedsFill
    <2>2. last \in Nat
      BY <1>0, <2>1
    <2>3. D = [k \in 1..last |-> IF \E j \in 1..Len(C) : C[j].col = k THEN C[LastCellAt(C, k)]
                                 ELSE NewCell(k, i)]
      BY <1>2 DEF CheckCells
    <2>4. \A k \in 1..Len(C) : C[k].col \in 1..last
      BY <1>0, <1>1, <2>2
    <2>5. ASSUME NEW k \in 1..Len(C) PROVE LastCellAt(C, C[k].col) = k
      <3>1. \A j \in 1..Len(C) : C[j].col = C[k].col => j = k
        <4> TAKE j \in 1..Len(C)
        <4> HAVE C[j].col = C[k].col
        <4>1. j <= k => C[k].col - C[j].col >= k - j
          BY DEF CellsAscending
        <4>2. k <= j => C[j].col - C[k].col >= j - k
          BY DEF CellsAscending
        <4>3. C[j].col \in Nat /\ C[k].col \in Nat /\ j \in Nat /\ k \in Nat
          BY <1>0
        <4> QED
          BY <4>1, <4>2, <4>3
      <3>2. \A j \in 1..Len(C) : C[j].col = C[k].col => j <= k
        BY <1>0, <3>1
      <3> QED
        BY <3>1, <3>2 DEF LastCellAt
    <2> HIDE DEF last
    <2>6. Len(D) = last
      BY <2>2, <2>3
    <2>7. ASSUME NEW k \in 1..Len(C) PROVE D[C[k].col] = C[k]
      <3>1. C[k].col \in 1..last /\ \E j \in 1..Len(C) : C[j].col = C[k].col
        BY <2>4
      <3> QED
        BY <2>3, <2>5, <3>1
    <2>8. \A c \in 1..last : (\A k \in 1..Len(C) : C[k].col # c) => D[c] = NewCell(c, i)
      BY <2>3
    <2>9. (\A k \in 1..Len(C) : C[k].col <= MaxCol) => last <= MaxCol
      BY <2>1 DEF last
    <2> QED
      BY <2>2, <2>4, <2>6, <2>7, <2>8, <2>9
  <1>3. CASE ~NeedsFill(C)
    <2>1. D = C
      BY <1>3 DEF CheckCells
    <2>2. \A k \in 1..Len(C) : C[k].col = k
      BY <1>1, <2>1 DEF CellsGood
    <2>3. ASSUME \A k \in 1..Len(C) : C[k].col <= MaxCol PROVE Len(C) <= MaxCol
      <3>1. CASE Len(C) = 0
        BY <1>m, <3>1
      <3>2. CASE Len(C) # 0
        <4>1. Len(C) \in 1..Len(C)
          BY <1>0, <3>2
        <4>2. C[Len(C)].col = Len(C) /\ C[Len(C)].col <= MaxCol
          BY <2>2, <2>3, <4>1
        <4> QED
          BY <4>2
      <3> QED
        BY <3>1, <3>2
    <2> QED
      BY <1>0, <2>1, <2>2, <2>3
  <1> QED
    BY <1>2, <1>3

\* t, contiguous, reads as the sparse store rs
ReadsAs(t, rs) == \A c, r : At(t, c, r) = CellAt(rs, c, r) /\ AttrOf(t, r) = RowAttrAt(rs, r)

\* checkSheet and checkRow change nothing that can be read
LEMMA CheckIs ==
  ASSUME NEW rs \in Seq(Row), Sparse(rs), NEW t, t = Check(rs)
  PROVE  Good(t) /\ ReadsAs(t, rs) /\ (Within(rs) => Short(t))
  <1> DEFINE u == CheckSheet(rs)
             n == Len(rs)
  <1>1. Good(t)
    BY CheckGood
  <1>2. /\ Len(u) \in Nat
        /\ \A k \in 1..n : rs[k].R \in 1..Len(u) /\ u[rs[k].R] = rs[k]
        /\ \A i \in 1..Len(u) : (\A k \in 1..n : rs[k].R # i) => u[i] = NewRow(i)
        /\ Within(rs) => Len(u) <= MaxRow
    BY PlacesIs
  <1>3. \A i \in 1..Len(u) : RowSparse(u[i], i)
    BY CheckSheetPlaces
  <1>4. t = CheckRow(u)
    BY DEF Check
  <1> HIDE DEF u, n
  <1>5. Len(t) = Len(u) /\ \A i \in 1..Len(u) : t[i] = [u[i] EXCEPT !.C = CheckCells(u[i].C, i)]
    BY <1>2, <1>4 DEF CheckRow
  <1>6. \A i \in 1..Len(u) : /\ t[i].attr = u[i].attr /\ t[i].C = CheckCells(u[i].C, i)
                             /\ u[i] \in Row /\ u[i].C \in Seq(Cell) /\ i \in Coordinate
    <2> TAKE i \in 1..Len(u)
    <2> DEFINE D == CheckCells(u[i].C, i)
    <2>1. u[i] \in Row /\ u[i].C \in Seq(Cell) /\ i \in Coordinate
      BY <1>2, <1>3, RowType DEF RowSparse, Coordinate
    <2>2. t[i] = [u[i] EXCEPT !.C = D]
      BY <1>5
    <2> HIDE DEF D
    <2>3. t[i].attr = u[i].attr /\ t[i].C = D
      BY <2>1, <2>2 DEF Row
    <2> QED
      BY <2>1, <2>3 DEF D
  <1>7. ASSUME NEW i \in 1..Len(u)
        PROVE  LET C == u[i].C
                   D == t[i].C
               IN  /\ Len(D) \in Nat
                   /\ \A k \in 1..Len(C) : C[k].col \in 1..Len(D) /\ D[C[k].col] = C[k]
                   /\ \A c \in 1..Len(D) : (\A k \in 1..Len(C) : C[k].col # c) => D[c] = NewCell(c, i)
                   /\ (\A k \in 1..Len(C) : C[k].col <= MaxCol) => Len(D) <= MaxCol
    <2>1. CellsAscending(u[i].C) /\ \A k \in 1..Len(u[i].C) : u[i].C[k].row = i
      BY <1>3 DEF RowSparse
    <2>2. t[i].C = CheckCells(u[i].C, i) /\ u[i].C \in Seq(Cell) /\ i \in Coordinate
      BY <1>6
    <2> QED
      BY ONLY <2>1, <2>2, CheckCellsIs
  <1>8. ASSUME NEW c, NEW r PROVE At(t, c, r) = CellAt(rs, c, r)
    <2>1. CASE \E k, j : IsCell(rs, k, j) /\ rs[k].R = r /\ rs[k].C[j].col = c
      <3>1. PICK k, j : IsCell(rs, k, j) /\ rs[k].R = r /\ rs[k].C[j].col = c
        BY <2>1
      <3>2. CellAt(rs, c, r) = Content(rs[k].C[j])
        BY <3>1, ReadCell
      <3>3. k \in 1..n /\ j \in 1..Len(rs[k].C)
        BY <3>1 DEF IsCell, n
      <3>4. r \in 1..Len(u) /\ u[r] = rs[k]
        BY <1>2, <3>1, <3>3
      <3>a. \A m \in 1..Len(u[r].C) :
              u[r].C[m].col \in 1..Len(t[r].C) /\ t[r].C[u[r].C[m].col] = u[r].C[m]
        BY <1>7, <3>4
      <3>5. c \in 1..Len(t[r].C) /\ t[r].C[c] = rs[k].C[j]
        BY ONLY <3>1, <3>3, <3>4, <3>a
      <3> QED
        BY <1>5, <3>2, <3>4, <3>5 DEF At, HasAt
    <2>2. CASE ~\E k, j : IsCell(rs, k, j) /\ rs[k].R = r /\ rs[k].C[j].col = c
      <3>1. CellAt(rs, c, r) = BlankContent
        BY <2>2, ReadNone DEF Absent
      <3>2. CASE HasAt(t, c, r)
        <4>1. r \in 1..Len(u) /\ c \in 1..Len(t[r].C)
          BY <1>5, <3>2 DEF HasAt
        <4>2. \A j \in 1..Len(u[r].C) : u[r].C[j].col # c
          <5>1. CASE \E k \in 1..n : rs[k].R = r
            <6>1. PICK k \in 1..n : rs[k].R = r
              BY <5>1
            <6>2. u[r] = rs[k]
              BY <1>2, <6>1
            <6>3. \A j \in 1..Len(rs[k].C) : rs[k].C[j].col # c
              BY <2>2, <6>1 DEF IsCell, n
            <6> QED
              BY <6>2, <6>3
          <5>2. CASE \A k \in 1..n : rs[k].R # r
            <6>1. u[r].C = << >>
              BY <1>2, <4>1, <5>2, NewReads
            <6>2. Len(<< >>) = 0
              OBVIOUS
            <6> QED
              BY <6>1, <6>2
          <5> QED
            BY <5>1, <5>2
        <4>3. t[r].C[c] = NewCell(c, r)
          BY <1>7, <4>1, <4>2
        <4> QED
          BY <3>1, <3>2, <4>3, NewReads DEF At
      <3>3. CASE ~HasAt(t, c, r)
        BY <3>1, <3>3 DEF At
      <3> QED
        BY <3>2, <3>3
    <2> QED
      BY <2>1, <2>2
  <1>9. ASSUME NEW r PROVE AttrOf(t, r) = RowAttrAt(rs, r)
    <2>1. CASE \E k \in 1..n : rs[k].R = r
      <3>1. PICK k \in 1..n : rs[k].R = r
        BY <2>1
      <3>2. RowAttrAt(rs, r) = rs[k].attr
        BY <3>1, ReadAttr DEF n
      <3>3. r \in 1..Len(u) /\ u[r] = rs[k]
        BY <1>2, <3>1
      <3> QED
        BY <1>5, <1>6, <3>2, <3>3 DEF AttrOf
    <2>2. CASE \A k \in 1..n : rs[k].R # r
      <3>1. RowAttrAt(rs, r) = 0
        BY <2>2, ReadNoAttr DEF n
      <3>2. CASE r \in 1..Len(u)
        <4>1. u[r].attr = 0
          BY <1>2, <2>2, <3>2, NewReads
        <4> QED
          BY <1>5, <1>6, <3>1, <3>2, <4>1 DEF AttrOf
      <3>3. CASE ~(r \in 1..Len(u))
        BY <1>5, <3>1, <3>3 DEF AttrOf
      <3> QED
        BY <3>2, <3>3
    <2> QED
      BY <2>1, <2>2
  <1>10. ASSUME Within(rs) PROVE Short(t)
    <2>m. MaxCol \in Nat
      BY GridAssumption DEF Coordinate
    <2>1. Len(t) <= MaxRow
      BY <1>2, <1>5, <1>10
    <2>2. ASSUME NEW i \in 1..Len(u) PROVE Len(t[i].C) <= MaxCol
      <3>1. \A k \in 1..Len(u[i].C) : u[i].C[k].col <= MaxCol
        <4>1. CASE \E k \in 1..n : rs[k].R = i
          <5>1. PICK k \in 1..n : rs[k].R = i
            BY <4>1
          <5>2. u[i] = rs[k]
            BY <1>2, <5>1
          <5> QED
            BY <1>10, <5>2 DEF Within, n
        <4>2. CASE \A k \in 1..n : rs[k].R # i
          <5>1. u[i].C = << >>
            BY <1>2, <2>2, <4>2, NewReads
          <5>2. Len(<< >>) = 0
            OBVIOUS
          <5> QED
            BY <5>1, <5>2
        <4> QED
          BY <4>1, <4>2
      <3> QED
        BY <1>7, <2>2, <3>1
    <2> QED
      BY <1>5, <2>1, <2>2 DEF Short
  <1> QED
    BY <1>1, <1>8, <1>9, <1>10 DEF ReadsAs

-----------------------------------------------------------------------------
(* What renumbering and trimming leave to read.                            *)

\* row a has the cells and the attribute of row b, under any number
CopyOf(a, b) == /\ a.attr = b.attr /\ Len(a.C) = Len(b.C)
                /\ \A k \in 1..Len(b.C) : a.C[k].col = k /\ Content(a.C[k]) = Content(b.C[k])

\* the rows of t are copies of rows of rs
Copies(t, rs, src) == \A i \in 1..Len(t) : src[i] \in 1..Len(rs) /\ CopyOf(t[i], rs[src[i]])

\* a row reads as the one it is a copy of
LEMMA CopyReads ==
  ASSUME NEW rs, Good(rs), NEW t \in Seq(Row), Sparse(t), NEW src, Copies(t, rs, src),
         NEW i \in 1..Len(t), NEW c
  PROVE  CellAt(t, c, t[i].R) = At(rs, c, src[i]) /\ RowAttrAt(t, t[i].R) = AttrOf(rs, src[i])
  <1> DEFINE s == src[i]
             C == rs[s].C
  <1>1. s \in 1..Len(rs) /\ CopyOf(t[i], rs[s])
    BY DEF Copies
  <1>2. t[i].attr = rs[s].attr /\ Len(t[i].C) = Len(C)
    BY <1>1 DEF CopyOf
  <1>3. \A k \in 1..Len(C) : t[i].C[k].col = k /\ Content(t[i].C[k]) = Content(C[k])
    BY <1>1 DEF CopyOf
  <1>4. RowAttrAt(t, t[i].R) = AttrOf(rs, s)
    <2>1. RowAttrAt(t, t[i].R) = t[i].attr
      BY ReadAttr
    <2> QED
      BY <1>1, <1>2, <2>1 DEF AttrOf
  <1>5. CASE c \in 1..Len(C)
    <2>1. IsCell(t, i, c) /\ t[i].C[c].col = c
      BY <1>2, <1>3, <1>5 DEF IsCell
    <2>2. CellAt(t, t[i].C[c].col, t[i].R) = Content(t[i].C[c])
      BY <2>1, ReadCell
    <2>3. HasAt(rs, c, s)
      BY <1>1, <1>5 DEF HasAt
    <2> QED
      BY <1>3, <1>4, <1>5, <2>1, <2>2, <2>3 DEF At
  <1>6. CASE ~(c \in 1..Len(C))
    <2>1. \A j, k : IsCell(t, j, k) => ~(t[j].R = t[i].R /\ t[j].C[k].col = c)
      <3> SUFFICES ASSUME NEW j, NEW k, IsCell(t, j, k), t[j].R = t[i].R, t[j].C[k].col = c
                   PROVE  FALSE
        OBVIOUS
      <3>1. j = i
        BY SparseFacts DEF IsCell
      <3>2. k \in 1..Len(C)
        BY <1>2, <3>1 DEF IsCell
      <3> QED
        BY <1>3, <1>6, <3>1, <3>2
    <2>2. CellAt(t, c, t[i].R) = BlankContent
      BY <2>1, ReadNone DEF Absent
    <2>3. ~HasAt(rs, c, s)
      BY <1>6 DEF HasAt
    <2> QED
      BY <1>4, <2>2, <2>3 DEF At
  <1> QED
    BY <1>5, <1>6

\* a number no row has reads as blank
LEMMA GapReads ==
  ASSUME NEW t \in Seq(Row), Sparse(t), NEW r, \A i \in 1..Len(t) : t[i].R # r, NEW c
  PROVE  CellAt(t, c, r) = BlankContent /\ RowAttrAt(t, r) = 0
  <1>1. Absent(t, c, r)
    BY DEF Absent, IsCell
  <1> QED
    BY <1>1, ReadNone, ReadNoAttr

\* and so does what is beyond a contiguous store
LEMMA BeyondReads ==
  ASSUME NEW rs, NEW r, ~(r \in 1..Len(rs)), NEW c
  PROVE  At(rs, c, r) = BlankContent /\ AttrOf(rs, r) = 0
  BY DEF At, HasAt, AttrOf

\* the columns of a copy are those of the row
LEMMA CopyWithin ==
  ASSUME NEW rs, Good(rs), Short(rs), NEW t, NEW src, Copies(t, rs, src),
         \A i \in 1..Len(t) : t[i].R <= MaxRow
  PROVE  Within(t)
  <1>m. MaxCol \in Nat
    BY GridAssumption DEF Coordinate
  <1>1. ASSUME NEW i \in 1..Len(t), NEW k \in 1..Len(t[i].C)
        PROVE  t[i].C[k].col <= MaxCol
    <2> DEFINE n == Len(rs[src[i]].C)
    <2>1. src[i] \in 1..Len(rs) /\ CopyOf(t[i], rs[src[i]])
      BY DEF Copies
    <2>2. n \in Nat /\ n <= MaxCol
      BY <2>1, GoodFacts DEF Short
    <2>3. k \in 1..n /\ t[i].C[k].col = k
      BY <2>1 DEF CopyOf
    <2> QED
      BY <1>m, <2>2, <2>3
  <1> QED
    BY <1>1 DEF Within

\* renumbering makes a copy
LEMMA RenumberCopy ==
  ASSUME NEW i, NEW r, RowGood(r, i), NEW n \in Coordinate, NEW d, d = RenumberRow(r, n)
  PROVE  CopyOf(d, r) /\ d.R = n /\ CopyOf(r, r)
  <1> DEFINE D == [k \in 1..Len(r.C) |-> [r.C[k] EXCEPT !.row = n]]
  <1>1. /\ r \in Row /\ r.C \in Seq(Cell) /\ Len(r.C) \in Nat
        /\ \A k \in 1..Len(r.C) : r.C[k] \in Cell /\ r.C[k].col = k
    BY DEF RowGood, CellsGood
  <1>2. \A c \in Cell : LET x == [c EXCEPT !.row = n]
                        IN  x \in Cell /\ x.col = c.col /\ Content(x) = Content(c)
    BY DEF Cell, Content
  <1>3. \A k \in 1..Len(r.C) : D[k] \in Cell /\ D[k].col = k /\ Content(D[k]) = Content(r.C[k])
    BY <1>1, <1>2
  <1>4. D = [k \in 1..Len(r.C) |-> D[k]]
    OBVIOUS
  <1>5. d = [r EXCEPT !.R = n, !.C = D]
    BY DEF RenumberRow
  <1> HIDE DEF D
  <1>6. D \in Seq(Cell) /\ Len(D) = Len(r.C)
    <2>1. Len(r.C) \in Nat /\ \A k \in 1..Len(r.C) : D[k] \in Cell
      BY <1>1, <1>3
    <2> QED
      BY ONLY <1>4, <2>1
  <1>7. d.R = n /\ d.C = D /\ d.attr = r.attr
    BY <1>1, <1>5 DEF Row
  <1> QED
    BY <1>1, <1>3, <1>6, <1>7 DEF CopyOf

\* reading t at row r is reading rs at row r0, for blank when r0 is no row of it
ReadsRow(t, r, rs, r0) == /\ \A c : CellAt(t, c, r) = At(rs, c, r0)
                          /\ RowAttrAt(t, r) = AttrOf(rs, r0)

LEMMA RowRead ==
  ASSUME NEW rs, Good(rs), NEW t \in Seq(Row), Sparse(t), NEW src, Copies(t, rs, src)
  PROVE  /\ \A i \in 1..Len(t) : ReadsRow(t, t[i].R, rs, src[i])
         /\ \A r, r0 : (\A i \in 1..Len(t) : t[i].R # r) /\ ~(r0 \in 1..Len(rs))
                          => ReadsRow(t, r, rs, r0)
  <1>1. ASSUME NEW i \in 1..Len(t) PROVE ReadsRow(t, t[i].R, rs, src[i])
    BY CopyReads DEF ReadsRow
  <1>2. ASSUME NEW r, NEW r0, \A i \in 1..Len(t) : t[i].R # r, ~(r0 \in 1..Len(rs))
        PROVE  ReadsRow(t, r, rs, r0)
    <2>1. ASSUME NEW c PROVE CellAt(t, c, r) = At(rs, c, r0) /\ RowAttrAt(t, r) = AttrOf(rs, r0)
      <3>1. CellAt(t, c, r) = BlankContent /\ RowAttrAt(t, r) = 0
        BY <1>2, GapReads
      <3>2. At(rs, c, r0) = BlankContent /\ AttrOf(rs, r0) = 0
        BY <1>2, BeyondReads
      <3> QED
        BY <3>1, <3>2
    <2> QED
      BY <2>1 DEF ReadsRow
  <1> QED
    BY <1>1, <1>2

\* inserting a row: the ones from row on are read one further down
LEMMA InsertRowIs ==
  ASSUME NEW rs, Good(rs), NEW row \in Coordinate, NEW t, t = AdjustRowDimensions(rs, row, 1)
  PROVE  /\ t \in Seq(Row) /\ Sparse(t) /\ Len(t) = Len(rs)
         /\ \A r \in Nat : ReadsRow(t, r, rs, IF r < row THEN r ELSE IF r = row THEN 0 ELSE r - 1)
         /\ Short(rs) /\ (row <= Len(rs) => Len(rs) < MaxRow) => Within(t)
  <1> DEFINE n == Len(rs)
             num == [i \in 1..n |-> IF i >= row THEN i + 1 ELSE i]
             src == [i \in 1..n |-> i]
  <1>0. n \in Nat /\ row \in Nat /\ row >= 1
    BY DEF Good, Coordinate
  <1>1. t \in Seq(Row) /\ Sparse(t) /\ Len(t) = n
    BY InsertRowSparse
  <1>2. ASSUME NEW i \in 1..n
        PROVE  t[i].R = num[i] /\ CopyOf(t[i], rs[i])
    <2>1. RowGood(rs[i], i) /\ rs[i].R = i /\ i \in Coordinate /\ i + 1 \in Coordinate
      BY <1>0 DEF Good, RowGood, Coordinate
    <2>2. t[i] = IF i >= row THEN RenumberRow(rs[i], i + 1) ELSE rs[i]
      BY <1>0, <2>1 DEF AdjustRowDimensions, Coordinate
    <2>3. CASE i >= row
      <3>1. CopyOf(t[i], rs[i]) /\ t[i].R = i + 1
        BY <2>1, <2>2, <2>3, RenumberCopy
      <3> QED
        BY <2>3, <3>1
    <2>4. CASE ~(i >= row)
      <3>1. CopyOf(rs[i], rs[i])
        BY <2>1, RenumberCopy
      <3> QED
        BY <2>1, <2>2, <2>4, <3>1
    <2> QED
      BY <2>3, <2>4
  <1>3. Copies(t, rs, src)
    BY <1>1, <1>2 DEF Copies
  <1>4. \A i \in 1..n : t[i].R = (IF i >= row THEN i + 1 ELSE i) /\ src[i] = i
    BY <1>2
  <1> HIDE DEF src, num
  <1>5. /\ \A i \in 1..n : ReadsRow(t, t[i].R, rs, i)
        /\ \A r, r0 : (\A i \in 1..n : t[i].R # r) /\ ~(r0 \in 1..n) => ReadsRow(t, r, rs, r0)
    BY <1>1, <1>3, <1>4, RowRead
  <1>6. ASSUME NEW r \in Nat
        PROVE  ReadsRow(t, r, rs, IF r < row THEN r ELSE IF r = row THEN 0 ELSE r - 1)
    <2> DEFINE r0 == IF r < row THEN r ELSE IF r = row THEN 0 ELSE r - 1
    <2>1. r0 \in 1..n => t[r0].R = r
      BY <1>0, <1>4
    <2>2. ~(r0 \in 1..n) => \A i \in 1..n : t[i].R # r
      BY <1>0, <1>4
    <2> HIDE DEF r0
    <2>3. ReadsRow(t, r, rs, r0)
      BY <1>5, <2>1, <2>2
    <2> QED
      BY <2>3 DEF r0
  <1>7. ASSUME Short(rs), row <= n => n < MaxRow PROVE Within(t)
    <2>1. MaxRow \in Nat /\ n <= MaxRow
      BY <1>7, GridAssumption DEF Short, Coordinate
    <2>2. \A i \in 1..Len(t) : t[i].R <= MaxRow
      BY <1>0, <1>1, <1>4, <1>7, <2>1
    <2> QED
      BY <1>3, <1>7, <2>2, CopyWithin
  <1> QED
    BY <1>1, <1>6, <1>7

\* removing a row: the ones below it are read one further up
LEMMA RemoveRowIs ==
  ASSUME NEW rs, Good(rs), NEW row \in Coordinate, HasRow(rs, row),
         NEW t, t = AdjustRowDimensions(Without(rs, FirstRowAt(rs, row)), row, -1)
  PROVE  /\ t \in Seq(Row) /\ Sparse(t)
         /\ \A r \in Coordinate : ReadsRow(t, r, rs, IF r < row THEN r ELSE r + 1)
         /\ Short(rs) => Within(t)
  <1> DEFINE w == Without(rs, row)
             n == Len(rs) - 1
             src == [i \in 1..n |-> IF i < row THEN i ELSE i + 1]
  <1>0. row \in 1..Len(rs) /\ FirstRowAt(rs, row) = row
    BY FirstRowGood
  <1>1. n \in Nat /\ row \in Nat /\ row >= 1 /\ Len(rs) = n + 1
    BY <1>0 DEF Good, Coordinate
  <1>2. \A i \in 1..n : w[i] = rs[src[i]]
    BY DEF Without
  <1>3. \A i \in 1..n : src[i] \in 1..Len(rs) /\ RowGood(w[i], src[i]) /\ w[i].R = src[i]
    BY <1>1, <1>2 DEF Good, RowGood
  <1>4. w \in Seq(Row) /\ Len(w) = n
    <2>1. \A i \in 1..n : w[i] \in Row
      BY <1>3 DEF RowGood
    <2>2. w = [i \in 1..n |-> w[i]]
      BY DEF Without
    <2> HIDE DEF w
    <2> QED BY <1>1, <2>1, <2>2
  <1>5. t \in Seq(Row) /\ Sparse(t)
    BY RemoveRowSparse
  <1>6. t = AdjustRowDimensions(w, row, -1)
    BY <1>0
  <1> HIDE DEF w
  <1>7. /\ Len(t) = n
        /\ \A i \in 1..n : t[i] = IF w[i].R >= row /\ w[i].R + -1 > 0
                                THEN RenumberRow(w[i], w[i].R + -1) ELSE w[i]
    <2>1. t = [i \in 1..Len(w) |-> IF w[i].R >= row /\ w[i].R + -1 > 0
                                   THEN RenumberRow(w[i], w[i].R + -1) ELSE w[i]]
      BY <1>6 DEF AdjustRowDimensions
    <2>2. Len(w) = n /\ n \in Nat
      BY <1>1, <1>4
    <2> HIDE DEF n
    <2> QED
      BY ONLY <2>1, <2>2
  <1>8. ASSUME NEW i \in 1..n
        PROVE  t[i].R = i /\ CopyOf(t[i], rs[src[i]])
    <2>0. i \in Coordinate /\ i \in Nat /\ RowGood(w[i], src[i]) /\ w[i] = rs[src[i]]
      BY <1>1, <1>2, <1>3 DEF Coordinate
    <2>1. CASE i < row
      <3>1. src[i] = i /\ w[i].R = i /\ ~(w[i].R >= row)
        BY <1>1, <1>3, <2>0, <2>1
      <3>2. t[i] = w[i]
        BY <1>7, <3>1
      <3>3. CopyOf(w[i], w[i])
        BY <2>0, RenumberCopy
      <3> QED
        BY <2>0, <3>1, <3>2, <3>3
    <2>2. CASE ~(i < row)
      <3>1. src[i] = i + 1 /\ w[i].R >= row /\ w[i].R + -1 = i /\ i > 0
        <4>1. src[i] = i + 1 /\ w[i].R = src[i]
          BY <1>3, <2>2
        <4> HIDE DEF src, n
        <4>2. i + 1 >= row /\ (i + 1) + -1 = i /\ i > 0
          BY <1>1, <2>0, <2>2
        <4> QED
          BY <4>1, <4>2
      <3>2. t[i] = RenumberRow(w[i], i)
        BY <1>7, <3>1
      <3>3. CopyOf(t[i], w[i]) /\ t[i].R = i
        BY <2>0, <3>2, RenumberCopy
      <3> QED
        BY <2>0, <3>3
    <2> QED
      BY <2>1, <2>2
  <1>9. Copies(t, rs, src)
    BY <1>3, <1>7, <1>8 DEF Copies
  <1>10. \A i \in 1..n : t[i].R = i /\ src[i] = IF i < row THEN i ELSE i + 1
    BY <1>8
  <1> HIDE DEF src, n
  <1>11. /\ \A i \in 1..n : ReadsRow(t, i, rs, src[i])
         /\ \A r, r0 : (\A i \in 1..n : t[i].R # r) /\ ~(r0 \in 1..Len(rs)) => ReadsRow(t, r, rs, r0)
    <2>1. /\ \A i \in 1..Len(t) : ReadsRow(t, t[i].R, rs, src[i])
          /\ \A r, r0 : (\A i \in 1..Len(t) : t[i].R # r) /\ ~(r0 \in 1..Len(rs)) => ReadsRow(t, r, rs, r0)
      BY <1>5, <1>9, RowRead
    <2>2. Len(t) = n
      BY <1>7
    <2> QED
      BY <1>10, <2>1, <2>2
  <1>12. ASSUME NEW r \in Coordinate PROVE ReadsRow(t, r, rs, IF r < row THEN r ELSE r + 1)
    <2>0. r \in Nat /\ r >= 1
      BY DEF Coordinate
    <2>1. CASE r <= n
      <3>1. r \in 1..n
        BY <1>1, <2>0, <2>1
      <3> QED
        BY <1>10, <1>11, <3>1
    <2>2. CASE ~(r <= n)
      <3>1. ~(r < row) /\ ~(r + 1 \in 1..Len(rs)) /\ \A i \in 1..n : t[i].R # r
        BY <1>0, <1>1, <1>10, <2>0, <2>2
      <3> QED
        BY <1>11, <3>1
    <2> QED
      BY <2>1, <2>2
  <1>13. ASSUME Short(rs) PROVE Within(t)
    <2>1. MaxRow \in Nat /\ n + 1 <= MaxRow
      BY <1>1, <1>13, GridAssumption DEF Short, Coordinate
    <2>2. \A i \in 1..Len(t) : t[i].R <= MaxRow
      BY <1>1, <1>7, <1>10, <2>1
    <2> QED
      BY <1>9, <1>13, <2>2, CopyWithin
  <1> QED
    BY <1>5, <1>12, <1>13

\* the cell that C names c is the one at place c0 of D
CellFrom(C, c, D, c0) ==
  \/ \E k \in 1..Len(C) : C[k].col = c /\ Content(C[k]) = CellIn(D, c0)
  \/ (\A k \in 1..Len(C) : C[k].col # c) /\ CellIn(D, c0) = BlankContent

\* t has the rows of rs, with other cells
SameRows(t, rs) == /\ Len(t) = Len(rs)
                   /\ \A i \in 1..Len(rs) : t[i].R = i /\ t[i].attr = rs[i].attr

\* every row reads its cell c from the place c0
LEMMA ColRead ==
  ASSUME NEW rs, Good(rs), NEW t \in Seq(Row), Sparse(t), SameRows(t, rs), NEW c, NEW c0,
         \A i \in 1..Len(rs) : CellFrom(t[i].C, c, rs[i].C, c0), NEW r
  PROVE  CellAt(t, c, r) = At(rs, c0, r)
  <1>0. Len(t) = Len(rs) /\ \A i \in 1..Len(rs) : t[i].R = i
    BY DEF SameRows
  <1>1. At(rs, c0, r) = CellIn(CellsOf(rs, r), c0)
    BY AtIs
  <1>2. CASE ~(r \in 1..Len(rs))
    <2>1. \A i \in 1..Len(t) : t[i].R # r
      BY <1>0, <1>2
    <2> QED
      BY <1>2, <2>1, GapReads, BeyondReads
  <1>3. CASE r \in 1..Len(rs)
    <2>1. At(rs, c0, r) = CellIn(rs[r].C, c0)
      BY <1>1, <1>3 DEF CellsOf
    <2>2. CASE \E k \in 1..Len(t[r].C) : t[r].C[k].col = c /\ Content(t[r].C[k]) = CellIn(rs[r].C, c0)
      <3>1. PICK k \in 1..Len(t[r].C) : t[r].C[k].col = c /\ Content(t[r].C[k]) = CellIn(rs[r].C, c0)
        BY <2>2
      <3>2. IsCell(t, r, k) /\ t[r].R = r
        BY <1>0, <1>3 DEF IsCell
      <3>3. CellAt(t, t[r].C[k].col, t[r].R) = Content(t[r].C[k])
        BY <3>2, ReadCell
      <3> QED
        BY <2>1, <3>1, <3>2, <3>3
    <2>3. CASE (\A k \in 1..Len(t[r].C) : t[r].C[k].col # c) /\ CellIn(rs[r].C, c0) = BlankContent
      <3>1. Absent(t, c, r)
        BY <1>0, <2>3 DEF Absent, IsCell
      <3> QED
        BY <2>1, <2>3, <3>1, ReadNone
    <2>4. CellFrom(t[r].C, c, rs[r].C, c0)
      BY <1>3
    <2> QED
      BY <2>2, <2>3, <2>4 DEF CellFrom
  <1> QED
    BY <1>2, <1>3

LEMMA SameRowsAttr ==
  ASSUME NEW rs, NEW t \in Seq(Row), Sparse(t), SameRows(t, rs), NEW r
  PROVE  RowAttrAt(t, r) = AttrOf(rs, r)
  <1>0. Len(t) = Len(rs) /\ \A i \in 1..Len(rs) : t[i].R = i /\ t[i].attr = rs[i].attr
    BY DEF SameRows
  <1>1. CASE r \in 1..Len(rs)
    <2>1. RowAttrAt(t, t[r].R) = t[r].attr
      BY <1>0, <1>1, ReadAttr
    <2> QED
      BY <1>0, <1>1, <2>1 DEF AttrOf
  <1>2. CASE ~(r \in 1..Len(rs))
    <2>1. \A i \in 1..Len(t) : t[i].R # r
      BY <1>0, <1>2
    <2> QED
      BY <1>2, <2>1, ReadNoAttr DEF AttrOf
  <1> QED
    BY <1>1, <1>2

\* rows in their places, with the cells on the sheet
LEMMA SameRowsWithin ==
  ASSUME NEW rs, Good(rs), Short(rs), NEW t, SameRows(t, rs),
         \A i \in 1..Len(rs) : \A k \in 1..Len(t[i].C) : t[i].C[k].col <= MaxCol
  PROVE  Within(t)
  <1>0. Len(t) = Len(rs) /\ \A i \in 1..Len(rs) : t[i].R = i
    BY DEF SameRows
  <1>1. Len(rs) \in Nat /\ Len(rs) <= MaxRow /\ MaxRow \in Nat
    BY GridAssumption DEF Good, Short, Coordinate
  <1>2. \A i \in 1..Len(t) : t[i].R <= MaxRow
    BY <1>0, <1>1
  <1> QED
    BY <1>0, <1>2 DEF Within

\* inserting a column: the cells from col on are read one further right
LEMMA InsertColIs ==
  ASSUME NEW rs, Good(rs), NEW col \in Coordinate, NEW t, t = AdjustColDimensions(rs, col, 1)
  PROVE  /\ t \in Seq(Row) /\ Sparse(t) /\ \A r : RowAttrAt(t, r) = AttrOf(rs, r)
         /\ \A r : \A c \in Nat : CellAt(t, c, r) =
              At(rs, IF c < col THEN c ELSE IF c = col THEN 0 ELSE c - 1, r)
         /\ Short(rs) /\ (\A i \in 1..Len(rs) : \A k \in 1..Len(rs[i].C) :
                            rs[i].C[k].col >= col => rs[i].C[k].col < MaxCol) => Within(t)
  <1> DEFINE n == Len(rs)
  <1>0. n \in Nat /\ col \in Nat /\ col >= 1
    BY DEF Good, Coordinate
  <1>1. t \in Seq(Row) /\ Sparse(t)
    BY InsertColSparse
  <1>2. ASSUME NEW i \in 1..n
        PROVE  /\ t[i].R = i /\ t[i].attr = rs[i].attr /\ Len(t[i].C) = Len(rs[i].C)
               /\ \A k \in 1..Len(rs[i].C) : /\ t[i].C[k].col = IF k >= col THEN k + 1 ELSE k
                                             /\ Content(t[i].C[k]) = Content(rs[i].C[k])
    <2> DEFINE C == rs[i].C
               D == [k \in 1..Len(C) |->
                       IF C[k].col >= col /\ C[k].col + 1 > 0
                       THEN [C[k] EXCEPT !.col = @ + 1] ELSE C[k]]
    <2>1. RowGood(rs[i], i)
      BY DEF Good
    <2>2. /\ rs[i] \in Row /\ rs[i].R = i /\ Len(C) \in Nat
          /\ \A k \in 1..Len(C) : C[k] \in Cell /\ C[k].col = k
      BY <2>1 DEF RowGood, CellsGood
    <2>3. \A c \in Cell : LET d == [c EXCEPT !.col = @ + 1]
                          IN  d \in Cell /\ d.col = c.col + 1 /\ Content(d) = Content(c)
      BY DEF Cell, Coordinate, Content
    <2>4. t[i] = [rs[i] EXCEPT !.C = D]
      BY DEF AdjustColDimensions
    <2>5. D = [k \in 1..Len(C) |-> D[k]]
      OBVIOUS
    <2> HIDE DEF C
    <2>6. ASSUME NEW k \in 1..Len(C)
          PROVE  /\ D[k] \in Cell /\ Content(D[k]) = Content(C[k])
                 /\ D[k].col = IF k >= col THEN k + 1 ELSE k
      <3>1. C[k] \in Cell /\ C[k].col = k /\ k + 1 > 0
        BY <2>2
      <3>2. CASE k >= col
        <4>1. D[k] = [C[k] EXCEPT !.col = @ + 1]
          BY <3>1, <3>2
        <4> HIDE DEF D
        <4> QED
          BY <2>3, <3>1, <3>2, <4>1
      <3>3. CASE ~(k >= col)
        BY <3>1, <3>3
      <3> QED
        BY <3>2, <3>3
    <2> HIDE DEF D
    <2>7. Len(D) = Len(C) /\ D \in Seq(Cell)
      <3>1. \A k \in 1..Len(C) : D[k] \in Cell
        BY <2>6
      <3> QED
        BY <2>2, <2>5, <3>1
    <2>8. t[i].R = i /\ t[i].C = D /\ t[i].attr = rs[i].attr
      BY <2>2, <2>4 DEF Row
    <2> QED
      BY <2>6, <2>7, <2>8 DEF C
  <1>3. Len(t) = n
    BY <1>0 DEF AdjustColDimensions
  <1>4. SameRows(t, rs)
    BY <1>2, <1>3 DEF SameRows
  <1>5. ASSUME NEW c \in Nat, NEW r
        PROVE  CellAt(t, c, r) = At(rs, IF c < col THEN c ELSE IF c = col THEN 0 ELSE c - 1, r)
    <2> DEFINE c0 == IF c < col THEN c ELSE IF c = col THEN 0 ELSE c - 1
    <2>1. ASSUME NEW i \in 1..n PROVE CellFrom(t[i].C, c, rs[i].C, c0)
      <3> DEFINE m == Len(rs[i].C)
      <3>0. m \in Nat /\ Len(t[i].C) = m
        BY <1>2, GoodFacts
      <3>1. \A k \in 1..m : t[i].C[k].col = IF k >= col THEN k + 1 ELSE k
        BY <1>2
      <3>2. \A k \in 1..m : Content(t[i].C[k]) = Content(rs[i].C[k])
        BY <1>2
      <3> HIDE DEF m
      <3>3. c0 \in 1..m => t[i].C[c0].col = c
        BY <1>0, <3>0, <3>1
      <3>4. ~(c0 \in 1..m) => \A k \in 1..m : t[i].C[k].col # c
        BY <1>0, <3>0, <3>1
      <3> HIDE DEF c0
      <3>5. CASE c0 \in 1..m
        <4>1. CellIn(rs[i].C, c0) = Content(rs[i].C[c0])
          BY <3>5 DEF CellIn, m
        <4> QED
          BY <3>0, <3>2, <3>3, <3>5, <4>1 DEF CellFrom
      <3>6. CASE ~(c0 \in 1..m)
        <4>1. CellIn(rs[i].C, c0) = BlankContent
          BY <3>6 DEF CellIn, m
        <4> QED
          BY <3>0, <3>4, <3>6, <4>1 DEF CellFrom
      <3> QED
        BY <3>5, <3>6
    <2> HIDE DEF c0
    <2>2. CellAt(t, c, r) = At(rs, c0, r)
      BY <1>1, <1>4, <2>1, ColRead
    <2> QED
      BY <2>2 DEF c0
  <1>6. ASSUME Short(rs), \A i \in 1..n : \A k \in 1..Len(rs[i].C) :
                            rs[i].C[k].col >= col => rs[i].C[k].col < MaxCol
        PROVE  Within(t)
    <2>1. ASSUME NEW i \in 1..n, NEW k \in 1..Len(t[i].C) PROVE t[i].C[k].col <= MaxCol
      <3>1. k \in 1..Len(rs[i].C) /\ rs[i].C[k].col = k /\ Len(rs[i].C) \in Nat
        BY <1>2, GoodFacts
      <3>2. Len(rs[i].C) <= MaxCol /\ MaxCol \in Nat
        BY <1>6, GridAssumption DEF Short, Coordinate
      <3>3. k >= col => k < MaxCol
        BY <1>6, <3>1
      <3>4. t[i].C[k].col = IF k >= col THEN k + 1 ELSE k
        BY <1>2, <3>1
      <3>5. k \in Nat /\ k <= MaxCol
        BY ONLY <3>1, <3>2
      <3>6. CASE k >= col
        BY ONLY <3>2, <3>3, <3>4, <3>5, <3>6
      <3>7. CASE ~(k >= col)
        BY ONLY <3>4, <3>5, <3>7
      <3> QED
        BY <3>6, <3>7
    <2> QED
      BY <1>4, <1>6, <2>1, SameRowsWithin
  <1>7. \A r : RowAttrAt(t, r) = AttrOf(rs, r)
    BY <1>1, <1>4, SameRowsAttr
  <1> QED
    BY <1>1, <1>5, <1>6, <1>7

\* row i of DropColumn, cell by cell
LEMMA DropColumnIs ==
  ASSUME NEW rs, Good(rs), NEW col \in Coordinate, NEW i \in 1..Len(rs),
         NEW r, r = DropColumn(rs, col)[i]
  PROVE  /\ r \in Row /\ r.R = i /\ r.attr = rs[i].attr /\ Len(r.C) \in Nat
         /\ Len(r.C) = IF col \in 1..Len(rs[i].C) THEN Len(rs[i].C) - 1 ELSE Len(rs[i].C)
         /\ \A k \in 1..Len(r.C) : r.C[k] = rs[i].C[IF k < col THEN k ELSE k + 1]
  <1> DEFINE C == rs[i].C
             w == Without(C, col)
  <1>0. col \in Nat /\ col >= 1
    BY DEF Coordinate
  <1>1. RowGood(rs[i], i) /\ rs[i] \in Row /\ rs[i].R = i
    BY DEF Good, RowGood
  <1>2. /\ Len(C) \in Nat /\ C \in Seq(Cell)
        /\ \A k \in 1..Len(C) : C[k] \in Cell /\ C[k].col = k
    BY <1>1 DEF RowGood, CellsGood
  <1>3. CASE HasCell(C, col)
    <2>1. col \in 1..Len(C)
      BY <1>2, <1>3 DEF HasCell
    <2>2. FirstCellAt(C, col) = col
      BY <1>2, <2>1 DEF FirstCellAt
    <2>3. r = [rs[i] EXCEPT !.C = w]
      BY <1>3, <2>2 DEF DropColumn
    <2>4. w = [k \in 1..(Len(C) - 1) |-> w[k]] /\ Len(C) - 1 \in Nat
      BY <1>2, <2>1 DEF Without
    <2>5. \A k \in 1..(Len(C) - 1) : w[k] = C[IF k < col THEN k ELSE k + 1]
      BY DEF Without
    <2> HIDE DEF C, w
    <2>6. \A k \in 1..(Len(C) - 1) : w[k] \in Cell
      <3> TAKE k \in 1..(Len(C) - 1)
      <3>1. (IF k < col THEN k ELSE k + 1) \in 1..Len(C)
        BY <1>2
      <3> QED
        BY <1>2, <2>5, <3>1
    <2>7. w \in Seq(Cell) /\ Len(w) = Len(C) - 1
      BY <2>4, <2>6
    <2>8. r \in Row /\ r.R = i /\ r.C = w /\ r.attr = rs[i].attr
      BY <1>1, <2>3, <2>7 DEF Row
    <2> QED
      BY <2>1, <2>4, <2>5, <2>7, <2>8 DEF C
  <1>4. CASE ~HasCell(C, col)
    <2>1. r = rs[i]
      BY <1>4 DEF DropColumn
    <2>2. ~(col \in 1..Len(C))
      BY <1>2, <1>4 DEF HasCell
    <2>3. \A k \in 1..Len(C) : k < col
      BY <1>0, <1>2, <2>2
    <2> QED
      BY <1>1, <1>2, <2>1, <2>2, <2>3
  <1> QED
    BY <1>3, <1>4

\* removing a column: the cells right of it are read one further left
LEMMA RemoveColIs ==
  ASSUME NEW rs, Good(rs), NEW col \in Coordinate,
         NEW t, t = AdjustColDimensions(DropColumn(rs, col), col, -1)
  PROVE  /\ t \in Seq(Row) /\ Sparse(t) /\ \A r : RowAttrAt(t, r) = AttrOf(rs, r)
         /\ \A r : \A c \in Coordinate : CellAt(t, c, r) = At(rs, IF c < col THEN c ELSE c + 1, r)
         /\ Short(rs) => Within(t)
  <1> DEFINE w == DropColumn(rs, col)
             n == Len(rs)
  <1>0. n \in Nat /\ col \in Nat /\ col >= 1
    BY DEF Good, Coordinate
  <1>1. t \in Seq(Row) /\ Sparse(t)
    BY RemoveColSparse
  <1>w. ASSUME NEW i \in 1..n
        PROVE  /\ w[i] \in Row /\ w[i].R = i /\ w[i].attr = rs[i].attr /\ Len(w[i].C) \in Nat
               /\ Len(w[i].C) = IF col \in 1..Len(rs[i].C) THEN Len(rs[i].C) - 1 ELSE Len(rs[i].C)
               /\ \A k \in 1..Len(w[i].C) : w[i].C[k] = rs[i].C[IF k < col THEN k ELSE k + 1]
    BY DropColumnIs
  <1>l. Len(w) = n
    BY <1>0 DEF DropColumn
  <1>t. t = AdjustColDimensions(w, col, -1)
    OBVIOUS
  <1> HIDE DEF w
  <1>2. ASSUME NEW i \in 1..n
        PROVE  /\ t[i].R = i /\ t[i].attr = rs[i].attr /\ Len(t[i].C) = Len(w[i].C)
               /\ \A k \in 1..Len(w[i].C) : t[i].C[k].col = k /\ Content(t[i].C[k]) = Content(w[i].C[k])
    <2> DEFINE C == w[i].C
               D == [k \in 1..Len(C) |->
                       IF C[k].col >= col /\ C[k].col + -1 > 0
                       THEN [C[k] EXCEPT !.col = @ + -1] ELSE C[k]]
    <2>1. /\ w[i] \in Row /\ C \in Seq(Cell) /\ Len(C) \in Nat
          /\ \A k \in 1..Len(C) : C[k] \in Cell
      BY <1>w, RowType
    <2>2. ASSUME NEW k \in 1..Len(C) PROVE C[k].col = IF k < col THEN k ELSE k + 1
      <3> DEFINE s == IF k < col THEN k ELSE k + 1
      <3>1. C[k] = rs[i].C[s]
        BY <1>w
      <3>2. s \in 1..Len(rs[i].C)
        <4>1. Len(rs[i].C) \in Nat
          BY GoodFacts
        <4>2. Len(C) = IF col \in 1..Len(rs[i].C) THEN Len(rs[i].C) - 1 ELSE Len(rs[i].C)
          BY <1>w
        <4> HIDE DEF C
        <4> QED
          BY <1>0, <2>1, <4>1, <4>2
      <3> HIDE DEF s
      <3>3. rs[i].C[s].col = s
        BY <3>2, GoodFacts
      <3> QED
        BY <3>1, <3>3 DEF s
    <2>3. \A c \in Cell : c.col + -1 > 0 =>
             LET d == [c EXCEPT !.col = @ + -1]
             IN  d \in Cell /\ d.col = c.col + -1 /\ Content(d) = Content(c)
      BY DEF Cell, Coordinate, Content
    <2>4. t[i] = [w[i] EXCEPT !.C = D]
      BY <1>l, <1>t DEF AdjustColDimensions
    <2>5. D = [k \in 1..Len(C) |-> D[k]]
      OBVIOUS
    <2> HIDE DEF C
    <2>6. ASSUME NEW k \in 1..Len(C)
          PROVE  D[k] \in Cell /\ D[k].col = k /\ Content(D[k]) = Content(C[k])
      <3>1. k \in Nat /\ k >= 1 /\ C[k] \in Cell
        BY <2>1
      <3>2. CASE k < col
        <4>1. C[k].col = k /\ ~(C[k].col >= col)
          BY <1>0, <2>2, <3>1, <3>2
        <4> QED BY <3>1, <4>1
      <3>3. CASE ~(k < col)
        <4>1. C[k].col = k + 1 /\ C[k].col >= col /\ C[k].col + -1 > 0
          BY <1>0, <2>2, <3>1, <3>3
        <4>2. D[k] = [C[k] EXCEPT !.col = @ + -1]
          BY <4>1
        <4>3. D[k] \in Cell /\ Content(D[k]) = Content(C[k]) /\ D[k].col = C[k].col + -1
          BY <2>3, <3>1, <4>1, <4>2
        <4> HIDE DEF D
        <4> QED BY <3>1, <4>1, <4>3
      <3> QED BY <3>2, <3>3
    <2> HIDE DEF D
    <2>7. Len(D) = Len(C)
      <3>1. \A k \in 1..Len(C) : D[k] \in Cell
        BY <2>6
      <3> QED
        BY <2>1, <2>5, <3>1
    <2>8. t[i].R = i /\ t[i].C = D /\ t[i].attr = rs[i].attr
      BY <1>w, <2>1, <2>4 DEF Row
    <2> QED
      BY <2>6, <2>7, <2>8 DEF C
  <1>3. Len(t) = n
    <2>1. t = [i \in 1..Len(w) |-> t[i]]
      BY <1>t DEF AdjustColDimensions
    <2> QED
      BY <1>0, <1>l, <2>1
  <1>4. SameRows(t, rs)
    BY <1>2, <1>3 DEF SameRows
  <1>5. ASSUME NEW c \in Coordinate, NEW r
        PROVE  CellAt(t, c, r) = At(rs, IF c < col THEN c ELSE c + 1, r)
    <2> DEFINE c0 == IF c < col THEN c ELSE c + 1
    <2>0. c \in Nat /\ c >= 1
      BY DEF Coordinate
    <2>1. ASSUME NEW i \in 1..n PROVE CellFrom(t[i].C, c, rs[i].C, c0)
      <3> DEFINE m == Len(rs[i].C)
                 l == Len(w[i].C)
      <3>0. m \in Nat /\ l \in Nat /\ Len(t[i].C) = l /\ l = IF col \in 1..m THEN m - 1 ELSE m
        BY <1>2, <1>w, GoodFacts
      <3>1. \A k \in 1..l : t[i].C[k].col = k /\ Content(t[i].C[k]) = Content(w[i].C[k])
        BY <1>2
      <3>2. c \in 1..l => w[i].C[c] = rs[i].C[c0]
        BY <1>w
      <3> HIDE DEF m, l
      <3>3. c0 \in 1..m <=> c \in 1..l
        BY <1>0, <2>0, <3>0
      <3> HIDE DEF c0
      <3>5. CASE c0 \in 1..m
        <4>1. CellIn(rs[i].C, c0) = Content(rs[i].C[c0])
          BY <3>5 DEF CellIn, m
        <4>2. c \in 1..l
          BY <3>3, <3>5
        <4>3. t[i].C[c].col = c /\ Content(t[i].C[c]) = CellIn(rs[i].C, c0)
          BY <3>1, <3>2, <4>1, <4>2
        <4> QED
          BY ONLY <3>0, <4>2, <4>3 DEF CellFrom
      <3>6. CASE ~(c0 \in 1..m)
        <4>1. CellIn(rs[i].C, c0) = BlankContent
          BY <3>6 DEF CellIn, m
        <4>2. \A k \in 1..l : t[i].C[k].col # c
          BY <3>1, <3>3, <3>6
        <4> QED
          BY <3>0, <4>1, <4>2 DEF CellFrom
      <3> QED
        BY <3>5, <3>6
    <2> HIDE DEF c0
    <2>2. CellAt(t, c, r) = At(rs, c0, r)
      BY <1>1, <1>4, <2>1, ColRead
    <2> QED
      BY <2>2 DEF c0
  <1>6. ASSUME Short(rs) PROVE Within(t)
    <2>1. ASSUME NEW i \in 1..n, NEW k \in 1..Len(t[i].C) PROVE t[i].C[k].col <= MaxCol
      <3> DEFINE m == Len(rs[i].C)
                 l == Len(w[i].C)
      <3>0. m \in Nat /\ l \in Nat /\ Len(t[i].C) = l /\ l = IF col \in 1..m THEN m - 1 ELSE m
        BY <1>2, <1>w, GoodFacts
      <3>1. k \in 1..l /\ t[i].C[k].col = k
        BY <1>2
      <3>2. m <= MaxCol /\ MaxCol \in Nat
        BY <1>6, GridAssumption DEF Short, Coordinate
      <3> HIDE DEF m, l
      <3> QED
        BY <3>0, <3>1, <3>2
    <2> QED
      BY <1>4, <1>6, <2>1, SameRowsWithin
  <1>7. \A r : RowAttrAt(t, r) = AttrOf(rs, r)
    BY <1>1, <1>4, SameRowsAttr
  <1> QED
    BY <1>1, <1>5, <1>6, <1>7

\* what Save writes reads as the handle does
LEMMA TrimIs ==
  ASSUME NEW rs, Good(rs), NEW t, t = TrimRows(rs)
  PROVE  /\ t \in Seq(Row) /\ Sparse(t)
         /\ \A c, r : CellAt(t, c, r) = At(rs, c, r) /\ RowAttrAt(t, r) = AttrOf(rs, r)
         /\ Short(rs) => Within(t)
  <1> DEFINE n == Len(rs)
  <1>0. n \in Nat
    BY DEF Good
  <1>1. t \in Seq(Row) /\ Sparse(t)
    BY TrimRowsSparse
  <1>2. ASSUME NEW i \in 1..n
        PROVE  t[i].R = i /\ t[i].attr = rs[i].attr /\ t[i].C = TrimCell(rs[i].C)
    <2> DEFINE D == TrimCell(rs[i].C)
    <2>1. rs[i] \in Row /\ rs[i].R = i
      BY GoodFacts
    <2>2. t[i] = [rs[i] EXCEPT !.C = D]
      BY DEF TrimRows
    <2> HIDE DEF D
    <2>3. t[i].R = i /\ t[i].attr = rs[i].attr /\ t[i].C = D
      BY <2>1, <2>2 DEF Row
    <2> QED
      BY <2>3 DEF D
  <1>3. Len(t) = n
    BY <1>0 DEF TrimRows
  <1>4. SameRows(t, rs)
    BY <1>2, <1>3 DEF SameRows
  <1>5. ASSUME NEW i \in 1..n
        PROVE  LET C == rs[i].C
                   D == t[i].C
               IN  /\ \A k \in 1..Len(D) : \E e \in Kept(C) : D[k] = C[e]
                   /\ \A e \in Kept(C) : \E k \in 1..Len(D) : D[k] = C[e]
    <2> DEFINE C == rs[i].C
               D == t[i].C
               m == Cardinality(Kept(C))
               p == [k \in 1..m |-> CHOOSE e \in Kept(C) : Rank(C, e) = k]
    <2>1. C \in Seq(Cell) /\ Kept(C) \subseteq 1..Len(C)
      BY GoodFacts DEF Kept
    <2>2. m \in Nat /\ \A k \in 1..m : \E e \in Kept(C) : Rank(C, e) = k
      BY <2>1, RankOnto
    <2>3. \A k \in 1..m : p[k] \in Kept(C) /\ Rank(C, p[k]) = k
      BY <2>2
    <2>4. D = [k \in 1..m |-> C[p[k]]]
      <3>1. D = TrimCell(C)
        BY <1>2
      <3> HIDE DEF D, C
      <3>2. TrimCell(C) = [k \in 1..m |-> C[p[k]]]
        BY DEF TrimCell
      <3> QED
        BY <3>1, <3>2
    <2>5. \A k, l \in Kept(C) : Rank(C, k) = Rank(C, l) => k = l
      <3> SUFFICES ASSUME NEW k \in Kept(C), NEW l \in Kept(C), Rank(C, k) = Rank(C, l), k # l
                   PROVE  FALSE
        OBVIOUS
      <3>1. k \in 1..Len(C) /\ l \in 1..Len(C) /\ (k < l \/ l < k)
        BY <2>1
      <3> HIDE DEF C
      <3>2. CASE k < l
        BY <2>1, <3>1, <3>2, RankSteps
      <3>3. CASE l < k
        BY <2>1, <3>1, <3>3, RankSteps
      <3> QED BY <3>1, <3>2, <3>3
    <2>6. \A e \in Kept(C) : Rank(C, e) \in 1..m
      <3> SUFFICES ASSUME NEW e \in Kept(C) PROVE Rank(C, e) \in 1..m
        OBVIOUS
      <3>1. e \in 1..Len(C) /\ e <= e
        BY <2>1
      <3> HIDE DEF C, m
      <3>2. Rank(C, e) \in Nat /\ Rank(C, e) >= 1 /\ Rank(C, e) <= Cardinality(Kept(C))
        BY <2>1, <3>1, RankSteps
      <3> QED
        BY <2>2, <3>2 DEF m
    <2> HIDE DEF m, p, C
    <2>7. Len(D) = m
      BY <2>2, <2>4
    <2>8. \A k \in 1..m : D[k] = C[p[k]]
      BY <2>4
    <2> HIDE DEF D
    <2>9. \A k \in 1..Len(D) : \E e \in Kept(C) : D[k] = C[e]
      BY <2>3, <2>7, <2>8
    <2>10. ASSUME NEW e \in Kept(C) PROVE \E k \in 1..Len(D) : D[k] = C[e]
      <3>1. Rank(C, e) \in 1..m /\ p[Rank(C, e)] = e
        BY <2>3, <2>5, <2>6
      <3>2. D[Rank(C, e)] = C[e] /\ Rank(C, e) \in 1..Len(D)
        BY <2>7, <2>8, <3>1
      <3> QED
        BY <3>2
    <2> QED
      BY <2>9, <2>10 DEF C, D
  <1>6. ASSUME NEW c, NEW r PROVE CellAt(t, c, r) = At(rs, c, r)
    <2>1. ASSUME NEW i \in 1..n PROVE CellFrom(t[i].C, c, rs[i].C, c)
      <3> DEFINE C == rs[i].C
                 D == t[i].C
      <3>0. C \in Seq(Cell) /\ \A k \in 1..Len(C) : C[k] \in Cell /\ C[k].col = k
        BY GoodFacts
      <3>1. \A k \in 1..Len(D) : \E e \in Kept(C) : D[k] = C[e]
        BY <1>5
      <3>2. \A e \in Kept(C) : \E k \in 1..Len(D) : D[k] = C[e]
        BY <1>5
      <3>3. \A e \in Kept(C) : e \in 1..Len(C)
        BY DEF Kept
      <3>k. \A e \in 1..Len(C) : e \notin Kept(C) => CellBlank(C[e])
        BY DEF Kept
      <3> HIDE DEF C, D
      <3>4. CASE c \in Kept(C)
        <4>1. PICK k \in 1..Len(D) : D[k] = C[c]
          BY <3>2, <3>4
        <4>2. D[k].col = c /\ Content(D[k]) = CellIn(C, c)
          BY <3>0, <3>3, <3>4, <4>1 DEF CellIn
        <4>3. CellFrom(D, c, C, c)
          BY <4>2 DEF CellFrom
        <4> QED
          BY <4>3 DEF C, D
      <3>5. CASE ~(c \in Kept(C))
        <4>1. \A k \in 1..Len(D) : D[k].col # c
          BY <3>0, <3>1, <3>3, <3>5
        <4>2. CellIn(C, c) = BlankContent
          <5>1. CASE c \in 1..Len(C)
            <6>1. CellBlank(C[c]) /\ C[c] \in Cell
              BY <3>0, <3>5, <3>k, <5>1
            <6>2. Content(C[c]) = BlankContent
              BY <6>1 DEF CellBlank, Content, BlankContent, Cell
            <6> QED
              BY <5>1, <6>2 DEF CellIn
          <5>2. CASE ~(c \in 1..Len(C))
            BY <5>2 DEF CellIn
          <5> QED
            BY <5>1, <5>2
        <4>3. CellFrom(D, c, C, c)
          BY <4>1, <4>2 DEF CellFrom
        <4> QED
          BY <4>3 DEF C, D
      <3> QED
        BY <3>4, <3>5
    <2> QED
      BY <1>1, <1>4, <2>1, ColRead
  <1>7. ASSUME Short(rs) PROVE Within(t)
    <2>1. ASSUME NEW i \in 1..n, NEW k \in 1..Len(t[i].C) PROVE t[i].C[k].col <= MaxCol
      <3>1. PICK e \in Kept(rs[i].C) : t[i].C[k] = rs[i].C[e]
        BY <1>5
      <3>2. e \in 1..Len(rs[i].C)
        BY DEF Kept
      <3>3. rs[i].C[e].col = e /\ Len(rs[i].C) \in Nat
        BY <3>2, GoodFacts
      <3>4. Len(rs[i].C) <= MaxCol /\ MaxCol \in Nat
        BY <1>7, GridAssumption DEF Short, Coordinate
      <3> QED
        BY <3>1, <3>2, <3>3, <3>4
    <2> QED
      BY <1>4, <1>7, <2>1, SameRowsWithin
  <1>8. \A r : RowAttrAt(t, r) = AttrOf(rs, r)
    BY <1>1, <1>4, SameRowsAttr
  <1> QED
    BY <1>1, <1>6, <1>7, <1>8

\* q is p with one row more, or another row, at row2
RowPut(q, p, row2, copy) ==
  /\ row2 \in 1..Len(q) /\ q[row2] = copy
  /\ Len(q) = (IF row2 <= Len(p) THEN Len(p) ELSE row2)
  /\ \A k \in 1..Len(q) : k # row2 => k \in 1..Len(p) /\ q[k] = p[k]

LEMMA RowPutIs ==
  ASSUME NEW p, Good(p), NEW row2 \in Coordinate, NEW copy, RowGood(copy, row2),
         NEW q \in Seq(Row), RowPut(q, p, row2, copy), NEW b, CopyOf(copy, b)
  PROVE  /\ Good(q)
         /\ \A c, r : At(q, c, r) = IF r = row2 THEN CellIn(b.C, c) ELSE At(p, c, r)
         /\ \A r : AttrOf(q, r) = IF r = row2 THEN b.attr ELSE AttrOf(p, r)
         /\ Short(p) /\ row2 <= MaxRow /\ Len(b.C) <= MaxCol => Short(q)
  <1>1. /\ row2 \in 1..Len(q) /\ q[row2] = copy
        /\ Len(q) = (IF row2 <= Len(p) THEN Len(p) ELSE row2)
        /\ \A k \in 1..Len(q) : k # row2 => k \in 1..Len(p) /\ q[k] = p[k]
    BY DEF RowPut
  <1>2. Len(p) \in Nat /\ Len(q) \in Nat /\ row2 \in Nat
    BY DEF Good, Coordinate
  <1>3. \A k \in 1..Len(p) : RowGood(p[k], k)
    BY DEF Good
  <1>4. Good(q)
    <2>1. \A k \in 1..Len(q) : RowGood(q[k], k)
      BY <1>1, <1>3
    <2> QED
      BY <2>1 DEF Good
  <1>5. \A k \in 1..Len(p) : k \in 1..Len(q)
    BY <1>1, <1>2
  <1>6. ASSUME NEW c, NEW r PROVE At(q, c, r) = IF r = row2 THEN CellIn(b.C, c) ELSE At(p, c, r)
    <2>1. CASE r = row2
      <3>1. At(q, c, r) = CellIn(copy.C, c)
        BY <1>1, <2>1, AtIs DEF CellsOf
      <3>2. CellIn(copy.C, c) = CellIn(b.C, c)
        BY DEF CopyOf, CellIn
      <3> QED
        BY <2>1, <3>1, <3>2
    <2>2. CASE r # row2
      <3>1. CellsOf(q, r) = CellsOf(p, r)
        BY <1>1, <1>5, <2>2 DEF CellsOf
      <3> QED
        BY <2>2, <3>1, AtIs
    <2> QED
      BY <2>1, <2>2
  <1>7. ASSUME NEW r PROVE AttrOf(q, r) = IF r = row2 THEN b.attr ELSE AttrOf(p, r)
    <2>1. CASE r = row2
      BY <1>1, <2>1 DEF AttrOf, CopyOf
    <2>2. CASE r # row2
      BY <1>1, <1>5, <2>2 DEF AttrOf
    <2> QED
      BY <2>1, <2>2
  <1>8. ASSUME Short(p), row2 <= MaxRow, Len(b.C) <= MaxCol PROVE Short(q)
    <2>1. Len(q) <= MaxRow
      BY <1>1, <1>8 DEF Short
    <2>2. ASSUME NEW k \in 1..Len(q) PROVE Len(q[k].C) <= MaxCol
      <3>1. CASE k = row2
        BY <1>1, <1>8, <3>1 DEF CopyOf
      <3>2. CASE k # row2
        BY <1>1, <1>8, <3>2 DEF Short
      <3> QED
        BY <3>1, <3>2
    <2> QED
      BY <2>1, <2>2 DEF Short
  <1> QED
    BY <1>4, <1>6, <1>7, <1>8

\* where DuplicateRowTo puts the copy
Placed(p, row2, copy) ==
  IF HasRow(p, row2) THEN [p EXCEPT ![FirstRowAt(p, row2)] = copy]
  ELSE IF Len(p) >= row2 THEN p ELSE Append(p, copy)

\* duplicating a row no further than one past the last
LEMMA DuplicateIs ==
  ASSUME NEW rs, Good(rs), NEW row \in Coordinate, NEW row2 \in Coordinate, HasRow(rs, row),
         row2 <= Len(rs) + 1, NEW p, p = Check(AdjustRowDimensions(rs, row2, 1)),
         NEW copy, copy = RenumberRow(rs[row], row2), NEW q, q = Placed(p, row2, copy)
  PROVE  /\ Good(q)
         /\ \A c, r \in Nat : At(q, c, r) =
              At(rs, c, IF r < row2 THEN r ELSE IF r = row2 THEN row ELSE r - 1)
         /\ \A r \in Nat : AttrOf(q, r) =
              AttrOf(rs, IF r < row2 THEN r ELSE IF r = row2 THEN row ELSE r - 1)
         /\ Short(rs) /\ row2 <= MaxRow /\ (row2 <= Len(rs) => Len(rs) < MaxRow) => Short(q)
  <1> DEFINE s == AdjustRowDimensions(rs, row2, 1)
  <1>1. /\ s \in Seq(Row) /\ Sparse(s) /\ Len(s) = Len(rs)
        /\ \A r \in Nat : ReadsRow(s, r, rs, IF r < row2 THEN r ELSE IF r = row2 THEN 0 ELSE r - 1)
        /\ Short(rs) /\ (row2 <= Len(rs) => Len(rs) < MaxRow) => Within(s)
    BY InsertRowIs
  <1> HIDE DEF s
  <1>2. Good(p) /\ ReadsAs(p, s) /\ (Within(s) => Short(p)) /\ Len(p) >= Len(rs)
    BY <1>1, CheckIs, CheckGood DEF s
  <1>3. /\ Len(p) \in Nat /\ Len(rs) \in Nat /\ row2 \in Nat /\ row2 >= 1 /\ p \in Seq(Row)
        /\ \A k \in 1..Len(p) : RowGood(p[k], k)
    BY <1>2 DEF Good, Coordinate
  <1>4. row \in 1..Len(rs) /\ RowGood(rs[row], row)
    BY FirstRowGood DEF Good
  <1>5. RowGood(copy, row2) /\ CopyOf(copy, rs[row]) /\ copy \in Row
    BY <1>4, RenumberGood, RenumberCopy DEF RowGood
  <1>6. RowPut(q, p, row2, copy) /\ q \in Seq(Row)
    <2>1. CASE HasRow(p, row2)
      <3>1. row2 \in 1..Len(p) /\ FirstRowAt(p, row2) = row2
        BY <1>2, <2>1, FirstRowGood
      <3>2. q = [p EXCEPT ![row2] = copy]
        BY <2>1, <3>1 DEF Placed
      <3>3. q \in Seq(Row) /\ Len(q) = Len(p)
        BY <1>3, <1>5, <3>1, <3>2
      <3>4. q[row2] = copy /\ \A k \in 1..Len(p) : k # row2 => q[k] = p[k]
        BY <1>3, <3>1, <3>2
      <3>5. row2 <= Len(p)
        BY <1>3, <3>1
      <3> QED
        BY <3>1, <3>3, <3>4, <3>5 DEF RowPut
    <2>2. CASE ~HasRow(p, row2)
      <3>1. ~(row2 \in 1..Len(p))
        BY <1>3, <2>2 DEF HasRow, RowGood
      <3>2. Len(p) = row2 - 1 /\ ~(Len(p) >= row2) /\ ~(row2 <= Len(p))
        BY <1>2, <1>3, <3>1
      <3>3. q = Append(p, copy)
        BY <2>2, <3>2 DEF Placed
      <3>4. q \in Seq(Row) /\ Len(q) = row2
        BY <1>3, <1>5, <3>2, <3>3
      <3>5. \A k \in 1..row2 : q[k] = IF k = row2 THEN copy ELSE p[k]
        BY <1>3, <1>5, <3>2, <3>3
      <3>6. \A k \in 1..row2 : k # row2 => k \in 1..Len(p)
        BY <1>3, <3>2
      <3>7. row2 \in 1..row2
        BY <1>3
      <3> QED
        BY <3>2, <3>4, <3>5, <3>6, <3>7 DEF RowPut
    <2> QED
      BY <2>1, <2>2
  <1>7. /\ Good(q)
        /\ \A c, r : At(q, c, r) = IF r = row2 THEN CellIn(rs[row].C, c) ELSE At(p, c, r)
        /\ \A r : AttrOf(q, r) = IF r = row2 THEN rs[row].attr ELSE AttrOf(p, r)
        /\ Short(p) /\ row2 <= MaxRow /\ Len(rs[row].C) <= MaxCol => Short(q)
    BY ONLY <1>2, <1>5, <1>6, row2 \in Coordinate, RowPutIs
  <1>8. ASSUME NEW c \in Nat, NEW r \in Nat
        PROVE  LET r0 == IF r < row2 THEN r ELSE IF r = row2 THEN row ELSE r - 1
               IN  At(q, c, r) = At(rs, c, r0) /\ AttrOf(q, r) = AttrOf(rs, r0)
    <2>1. CASE r = row2
      <3>1. At(rs, c, row) = CellIn(rs[row].C, c) /\ AttrOf(rs, row) = rs[row].attr
        BY <1>4, AtIs DEF CellsOf, AttrOf
      <3>2. ~(r < row2)
        BY <1>3, <2>1
      <3>3. At(q, c, r) = CellIn(rs[row].C, c) /\ AttrOf(q, r) = rs[row].attr
        BY <1>7, <2>1
      <3> QED
        BY <2>1, <3>1, <3>2, <3>3
    <2>2. CASE r # row2
      <3> DEFINE r1 == IF r < row2 THEN r ELSE IF r = row2 THEN 0 ELSE r - 1
                 r2 == IF r < row2 THEN r ELSE IF r = row2 THEN row ELSE r - 1
      <3>1. r1 = r2
        BY <2>2
      <3>2. ReadsRow(s, r, rs, r1)
        BY <1>1
      <3> HIDE DEF r1, r2
      <3>3. CellAt(s, c, r) = At(rs, c, r1) /\ RowAttrAt(s, r) = AttrOf(rs, r1)
        BY <3>2 DEF ReadsRow
      <3>4. At(p, c, r) = CellAt(s, c, r) /\ AttrOf(p, r) = RowAttrAt(s, r)
        BY <1>2 DEF ReadsAs
      <3>5. At(q, c, r) = At(p, c, r) /\ AttrOf(q, r) = AttrOf(p, r)
        BY <1>7, <2>2
      <3>6. At(q, c, r) = At(rs, c, r2) /\ AttrOf(q, r) = AttrOf(rs, r2)
        BY <3>1, <3>3, <3>4, <3>5
      <3> QED
        BY <3>6 DEF r2
    <2> QED
      BY <2>1, <2>2
  <1>9. ASSUME Short(rs), row2 <= MaxRow, row2 <= Len(rs) => Len(rs) < MaxRow
        PROVE  Short(q)
    <2>1. Short(p)
      BY <1>1, <1>2, <1>9
    <2>2. Len(rs[row].C) <= MaxCol
      BY <1>4, <1>9 DEF Short
    <2> QED
      BY <1>7, <1>9, <2>1, <2>2
  <1> QED
    BY <1>7, <1>8, <1>9

-----------------------------------------------------------------------------
(* The operations of the abstract sheet, field by field.                   *)

CellContent == [t : CellTypes, v : CellValues, s : StyleIds, f : BOOLEAN]
SheetView == [cells : [Cols \X Rows -> CellContent], attrs : [Rows -> RowAttrs]]

\* a function on D, whatever its values
On(F, D) == F = [p \in D |-> F[p]]

\* the sheet S has the cells F and the attributes G
Agrees(S, F, G) == /\ \A c \in Cols, r \in Rows : S.cells[<<c, r>>] = F[<<c, r>>]
                   /\ \A r \in Rows : S.attrs[r] = G[r]

\* two sheets with the same cells and attributes are one
LEMMA SameView ==
  ASSUME NEW S \in SheetView, NEW F, NEW G, On(F, Cols \X Rows), On(G, Rows), Agrees(S, F, G)
  PROVE  S = [cells |-> F, attrs |-> G]
  <1>1. S.cells \in [Cols \X Rows -> CellContent] /\ S.attrs \in [Rows -> RowAttrs]
    BY DEF SheetView
  <1>2. \A p \in Cols \X Rows : S.cells[p] = F[p]
    <2> TAKE p \in Cols \X Rows
    <2>1. p = <<p[1], p[2]>> /\ p[1] \in Cols /\ p[2] \in Rows
      OBVIOUS
    <2> QED
      BY <2>1 DEF Agrees
  <1>3. S.cells = F
    BY <1>1, <1>2 DEF On
  <1>4. S.attrs = G
    BY <1>1 DEF On, Agrees
  <1> QED
    BY <1>3, <1>4 DEF SheetView

LEMMA CellsPut ==
  ASSUME NEW S \in SheetView, NEW F
  PROVE  [S EXCEPT !.cells = F] = [cells |-> F, attrs |-> S.attrs]
  BY DEF SheetView

LEMMA AttrsPut ==
  ASSUME NEW S \in SheetView, NEW F
  PROVE  [S EXCEPT !.attrs = F] = [cells |-> S.cells, attrs |-> F]
  BY DEF SheetView

LEMMA AbsSetCell ==
  ASSUME NEW S \in SheetView, NEW col, NEW row, NEW w, NEW cs
  PROVE  Abstract!SetCell(S, col, row, w, cs) =
           [cells |-> [S.cells EXCEPT ![<<col, row>>] = Abstract!Valued(S.cells[<<col, row>>], w, cs)],
            attrs |-> S.attrs]
  BY CellsPut DEF Abstract!SetCell

LEMMA AbsSetCellFormula ==
  ASSUME NEW S \in SheetView, NEW col, NEW row, NEW b
  PROVE  Abstract!SetCellFormula(S, col, row, b) =
           [cells |-> [S.cells EXCEPT ![<<col, row>>].f = b], attrs |-> S.attrs]
  BY CellsPut DEF Abstract!SetCellFormula

\* the cells of S with the style st in an area
StyledCells(S, c1, r1, c2, r2, st) ==
  [p \in Cols \X Rows |-> IF Abstract!Between(p[1], c1, c2) /\ Abstract!Between(p[2], r1, r2)
                          THEN [S.cells[p] EXCEPT !.s = st] ELSE S.cells[p]]

LEMMA AbsSetCellStyle ==
  ASSUME NEW S \in SheetView, NEW c1, NEW r1, NEW c2, NEW r2, NEW st
  PROVE  Abstract!SetCellStyle(S, c1, r1, c2, r2, st) =
           [cells |-> StyledCells(S, c1, r1, c2, r2, st), attrs |-> S.attrs]
  BY CellsPut DEF StyledCells, Abstract!SetCellStyle, Abstract!Cols, Abstract!Rows, Cols, Rows

LEMMA AbsSetRowAttr ==
  ASSUME NEW S \in SheetView, NEW row, NEW a
  PROVE  Abstract!SetRowAttr(S, row, a) =
           [cells |-> S.cells, attrs |-> [S.attrs EXCEPT ![row] = a]]
  BY AttrsPut DEF Abstract!SetRowAttr

LEMMA AbsFromCol ==
  ASSUME NEW S \in SheetView, NEW src
  PROVE  Abstract!FromCol(S, src) =
           [cells |-> [p \in Cols \X Rows |->
                         IF src[p[1]] \in Cols THEN S.cells[<<src[p[1]], p[2]>>] ELSE BlankContent],
            attrs |-> S.attrs]
  BY CellsPut DEF Abstract!FromCol, Abstract!Blank, BlankContent, Abstract!Cols, Abstract!Rows, Cols, Rows

\* a view is a sheet
LEMMA ViewType ==
  ASSUME NEW rs \in Seq(Row), Sparse(rs)
  PROVE  View(rs) \in SheetView
  <1>1. ASSUME NEW c, NEW r PROVE CellAt(rs, c, r) \in CellContent
    <2>1. CASE \E i, k : IsCell(rs, i, k) /\ rs[i].R = r /\ rs[i].C[k].col = c
      <3>1. PICK i, k : IsCell(rs, i, k) /\ rs[i].R = r /\ rs[i].C[k].col = c
        BY <2>1
      <3>2. CellAt(rs, c, r) = Content(rs[i].C[k])
        BY <3>1, ReadCell
      <3>3. rs[i].C[k] \in Cell
        BY <3>1, SparseFacts
      <3> QED
        BY <3>2, <3>3 DEF Content, Cell, CellContent
    <2>2. CASE ~\E i, k : IsCell(rs, i, k) /\ rs[i].R = r /\ rs[i].C[k].col = c
      <3>1. CellAt(rs, c, r) = BlankContent
        BY <2>2, ReadNone DEF Absent
      <3> QED
        <4>1. BlankContent \in CellContent
          BY DefaultsAssumption, Zenon DEF BlankContent, CellContent
        <4> QED
          BY <3>1, <4>1
    <2> QED
      BY <2>1, <2>2
  <1>2. ASSUME NEW r PROVE RowAttrAt(rs, r) \in RowAttrs
    <2>1. CASE \E i \in 1..Len(rs) : rs[i].R = r
      <3>1. PICK i \in 1..Len(rs) : rs[i].R = r
        BY <2>1
      <3>2. RowAttrAt(rs, r) = rs[i].attr
        BY <3>1, ReadAttr
      <3>3. rs[i] \in Row
        BY SparseFacts
      <3> QED
        BY <3>2, <3>3, RowType
    <2>2. CASE ~\E i \in 1..Len(rs) : rs[i].R = r
      BY <2>2, ReadNoAttr, DefaultsAssumption
    <2> QED
      BY <2>1, <2>2
  <1> QED
    BY <1>1, <1>2 DEF View, SheetView

\* of a contiguous store, by position
LEMMA ViewGood ==
  ASSUME NEW rs, Good(rs)
  PROVE  /\ View(rs) \in SheetView
         /\ \A c \in Cols, r \in Rows : View(rs).cells[<<c, r>>] = At(rs, c, r)
         /\ \A r \in Rows : View(rs).attrs[r] = AttrOf(rs, r)
  <1>1. View(rs) \in SheetView
    BY GoodSparse, ViewType
  <1>2. \A c \in Cols, r \in Rows : View(rs).cells[<<c, r>>] = CellAt(rs, c, r)
    BY DEF View
  <1>3. \A r \in Rows : View(rs).attrs[r] = RowAttrAt(rs, r)
    BY DEF View
  <1> QED
    BY <1>1, <1>2, <1>3, GoodRead

\* a view follows from what is read at each place
LEMMA ViewIs ==
  ASSUME NEW t, Good(t), NEW F, NEW G,
         On(F, Cols \X Rows), On(G, Rows),
         \A c \in Cols, r \in Rows : At(t, c, r) = F[<<c, r>>],
         \A r \in Rows : AttrOf(t, r) = G[r]
  PROVE  View(t) = [cells |-> F, attrs |-> G]
  <1>1. View(t) \in SheetView /\ Agrees(View(t), F, G)
    BY ViewGood DEF Agrees
  <1> QED
    BY ONLY <1>1, On(F, Cols \X Rows), On(G, Rows), SameView

\* Puts, on the sheet
PutsOn(rs, t, col, row, x) ==
  \A c \in Cols, r \in Rows : At(t, c, r) = IF c = col /\ r = row THEN x ELSE At(rs, c, r)

\* a write to one cell
LEMMA PutView ==
  ASSUME NEW rs, Good(rs), NEW t, Good(t), NEW col \in Cols, NEW row \in Rows, NEW x,
         PutsOn(rs, t, col, row, x), SameAttrs(rs, t)
  PROVE  View(t) = [cells |-> [View(rs).cells EXCEPT ![<<col, row>>] = x],
                    attrs |-> View(rs).attrs]
  <1> DEFINE S == View(rs)
             F == [S.cells EXCEPT ![<<col, row>>] = x]
  <1>1. /\ S \in SheetView
        /\ \A c \in Cols, r \in Rows : S.cells[<<c, r>>] = At(rs, c, r)
        /\ \A r \in Rows : S.attrs[r] = AttrOf(rs, r)
    BY ViewGood
  <1> HIDE DEF S
  <1>2. S.cells \in [Cols \X Rows -> CellContent] /\ S.attrs \in [Rows -> RowAttrs]
    BY <1>1 DEF SheetView
  <1>3. On(F, Cols \X Rows) /\ On(S.attrs, Rows)
    BY <1>2 DEF On
  <1>4. \A c \in Cols, r \in Rows : F[<<c, r>>] = IF c = col /\ r = row THEN x ELSE At(rs, c, r)
    BY <1>1, <1>2
  <1>5. \A c \in Cols, r \in Rows : At(t, c, r) = IF c = col /\ r = row THEN x ELSE At(rs, c, r)
    BY DEF PutsOn
  <1>6. \A r \in Rows : AttrOf(t, r) = S.attrs[r]
    BY <1>1 DEF SameAttrs
  <1> HIDE DEF F
  <1>7. View(t) = [cells |-> F, attrs |-> S.attrs]
    <2>1. \A c \in Cols, r \in Rows : At(t, c, r) = F[<<c, r>>]
      BY <1>4, <1>5
    <2> QED
      BY <1>3, <1>6, <2>1, ViewIs
  <1> QED
    BY <1>7 DEF F, S

\* the cells and the rows of the sheet
LEMMA Places ==
  /\ \A c \in Cols : c \in Coordinate /\ c \in Nat /\ c >= 1 /\ c <= MaxCol
  /\ \A r \in Rows : r \in Coordinate /\ r \in Nat /\ r >= 1 /\ r <= MaxRow
  /\ MaxRow \in Nat /\ MaxCol \in Nat
  BY GridAssumption DEF Cols, Rows, Coordinate

LEMMA AtType ==
  ASSUME NEW rs, Good(rs), NEW c \in Cols, NEW r \in Rows
  PROVE  At(rs, c, r) \in CellContent
  <1>1. View(rs) \in SheetView /\ View(rs).cells[<<c, r>>] = At(rs, c, r)
    BY ViewGood
  <1> HIDE DEF View
  <1>2. View(rs).cells \in [Cols \X Rows -> CellContent]
    BY <1>1 DEF SheetView
  <1> QED
    BY <1>1, <1>2

LEMMA ValuedIs ==
  ASSUME NEW y \in CellContent, NEW w \in [t : CellTypes, v : CellValues], NEW cs \in StyleIds
  PROVE  Abstract!Valued(y, w, cs) = Valued(y, w.t, w.v, cs)
  <1> DEFINE e == IF y.s = 0 THEN cs ELSE y.s
             a == w.t
             b == w.v
             y1 == [y EXCEPT !.t = a]
             y2 == [y1 EXCEPT !.v = b]
             y3 == [y2 EXCEPT !.s = e]
             z == [t |-> a, v |-> b, s |-> e, f |-> y.f]
  <1>1. a \in CellTypes /\ b \in CellValues /\ e \in StyleIds
    BY DEF CellContent
  <1>2. Abstract!Valued(y, w, cs) = y3
    BY DEF Abstract!Valued
  <1>3. Valued(y, a, b, cs) = z
    BY DEF Valued, CellStyle
  <1> HIDE DEF a, b, e
  <1>4. y1 \in CellContent /\ y1.t = a /\ y1.f = y.f
    BY <1>1 DEF CellContent
  <1> HIDE DEF y1
  <1>5. y2 \in CellContent /\ y2.t = a /\ y2.v = b /\ y2.f = y.f
    BY <1>1, <1>4 DEF CellContent
  <1> HIDE DEF y2
  <1>6. y3 \in CellContent /\ y3.t = a /\ y3.v = b /\ y3.f = y.f /\ y3.s = e
    BY <1>1, <1>5 DEF CellContent
  <1> HIDE DEF y3
  <1>7. y3 = z
    BY <1>6 DEF CellContent
  <1> QED
    BY <1>2, <1>3, <1>7 DEF a, b

\* a value
LEMMA SetCellView ==
  ASSUME NEW rs, Good(rs), NEW col \in Cols, NEW row \in Rows,
         NEW w \in [t : CellTypes, v : CellValues], NEW cs \in StyleIds,
         NEW t, t = WriteCell(rs, col, row, w.t, w.v, cs)
  PROVE  /\ Good(t) /\ (Short(rs) => Short(t))
         /\ View(t) = Abstract!SetCell(View(rs), col, row, w, cs)
         /\ t[row].C[col].s = CellStyle(At(rs, col, row).s, cs)
         /\ At(t, col, row).s = CellStyle(At(rs, col, row).s, cs)
  <1> DEFINE x == Valued(At(rs, col, row), w.t, w.v, cs)
             S == View(rs)
  <1>0. w.t \in CellTypes /\ w.v \in CellValues
    OBVIOUS
  <1>1. /\ Good(t) /\ Puts(rs, t, col, row, x) /\ SameAttrs(rs, t)
        /\ Short(rs) /\ row <= MaxRow /\ col <= MaxCol => Short(t)
        /\ t[row].C[col].s = CellStyle(At(rs, col, row).s, cs)
    BY <1>0, Places, WriteCellIs
  <1>2. S \in SheetView /\ S.cells[<<col, row>>] = At(rs, col, row)
    BY ViewGood
  <1>3. x = Abstract!Valued(At(rs, col, row), w, cs)
    <2>1. At(rs, col, row) \in CellContent
      BY AtType
    <2> QED
      BY <2>1, ValuedIs
  <1>4. x.s = CellStyle(At(rs, col, row).s, cs)
    BY DEF Valued
  <1> HIDE DEF x, S
  <1>5. PutsOn(rs, t, col, row, x)
    BY <1>1 DEF Puts, PutsOn
  <1>6. View(t) = [cells |-> [View(rs).cells EXCEPT ![<<col, row>>] = x],
                   attrs |-> View(rs).attrs]
    BY <1>1, <1>5, PutView
  <1>7. Abstract!SetCell(S, col, row, w, cs) =
           [cells |-> [S.cells EXCEPT ![<<col, row>>] = Abstract!Valued(S.cells[<<col, row>>], w, cs)],
            attrs |-> S.attrs]
    BY <1>2, AbsSetCell
  <1>8. View(t) = Abstract!SetCell(View(rs), col, row, w, cs)
    BY <1>2, <1>3, <1>6, <1>7 DEF S
  <1>9. At(t, col, row) = x
    BY <1>5 DEF PutsOn
  <1> QED
    BY <1>1, <1>4, <1>8, <1>9, Places

\* a formula
LEMMA SetCellFormulaView ==
  ASSUME NEW rs, Good(rs), NEW col \in Cols, NEW row \in Rows, NEW b \in BOOLEAN,
         NEW t, t = WriteFormula(rs, col, row, b)
  PROVE  /\ Good(t) /\ (Short(rs) => Short(t))
         /\ View(t) = Abstract!SetCellFormula(View(rs), col, row, b)
  <1> DEFINE x == Formed(At(rs, col, row), b)
             S == View(rs)
  <1>1. /\ Good(t) /\ Puts(rs, t, col, row, x) /\ SameAttrs(rs, t)
        /\ Short(rs) /\ row <= MaxRow /\ col <= MaxCol => Short(t)
    BY Places, WriteFormulaIs
  <1>2. S \in SheetView /\ S.cells[<<col, row>>] = At(rs, col, row)
    BY ViewGood
  <1>3. x = [At(rs, col, row) EXCEPT !.f = b]
    <2>1. At(rs, col, row) \in CellContent
      BY AtType
    <2> QED
      BY <2>1 DEF Formed, CellContent
  <1> HIDE DEF x, S
  <1>5. PutsOn(rs, t, col, row, x)
    BY <1>1 DEF Puts, PutsOn
  <1>6. View(t) = [cells |-> [View(rs).cells EXCEPT ![<<col, row>>] = x],
                   attrs |-> View(rs).attrs]
    BY <1>1, <1>5, PutView
  <1>7. Abstract!SetCellFormula(S, col, row, b) =
           [cells |-> [S.cells EXCEPT ![<<col, row>>] = [S.cells[<<col, row>>] EXCEPT !.f = b]],
            attrs |-> S.attrs]
    BY <1>2, AbsSetCellFormula
  <1>8. View(t) = Abstract!SetCellFormula(View(rs), col, row, b)
    BY <1>2, <1>3, <1>6, <1>7 DEF S
  <1> QED
    BY <1>1, <1>8, Places

\* the attribute of a row
LEMMA SetRowAttrView ==
  ASSUME NEW rs, Good(rs), NEW row \in Rows, NEW a \in RowAttrs,
         NEW t, t = WriteRowAttr(rs, row, a)
  PROVE  /\ Good(t) /\ (Short(rs) => Short(t))
         /\ View(t) = Abstract!SetRowAttr(View(rs), row, a)
  <1> DEFINE S == View(rs)
             G == [S.attrs EXCEPT ![row] = a]
  <1>1. /\ Good(t) /\ SameCells(rs, t)
        /\ \A r : AttrOf(t, r) = IF r = row THEN a ELSE AttrOf(rs, r)
        /\ Short(rs) /\ row <= MaxRow => Short(t)
    BY Places, WriteRowAttrIs
  <1>2. /\ S \in SheetView
        /\ \A c \in Cols, r \in Rows : S.cells[<<c, r>>] = At(rs, c, r)
        /\ \A r \in Rows : S.attrs[r] = AttrOf(rs, r)
    BY ViewGood
  <1> HIDE DEF S
  <1>3. S.cells \in [Cols \X Rows -> CellContent] /\ S.attrs \in [Rows -> RowAttrs]
    BY <1>2 DEF SheetView
  <1>4. On(S.cells, Cols \X Rows) /\ On(G, Rows)
    BY <1>3 DEF On
  <1>5. \A r \in Rows : G[r] = IF r = row THEN a ELSE AttrOf(rs, r)
    BY <1>2, <1>3
  <1> HIDE DEF G
  <1>6. \A r \in Rows : AttrOf(t, r) = G[r]
    BY <1>1, <1>5
  <1>7. \A c \in Cols, r \in Rows : At(t, c, r) = S.cells[<<c, r>>]
    BY <1>1, <1>2 DEF SameCells
  <1>8. View(t) = [cells |-> S.cells, attrs |-> G]
    BY <1>1, <1>4, <1>6, <1>7, ViewIs
  <1>9. Abstract!SetRowAttr(S, row, a) = [cells |-> S.cells, attrs |-> G]
    BY <1>2, AbsSetRowAttr DEF G
  <1> QED
    BY <1>1, <1>8, <1>9, Places DEF S

LEMMA StyledIs ==
  ASSUME NEW x \in CellContent, NEW st \in StyleIds
  PROVE  [x EXCEPT !.s = st] = Styled(x, st)
  <1> DEFINE y == [x EXCEPT !.s = st]
  <1>1. y \in CellContent /\ y.t = x.t /\ y.v = x.v /\ y.f = x.f /\ y.s = st
    BY DEF CellContent
  <1> HIDE DEF y
  <1>2. y = Styled(x, st)
    BY <1>1 DEF CellContent, Styled
  <1> QED
    BY <1>2 DEF y

\* the styles of an area
LEMMA SetCellStyleView ==
  ASSUME NEW rs, Good(rs), NEW c1 \in Cols, NEW r1 \in Rows, NEW c2 \in Cols, NEW r2 \in Rows,
         NEW st \in StyleIds, NEW hcol, NEW hrow, NEW vcol, NEW vrow,
         hcol = IF c2 < c1 THEN c2 ELSE c1, vcol = IF c2 < c1 THEN c1 ELSE c2,
         hrow = IF r2 < r1 THEN r2 ELSE r1, vrow = IF r2 < r1 THEN r1 ELSE r2,
         NEW t, t = WriteStyle(rs, hcol, hrow, vcol, vrow, st)
  PROVE  /\ Good(t) /\ (Short(rs) => Short(t))
         /\ View(t) = Abstract!SetCellStyle(View(rs), c1, r1, c2, r2, st)
  <1> DEFINE S == View(rs)
             F == StyledCells(S, c1, r1, c2, r2, st)
  <1>0. hcol \in Cols /\ vcol \in Cols /\ hrow \in Rows /\ vrow \in Rows
    OBVIOUS
  <1>1. /\ Good(t) /\ SameAttrs(rs, t) /\ Styles(rs, t, hcol, hrow, vcol, vrow, st)
        /\ Short(rs) /\ vrow <= MaxRow /\ vcol <= MaxCol => Short(t)
    BY <1>0, Places, WriteStyleIs
  <1>2. /\ S \in SheetView
        /\ \A c \in Cols, r \in Rows : S.cells[<<c, r>>] = At(rs, c, r)
        /\ \A r \in Rows : S.attrs[r] = AttrOf(rs, r)
    BY ViewGood
  <1> HIDE DEF S
  <1>3. S.cells \in [Cols \X Rows -> CellContent] /\ S.attrs \in [Rows -> RowAttrs]
    BY <1>2 DEF SheetView
  <1>4. On(F, Cols \X Rows) /\ On(S.attrs, Rows)
    BY <1>3 DEF On, StyledCells
  <1>5. ASSUME NEW c \in Cols, NEW r \in Rows
        PROVE  At(t, c, r) = F[<<c, r>>]
    <2>0. c \in Nat /\ r \in Nat /\ c1 \in Nat /\ c2 \in Nat /\ r1 \in Nat /\ r2 \in Nat
      BY Places
    <2>1. F[<<c, r>>] = IF Abstract!Between(c, c1, c2) /\ Abstract!Between(r, r1, r2)
                        THEN [S.cells[<<c, r>>] EXCEPT !.s = st] ELSE S.cells[<<c, r>>]
      BY DEF StyledCells
    <2>2. Abstract!Between(c, c1, c2) <=> hcol <= c /\ c <= vcol
      BY <2>0 DEF Abstract!Between
    <2>3. Abstract!Between(r, r1, r2) <=> hrow <= r /\ r <= vrow
      BY <2>0 DEF Abstract!Between
    <2>4. At(t, c, r) = IF hcol <= c /\ c <= vcol /\ hrow <= r /\ r <= vrow
                        THEN Styled(At(rs, c, r), st) ELSE At(rs, c, r)
      BY <1>1, <2>0 DEF Styles
    <2>5. S.cells[<<c, r>>] = At(rs, c, r) /\ At(rs, c, r) \in CellContent
      BY <1>2, AtType
    <2>6. [At(rs, c, r) EXCEPT !.s = st] = Styled(At(rs, c, r), st)
      BY <2>5, StyledIs
    <2> HIDE DEF F
    <2> QED
      BY <2>1, <2>2, <2>3, <2>4, <2>5, <2>6
  <1>6. Abstract!SetCellStyle(S, c1, r1, c2, r2, st) = [cells |-> F, attrs |-> S.attrs]
    BY <1>2, AbsSetCellStyle
  <1> HIDE DEF F
  <1>7. \A r \in Rows : AttrOf(t, r) = S.attrs[r]
    BY <1>1, <1>2 DEF SameAttrs
  <1>8. View(t) = [cells |-> F, attrs |-> S.attrs]
    BY <1>1, <1>4, <1>5, <1>7, ViewIs
  <1> QED
    BY <1>0, <1>1, <1>6, <1>8, Places DEF S

\* the sheet V with the format of dates at q
Timed(V, q) ==
  [cells |-> [V.cells EXCEPT ![q] = [V.cells[q] EXCEPT !.s = TimeStyle]], attrs |-> V.attrs]

LEMMA TimeStyled ==
  ASSUME NEW S \in SheetView, NEW q
  PROVE  [S EXCEPT !.cells[q].s = TimeStyle] = Timed(S, q)
  BY CellsPut DEF Timed

TimeWrite == [t |-> "", v |-> TimeValue]
TimedIf(V, col, row, q) == IF V.cells[<<col, row>>].s = 0 THEN Timed(V, q) ELSE V

LEMMA AbsSetCellTime ==
  ASSUME NEW S, NEW col, NEW row, NEW acol, NEW arow, NEW cs,
         NEW V \in SheetView, V = Abstract!SetCell(S, col, row, TimeWrite, cs)
  PROVE  Abstract!SetCellTime(S, col, row, acol, arow, cs) = TimedIf(V, col, row, <<acol, arow>>)
  <1> DEFINE A == Abstract!SetCell(S, col, row, [t |-> "", v |-> TimeValue], cs)
  <1>1. Abstract!SetCellTime(S, col, row, acol, arow, cs) =
          IF A.cells[<<col, row>>].s = 0
          THEN [A EXCEPT !.cells[<<acol, arow>>].s = TimeStyle] ELSE A
    BY DEF Abstract!SetCellTime
  <1>2. A = V
    BY DEF TimeWrite
  <1> HIDE DEF A
  <1> QED
    BY <1>1, <1>2, TimeStyled DEF TimedIf

\* SetCellTime, as one function of the store
TimeValued(rs, col, row, cs) == WriteCell(rs, col, row, "", TimeValue, cs)
TimeStored(rs, col, row, acol, arow, cs) ==
  SetDefaultTimeStyle(TimeValued(rs, col, row, cs), col, row, acol, arow, cs)

\* a time: the value, then the default format where the caller pointed
LEMMA SetCellTimeView ==
  ASSUME NEW rs, Good(rs), NEW col \in Cols, NEW row \in Rows, NEW acol \in Cols, NEW arow \in Rows,
         NEW cs \in StyleIds, NEW t, t = TimeStored(rs, col, row, acol, arow, cs)
  PROVE  /\ Good(t) /\ (Short(rs) => Short(t))
         /\ View(t) = Abstract!SetCellTime(View(rs), col, row, acol, arow, cs)
  <1> DEFINE w == TimeWrite
             v == TimeValued(rs, col, row, cs)
             V == View(v)
             s0 == At(rs, col, row).s
  <1>0. w \in [t : CellTypes, v : CellValues] /\ w.t = "" /\ w.v = TimeValue
    BY DefaultsAssumption, GridAssumption DEF TimeWrite
  <1>1. /\ Good(v) /\ (Short(rs) => Short(v))
        /\ V = Abstract!SetCell(View(rs), col, row, w, cs)
        /\ v[row].C[col].s = CellStyle(s0, cs)
        /\ At(v, col, row).s = CellStyle(s0, cs)
    <2>1. v = WriteCell(rs, col, row, w.t, w.v, cs)
      BY <1>0 DEF TimeValued
    <2>2. w \in [t : CellTypes, v : CellValues]
      BY <1>0
    <2> HIDE DEF w, v
    <2>3. /\ Good(v) /\ (Short(rs) => Short(v))
          /\ View(v) = Abstract!SetCell(View(rs), col, row, w, cs)
          /\ v[row].C[col].s = CellStyle(At(rs, col, row).s, cs)
          /\ At(v, col, row).s = CellStyle(At(rs, col, row).s, cs)
      BY ONLY <2>1, <2>2, Good(rs), col \in Cols, row \in Rows, cs \in StyleIds, SetCellView
    <2> QED
      BY <2>3
  <1>t. t = SetDefaultTimeStyle(v, col, row, acol, arow, cs)
    BY DEF TimeStored
  <1> HIDE DEF v
  <1>2. /\ V \in SheetView
        /\ \A c \in Cols, r \in Rows : V.cells[<<c, r>>] = At(v, c, r)
    BY <1>1, ViewGood
  <1> HIDE DEF V
  <1>3. Abstract!SetCellTime(View(rs), col, row, acol, arow, cs) = TimedIf(V, col, row, <<acol, arow>>)
    <2>1. V \in SheetView /\ V = Abstract!SetCell(View(rs), col, row, TimeWrite, cs)
      BY <1>1, <1>2
    <2> QED
      BY ONLY <2>1, AbsSetCellTime
  <1>4. V.cells[<<col, row>>].s = 0 <=> CellStyle(v[row].C[col].s, cs) = 0
    <2>1. CellStyle(CellStyle(s0, cs), cs) = CellStyle(s0, cs)
      BY DEF CellStyle
    <2> QED
      BY <1>1, <1>2, <2>1
  <1>5. CASE CellStyle(v[row].C[col].s, cs) = 0
    <2> DEFINE x == Styled(At(v, acol, arow), TimeStyle)
    <2>1. t = WriteStyle(v, acol, arow, acol, arow, TimeStyle)
      BY <1>5, <1>t DEF SetDefaultTimeStyle
    <2>2. /\ Good(t) /\ SameAttrs(v, t) /\ Styles(v, t, acol, arow, acol, arow, TimeStyle)
          /\ Short(v) /\ arow <= MaxRow /\ acol <= MaxCol => Short(t)
      BY <1>1, <2>1, Places, GridAssumption, WriteStyleIs
    <2>3. PutsOn(v, t, acol, arow, x)
      <3>1. ASSUME NEW c \in Cols, NEW r \in Rows
            PROVE  (acol <= c /\ c <= acol /\ arow <= r /\ r <= arow) <=> (c = acol /\ r = arow)
        <4>1. c \in Nat /\ r \in Nat /\ acol \in Nat /\ arow \in Nat
          BY Places
        <4> QED
          BY ONLY <4>1
      <3>2. ASSUME NEW c \in Cols, NEW r \in Rows
            PROVE  At(t, c, r) = IF c = acol /\ r = arow THEN x ELSE At(v, c, r)
        <4>1. At(t, c, r) = IF acol <= c /\ c <= acol /\ arow <= r /\ r <= arow
                            THEN Styled(At(v, c, r), TimeStyle) ELSE At(v, c, r)
          BY <2>2, Places DEF Styles
        <4> QED
          BY <3>1, <4>1
      <3> HIDE DEF x
      <3> QED
        BY <3>2 DEF PutsOn
    <2>4. [V.cells[<<acol, arow>>] EXCEPT !.s = TimeStyle] = x
      <3>1. V.cells[<<acol, arow>>] = At(v, acol, arow) /\ At(v, acol, arow) \in CellContent
        BY <1>1, <1>2, AtType
      <3> QED
        BY <3>1, GridAssumption, StyledIs
    <2> HIDE DEF x
    <2>5. View(t) = [cells |-> [View(v).cells EXCEPT ![<<acol, arow>>] = x],
                     attrs |-> View(v).attrs]
      <3>1. Good(v) /\ Good(t) /\ SameAttrs(v, t)
        BY <1>1, <2>2
      <3> QED
        BY ONLY <2>3, <3>1, acol \in Cols, arow \in Rows, PutView
    <2>6. Timed(V, <<acol, arow>>) = View(t)
      BY <2>4, <2>5 DEF Timed, V
    <2> QED
      BY <1>1, <1>3, <1>4, <1>5, <2>2, <2>6, Places DEF TimedIf
  <1>6. CASE ~(CellStyle(v[row].C[col].s, cs) = 0)
    <2>1. t = v
      BY <1>6, <1>t DEF SetDefaultTimeStyle
    <2> QED
      BY <1>1, <1>3, <1>4, <1>6, <2>1 DEF V, TimedIf
  <1> QED
    BY <1>5, <1>6

\* the cells and attributes of a sheet made of the rows (columns) src of S
RowCells(S, src) == [p \in Cols \X Rows |->
                       IF src[p[2]] \in Rows THEN S.cells[<<p[1], src[p[2]]>>] ELSE BlankContent]
RowsAttrs(S, src) == [r \in Rows |-> IF src[r] \in Rows THEN S.attrs[src[r]] ELSE 0]
ColCells(S, src) == [p \in Cols \X Rows |->
                       IF src[p[1]] \in Cols THEN S.cells[<<src[p[1]], p[2]>>] ELSE BlankContent]

LEMMA AbsFromRow ==
  ASSUME NEW S, NEW src
  PROVE  Abstract!FromRow(S, src) = [cells |-> RowCells(S, src), attrs |-> RowsAttrs(S, src)]
  BY DEF Abstract!FromRow, Abstract!Blank, BlankContent, Abstract!Cols, Abstract!Rows, Cols, Rows,
         RowCells, RowsAttrs

LEMMA AbsFromColumn ==
  ASSUME NEW S \in SheetView, NEW src
  PROVE  Abstract!FromCol(S, src) = [cells |-> ColCells(S, src), attrs |-> S.attrs]
  BY AbsFromCol DEF ColCells

\* a store whose rows read as the rows src of another
LEMMA FromRowView ==
  ASSUME NEW rs, Good(rs), Short(rs), NEW t, Good(t), NEW src, \A r \in Rows : src[r] \in Nat,
         \A c \in Cols, r \in Rows : At(t, c, r) = At(rs, c, src[r]),
         \A r \in Rows : AttrOf(t, r) = AttrOf(rs, src[r])
  PROVE  View(t) = Abstract!FromRow(View(rs), src)
  <1> DEFINE S == View(rs)
             F == RowCells(S, src)
             G == RowsAttrs(S, src)
  <1>1. /\ S \in SheetView
        /\ \A c \in Cols, r \in Rows : S.cells[<<c, r>>] = At(rs, c, r)
        /\ \A r \in Rows : S.attrs[r] = AttrOf(rs, r)
    BY ViewGood
  <1> HIDE DEF S
  <1>2. On(F, Cols \X Rows) /\ On(G, Rows)
    BY DEF On, RowCells, RowsAttrs
  <1>3. ASSUME NEW r \in Rows, ~(src[r] \in Rows) PROVE ~(src[r] \in 1..Len(rs))
    <2>1. Len(rs) \in Nat /\ Len(rs) <= MaxRow /\ MaxRow \in Nat /\ src[r] \in Nat
      BY Places DEF Short, Good
    <2> QED
      BY <1>3, <2>1 DEF Rows
  <1>4. ASSUME NEW c \in Cols, NEW r \in Rows
        PROVE  At(t, c, r) = F[<<c, r>>]
    <2>1. F[<<c, r>>] = IF src[r] \in Rows THEN S.cells[<<c, src[r]>>] ELSE BlankContent
      BY DEF RowCells
    <2> HIDE DEF F
    <2>2. At(t, c, r) = At(rs, c, src[r])
      OBVIOUS
    <2>3. CASE src[r] \in Rows
      BY <1>1, <2>1, <2>2, <2>3
    <2>4. CASE ~(src[r] \in Rows)
      BY <1>3, <2>1, <2>2, <2>4, BeyondReads
    <2> QED
      BY <2>3, <2>4
  <1>5. ASSUME NEW r \in Rows
        PROVE  AttrOf(t, r) = G[r]
    <2>1. G[r] = IF src[r] \in Rows THEN S.attrs[src[r]] ELSE 0
      BY DEF RowsAttrs
    <2> HIDE DEF G
    <2>2. AttrOf(t, r) = AttrOf(rs, src[r])
      OBVIOUS
    <2>3. CASE src[r] \in Rows
      BY <1>1, <2>1, <2>2, <2>3
    <2>4. CASE ~(src[r] \in Rows)
      BY <1>3, <2>1, <2>2, <2>4, BeyondReads
    <2> QED
      BY <2>3, <2>4
  <1> HIDE DEF F, G
  <1>6. View(t) = [cells |-> F, attrs |-> G]
    <2>1. \A c \in Cols, r \in Rows : At(t, c, r) = F[<<c, r>>]
      BY <1>4
    <2>2. \A r \in Rows : AttrOf(t, r) = G[r]
      BY <1>5
    <2> QED
      BY ONLY Good(t), <1>2, <2>1, <2>2, ViewIs
  <1>7. Abstract!FromRow(S, src) = [cells |-> F, attrs |-> G]
    BY AbsFromRow DEF F, G
  <1> QED
    BY <1>6, <1>7 DEF S

\* a store whose columns read as the columns src of another
LEMMA FromColView ==
  ASSUME NEW rs, Good(rs), Short(rs), NEW t, Good(t), NEW src, \A c \in Cols : src[c] \in Nat,
         \A c \in Cols, r \in Rows : At(t, c, r) = At(rs, src[c], r),
         \A r \in Rows : AttrOf(t, r) = AttrOf(rs, r)
  PROVE  View(t) = Abstract!FromCol(View(rs), src)
  <1> DEFINE S == View(rs)
             F == ColCells(S, src)
  <1>1. /\ S \in SheetView
        /\ \A c \in Cols, r \in Rows : S.cells[<<c, r>>] = At(rs, c, r)
        /\ \A r \in Rows : S.attrs[r] = AttrOf(rs, r)
    BY ViewGood
  <1> HIDE DEF S
  <1>2. On(F, Cols \X Rows) /\ On(S.attrs, Rows)
    BY <1>1 DEF On, ColCells, SheetView
  <1>3. ASSUME NEW c \in Cols, NEW r, ~(src[c] \in Cols) PROVE At(rs, src[c], r) = BlankContent
    <2>1. CASE r \in 1..Len(rs)
      <3>1. Len(rs[r].C) \in Nat /\ Len(rs[r].C) <= MaxCol /\ MaxCol \in Nat /\ src[c] \in Nat
        BY <2>1, Places, GoodFacts DEF Short
      <3>2. ~(src[c] \in 1..Len(rs[r].C))
        BY <1>3, <3>1 DEF Cols
      <3> QED
        BY <3>2 DEF At, HasAt
    <2>2. CASE ~(r \in 1..Len(rs))
      BY <2>2, BeyondReads
    <2> QED
      BY <2>1, <2>2
  <1>4. ASSUME NEW c \in Cols, NEW r \in Rows
        PROVE  At(t, c, r) = F[<<c, r>>]
    <2>1. F[<<c, r>>] = IF src[c] \in Cols THEN S.cells[<<src[c], r>>] ELSE BlankContent
      BY DEF ColCells
    <2> HIDE DEF F
    <2>2. At(t, c, r) = At(rs, src[c], r)
      OBVIOUS
    <2>3. CASE src[c] \in Cols
      BY <1>1, <2>1, <2>2, <2>3
    <2>4. CASE ~(src[c] \in Cols)
      BY <1>3, <2>1, <2>2, <2>4
    <2> QED
      BY <2>3, <2>4
  <1> HIDE DEF F
  <1>6. View(t) = [cells |-> F, attrs |-> S.attrs]
    <2>1. \A r \in Rows : AttrOf(t, r) = S.attrs[r]
      BY <1>1
    <2>2. \A c \in Cols, r \in Rows : At(t, c, r) = F[<<c, r>>]
      BY <1>4
    <2>3. Good(t)
      OBVIOUS
    <2> QED
      BY ONLY <1>2, <2>1, <2>2, <2>3, ViewIs
  <1>7. Abstract!FromCol(S, src) = [cells |-> F, attrs |-> S.attrs]
    BY <1>1, AbsFromColumn DEF F
  <1> QED
    BY <1>6, <1>7 DEF S

\* the repaired store shows what the renumbered one holds
LEMMA CheckedReads ==
  ASSUME NEW s \in Seq(Row), Sparse(s), NEW t, t = Check(s)
  PROVE  /\ Good(t) /\ ~CheckPanics(s) /\ (Within(s) => Short(t))
         /\ \A c, r : At(t, c, r) = CellAt(s, c, r)
         /\ \A r : AttrOf(t, r) = RowAttrAt(s, r)
  BY CheckIs, CheckGood DEF ReadsAs

LEMMA InsertRowView ==
  ASSUME NEW rs, Good(rs), Short(rs), NEW row \in Rows, row <= Len(rs) => Len(rs) < MaxRow,
         NEW s, s = AdjustRowDimensions(rs, row, 1), NEW t, t = Check(s)
  PROVE  /\ Good(t) /\ Short(t) /\ ~CheckPanics(s)
         /\ View(t) = Abstract!InsertRow(View(rs), row)
  <1> DEFINE src == [r \in Rows |-> IF r < row THEN r ELSE IF r = row THEN 0 ELSE r - 1]
  <1>1. /\ s \in Seq(Row) /\ Sparse(s) /\ Within(s)
        /\ \A r \in Nat : ReadsRow(s, r, rs, IF r < row THEN r ELSE IF r = row THEN 0 ELSE r - 1)
    BY Places, InsertRowIs
  <1>2. /\ Good(t) /\ ~CheckPanics(s) /\ Short(t)
        /\ \A c, r : At(t, c, r) = CellAt(s, c, r)
        /\ \A r : AttrOf(t, r) = RowAttrAt(s, r)
    BY <1>1, CheckedReads
  <1>3. \A r \in Rows : src[r] \in Nat
    <2> TAKE r \in Rows
    <2>1. r \in Nat /\ row \in Nat
      BY Places
    <2> QED
      BY <2>1
  <1>4. \A r \in Rows : ReadsRow(s, r, rs, src[r])
    BY <1>1, Places
  <1>5. Abstract!InsertRow(View(rs), row) = Abstract!FromRow(View(rs), src)
    BY DEF Abstract!InsertRow, Abstract!Rows, Rows
  <1> HIDE DEF src
  <1>6. \A c \in Cols, r \in Rows : At(t, c, r) = At(rs, c, src[r])
    BY <1>2, <1>4 DEF ReadsRow
  <1>7. \A r \in Rows : AttrOf(t, r) = AttrOf(rs, src[r])
    BY <1>2, <1>4 DEF ReadsRow
  <1>8. View(t) = Abstract!FromRow(View(rs), src)
    BY <1>2, <1>3, <1>6, <1>7, FromRowView
  <1> QED
    BY <1>2, <1>5, <1>8

LEMMA RemoveRowView ==
  ASSUME NEW rs, Good(rs), Short(rs), NEW row \in Rows, HasRow(rs, row),
         NEW s, s = AdjustRowDimensions(Without(rs, FirstRowAt(rs, row)), row, -1),
         NEW t, t = Check(s)
  PROVE  /\ Good(t) /\ Short(t) /\ ~CheckPanics(s)
         /\ View(t) = Abstract!RemoveRow(View(rs), row)
  <1> DEFINE src == [r \in Rows |-> IF r < row THEN r ELSE r + 1]
  <1>1. /\ s \in Seq(Row) /\ Sparse(s) /\ Within(s)
        /\ \A r \in Coordinate : ReadsRow(s, r, rs, IF r < row THEN r ELSE r + 1)
    BY Places, RemoveRowIs
  <1>2. /\ Good(t) /\ ~CheckPanics(s) /\ Short(t)
        /\ \A c, r : At(t, c, r) = CellAt(s, c, r)
        /\ \A r : AttrOf(t, r) = RowAttrAt(s, r)
    BY <1>1, CheckedReads
  <1>3. \A r \in Rows : src[r] \in Nat
    <2> TAKE r \in Rows
    <2>1. r \in Nat /\ row \in Nat
      BY Places
    <2> QED
      BY <2>1
  <1>4. \A r \in Rows : ReadsRow(s, r, rs, src[r])
    BY <1>1, Places
  <1>5. Abstract!RemoveRow(View(rs), row) = Abstract!FromRow(View(rs), src)
    BY DEF Abstract!RemoveRow, Abstract!Rows, Rows
  <1> HIDE DEF src
  <1>6. \A c \in Cols, r \in Rows : At(t, c, r) = At(rs, c, src[r])
    BY <1>2, <1>4 DEF ReadsRow
  <1>7. \A r \in Rows : AttrOf(t, r) = AttrOf(rs, src[r])
    BY <1>2, <1>4 DEF ReadsRow
  <1>8. View(t) = Abstract!FromRow(View(rs), src)
    BY <1>2, <1>3, <1>6, <1>7, FromRowView
  <1> QED
    BY <1>2, <1>5, <1>8

LEMMA InsertColView ==
  ASSUME NEW rs, Good(rs), Short(rs), NEW col \in Cols,
         \A i \in 1..Len(rs) : \A k \in 1..Len(rs[i].C) : rs[i].C[k].col >= col => rs[i].C[k].col < MaxCol,
         NEW s, s = AdjustColDimensions(rs, col, 1), NEW t, t = Check(s)
  PROVE  /\ Good(t) /\ Short(t) /\ ~CheckPanics(s)
         /\ View(t) = Abstract!InsertCol(View(rs), col)
  <1> DEFINE src == [c \in Cols |-> IF c < col THEN c ELSE IF c = col THEN 0 ELSE c - 1]
  <1>1. /\ s \in Seq(Row) /\ Sparse(s) /\ Within(s) /\ \A r : RowAttrAt(s, r) = AttrOf(rs, r)
        /\ \A r : \A c \in Nat : CellAt(s, c, r) =
             At(rs, IF c < col THEN c ELSE IF c = col THEN 0 ELSE c - 1, r)
    BY Places, InsertColIs
  <1>2. /\ Good(t) /\ ~CheckPanics(s) /\ Short(t)
        /\ \A c, r : At(t, c, r) = CellAt(s, c, r)
        /\ \A r : AttrOf(t, r) = RowAttrAt(s, r)
    BY <1>1, CheckedReads
  <1>3. \A c \in Cols : src[c] \in Nat
    <2> TAKE c \in Cols
    <2>1. c \in Nat /\ col \in Nat
      BY Places
    <2> QED
      BY <2>1
  <1>4. \A c \in Cols, r \in Rows : CellAt(s, c, r) = At(rs, src[c], r)
    BY <1>1, Places
  <1>5. Abstract!InsertCol(View(rs), col) = Abstract!FromCol(View(rs), src)
    BY DEF Abstract!InsertCol, Abstract!Cols, Cols
  <1> HIDE DEF src
  <1>6. \A c \in Cols, r \in Rows : At(t, c, r) = At(rs, src[c], r)
    BY <1>2, <1>4
  <1>7. \A r \in Rows : AttrOf(t, r) = AttrOf(rs, r)
    BY <1>1, <1>2
  <1>8. View(t) = Abstract!FromCol(View(rs), src)
    BY <1>2, <1>3, <1>6, <1>7, FromColView
  <1> QED
    BY <1>2, <1>5, <1>8

LEMMA RemoveColView ==
  ASSUME NEW rs, Good(rs), Short(rs), NEW col \in Cols,
         NEW s, s = AdjustColDimensions(DropColumn(rs, col), col, -1), NEW t, t = Check(s)
  PROVE  /\ Good(t) /\ Short(t) /\ ~CheckPanics(s)
         /\ View(t) = Abstract!RemoveCol(View(rs), col)
  <1> DEFINE src == [c \in Cols |-> IF c < col THEN c ELSE c + 1]
  <1>1. /\ s \in Seq(Row) /\ Sparse(s) /\ Within(s) /\ \A r : RowAttrAt(s, r) = AttrOf(rs, r)
        /\ \A r : \A c \in Coordinate : CellAt(s, c, r) = At(rs, IF c < col THEN c ELSE c + 1, r)
    BY Places, RemoveColIs
  <1>2. /\ Good(t) /\ ~CheckPanics(s) /\ Short(t)
        /\ \A c, r : At(t, c, r) = CellAt(s, c, r)
        /\ \A r : AttrOf(t, r) = RowAttrAt(s, r)
    BY <1>1, CheckedReads
  <1>3. \A c \in Cols : src[c] \in Nat
    <2> TAKE c \in Cols
    <2>1. c \in Nat /\ col \in Nat
      BY Places
    <2> QED
      BY <2>1
  <1>4. \A c \in Cols, r \in Rows : CellAt(s, c, r) = At(rs, src[c], r)
    BY <1>1, Places
  <1>5. Abstract!RemoveCol(View(rs), col) = Abstract!FromCol(View(rs), src)
    BY DEF Abstract!RemoveCol, Abstract!Cols, Cols
  <1> HIDE DEF src
  <1>6. \A c \in Cols, r \in Rows : At(t, c, r) = At(rs, src[c], r)
    BY <1>2, <1>4
  <1>7. \A r \in Rows : AttrOf(t, r) = AttrOf(rs, r)
    BY <1>1, <1>2
  <1>8. View(t) = Abstract!FromCol(View(rs), src)
    BY <1>2, <1>3, <1>6, <1>7, FromColView
  <1> QED
    BY <1>2, <1>5, <1>8

LEMMA DuplicateRowView ==
  ASSUME NEW rs, Good(rs), Short(rs), NEW row \in Rows, NEW row2 \in Rows, HasRow(rs, row),
         row2 <= Len(rs) + 1, row2 <= Len(rs) => Len(rs) < MaxRow,
         NEW s, s = AdjustRowDimensions(rs, row2, 1), NEW p, p = Check(s),
         NEW copy, copy = RenumberRow(rs[FirstRowAt(rs, row)], row2),
         NEW t, t = Placed(p, row2, copy)
  PROVE  /\ Good(t) /\ Short(t) /\ ~CheckPanics(s)
         /\ View(t) = Abstract!DuplicateRowTo(View(rs), row, row2)
  <1> DEFINE src == [r \in Rows |-> IF r < row2 THEN r ELSE IF r = row2 THEN row ELSE r - 1]
  <1>0. row \in Coordinate /\ row2 \in Coordinate /\ row2 <= MaxRow
    BY Places
  <1>1. FirstRowAt(rs, row) = row
    BY FirstRowGood
  <1>2. ~CheckPanics(s)
    BY <1>0, InsertRowIs, CheckedReads
  <1>3. /\ Good(t)
        /\ \A c, r \in Nat : At(t, c, r) =
             At(rs, c, IF r < row2 THEN r ELSE IF r = row2 THEN row ELSE r - 1)
        /\ \A r \in Nat : AttrOf(t, r) =
             AttrOf(rs, IF r < row2 THEN r ELSE IF r = row2 THEN row ELSE r - 1)
        /\ Short(t)
    <2>1. copy = RenumberRow(rs[row], row2) /\ p = Check(AdjustRowDimensions(rs, row2, 1))
      BY <1>1
    <2> QED
      BY ONLY <1>0, <2>1, Good(rs), Short(rs), HasRow(rs, row), row2 <= Len(rs) + 1,
              row2 <= Len(rs) => Len(rs) < MaxRow, t = Placed(p, row2, copy), DuplicateIs
  <1>4. \A r \in Rows : src[r] \in Nat
    <2> TAKE r \in Rows
    <2>1. r \in Nat /\ row \in Nat /\ row2 \in Nat
      BY Places
    <2> QED
      BY <2>1
  <1>5. \A c \in Cols, r \in Rows : At(t, c, r) = At(rs, c, src[r])
    <2> TAKE c \in Cols, r \in Rows
    <2>1. c \in Nat /\ r \in Nat
      BY Places
    <2> QED
      BY <1>3, <2>1
  <1>6. \A r \in Rows : AttrOf(t, r) = AttrOf(rs, src[r])
    <2> TAKE r \in Rows
    <2>1. r \in Nat
      BY Places
    <2> QED
      BY <1>3, <2>1
  <1>7. Abstract!DuplicateRowTo(View(rs), row, row2) = Abstract!FromRow(View(rs), src)
    BY DEF Abstract!DuplicateRowTo, Abstract!Rows, Rows
  <1> HIDE DEF src
  <1>8. View(t) = Abstract!FromRow(View(rs), src)
    BY ONLY Good(rs), Short(rs), <1>3, <1>4, <1>5, <1>6, FromRowView
  <1> QED
    BY <1>2, <1>3, <1>7, <1>8

\* nothing changes for the client when the store only grows
LEMMA SameViews ==
  ASSUME NEW rs, Good(rs), NEW t, Good(t), SameCells(rs, t), SameAttrs(rs, t)
  PROVE  View(t) = View(rs)
  <1> DEFINE S == View(rs)
  <1>1. /\ S \in SheetView
        /\ \A c \in Cols, r \in Rows : S.cells[<<c, r>>] = At(rs, c, r)
        /\ \A r \in Rows : S.attrs[r] = AttrOf(rs, r)
    BY ViewGood
  <1> HIDE DEF S
  <1>2. On(S.cells, Cols \X Rows) /\ On(S.attrs, Rows) /\ S = [cells |-> S.cells, attrs |-> S.attrs]
    BY <1>1 DEF On, SheetView
  <1>3. \A c \in Cols, r \in Rows : At(t, c, r) = S.cells[<<c, r>>]
    BY <1>1 DEF SameCells
  <1>4. \A r \in Rows : AttrOf(t, r) = S.attrs[r]
    BY <1>1 DEF SameAttrs
  <1>5. View(t) = [cells |-> S.cells, attrs |-> S.attrs]
    BY ONLY Good(t), <1>2, <1>3, <1>4, ViewIs
  <1> QED
    BY <1>2, <1>5 DEF S

\* and reading by name gives the view of any store
LEMMA ReadViews ==
  ASSUME NEW s, NEW t, \A c, r : CellAt(t, c, r) = CellAt(s, c, r),
         \A r : RowAttrAt(t, r) = RowAttrAt(s, r)
  PROVE  View(t) = View(s)
  BY DEF View

-----------------------------------------------------------------------------
(* The store stays on the sheet, and every call is a step of module Sheet. *)

\* GridInv, and no row or cell lies beyond the sheet: what a client can read by
\* names of the sheet is then all that the store holds
SheetInv == GridInv /\ Within(rows)

LEMMA OpenFits ==
  ASSUME SheetInv, phase = "open"
  PROVE  ~panicked /\ panicked \in BOOLEAN /\ Good(rows) /\ Short(rows)
  <1>1. ~panicked /\ panicked \in BOOLEAN /\ Good(rows)
    BY OpenRows DEF SheetInv
  <1>2. Within(rows)
    BY DEF SheetInv
  <1> QED
    BY <1>1, <1>2, GoodWithin DEF Short

\* a call that stores a contiguous sheet
LEMMA Stored ==
  ASSUME ~panicked, panicked \in BOOLEAN, NEW t, Good(t), Short(t), Store(t)
  PROVE  SheetInv' /\ View(rows)' = View(t)
  <1>1. GridInv'
    BY StoreInv
  <1>2. rows' = t
    BY DEF Store
  <1>3. Within(t)
    BY GoodWithin DEF Short
  <1>4. Within(rows)'
    BY <1>2, <1>3 DEF Within
  <1>5. View(rows)' = View(t)
    BY <1>2 DEF View
  <1> QED
    BY <1>1, <1>4, <1>5 DEF SheetInv

\* a call that ends in checkSheet and checkRow
LEMMA StoredChecked ==
  ASSUME ~panicked, panicked \in BOOLEAN, NEW s, NEW t, t = Check(s), ~CheckPanics(s),
         Good(t), Short(t), StoreChecked(s)
  PROVE  SheetInv' /\ View(rows)' = View(t)
  <1>1. Store(t)
    BY DEF StoreChecked
  <1> QED
    BY <1>1, Stored

\* the steps of the abstract sheet
LEMMA Steps ==
  ASSUME NEW S, NEW N
  PROVE  /\ N = S => Abstract!Step(S, N)
         /\ \A col \in Cols, row \in Rows, w \in Writes, cs \in ColStyles :
              N = Abstract!SetCell(S, col, row, w, cs) => Abstract!Step(S, N)
         /\ \A col \in Cols, row \in Rows, b \in FormulaOps :
              N = Abstract!SetCellFormula(S, col, row, b) => Abstract!Step(S, N)
         /\ \A a \in Areas, cs \in ColStyles :
              N = Abstract!SetCellTime(S, a[3], a[4], a[1], a[2], cs) => Abstract!Step(S, N)
         /\ \A a \in Areas, st \in StyleIds :
              N = Abstract!SetCellStyle(S, a[1], a[2], a[3], a[4], st) => Abstract!Step(S, N)
         /\ \A row \in Rows, a \in RowAttrs : N = Abstract!SetRowAttr(S, row, a) => Abstract!Step(S, N)
         /\ \A row \in Rows : N = Abstract!InsertRow(S, row) => Abstract!Step(S, N)
         /\ \A row \in Rows : N = Abstract!RemoveRow(S, row) => Abstract!Step(S, N)
         /\ \A row \in Rows, row2 \in Rows :
              N = Abstract!DuplicateRowTo(S, row, row2) => Abstract!Step(S, N)
         /\ \A col \in Cols : N = Abstract!InsertCol(S, col) => Abstract!Step(S, N)
         /\ \A col \in Cols : N = Abstract!RemoveCol(S, col) => Abstract!Step(S, N)
  <1>1. Abstract!Cols = Cols /\ Abstract!Rows = Rows
    BY DEF Abstract!Cols, Abstract!Rows, Cols, Rows
  <1> QED
    BY <1>1, Zenon DEF Abstract!Step

\* every call on a handle in use, as the step of the abstract sheet it is
LEMMA EditCalls ==
  ASSUME SheetInv, phase = "open"
  PROVE  LET S == View(rows)
             N == View(rows)'
         IN  /\ \A col \in Cols, row \in Rows, w \in Writes, cs \in ColStyles :
                  SetCell(col, row, w, cs) => SheetInv' /\ N = Abstract!SetCell(S, col, row, w, cs)
             /\ \A col \in Cols, row \in Rows, b \in FormulaOps :
                  SetCellFormula(col, row, b) =>
                    SheetInv' /\ N = Abstract!SetCellFormula(S, col, row, b)
             /\ \A col \in Cols, row \in Rows : GetCellStyle(col, row) => SheetInv' /\ N = S
             /\ \A a \in Areas, cs \in ColStyles :
                  SetCellTime(a[3], a[4], a[1], a[2], cs) =>
                    SheetInv' /\ N = Abstract!SetCellTime(S, a[3], a[4], a[1], a[2], cs)
             /\ \A a \in Areas, s \in StyleIds :
                  SetCellStyle(a[1], a[2], a[3], a[4], s) =>
                    SheetInv' /\ N = Abstract!SetCellStyle(S, a[1], a[2], a[3], a[4], s)
             /\ \A row \in Rows, a \in RowAttrs :
                  SetRowAttr(row, a) => SheetInv' /\ N = Abstract!SetRowAttr(S, row, a)
             /\ \A row \in Rows : InsertRow(row) => SheetInv' /\ N = Abstract!InsertRow(S, row)
             /\ \A row \in Rows : RemoveRow(row) => SheetInv' /\ N = Abstract!RemoveRow(S, row)
             /\ \A row, row2 \in Rows :
                  row2 <= Len(rows) + 1 /\ DuplicateRowTo(row, row2) =>
                    SheetInv' /\ N = Abstract!DuplicateRowTo(S, row, row2)
             /\ \A col \in Cols : InsertCol(col) => SheetInv' /\ N = Abstract!InsertCol(S, col)
             /\ \A col \in Cols : RemoveCol(col) => SheetInv' /\ N = Abstract!RemoveCol(S, col)
  <1> DEFINE S == View(rows)
             N == View(rows)'
  <1>0. ~panicked /\ panicked \in BOOLEAN /\ Good(rows) /\ Short(rows)
    BY OpenFits
  <1>1. ASSUME NEW col \in Cols, NEW row \in Rows, NEW w \in Writes,
               NEW cs \in ColStyles, SetCell(col, row, w, cs)
        PROVE  SheetInv' /\ N = Abstract!SetCell(S, col, row, w, cs)
    <2> DEFINE t == WriteCell(rows, col, row, w.t, w.v, cs)
    <2>1. w \in [t : CellTypes, v : CellValues] /\ cs \in StyleIds
      BY GridAssumption
    <2>2. Good(t) /\ Short(t) /\ View(t) = Abstract!SetCell(S, col, row, w, cs)
      BY <1>0, <2>1, SetCellView
    <2>3. Store(t)
      BY <1>1 DEF SetCell
    <2> HIDE DEF t, S, N
    <2>4. SheetInv' /\ N = View(t)
      BY <1>0, <2>2, <2>3, Stored DEF N
    <2> QED
      BY <2>2, <2>4
  <1>2. ASSUME NEW col \in Cols, NEW row \in Rows, NEW b \in FormulaOps,
               SetCellFormula(col, row, b)
        PROVE  SheetInv' /\ N = Abstract!SetCellFormula(S, col, row, b)
    <2> DEFINE t == WriteFormula(rows, col, row, b)
    <2>1. b \in BOOLEAN
      BY GridAssumption
    <2>2. Good(t) /\ Short(t) /\ View(t) = Abstract!SetCellFormula(S, col, row, b)
      BY <1>0, <2>1, SetCellFormulaView
    <2>3. Store(t)
      BY <1>2 DEF SetCellFormula
    <2> HIDE DEF t, S, N
    <2>4. SheetInv' /\ N = View(t)
      BY <1>0, <2>2, <2>3, Stored DEF N
    <2> QED
      BY <2>2, <2>4
  <1>3. ASSUME NEW col \in Cols, NEW row \in Rows, GetCellStyle(col, row)
        PROVE  SheetInv' /\ N = S
    <2> DEFINE t == PrepareSheetXML(rows, col, row)
    <2>1. Good(t) /\ Short(t) /\ SameCells(rows, t) /\ SameAttrs(rows, t)
      BY <1>0, Places, PrepareIs
    <2>2. View(t) = S
      BY <1>0, <2>1, SameViews
    <2>3. Store(t)
      BY <1>3 DEF GetCellStyle
    <2> HIDE DEF t, S, N
    <2>4. SheetInv' /\ N = View(t)
      BY <1>0, <2>1, <2>3, Stored DEF N
    <2> QED
      BY <2>2, <2>4
  <1>a. \A a \in Areas : a[1] \in Cols /\ a[2] \in Rows /\ a[3] \in Cols /\ a[4] \in Rows
    BY GridAssumption DEF Cols, Rows
  <1>4. ASSUME NEW a \in Areas, NEW cs \in ColStyles,
               SetCellTime(a[3], a[4], a[1], a[2], cs)
        PROVE  SheetInv' /\ N = Abstract!SetCellTime(S, a[3], a[4], a[1], a[2], cs)
    <2> DEFINE t == TimeStored(rows, a[3], a[4], a[1], a[2], cs)
    <2>1. cs \in StyleIds
      BY GridAssumption
    <2>2. Good(t) /\ Short(t) /\ View(t) = Abstract!SetCellTime(S, a[3], a[4], a[1], a[2], cs)
      <3>1. a[1] \in Cols /\ a[2] \in Rows /\ a[3] \in Cols /\ a[4] \in Rows
        BY <1>a
      <3> QED
        BY <1>0, <2>1, <3>1, SetCellTimeView
    <2>3. Store(t)
      BY <1>4 DEF SetCellTime, TimeStored, TimeValued
    <2> HIDE DEF t, S, N
    <2>4. SheetInv' /\ N = View(t)
      BY <1>0, <2>2, <2>3, Stored DEF N
    <2> QED
      BY <2>2, <2>4
  <1>5. ASSUME NEW a \in Areas, NEW st \in StyleIds,
               SetCellStyle(a[1], a[2], a[3], a[4], st)
        PROVE  SheetInv' /\ N = Abstract!SetCellStyle(S, a[1], a[2], a[3], a[4], st)
    <2> DEFINE hcol == IF a[3] < a[1] THEN a[3] ELSE a[1]
               vcol == IF a[3] < a[1] THEN a[1] ELSE a[3]
               hrow == IF a[4] < a[2] THEN a[4] ELSE a[2]
               vrow == IF a[4] < a[2] THEN a[2] ELSE a[4]
               t == WriteStyle(rows, hcol, hrow, vcol, vrow, st)
    <2>3. Store(t)
      BY <1>5 DEF SetCellStyle
    <2>2. Good(t) /\ Short(t) /\ View(t) = Abstract!SetCellStyle(S, a[1], a[2], a[3], a[4], st)
      BY <1>0, <1>a, SetCellStyleView
    <2> HIDE DEF t, S, N
    <2>4. SheetInv' /\ N = View(t)
      BY <1>0, <2>2, <2>3, Stored DEF N
    <2> QED
      BY <2>2, <2>4
  <1>6. ASSUME NEW row \in Rows, NEW a \in RowAttrs, SetRowAttr(row, a)
        PROVE  SheetInv' /\ N = Abstract!SetRowAttr(S, row, a)
    <2> DEFINE t == WriteRowAttr(rows, row, a)
    <2>2. Good(t) /\ Short(t) /\ View(t) = Abstract!SetRowAttr(S, row, a)
      BY <1>0, SetRowAttrView
    <2>3. Store(t)
      BY <1>6 DEF SetRowAttr
    <2> HIDE DEF t, S, N
    <2>4. SheetInv' /\ N = View(t)
      BY <1>0, <2>2, <2>3, Stored DEF N
    <2> QED
      BY <2>2, <2>4
  <1>7. ASSUME NEW row \in Rows, InsertRow(row)
        PROVE  SheetInv' /\ N = Abstract!InsertRow(S, row)
    <2> DEFINE s == AdjustRowDimensions(rows, row, 1)
               t == Check(s)
    <2>1. (row <= Len(rows) => Len(rows) < MaxRow) /\ StoreChecked(s)
      BY <1>7 DEF InsertRow
    <2>2. Good(t) /\ Short(t) /\ ~CheckPanics(s) /\ View(t) = Abstract!InsertRow(S, row)
      BY <1>0, <2>1, InsertRowView
    <2> HIDE DEF s, S, N
    <2>4. SheetInv' /\ N = View(t)
      BY <1>0, <2>1, <2>2, StoredChecked DEF N
    <2> QED
      BY <2>2, <2>4
  <1>8. ASSUME NEW row \in Rows, RemoveRow(row)
        PROVE  SheetInv' /\ N = Abstract!RemoveRow(S, row)
    <2> DEFINE s == AdjustRowDimensions(Without(rows, FirstRowAt(rows, row)), row, -1)
               t == Check(s)
    <2>1. HasRow(rows, row) /\ StoreChecked(s)
      BY <1>8 DEF RemoveRow
    <2>2. Good(t) /\ Short(t) /\ ~CheckPanics(s) /\ View(t) = Abstract!RemoveRow(S, row)
      BY <1>0, <2>1, RemoveRowView
    <2> HIDE DEF s, S, N
    <2>4. SheetInv' /\ N = View(t)
      BY <1>0, <2>1, <2>2, StoredChecked DEF N
    <2> QED
      BY <2>2, <2>4
  <1>9. ASSUME NEW row \in Rows, NEW row2 \in Rows, row2 <= Len(rows) + 1, DuplicateRowTo(row, row2)
        PROVE  SheetInv' /\ N = Abstract!DuplicateRowTo(S, row, row2)
    <2> DEFINE s == AdjustRowDimensions(rows, row2, 1)
               p == Check(s)
               copy == RenumberRow(rows[FirstRowAt(rows, row)], row2)
               t == Placed(p, row2, copy)
    <2>1. HasRow(rows, row) /\ (row2 <= Len(rows) => Len(rows) < MaxRow)
      BY <1>9 DEF DuplicateRowTo
    <2>2. Good(t) /\ Short(t) /\ ~CheckPanics(s) /\ View(t) = Abstract!DuplicateRowTo(S, row, row2)
      BY <1>0, <1>9, <2>1, DuplicateRowView
    <2>3. Store(t)
      BY <1>9, <2>2 DEF DuplicateRowTo, Placed
    <2> HIDE DEF t, S, N
    <2>4. SheetInv' /\ N = View(t)
      BY <1>0, <2>2, <2>3, Stored DEF N
    <2> QED
      BY <2>2, <2>4
  <1>10. ASSUME NEW col \in Cols, InsertCol(col)
         PROVE  SheetInv' /\ N = Abstract!InsertCol(S, col)
    <2> DEFINE s == AdjustColDimensions(rows, col, 1)
               t == Check(s)
    <2>1. /\ StoreChecked(s)
          /\ \A i \in 1..Len(rows) : \A k \in 1..Len(rows[i].C) :
               rows[i].C[k].col >= col => rows[i].C[k].col < MaxCol
      BY <1>10 DEF InsertCol
    <2>2. Good(t) /\ Short(t) /\ ~CheckPanics(s) /\ View(t) = Abstract!InsertCol(S, col)
      BY <1>0, <2>1, InsertColView
    <2> HIDE DEF s, S, N
    <2>4. SheetInv' /\ N = View(t)
      BY <1>0, <2>1, <2>2, StoredChecked DEF N
    <2> QED
      BY <2>2, <2>4
  <1>11. ASSUME NEW col \in Cols, RemoveCol(col)
         PROVE  SheetInv' /\ N = Abstract!RemoveCol(S, col)
    <2> DEFINE s == AdjustColDimensions(DropColumn(rows, col), col, -1)
               t == Check(s)
    <2>1. StoreChecked(s)
      BY <1>11 DEF RemoveCol
    <2>2. Good(t) /\ Short(t) /\ ~CheckPanics(s) /\ View(t) = Abstract!RemoveCol(S, col)
      BY <1>0, <2>1, RemoveColView
    <2> HIDE DEF s, S, N
    <2>4. SheetInv' /\ N = View(t)
      BY <1>0, <2>1, <2>2, StoredChecked DEF N
    <2> QED
      BY <2>2, <2>4
  <1> QED
    BY <1>1, <1>2, <1>3, <1>4, <1>5, <1>6, <1>7, <1>8, <1>9, <1>10, <1>11, Zenon

\* so every one is a step of the abstract sheet
LEMMA EditStep ==
  ASSUME SheetInv, phase = "open", Edit
  PROVE  SheetInv' /\ Abstract!Step(View(rows), View(rows)')
  <1> DEFINE S == View(rows)
             N == View(rows)'
             Done == SheetInv' /\ Abstract!Step(S, N)
  <1>1. ASSUME NEW col \in Cols, NEW row \in Rows, NEW w \in Writes, NEW cs \in ColStyles,
               SetCell(col, row, w, cs)
        PROVE  Done
    BY <1>1, EditCalls, Steps
  <1>2. ASSUME NEW col \in Cols, NEW row \in Rows, NEW b \in FormulaOps, SetCellFormula(col, row, b)
        PROVE  Done
    BY <1>2, EditCalls, Steps
  <1>3. ASSUME NEW col \in Cols, NEW row \in Rows, GetCellStyle(col, row)
        PROVE  Done
    BY <1>3, EditCalls, Steps
  <1>4. ASSUME NEW a \in Areas, NEW cs \in ColStyles, SetCellTime(a[3], a[4], a[1], a[2], cs)
        PROVE  Done
    BY <1>4, EditCalls, Steps
  <1>5. ASSUME NEW a \in Areas, NEW s \in StyleIds, SetCellStyle(a[1], a[2], a[3], a[4], s)
        PROVE  Done
    BY <1>5, EditCalls, Steps
  <1>6. ASSUME NEW row \in Rows, NEW a \in RowAttrs, SetRowAttr(row, a)
        PROVE  Done
    BY <1>6, EditCalls, Steps
  <1>7. ASSUME NEW row \in Rows, InsertRow(row)
        PROVE  Done
    BY <1>7, EditCalls, Steps
  <1>8. ASSUME NEW row \in Rows, RemoveRow(row)
        PROVE  Done
    BY <1>8, EditCalls, Steps
  <1>9. ASSUME NEW row \in Rows, NEW row2 \in Rows, row2 <= Len(rows) + 1,
               DuplicateRowTo(row, row2)
        PROVE  Done
    BY <1>9, EditCalls, Steps
  <1>10. ASSUME NEW col \in Cols, InsertCol(col)
        PROVE  Done
    BY <1>10, EditCalls, Steps
  <1>11. ASSUME NEW col \in Cols, RemoveCol(col)
        PROVE  Done
    BY <1>11, EditCalls, Steps
  <1> HIDE DEF Done
  <1>12. Done
    BY <1>1, <1>2, <1>3, <1>4, <1>5, <1>6, <1>7, <1>8, <1>9, <1>10, <1>11 DEF Edit
  <1> QED
    BY <1>12 DEF Done

\* a save writes what the handle shows
LEMMA SaveStep ==
  ASSUME SheetInv, phase = "open", Save
  PROVE  SheetInv' /\ View(rows)' = View(rows)
  <1> DEFINE t == TrimRows(rows)
  <1>0. ~panicked /\ panicked \in BOOLEAN /\ Good(rows) /\ Short(rows)
    BY OpenFits
  <1>1. /\ t \in Seq(Row) /\ Sparse(t) /\ Within(t)
        /\ \A c, r : CellAt(t, c, r) = At(rows, c, r) /\ RowAttrAt(t, r) = AttrOf(rows, r)
    BY <1>0, TrimIs
  <1>2. /\ \A c, r : CellAt(t, c, r) = CellAt(rows, c, r)
        /\ \A r : RowAttrAt(t, r) = RowAttrAt(rows, r)
    BY <1>0, <1>1, GoodRead
  <1>3. rows' = t /\ phase' = "saved" /\ panicked' = panicked
    BY DEF Save
  <1> HIDE DEF t
  <1>4. View(t) = View(rows)
    BY <1>2, ReadViews
  <1>5. GridInv'
    BY <1>0, <1>1, <1>3 DEF GridInv, TypeOK
  <1>6. Within(rows)' /\ View(rows)' = View(t)
    BY <1>1, <1>3 DEF Within, View
  <1> QED
    BY <1>4, <1>5, <1>6 DEF SheetInv

\* a new handle shows what the file holds
LEMMA OpenStep ==
  ASSUME SheetInv, Open
  PROVE  SheetInv' /\ View(rows)' = View(rows)
  <1> DEFINE t == Check(rows)
  <1>0. /\ ~panicked /\ panicked \in BOOLEAN /\ rows \in Seq(Row) /\ Sparse(rows)
        /\ Within(rows) /\ StoreChecked(rows)
    BY DEF SheetInv, GridInv, TypeOK, Open
  <1>1. /\ Good(t) /\ ~CheckPanics(rows) /\ Short(t)
        /\ \A c, r : At(t, c, r) = CellAt(rows, c, r)
        /\ \A r : AttrOf(t, r) = RowAttrAt(rows, r)
    BY <1>0, CheckedReads
  <1>2. SheetInv' /\ View(rows)' = View(t)
    BY <1>0, <1>1, StoredChecked
  <1>3. /\ \A c, r : CellAt(t, c, r) = CellAt(rows, c, r)
        /\ \A r : RowAttrAt(t, r) = RowAttrAt(rows, r)
    BY <1>1, GoodRead
  <1>4. View(t) = View(rows)
    BY <1>3, ReadViews
  <1> QED
    BY <1>2, <1>4

\* every step keeps the invariant and is one of the abstract sheet
LEMMA NextStep ==
  ASSUME SheetInv, [Next]_vars
  PROVE  SheetInv' /\ (View(rows)' = View(rows) \/ Abstract!Step(View(rows), View(rows)'))
  <1>1. CASE phase = "open" /\ Edit
    BY <1>1, EditStep
  <1>2. CASE phase = "open" /\ Save
    BY <1>2, SaveStep
  <1>3. CASE Open
    BY <1>3, OpenStep
  <1>4. CASE UNCHANGED vars
    <2>1. rows' = rows /\ phase' = phase /\ panicked' = panicked
      BY <1>4 DEF vars
    <2> QED
      BY <2>1 DEF SheetInv, GridInv, TypeOK, Within, View
  <1> QED
    BY <1>1, <1>2, <1>3, <1>4 DEF Next

\* The store stays on the sheet: SheetInv is inductive.
THEOREM SheetInvHolds == Spec => []SheetInv
  <1>1. Init => SheetInv
    BY InitGridInv, GridAssumption DEF Init, SheetInv
  <1>2. SheetInv /\ [Next]_vars => SheetInv'
    BY NextStep
  <1> QED
    BY <1>1, <1>2, PTL DEF Spec

\* What a client can read of the store, by the names in the cells, goes through
\* the steps of module Sheet and no others, whatever gaps files, trimming and
\* removals leave in the store.
THEOREM SheetImplemented == Spec => ImplementsSheet
  <1> DEFINE cells == View(rows).cells
             attrs == View(rows).attrs
  <1>1. Init => Abstract!Init
    <2> SUFFICES ASSUME Init PROVE Abstract!Init
      OBVIOUS
    <2>1. rows \in Seq(Row) /\ Sparse(rows)
      BY GridAssumption DEF Init
    <2>2. View(rows) \in SheetView
      BY <2>1, ViewType
    <2>3. cells \in [Cols \X Rows -> CellContent] /\ attrs \in [Rows -> RowAttrs]
      BY <2>2 DEF View, SheetView
    <2> QED
      BY <2>3 DEF Abstract!Init, Abstract!CellContent, CellContent, Abstract!Cols, Abstract!Rows, Cols, Rows
  <1>2. SheetInv /\ [Next]_vars => [Abstract!Next]_<<cells, attrs>>
    <2> SUFFICES ASSUME SheetInv, [Next]_vars PROVE [Abstract!Next]_<<cells, attrs>>
      OBVIOUS
    <2>1. View(rows)' = View(rows) \/ Abstract!Step(View(rows), View(rows)')
      BY NextStep
    <2>2. View(rows) = [cells |-> cells, attrs |-> attrs]
      BY DEF View
    <2>3. View(rows)' = [cells |-> cells', attrs |-> attrs']
      BY DEF View
    <2>4. CASE View(rows)' = View(rows)
      <3> HIDE DEF cells, attrs
      <3>1. cells' = cells /\ attrs' = attrs
        BY <2>2, <2>3, <2>4
      <3> QED
        BY <3>1
    <2>5. CASE Abstract!Step(View(rows), View(rows)')
      <3>1. Abstract!Next
        BY <2>2, <2>3, <2>5 DEF Abstract!Next
      <3> QED
        BY <3>1
    <2> QED
      BY <2>1, <2>4, <2>5
  <1> QED
    BY <1>1, <1>2, SheetInvHolds, PTL DEF Spec, ImplementsSheet, Abstract!Spec, Abstract!vars

\* Every call is the step of module Sheet with its name and its arguments, and
\* neither Save nor Open nor reading a style changes a cell or a row attribute:
\* the setters change the cells they are given, and inserting, removing and
\* duplicating move whole rows and columns and leave the rest.
THEOREM CallsExactAlways == Spec => CallsExact
  <1> DEFINE S == View(rows)
             N == View(rows')
             Calls == /\ \A col \in Cols, row \in Rows, w \in Writes, cs \in ColStyles :
                           SetCell(col, row, w, cs) => N = Abstract!SetCell(S, col, row, w, cs)
                      /\ \A col \in Cols, row \in Rows, b \in FormulaOps :
                           SetCellFormula(col, row, b) => N = Abstract!SetCellFormula(S, col, row, b)
                      /\ \A col \in Cols, row \in Rows : GetCellStyle(col, row) => N = S
                      /\ \A a \in Areas, cs \in ColStyles :
                           SetCellTime(a[3], a[4], a[1], a[2], cs) =>
                             N = Abstract!SetCellTime(S, a[3], a[4], a[1], a[2], cs)
                      /\ \A a \in Areas, s \in StyleIds :
                           SetCellStyle(a[1], a[2], a[3], a[4], s) =>
                             N = Abstract!SetCellStyle(S, a[1], a[2], a[3], a[4], s)
                      /\ \A row \in Rows, a \in RowAttrs :
                           SetRowAttr(row, a) => N = Abstract!SetRowAttr(S, row, a)
                      /\ \A row \in Rows : InsertRow(row) => N = Abstract!InsertRow(S, row)
                      /\ \A row \in Rows : RemoveRow(row) => N = Abstract!RemoveRow(S, row)
                      /\ \A row, row2 \in Rows :
                           row2 <= Len(rows) + 1 /\ DuplicateRowTo(row, row2) =>
                             N = Abstract!DuplicateRowTo(S, row, row2)
                      /\ \A col \in Cols : InsertCol(col) => N = Abstract!InsertCol(S, col)
                      /\ \A col \in Cols : RemoveCol(col) => N = Abstract!RemoveCol(S, col)
             Exact == (Open => N = S) /\ (phase = "open" => (Save => N = S) /\ Calls)
  <1>1. SheetInv => Exact
    <2>1. SheetInv /\ Open => N = S
      BY OpenStep
    <2>2. SheetInv /\ phase = "open" /\ Save => N = S
      BY SaveStep
    <2>3. SheetInv /\ phase = "open" => Calls
      BY EditCalls, Zenon
    <2> HIDE DEF Calls, S, N
    <2> QED
      BY <2>1, <2>2, <2>3
  <1>2. [][Exact]_vars => CallsExact
    BY PTL DEF CallsExact
  <1> QED
    BY <1>1, <1>2, SheetInvHolds, PTL

-----------------------------------------------------------------------------
(* Reading a sheet whole.                                                  *)

\* a bounded set of numbers has a greatest one
LEMMA GreatestNumber ==
  ASSUME NEW b \in Nat, NEW S, S \subseteq 0..b, S # {}
  PROVE  \E n \in S : \A m \in S : m <= n
  <1> DEFINE U == {u \in Nat : \A m \in S : m <= u}
  <1>1. \A m \in S : m \in Nat /\ m <= b
    OBVIOUS
  <1>2. U \subseteq Nat /\ b \in U
    BY <1>1
  <1>3. PICK n \in U : \A u \in U : n <= u
    <2>1. U \subseteq Nat /\ U # {}
      BY <1>2
    <2> HIDE DEF U
    <2> QED
      BY <2>1, LeastNumber
  <1>4. n \in Nat /\ \A m \in S : m <= n
    OBVIOUS
  <1>5. n \in S
    <2> SUFFICES ASSUME n \notin S PROVE FALSE
      OBVIOUS
    <2>1. \A m \in S : m < n
      <3> TAKE m \in S
      <3>1. m <= n /\ m # n /\ m \in Nat
        BY <1>1, <1>4
      <3> QED
        BY <1>4, <3>1
    <2>2. n >= 1
      <3>1. PICK m \in S : TRUE
        OBVIOUS
      <3>2. m \in Nat /\ m < n
        BY <1>1, <2>1
      <3> QED
        BY <1>4, <3>2
    <2>3. n - 1 \in Nat /\ \A m \in S : m <= n - 1
      BY <1>1, <1>4, <2>1, <2>2
    <2>4. n - 1 \in U
      BY <2>3
    <2>5. n <= n - 1
      BY <1>3, <2>4
    <2> QED
      BY <1>4, <2>5
  <1> QED
    BY <1>4, <1>5

\* the value at a place
ValueAt(rs, c, r) == At(rs, c, r).v

LEMMA ValueAtIs ==
  ASSUME NEW rs, NEW c, NEW r
  PROVE  /\ HasAt(rs, c, r) => ValueAt(rs, c, r) = rs[r].C[c].v
         /\ ~HasAt(rs, c, r) => ValueAt(rs, c, r) = ""
  BY DEF ValueAt, At, Content, BlankContent

\* of a contiguous row, the last cell of a name is the one at its place
LEMMA ValueInIs ==
  ASSUME NEW rs, Good(rs), NEW i \in 1..Len(rs), NEW c
  PROVE  ValueIn(rs[i].C, c) = ValueAt(rs, c, i)
  <1> DEFINE C == rs[i].C
  <1>1. Len(C) \in Nat /\ \A k \in 1..Len(C) : C[k].col = k
    BY GoodFacts
  <1>2. HasAt(rs, c, i) <=> c \in 1..Len(C)
    BY DEF HasAt
  <1>3. CASE c \in 1..Len(C)
    <2>1. \A k \in 1..Len(C) : C[k].col = c => k = c
      BY <1>1
    <2>2. C[c].col = c /\ c <= c
      BY <1>1, <1>3
    <2> HIDE DEF C
    <2>3. LastCellAt(C, c) = c
      BY <1>3, <2>1, <2>2 DEF LastCellAt
    <2>4. HasCell(C, c)
      BY <1>3, <2>2 DEF HasCell
    <2>5. ValueIn(C, c) = C[c].v
      BY <2>3, <2>4 DEF ValueIn
    <2> QED
      BY <1>2, <1>3, <2>5, ValueAtIs DEF C
  <1>4. CASE ~(c \in 1..Len(C))
    <2>1. ~HasCell(C, c)
      BY <1>1, <1>4 DEF HasCell
    <2>2. ValueIn(C, c) = ""
      BY <2>1 DEF ValueIn
    <2> QED
      BY <1>2, <1>4, <2>2, ValueAtIs
  <1> QED
    BY <1>3, <1>4

\* the row iterator
LEMMA ColumnsIs ==
  ASSUME NEW rs, Good(rs), NEW i \in 1..Len(rs)
  PROVE  /\ ~ColumnsPanics(rs[i])
         /\ \A c \in 1..Len(rs[i].C) : Columns(rs[i])[c] = ValueAt(rs, c, i)
  <1>1. Len(rs[i].C) \in Nat /\ \A k \in 1..Len(rs[i].C) : rs[i].C[k].col = k
    BY GoodFacts
  <1>2. ~ColumnsPanics(rs[i])
    BY <1>1 DEF ColumnsPanics
  <1>3. \A c \in 1..Len(rs[i].C) : Columns(rs[i])[c] = ValueIn(rs[i].C, c)
    BY DEF Columns
  <1> QED
    BY <1>2, <1>3, ValueInIs

\* getTotalRowsCols
LEMMA TotalsIs ==
  ASSUME NEW rs, Good(rs), Short(rs)
  PROVE  /\ TotalRows(rs) = Len(rs) /\ TotalCols(rs) \in Nat
         /\ \A i \in 1..Len(rs) : Len(rs[i].C) <= TotalCols(rs)
  <1> DEFINE named == {0} \cup UNION {{rs[i].C[k].col : k \in 1..Len(rs[i].C)} : i \in 1..Len(rs)}
  <1>1. /\ rs \in Seq(Row) /\ Len(rs) \in Nat
        /\ \A i \in 1..Len(rs) : rs[i].R = i /\ Len(rs[i].C) \in Nat /\ Len(rs[i].C) <= MaxCol
    BY GoodFacts DEF Short
  <1>2. \A i \in 1..Len(rs) : \A k \in 1..Len(rs[i].C) : rs[i].C[k].col = k
    BY GoodFacts
  <1>3. TotalRows(rs) = Len(rs)
    <2>1. CASE rs = << >>
      BY <2>1 DEF TotalRows
    <2>2. CASE rs # << >>
      <3>1. Len(rs) \in 1..Len(rs)
        BY <1>1, <2>2
      <3> QED
        BY <1>1, <2>2, <3>1 DEF TotalRows
    <2> QED
      BY <2>1, <2>2
  <1>4. ASSUME NEW d \in named PROVE d \in 0..MaxCol
    <2>1. CASE d = 0
      BY <2>1, Places
    <2>2. CASE d # 0
      <3>1. PICK i \in 1..Len(rs) : d \in {rs[i].C[k].col : k \in 1..Len(rs[i].C)}
        BY <2>2
      <3>2. PICK k \in 1..Len(rs[i].C) : d = rs[i].C[k].col
        BY <3>1
      <3>3. d = k /\ k \in 1..Len(rs[i].C) /\ Len(rs[i].C) \in Nat /\ Len(rs[i].C) <= MaxCol
        BY <1>1, <1>2, <3>2
      <3> QED
        BY <3>3, Places
    <2> QED
      BY <2>1, <2>2
  <1>5. \E n \in named : \A m \in named : m <= n
    <2>1. named \subseteq 0..MaxCol /\ named # {} /\ MaxCol \in Nat
      BY <1>4, Places
    <2> HIDE DEF named
    <2> QED
      BY <2>1, GreatestNumber
  <1>6. TotalCols(rs) = CHOOSE n \in named : \A m \in named : m <= n
    BY DEF TotalCols
  <1>8. ASSUME NEW i \in 1..Len(rs), Len(rs[i].C) # 0 PROVE Len(rs[i].C) \in named
    <2>1. Len(rs[i].C) \in 1..Len(rs[i].C)
      BY <1>1, <1>8
    <2>2. rs[i].C[Len(rs[i].C)].col = Len(rs[i].C)
      BY <1>2, <2>1
    <2>3. Len(rs[i].C) \in {rs[i].C[k].col : k \in 1..Len(rs[i].C)}
      BY <2>1, <2>2
    <2> QED
      BY <2>3
  <1> HIDE DEF named
  <1>7. TotalCols(rs) \in named /\ \A m \in named : m <= TotalCols(rs)
    BY <1>5, <1>6
  <1>9. TotalCols(rs) \in Nat
    BY <1>4, <1>7, Places
  <1>10. \A i \in 1..Len(rs) : Len(rs[i].C) <= TotalCols(rs)
    BY <1>1, <1>7, <1>8, <1>9
  <1> QED
    BY <1>3, <1>9, <1>10

\* the number of the last row with a value
LastValued(rs) ==
  LET valued == {i \in 1..Len(rs) : HasValue(rs[i])}
  IN  IF valued = {} THEN 0 ELSE rs[CHOOSE i \in valued : \A j \in valued : j <= i].R

LEMMA LastValuedIs ==
  ASSUME NEW rs, Good(rs)
  PROVE  /\ LastValued(rs) \in 0..Len(rs)
         /\ LastValued(rs) # 0 => HasValue(rs[LastValued(rs)])
         /\ \A i \in 1..Len(rs) : HasValue(rs[i]) => i <= LastValued(rs)
  <1> DEFINE valued == {i \in 1..Len(rs) : HasValue(rs[i])}
             top == CHOOSE i \in valued : \A j \in valued : j <= i
  <1>1. Len(rs) \in Nat /\ \A i \in 1..Len(rs) : rs[i].R = i
    BY GoodFacts
  <1>2. CASE valued = {}
    <2>1. LastValued(rs) = 0
      BY <1>2 DEF LastValued
    <2>2. \A i \in 1..Len(rs) : ~HasValue(rs[i])
      BY <1>2
    <2> QED
      BY <1>1, <2>1, <2>2
  <1>3. CASE valued # {}
    <2>1. LastValued(rs) = rs[top].R
      BY <1>3 DEF LastValued
    <2>2. valued \subseteq 0..Len(rs)
      BY <1>1
    <2>3. \A i \in 1..Len(rs) : HasValue(rs[i]) <=> i \in valued
      OBVIOUS
    <2>4. \A i \in valued : i \in 1..Len(rs)
      OBVIOUS
    <2> HIDE DEF valued
    <2>5. \E n \in valued : \A m \in valued : m <= n
      BY <1>1, <1>3, <2>2, GreatestNumber
    <2>6. top \in valued /\ \A j \in valued : j <= top
      BY <2>5
    <2> HIDE DEF top
    <2>7. top \in 1..Len(rs) /\ LastValued(rs) = top
      BY <1>1, <2>1, <2>4, <2>6
    <2> QED
      BY <1>1, <2>3, <2>6, <2>7
  <1> QED
    BY <1>2, <1>3

\* in a contiguous store the last row numbered n is the n-th
LEMMA LastRowGood ==
  ASSUME NEW rs, Good(rs), NEW n \in 1..Len(rs)
  PROVE  HasRow(rs, n) /\ LastRowAt(rs, n) = n
  <1>1. Len(rs) \in Nat /\ \A k \in 1..Len(rs) : rs[k].R = k
    BY GoodFacts
  <1>2. \A k \in 1..Len(rs) : rs[k].R = n <=> k = n
    BY <1>1
  <1>3. n <= n
    BY <1>1
  <1> QED
    BY <1>2, <1>3 DEF HasRow, LastRowAt

\* GetRows
LEMMA GetRowsIs ==
  ASSUME NEW rs, Good(rs), Short(rs), NEW table, table = GetRows(rs)
  PROVE  /\ ~GetRowsPanics(rs) /\ Len(table) = LastValued(rs)
         /\ \A n \in 1..LastValued(rs), c \in 1..TotalCols(rs) : table[n][c] = ValueAt(rs, c, n)
  <1> DEFINE last == LastValued(rs)
             tc == TotalCols(rs)
             Cell0(n, c) == IF HasRow(rs, n) THEN ValueIn(rs[LastRowAt(rs, n)].C, c) ELSE ""
  <1>1. last \in 0..Len(rs) /\ Len(rs) \in Nat
    BY LastValuedIs, GoodFacts
  <1>2. ~GetRowsPanics(rs)
    <2>1. TotalRows(rs) = Len(rs) /\ \A i \in 1..Len(rs) : rs[i].R = i
      BY TotalsIs, GoodFacts
    <2> QED
      BY <1>1, <2>1 DEF GetRowsPanics
  <1>3. table = [n \in 1..last |-> [c \in 1..tc |-> Cell0(n, c)]]
    BY DEF GetRows, LastValued
  <1>4. ASSUME NEW n \in 1..last, NEW c PROVE Cell0(n, c) = ValueAt(rs, c, n)
    <2>1. n \in 1..Len(rs)
      BY <1>1
    <2>2. HasRow(rs, n) /\ LastRowAt(rs, n) = n
      BY <2>1, LastRowGood
    <2>3. ValueIn(rs[n].C, c) = ValueAt(rs, c, n)
      BY <2>1, ValueInIs
    <2> QED
      BY <2>2, <2>3
  <1> HIDE DEF last, tc, Cell0
  <1>5. Len(table) = last
    <2>1. last \in Nat
      BY <1>1
    <2> QED
      BY ONLY <1>3, <2>1
  <1>6. \A n \in 1..last, c \in 1..tc : table[n][c] = Cell0(n, c)
    BY <1>3
  <1>7. \A n \in 1..last, c \in 1..tc : table[n][c] = ValueAt(rs, c, n)
    BY <1>4, <1>6
  <1> QED
    BY <1>2, <1>5, <1>7 DEF last, tc

\* the cells of a short contiguous store are at places of the sheet
LEMMA PlaceOf ==
  ASSUME NEW rs, Good(rs), Short(rs), NEW i \in 1..Len(rs), NEW k \in 1..Len(rs[i].C)
  PROVE  i \in Rows /\ k \in Cols /\ rs[i].C[k].col = k /\ rs[i].R = i
  <1>1. Len(rs) \in Nat /\ Len(rs[i].C) \in Nat /\ rs[i].C[k].col = k /\ rs[i].R = i
    BY GoodFacts
  <1>2. Len(rs) <= MaxRow /\ Len(rs[i].C) <= MaxCol
    BY DEF Short
  <1>3. i \in Rows
    BY ONLY <1>1, <1>2, i \in 1..Len(rs), Places DEF Rows
  <1>4. k \in Cols
    BY ONLY <1>1, <1>2, k \in 1..Len(rs[i].C), Places DEF Cols
  <1> QED
    BY <1>1, <1>3, <1>4

LEMMA PairOf ==
  ASSUME NEW A, NEW B, NEW q \in A \X B
  PROVE  \E c \in A, r \in B : q = <<c, r>>
  OBVIOUS

Hits(rs, v, i) ==
  {<<rs[i].C[k].col, rs[i].R>> : k \in {j \in 1..Len(rs[i].C) : rs[i].C[j].v = v}}
Holding(rs, v) == {p \in Cols \X Rows : ValueAt(rs, p[1], p[2]) = v}

LEMMA HitIs ==
  ASSUME NEW rs, Good(rs), Short(rs), NEW v, NEW i \in 1..Len(rs), NEW q \in Hits(rs, v, i)
  PROVE  q \in Holding(rs, v)
  <1>1. PICK k \in 1..Len(rs[i].C) : rs[i].C[k].v = v /\ q = <<rs[i].C[k].col, rs[i].R>>
    BY DEF Hits
  <1>2. i \in Rows /\ k \in Cols /\ q = <<k, i>>
    BY <1>1, PlaceOf
  <1>3. HasAt(rs, k, i)
    BY <1>1 DEF HasAt
  <1>4. ValueAt(rs, k, i) = v
    BY <1>1, <1>3, ValueAtIs
  <1> QED
    BY ONLY <1>2, <1>4 DEF Holding

LEMMA HoldingIsHit ==
  ASSUME NEW rs, Good(rs), Short(rs), NEW v, v # "", NEW q \in Holding(rs, v)
  PROVE  \E i \in 1..Len(rs) : q \in Hits(rs, v, i)
  <1>1. q \in Cols \X Rows /\ ValueAt(rs, q[1], q[2]) = v
    BY DEF Holding
  <1>2. PICK c \in Cols, r \in Rows : q = <<c, r>>
    BY ONLY <1>1, PairOf
  <1>3. ValueAt(rs, c, r) = v
    BY ONLY <1>1, <1>2
  <1>4. HasAt(rs, c, r)
    BY <1>3, ValueAtIs
  <1>5. r \in 1..Len(rs) /\ c \in 1..Len(rs[r].C)
    BY <1>4 DEF HasAt
  <1>6. rs[r].C[c].v = v
    BY <1>3, <1>4, ValueAtIs
  <1>7. rs[r].C[c].col = c /\ rs[r].R = r
    BY <1>5, PlaceOf
  <1>8. q = <<rs[r].C[c].col, rs[r].R>>
    BY ONLY <1>2, <1>7
  <1>9. q \in Hits(rs, v, r)
    BY ONLY <1>5, <1>6, <1>8 DEF Hits
  <1> QED
    BY <1>5, <1>9

\* SearchSheet
LEMMA SearchSheetIs ==
  ASSUME NEW rs, Good(rs), Short(rs), NEW v, v # ""
  PROVE  SearchSheet(rs, v) = Holding(rs, v)
  <1>1. SearchSheet(rs, v) = UNION {Hits(rs, v, i) : i \in 1..Len(rs)}
    BY DEF SearchSheet, Hits
  <1>2. \A i \in 1..Len(rs) : \A q \in Hits(rs, v, i) : q \in Holding(rs, v)
    BY HitIs
  <1>3. \A q \in Holding(rs, v) : \E i \in 1..Len(rs) : q \in Hits(rs, v, i)
    BY HoldingIsHit
  <1>4. UNION {Hits(rs, v, i) : i \in 1..Len(rs)} = Holding(rs, v)
    BY ONLY <1>2, <1>3
  <1> QED
    BY <1>1, <1>4

\* Reading a sheet whole agrees with reading it cell by cell, whatever calls,
\* saves and loads came before: the row iterator never stores beyond its list,
\* GetRows ends with the last row that has a value and misses none to the
\* right, and SearchSheet answers with the cells that have the value.
THEOREM ReadersAgreeAlways == Spec => []ReadersAgree
  <1>1. SheetInv => ReadersAgree
    <2> SUFFICES ASSUME SheetInv, phase = "open" PROVE ReadersAgree
      BY DEF ReadersAgree
    <2> DEFINE at == [p \in Cols \X Rows |-> CellAt(rows, p[1], p[2]).v]
               table == GetRows(rows)
               last == LastValued(rows)
               tc == TotalCols(rows)
    <2>0. Good(rows) /\ Short(rows)
      BY OpenFits
    <2>f. /\ Len(rows) \in Nat /\ Len(rows) <= MaxRow
          /\ \A i \in 1..Len(rows) : Len(rows[i].C) \in Nat /\ Len(rows[i].C) <= MaxCol
      BY <2>0, GoodFacts DEF Short
    <2>1. \A c \in Cols, r \in Rows : at[<<c, r>>] = ValueAt(rows, c, r)
      BY <2>0, GoodRead DEF ValueAt
    <2>2. /\ ~GetRowsPanics(rows) /\ Len(table) = last
          /\ \A n \in 1..last, c \in 1..tc : table[n][c] = ValueAt(rows, c, n)
      BY <2>0, GetRowsIs
    <2>3. /\ last \in 0..Len(rows)
          /\ last # 0 => HasValue(rows[last])
          /\ \A i \in 1..Len(rows) : HasValue(rows[i]) => i <= last
      BY <2>0, LastValuedIs
    <2>4. tc \in Nat /\ \A i \in 1..Len(rows) : Len(rows[i].C) <= tc
      BY <2>0, TotalsIs
    <2>5. ASSUME NEW v \in CellValues \ {""}
          PROVE  SearchSheet(rows, v) = {p \in Cols \X Rows : at[p] = v}
      <3>0. v # ""
        OBVIOUS
      <3>1. SearchSheet(rows, v) = Holding(rows, v)
        BY ONLY <2>0, <3>0, SearchSheetIs
      <3>2. \A p \in Cols \X Rows : at[p] = ValueAt(rows, p[1], p[2])
        BY <2>0, GoodRead DEF ValueAt
      <3> HIDE DEF at
      <3>3. Holding(rows, v) = {p \in Cols \X Rows : at[p] = v}
        BY ONLY <3>2 DEF Holding
      <3> QED
        BY <3>1, <3>3
    <2> HIDE DEF at, table, last, tc
    <2>6. ASSUME NEW i \in 1..Len(rows)
          PROVE  /\ ~ColumnsPanics(rows[i])
                 /\ \A c \in 1..Len(rows[i].C) : Columns(rows[i])[c] = at[<<c, i>>]
      <3>1. /\ ~ColumnsPanics(rows[i])
            /\ \A c \in 1..Len(rows[i].C) : Columns(rows[i])[c] = ValueAt(rows, c, i)
        BY <2>0, ColumnsIs
      <3>2. i \in Rows /\ \A c \in 1..Len(rows[i].C) : c \in Cols
        BY <2>f, Places DEF Rows, Cols
      <3> QED
        BY <2>1, <3>1, <3>2
    <2>7. ASSUME Len(table) > 0 PROVE \E c \in Cols : at[<<c, Len(table)>>] # ""
      <3>1. last \in 1..Len(rows) /\ HasValue(rows[last])
        BY <2>2, <2>3, <2>7, <2>f
      <3>2. PICK k \in 1..Len(rows[last].C) : rows[last].C[k].v # ""
        BY <3>1 DEF HasValue
      <3>3. k \in Cols /\ last \in Rows
        BY <2>0, <3>1, <3>2, PlaceOf
      <3>4. HasAt(rows, k, last)
        BY <3>1, <3>2 DEF HasAt
      <3>5. ValueAt(rows, k, last) = rows[last].C[k].v
        BY ONLY <3>4, ValueAtIs
      <3>6. at[<<k, last>>] # ""
        BY <2>1, <3>2, <3>3, <3>5
      <3> QED
        BY <2>2, <3>3, <3>6
    <2>8. ASSUME NEW p \in Cols \X Rows
          PROVE  at[p] = IF p[2] <= Len(table) /\ p[1] <= tc THEN table[p[2]][p[1]] ELSE ""
      <3>1. PICK c \in Cols, r \in Rows : p = <<c, r>>
        OBVIOUS
      <3>2. p[1] = c /\ p[2] = r /\ c \in Nat /\ c >= 1 /\ r \in Nat /\ r >= 1
        BY <3>1, Places
      <3>3. at[p] = ValueAt(rows, c, r)
        BY <2>1, <3>1
      <3>4. CASE r <= last /\ c <= tc
        <4>1. r \in 1..last /\ c \in 1..tc
          BY <2>3, <2>4, <2>f, <3>2, <3>4
        <4>2. table[r][c] = ValueAt(rows, c, r)
          BY <2>2, <4>1
        <4> QED
          BY <2>2, <3>2, <3>3, <3>4, <4>2
      <3>5. CASE ~(r <= last /\ c <= tc)
        <4>1. ValueAt(rows, c, r) = ""
          <5>1. CASE HasAt(rows, c, r)
            <6>1. r \in 1..Len(rows) /\ c \in 1..Len(rows[r].C)
              BY <5>1 DEF HasAt
            <6>2. c <= tc
              BY <2>4, <2>f, <3>2, <6>1
            <6>3. ~HasValue(rows[r])
              BY <2>3, <3>5, <6>1, <6>2
            <6>4. rows[r].C[c].v = ""
              BY <6>1, <6>3 DEF HasValue
            <6> QED
              BY <5>1, <6>4, ValueAtIs
          <5>2. CASE ~HasAt(rows, c, r)
            BY <5>2, ValueAtIs
          <5> QED
            BY <5>1, <5>2
        <4> QED
          BY <2>2, <3>2, <3>3, <3>5, <4>1
      <3> QED
        BY <3>4, <3>5
    <2> QED
      BY <2>2, <2>5, <2>6, <2>7, <2>8 DEF ReadersAgree, at, table, tc
  <1> QED
    BY <1>1, SheetInvHolds, PTL

-----------------------------------------------------------------------------
(* A value set is the value read.                                          *)

\* whatever store prepareSheetXML is given, it ends with a cell at the position
\* the value is stored at
LEMMA PreparedAny ==
  ASSUME NEW rs \in Seq(Row), NEW row \in Coordinate, NEW col \in Coordinate,
         NEW p, p = PrepareSheetXML(rs, col, row)
  PROVE  /\ p \in Seq(Row) /\ row \in 1..Len(p) /\ col \in 1..Len(p[row].C)
  <1> DEFINE full  == FillRows(rs, row)
             cells == FillColumns(full[row].C, col, row)
  <1>0. Len(rs) \in Nat /\ row \in Nat /\ row >= 1 /\ col \in Nat /\ col >= 1
    BY DEF Coordinate
  <1>1. full \in Seq(Row) /\ row \in 1..Len(full)
    <2>1. CASE Len(rs) < row
      <3> DEFINE t == [i \in 1..row |-> IF i <= Len(rs) THEN rs[i] ELSE NewRow(i)]
      <3>1. \A i \in 1..row : NewRow(i) \in Row
        BY <1>0, NewRowGood DEF RowGood, Coordinate
      <3>2. \A i \in 1..row : t[i] \in Row
        BY <1>0, <3>1
      <3>3. t \in Seq(Row) /\ Len(t) = row
        BY <1>0, <3>2
      <3>4. full = t
        BY <2>1 DEF FillRows
      <3> HIDE DEF t, full
      <3> QED
        BY <1>0, <3>3, <3>4
    <2>2. CASE ~(Len(rs) < row)
      BY <1>0, <2>2 DEF FillRows
    <2> QED
      BY <2>1, <2>2
  <1> HIDE DEF full
  <1>2. full[row] \in Row /\ full[row].C \in Seq(Cell)
    BY <1>1, RowType
  <1>3. cells \in Seq(Cell) /\ Len(cells) >= col
    <2> DEFINE C == full[row].C
               D == [k \in 1..col |-> IF k <= Len(C) THEN C[k] ELSE NewCell(k, row)]
    <2>0. C \in Seq(Cell) /\ Len(C) \in Nat
      BY <1>2
    <2> HIDE DEF C
    <2>1. CASE Len(C) < col
      <3>1. \A k \in 1..col : NewCell(k, row) \in Cell
        BY <1>0, NewCellGood DEF Coordinate
      <3>2. \A k \in 1..col : D[k] \in Cell
        BY <1>0, <2>0, <3>1
      <3>3. D \in Seq(Cell) /\ Len(D) = col
        BY <1>0, <3>2
      <3>4. FillColumns(C, col, row) = D
        BY <2>1 DEF FillColumns
      <3> HIDE DEF D
      <3> QED
        BY <1>0, <3>3, <3>4 DEF C
    <2>2. CASE ~(Len(C) < col)
      <3>1. FillColumns(C, col, row) = C
        BY <2>2 DEF FillColumns
      <3> QED
        BY <1>0, <2>0, <2>2, <3>1 DEF C
    <2> QED
      BY <2>1, <2>2
  <1> HIDE DEF cells
  <1>4. p = [full EXCEPT ![row] = [full[row] EXCEPT !.C = cells]]
    BY DEF PrepareSheetXML, full, cells
  <1>5. [full[row] EXCEPT !.C = cells] \in Row /\ [full[row] EXCEPT !.C = cells].C = cells
    BY <1>2, <1>3 DEF Row
  <1>6. p \in Seq(Row) /\ Len(p) = Len(full) /\ p[row].C = cells
    BY <1>1, <1>4, <1>5
  <1> QED
    BY <1>0, <1>1, <1>3, <1>6

\* and the cell there has the type and the value that are stored
LEMMA WrittenAny ==
  ASSUME NEW rs \in Seq(Row), NEW row \in Coordinate, NEW col \in Coordinate,
         NEW ty, NEW v, NEW cs, NEW t, t = WriteCell(rs, col, row, ty, v, cs)
  PROVE  HasAt(t, col, row) /\ t[row].C[col].t = ty /\ t[row].C[col].v = v
  <1> DEFINE p == PrepareSheetXML(rs, col, row)
             C == p[row].C
             d == ValuedCell(C[col], ty, v, cs)
             D == [C EXCEPT ![col] = d]
             x == [p[row] EXCEPT !.C = D]
  <1>1. p \in Seq(Row) /\ row \in 1..Len(p) /\ col \in 1..Len(C)
    BY PreparedAny
  <1>2. t = [p EXCEPT ![row] = x]
    BY DEF WriteCell
  <1> HIDE DEF p
  <1>3. p[row] \in Row /\ C \in Seq(Cell) /\ C[col] \in Cell
    BY <1>1, RowType
  <1>4. d.t = ty /\ d.v = v
    BY <1>3 DEF ValuedCell, Cell
  <1>5. DOMAIN D = 1..Len(C) /\ Len(D) = Len(C) /\ D[col] = d
    BY <1>1, <1>3
  <1>6. x.C = D
    BY <1>3 DEF Row
  <1> HIDE DEF x, d, D
  <1>7. Len(t) = Len(p) /\ t[row] = x
    BY <1>1, <1>2
  <1> QED
    BY <1>1, <1>4, <1>5, <1>6, <1>7 DEF HasAt

\* A value set is the value the next read of the cell returns: prepareCell goes
\* by position, getCellStringFunc by name, and the two lead to the same cell.
THEOREM SetIsReadAlways == Spec => SetIsRead
  <1> DEFINE Read == \A col \in Cols, row \in Rows, w \in Writes, cs \in ColStyles :
                       SetCell(col, row, w, cs) =>
                         CellAt(rows', col, row).t = w.t /\ CellAt(rows', col, row).v = w.v
  <1>1. GridInv /\ GridInv' => Read
    <2> SUFFICES ASSUME GridInv, GridInv',
                        NEW col \in Cols, NEW row \in Rows, NEW w \in Writes, NEW cs \in ColStyles,
                        SetCell(col, row, w, cs)
                 PROVE  CellAt(rows', col, row).t = w.t /\ CellAt(rows', col, row).v = w.v
      OBVIOUS
    <2>1. rows' = WriteCell(rows, col, row, w.t, w.v, cs) /\ phase' = "open"
      BY DEF SetCell, Store
    <2>2. Good(rows')
      BY <2>1, GoodDef DEF GridInv, TypeOK
    <2>3. rows \in Seq(Row) /\ col \in Coordinate /\ row \in Coordinate
      BY Places DEF GridInv, TypeOK
    <2>4. HasAt(rows', col, row) /\ rows'[row].C[col].t = w.t /\ rows'[row].C[col].v = w.v
      BY <2>1, <2>3, WrittenAny
    <2>5. CellAt(rows', col, row) = At(rows', col, row)
      BY <2>2, GoodRead
    <2>6. At(rows', col, row).t = w.t /\ At(rows', col, row).v = w.v
      BY <2>4 DEF At, Content
    <2> QED
      BY <2>5, <2>6
  <1>2. [][Read]_vars => SetIsRead
    BY PTL DEF SetIsRead
  <1> QED
    BY <1>1, <1>2, GridInvHolds, PTL
=============================================================================
