------------------------------ MODULE Overlay ------------------------------
(***************************************************************************)
(* What lies over the cells of a worksheet, as a client sees it: merged    *)
(* areas, hyperlinks, one auto filter and hidden rows, all of which move   *)
(* with the cells when a row or a column is inserted or removed.           *)
(*                                                                         *)
(* A line is a row or a column.  src says for every line of the new sheet  *)
(* which line of the old one it was, 0 for a new one; what becomes of an   *)
(* area is the range of the lines that come from it.                       *)
(***************************************************************************)
EXTENDS Integers, FiniteSets, FiniteSetsExt

CONSTANTS MaxRow, MaxCol,
          Targets,   \* the addresses hyperlinks lead to
          None,      \* no hyperlink, no filter
          Merges, Filters

VARIABLES areas,     \* the merged areas
          target,    \* the hyperlink of every cell
          filter,    \* the area of the auto filter
          hidden     \* the hidden rows

vars == <<areas, target, filter, hidden>>

Rows == 1..MaxRow
Cols == 1..MaxCol
Inside(c, a) == /\ a.c1 <= c[1] /\ c[1] <= a.c2
                /\ a.r1 <= c[2] /\ c[2] <= a.r2

Overlap(a, b) == \E c \in Cols \X Rows : Inside(c, a) /\ Inside(c, b)
Single(a) == a.c1 = a.c2 /\ a.r1 = a.r2

Init == /\ areas = {} /\ target = [c \in Cols \X Rows |-> None]
        /\ filter = None /\ hidden = {}

(* Each operation, as what it makes of a sheet S.                          *)

\* a new area takes the place of the ones it overlaps
MergeCell(S, a) == [S EXCEPT !.areas = {b \in @ : ~Overlap(a, b)} \cup {a}]

\* a merged cell is one cell: its hyperlink is the one of the top left
Home(S, c) == IF \E a \in S.areas : Inside(c, a)
              THEN LET a == CHOOSE a \in S.areas : Inside(c, a) IN <<a.c1, a.r1>>
              ELSE c

SetCellHyperLink(S, c, t) == [S EXCEPT !.target[Home(S, c)] = t]

AutoFilter(S, a) == [S EXCEPT !.filter = a]

SetRowVisible(S, row, visible) ==
  [S EXCEPT !.hidden = IF visible THEN @ \ {row} ELSE @ \cup {row}]

-----------------------------------------------------------------------------
From(lines, lo, hi, src) == {x \in lines : lo <= src[x] /\ src[x] <= hi}

Survives(a, cols, rows) ==
  From(Cols, a.c1, a.c2, cols) # {} /\ From(Rows, a.r1, a.r2, rows) # {}

Moved(a, cols, rows) ==
  [c1 |-> Min(From(Cols, a.c1, a.c2, cols)), c2 |-> Max(From(Cols, a.c1, a.c2, cols)),
   r1 |-> Min(From(Rows, a.r1, a.r2, rows)), r2 |-> Max(From(Rows, a.r1, a.r2, rows))]

\* the filter goes with its first row, which holds the headings, and then
\* shows the rows it hid; an area of one cell is no area; copied are the rows
\* that are hidden because the row they copy is
Move(S, cols, rows, copied) ==
  LET headless == S.filter # None /\ \A r \in Rows : rows[r] # S.filter.r1
      shown    == IF headless THEN (S.filter.r1 + 1)..S.filter.r2 ELSE {}
  IN  [areas  |-> {Moved(a, cols, rows) :
                     a \in {b \in S.areas : /\ Survives(b, cols, rows)
                                            /\ ~Single(Moved(b, cols, rows))}},
       target |-> [c \in Cols \X Rows |->
                     LET old == <<cols[c[1]], rows[c[2]]>>
                     IN  IF old \in Cols \X Rows THEN S.target[old] ELSE None],
       filter |-> IF S.filter = None \/ headless THEN None
                  ELSE IF Survives(S.filter, cols, rows) THEN Moved(S.filter, cols, rows)
                  ELSE None,
       hidden |-> {r \in Rows : rows[r] \in S.hidden \ shown} \cup copied]

Same(lines) == [x \in lines |-> x]
Inserted(lines, num) ==
  [x \in lines |-> IF x < num THEN x ELSE IF x = num THEN 0 ELSE x - 1]
Removed(lines, num) == [x \in lines |-> IF x < num THEN x ELSE x + 1]

InsertRow(S, num) == Move(S, Same(Cols), Inserted(Rows, num), {})
RemoveRow(S, num) == Move(S, Same(Cols), Removed(Rows, num), {})
InsertCol(S, num) == Move(S, Inserted(Cols, num), Same(Rows), {})
RemoveCol(S, num) == Move(S, Removed(Cols, num), Same(Rows), {})

\* the copy is hidden if the row is; nothing else is copied
DuplicateRowTo(S, row, row2) ==
  Move(S, Same(Cols), Inserted(Rows, row2), IF row \in S.hidden THEN {row2} ELSE {})

\* N is the sheet that S may become
Step(S, N) ==
  \/ \E a \in Merges : N = MergeCell(S, a)
  \/ \E c \in Cols \X Rows, t \in Targets : N = SetCellHyperLink(S, c, t)
  \/ \E a \in Filters : N = AutoFilter(S, a)
  \/ \E row \in Rows : \/ \E v \in BOOLEAN : N = SetRowVisible(S, row, v)
                       \/ N = InsertRow(S, row) \/ N = RemoveRow(S, row)
                       \/ \E row2 \in Rows : N = DuplicateRowTo(S, row, row2)
  \/ \E col \in Cols : N = InsertCol(S, col) \/ N = RemoveCol(S, col)

Next ==
  \E S \in {[areas |-> areas, target |-> target, filter |-> filter, hidden |-> hidden]},
     N \in {[areas |-> areas', target |-> target', filter |-> filter', hidden |-> hidden']} :
    Step(S, N)

Spec == Init /\ [][Next]_vars
=============================================================================
