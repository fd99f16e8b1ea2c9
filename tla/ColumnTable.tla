---------------------------- MODULE ColumnTable ----------------------------
(***************************************************************************)
(* What a client sees of the columns of a worksheet: a width, visibility,  *)
(* outline level and style per column.  No list of ranges: a call changes  *)
(* the columns it names.  Setting a width makes a column new in all other  *)
(* respects; that is what the code does, and what callers must know.       *)
(***************************************************************************)
EXTENDS Integers

CONSTANTS MaxCol, Widths, Levels, Styles

VARIABLE table

Cols == 1..MaxCol
Column == [width : Widths \cup {0}, hidden : BOOLEAN, level : Levels \cup {0},
           style : Styles]
Plain == [width |-> 0, hidden |-> FALSE, level |-> 0, style |-> 0]

Init == table \in [Cols -> Column]

SetColWidth(from, to, w) ==
  table' = [c \in Cols |-> IF from <= c /\ c <= to THEN [Plain EXCEPT !.width = w]
                           ELSE table[c]]

SetColVisible(c, visible) == table' = [table EXCEPT ![c].hidden = ~visible]

SetColOutlineLevel(c, level) == table' = [table EXCEPT ![c].level = level]

Next == \/ \E from, to \in Cols, w \in Widths : SetColWidth(from, to, w)
        \/ \E c \in Cols : \/ \E v \in BOOLEAN : SetColVisible(c, v)
                           \/ \E l \in Levels : SetColOutlineLevel(c, l)

Spec == Init /\ [][Next]_table
=============================================================================
