------------------------------- MODULE Layout -------------------------------
(***************************************************************************)
(* The columns of a worksheet and the place of an object on it.            *)
(*                                                                         *)
(* Column attributes are a list of ranges that only grows: every setter    *)
(* appends an entry and every getter lets the last match count.  Row       *)
(* heights are part of the rows (module Grid) and are one number here.     *)
(*                                                                         *)
(* positionObjectPixels turns the cell, offset and size of a picture,      *)
(* chart or shape into the cells of its two corners.  It counts columns    *)
(* and rows from 0 and asks getColWidth, which counts from 1, and          *)
(* getRowHeight, which counts from 0.  Its four loops are one step per     *)
(* round, so that their end is a property and not an assumption.           *)
(*                                                                         *)
(* Spec places objects at offsets smaller than any column and row of the   *)
(* session; SpecOffset lifts that.  Widths are whole numbers of            *)
(* characters and heights whole points, both positive: the setters take    *)
(* any number, and over a negative one the loops do not end.               *)
(***************************************************************************)
EXTENDS Integers, Sequences, FiniteSets

CONSTANTS MaxCol,       \* bound on the columns that have attributes
          MaxRow,       \* bound on the rows that have a height
          Widths,       \* the widths SetColWidth gets
          Heights,      \* the heights SetRowHeight gets
          Levels,       \* the outline levels
          Styles,       \* the styles of columns in a file
          Files,        \* the column lists a session may start from
          Sizes,        \* the widths and heights of objects, in pixels
          Offsets,      \* the offsets of objects, in pixels
          LargeOffsets, \* those of SpecOffset
          MaxEntries,   \* bound on the column list
          LastCell      \* bound on the cells an object reaches

Cols == 1..MaxCol
Rows == 1..MaxRow

ColEntry == [min : Cols, max : Cols, width : Widths \cup {0},
             hidden : BOOLEAN, level : Levels \cup {0}, style : Styles]

ASSUME LayoutAssumption ==
  /\ MaxCol \in Nat \ {0} /\ MaxRow \in Nat \ {0}
  /\ Widths \subseteq Nat \ {0} /\ Heights \subseteq Nat \ {0}
  /\ Sizes \subseteq Nat /\ Offsets \subseteq Nat /\ LargeOffsets \subseteq Nat
  /\ 0 \in Styles /\ Files \subseteq Seq(ColEntry)
  /\ \A file \in Files : \A i \in 1..Len(file) : file[i].min <= file[i].max
  /\ MaxEntries \in Nat /\ LastCell \in Nat

-----------------------------------------------------------------------------
(* Pixels.                                                                 *)

DefaultColWidthPixels == 64
DefaultRowHeightPixels == 20

\* width * 7 + 0.5, and 5 of padding, rounded up; 4 pixels to 3 points
ConvertColWidthToPixels(width) == IF width = 0 THEN 0 ELSE 7 * width + 6
ConvertRowHeightToPixels(height) == IF height = 0 THEN 0 ELSE (4 * height + 2) \div 3

\* Spec's offsets are smaller than any column and row, and LastCell is so far
\* away that an object with a pixel in every cell it lies over ends before it
ASSUME PlacesAssumption ==
  \A x \in Offsets :
    /\ x < DefaultRowHeightPixels /\ x < DefaultColWidthPixels
    /\ \A w \in Widths : x < ConvertColWidthToPixels(w)
    /\ \A h \in Heights : x < ConvertRowHeightToPixels(h)
    /\ \A s \in Sizes : MaxCol + x + s <= LastCell /\ MaxRow + x + s <= LastCell

-----------------------------------------------------------------------------
VARIABLES cols,     \* Cols.Col, of which nil is the empty list
          heights,  \* Ht of every row, 0 when it was not set
          job       \* positionObjectPixels: its arguments and its variables

vars == <<cols, heights, job>>

Loops == {"startCol", "startRow", "endCol", "endRow"}

Request == [col : Nat, row : Nat, x : Nat, y : Nat, width : Nat, height : Nat]
NoRequest == [col |-> 0, row |-> 0, x |-> 0, y |-> 0, width |-> 0, height |-> 0]

Job == [pc : Loops \cup {"idle", "placed"}, req : Request,
        col : Nat, row : Nat, x1 : Nat, y1 : Nat,
        colEnd : Nat, rowEnd : Nat, width : Nat, height : Nat]

Idle == [pc |-> "idle", req |-> NoRequest, col |-> 0, row |-> 0, x1 |-> 0, y1 |-> 0,
         colEnd |-> 0, rowEnd |-> 0, width |-> 0, height |-> 0]

\* the shape of the state: an entry covers at least one column, and what is
\* left of an offset or a size never turns negative
TypeOK == /\ cols \in Seq(ColEntry)
          /\ \A i \in 1..Len(cols) : cols[i].min <= cols[i].max
          /\ heights \in [Rows -> Heights \cup {0}]
          /\ job \in Job

Init == cols \in Files /\ heights = [r \in Rows |-> 0] /\ job = Idle

-----------------------------------------------------------------------------
(* Columns.                                                                *)

Covers(entry, c) == entry.min <= c /\ c <= entry.max

NewEntry(c) == [min |-> c, max |-> c, width |-> 0, hidden |-> FALSE,
                level |-> 0, style |-> 0]

\* for the mutant below
FirstMatch(c) ==
  IF \E i \in 1..Len(cols) : Covers(cols[i], c)
  THEN cols[CHOOSE i \in 1..Len(cols) :
              Covers(cols[i], c) /\ \A j \in 1..(i - 1) : ~Covers(cols[j], c)]
  ELSE NewEntry(c)

\* what the getters see: the last match counts
LastMatch(c) ==
  IF \E i \in 1..Len(cols) : Covers(cols[i], c)
  THEN cols[CHOOSE i \in 1..Len(cols) :
              Covers(cols[i], c) /\ \A j \in (i + 1)..Len(cols) : ~Covers(cols[j], c)]
  ELSE NewEntry(c)

GetColVisible(c) == ~LastMatch(c).hidden
GetColOutlineLevel(c) == LastMatch(c).level

\* mutant: a setter copies the first match
ColDataFirst(c) == FirstMatch(c)

\* what SetColVisible and SetColOutlineLevel copy before they change it
ColData(c) == LastMatch(c)

AppendCol(entry) ==
  /\ Len(cols) < MaxEntries
  /\ cols' = Append(cols, entry) /\ job' = Idle /\ UNCHANGED heights

SetColVisible(c, visible) ==
  AppendCol([ColData(c) EXCEPT !.min = c, !.max = c, !.hidden = ~visible])

SetColOutlineLevel(c, level) ==
  AppendCol([ColData(c) EXCEPT !.min = c, !.max = c, !.level = level])

SetColWidth(start, end, w) ==
  LET min == IF start > end THEN end ELSE start
      max == IF start > end THEN start ELSE end
  IN  AppendCol([NewEntry(min) EXCEPT !.max = max, !.width = w])

SetRowHeight(r, h) ==
  heights' = [heights EXCEPT ![r] = h] /\ job' = Idle /\ UNCHANGED cols

\* getColWidth counts columns from 1
GetColWidth(c) ==
  IF LastMatch(c).width # 0 THEN ConvertColWidthToPixels(LastMatch(c).width)
                            ELSE DefaultColWidthPixels

\* getRowHeight counts rows from 0
GetRowHeight(r) ==
  IF r + 1 \in Rows /\ heights[r + 1] # 0 THEN ConvertRowHeightToPixels(heights[r + 1])
                                          ELSE DefaultRowHeightPixels

-----------------------------------------------------------------------------
(* The place of an object.                                                 *)

\* addDrawingPicture, addDrawingChart and addDrawingShape name the cell from 0
PositionObjectPixels(req) ==
  /\ job.pc \notin Loops
  /\ job' = [Idle EXCEPT !.pc = "startCol", !.req = req, !.col = req.col,
                         !.row = req.row, !.x1 = req.x, !.y1 = req.y]
  /\ UNCHANGED <<cols, heights>>

\* the next column or row; LastCell bounds them, and no object gets there
Succ(n) == IF n < LastCell THEN n + 1 ELSE n

\* one round of a loop, or the step to the next one
Round(pc, again, changed, done) ==
  /\ job.pc = pc
  /\ job' = IF again THEN changed ELSE done
  /\ UNCHANGED <<cols, heights>>

AdjustStartCol ==
  Round("startCol", job.x1 >= GetColWidth(job.col),
        [job EXCEPT !.x1 = @ - GetColWidth(job.col), !.col = Succ(@)],
        [job EXCEPT !.pc = "startRow"])

AdjustStartRow ==
  Round("startRow", job.y1 >= GetRowHeight(job.row),
        [job EXCEPT !.y1 = @ - GetRowHeight(job.row), !.row = Succ(@)],
        [job EXCEPT !.pc = "endCol", !.colEnd = job.col, !.rowEnd = job.row,
                    !.width = job.req.width + job.x1,
                    !.height = job.req.height + job.y1])

\* mutant: an object that ends where its column does ends there
FindEndColLate ==
  Round("endCol", job.width > GetColWidth(job.colEnd + 1),
        [job EXCEPT !.colEnd = Succ(@), !.width = @ - GetColWidth(job.colEnd + 1)],
        [job EXCEPT !.pc = "endRow"])

FindEndCol ==
  Round("endCol", job.width >= GetColWidth(job.colEnd + 1),
        [job EXCEPT !.colEnd = Succ(@), !.width = @ - GetColWidth(job.colEnd + 1)],
        [job EXCEPT !.pc = "endRow"])

\* mutant: the height of the row is not taken off
FindEndRowForever ==
  Round("endRow", job.height >= GetRowHeight(job.rowEnd),
        [job EXCEPT !.rowEnd = Succ(@)],
        [job EXCEPT !.pc = "placed"])

FindEndRow ==
  Round("endRow", job.height >= GetRowHeight(job.rowEnd),
        [job EXCEPT !.height = @ - GetRowHeight(job.rowEnd), !.rowEnd = Succ(@)],
        [job EXCEPT !.pc = "placed"])

PositionStep == AdjustStartCol \/ AdjustStartRow \/ FindEndCol \/ FindEndRow

\* the corners of the anchor: the offset of the first is the caller's, not
\* what is left of it
From == [col |-> job.col, colOff |-> job.req.x, row |-> job.row, rowOff |-> job.req.y]
To == [col |-> job.colEnd, colOff |-> job.width, row |-> job.rowEnd, rowOff |-> job.height]

-----------------------------------------------------------------------------
SetColumns ==
  /\ job.pc \notin Loops
  /\ \E c \in Cols :
       \/ \E visible \in BOOLEAN : SetColVisible(c, visible)
       \/ \E level \in Levels : SetColOutlineLevel(c, level)
       \/ \E d \in Cols, w \in Widths : SetColWidth(c, d, w)

SetRows == job.pc \notin Loops /\ \E r \in Rows, h \in Heights : SetRowHeight(r, h)

Place(offsets) ==
  \E c \in Cols, r \in Rows, x \in offsets, y \in offsets, w \in Sizes, h \in Sizes :
    PositionObjectPixels([col |-> c - 1, row |-> r - 1, x |-> x, y |-> y,
                          width |-> w, height |-> h])

Next == SetColumns \/ SetRows \/ Place(Offsets) \/ PositionStep

\* a call that has begun runs on: nothing else happens in its goroutine
Spec == Init /\ [][Next]_vars /\ WF_vars(PositionStep)

SpecOffset == /\ Init
              /\ [][SetColumns \/ Place(LargeOffsets) \/ PositionStep]_vars
              /\ WF_vars(PositionStep)

-----------------------------------------------------------------------------
(* Properties.                                                             *)

\* where column c and row r, counted from 0, begin
Left(n) == LET f[c \in 0..n] == IF c = 0 THEN 0 ELSE f[c - 1] + GetColWidth(c) IN f[n]
Top(n) == LET f[r \in 0..n] == IF r = 0 THEN 0 ELSE f[r - 1] + GetRowHeight(r - 1) IN f[n]

\* The corners positionObjectPixels answers with lie where the object does:
\* the first is the caller's offset from the cell, the second the size of the
\* object further on, and each within the cell it names.
AnchorExact ==
  job.pc = "placed" =>
    LET left == Left(job.req.col) + job.req.x
        top  == Top(job.req.row) + job.req.y
    IN  /\ Left(From.col) + From.colOff = left
        /\ Top(From.row) + From.rowOff = top
        /\ Left(To.col) + To.colOff = left + job.req.width
        /\ Top(To.row) + To.rowOff = top + job.req.height
        /\ To.colOff < GetColWidth(To.col + 1)
        /\ To.rowOff < GetRowHeight(To.row)

\* The four loops of positionObjectPixels end, whatever columns and rows the
\* object lies over.
PlacingEnds == job.pc \in Loops ~> job.pc = "placed"

\* The columns as the getters show them, whatever list holds them.
Table == INSTANCE ColumnTable
  WITH table <- [c \in Cols |-> [width  |-> LastMatch(c).width,
                                 hidden |-> ~GetColVisible(c),
                                 level  |-> GetColOutlineLevel(c),
                                 style  |-> LastMatch(c).style]]

\* A column is as its last setter left it, and a call changes the columns it
\* names and no other, however the ranges of the list overlap.
ImplementsColumnTable == Table!Spec

\* SetColWidth sets the width of the columns it names and nothing else.
WidthOnly ==
  [][\A c, d \in Cols, w \in Widths :
       SetColWidth(c, d, w) =>
         \A k \in Cols : /\ GetColVisible(k)' = GetColVisible(k)
                         /\ GetColOutlineLevel(k)' = GetColOutlineLevel(k)]_vars
=============================================================================
