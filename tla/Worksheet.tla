----------------------------- MODULE Worksheet -----------------------------
(***************************************************************************)
(* What lies over the cells of one worksheet, and the rest of              *)
(* adjustHelper: merged areas, hyperlinks with their relationships, the    *)
(* auto filter and the visibility of rows, under the insertion and removal *)
(* of rows and columns.  The cells themselves are module Grid's; of the    *)
(* cell store only the number of rows and their Hidden flags appear here.  *)
(*                                                                         *)
(* Several loops delete from the slice they range over.  In Go the loop    *)
(* still runs over the length the slice had, and what it reads at an index *)
(* is the array underneath, where the deletion has moved everything one    *)
(* place to the left: the element after a deleted one is skipped and the   *)
(* last one met again, and a second deletion may be out of range.          *)
(*                                                                         *)
(* Spec is a session in which those loops delete what they should and      *)
(* moved areas do not collide; SpecOverlay is a smaller one in which what  *)
(* lies over the cells moves with them; the specifications after it each   *)
(* step into a trap.                                                       *)
(***************************************************************************)
EXTENDS Integers, Sequences, FiniteSets, SequencesExt

CONSTANTS MaxRow,     \* bound on row numbers
          MaxCol,     \* bound on column numbers
          MaxAreas,   \* bound on the merged areas
          MaxLinks,   \* bound on the hyperlinks (65530 in the code)
          Targets,    \* the addresses hyperlinks lead to
          None,       \* no hyperlink, no filter
          Merges,     \* the areas MergeCell is called with
          LinkCells,  \* the cells <<col, row>> SetCellHyperLink is called with
          Filters     \* the areas AutoFilter is called with

Rows == 1..MaxRow
Cols == 1..MaxCol
Area == [c1 : Cols, r1 : Rows, c2 : Cols, r2 : Rows]

ASSUME WorksheetAssumption ==
  /\ MaxRow \in Nat /\ MaxCol \in Nat /\ MaxAreas \in Nat /\ MaxLinks \in Nat
  /\ None \notin Targets
  /\ Merges \subseteq Area /\ Filters \subseteq Area
  /\ \A a \in Merges \cup Filters : a.c1 <= a.c2 /\ a.r1 <= a.r2
  /\ LinkCells \subseteq Cols \X Rows

VARIABLES hidden,   \* SheetData.Row, of which only Hidden
          merges,   \* MergeCells.Cells
          links,    \* Hyperlinks.Hyperlink
          rels,     \* the relationships of the sheet
          filter,   \* AutoFilter.Ref
          failed    \* "": no call has failed; "panic": index out of range or
                    \* nil pointer; "torn": adjustHelper returned before
                    \* checkSheet and left the rows renumbered

vars == <<hidden, merges, links, rels, filter, failed>>

\* a location in the workbook needs no relationship; <<0, 0>> is no cell
Link == [at : (Cols \X Rows) \cup {<<0, 0>>}, rid : Nat, location : Targets \cup {None}]
Rel == [id : Nat \ {0}, target : Targets]

\* the shape of the state
TypeOK == /\ hidden \in Seq(BOOLEAN) /\ Len(hidden) <= MaxRow
          /\ merges \in Seq(Area)
          /\ links \in Seq(Link)
          /\ rels \in Seq(Rel)
          /\ filter \in [c1 : Cols, r1 : Rows, c2 : 0..MaxCol, r2 : Rows] \cup {None}
          /\ failed \in {"", "panic", "torn"}

Init == /\ hidden = << >> /\ merges = << >> /\ links = << >> /\ rels = << >>
        /\ filter = None /\ failed = ""

-----------------------------------------------------------------------------
(* Merged cells.                                                           *)

\* checkCellInArea
Inside(c, a) == /\ a.c1 <= c[1] /\ c[1] <= a.c2
                /\ a.r1 <= c[2] /\ c[2] <= a.r2

TopLeft(a) == <<a.c1, a.r1>>
BottomRight(a) == <<a.c2, a.r2>>
Single(a) == TopLeft(a) = BottomRight(a)

\* what MergeCell makes of the areas m: the new one is given up when a corner
\* of it lies in another or a corner of another in it
Merged(m, a) ==
  IF \/ Single(a)
     \/ \E i \in 1..Len(m) : \/ Inside(TopLeft(a), m[i]) \/ Inside(BottomRight(a), m[i])
                             \/ Inside(TopLeft(m[i]), a) \/ Inside(BottomRight(m[i]), a)
  THEN m ELSE Append(m, a)

\* mergeCellsParser: every area in turn moves the cell to its top left
Redirect(m, c) ==
  LET at[i \in 0..Len(m)] ==
        IF i = 0 THEN c
        ELSE IF Inside(at[i - 1], m[i]) THEN TopLeft(m[i]) ELSE at[i - 1]
  IN  at[Len(m)]

-----------------------------------------------------------------------------
(* Deleting from a slice while ranging over it: arr is the array, len the  *)
(* length of the slice.                                                    *)

Ranging(s) == [arr |-> s, len |-> Len(s), gone |-> FALSE, panic |-> FALSE]

\* mutant: s = append(s[:i], s[i+1:]...)
DeleteAtNext(st, i) ==
  IF i + 1 > st.len THEN [st EXCEPT !.panic = TRUE]
  ELSE [st EXCEPT !.len = @ - 1,
                  !.arr = [j \in 1..Len(@) |->
                             IF i < j /\ j < st.len THEN @[j + 1] ELSE @[j]]]

\* s = append(s[:i-1], s[i:]...)
DeleteAt(st, i) ==
  IF i > st.len THEN [st EXCEPT !.panic = TRUE]
  ELSE [st EXCEPT !.len = @ - 1,
                  !.arr = [j \in 1..Len(@) |->
                             IF i <= j /\ j < st.len THEN @[j + 1] ELSE @[j]]]

\* the element at i is deleted, or the whole list when it is the only one
DeleteOrDrop(st, i) ==
  IF st.gone THEN [st EXCEPT !.panic = TRUE]
  ELSE IF st.len > 1 THEN DeleteAt(st, i) ELSE [st EXCEPT !.gone = TRUE]

Rest(st) == IF st.gone THEN << >> ELSE SubSeq(st.arr, 1, st.len)

\* mutant: the relationship of a removed hyperlink is left behind
RelsKept(r, rid) == Ranging(r)

\* deleteSheetRelationships, and one round of its loop
RelStep(st, i, rid) ==
  IF st.panic \/ st.arr[i].id # rid THEN st ELSE DeleteAt(st, i)

RelsWithout(r, rid) ==
  LET run[i \in 0..Len(r)] ==
        IF i = 0 THEN Ranging(r) ELSE RelStep(run[i - 1], i, rid)
  IN  run[Len(r)]

-----------------------------------------------------------------------------
(* adjustHelper, for one row or column: dir, num, offset.                  *)

\* mutant: the first row and column are not held at 1
AdjustMergeUnclamped(a, dir, num, offset) ==
  LET adjust(v) == IF v < num THEN v ELSE v + offset
  IN  IF dir = "rows" THEN [a EXCEPT !.r1 = adjust(@), !.r2 = adjust(@)]
                      ELSE [a EXCEPT !.c1 = adjust(@), !.c2 = adjust(@)]

\* mutant: an area that ends in the row or column is not made smaller
AdjustMergeLate(a, dir, num, offset) ==
  LET adjust(v) == IF v <= num THEN v ELSE IF v + offset < 1 THEN 1 ELSE v + offset
  IN  IF dir = "rows" THEN [a EXCEPT !.r1 = adjust(@), !.r2 = adjust(@)]
                      ELSE [a EXCEPT !.c1 = adjust(@), !.c2 = adjust(@)]

AdjustMerge(a, dir, num, offset) ==
  LET adjust(v) == IF v < num THEN v ELSE IF v + offset < 1 THEN 1 ELSE v + offset
  IN  IF dir = "rows" THEN [a EXCEPT !.r1 = adjust(@), !.r2 = adjust(@)]
                      ELSE [a EXCEPT !.c1 = adjust(@), !.c2 = adjust(@)]

\* the slice holds pointers: arr is a sequence of indices into the areas,
\* and an area that is met twice is adjusted twice
MergeStep(old, i, dir, num, offset) ==
  LET id == old.st.arr[i]
      a  == AdjustMerge(old.areas[id], dir, num, offset)
  IN  IF old.st.panic THEN old
      ELSE [st |-> IF Single(a) THEN DeleteOrDrop(old.st, i) ELSE old.st,
            areas |-> [old.areas EXCEPT ![id] = a]]

AdjustMergeCells(m, dir, num, offset) ==
  LET n == Len(m)
      run[i \in 0..n] ==
        IF i = 0 THEN [st |-> Ranging([j \in 1..n |-> j]), areas |-> m]
        ELSE MergeStep(run[i - 1], i, dir, num, offset)
      end  == run[n]
      rest == Rest(end.st)
  IN  [panic |-> end.st.panic, cells |-> [j \in 1..Len(rest) |-> end.areas[rest[j]]]]

OnLine(c, dir, num) == IF dir = "rows" THEN c[2] = num ELSE c[1] = num

\* mutant: a link in the very row or column stays
AdjustLinkLate(l, dir, num, offset) ==
  [l EXCEPT !.at = IF dir = "rows"
                   THEN IF @[2] > num THEN <<@[1], @[2] + offset>> ELSE @
                   ELSE IF @[1] > num THEN <<@[1] + offset, @[2]>> ELSE @]

\* a link that ends up before the first row or column loses its cell
AdjustLink(l, dir, num, offset) ==
  LET at == IF dir = "rows"
            THEN IF l.at[2] >= num THEN <<l.at[1], l.at[2] + offset>> ELSE l.at
            ELSE IF l.at[1] >= num THEN <<l.at[1] + offset, l.at[2]>> ELSE l.at
  IN  [l EXCEPT !.at = IF at[1] < 1 \/ at[2] < 1 THEN <<0, 0>> ELSE at]

LinkStep(old, i, dir, num, offset) ==
  LET l   == old.st.arr[i]
      del == RelsWithout(old.rels, l.rid)
  IN  IF old.st.panic \/ offset >= 0 \/ ~OnLine(l.at, dir, num) THEN old
      ELSE [st |-> IF del.panic THEN [old.st EXCEPT !.panic = TRUE]
                   ELSE DeleteOrDrop(old.st, i),
            rels |-> Rest(del)]

AdjustHyperlinks(ls, rs, dir, num, offset) ==
  LET run[i \in 0..Len(ls)] ==
        IF i = 0 THEN [st |-> Ranging(ls), rels |-> rs]
        ELSE LinkStep(run[i - 1], i, dir, num, offset)
      end  == run[Len(ls)]
      rest == Rest(end.st)
  IN  [panic |-> end.st.panic, rels |-> end.rels,
       links |-> [j \in 1..Len(rest) |-> AdjustLink(rest[j], dir, num, offset)]]

\* the filter goes when its headings do, or its only column is removed or
\* has one inserted before it
FilterGoes(a, dir, num, offset) ==
  \/ dir = "rows" /\ a.r1 = num /\ offset < 0
  \/ dir = "columns" /\ a.c1 = num /\ a.c2 = num

\* only the last column moves; column 0 has no name, which is an error the
\* next time
AdjustAutoFilter(a, dir, num, offset) ==
  LET adjust(v) == IF v >= num THEN v + offset ELSE v
  IN  IF dir = "rows" THEN [a EXCEPT !.r1 = adjust(@), !.r2 = adjust(@)]
                      ELSE [a EXCEPT !.c2 = adjust(@)]

\* adjustHelper, with the rows renumbered to h
Adjust(h, dir, num, offset) ==
  LET l     == AdjustHyperlinks(links, rels, dir, num, offset)
      m     == AdjustMergeCells(merges, dir, num, offset)
      goes  == filter # None /\ FilterGoes(filter, dir, num, offset)
      shown == [i \in 1..Len(h) |->
                  IF filter.r1 < i /\ i <= filter.r2 THEN FALSE ELSE h[i]]
  IN  IF l.panic \/ m.panic
      THEN failed' = "panic" /\ UNCHANGED <<hidden, merges, links, rels, filter>>
      ELSE /\ links' = l.links /\ rels' = l.rels /\ merges' = m.cells
           /\ IF filter # None /\ filter.c2 < 1
              THEN failed' = "torn" /\ hidden' = h /\ UNCHANGED filter
              ELSE /\ hidden' = IF goes THEN shown ELSE h
                   /\ filter' = IF filter = None \/ goes THEN None
                                ELSE AdjustAutoFilter(filter, dir, num, offset)
                   /\ UNCHANGED failed

-----------------------------------------------------------------------------
(* The calls.                                                              *)

\* prepareSheetXML, for a call that touches row
Grown(row) == [i \in 1..(IF Len(hidden) < row THEN row ELSE Len(hidden)) |->
                 IF i <= Len(hidden) THEN hidden[i] ELSE FALSE]

SetRowVisible(row, visible) ==
  /\ hidden' = [Grown(row) EXCEPT ![row] = ~visible]
  /\ UNCHANGED <<merges, links, rels, filter, failed>>

MergeCell(a) ==
  /\ merges' = Merged(merges, a)
  /\ UNCHANGED <<hidden, links, rels, filter, failed>>

\* External: addSheetRelationships numbers by the count
SetCellHyperLink(c, t, external) ==
  LET at == Redirect(merges, c)
      id == Len(rels) + 1
  IN  /\ Len(links) < MaxLinks
      /\ links' = Append(links,
                    IF external THEN [at |-> at, rid |-> id, location |-> None]
                                ELSE [at |-> at, rid |-> 0, location |-> t])
      /\ rels' = IF external THEN Append(rels, [id |-> id, target |-> t]) ELSE rels
      /\ UNCHANGED <<hidden, merges, filter, failed>>

AutoFilter(a) == filter' = a /\ UNCHANGED <<hidden, merges, links, rels, failed>>

InsertRow(row) ==
  Adjust(IF row <= Len(hidden) THEN InsertAt(hidden, row, FALSE) ELSE hidden,
         "rows", row, 1)

\* nothing is adjusted below the last row of the store
RemoveRow(row) ==
  row <= Len(hidden) /\ Adjust(RemoveAt(hidden, row), "rows", row, -1)

\* no further than one past the last row (see module Grid)
DuplicateRowTo(row, row2) ==
  /\ row <= Len(hidden) /\ row # row2 /\ row2 <= Len(hidden) + 1
  /\ Adjust(InsertAt(hidden, row2, hidden[row]), "rows", row2, 1)

InsertCol(col) == Adjust(hidden, "columns", col, 1)
RemoveCol(col) == Adjust(hidden, "columns", col, -1)

-----------------------------------------------------------------------------
(* Sessions.                                                               *)

Overlap(a, b) == \E c \in Cols \X Rows : Inside(c, a) /\ Inside(c, b)

\* nothing is pushed over the edge of the bounded sheet
Room(dir, num) ==
  LET pushed(v, max) == num <= v => v < max
      last(a) == IF dir = "rows" THEN pushed(a.r2, MaxRow) ELSE pushed(a.c2, MaxCol)
  IN  /\ dir = "rows" => pushed(Len(hidden), MaxRow)
      /\ \A i \in 1..Len(merges) : last(merges[i])
      /\ \A i \in 1..Len(links) :
           IF dir = "rows" THEN pushed(links[i].at[2], MaxRow)
                           ELSE pushed(links[i].at[1], MaxCol)
      /\ filter # None => last(filter)

\* the first and the last line of an area, and whether two areas have a line
\* of the other direction in common
Lo(a, dir) == IF dir = "rows" THEN a.r1 ELSE a.c1
Hi(a, dir) == IF dir = "rows" THEN a.r2 ELSE a.c2
Other(dir) == IF dir = "rows" THEN "columns" ELSE "rows"
Abreast(a, b, dir) == /\ Lo(a, Other(dir)) <= Hi(b, Other(dir))
                      /\ Lo(b, Other(dir)) <= Hi(a, Other(dir))

\* no area that begins in the line to be removed follows directly upon another,
\* whose last line it would be moved to; nor upon one that is all in line 1,
\* which does not move, when line 1 is removed
Apart(dir, num) ==
  \A i, j \in 1..Len(merges) :
    LET a == merges[i]
        b == merges[j]
    IN  Abreast(a, b, dir) /\ Hi(a, dir) + 1 = Lo(b, dir) =>
          num # Lo(b, dir) /\ ~(num = 1 /\ Hi(a, dir) = 1)

\* the elements a loop over n of them deletes: any of two, and of more only the
\* last or the last but one, and only one
DeletesRight(gone, n) == n <= 2 \/ gone = {} \/ gone = {n - 1} \/ gone = {n}

Collapsing(dir, num) ==
  {i \in 1..Len(merges) : Single(AdjustMerge(merges[i], dir, num, -1))}
LinksOn(dir, num) == {i \in 1..Len(links) : OnLine(links[i].at, dir, num)}

\* a filter keeps a last column
FilterKept(dir, num) ==
  dir = "columns" /\ num = 1 /\ filter # None => ~(filter.c2 = 1 /\ filter.c1 > 1)

Removable(dir, num) ==
  /\ DeletesRight(Collapsing(dir, num), Len(merges))
  /\ DeletesRight(LinksOn(dir, num), Len(links))
  /\ Apart(dir, num) /\ FilterKept(dir, num)

\* MergeCell notices every area it overlaps, by a corner of one in the other
Noticed(a) ==
  \A i \in 1..Len(merges) : Overlap(a, merges[i]) => Merged(<<merges[i]>>, a) = <<merges[i]>>

\* the numbers of the relationships have no gap, the cell no hyperlink yet
RelsDense == \A i \in 1..Len(rels) : rels[i].id <= Len(rels)
Unlinked(c) == \A i \in 1..Len(links) : links[i].at # Redirect(merges, c)

\* for the overlay: no merged area begins in the row or column to be removed,
\* which would move the area over the cells before it, except in the first one
\* when more of the area is left
NoneBegins(dir, num) ==
  \A i \in 1..Len(merges) :
    Lo(merges[i], dir) = num => num = 1 /\ Hi(merges[i], dir) > num

\* no hidden rows when the headings of the filter are removed: the rows to be
\* shown again are looked up by the numbers they had before
NoneHidden(num) ==
  filter # None /\ filter.r1 = num => \A i \in 1..Len(hidden) : ~hidden[i]

\* columns change only to the right of the first column of the filter, which
\* does not move with them
RightOfFilter(num) == filter # None => filter.c1 < num

\* a new area overlaps none, MergeCell would leave it out
Disjoint(a) == \A i \in 1..Len(merges) : ~Overlap(a, merges[i])

LinkCall(c) == \E t \in Targets, external \in BOOLEAN : SetCellHyperLink(c, t, external)

\* overlay: what lies over the cells is to move with them
Calls(overlay) ==
  \/ \E row \in Rows :
       \/ \E v \in BOOLEAN : SetRowVisible(row, v)
       \/ Room("rows", row) /\ InsertRow(row)
       \/ Room("rows", row) /\ \E from \in Rows : DuplicateRowTo(from, row)
       \/ /\ Removable("rows", row)
          /\ overlay => NoneBegins("rows", row) /\ NoneHidden(row)
          /\ RemoveRow(row)
  \/ \E col \in Cols :
       /\ overlay => RightOfFilter(col)
       /\ \/ Room("columns", col) /\ InsertCol(col)
          \/ /\ Removable("columns", col)
             /\ overlay => NoneBegins("columns", col)
             /\ RemoveCol(col)
  \/ \E a \in Merges :
       /\ Len(merges) < MaxAreas /\ Noticed(a) /\ (overlay => Disjoint(a))
       /\ MergeCell(a)
  \/ \E c \in LinkCells : RelsDense /\ Unlinked(c) /\ LinkCall(c)
  \/ \E a \in Filters : AutoFilter(a)

Next == failed = "" /\ Calls(FALSE)
Spec == Init /\ [][Next]_vars

NextOverlay == failed = "" /\ Calls(TRUE)
SpecOverlay == Init /\ [][NextOverlay]_vars

\* the loops delete any number of areas and hyperlinks
SpecLoops ==
  Init /\ [][\/ Next
             \/ failed = "" /\ \E col \in Cols : Apart("columns", col) /\ RemoveCol(col)]_vars

\* an area that begins in the column removed follows directly upon another
SpecTouching ==
  Init /\ [][\/ Next
             \/ /\ failed = ""
                /\ \E col \in Cols : DeletesRight(Collapsing("columns", col), Len(merges))
                                     /\ RemoveCol(col)]_vars

\* a hyperlink is added after one was removed
SpecLinkAgain ==
  Init /\ [][\/ Next
             \/ failed = "" /\ \E c \in LinkCells : Unlinked(c) /\ LinkCall(c)]_vars

-----------------------------------------------------------------------------
(* Properties.                                                             *)

\* No row or column operation panics in one of the loops over hyperlinks,
\* relationships and merged areas, nor stops before checkSheet has put the
\* renumbered rows in order.  With one or two areas, or hyperlinks, any of them
\* may be deleted on the way; with more only the last or the last but one
\* (Removable), and a filter does not lose its last column (FilterKept).  Where
\* more is deleted it does not hold: SpecLoops.
AdjustCompletes == failed = ""

\* Merged areas do not come to overlap when rows and columns are inserted and
\* removed and new areas merged: a cell belongs to at most one, so
\* mergeCellsParser has one answer.  A line in which areas begin may be removed
\* unless one of them follows directly upon another (Apart); a new area may
\* overlap others if a corner shows it (Noticed).  It does not hold otherwise:
\* SpecTouching, and NewAreaWins for areas that cross.
AreasDisjoint ==
  \A i, j \in 1..Len(merges) : i # j => ~Overlap(merges[i], merges[j])

\* what GetCellHyperLink answers for a cell no area covers
LinkAt(ls, rs, c) ==
  IF \A i \in 1..Len(ls) : ls[i].at # c THEN None
  ELSE LET l   == ls[CHOOSE i \in 1..Len(ls) : /\ ls[i].at = c
                                               /\ \A j \in 1..(i - 1) : ls[j].at # c]
           hit == {i \in 1..Len(rs) : rs[i].id = l.rid}
       IN  IF l.rid = 0 THEN l.location
           ELSE IF hit = {} THEN None
           ELSE rs[CHOOSE i \in hit : \A j \in hit : i <= j].target

\* The relationships of the sheet are those of its external hyperlinks, one
\* each: removing a row or column takes away neither too many nor too few,
\* where the loop over the hyperlinks deletes what it should (Removable).
LinksResolve ==
  /\ \A i, j \in 1..Len(rels) : rels[i].id = rels[j].id => i = j
  /\ {links[i].rid : i \in 1..Len(links)} \ {0} = {rels[i].id : i \in 1..Len(rels)}

\* A new merged area is there afterwards, and none it overlaps.
NewAreaWins ==
  \A a \in Merges :
    LET m == Merged(merges, a)
    IN  /\ \E i \in 1..Len(m) : m[i] = a
        /\ \A i \in 1..Len(m) : m[i] = a \/ ~Overlap(m[i], a)

\* A hyperlink that has been set is the one the cell answers with.
LinkIsSet ==
  [][\A c \in LinkCells, t \in Targets, external \in BOOLEAN :
       SetCellHyperLink(c, t, external) =>
         LinkAt(links', rels', Redirect(merges, c)) = t]_vars

\* The overlay a client sees.
Abstract == INSTANCE Overlay
  WITH areas <- {merges[i] : i \in 1..Len(merges)},
       target <- [c \in Cols \X Rows |-> LinkAt(links, rels, c)],
       hidden <- {i \in 1..Len(hidden) : hidden[i]}

\* Merged areas, hyperlinks, the auto filter and hidden rows move with the
\* cells they lie over, and no call disturbs another kind, in the session of
\* SpecOverlay: no area but one in line 1 begins in the line removed, the
\* filter lies to the left of the columns that change, no row is hidden when
\* its headings go, and a new area overlaps none.
ImplementsOverlay == Abstract!Spec
=============================================================================
