------------------------------ MODULE Formulas ------------------------------
(***************************************************************************)
(* The formulas of a worksheet (cell.go: GetCellFormula, SetCellFormula,   *)
(* getSharedForumula; excelize.go: UpdateLinkedValue; the row operations   *)
(* of rows.go as far as they move formulas).                               *)
(*                                                                         *)
(* A cell holds a POINTER to its formula, xlsxC.F.  DuplicateRowTo copies  *)
(* the cells with their pointers, so a row and its copy share the formula  *)
(* objects until the workbook is saved and opened again.  A formula of     *)
(* type "shared" holds its text in one cell, the one with a ref; the       *)
(* others name it by its si and are looked up from the top of the sheet.   *)
(*                                                                         *)
(* A row is a function from Cols; how rows and cells are stored is the     *)
(* subject of SheetData.  A pointer is a pair of numbers, Nil is <<0, 0>>. *)
(***************************************************************************)
EXTENDS Integers, Sequences, SequencesExt, FiniteSets

CONSTANTS Cols, Contents, MaxRows,
          Indices       \* the si values of shared formulas

ASSUME FormulasAssumption == /\ Cols \subseteq Nat \ {0} /\ {1, 2} \subseteq Cols
                             /\ "" \notin Contents
                             /\ MaxRows \in Nat \ {0}

VARIABLES sheet,        \* the rows: [Cols -> [F, V]]
          heap          \* the xlsxF objects the cells point to

vars == <<sheet, heap>>

\* xlsxF: Content, T = "shared" or not, Ref present or not, Si (0 without one)
NewFormula(text) == [content |-> text, shared |-> FALSE, ref |-> FALSE, si |-> 0]

Nil == <<0, 0>>
NoFCell == [F |-> Nil, V |-> FALSE]
NewRow == [c \in Cols |-> NoFCell]

Cells(s) == (1..Len(s)) \X Cols
At(s, a) == s[a[1]][a[2]]

\* from the top, in each row from the left
Before(a, b) == a[1] < b[1] \/ (a[1] = b[1] /\ a[2] <= b[2])
First(cells) == CHOOSE a \in cells : \A b \in cells : Before(a, b)

\* The address of an object is the first cell that leads to it: which address
\* an object has shows nowhere, and objects without a pointer are garbage.
Address(s, p) == IF p = Nil THEN Nil ELSE First({a \in Cells(s) : At(s, a).F = p})

-----------------------------------------------------------------------------
(* Reading.                                                                *)

\* mutant: a cell that only refers to the formula is taken for its holder
HoldsSharedAny(f, si) == f.shared /\ f.si = si

HoldsShared(f, si) == f.ref /\ f.shared /\ f.si = si

Holders(s, h, si) == {a \in Cells(s) : At(s, a).F # Nil /\ HoldsShared(h[At(s, a).F], si)}

GetSharedForumula(s, h, si) ==
  LET holders == Holders(s, h, si)
  IN  IF holders = {} THEN "" ELSE h[At(s, First(holders)).F].content

GetCellFormula(s, h, r, c) ==
  LET f == h[s[r][c].F]
  IN  IF s[r][c].F = Nil THEN ""
      ELSE IF f.shared THEN GetSharedForumula(s, h, f.si) ELSE f.content

-----------------------------------------------------------------------------
(* Operations.                                                             *)

Becomes(s, h) ==
  /\ sheet' = [r \in 1..Len(s) |-> [c \in Cols |-> [s[r][c] EXCEPT !.F = Address(s, @)]]]
  /\ heap' = [a \in {a \in Cells(s) : Address(s, At(s, a).F) = a} |-> h[At(s, a).F]]

\* an object the cell has is changed in place
SetCellFormula(r, c, text) ==
  LET p   == sheet[r][c].F
      new == <<r, c>>
  IN  IF p # Nil THEN Becomes(sheet, [heap EXCEPT ![p].content = text])
      ELSE Becomes([sheet EXCEPT ![r][c].F = new],
                   [q \in DOMAIN heap \cup {new} |->
                      IF q = new THEN NewFormula(text) ELSE heap[q]])

ClearCellFormula(r, c) == Becomes([sheet EXCEPT ![r][c].F = Nil], heap)

\* the setters of values leave F alone
SetCellValue(r, c) == Becomes([sheet EXCEPT ![r][c].V = TRUE], heap)

\* mutant: the formula goes with the value
UpdateLinkedCellAll(cell) == NoFCell

UpdateLinkedCell(cell) == IF cell.F # Nil THEN [cell EXCEPT !.V = FALSE] ELSE cell

UpdateLinkedValue ==
  Becomes([r \in 1..Len(sheet) |-> [c \in Cols |-> UpdateLinkedCell(sheet[r][c])]], heap)

InsertRow(r) == Becomes(InsertAt(sheet, r, NewRow), heap)

RemoveRow(r) == Becomes(RemoveAt(sheet, r), heap)

\* rowCopy is taken first, the rows from r2 on move down, the copy goes in
DuplicateRowTo(r, r2) == r # r2 /\ Becomes(InsertAt(sheet, r2, sheet[r]), heap)

\* SaveAs writes each cell with the object it points to; OpenFile makes an
\* object for each cell again
SaveAndOpen ==
  Becomes([r \in 1..Len(sheet) |-> [c \in Cols |->
             [sheet[r][c] EXCEPT !.F = IF @ = Nil THEN Nil ELSE <<r, c>>]]],
          [a \in Cells(sheet) |-> heap[At(sheet, a).F]])

-----------------------------------------------------------------------------
(* Spec edits no formula another cell points to and no shared formula, and *)
(* clears or removes the holder of a shared formula only while another     *)
(* cell holds it.  SpecCopies lifts the first, SpecLosing the last.        *)

Shared(r, c) == sheet[r][c].F # Nil /\ heap[sheet[r][c].F].shared
Holder(r, c) == sheet[r][c].F # Nil /\ heap[sheet[r][c].F].ref

Aliased(r, c) ==
  /\ sheet[r][c].F # Nil
  /\ \E r2 \in 1..Len(sheet), c2 \in Cols :
       <<r2, c2>> # <<r, c>> /\ sheet[r2][c2].F = sheet[r][c].F

\* every shared formula held in the cells that go is held in another as well
HeldElsewhere(gone) ==
  \A a \in gone : Holder(a[1], a[2]) =>
                   Holders(sheet, heap, heap[At(sheet, a).F].si) \ gone # {}

\* a file with a shared formula in two rows and a formula of its own
Init ==
  \E si \in Indices, text, other \in Contents :
    /\ sheet = <<[NewRow EXCEPT ![2] = [F |-> <<1, 2>>, V |-> TRUE]],
                 [NewRow EXCEPT ![1] = [F |-> <<2, 1>>, V |-> FALSE],
                                ![2] = [F |-> <<2, 2>>, V |-> FALSE]]>>
    /\ heap = [a \in {<<1, 2>>, <<2, 1>>, <<2, 2>>} |->
                 IF a = <<2, 1>> THEN NewFormula(other)
                 ELSE [content |-> IF a = <<1, 2>> THEN text ELSE "",
                       shared |-> TRUE, ref |-> a = <<1, 2>>, si |-> si]]

EditAliased == \E r \in 1..Len(sheet), c \in Cols, text \in Contents :
                 Aliased(r, c) /\ ~ Shared(r, c) /\ SetCellFormula(r, c, text)

Next ==
  \/ \E r \in 1..Len(sheet), c \in Cols :
       \/ \E text \in Contents : /\ ~ Aliased(r, c) /\ ~ Shared(r, c)
                                 /\ SetCellFormula(r, c, text)
       \/ HeldElsewhere({<<r, c>>}) /\ ClearCellFormula(r, c)
       \/ SetCellValue(r, c)
  \/ UpdateLinkedValue
  \/ \E r \in 1..Len(sheet) : Len(sheet) < MaxRows /\ InsertRow(r)
  \/ \E r \in 1..Len(sheet) : HeldElsewhere({r} \X Cols) /\ RemoveRow(r)
  \/ \E r \in 1..Len(sheet), r2 \in 1..Len(sheet) + 1 :
       Len(sheet) < MaxRows /\ DuplicateRowTo(r, r2)
  \/ SaveAndOpen

Spec == Init /\ [][Next]_vars

\* sessions that edit the formulas of a copied row
SpecCopies == Init /\ [][Next \/ EditAliased]_vars

\* sessions that remove any row
SpecLosing == Init /\ [][Next \/ \E r \in 1..Len(sheet) : RemoveRow(r)]_vars

-----------------------------------------------------------------------------
(* Properties.                                                             *)

(* A shared formula is found: getSharedForumula has a text for every si in *)
(* use.  In Spec rows move, are copied and removed, the one the formula    *)
(* came with included once its copy holds it too; SpecLosing removes the   *)
(* last holder, after which the cells that name it have no text.           *)
SharedResolves ==
  \A r \in 1..Len(sheet), c \in Cols :
    Shared(r, c) => GetCellFormula(sheet, heap, r, c) # ""

(* The formulas clients read behave as a table of texts, one per cell:     *)
(* setting one changes no other, moving and copying rows carries them      *)
(* along, and saving and opening again changes nothing, although the       *)
(* pointers are then no longer shared.                                     *)
FT == INSTANCE FormulaTable WITH
        table <- [r \in 1..Len(sheet) |-> [c \in Cols |->
                    [formula |-> GetCellFormula(sheet, heap, r, c), value |-> sheet[r][c].V]]]
ImplementsFormulaTable == FT!Spec

(* A row and its copy are two rows: a step that leaves the number of rows  *)
(* alone changes the formula of one cell at most (the comment on           *)
(* DuplicateRow: "inserts a copy of specified row").                       *)
EditsOneCell ==
  [][Len(sheet') = Len(sheet) =>
       \A r, r2 \in 1..Len(sheet), c, c2 \in Cols :
         /\ GetCellFormula(sheet, heap, r, c) # GetCellFormula(sheet, heap, r, c)'
         /\ GetCellFormula(sheet, heap, r2, c2) # GetCellFormula(sheet, heap, r2, c2)'
         => <<r, c>> = <<r2, c2>>]_vars
=============================================================================
