---------------------------- MODULE MCWorkbook ----------------------------
(* Small instances of Workbook for TLC.                                    *)
EXTENDS Workbook, TLC

CONSTANTS A, B, C,    \* names
          Forbidden,  \* a fourth one, of which trimSheetName leaves A
          MaxThings   \* bound on the formulas, and twice the links and hidden sheets

MCNames == {A, B, C, Forbidden}
MCTrim == [n \in Names |-> IF n = Forbidden THEN A ELSE n]

\* nothing tells B from C
Renamings == Permutations({B, C})

Entry(name, id, rid) == [name |-> name, id |-> id, rid |-> rid, hidden |-> FALSE]

\* NewFile: relationships 2 and 3 are the styles and the theme
MCNewFile ==
  [Sheets |-> << Entry(A, 1, 1) >>,
   rels |-> [r \in 1..3 |-> IF r = 1 THEN 1 ELSE 0],
   ContentTypes |-> {1},
   sheetMap |-> [n \in {A} |-> 1],
   Sheet |-> << >>,
   XLSX |-> [p \in {1} |-> [NewContent EXCEPT !.sel = TRUE]],
   SheetRels |-> << >>, XLSXRels |-> << >>,
   ActiveTab |-> 0, SheetCount |-> 1, CalcChain |-> {}]

\* two sheets with a formula each, under these names and relationships
MCTwoSheets(name1, name2, id1, id2) ==
  [Sheets |-> << Entry(name1, id1, 1), Entry(name2, id2, 2) >>,
   rels |-> [r \in 1..4 |-> IF r <= 2 THEN r ELSE 0],
   ContentTypes |-> {1, 2},
   sheetMap |-> [n \in {name1, name2} |-> IF n = name1 THEN 1 ELSE 2],
   Sheet |-> << >>,
   XLSX |-> [p \in {1, 2} |-> [data |-> 0, sel |-> p = 1, links |-> 0, formula |-> TRUE]],
   SheetRels |-> << >>, XLSXRels |-> << >>,
   ActiveTab |-> 0, SheetCount |-> 2, CalcChain |-> {1, 2}]

MCNewBooks == {MCNewFile} \cup {MCTwoSheets(A, n, 1, 2) : n \in {B, C}}

\* two sheets, the second dragged before the first in Excel, which numbers
\* parts by tab and leaves the identifiers alone
MCReordered == {MCTwoSheets(B, A, 2, 1)}

\* relationships of parts that are gone count too: the next sheet may get them
FewThings ==
  2 * Cardinality(DOMAIN f.SheetRels \cup DOMAIN f.XLSXRels)
  + 2 * Cardinality({k \in Positions(f) : f.Sheets[k].hidden})
  + Cardinality({p \in UsedParts : ContentOf(f, p).formula}) <= MaxThings

\* the steps of Spec between states within the bound
SpecFewThings == Init /\ [][Next /\ FewThings']_vars
=============================================================================
