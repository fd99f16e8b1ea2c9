----------------------------- MODULE MCFormulas -----------------------------
EXTENDS Formulas

CONSTANTS MaxValues, MaxFormulas

MCCols == 1..2
MCContents == {"x", "y"}

\* bounds: cells with a stored value, and cells with a formula
FewCells ==
  LET Having(P(_)) == {rc \in (1..Len(sheet)) \X Cols : P(sheet[rc[1]][rc[2]])}
  IN  /\ Cardinality(Having(LAMBDA cell : cell.V)) <= MaxValues
      /\ Cardinality(Having(LAMBDA cell : cell.F # Nil)) <= MaxFormulas

SpecFewCells == Init /\ [][Next /\ FewCells']_vars
=============================================================================
