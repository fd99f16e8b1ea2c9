------------------------------- MODULE MCGrid -------------------------------
(* Small instances of Grid for TLC.                                        *)
EXTENDS Grid

\* an empty sheet, and one with gaps between its rows and its cells
MCFiles ==
  { << >>,
    << [R |-> 2, attr |-> 0,
        C |-> << [NewCell(2, 2) EXCEPT !.v = "x"] >>] >> }

MCOneWrite == {[t |-> "", v |-> "x"]}

MCEmptyString == {[t |-> "str", v |-> ""]}

\* a number, and an explicit empty string
MCWrites == {[t |-> "", v |-> "x"], [t |-> "str", v |-> ""]}

\* a single cell, and a rectangle given by its bottom right corner first
MCAreas == {<<2, 1, 2, 1>>, <<2, MaxRow, 1, 1>>}

CONSTANTS MaxFilled,   \* bound on the values, styles, formulas and row attributes
          MaxCells     \* bound on the cells of the store, blank ones included

FewFilled ==
  LET cells == UNION {{i} \X (1..Len(rows[i].C)) : i \in 1..Len(rows)}
      c(p)  == rows[p[1]].C[p[2]]
  IN  /\ Cardinality(cells) <= MaxCells
      /\ Cardinality({p \in cells : c(p).v # "" \/ c(p).t # ""})
         + Cardinality({p \in cells : c(p).s # 0})
         + Cardinality({p \in cells : c(p).f})
         + Cardinality({i \in 1..Len(rows) : rows[i].attr # 0}) <= MaxFilled

\* the steps of Spec between states within the bound
SpecFewFilled == Init /\ [][Next /\ FewFilled']_vars
=============================================================================
