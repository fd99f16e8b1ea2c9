---------------------------- MODULE MCWorksheet ----------------------------
(* Small instances of Worksheet for TLC.                                   *)
EXTENDS Worksheet

A(c1, r1, c2, r2) == [c1 |-> c1, r1 |-> r1, c2 |-> c2, r2 |-> r2]

NoAreas == {}
NoCells == {}

\* a part of a row, a part of a column and a whole row
MCMerges == {A(1, 1, 2, 1), A(2, 2, 2, 3), A(1, 3, 3, 3)}

\* these, and one that overlaps two of them with a corner
MCAreas == MCMerges \cup {A(2, 1, 3, 2)}

\* two areas side by side
MCBeside == {A(1, 1, 1, 2), A(2, 1, 3, 2)}

\* areas that overlap without a corner of one in the other
MCCrossing == {A(1, 2, 3, 2), A(2, 1, 2, 3)}

\* three areas that one column is removed from
MCRow == {A(1, 1, 2, 1), A(1, 2, 2, 2), A(1, 3, 2, 3)}

MCLinkCells == {<<1, 1>>, <<2, 1>>, <<2, 2>>}

MCTwoCells == {<<2, 1>>, <<2, 2>>}

MCOneFilter == {A(1, 1, 2, 3)}
MCFilters == {A(1, 1, 2, 3), A(2, 2, 3, 2)}

CONSTANT MaxThings   \* bound on the areas, links, filters and hidden rows together

FewThings ==
  Len(merges) + Len(links) + (IF filter = None THEN 0 ELSE 1)
  + Cardinality({i \in 1..Len(hidden) : hidden[i]}) <= MaxThings

\* the steps of Spec and of SpecOverlay between states within the bound
SpecFewThings == Init /\ [][Next /\ FewThings']_vars
SpecOverlayFewThings == Init /\ [][NextOverlay /\ FewThings']_vars
=============================================================================
