----------------------------- MODULE MCPackage -----------------------------
(* Small instances of Package for TLC.                                     *)
EXTENDS Package

CONSTANT MaxObjects   \* bound on the anchors, comments, tables and backgrounds

NoParts == << >>

\* a workbook with n worksheets and nothing on them
Blank(n) ==
  [Sheet |-> [s \in 1..n |-> NewWorksheet],
   XLSX |-> [k \in Stored |-> NoParts], Cache |-> [k \in Parsed |-> NoParts],
   DecodeVMLDrawing |-> NoParts, Overrides |-> {}, Defaults |-> {}]

MCNewFiles == {Blank(1)}

\* a file of three worksheets, the first with a drawing
MCLoaded ==
  {[Blank(3) EXCEPT
      !.Sheet[1].drawing = 1,
      !.XLSX["sheetRels"] = <<<<[type |-> "drawing", target |-> 1]>>>>,
      !.XLSX["drawing"] = <<<<[kind |-> "sp", cell |-> CHOOSE c \in Cells : TRUE, rid |-> 0,
                               raw |-> FALSE]>>>>,
      !.Overrides = {<<"drawing", 1>>}, !.Defaults = {"image"}]}

\* what the parts of a kind hold together
Held(kind, Is(_)) ==
  LET parts == DOMAIN f.XLSX[kind] \cup DOMAIN f.Cache[kind]
  IN  Cardinality(UNION {{n} \X {i \in DOMAIN Content(f, kind, n) : Is(Content(f, kind, n)[i])} :
                         n \in parts})

FewObjects ==
  Held("drawing", LAMBDA a : TRUE) + Held("comments", LAMBDA c : TRUE)
  + CountStored(f, "table") + Held("sheetRels", LAMBDA r : r.type = "image") <= MaxObjects

\* the steps of Spec between states within the bound
SpecFewObjects == Init /\ [][Next /\ FewObjects']_vars
=============================================================================
