----------------------------- MODULE MCSettings -----------------------------
(* Small instances of Settings for TLC.                                    *)
EXTENDS Settings

\* a sheet with two views, and a file without any
MCFiles == { << NewView, NewView >>, << >> }

MCIndices == (-3)..2

CONSTANT MaxSet   \* bound on the settings that are not as they were at first

FewSet ==
  LET n == Cardinality({<<i, o>> \in (1..Len(views)) \X DOMAIN NewView :
                          views[i][o] # NewView[o]})
           + (IF pr = None THEN 0
              ELSE 1 + Cardinality({o \in DOMAIN pr : pr[o] # NewSheetPr[o]}))
           + Cardinality({i \in 1..3 : << page, headerFooter, protection >>[i] # None})
      m == Len(objects)
           + Cardinality({k \in 1..Len(objects) : objects[k].ShowErrorMessage})
           + Cardinality({k \in 1..Len(objects) : objects[k].ShowInputMessage})
           + Cardinality({k \in 1..Len(objects) : objects[k].Sqref > 0})
  IN  n + m <= MaxSet

\* the steps of Spec between states within the bound
SpecFewSet == Init /\ [][Next /\ FewSet']_vars
=============================================================================
