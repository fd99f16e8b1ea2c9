------------------------------ MODULE MCLayout ------------------------------
(* Small instances of Layout for TLC.                                      *)
EXTENDS Layout

\* no columns, and a range with a width and a style
MCFiles == { << >>, << [NewEntry(1) EXCEPT !.max = 2, !.width = 1, !.style = 1] >> }
=============================================================================
