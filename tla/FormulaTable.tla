---------------------------- MODULE FormulaTable ----------------------------
(***************************************************************************)
(* What a client sees of the formulas of a worksheet: a text and a stored  *)
(* value per cell.  Setting a formula changes one cell and keeps its       *)
(* value; rows move, and are copied, as wholes; UpdateLinkedValue forgets  *)
(* the values of the cells with a formula.  No pointers, no shared         *)
(* formulas, and saving changes nothing.                                   *)
(***************************************************************************)
EXTENDS Integers, Sequences, SequencesExt

CONSTANTS Cols, Contents, MaxRows

VARIABLE table

Empty == [formula |-> "", value |-> FALSE]
EmptyRow == [c \in Cols |-> Empty]

\* what a call may make of table S
Step(S, N) ==
  \/ N = S
  \/ \E r \in 1..Len(S), c \in Cols :
       \/ \E text \in Contents \cup {""} : N = [S EXCEPT ![r][c].formula = text]
       \/ N = [S EXCEPT ![r][c].value = TRUE]
  \/ \E r \in 1..Len(S) : N = InsertAt(S, r, EmptyRow) \/ N = RemoveAt(S, r)
  \/ \E r \in 1..Len(S), to \in 1..Len(S) + 1 : N = InsertAt(S, to, S[r])
  \/ N = [r \in 1..Len(S) |->
            [c \in Cols |-> IF S[r][c].formula # "" THEN [S[r][c] EXCEPT !.value = FALSE]
                            ELSE S[r][c]]]

Init == table \in Seq([Cols -> [formula : Contents \cup {""}, value : BOOLEAN]])
Next == \E S \in {table}, N \in {table'} : Step(S, N)
Spec == Init /\ [][Next]_table
=============================================================================
