-------------------------------- MODULE Book --------------------------------
(***************************************************************************)
(* What a workbook promises its client: a sequence of tabs, each with a    *)
(* name of its own and contents.  No parts, identifiers or relationships,  *)
(* and neither Save nor opening the file changes anything.                 *)
(***************************************************************************)
EXTENDS Integers, Sequences

CONSTANTS Names,
          Data,    \* the contents of a sheet
          Blank    \* those of a new one

VARIABLE tabs

Tab == [name : Names, data : Data]
Places(S) == 1..Len(S)
Distinct(S) == \A j, k \in Places(S) : S[j].name = S[k].name => j = k

Init == tabs \in Seq(Tab) /\ tabs # << >> /\ Distinct(tabs)

(* Each operation, as what it makes of the tabs S.                         *)

NewSheet(S, name) == Append(S, [name |-> name, data |-> Blank])

DeleteSheet(S, k) ==
  [j \in 1..(Len(S) - 1) |-> IF j < k THEN S[j] ELSE S[j + 1]]

SetSheetName(S, k, name) == [S EXCEPT ![k].name = name]

CopySheet(S, from, to) == [S EXCEPT ![to].data = S[from].data]

Write(S, k, d) == [S EXCEPT ![k].data = d]

\* N are the tabs that S may become; a name in use is not given again, and
\* the last sheet stays
Step(S, N) ==
  \/ \E name \in Names : /\ \A k \in Places(S) : S[k].name # name
                         /\ \/ N = NewSheet(S, name)
                            \/ \E k \in Places(S) : N = SetSheetName(S, k, name)
  \/ \E k \in Places(S) : \/ Len(S) > 1 /\ N = DeleteSheet(S, k)
                          \/ \E to \in Places(S) : N = CopySheet(S, k, to)
                          \/ \E d \in Data : N = Write(S, k, d)

Next == \E S \in {tabs}, N \in {tabs'} : Step(S, N)

Spec == Init /\ [][Next]_tabs
=============================================================================
