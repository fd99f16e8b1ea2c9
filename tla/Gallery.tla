------------------------------ MODULE Gallery ------------------------------
(***************************************************************************)
(* What the objects of a workbook promise: each sheet shows the pictures,  *)
(* charts and shapes put on it, its comments, its tables and a background. *)
(* There are no parts, numbers or relationships.                           *)
(***************************************************************************)
EXTENDS Integers, Sequences

CONSTANTS Cells, Images, Charts, Tables, Texts, MaxSheet

VARIABLE sheets

\* pictures and charts show something, shapes nothing
Object == [kind : {"pic"}, cell : Cells, what : {<<x>> : x \in Images}]
          \cup [kind : {"chart"}, cell : Cells, what : {<<x>> : x \in Charts}]
          \cup [kind : {"sp"}, cell : Cells, what : {<< >>}]
Note == [cell : Cells, text : Texts]
Empty == [objects |-> << >>, notes |-> << >>, tables |-> << >>, back |-> << >>]
Numbers == DOMAIN sheets

Init == /\ Numbers \subseteq 1..MaxSheet /\ Numbers # {}
        /\ \A s \in Numbers : sheets[s] = Empty

\* sheet w becomes v
AddObject(w, v) == \E o \in Object : v = [w EXCEPT !.objects = Append(@, o)]
AddNote(w, v) == \E n \in Note : v = [w EXCEPT !.notes = Append(@, n)]
AddTable(w, v) == \E x \in Tables : v = [w EXCEPT !.tables = Append(@, x)]
SetBackground(w, v) == \E x \in Images : v = [w EXCEPT !.back = <<x>>]

OneSheet(s) ==
  LET w == sheets[s]
      v == sheets'[s]
  IN  /\ AddObject(w, v) \/ AddNote(w, v) \/ AddTable(w, v) \/ SetBackground(w, v)
      /\ \A t \in Numbers \ {s} : sheets'[t] = sheets[t]

NewSheet(s) == /\ \A x \in Numbers : x < s
               /\ sheets' = [x \in Numbers \cup {s} |-> IF x = s THEN Empty ELSE sheets[x]]
DeleteSheet(s) == /\ Numbers # {s}
                  /\ sheets' = [x \in Numbers \ {s} |-> sheets[x]]

Next == \/ DOMAIN sheets' = Numbers /\ \E s \in Numbers : OneSheet(s)
        \/ \E s \in Numbers : DeleteSheet(s)
        \/ \E s \in 1..MaxSheet : NewSheet(s)

Spec == Init /\ [][Next]_sheets
=============================================================================
