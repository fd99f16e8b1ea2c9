--------------------------- MODULE FormulasProofs ---------------------------
(***************************************************************************)
(* Proofs about module Formulas: for every set of columns, of texts and of *)
(* indices of shared formulas, and every number of rows.                   *)
(***************************************************************************)
EXTENDS Formulas, NaturalsInduction, WellFoundedInduction, SequenceTheorems, TLAPS

Formula == [content : Contents \cup {""}, shared : BOOLEAN, ref : BOOLEAN, si : Indices \cup {0}]
Cell == [F : Nat \X Nat, V : BOOLEAN]
Row == [Cols -> Cell]

\* the cell has a formula, and the object it points to
Has(s, a) == At(s, a).F # Nil
Object(s, h, a) == h[At(s, a).F]
IsHolder(f) == f.ref /\ f.shared

\* Every cell with a formula has a text: its own, or one that some holder of
\* its si has; and all holders of an si have the same.
Good(s, h) ==
  /\ s \in Seq(Row)
  /\ \A a \in Cells(s) : Has(s, a) =>
       LET f == Object(s, h, a)
       IN  /\ f \in Formula
           /\ ~ f.shared \/ f.ref => f.content # ""
           /\ f.shared => \E b \in Cells(s) : Has(s, b) /\ HoldsShared(Object(s, h, b), f.si)
  /\ \A a, b \in Cells(s) :
       /\ Has(s, a) /\ IsHolder(Object(s, h, a)) /\ Has(s, b) /\ IsHolder(Object(s, h, b))
       /\ Object(s, h, a).si = Object(s, h, b).si
       => Object(s, h, a).content = Object(s, h, b).content

\* an object has the address of a cell that leads to it, and cells lead to objects
Addressed ==
  /\ \A a \in DOMAIN heap : a \in Cells(sheet) /\ At(sheet, a).F = a
  /\ \A a \in Cells(sheet) : Has(sheet, a) => At(sheet, a).F \in DOMAIN heap

FormulasInv == Good(sheet, heap) /\ Addressed

-----------------------------------------------------------------------------
(* Cells in the order in which they are read.                              *)

LEMMA Least ==
  ASSUME NEW S, S \subseteq Nat, S # {}
  PROVE  \E n \in S : \A m \in S : n <= m
  <1> DEFINE R == OpToRel(<, Nat)
  <1>1. IsWellFoundedOn(R, Nat)
    BY NatLessThanWellFounded
  <1>2. \A x, y \in Nat : <<y, x>> \in R <=> y < x
    BY DEF R, OpToRel
  <1> HIDE DEF R
  <1>3. PICK x \in S : \A y \in S : ~ (<<y, x>> \in R)
    BY <1>1, WFMin
  <1>4. \A y \in S : ~(y < x)
    BY <1>2, <1>3, Zenon
  <1> QED
    BY <1>4

\* there is a first among any cells
LEMMA FirstIs ==
  ASSUME NEW X, X \subseteq Nat \X Nat, X # {}
  PROVE  First(X) \in X
  <1> DEFINE R == {a[1] : a \in X}
  <1>1. \A a \in X : a[1] \in Nat /\ a[2] \in Nat
    OBVIOUS
  <1>2. PICK r \in R : \A m \in R : r <= m
    <2>1. R \subseteq Nat /\ R # {}
      BY <1>1
    <2> HIDE DEF R
    <2> QED
      BY <2>1, Least
  <1> DEFINE C == {a[2] : a \in {b \in X : b[1] = r}}
  <1>3. PICK c \in C : \A m \in C : c <= m
    <2>1. C \subseteq Nat /\ C # {}
      BY <1>1, <1>2
    <2> HIDE DEF C
    <2> QED
      BY <2>1, Least
  <1>4. PICK a \in X : a[1] = r /\ a[2] = c
    BY <1>3
  <1>5. \A b \in X : Before(a, b)
    <2> SUFFICES ASSUME NEW b \in X PROVE Before(a, b)
      OBVIOUS
    <2>1. r <= b[1] /\ r \in Nat /\ b[1] \in Nat
      BY <1>1, <1>2, <1>4
    <2>2. b[1] = r => c <= b[2]
      BY <1>3
    <2> QED
      BY <1>4, <2>1, <2>2 DEF Before
  <1> QED
    BY <1>4, <1>5, Zenon DEF First

LEMMA CellsType ==
  ASSUME NEW s \in Seq(Row)
  PROVE  /\ Len(s) \in Nat /\ Cells(s) \subseteq Nat \X Nat
         /\ \A a \in Cells(s) : a # Nil /\ a[1] \in 1..Len(s) /\ a[2] \in Cols /\ a = <<a[1], a[2]>>
         /\ \A r \in 1..Len(s), c \in Cols : <<r, c>> \in Cells(s) /\ At(s, <<r, c>>) = s[r][c]
         /\ \A r \in 1..Len(s) : s[r] \in Row
         /\ \A a \in Cells(s) : At(s, a) \in Cell
  <1>1. Len(s) \in Nat /\ \A r \in 1..Len(s) : s[r] \in Row
    <2> HIDE DEF Row
    <2> QED
      OBVIOUS
  <1>2. Cells(s) \subseteq Nat \X Nat
    <2>1. Cols \subseteq Nat
      BY FormulasAssumption
    <2>2. 1..Len(s) \subseteq Nat
      BY <1>1
    <2> QED
      BY <2>1, <2>2 DEF Cells
  <1>3. \A a \in Cells(s) : a # Nil /\ a[1] \in 1..Len(s) /\ a[2] \in Cols /\ a = <<a[1], a[2]>>
    BY <1>1 DEF Cells, Nil
  <1>4. \A r \in 1..Len(s), c \in Cols : <<r, c>> \in Cells(s) /\ At(s, <<r, c>>) = s[r][c]
    BY DEF Cells, At
  <1>5. \A a \in Cells(s) : At(s, a) \in Cell
    BY <1>1, <1>3 DEF At, Row
  <1> QED
    BY <1>1, <1>2, <1>3, <1>4, <1>5

-----------------------------------------------------------------------------
(* What a shared formula is found to be.                                   *)

LEMMA SharedText ==
  ASSUME NEW s, NEW h, Good(s, h), NEW a \in Cells(s), NEW si,
         Has(s, a), HoldsShared(Object(s, h, a), si)
  PROVE  GetSharedForumula(s, h, si) = Object(s, h, a).content
  <1> DEFINE X == {b \in Cells(s) : At(s, b).F # Nil /\ HoldsShared(h[At(s, b).F], si)}
             b == First(X)
  <1>1. a \in X
    BY DEF Has, Object
  <1>2. X \subseteq Nat \X Nat
    BY CellsType DEF Good
  <1>3. GetSharedForumula(s, h, si) = Object(s, h, b).content
    BY <1>1 DEF GetSharedForumula, Holders, Object
  <1>4. b \in X
    <2> HIDE DEF X
    <2> QED
      BY <1>1, <1>2, FirstIs
  <1>5. b \in Cells(s) /\ Has(s, b) /\ HoldsShared(Object(s, h, b), si)
    BY <1>4 DEF Has, Object
  <1> HIDE DEF b, X
  <1>6. Object(s, h, b).content = Object(s, h, a).content
    BY <1>5, Zenon DEF Good, IsHolder, HoldsShared
  <1> QED
    BY <1>3, <1>6

LEMMA NoSharedText ==
  ASSUME NEW s, NEW h, NEW si,
         \A a \in Cells(s) : Has(s, a) => ~ HoldsShared(Object(s, h, a), si)
  PROVE  GetSharedForumula(s, h, si) = ""
  BY DEF GetSharedForumula, Holders, Has, Object

\* Every object of a sheet t is one of s, or a formula of its own, and every
\* shared formula of s is still held.
Keeps(s, h, t, g) ==
  /\ \A b \in Cells(t) : Has(t, b) =>
       \/ /\ Object(t, g, b) \in Formula /\ ~ Object(t, g, b).shared
          /\ Object(t, g, b).content # ""
       \/ \E a \in Cells(s) : Has(s, a) /\ Object(t, g, b) = Object(s, h, a)
  /\ \A a \in Cells(s) : Has(s, a) /\ IsHolder(Object(s, h, a)) =>
       \E b \in Cells(t) : Has(t, b) /\ HoldsShared(Object(t, g, b), Object(s, h, a).si)

AllObjects(s, h, t, g) ==
  \A a \in Cells(s) : (Has(t, a) <=> Has(s, a)) /\ (Has(s, a) => Object(t, g, a) = Object(s, h, a))

LEMMA AllKept ==
  ASSUME NEW s, NEW h, NEW t, NEW g, Cells(t) = Cells(s), AllObjects(s, h, t, g)
  PROVE  Keeps(s, h, t, g)
  <1>1. \A b \in Cells(t) : Has(t, b) =>
          \E a \in Cells(s) : Has(s, a) /\ Object(t, g, b) = Object(s, h, a)
    BY Zenon DEF AllObjects
  <1>2. ASSUME NEW a \in Cells(s), Has(s, a), IsHolder(Object(s, h, a))
        PROVE  Has(t, a) /\ HoldsShared(Object(t, g, a), Object(s, h, a).si)
    <2>1. Has(t, a) /\ Object(t, g, a) = Object(s, h, a)
      BY <1>2, Zenon DEF AllObjects
    <2> QED
      BY <1>2, <2>1 DEF IsHolder, HoldsShared
  <1> QED
    BY <1>1, <1>2, Zenon DEF Keeps

SameShared(s, h, t, g) == \A si : GetSharedForumula(t, g, si) = GetSharedForumula(s, h, si)

\* then the same is found for every si
LEMMA Follows ==
  ASSUME NEW s, NEW h, Good(s, h), NEW t \in Seq(Row), NEW g, Keeps(s, h, t, g)
  PROVE  Good(t, g) /\ SameShared(s, h, t, g)
  <1>1. ASSUME NEW b \in Cells(t), Has(t, b)
        PROVE  /\ Object(t, g, b) \in Formula
               /\ ~ Object(t, g, b).shared \/ Object(t, g, b).ref => Object(t, g, b).content # ""
    BY <1>1, Zenon DEF Good, Keeps
  <1>2. ASSUME NEW b \in Cells(t), Has(t, b), Object(t, g, b).shared
        PROVE  \E a \in Cells(s) : Has(s, a) /\ Object(t, g, b) = Object(s, h, a)
    BY <1>2, Zenon DEF Keeps
  <1>3. ASSUME NEW b \in Cells(t), Has(t, b), Object(t, g, b).shared
        PROVE  \E c \in Cells(t) : Has(t, c) /\ HoldsShared(Object(t, g, c), Object(t, g, b).si)
    <2>1. PICK a \in Cells(s) : Has(s, a) /\ Object(t, g, b) = Object(s, h, a)
      BY <1>2, <1>3, Zenon
    <2>2. PICK d \in Cells(s) : Has(s, d) /\ HoldsShared(Object(s, h, d), Object(s, h, a).si)
      BY <1>3, <2>1, Zenon DEF Good
    <2>3. PICK c \in Cells(t) : Has(t, c) /\ HoldsShared(Object(t, g, c), Object(s, h, d).si)
      BY <2>2, Zenon DEF IsHolder, HoldsShared, Keeps
    <2>4. Object(s, h, d).si = Object(t, g, b).si
      BY <2>1, <2>2 DEF HoldsShared
    <2> QED
      BY <2>3, <2>4
  <1>4. ASSUME NEW a \in Cells(t), NEW b \in Cells(t), Has(t, a), Has(t, b),
               IsHolder(Object(t, g, a)), IsHolder(Object(t, g, b)),
               Object(t, g, a).si = Object(t, g, b).si
        PROVE  Object(t, g, a).content = Object(t, g, b).content
    <2>1. PICK c \in Cells(s) : Has(s, c) /\ Object(t, g, a) = Object(s, h, c)
      BY <1>2, <1>4, Zenon DEF IsHolder
    <2>2. PICK d \in Cells(s) : Has(s, d) /\ Object(t, g, b) = Object(s, h, d)
      BY <1>2, <1>4, Zenon DEF IsHolder
    <2>3. /\ IsHolder(Object(s, h, c)) /\ IsHolder(Object(s, h, d))
          /\ Object(s, h, c).si = Object(s, h, d).si
      BY <1>4, <2>1, <2>2
    <2>4. Object(s, h, c).content = Object(s, h, d).content
      BY <2>1, <2>2, <2>3, Zenon DEF Good
    <2> QED
      BY <2>1, <2>2, <2>4
  <1>5. Good(t, g)
    BY <1>1, <1>3, <1>4, Zenon DEF Good
  <1>6. ASSUME NEW si PROVE GetSharedForumula(t, g, si) = GetSharedForumula(s, h, si)
    <2>1. CASE \E a \in Cells(s) : Has(s, a) /\ HoldsShared(Object(s, h, a), si)
      <3>1. PICK a \in Cells(s) : Has(s, a) /\ HoldsShared(Object(s, h, a), si)
        BY <2>1
      <3>2. PICK b \in Cells(t) : Has(t, b) /\ HoldsShared(Object(t, g, b), si)
        <4>1. Object(s, h, a).si = si /\ IsHolder(Object(s, h, a))
          BY <3>1 DEF HoldsShared, IsHolder
        <4> QED
          BY <3>1, <4>1, Zenon DEF Keeps
      <3>3. PICK d \in Cells(s) : Has(s, d) /\ Object(t, g, b) = Object(s, h, d)
        BY <1>2, <3>2 DEF HoldsShared
      <3>4. GetSharedForumula(t, g, si) = Object(t, g, b).content
        BY <1>5, <3>2, SharedText, Zenon
      <3>5. GetSharedForumula(s, h, si) = Object(s, h, d).content
        <4>1. HoldsShared(Object(s, h, d), si)
          BY <3>2, <3>3
        <4> QED
          BY <3>3, <4>1, SharedText, Zenon
      <3> QED
        BY <3>3, <3>4, <3>5
    <2>2. CASE \A a \in Cells(s) : Has(s, a) => ~ HoldsShared(Object(s, h, a), si)
      <3>1. \A b \in Cells(t) : Has(t, b) => ~ HoldsShared(Object(t, g, b), si)
        BY <1>2, <2>2, Zenon DEF HoldsShared
      <3> QED
        BY <2>2, <3>1, NoSharedText
    <2> QED
      BY <2>1, <2>2
  <1> QED
    BY <1>5, <1>6 DEF SameShared

-----------------------------------------------------------------------------
(* What clients read.                                                      *)

Entry == [formula : Contents \cup {""}, value : BOOLEAN]
TableOf(s, h) == [r \in 1..Len(s) |-> [c \in Cols |->
                    [formula |-> GetCellFormula(s, h, r, c), value |-> s[r][c].V]]]
Text(s, h, a) == GetCellFormula(s, h, a[1], a[2])

LEMMA TextIs ==
  ASSUME NEW s, NEW h, Good(s, h), NEW a \in Cells(s)
  PROVE  /\ Text(s, h, a) = IF ~ Has(s, a) THEN ""
                            ELSE IF Object(s, h, a).shared
                                 THEN GetSharedForumula(s, h, Object(s, h, a).si)
                                 ELSE Object(s, h, a).content
         /\ Text(s, h, a) \in Contents \cup {""}
         /\ Has(s, a) <=> Text(s, h, a) # ""
  <1>1. Text(s, h, a) = IF ~ Has(s, a) THEN ""
                        ELSE IF Object(s, h, a).shared
                             THEN GetSharedForumula(s, h, Object(s, h, a).si)
                             ELSE Object(s, h, a).content
    BY DEF Text, GetCellFormula, Has, Object, At
  <1>2. CASE ~ Has(s, a)
    BY <1>1, <1>2
  <1>3. CASE Has(s, a) /\ ~ Object(s, h, a).shared
    <2>1. Object(s, h, a) \in Formula /\ Object(s, h, a).content # ""
      BY <1>3, Zenon DEF Good
    <2>2. Object(s, h, a).content \in Contents \cup {""}
      BY <2>1 DEF Formula
    <2> QED
      BY <1>1, <1>3, <2>1, <2>2
  <1>4. CASE Has(s, a) /\ Object(s, h, a).shared
    <2> DEFINE si == Object(s, h, a).si
    <2>1. PICK b \in Cells(s) : Has(s, b) /\ HoldsShared(Object(s, h, b), si)
      BY <1>4, Zenon DEF Good
    <2>2. Object(s, h, b) \in Formula /\ Object(s, h, b).content # ""
      BY <2>1, Zenon DEF Good, HoldsShared
    <2>3. Object(s, h, b).content \in Contents \cup {""}
      BY <2>2 DEF Formula
    <2> HIDE DEF si
    <2>4. GetSharedForumula(s, h, si) = Object(s, h, b).content
      BY <2>1, SharedText, Zenon
    <2> QED
      BY <1>1, <1>4, <2>2, <2>3, <2>4 DEF si
  <1> QED
    BY <1>1, <1>2, <1>3, <1>4

\* a cell reads the same in two sheets when it has the same object in both
LEMMA SameText ==
  ASSUME NEW s, NEW h, Good(s, h), NEW t, NEW g, Good(t, g), SameShared(s, h, t, g),
         NEW a \in Cells(s), NEW b \in Cells(t),
         Has(s, a) <=> Has(t, b), Has(s, a) => Object(t, g, b) = Object(s, h, a)
  PROVE  Text(t, g, b) = Text(s, h, a)
  BY TextIs DEF SameShared

LEMMA TableType ==
  ASSUME NEW s, NEW h, Good(s, h)
  PROVE  /\ TableOf(s, h) \in Seq([Cols -> Entry]) /\ Len(TableOf(s, h)) = Len(s) /\ Len(s) \in Nat
         /\ \A r \in 1..Len(s) : TableOf(s, h)[r] \in [Cols -> Entry]
         /\ \A r \in 1..Len(s), c \in Cols :
              TableOf(s, h)[r][c] = [formula |-> Text(s, h, <<r, c>>), value |-> s[r][c].V]
  <1>1. s \in Seq(Row)
    BY DEF Good
  <1>2. Len(s) \in Nat
    BY <1>1, CellsType
  <1> DEFINE e(r, c) == [formula |-> GetCellFormula(s, h, r, c), value |-> s[r][c].V]
             row(r) == [c \in Cols |-> e(r, c)]
             T == [Cols -> Entry]
  <1>3. ASSUME NEW r \in 1..Len(s), NEW c \in Cols
        PROVE  e(r, c) = [formula |-> Text(s, h, <<r, c>>), value |-> s[r][c].V] /\ e(r, c) \in Entry
    <2>1. Text(s, h, <<r, c>>) = GetCellFormula(s, h, r, c)
      BY DEF Text
    <2>2. <<r, c>> \in Cells(s) /\ At(s, <<r, c>>) = s[r][c]
      BY <1>1, CellsType
    <2>3. s[r][c].V \in BOOLEAN
      <3>1. s[r][c] \in Cell
        BY <1>1, <2>2, CellsType
      <3> QED
        BY <3>1 DEF Cell
    <2>4. Text(s, h, <<r, c>>) \in Contents \cup {""}
      BY <2>2, TextIs
    <2> DEFINE x == GetCellFormula(s, h, r, c)
               v == s[r][c].V
    <2>5. x \in Contents \cup {""} /\ v \in BOOLEAN
      BY <2>1, <2>3, <2>4
    <2> HIDE DEF x, v
    <2>6. [formula |-> x, value |-> v] \in Entry
      BY <2>5 DEF Entry
    <2> QED
      BY <2>1, <2>6 DEF x, v
  <1>4. \A r \in 1..Len(s) : row(r) \in T
    BY <1>3
  <1>5. TableOf(s, h) = [r \in 1..Len(s) |-> row(r)]
    BY DEF TableOf
  <1>6. \A r \in 1..Len(s), c \in Cols : row(r)[c] = e(r, c)
    OBVIOUS
  <1> HIDE DEF row, T, e
  <1>7. [r \in 1..Len(s) |-> row(r)] \in Seq(T) /\ Len([r \in 1..Len(s) |-> row(r)]) = Len(s)
    BY <1>2, <1>4
  <1>8. \A r \in 1..Len(s) : TableOf(s, h)[r] = row(r)
    BY <1>5
  <1> QED
    BY <1>2, <1>3, <1>4, <1>5, <1>6, <1>7, <1>8 DEF T, e

-----------------------------------------------------------------------------
(* After every call objects get the addresses of their first cells.        *)

LEMMA AddressIs ==
  ASSUME NEW s \in Seq(Row), NEW a \in Cells(s), Has(s, a)
  PROVE  LET b == Address(s, At(s, a).F)
         IN  b \in Cells(s) /\ b # Nil /\ b \in Nat \X Nat /\ At(s, b).F = At(s, a).F
  <1> DEFINE p == At(s, a).F
             X == {b \in Cells(s) : At(s, b).F = p}
  <1>1. Address(s, p) = First(X)
    BY DEF Address, Has
  <1>2. a \in X /\ X \subseteq Nat \X Nat
    BY CellsType
  <1>3. First(X) \in X
    <2> HIDE DEF X
    <2> QED
      BY <1>2, FirstIs
  <1>4. First(X) \in Cells(s) /\ At(s, First(X)).F = p
    BY <1>3
  <1> HIDE DEF X
  <1>5. First(X) # Nil /\ First(X) \in Nat \X Nat
    BY <1>4, CellsType
  <1> QED
    BY <1>1, <1>4, <1>5

LEMMA BecomesIs ==
  ASSUME NEW s, NEW h, Good(s, h), Becomes(s, h)
  PROVE  FormulasInv' /\ TableOf(sheet', heap') = TableOf(s, h)
  <1> DEFINE t == sheet'
             g == heap'
             n == Len(s)
             cell(r, c) == [s[r][c] EXCEPT !.F = Address(s, @)]
             row(r) == [c \in Cols |-> cell(r, c)]
  <1>1. s \in Seq(Row) /\ n \in Nat
    BY CellsType DEF Good
  <1>2. ASSUME NEW r \in 1..n, NEW c \in Cols
        PROVE  /\ cell(r, c) \in Cell /\ cell(r, c).V = s[r][c].V
               /\ cell(r, c).F = Address(s, s[r][c].F)
               /\ cell(r, c).F = Nil <=> s[r][c].F = Nil
    <2>1. s[r][c] \in Cell /\ <<r, c>> \in Cells(s) /\ At(s, <<r, c>>) = s[r][c]
      BY <1>1, CellsType
    <2> DEFINE d == Address(s, s[r][c].F)
    <2>2. d \in Nat \X Nat /\ (d = Nil <=> s[r][c].F = Nil)
      <3>1. CASE s[r][c].F = Nil
        BY <3>1 DEF Address, Nil
      <3>2. CASE s[r][c].F # Nil
        BY <1>1, <2>1, <3>2, AddressIs DEF Has
      <3> QED
        BY <3>1, <3>2
    <2>3. cell(r, c) = [s[r][c] EXCEPT !.F = d]
      OBVIOUS
    <2> HIDE DEF d, cell
    <2>4. cell(r, c) \in Cell /\ cell(r, c).V = s[r][c].V /\ cell(r, c).F = d
      BY <2>1, <2>2, <2>3 DEF Cell
    <2> QED
      BY <2>2, <2>4 DEF d
  <1>3. t = [r \in 1..n |-> row(r)]
    BY DEF Becomes
  <1>4. \A r \in 1..n : row(r) \in Row
    BY <1>2 DEF Row
  <1>5. \A r \in 1..n, c \in Cols : row(r)[c] = cell(r, c)
    OBVIOUS
  <1> HIDE DEF row, cell
  <1>6. t \in Seq(Row) /\ Len(t) = n /\ \A r \in 1..n : t[r] = row(r)
    <2> HIDE DEF t
    <2> QED
      BY <1>1, <1>3, <1>4
  <1>7. Cells(t) = Cells(s)
    BY <1>6 DEF Cells
  <1>8. ASSUME NEW a \in Cells(s)
        PROVE  /\ At(t, a).V = At(s, a).V /\ At(t, a).F = Address(s, At(s, a).F)
               /\ Has(t, a) <=> Has(s, a)
    <2>1. a[1] \in 1..n /\ a[2] \in Cols
      BY <1>1, CellsType
    <2> QED
      BY <1>2, <1>5, <1>6, <2>1 DEF At, Has
  <1>9. DOMAIN g = {a \in Cells(s) : Address(s, At(s, a).F) = a}
    BY DEF Becomes
  <1>10. \A a \in DOMAIN g : g[a] = h[At(s, a).F]
    BY DEF Becomes
  <1> HIDE DEF t, g
  <1>11. ASSUME NEW a \in Cells(s), Has(s, a)
         PROVE  Object(t, g, a) = Object(s, h, a) /\ At(t, a).F \in DOMAIN g
    <2> DEFINE b == Address(s, At(s, a).F)
    <2>1. b \in Cells(s) /\ At(s, b).F = At(s, a).F
      BY <1>1, <1>11, AddressIs
    <2>2. Address(s, At(s, b).F) = b
      BY <2>1
    <2>3. At(t, a).F = b
      BY <1>8
    <2> HIDE DEF b
    <2>4. b \in DOMAIN g
      BY <1>9, <2>1, <2>2
    <2> QED
      BY <1>10, <2>1, <2>3, <2>4 DEF Object
  <1>12. Keeps(s, h, t, g)
    <2>1. AllObjects(s, h, t, g)
      BY <1>8, <1>11, Zenon DEF AllObjects
    <2> QED
      BY <1>7, <2>1, AllKept
  <1>13. Good(t, g) /\ SameShared(s, h, t, g)
    BY <1>6, <1>12, Follows
  <1>14. /\ \A a \in DOMAIN g : a \in Cells(t) /\ At(t, a).F = a
         /\ \A a \in Cells(t) : Has(t, a) => At(t, a).F \in DOMAIN g
    BY <1>7, <1>8, <1>9, <1>11
  <1>15. \A a \in Cells(s) : Text(t, g, a) = Text(s, h, a)
    <2> SUFFICES ASSUME NEW a \in Cells(s) PROVE Text(t, g, a) = Text(s, h, a)
      OBVIOUS
    <2>1. (Has(s, a) <=> Has(t, a)) /\ (Has(s, a) => Object(t, g, a) = Object(s, h, a))
      BY <1>8, <1>11
    <2> QED
      BY <1>7, <1>13, <2>1, SameText
  <1>16. TableOf(t, g) = TableOf(s, h)
    <2>1. ASSUME NEW r \in 1..n, NEW c \in Cols
          PROVE  GetCellFormula(t, g, r, c) = GetCellFormula(s, h, r, c) /\ t[r][c].V = s[r][c].V
      <3>1. <<r, c>> \in Cells(s)
        BY <1>1, CellsType
      <3> QED
        BY <1>8, <1>15, <3>1 DEF Text, At
    <2> QED
      BY <1>6, <2>1 DEF TableOf
  <1> QED
    BY <1>13, <1>14, <1>16 DEF FormulasInv, Addressed, t, g, Has

-----------------------------------------------------------------------------
(* Calls that change one cell.                                             *)

\* t differs from s in the formula of one cell
OtherTexts(s, h, t, g, r, c) ==
  \A a \in Cells(s) : a # <<r, c>> => Text(t, g, a) = Text(s, h, a)
SameValues(s, t) == \A a \in Cells(s) : At(t, a).V = At(s, a).V

WithFormula(S, r, c, text) == [S EXCEPT ![r][c].formula = text]

Single(s, h, t, g, r, c, text) ==
  /\ Len(t) = Len(s) /\ r \in 1..Len(s) /\ c \in Cols
  /\ GetCellFormula(t, g, r, c) = text /\ OtherTexts(s, h, t, g, r, c) /\ SameValues(s, t)

LEMMA OneFormula ==
  ASSUME NEW s, NEW h, Good(s, h), NEW t, NEW g, Good(t, g),
         NEW r, NEW c, NEW text, Single(s, h, t, g, r, c, text)
  PROVE  TableOf(t, g) = WithFormula(TableOf(s, h), r, c, text)
  <1> DEFINE S == TableOf(s, h)
             N == TableOf(t, g)
             n == Len(s)
             e == [S[r][c] EXCEPT !.formula = text]
             row == [S[r] EXCEPT ![c] = e]
  <1>0. /\ Len(t) = Len(s) /\ r \in 1..Len(s) /\ c \in Cols
        /\ GetCellFormula(t, g, r, c) = text /\ OtherTexts(s, h, t, g, r, c) /\ SameValues(s, t)
    BY DEF Single
  <1>1. s \in Seq(Row) /\ t \in Seq(Row)
    BY DEF Good
  <1>2. \A i \in 1..n, j \in Cols :
          /\ <<i, j>> \in Cells(s) /\ At(s, <<i, j>>) = s[i][j] /\ At(t, <<i, j>>) = t[i][j]
    <2>1. \A i \in 1..n, j \in Cols : <<i, j>> \in Cells(s) /\ At(s, <<i, j>>) = s[i][j]
      BY <1>1, CellsType
    <2>2. \A i \in 1..n, j \in Cols : At(t, <<i, j>>) = t[i][j]
      BY DEF At
    <2> QED
      BY <2>1, <2>2
  <1>3. /\ \A i \in 1..n, j \in Cols : S[i][j] = [formula |-> Text(s, h, <<i, j>>), value |-> s[i][j].V]
        /\ \A i \in 1..n : S[i] \in [Cols -> Entry]
        /\ DOMAIN S = 1..n
    BY TableType DEF TableOf
  <1>4. /\ \A i \in 1..n, j \in Cols : N[i][j] = [formula |-> Text(t, g, <<i, j>>), value |-> t[i][j].V]
        /\ \A i \in 1..n : N[i] \in [Cols -> Entry]
        /\ DOMAIN N = 1..n /\ N = [i \in 1..n |-> N[i]]
    BY <1>0, TableType DEF TableOf
  <1>5. \A i \in 1..n, j \in Cols : t[i][j].V = s[i][j].V
    BY <1>0, <1>2 DEF SameValues
  <1> HIDE DEF S, N
  <1>6. e = N[r][c]
    <2> DEFINE v == s[r][c].V
               u == Text(s, h, <<r, c>>)
    <2>1. S[r][c] = [formula |-> u, value |-> v]
      BY <1>0, <1>3
    <2> HIDE DEF u, v
    <2>2. e = [formula |-> text, value |-> v]
      BY <2>1
    <2> QED
      <3>1. Text(t, g, <<r, c>>) = text
        BY <1>0 DEF Text
      <3>2. N[r][c] = [formula |-> Text(t, g, <<r, c>>), value |-> t[r][c].V] /\ t[r][c].V = v
        BY <1>0, <1>4, <1>5 DEF v
      <3> QED
        BY <2>2, <3>1, <3>2
  <1>7. \A i \in 1..n, j \in Cols : ~(i = r /\ j = c) => N[i][j] = S[i][j]
    <2> SUFFICES ASSUME NEW i \in 1..n, NEW j \in Cols, ~(i = r /\ j = c) PROVE N[i][j] = S[i][j]
      OBVIOUS
    <2>1. <<i, j>> # <<r, c>>
      OBVIOUS
    <2>2. Text(t, g, <<i, j>>) = Text(s, h, <<i, j>>)
      BY <1>0, <1>2, <2>1 DEF OtherTexts
    <2>3. S[i][j] = [formula |-> Text(s, h, <<i, j>>), value |-> s[i][j].V]
      BY <1>3
    <2>4. N[i][j] = [formula |-> Text(t, g, <<i, j>>), value |-> t[i][j].V]
      BY <1>4
    <2>5. t[i][j].V = s[i][j].V
      BY <1>5
    <2> QED
      BY <2>2, <2>3, <2>4, <2>5
  <1> HIDE DEF e
  <1>8. row = N[r]
    BY <1>0, <1>3, <1>4, <1>6, <1>7
  <1>9. \A i \in 1..n : i # r => N[i] = S[i]
    BY <1>3, <1>4, <1>7
  <1> HIDE DEF row
  <1>10. N = [S EXCEPT ![r] = row]
    BY <1>0, <1>3, <1>4, <1>8, <1>9
  <1>11. [S EXCEPT ![r][c].formula = text] = [S EXCEPT ![r] = [S[r] EXCEPT ![c] = [S[r][c] EXCEPT !.formula = text]]]
    OBVIOUS
  <1> QED
    BY <1>10, <1>11 DEF S, N, row, e, WithFormula

\* the other cells have their objects
OtherObjects(s, h, t, g, r, c) ==
  \A a \in Cells(s) : a # <<r, c>> =>
    (Has(t, a) <=> Has(s, a)) /\ (Has(s, a) => Object(t, g, a) = Object(s, h, a))

LEMMA OtherCells ==
  ASSUME NEW s, NEW h, Good(s, h), NEW t, NEW g, Good(t, g), SameShared(s, h, t, g),
         Cells(t) = Cells(s), NEW r, NEW c, OtherObjects(s, h, t, g, r, c)
  PROVE  OtherTexts(s, h, t, g, r, c)
  <1> SUFFICES ASSUME NEW a \in Cells(s), a # <<r, c>> PROVE Text(t, g, a) = Text(s, h, a)
    BY DEF OtherTexts
  <1>1. (Has(s, a) <=> Has(t, a)) /\ (Has(s, a) => Object(t, g, a) = Object(s, h, a))
    BY DEF OtherObjects
  <1> QED
    BY <1>1, SameText

\* the cell has a formula of its own with that text, or none
Own(t, g, r, c, text) ==
  LET x == <<r, c>>
  IN  /\ Has(t, x) <=> text # ""
      /\ Has(t, x) => /\ Object(t, g, x) \in Formula /\ ~ Object(t, g, x).shared
                      /\ Object(t, g, x).content = text

\* a shared formula held by the cell is held by another as well
Free(s, h, r, c) ==
  LET x == <<r, c>>
  IN  Has(s, x) /\ IsHolder(Object(s, h, x)) =>
        \E b \in Cells(s) : b # x /\ Has(s, b) /\ HoldsShared(Object(s, h, b), Object(s, h, x).si)

\* A cell that is not the last holder of a shared formula gets a formula of its
\* own, or none.
Changes(s, h, t, g, r, c, text) ==
  /\ t \in Seq(Row) /\ Len(t) = Len(s) /\ r \in 1..Len(s) /\ c \in Cols
  /\ Free(s, h, r, c) /\ Own(t, g, r, c, text)
  /\ SameValues(s, t) /\ OtherObjects(s, h, t, g, r, c)

LEMMA FormulaChanges ==
  ASSUME NEW s, NEW h, Good(s, h), NEW t, NEW g, NEW r, NEW c, NEW text,
         Changes(s, h, t, g, r, c, text)
  PROVE  Good(t, g) /\ TableOf(t, g) = WithFormula(TableOf(s, h), r, c, text)
  <1> DEFINE x == <<r, c>>
  <1>0. /\ t \in Seq(Row) /\ Len(t) = Len(s) /\ r \in 1..Len(s) /\ c \in Cols
        /\ Free(s, h, r, c) /\ Own(t, g, r, c, text)
        /\ SameValues(s, t) /\ OtherObjects(s, h, t, g, r, c)
    BY DEF Changes
  <1>1. s \in Seq(Row)
    BY DEF Good
  <1>2. Cells(t) = Cells(s) /\ x \in Cells(s)
    BY <1>0, <1>1, CellsType DEF Cells
  <1> HIDE DEF x
  <1>3. \A b \in Cells(t) : Has(t, b) =>
          \/ /\ Object(t, g, b) \in Formula /\ ~ Object(t, g, b).shared
             /\ Object(t, g, b).content # ""
          \/ \E a \in Cells(s) : Has(s, a) /\ Object(t, g, b) = Object(s, h, a)
    <2> SUFFICES ASSUME NEW b \in Cells(t), Has(t, b)
                 PROVE  \/ /\ Object(t, g, b) \in Formula /\ ~ Object(t, g, b).shared
                           /\ Object(t, g, b).content # ""
                        \/ \E a \in Cells(s) : Has(s, a) /\ Object(t, g, b) = Object(s, h, a)
      OBVIOUS
    <2>1. CASE b = x
      BY <1>0, <2>1 DEF x, Own
    <2>2. CASE b # x
      BY <1>0, <1>2, <2>2 DEF x, OtherObjects
    <2> QED
      BY <2>1, <2>2
  <1>4. ASSUME NEW a \in Cells(s), Has(s, a), IsHolder(Object(s, h, a))
        PROVE  \E b \in Cells(t) : Has(t, b) /\ HoldsShared(Object(t, g, b), Object(s, h, a).si)
    <2>1. PICK b \in Cells(s) : b # x /\ Has(s, b) /\ HoldsShared(Object(s, h, b), Object(s, h, a).si)
      <3>1. CASE a # x
        BY <1>4, <3>1 DEF HoldsShared, IsHolder
      <3>2. CASE a = x
        BY <1>0, <1>4, <3>2, Zenon DEF x, Free
      <3> QED
        BY <3>1, <3>2
    <2>2. Has(t, b) /\ Object(t, g, b) = Object(s, h, b)
      BY <1>0, <2>1 DEF x, OtherObjects
    <2> QED
      BY <1>2, <2>1, <2>2
  <1>5. Keeps(s, h, t, g)
    BY <1>3, <1>4, Zenon DEF Keeps
  <1>6. Good(t, g) /\ SameShared(s, h, t, g)
    BY <1>0, <1>5, Follows
  <1>7. OtherTexts(s, h, t, g, r, c)
    BY <1>0, <1>2, <1>6, OtherCells
  <1>8. Text(t, g, x) = text
    <2>1. CASE Has(t, x)
      BY <1>0, <1>2, <1>6, <2>1, TextIs DEF x, Own
    <2>2. CASE ~ Has(t, x)
      BY <1>0, <1>2, <1>6, <2>2, TextIs DEF x, Own
    <2> QED
      BY <2>1, <2>2
  <1>9. TableOf(t, g) = WithFormula(TableOf(s, h), r, c, text)
    <2>1. GetCellFormula(t, g, r, c) = text
      BY <1>8 DEF x, Text
    <2>2. Single(s, h, t, g, r, c, text)
      BY <1>0, <1>7, <2>1 DEF Single
    <2> QED
      BY <1>6, <2>2, OneFormula
  <1> QED
    BY <1>6, <1>9

\* r and c are those of a cell of the sheet
Within(r, c) == r \in 1..Len(sheet) /\ c \in Cols

LEMMA SetCellFormulaKeeps ==
  ASSUME FormulasInv, NEW r, NEW c, Within(r, c), NEW text \in Contents,
         ~ Aliased(r, c), ~ Shared(r, c), SetCellFormula(r, c, text)
  PROVE  FormulasInv' /\ TableOf(sheet', heap') = WithFormula(TableOf(sheet, heap), r, c, text)
  <1> DEFINE x == <<r, c>>
             p == sheet[r][c].F
  <1>0. r \in 1..Len(sheet) /\ c \in Cols
    BY DEF Within
  <1>1. Good(sheet, heap) /\ sheet \in Seq(Row)
    BY DEF FormulasInv, Good
  <1>6. text # ""
    BY FormulasAssumption
  <1>2. x \in Cells(sheet) /\ At(sheet, x) = sheet[r][c] /\ Len(sheet) \in Nat
    BY <1>0, <1>1, CellsType
  <1>3. Free(sheet, heap, r, c)
    BY <1>2 DEF Shared, Has, Object, IsHolder, Free
  <1>4. CASE p # Nil
    <2> DEFINE f == [heap[p] EXCEPT !.content = text]
               h == [heap EXCEPT ![p] = f]
    <2>1. Becomes(sheet, h)
      BY <1>4 DEF SetCellFormula
    <2>2. Has(sheet, x) /\ Object(sheet, heap, x) = heap[p] /\ p \in DOMAIN heap
      BY <1>2, <1>4 DEF Has, Object, FormulasInv, Addressed
    <2>3. heap[p] \in Formula
      BY <1>1, <1>2, <2>2, Zenon DEF Good
    <2>4. ~ heap[p].shared
      BY <1>4 DEF Shared
    <2>5. f \in Formula /\ ~ f.shared /\ f.content = text
      BY <2>3, <2>4 DEF Formula
    <2> HIDE DEF f
    <2>6. Own(sheet, h, r, c, text)
      <3>1. Object(sheet, h, x) = f
        BY <1>2, <2>2 DEF Object
      <3> QED
        BY <1>6, <2>2, <2>5, <3>1 DEF Own
    <2>7. OtherObjects(sheet, heap, sheet, h, r, c)
      <3> SUFFICES ASSUME NEW a \in Cells(sheet), a # x, Has(sheet, a)
                   PROVE  Object(sheet, h, a) = Object(sheet, heap, a)
        BY DEF OtherObjects
      <3>1. At(sheet, a).F # p
        <4>1. a[1] \in 1..Len(sheet) /\ a[2] \in Cols /\ a = <<a[1], a[2]>>
          BY <1>1, CellsType
        <4> QED
          BY <1>4, <4>1 DEF Aliased, At
      <3>2. At(sheet, a).F \in DOMAIN heap
        BY DEF FormulasInv, Addressed
      <3> QED
        BY <3>1, <3>2 DEF Object
    <2>8. SameValues(sheet, sheet)
      BY DEF SameValues
    <2> HIDE DEF h
    <2>9. Good(sheet, h) /\ TableOf(sheet, h) = WithFormula(TableOf(sheet, heap), r, c, text)
      <3>1. Changes(sheet, heap, sheet, h, r, c, text)
        BY <1>0, <1>1, <1>3, <2>6, <2>7, <2>8 DEF Changes
      <3> QED
        BY <1>1, <3>1, FormulaChanges
    <2> QED
      BY <2>1, <2>9, BecomesIs
  <1>5. CASE p = Nil
    <2> DEFINE d == [sheet[r][c] EXCEPT !.F = x]
               row == [sheet[r] EXCEPT ![c] = d]
               s == [sheet EXCEPT ![r] = row]
               f == NewFormula(text)
               h == [q \in DOMAIN heap \cup {x} |-> IF q = x THEN f ELSE heap[q]]
    <2>1. Becomes(s, h)
      BY <1>5 DEF SetCellFormula
    <2>2. sheet[r][c] \in Cell /\ sheet[r] \in Row /\ x \in Nat \X Nat /\ x # Nil
      BY <1>0, <1>1, <1>2, CellsType
    <2>3. d \in Cell /\ d.F = x /\ d.V = sheet[r][c].V
      <3> HIDE DEF x
      <3> QED
        BY <2>2 DEF Cell
    <2> HIDE DEF d
    <2>4. row \in Row /\ row[c] = d /\ \A j \in Cols : j # c => row[j] = sheet[r][j]
      BY <1>0, <2>2, <2>3 DEF Row
    <2> HIDE DEF row
    <2>5. s \in Seq(Row) /\ Len(s) = Len(sheet) /\ s[r] = row
          /\ \A i \in 1..Len(sheet) : i # r => s[i] = sheet[i]
      <3> HIDE DEF Row
      <3>1. row \in Row /\ sheet \in Seq(Row)
        BY <1>1, <2>4
      <3> QED
        BY <1>0, <3>1, ExceptSeq
    <2> HIDE DEF s
    <2>6. At(s, x) = d
      BY <1>0, <2>4, <2>5 DEF At
    <2>7. ASSUME NEW a \in Cells(sheet), a # x PROVE At(s, a) = At(sheet, a)
      <3>1. a[1] \in 1..Len(sheet) /\ a[2] \in Cols /\ a = <<a[1], a[2]>>
        BY <1>1, CellsType
      <3>2. CASE a[1] # r
        BY <2>5, <3>1, <3>2 DEF At
      <3>3. CASE a[1] = r /\ a[2] # c
        BY <1>0, <2>4, <2>5, <3>1, <3>3 DEF At
      <3> QED
        BY <1>0, <2>7, <3>1, <3>2, <3>3
    <2>8. x \notin DOMAIN heap
      <3>1. At(sheet, x).F = Nil
        BY <1>2, <1>5
      <3> QED
        BY <2>2, <3>1 DEF FormulasInv, Addressed
    <2>9. f \in Formula /\ ~ f.shared /\ f.content = text
      BY DEF NewFormula, Formula
    <2> HIDE DEF f
    <2>10. h[x] = f /\ \A q \in DOMAIN heap : h[q] = heap[q]
      <3> HIDE DEF x
      <3> QED
        BY <2>8
    <2> HIDE DEF h
    <2>11. Own(s, h, r, c, text)
      <3>1. Has(s, x) /\ Object(s, h, x) = f
        BY <2>2, <2>3, <2>6, <2>10 DEF Has, Object
      <3> QED
        BY <1>6, <2>9, <3>1 DEF Own
    <2>12. OtherObjects(sheet, heap, s, h, r, c)
      <3> SUFFICES ASSUME NEW a \in Cells(sheet), a # x
                   PROVE  (Has(s, a) <=> Has(sheet, a))
                          /\ (Has(sheet, a) => Object(s, h, a) = Object(sheet, heap, a))
        BY DEF OtherObjects
      <3>1. At(s, a) = At(sheet, a)
        BY <2>7
      <3>2. Has(sheet, a) => At(sheet, a).F \in DOMAIN heap
        BY DEF FormulasInv, Addressed
      <3> QED
        BY <2>10, <3>1, <3>2 DEF Has, Object
    <2>13. SameValues(sheet, s)
      BY <1>2, <2>3, <2>6, <2>7 DEF SameValues
    <2>14. Good(s, h) /\ TableOf(s, h) = WithFormula(TableOf(sheet, heap), r, c, text)
      <3>1. Changes(sheet, heap, s, h, r, c, text)
        BY <1>0, <1>3, <2>5, <2>11, <2>12, <2>13 DEF Changes
      <3> QED
        BY <1>1, <3>1, FormulaChanges
    <2> QED
      BY <2>1, <2>14, BecomesIs
  <1> QED
    BY <1>4, <1>5

\* ClearCellFormula on a cell that is not the last holder of a shared formula
LEMMA ClearCellFormulaKeeps ==
  ASSUME FormulasInv, NEW r, NEW c, Within(r, c),
         HeldElsewhere({<<r, c>>}), ClearCellFormula(r, c)
  PROVE  FormulasInv' /\ TableOf(sheet', heap') = WithFormula(TableOf(sheet, heap), r, c, "")
  <1> DEFINE x == <<r, c>>
             d == [sheet[r][c] EXCEPT !.F = Nil]
             row == [sheet[r] EXCEPT ![c] = d]
             s == [sheet EXCEPT ![r] = row]
  <1>0. r \in 1..Len(sheet) /\ c \in Cols
    BY DEF Within
  <1>1. Good(sheet, heap) /\ sheet \in Seq(Row)
    BY DEF FormulasInv, Good
  <1>2. x \in Cells(sheet) /\ At(sheet, x) = sheet[r][c] /\ Len(sheet) \in Nat
    BY <1>0, <1>1, CellsType
  <1>3. Free(sheet, heap, r, c)
    <2> SUFFICES ASSUME Has(sheet, x), IsHolder(Object(sheet, heap, x))
                 PROVE  \E b \in Cells(sheet) : /\ b # x /\ Has(sheet, b)
                                                 /\ HoldsShared(Object(sheet, heap, b),
                                                                Object(sheet, heap, x).si)
      BY Zenon DEF Free
    <2>1. Holder(r, c) /\ x[1] = r /\ x[2] = c
      BY <1>2 DEF Holder, Has, Object, IsHolder
    <2>2. PICK b : b \in Holders(sheet, heap, heap[At(sheet, x).F].si) /\ b # x
      BY <2>1 DEF HeldElsewhere
    <2> QED
      BY <2>2 DEF Holders, Has, Object
  <1>4. Becomes(s, heap)
    BY DEF ClearCellFormula
  <1>5. sheet[r][c] \in Cell /\ sheet[r] \in Row
    BY <1>0, <1>1, <1>2, CellsType
  <1>6. d \in Cell /\ d.F = Nil /\ d.V = sheet[r][c].V
    BY <1>5 DEF Cell, Nil
  <1> HIDE DEF d
  <1>7. row \in Row /\ row[c] = d /\ \A j \in Cols : j # c => row[j] = sheet[r][j]
    BY <1>0, <1>5, <1>6 DEF Row
  <1> HIDE DEF row
  <1>8. s \in Seq(Row) /\ Len(s) = Len(sheet) /\ s[r] = row
        /\ \A i \in 1..Len(sheet) : i # r => s[i] = sheet[i]
    <2> HIDE DEF Row
    <2> QED
      BY <1>0, <1>1, <1>7, ExceptSeq
  <1> HIDE DEF s
  <1>9. At(s, x) = d
    BY <1>0, <1>7, <1>8 DEF At
  <1>10. ASSUME NEW a \in Cells(sheet), a # x PROVE At(s, a) = At(sheet, a)
    <2>1. a[1] \in 1..Len(sheet) /\ a[2] \in Cols /\ a = <<a[1], a[2]>>
      BY <1>1, CellsType
    <2>2. CASE a[1] # r
      BY <1>8, <2>1, <2>2 DEF At
    <2>3. CASE a[1] = r /\ a[2] # c
      BY <1>0, <1>7, <1>8, <2>1, <2>3 DEF At
    <2> QED
      BY <1>10, <2>1, <2>2, <2>3
  <1>11. Own(s, heap, r, c, "")
    BY <1>6, <1>9 DEF Own, Has
  <1>12. OtherObjects(sheet, heap, s, heap, r, c)
    BY <1>10 DEF OtherObjects, Has, Object
  <1>13. SameValues(sheet, s)
    BY <1>2, <1>6, <1>9, <1>10 DEF SameValues
  <1>14. Good(s, heap) /\ TableOf(s, heap) = WithFormula(TableOf(sheet, heap), r, c, "")
    <2> DEFINE none == ""
    <2>1. Changes(sheet, heap, s, heap, r, c, none)
      BY <1>0, <1>3, <1>8, <1>11, <1>12, <1>13 DEF Changes
    <2> HIDE DEF none
    <2>2. Good(s, heap) /\ TableOf(s, heap) = WithFormula(TableOf(sheet, heap), r, c, none)
      BY <1>1, <2>1, FormulaChanges
    <2> QED
      BY <2>2 DEF none
  <1> QED
    BY <1>4, <1>14, BecomesIs

-----------------------------------------------------------------------------
(* Calls that leave all formulas where they are.                           *)

LEMMA TextsStay ==
  ASSUME NEW s, NEW h, Good(s, h), NEW t \in Seq(Row), NEW g, Len(t) = Len(s),
         AllObjects(s, h, t, g)
  PROVE  Good(t, g) /\ \A a \in Cells(s) : Text(t, g, a) = Text(s, h, a)
  <1>1. Cells(t) = Cells(s)
    BY DEF Cells
  <1>2. Keeps(s, h, t, g)
    BY <1>1, AllKept
  <1>3. Good(t, g) /\ SameShared(s, h, t, g)
    BY <1>2, Follows
  <1>4. ASSUME NEW a \in Cells(s) PROVE Text(t, g, a) = Text(s, h, a)
    <2>1. (Has(s, a) <=> Has(t, a)) /\ (Has(s, a) => Object(t, g, a) = Object(s, h, a))
      BY DEF AllObjects
    <2> QED
      BY <1>1, <1>3, <2>1, SameText
  <1> QED
    BY <1>3, <1>4

\* the cells of s with values v
Valued(s, v) == [r \in 1..Len(s) |-> [c \in Cols |-> [s[r][c] EXCEPT !.V = v[<<r, c>>]]]]
Values(s, v) == \A a \in Cells(s) : v[a] \in BOOLEAN
TableWith(s, h, v) ==
  [r \in 1..Len(s) |-> [c \in Cols |->
     [formula |-> GetCellFormula(s, h, r, c), value |-> v[<<r, c>>]]]]

LEMMA ValuesChange ==
  ASSUME NEW s, NEW h, Good(s, h), NEW v, Values(s, v)
  PROVE  Good(Valued(s, v), h) /\ TableOf(Valued(s, v), h) = TableWith(s, h, v)
  <1> DEFINE n == Len(s)
             t == Valued(s, v)
             cell(r, c) == [s[r][c] EXCEPT !.V = v[<<r, c>>]]
             row(r) == [c \in Cols |-> cell(r, c)]
  <1>1. s \in Seq(Row) /\ n \in Nat
    BY CellsType DEF Good
  <1>2. ASSUME NEW r \in 1..n, NEW c \in Cols
        PROVE  /\ cell(r, c) \in Cell /\ cell(r, c).F = s[r][c].F /\ cell(r, c).V = v[<<r, c>>]
    <2>1. s[r][c] \in Cell /\ <<r, c>> \in Cells(s)
      BY <1>1, CellsType
    <2> DEFINE w == v[<<r, c>>]
    <2>2. w \in BOOLEAN
      BY <2>1 DEF Values
    <2> HIDE DEF w
    <2>3. /\ [s[r][c] EXCEPT !.V = w] \in Cell /\ [s[r][c] EXCEPT !.V = w].F = s[r][c].F
          /\ [s[r][c] EXCEPT !.V = w].V = w
      BY <2>1, <2>2 DEF Cell
    <2> QED
      BY <2>3 DEF w
  <1>3. t = [r \in 1..n |-> row(r)]
    BY DEF Valued
  <1>4. \A r \in 1..n : row(r) \in Row
    BY <1>2 DEF Row
  <1>5. \A r \in 1..n, c \in Cols : row(r)[c] = cell(r, c)
    OBVIOUS
  <1> HIDE DEF row, cell
  <1>6. t \in Seq(Row) /\ Len(t) = n /\ \A r \in 1..n : t[r] = row(r)
    <2> HIDE DEF t, Row
    <2> QED
      BY <1>1, <1>3, <1>4
  <1> HIDE DEF t
  <1>7. ASSUME NEW a \in Cells(s) PROVE At(t, a).F = At(s, a).F
    <2>1. a[1] \in 1..n /\ a[2] \in Cols
      BY <1>1, CellsType
    <2>2. cell(a[1], a[2]).F = s[a[1]][a[2]].F
      BY <1>2, <2>1
    <2>3. t[a[1]][a[2]] = cell(a[1], a[2])
      BY <1>5, <1>6, <2>1
    <2> QED
      BY <2>2, <2>3 DEF At
  <1>8. AllObjects(s, h, t, h)
    BY <1>7 DEF AllObjects, Has, Object
  <1>9. Good(t, h) /\ \A a \in Cells(s) : Text(t, h, a) = Text(s, h, a)
    BY <1>6, <1>8, TextsStay
  <1>10. ASSUME NEW r \in 1..n, NEW c \in Cols
         PROVE  GetCellFormula(t, h, r, c) = GetCellFormula(s, h, r, c) /\ t[r][c].V = v[<<r, c>>]
    <2>1. <<r, c>> \in Cells(s)
      BY <1>1, CellsType
    <2>2. GetCellFormula(t, h, r, c) = GetCellFormula(s, h, r, c)
      BY <1>9, <2>1 DEF Text
    <2> QED
      BY <1>2, <1>5, <1>6, <2>2
  <1> QED
    BY <1>6, <1>9, <1>10 DEF TableOf, TableWith, t

WithValue(S, r, c) == [S EXCEPT ![r][c].value = TRUE]

LEMMA SetCellValueKeeps ==
  ASSUME FormulasInv, NEW r, NEW c, Within(r, c), SetCellValue(r, c)
  PROVE  FormulasInv' /\ TableOf(sheet', heap') = WithValue(TableOf(sheet, heap), r, c)
  <1> DEFINE x == <<r, c>>
             v == [a \in Cells(sheet) |-> IF a = x THEN TRUE ELSE At(sheet, a).V]
             n == Len(sheet)
             s == [sheet EXCEPT ![r][c].V = TRUE]
             u == Valued(sheet, v)
  <1>0. r \in 1..n /\ c \in Cols
    BY DEF Within
  <1>1. Good(sheet, heap) /\ sheet \in Seq(Row) /\ n \in Nat
    BY CellsType DEF FormulasInv, Good
  <1>2. \A i \in 1..n, j \in Cols :
          <<i, j>> \in Cells(sheet) /\ At(sheet, <<i, j>>) = sheet[i][j] /\ sheet[i][j] \in Cell
    BY <1>1, CellsType, ZenonT(40)
  <1>3. \A i \in 1..n, j \in Cols : v[<<i, j>>] = IF i = r /\ j = c THEN TRUE ELSE sheet[i][j].V
    BY <1>2
  <1>4. Values(sheet, v)
    <2>1. \A a \in Cells(sheet) : At(sheet, a).V \in BOOLEAN
      BY <1>1, CellsType DEF Cell
    <2> QED
      BY <2>1, Zenon DEF Values
  <1> HIDE DEF v
  <1>5. s = u
    <2>1. ASSUME NEW i \in 1..n, NEW j \in Cols, ~(i = r /\ j = c)
          PROVE  [sheet[i][j] EXCEPT !.V = v[<<i, j>>]] = sheet[i][j]
      <3>1. v[<<i, j>>] = sheet[i][j].V
        BY <1>3, <2>1
      <3> QED
        BY <1>2, <3>1 DEF Cell
    <2>2. [sheet[r][c] EXCEPT !.V = v[<<r, c>>]] = [sheet[r][c] EXCEPT !.V = TRUE]
      BY <1>0, <1>3
    <2> DEFINE d(i, j) == [sheet[i][j] EXCEPT !.V = v[<<i, j>>]]
               e == [sheet[r][c] EXCEPT !.V = TRUE]
    <2>3. s = [sheet EXCEPT ![r] = [sheet[r] EXCEPT ![c] = e]]
      OBVIOUS
    <2>4. (\A i \in 1..n, j \in Cols : ~(i = r /\ j = c) => d(i, j) = sheet[i][j]) /\ d(r, c) = e
      BY <2>1, <2>2
    <2>5. u = [i \in 1..n |-> [j \in Cols |-> d(i, j)]]
      BY DEF Valued
    <2>6. \A i \in 1..n : sheet[i] = [j \in Cols |-> sheet[i][j]]
      <3>1. \A i \in 1..n : sheet[i] \in Row
        BY <1>1, CellsType
      <3> QED
        BY <3>1 DEF Row
    <2>7. sheet = [i \in 1..n |-> sheet[i]]
      <3> HIDE DEF Row
      <3> QED
        BY <1>1
    <2> HIDE DEF d, e, s, u, n
    <2>8. \A i \in 1..n : i # r => [j \in Cols |-> d(i, j)] = sheet[i]
      BY <2>4, <2>6
    <2>9. [j \in Cols |-> d(r, j)] = [sheet[r] EXCEPT ![c] = e]
      BY <1>0, <2>4, <2>6
    <2> DEFINE row == [sheet[r] EXCEPT ![c] = e]
               w(i) == [j \in Cols |-> d(i, j)]
    <2>10. u = [i \in 1..n |-> w(i)] /\ w(r) = row /\ \A i \in 1..n : i # r => w(i) = sheet[i]
      BY <2>5, <2>8, <2>9
    <2>11. s = [sheet EXCEPT ![r] = row]
      BY <2>3
    <2> HIDE DEF row, w
    <2> QED
      BY <1>0, <2>7, <2>10, <2>11
  <1> DEFINE T == TableWith(sheet, heap, v)
  <1>7. Good(u, heap) /\ TableOf(u, heap) = T
    BY <1>1, <1>4, ValuesChange
  <1>8. T = WithValue(TableOf(sheet, heap), r, c)
    <2> DEFINE S == TableOf(sheet, heap)
               e == [formula |-> GetCellFormula(sheet, heap, r, c), value |-> TRUE]
               row == [S[r] EXCEPT ![c] = e]
    <2>1. S[r][c] = [formula |-> GetCellFormula(sheet, heap, r, c), value |-> sheet[r][c].V]
      BY <1>0 DEF TableOf
    <2>2. [S[r][c] EXCEPT !.value = TRUE] = e
      <3> DEFINE f == GetCellFormula(sheet, heap, r, c)
                 w == sheet[r][c].V
                 y == S[r][c]
                 b == TRUE
      <3>1. y = [formula |-> f, value |-> w]
        BY <2>1
      <3> HIDE DEF f, w, y, b
      <3>2. [y EXCEPT !.value = b] = [formula |-> f, value |-> b]
        BY <3>1
      <3> QED
        BY <3>2 DEF f, y, b
    <2>3. WithValue(S, r, c) = [S EXCEPT ![r] = row]
      BY <2>2 DEF WithValue
    <2>4. T[r] = row
      BY <1>0, <1>3 DEF TableOf, TableWith
    <2>5. \A i \in 1..n : i # r => T[i] = S[i]
      BY <1>0, <1>3 DEF TableOf, TableWith
    <2>6. DOMAIN S = 1..n /\ DOMAIN T = 1..n /\ T = [i \in 1..n |-> T[i]]
      BY DEF TableOf, TableWith
    <2>7. S = [i \in 1..n |-> S[i]]
      BY DEF TableOf
    <2> HIDE DEF S, T, row
    <2>8. T = [S EXCEPT ![r] = row]
      BY <1>0, <2>4, <2>5, <2>6, <2>7
    <2> QED
      BY <2>3, <2>8 DEF S
  <1>9. Becomes(s, heap)
    BY DEF SetCellValue
  <1> HIDE DEF s, u, T
  <1> QED
    BY <1>5, <1>7, <1>8, <1>9, BecomesIs

\* the values of cells with a formula are forgotten
Forgotten(S) ==
  [r \in 1..Len(S) |->
     [c \in Cols |-> IF S[r][c].formula # "" THEN [S[r][c] EXCEPT !.value = FALSE] ELSE S[r][c]]]

LEMMA UpdateLinkedValueKeeps ==
  ASSUME FormulasInv, UpdateLinkedValue
  PROVE  FormulasInv' /\ TableOf(sheet', heap') = Forgotten(TableOf(sheet, heap))
  <1> DEFINE v == [a \in Cells(sheet) |-> IF Has(sheet, a) THEN FALSE ELSE At(sheet, a).V]
             n == Len(sheet)
             s == [r \in 1..n |-> [c \in Cols |-> UpdateLinkedCell(sheet[r][c])]]
             S == TableOf(sheet, heap)
             T == TableWith(sheet, heap, v)
  <1>1. Good(sheet, heap) /\ sheet \in Seq(Row) /\ n \in Nat
    BY CellsType DEF FormulasInv, Good
  <1>2. \A i \in 1..n, j \in Cols :
          <<i, j>> \in Cells(sheet) /\ At(sheet, <<i, j>>) = sheet[i][j] /\ sheet[i][j] \in Cell
    BY <1>1, CellsType, ZenonT(40)
  <1>3. \A i \in 1..n, j \in Cols :
          v[<<i, j>>] = IF sheet[i][j].F # Nil THEN FALSE ELSE sheet[i][j].V
    BY <1>2 DEF Has
  <1>4. Values(sheet, v)
    <2>1. \A a \in Cells(sheet) : At(sheet, a).V \in BOOLEAN
      BY <1>1, CellsType DEF Cell
    <2> QED
      BY <2>1, Zenon DEF Values
  <1> HIDE DEF v
  <1>5. s = Valued(sheet, v)
    <2>1. ASSUME NEW i \in 1..n, NEW j \in Cols
          PROVE  UpdateLinkedCell(sheet[i][j]) = [sheet[i][j] EXCEPT !.V = v[<<i, j>>]]
      <3>1. CASE sheet[i][j].F # Nil
        BY <1>3, <3>1 DEF UpdateLinkedCell
      <3>2. CASE sheet[i][j].F = Nil
        <4>1. v[<<i, j>>] = sheet[i][j].V
          BY <1>3, <3>2
        <4>2. [sheet[i][j] EXCEPT !.V = v[<<i, j>>]] = sheet[i][j]
          BY <1>2, <4>1 DEF Cell
        <4> QED
          BY <3>2, <4>2 DEF UpdateLinkedCell
      <3> QED
        BY <3>1, <3>2
    <2> QED
      BY <2>1 DEF Valued
  <1>6. Good(s, heap) /\ TableOf(s, heap) = T
    BY <1>1, <1>4, <1>5, ValuesChange
  <1>7. T = Forgotten(S)
    <2> DEFINE e(r, c) == [formula |-> GetCellFormula(sheet, heap, r, c), value |-> v[<<r, c>>]]
               d(r, c) == IF S[r][c].formula # "" THEN [S[r][c] EXCEPT !.value = FALSE] ELSE S[r][c]
    <2>1. ASSUME NEW r \in 1..n, NEW c \in Cols PROVE e(r, c) = d(r, c)
      <3> DEFINE f == GetCellFormula(sheet, heap, r, c)
                 w == sheet[r][c].V
                 y == S[r][c]
                 b == FALSE
                 z == v[<<r, c>>]
      <3>1. y = [formula |-> f, value |-> w]
        BY DEF TableOf
      <3>2. f # "" <=> sheet[r][c].F # Nil
        <4>1. Has(sheet, <<r, c>>) <=> Text(sheet, heap, <<r, c>>) # ""
          BY <1>1, <1>2, TextIs
        <4> QED
          BY <1>2, <4>1 DEF Has, Text
      <3>3. z = IF f # "" THEN b ELSE w
        BY <1>3, <3>2
      <3> HIDE DEF f, w, y, b, z
      <3>4. y.formula = f
        BY <3>1
      <3>5. [y EXCEPT !.value = b] = [formula |-> f, value |-> b]
        BY <3>1
      <3>6. [formula |-> f, value |-> z] = IF y.formula # "" THEN [y EXCEPT !.value = b] ELSE y
        BY <3>1, <3>3, <3>4, <3>5
      <3> QED
        BY <3>6 DEF f, y, b, z
    <2>2. Len(S) = n
      BY <1>1, TableType
    <2>3. T = [r \in 1..n |-> [c \in Cols |-> e(r, c)]]
      BY DEF TableWith
    <2>4. Forgotten(S) = [r \in 1..n |-> [c \in Cols |-> d(r, c)]]
      <3> HIDE DEF S
      <3> QED
        BY <2>2 DEF Forgotten
    <2> HIDE DEF e, d, S, T
    <2> QED
      BY <2>1, <2>3, <2>4
  <1>8. Becomes(s, heap)
    BY DEF UpdateLinkedValue
  <1> HIDE DEF s, T, S
  <1> QED
    BY <1>6, <1>7, <1>8, BecomesIs DEF S

LEMMA SaveAndOpenKeeps ==
  ASSUME FormulasInv, SaveAndOpen
  PROVE  FormulasInv' /\ TableOf(sheet', heap') = TableOf(sheet, heap)
  <1> DEFINE n == Len(sheet)
             at(r, c) == IF sheet[r][c].F = Nil THEN Nil ELSE <<r, c>>
             cell(r, c) == [sheet[r][c] EXCEPT !.F = at(r, c)]
             row(r) == [c \in Cols |-> cell(r, c)]
             t == [r \in 1..n |-> row(r)]
             g == [a \in Cells(sheet) |-> heap[At(sheet, a).F]]
  <1>1. Good(sheet, heap) /\ sheet \in Seq(Row) /\ n \in Nat
    BY CellsType DEF FormulasInv, Good
  <1>2. \A r \in 1..n, c \in Cols :
          /\ <<r, c>> \in Cells(sheet) /\ <<r, c>> # Nil /\ <<r, c>> \in Nat \X Nat
          /\ At(sheet, <<r, c>>) = sheet[r][c] /\ sheet[r][c] \in Cell
    <2>1. \A r \in 1..n, c \in Cols : <<r, c>> \in Cells(sheet) /\ At(sheet, <<r, c>>) = sheet[r][c]
      BY <1>1, CellsType
    <2>2. \A a \in Cells(sheet) : a # Nil /\ a \in Nat \X Nat /\ At(sheet, a) \in Cell
      BY <1>1, CellsType
    <2> QED
      BY <2>1, <2>2
  <1>3. Becomes(t, g)
    BY DEF SaveAndOpen
  <1>4. ASSUME NEW r \in 1..n, NEW c \in Cols
        PROVE  /\ cell(r, c) \in Cell /\ cell(r, c).F = at(r, c) /\ cell(r, c).V = sheet[r][c].V
    <2> DEFINE p == at(r, c)
    <2>1. p \in Nat \X Nat
      BY <1>2 DEF Nil
    <2>2. sheet[r][c] \in Cell
      BY <1>2
    <2> HIDE DEF p
    <2>3. /\ [sheet[r][c] EXCEPT !.F = p] \in Cell /\ [sheet[r][c] EXCEPT !.F = p].F = p
          /\ [sheet[r][c] EXCEPT !.F = p].V = sheet[r][c].V
      BY <2>1, <2>2 DEF Cell
    <2> QED
      BY <2>3 DEF p
  <1>5. \A r \in 1..n : row(r) \in Row
    BY <1>4 DEF Row
  <1>6. \A r \in 1..n, c \in Cols : row(r)[c] = cell(r, c)
    OBVIOUS
  <1> HIDE DEF row, cell
  <1>7. t \in Seq(Row) /\ Len(t) = n /\ \A r \in 1..n : t[r] = row(r)
    <2> HIDE DEF Row
    <2> QED
      BY <1>1, <1>5
  <1> HIDE DEF t
  <1>8. ASSUME NEW a \in Cells(sheet)
        PROVE  /\ At(t, a).V = At(sheet, a).V
               /\ At(t, a).F = IF At(sheet, a).F = Nil THEN Nil ELSE a
    <2>1. a[1] \in 1..n /\ a[2] \in Cols /\ a = <<a[1], a[2]>>
      BY <1>1, CellsType
    <2> DEFINE r == a[1]
               c == a[2]
    <2>2. t[r][c] = cell(r, c)
      BY <1>6, <1>7, <2>1
    <2>3. cell(r, c).F = at(r, c) /\ cell(r, c).V = sheet[r][c].V
      BY <1>4, <2>1
    <2> QED
      BY <2>1, <2>2, <2>3 DEF At
  <1>9. AllObjects(sheet, heap, t, g)
    <2> SUFFICES ASSUME NEW a \in Cells(sheet)
                 PROVE  (Has(t, a) <=> Has(sheet, a))
                        /\ (Has(sheet, a) => Object(t, g, a) = Object(sheet, heap, a))
      BY DEF AllObjects
    <2>1. a # Nil
      BY <1>1, CellsType
    <2> QED
      BY <1>8, <2>1 DEF Has, Object
  <1> HIDE DEF g
  <1>10. Good(t, g) /\ \A a \in Cells(sheet) : Text(t, g, a) = Text(sheet, heap, a)
    BY <1>1, <1>7, <1>9, TextsStay
  <1>11. TableOf(t, g) = TableOf(sheet, heap)
    <2>1. ASSUME NEW r \in 1..n, NEW c \in Cols
          PROVE  GetCellFormula(t, g, r, c) = GetCellFormula(sheet, heap, r, c)
                 /\ t[r][c].V = sheet[r][c].V
      <3>1. <<r, c>> \in Cells(sheet)
        BY <1>2
      <3> QED
        BY <1>8, <1>10, <3>1 DEF Text, At
    <2> QED
      BY <1>7, <2>1 DEF TableOf
  <1> QED
    BY <1>3, <1>10, <1>11, BecomesIs

-----------------------------------------------------------------------------
(* Inserting into and removing from a sequence.                            *)

\* t is s with e at position i, or without its position i
IsInserted(t, s, i, e) ==
  /\ Len(t) = Len(s) + 1
  /\ \A j \in 1..Len(s) + 1 : t[j] = IF j < i THEN s[j] ELSE IF j = i THEN e ELSE s[j - 1]
IsRemoved(t, s, i) ==
  /\ Len(t) = Len(s) - 1 /\ Len(t) \in Nat
  /\ \A j \in 1..Len(s) - 1 : t[j] = IF j < i THEN s[j] ELSE s[j + 1]

\* where something may go in
IsPlace(i, s) == i \in Nat /\ 1 <= i /\ i <= Len(s) + 1

LEMMA InsertAtIs ==
  ASSUME NEW T, NEW s \in Seq(T), NEW e \in T, NEW i, IsPlace(i, s)
  PROVE  InsertAt(s, i, e) \in Seq(T) /\ IsInserted(InsertAt(s, i, e), s, i, e)
  <1> DEFINE a == SubSeq(s, 1, i - 1)
             b == SubSeq(s, i, Len(s))
             t == InsertAt(s, i, e)
  <1>1. Len(s) \in Nat /\ i \in Nat /\ 1 <= i /\ i <= Len(s) + 1
    BY DEF IsPlace
  <1>2. a \in Seq(T) /\ Len(a) = i - 1 /\ \A j \in 1..i - 1 : a[j] = s[j]
    BY <1>1
  <1>3. b \in Seq(T) /\ Len(b) = Len(s) + 1 - i /\ \A j \in 1..Len(s) + 1 - i : b[j] = s[i + j - 1]
    BY <1>1
  <1>4. t = a \o <<e>> \o b
    BY DEF InsertAt
  <1> HIDE DEF a, b, t
  <1> DEFINE x == a \o <<e>>
  <1>5. x \in Seq(T) /\ Len(x) = i /\ \A j \in 1..i : x[j] = IF j < i THEN a[j] ELSE e
    BY <1>1, <1>2
  <1>6. t = x \o b
    BY <1>4
  <1> HIDE DEF x
  <1>7. t \in Seq(T) /\ Len(t) = Len(s) + 1
    BY <1>1, <1>3, <1>5, <1>6
  <1>8. \A j \in 1..Len(s) + 1 : t[j] = IF j <= i THEN x[j] ELSE b[j - i]
    BY <1>1, <1>3, <1>5, <1>6
  <1>9. ASSUME NEW j \in 1..Len(s) + 1
        PROVE  t[j] = IF j < i THEN s[j] ELSE IF j = i THEN e ELSE s[j - 1]
    <2>1. CASE j < i
      BY <1>1, <1>2, <1>5, <1>8, <2>1
    <2>2. CASE j = i
      BY <1>1, <1>5, <1>8, <2>2
    <2>3. CASE j > i
      <3> DEFINE k == j - i
      <3>1. k \in 1..Len(s) + 1 - i /\ i + k - 1 = j - 1
        BY <1>1, <2>3
      <3>2. t[j] = b[k]
        BY <1>1, <1>8, <2>3
      <3>3. b[k] = s[i + k - 1]
        BY <1>3, <3>1
      <3> QED
        BY <1>1, <2>3, <3>1, <3>2, <3>3
    <2> QED
      BY <1>1, <2>1, <2>2, <2>3
  <1> QED
    BY <1>7, <1>9 DEF t, IsInserted

LEMMA RemoveAtIs ==
  ASSUME NEW T, NEW s \in Seq(T), NEW i \in 1..Len(s)
  PROVE  RemoveAt(s, i) \in Seq(T) /\ IsRemoved(RemoveAt(s, i), s, i)
  <1> DEFINE a == SubSeq(s, 1, i - 1)
             b == SubSeq(s, i + 1, Len(s))
             t == RemoveAt(s, i)
  <1>1. Len(s) \in Nat
    OBVIOUS
  <1>2. a \in Seq(T) /\ Len(a) = i - 1 /\ \A j \in 1..i - 1 : a[j] = s[j]
    BY <1>1
  <1>3. b \in Seq(T) /\ Len(b) = Len(s) - i /\ \A j \in 1..Len(s) - i : b[j] = s[i + j]
    BY <1>1
  <1>4. t = a \o b
    BY DEF RemoveAt
  <1> HIDE DEF a, b, t
  <1>5. t \in Seq(T) /\ Len(t) = Len(s) - 1 /\ Len(t) \in Nat
    <2>1. t \in Seq(T) /\ Len(t) = Len(a) + Len(b)
      BY <1>2, <1>3, <1>4, ConcatProperties
    <2>2. Len(a) + Len(b) = Len(s) - 1
      BY <1>1, <1>2, <1>3
    <2> QED
      BY <1>1, <2>1, <2>2
  <1>6. \A j \in 1..Len(s) - 1 : t[j] = IF j < i THEN a[j] ELSE b[j - (i - 1)]
    BY <1>1, <1>2, <1>3, <1>4
  <1>7. ASSUME NEW j \in 1..Len(s) - 1
        PROVE  t[j] = IF j < i THEN s[j] ELSE s[j + 1]
    <2>1. CASE j < i
      BY <1>1, <1>2, <1>6, <2>1
    <2>2. CASE ~ (j < i)
      <3> DEFINE k == j - (i - 1)
      <3>1. k \in 1..Len(s) - i /\ i + k = j + 1
        BY <1>1, <2>2
      <3>2. t[j] = b[k]
        BY <1>6, <2>2
      <3>3. b[k] = s[i + k]
        BY <1>3, <3>1
      <3> QED
        BY <2>2, <3>1, <3>2, <3>3
    <2> QED
      BY <2>1, <2>2
  <1> QED
    BY <1>5, <1>7 DEF t, IsRemoved

-----------------------------------------------------------------------------
(* Calls that move rows.                                                   *)

\* every row of t is new or one of s, and every shared formula of s is held in a
\* row of s that is among them
Rearranged(s, h, t) ==
  /\ t \in Seq(Row)
  /\ \A i \in 1..Len(t) : t[i] = NewRow \/ \E k \in 1..Len(s) : t[i] = s[k]
  /\ \A a \in Cells(s) : Has(s, a) /\ IsHolder(Object(s, h, a)) =>
       \E d \in Cells(s), i \in 1..Len(t) :
         Has(s, d) /\ HoldsShared(Object(s, h, d), Object(s, h, a).si) /\ t[i] = s[d[1]]

LEMMA NewRowIs ==
  NewRow \in Row /\ \A c \in Cols : NewRow[c].F = Nil /\ NewRow[c].V = FALSE
  BY DEF NewRow, Row, Cell, NoFCell, Nil

LEMMA RowsKeep ==
  ASSUME NEW s, NEW h, Good(s, h), NEW t, Rearranged(s, h, t)
  PROVE  Good(t, h) /\ SameShared(s, h, t, h)
  <1>1. s \in Seq(Row) /\ t \in Seq(Row)
    BY DEF Good, Rearranged
  <1>2. ASSUME NEW b \in Cells(t), Has(t, b)
        PROVE  \E a \in Cells(s) : Has(s, a) /\ Object(t, h, b) = Object(s, h, a)
    <2>1. b[1] \in 1..Len(t) /\ b[2] \in Cols
      BY <1>1, CellsType
    <2>2. t[b[1]] # NewRow
      BY <1>2, <2>1, NewRowIs DEF Has, At
    <2>3. PICK k \in 1..Len(s) : t[b[1]] = s[k]
      BY <2>1, <2>2 DEF Rearranged
    <2> DEFINE a == <<k, b[2]>>
    <2>4. a \in Cells(s) /\ At(s, a) = s[k][b[2]]
      BY <1>1, <2>1, CellsType
    <2>5. At(t, b) = At(s, a)
      BY <2>3, <2>4 DEF At
    <2> HIDE DEF a
    <2>6. Has(s, a) /\ Object(t, h, b) = Object(s, h, a)
      BY <1>2, <2>5 DEF Has, Object
    <2> QED
      BY <2>4, <2>6
  <1>3. ASSUME NEW a \in Cells(s), Has(s, a), IsHolder(Object(s, h, a))
        PROVE  \E b \in Cells(t) : Has(t, b) /\ HoldsShared(Object(t, h, b), Object(s, h, a).si)
    <2>1. PICK d \in Cells(s), i \in 1..Len(t) :
            Has(s, d) /\ HoldsShared(Object(s, h, d), Object(s, h, a).si) /\ t[i] = s[d[1]]
      BY <1>3, Zenon DEF Rearranged
    <2>2. d[1] \in 1..Len(s) /\ d[2] \in Cols
      BY <1>1, CellsType
    <2> DEFINE b == <<i, d[2]>>
    <2>4. b \in Cells(t) /\ At(t, b) = t[i][d[2]]
      BY <1>1, <2>2, CellsType
    <2>5. At(t, b) = At(s, d)
      BY <2>1, <2>4 DEF At
    <2> HIDE DEF b
    <2>6. Has(t, b) /\ Object(t, h, b) = Object(s, h, d)
      BY <2>1, <2>5 DEF Has, Object
    <2> QED
      BY <2>1, <2>4, <2>6
  <1>4. Keeps(s, h, t, h)
    BY <1>2, <1>3, Zenon DEF Keeps
  <1> QED
    BY <1>1, <1>4, Follows

\* what is read of a row
EmptyEntries == [c \in Cols |-> [formula |-> "", value |-> FALSE]]

LEMMA RowReads ==
  ASSUME NEW s, NEW h, Good(s, h), NEW t, Rearranged(s, h, t)
  PROVE  /\ \A i \in 1..Len(t) : t[i] = NewRow => TableOf(t, h)[i] = EmptyEntries
         /\ \A i \in 1..Len(t), k \in 1..Len(s) :
              t[i] = s[k] => TableOf(t, h)[i] = TableOf(s, h)[k]
  <1>1. Good(t, h) /\ SameShared(s, h, t, h)
    BY RowsKeep
  <1>2. s \in Seq(Row) /\ t \in Seq(Row)
    BY <1>1 DEF Good
  <1>3. ASSUME NEW i \in 1..Len(t), t[i] = NewRow
        PROVE  TableOf(t, h)[i] = EmptyEntries
    <2>1. \A c \in Cols : GetCellFormula(t, h, i, c) = "" /\ t[i][c].V = FALSE
      BY <1>3, NewRowIs DEF GetCellFormula
    <2> QED
      BY <2>1 DEF TableOf, EmptyEntries
  <1>4. ASSUME NEW i \in 1..Len(t), NEW k \in 1..Len(s), t[i] = s[k]
        PROVE  TableOf(t, h)[i] = TableOf(s, h)[k]
    <2>1. ASSUME NEW c \in Cols
          PROVE  GetCellFormula(t, h, i, c) = GetCellFormula(s, h, k, c) /\ t[i][c].V = s[k][c].V
      <3> DEFINE a == <<k, c>>
                 b == <<i, c>>
      <3>1. a \in Cells(s) /\ At(s, a) = s[k][c] /\ b \in Cells(t) /\ At(t, b) = t[i][c]
        BY <1>2, CellsType
      <3>2. At(t, b) = At(s, a)
        BY <1>4, <3>1
      <3>3. (Has(s, a) <=> Has(t, b)) /\ (Has(s, a) => Object(t, h, b) = Object(s, h, a))
        BY <3>2 DEF Has, Object
      <3>4. Text(s, h, a) = GetCellFormula(s, h, k, c) /\ Text(t, h, b) = GetCellFormula(t, h, i, c)
        BY DEF Text
      <3> HIDE DEF a, b
      <3>5. Text(t, h, b) = Text(s, h, a)
        BY <1>1, <3>1, <3>3, SameText
      <3> QED
        BY <1>4, <3>4, <3>5
    <2> QED
      BY <2>1 DEF TableOf
  <1> QED
    BY <1>3, <1>4

\* a row goes in, new or a copy of one
RowFor(s, h, x, X) ==
  \/ x = NewRow /\ X = EmptyEntries
  \/ \E k \in 1..Len(s) : x = s[k] /\ X = TableOf(s, h)[k]

LEMMA RowInserted ==
  ASSUME NEW s, NEW h, Good(s, h), NEW i, IsPlace(i, s), NEW x, NEW X, RowFor(s, h, x, X)
  PROVE  /\ Good(InsertAt(s, i, x), h)
         /\ TableOf(InsertAt(s, i, x), h) = InsertAt(TableOf(s, h), i, X)
  <1> DEFINE t == InsertAt(s, i, x)
             n == Len(s)
             S == TableOf(s, h)
             N == TableOf(t, h)
             M == InsertAt(S, i, X)
             E == [Cols -> Entry]
  <1>1. s \in Seq(Row) /\ n \in Nat /\ \A r \in 1..n : s[r] \in Row
    BY CellsType DEF Good
  <1>2. x \in Row
    BY <1>1, NewRowIs DEF RowFor
  <1>3. /\ t \in Seq(Row) /\ Len(t) = n + 1
        /\ \A j \in 1..n + 1 : t[j] = IF j < i THEN s[j] ELSE IF j = i THEN x ELSE s[j - 1]
    <2>1. t \in Seq(Row) /\ IsInserted(t, s, i, x)
      BY <1>1, <1>2, InsertAtIs
    <2> QED
      BY <2>1 DEF IsInserted
  <1> HIDE DEF t
  <1>4. x = NewRow \/ \E k \in 1..n : x = s[k]
    BY DEF RowFor
  <1>0. i \in Nat /\ 1 <= i /\ i <= n + 1
    BY DEF IsPlace
  <1>5. \A j \in 1..n + 1 : (j < i => j \in 1..n) /\ (j > i => j - 1 \in 1..n)
    BY <1>0, <1>1
  <1>6. Rearranged(s, h, t)
    <2>1. ASSUME NEW j \in 1..Len(t)
          PROVE  t[j] = NewRow \/ \E k \in 1..n : t[j] = s[k]
      <3>1. j \in 1..n + 1
        BY <1>3
      <3>2. CASE j < i
        BY <1>3, <1>5, <3>1, <3>2
      <3>3. CASE j = i
        BY <1>3, <1>4, <3>1, <3>3
      <3>4. CASE j > i
        <4>1. t[j] = s[j - 1] /\ j - 1 \in 1..n
          BY <1>0, <1>3, <1>5, <3>1, <3>4
        <4> QED
          BY <4>1
      <3> QED
        BY <1>0, <3>1, <3>2, <3>3, <3>4
    <2>2. ASSUME NEW k \in 1..n PROVE \E j \in 1..Len(t) : t[j] = s[k]
      <3>1. CASE k < i
        BY <1>1, <1>3, <3>1
      <3>2. CASE ~ (k < i)
        <4> DEFINE m == k + 1
        <4>1. m \in 1..n + 1 /\ m > i /\ m - 1 = k
          BY <1>0, <1>1, <3>2
        <4> HIDE DEF m
        <4>2. t[m] = s[k]
          BY <1>0, <1>3, <4>1
        <4> QED
          BY <1>3, <4>1, <4>2
      <3> QED
        BY <3>1, <3>2
    <2>3. ASSUME NEW a \in Cells(s), Has(s, a), IsHolder(Object(s, h, a))
          PROVE  \E d \in Cells(s), j \in 1..Len(t) :
                   /\ Has(s, d) /\ HoldsShared(Object(s, h, d), Object(s, h, a).si)
                   /\ t[j] = s[d[1]]
      <3>1. a[1] \in 1..n
        BY <1>1, CellsType
      <3>2. PICK j \in 1..Len(t) : t[j] = s[a[1]]
        BY <2>2, <3>1
      <3>3. HoldsShared(Object(s, h, a), Object(s, h, a).si)
        BY <2>3 DEF HoldsShared, IsHolder
      <3> QED
        BY <2>3, <3>2, <3>3
    <2> QED
      BY <1>3, <2>1, <2>3, Zenon DEF Rearranged
  <1>7. Good(t, h)
    BY <1>6, RowsKeep
  <1>8. S \in Seq(E) /\ Len(S) = n /\ \A r \in 1..n : S[r] \in E
    BY TableType
  <1>9. N \in Seq(E) /\ Len(N) = n + 1
    BY <1>3, <1>7, TableType
  <1>10. EmptyEntries \in E
    BY DEF EmptyEntries, Entry
  <1>11. X \in E
    BY <1>8, <1>10 DEF RowFor
  <1>12. /\ \A j \in 1..Len(t) : t[j] = NewRow => N[j] = EmptyEntries
         /\ \A j \in 1..Len(t), k \in 1..n : t[j] = s[k] => N[j] = S[k]
    BY <1>6, RowReads
  <1> HIDE DEF S, N, E
  <1>13. /\ M \in Seq(E) /\ Len(M) = n + 1
         /\ \A j \in 1..n + 1 : M[j] = IF j < i THEN S[j] ELSE IF j = i THEN X ELSE S[j - 1]
    <2>1. IsPlace(i, S)
      BY <1>8 DEF IsPlace
    <2>2. M \in Seq(E) /\ IsInserted(M, S, i, X)
      BY <1>8, <1>11, <2>1, InsertAtIs
    <2> QED
      BY <1>8, <2>2 DEF IsInserted
  <1> HIDE DEF M
  <1>14. ASSUME NEW j \in 1..n + 1 PROVE N[j] = M[j]
    <2>1. CASE j < i
      <3>1. j \in 1..n /\ t[j] = s[j] /\ M[j] = S[j]
        BY <1>3, <1>5, <1>13, <2>1
      <3> QED
        BY <1>3, <1>12, <3>1
    <2>2. CASE j = i
      <3>1. t[j] = x /\ M[j] = X
        BY <1>3, <1>13, <2>2
      <3>2. CASE x = NewRow /\ X = EmptyEntries
        BY <1>3, <1>12, <3>1, <3>2
      <3>3. CASE \E k \in 1..n : x = s[k] /\ X = S[k]
        BY <1>3, <1>12, <3>1, <3>3
      <3> QED
        BY <3>2, <3>3 DEF RowFor, S
    <2>3. CASE j > i
      <3> DEFINE k == j - 1
      <3>1. k \in 1..n /\ t[j] = s[k] /\ M[j] = S[k]
        BY <1>0, <1>3, <1>5, <1>13, <2>3
      <3> HIDE DEF k
      <3> QED
        BY <1>3, <1>12, <3>1
    <2> QED
      BY <1>0, <1>1, <2>1, <2>2, <2>3
  <1>15. N = M
    BY <1>9, <1>13, <1>14, SeqEqual
  <1> QED
    BY <1>7, <1>15 DEF t, S, N, M

\* every shared formula held in the row is held in another as well
HeldBeside(s, h, i) ==
  \A a \in Cells(s) : Has(s, a) /\ IsHolder(Object(s, h, a)) =>
    \E d \in Cells(s) :
      Has(s, d) /\ HoldsShared(Object(s, h, d), Object(s, h, a).si) /\ d[1] # i

LEMMA RowRemoved ==
  ASSUME NEW s, NEW h, Good(s, h), NEW i \in 1..Len(s), HeldBeside(s, h, i)
  PROVE  /\ Good(RemoveAt(s, i), h)
         /\ TableOf(RemoveAt(s, i), h) = RemoveAt(TableOf(s, h), i)
  <1> DEFINE t == RemoveAt(s, i)
             n == Len(s)
             S == TableOf(s, h)
             N == TableOf(t, h)
             M == RemoveAt(S, i)
             E == [Cols -> Entry]
  <1>1. s \in Seq(Row) /\ n \in Nat
    BY CellsType DEF Good
  <1>2. /\ t \in Seq(Row) /\ Len(t) = n - 1
        /\ \A j \in 1..n - 1 : t[j] = IF j < i THEN s[j] ELSE s[j + 1]
    <2>1. t \in Seq(Row) /\ IsRemoved(t, s, i)
      BY <1>1, RemoveAtIs
    <2> QED
      BY <2>1 DEF IsRemoved
  <1> HIDE DEF t
  <1>3. \A j \in 1..n - 1 : j \in 1..n /\ j + 1 \in 1..n
    BY <1>1
  <1>4. Rearranged(s, h, t)
    <2>1. ASSUME NEW j \in 1..Len(t) PROVE \E k \in 1..n : t[j] = s[k]
      <3>1. j \in 1..n - 1
        BY <1>2
      <3>2. CASE j < i
        BY <1>2, <1>3, <3>1, <3>2
      <3>3. CASE ~ (j < i)
        <4>1. t[j] = s[j + 1] /\ j + 1 \in 1..n
          BY <1>2, <1>3, <3>1, <3>3
        <4> QED
          BY <4>1
      <3> QED
        BY <3>2, <3>3
    <2>2. ASSUME NEW k \in 1..n, k # i PROVE \E j \in 1..Len(t) : t[j] = s[k]
      <3>1. CASE k < i
        <4>1. k \in 1..n - 1
          BY <1>1, <3>1
        <4> QED
          BY <1>2, <3>1, <4>1
      <3>2. CASE k > i
        <4> DEFINE m == k - 1
        <4>1. m \in 1..n - 1 /\ ~ (m < i) /\ m + 1 = k
          BY <1>1, <3>2
        <4> HIDE DEF m
        <4>2. t[m] = s[k]
          BY <1>2, <4>1
        <4> QED
          BY <1>2, <4>1, <4>2
      <3> QED
        BY <2>2, <3>1, <3>2
    <2>3. ASSUME NEW a \in Cells(s), Has(s, a), IsHolder(Object(s, h, a))
          PROVE  \E d \in Cells(s), j \in 1..Len(t) :
                   /\ Has(s, d) /\ HoldsShared(Object(s, h, d), Object(s, h, a).si)
                   /\ t[j] = s[d[1]]
      <3>1. PICK d \in Cells(s) :
              Has(s, d) /\ HoldsShared(Object(s, h, d), Object(s, h, a).si) /\ d[1] # i
        BY <2>3, Zenon DEF HeldBeside
      <3>2. d[1] \in 1..n
        BY <1>1, CellsType
      <3>3. PICK j \in 1..Len(t) : t[j] = s[d[1]]
        BY <2>2, <3>1, <3>2
      <3> QED
        BY <3>1, <3>3
    <2> QED
      BY <1>2, <2>1, <2>3, Zenon DEF Rearranged
  <1>5. Good(t, h)
    BY <1>4, RowsKeep
  <1>6. S \in Seq(E) /\ Len(S) = n
    BY TableType
  <1>7. N \in Seq(E) /\ Len(N) = n - 1
    BY <1>2, <1>5, TableType
  <1>8. \A j \in 1..Len(t), k \in 1..n : t[j] = s[k] => N[j] = S[k]
    BY <1>4, RowReads
  <1> HIDE DEF S, N, E
  <1>9. /\ M \in Seq(E) /\ Len(M) = n - 1
        /\ \A j \in 1..n - 1 : M[j] = IF j < i THEN S[j] ELSE S[j + 1]
    <2>1. M \in Seq(E) /\ IsRemoved(M, S, i)
      BY <1>6, RemoveAtIs
    <2> QED
      BY <1>6, <2>1 DEF IsRemoved
  <1> HIDE DEF M
  <1>10. ASSUME NEW j \in 1..n - 1 PROVE N[j] = M[j]
    <2>1. CASE j < i
      BY <1>2, <1>3, <1>8, <1>9, <2>1
    <2>2. CASE ~ (j < i)
      <3> DEFINE k == j + 1
      <3>1. k \in 1..n /\ t[j] = s[k] /\ M[j] = S[k]
        BY <1>2, <1>3, <1>9, <2>2
      <3> HIDE DEF k
      <3> QED
        BY <1>2, <1>8, <3>1
    <2> QED
      BY <2>1, <2>2
  <1>11. N = M
    BY <1>7, <1>9, <1>10, SeqEqual
  <1> QED
    BY <1>5, <1>11 DEF t, S, N, M

LEMMA InsertRowKeeps ==
  ASSUME FormulasInv, NEW r \in 1..Len(sheet), InsertRow(r)
  PROVE  FormulasInv' /\ TableOf(sheet', heap') = InsertAt(TableOf(sheet, heap), r, EmptyEntries)
  <1>1. Good(sheet, heap) /\ Len(sheet) \in Nat
    BY CellsType DEF FormulasInv, Good
  <1>2. RowFor(sheet, heap, NewRow, EmptyEntries)
    BY DEF RowFor
  <1>3. IsPlace(r, sheet)
    BY <1>1 DEF IsPlace
  <1>4. /\ Good(InsertAt(sheet, r, NewRow), heap)
        /\ TableOf(InsertAt(sheet, r, NewRow), heap) = InsertAt(TableOf(sheet, heap), r, EmptyEntries)
    BY <1>1, <1>2, <1>3, RowInserted
  <1> QED
    BY <1>4, BecomesIs DEF InsertRow

\* RemoveRow on a row that is not the last holder of a shared formula
LEMMA RemoveRowKeeps ==
  ASSUME FormulasInv, NEW r \in 1..Len(sheet), HeldElsewhere({r} \X Cols), RemoveRow(r)
  PROVE  FormulasInv' /\ TableOf(sheet', heap') = RemoveAt(TableOf(sheet, heap), r)
  <1>1. Good(sheet, heap)
    BY DEF FormulasInv
  <1>2. HeldBeside(sheet, heap, r)
    <2> SUFFICES ASSUME NEW a \in Cells(sheet), Has(sheet, a), IsHolder(Object(sheet, heap, a))
                 PROVE  \E d \in Cells(sheet) :
                          /\ Has(sheet, d) /\ d[1] # r
                          /\ HoldsShared(Object(sheet, heap, d), Object(sheet, heap, a).si)
      BY Zenon DEF HeldBeside
    <2>0. sheet \in Seq(Row)
      BY <1>1 DEF Good
    <2>1. a[1] \in 1..Len(sheet) /\ a[2] \in Cols /\ a = <<a[1], a[2]>>
      BY <2>0, CellsType
    <2>2. CASE a[1] # r
      <3>1. HoldsShared(Object(sheet, heap, a), Object(sheet, heap, a).si)
        BY DEF HoldsShared, IsHolder
      <3> QED
        BY <2>2, <3>1
    <2>3. CASE a[1] = r
      <3>1. a \in {r} \X Cols /\ Holder(a[1], a[2])
        BY <2>1, <2>3 DEF Holder, Has, Object, IsHolder, At
      <3>2. PICK d : d \in Holders(sheet, heap, heap[At(sheet, a).F].si) /\ d \notin {r} \X Cols
        BY <3>1 DEF HeldElsewhere
      <3>3. d \in Cells(sheet) /\ Has(sheet, d) /\ HoldsShared(Object(sheet, heap, d), Object(sheet, heap, a).si)
        BY <3>2 DEF Holders, Has, Object
      <3>4. d[1] \in 1..Len(sheet) /\ d[2] \in Cols /\ d = <<d[1], d[2]>>
        BY <2>0, <3>3, CellsType
      <3>5. d[1] # r
        BY <3>2, <3>4
      <3> QED
        BY <3>3, <3>5
    <2> QED
      BY <2>2, <2>3
  <1>3. /\ Good(RemoveAt(sheet, r), heap)
        /\ TableOf(RemoveAt(sheet, r), heap) = RemoveAt(TableOf(sheet, heap), r)
    BY <1>1, <1>2, RowRemoved
  <1> QED
    BY <1>3, BecomesIs DEF RemoveRow

LEMMA DuplicateRowToKeeps ==
  ASSUME FormulasInv, NEW r \in 1..Len(sheet), NEW r2 \in 1..Len(sheet) + 1, DuplicateRowTo(r, r2)
  PROVE  /\ FormulasInv'
         /\ TableOf(sheet', heap') = InsertAt(TableOf(sheet, heap), r2, TableOf(sheet, heap)[r])
  <1> DEFINE x == sheet[r]
             X == TableOf(sheet, heap)[r]
  <1>1. Good(sheet, heap) /\ Len(sheet) \in Nat
    BY CellsType DEF FormulasInv, Good
  <1>2. RowFor(sheet, heap, x, X)
    BY DEF RowFor
  <1>3. IsPlace(r2, sheet)
    BY <1>1 DEF IsPlace
  <1>4. Becomes(InsertAt(sheet, r2, x), heap)
    BY DEF DuplicateRowTo
  <1> HIDE DEF x, X
  <1>5. /\ Good(InsertAt(sheet, r2, x), heap)
        /\ TableOf(InsertAt(sheet, r2, x), heap) = InsertAt(TableOf(sheet, heap), r2, X)
    BY <1>1, <1>2, <1>3, RowInserted
  <1>6. FormulasInv' /\ TableOf(sheet', heap') = InsertAt(TableOf(sheet, heap), r2, X)
    BY <1>4, <1>5, BecomesIs
  <1> QED
    BY <1>6 DEF X

-----------------------------------------------------------------------------
(* The specification.                                                      *)

LEMMA InitInv == Init => FormulasInv
  <1> SUFFICES ASSUME Init PROVE FormulasInv
    OBVIOUS
  <1>1. PICK si \in Indices, text \in Contents, other \in Contents :
          /\ sheet = <<[NewRow EXCEPT ![2] = [F |-> <<1, 2>>, V |-> TRUE]],
                       [NewRow EXCEPT ![1] = [F |-> <<2, 1>>, V |-> FALSE],
                                      ![2] = [F |-> <<2, 2>>, V |-> FALSE]]>>
          /\ heap = [a \in {<<1, 2>>, <<2, 1>>, <<2, 2>>} |->
                       IF a = <<2, 1>> THEN NewFormula(other)
                       ELSE [content |-> IF a = <<1, 2>> THEN text ELSE "",
                             shared |-> TRUE, ref |-> a = <<1, 2>>, si |-> si]]
    BY DEF Init
  <1>2. 1 \in Cols /\ 2 \in Cols /\ text # "" /\ other # ""
    BY FormulasAssumption
  <1> DEFINE A == <<1, 2>>
             B == <<2, 1>>
             C == <<2, 2>>
             c1 == [F |-> A, V |-> TRUE]
             c2 == [F |-> B, V |-> FALSE]
             c3 == [F |-> C, V |-> FALSE]
             r1 == [NewRow EXCEPT ![2] = c1]
             r2 == [NewRow EXCEPT ![1] = c2, ![2] = c3]
  <1>3. /\ c1 \in Cell /\ c2 \in Cell /\ c3 \in Cell
        /\ c1.F = A /\ c2.F = B /\ c3.F = C
    BY DEF Cell
  <1>4. sheet = <<r1, r2>>
    BY <1>1
  <1> HIDE DEF c1, c2, c3
  <1>5. /\ r1 \in Row /\ r1[2] = c1 /\ \A c \in Cols : c # 2 => r1[c].F = Nil
        /\ r2 \in Row /\ r2[1] = c2 /\ r2[2] = c3 /\ \A c \in Cols : c # 1 /\ c # 2 => r2[c].F = Nil
    <2>1. NewRow \in [Cols -> Cell] /\ \A c \in Cols : NewRow[c].F = Nil
      BY NewRowIs DEF Row
    <2>2. 1 \in Cols /\ 2 \in Cols /\ c1 \in Cell /\ c2 \in Cell /\ c3 \in Cell
      BY <1>2, <1>3
    <2> HIDE DEF A, B, C
    <2>3. r1 \in Row /\ r1[2] = c1 /\ \A c \in Cols : c # 2 => r1[c] = NewRow[c]
      BY <2>1, <2>2 DEF Row
    <2> DEFINE q == [NewRow EXCEPT ![1] = c2]
    <2>4. q \in [Cols -> Cell] /\ q[1] = c2 /\ \A c \in Cols : c # 1 => q[c] = NewRow[c]
      BY <2>1, <2>2
    <2>5. r2 = [q EXCEPT ![2] = c3]
      OBVIOUS
    <2> HIDE DEF q, r2
    <2>6. r2 \in Row /\ r2[2] = c3 /\ r2[1] = q[1] /\ \A c \in Cols : c # 2 => r2[c] = q[c]
      BY <2>2, <2>4, <2>5 DEF Row
    <2> QED
      BY <2>1, <2>3, <2>4, <2>6
  <1> HIDE DEF r1, r2
  <1>6. sheet \in Seq(Row) /\ Len(sheet) = 2 /\ sheet[1] = r1 /\ sheet[2] = r2
    <2> HIDE DEF Row
    <2> QED
      BY <1>4, <1>5
  <1>7. Cells(sheet) = {1, 2} \X Cols
    <2>1. 1..2 = {1, 2}
      OBVIOUS
    <2> QED
      BY <1>6, <2>1 DEF Cells
  <1>8. A \in Cells(sheet) /\ B \in Cells(sheet) /\ C \in Cells(sheet)
    BY <1>2, <1>7
  <1>9. At(sheet, A).F = A /\ At(sheet, B).F = B /\ At(sheet, C).F = C
    BY <1>3, <1>5, <1>6 DEF At
  <1>10. ASSUME NEW a \in Cells(sheet), a # A, a # B, a # C PROVE At(sheet, a).F = Nil
    <2>1. a[1] \in {1, 2} /\ a[2] \in Cols /\ a = <<a[1], a[2]>>
      BY <1>7
    <2>2. CASE a[1] = 1
      <3>1. a[2] # 2
        BY <1>10, <2>1, <2>2
      <3> QED
        BY <1>5, <1>6, <2>1, <2>2, <3>1 DEF At
    <2>3. CASE a[1] = 2
      <3>1. a[2] # 1 /\ a[2] # 2
        BY <1>10, <2>1, <2>3
      <3> QED
        BY <1>5, <1>6, <2>1, <2>3, <3>1 DEF At
    <2> QED
      BY <2>1, <2>2, <2>3
  <1>11. A # B /\ A # C /\ B # C /\ A # Nil /\ B # Nil /\ C # Nil
    BY DEF Nil
  <1> DEFINE f1 == [content |-> text, shared |-> TRUE, ref |-> TRUE, si |-> si]
             f2 == NewFormula(other)
             f3 == [content |-> "", shared |-> TRUE, ref |-> FALSE, si |-> si]
  <1>12. DOMAIN heap = {A, B, C} /\ heap[A] = f1 /\ heap[B] = f2 /\ heap[C] = f3
    BY <1>1, <1>11
  <1>13. /\ f1 \in Formula /\ f1.content = text /\ f1.shared /\ f1.ref /\ f1.si = si
         /\ f2 \in Formula /\ f2.content = other /\ ~ f2.shared /\ ~ f2.ref
         /\ f3 \in Formula /\ f3.shared /\ ~ f3.ref /\ f3.si = si
    BY DEF Formula, NewFormula
  <1> HIDE DEF A, B, C, f1, f2, f3
  <1>14. Addressed
    BY <1>8, <1>9, <1>10, <1>12 DEF Addressed, Has
  <1>15. ASSUME NEW a \in Cells(sheet), Has(sheet, a)
         PROVE  \/ a = A /\ Object(sheet, heap, a) = f1
                \/ a = B /\ Object(sheet, heap, a) = f2
                \/ a = C /\ Object(sheet, heap, a) = f3
    BY <1>9, <1>10, <1>12, <1>15 DEF Has, Object
  <1>16. Has(sheet, A) /\ HoldsShared(Object(sheet, heap, A), si)
    BY <1>9, <1>11, <1>12, <1>13 DEF Has, Object, HoldsShared
  <1>17. Good(sheet, heap)
    <2>1. ASSUME NEW a \in Cells(sheet), Has(sheet, a)
          PROVE  LET f == Object(sheet, heap, a)
                 IN  /\ f \in Formula
                     /\ ~ f.shared \/ f.ref => f.content # ""
                     /\ f.shared => f.si = si
      BY <1>2, <1>13, <1>15, <2>1
    <2>2. ASSUME NEW a \in Cells(sheet), Has(sheet, a), IsHolder(Object(sheet, heap, a))
          PROVE  Object(sheet, heap, a).content = text
      BY <1>13, <1>15, <2>2 DEF IsHolder
    <2>3. \A a \in Cells(sheet) : Has(sheet, a) /\ Object(sheet, heap, a).shared =>
            \E b \in Cells(sheet) : Has(sheet, b) /\ HoldsShared(Object(sheet, heap, b), Object(sheet, heap, a).si)
      BY <1>8, <1>16, <2>1, Zenon
    <2> QED
      BY <1>6, <2>1, <2>2, <2>3, Zenon DEF Good
  <1> QED
    BY <1>14, <1>17 DEF FormulasInv

\* the table clients see
Seen == TableOf(sheet, heap)

LEMMA SeenIs ==
  [r \in 1..Len(sheet) |-> [c \in Cols |->
     [formula |-> GetCellFormula(sheet, heap, r, c), value |-> sheet[r][c].V]]] = Seen
  BY DEF Seen, TableOf

\* what a call may make of the table
LEMMA Steps ==
  ASSUME NEW S, NEW N
  PROVE  /\ N = S => FT!Step(S, N)
         /\ \A r \in 1..Len(S), c \in Cols, text \in Contents \cup {""} :
              N = WithFormula(S, r, c, text) => FT!Step(S, N)
         /\ \A r \in 1..Len(S), c \in Cols : N = WithValue(S, r, c) => FT!Step(S, N)
         /\ \A r \in 1..Len(S) : N = InsertAt(S, r, EmptyEntries) => FT!Step(S, N)
         /\ \A r \in 1..Len(S) : N = RemoveAt(S, r) => FT!Step(S, N)
         /\ \A r \in 1..Len(S), to \in 1..Len(S) + 1 : N = InsertAt(S, to, S[r]) => FT!Step(S, N)
         /\ N = Forgotten(S) => FT!Step(S, N)
  <1>1. N = S => FT!Step(S, N)
    BY DEF FT!Step
  <1>2. \A r \in 1..Len(S), c \in Cols, text \in Contents \cup {""} :
          N = WithFormula(S, r, c, text) => FT!Step(S, N)
    BY Zenon DEF FT!Step, WithFormula
  <1>3. \A r \in 1..Len(S), c \in Cols : N = WithValue(S, r, c) => FT!Step(S, N)
    BY Zenon DEF FT!Step, WithValue
  <1>4. \A r \in 1..Len(S) : N = InsertAt(S, r, EmptyEntries) => FT!Step(S, N)
    BY Zenon DEF FT!Step, FT!EmptyRow, FT!Empty, EmptyEntries, FT!InsertAt, InsertAt
  <1>5. \A r \in 1..Len(S) : N = RemoveAt(S, r) => FT!Step(S, N)
    BY Zenon DEF FT!Step, FT!RemoveAt, RemoveAt
  <1>6. \A r \in 1..Len(S), to \in 1..Len(S) + 1 : N = InsertAt(S, to, S[r]) => FT!Step(S, N)
    BY Zenon DEF FT!Step, FT!InsertAt, InsertAt
  <1>7. N = Forgotten(S) => FT!Step(S, N)
    BY Zenon DEF FT!Step, Forgotten
  <1> QED
    BY <1>1, <1>2, <1>3, <1>4, <1>5, <1>6, <1>7

LEMMA NextKeeps ==
  ASSUME FormulasInv, Next
  PROVE  FormulasInv' /\ FT!Step(Seen, Seen')
  <1>0. Len(Seen) = Len(sheet)
    BY TableType DEF Seen, FormulasInv
  <1>1. ASSUME NEW r \in 1..Len(sheet), NEW c \in Cols, NEW text \in Contents,
               ~ Aliased(r, c), ~ Shared(r, c), SetCellFormula(r, c, text)
        PROVE  FormulasInv' /\ FT!Step(Seen, Seen')
    <2>1. Within(r, c)
      BY DEF Within
    <2>2. FormulasInv' /\ Seen' = WithFormula(Seen, r, c, text)
      BY <1>1, <2>1, SetCellFormulaKeeps DEF Seen
    <2>3. text \in Contents \cup {""} /\ r \in 1..Len(Seen)
      BY <1>0
    <2> QED
      BY <2>2, <2>3, Steps
  <1>2. ASSUME NEW r \in 1..Len(sheet), NEW c \in Cols,
               HeldElsewhere({<<r, c>>}), ClearCellFormula(r, c)
        PROVE  FormulasInv' /\ FT!Step(Seen, Seen')
    <2> DEFINE none == ""
    <2>1. Within(r, c)
      BY DEF Within
    <2>2. FormulasInv' /\ Seen' = WithFormula(Seen, r, c, none)
      BY <1>2, <2>1, ClearCellFormulaKeeps DEF Seen
    <2>3. none \in Contents \cup {""} /\ r \in 1..Len(Seen)
      BY <1>0
    <2> HIDE DEF none
    <2> QED
      BY <2>2, <2>3, Steps
  <1>3. ASSUME NEW r \in 1..Len(sheet), NEW c \in Cols, SetCellValue(r, c)
        PROVE  FormulasInv' /\ FT!Step(Seen, Seen')
    <2>1. Within(r, c)
      BY DEF Within
    <2>2. FormulasInv' /\ Seen' = WithValue(Seen, r, c)
      BY <1>3, <2>1, SetCellValueKeeps DEF Seen
    <2> QED
      BY <1>0, <2>2, Steps
  <1>4. CASE UpdateLinkedValue
    <2>1. FormulasInv' /\ Seen' = Forgotten(Seen)
      BY <1>4, UpdateLinkedValueKeeps DEF Seen
    <2> QED
      BY <2>1, Steps
  <1>5. ASSUME NEW r \in 1..Len(sheet), InsertRow(r)
        PROVE  FormulasInv' /\ FT!Step(Seen, Seen')
    <2>1. FormulasInv' /\ Seen' = InsertAt(Seen, r, EmptyEntries)
      BY <1>5, InsertRowKeeps DEF Seen
    <2> QED
      BY <1>0, <2>1, Steps
  <1>6. ASSUME NEW r \in 1..Len(sheet), HeldElsewhere({r} \X Cols), RemoveRow(r)
        PROVE  FormulasInv' /\ FT!Step(Seen, Seen')
    <2>1. FormulasInv' /\ Seen' = RemoveAt(Seen, r)
      BY <1>6, RemoveRowKeeps DEF Seen
    <2> QED
      BY <1>0, <2>1, Steps
  <1>7. ASSUME NEW r \in 1..Len(sheet), NEW r2 \in 1..Len(sheet) + 1, DuplicateRowTo(r, r2)
        PROVE  FormulasInv' /\ FT!Step(Seen, Seen')
    <2>1. FormulasInv' /\ Seen' = InsertAt(Seen, r2, Seen[r])
      BY <1>7, DuplicateRowToKeeps DEF Seen
    <2> QED
      BY <1>0, <2>1, Steps
  <1>8. CASE SaveAndOpen
    <2>1. FormulasInv' /\ Seen' = Seen
      BY <1>8, SaveAndOpenKeeps DEF Seen
    <2> QED
      BY <2>1, Steps
  <1> QED
    BY <1>1, <1>2, <1>3, <1>4, <1>5, <1>6, <1>7, <1>8, Zenon DEF Next

\* A cell with a shared formula has a text.
LEMMA InvResolves == FormulasInv => SharedResolves
  <1> SUFFICES ASSUME FormulasInv, NEW r \in 1..Len(sheet), NEW c \in Cols, Shared(r, c)
               PROVE  GetCellFormula(sheet, heap, r, c) # ""
    BY DEF SharedResolves
  <1> DEFINE a == <<r, c>>
  <1>1. Good(sheet, heap) /\ sheet \in Seq(Row)
    BY DEF FormulasInv, Good
  <1>2. a \in Cells(sheet) /\ At(sheet, a) = sheet[r][c]
    BY <1>1, CellsType
  <1>3. Has(sheet, a)
    BY <1>2 DEF Shared, Has
  <1>4. GetCellFormula(sheet, heap, r, c) = Text(sheet, heap, a)
    BY DEF Text
  <1> HIDE DEF a
  <1>5. Text(sheet, heap, a) # ""
    BY <1>1, <1>2, <1>3, TextIs
  <1> QED
    BY <1>4, <1>5

(* Sessions keep the inductive invariant: every cell with a formula leads  *)
(* to an object, every object has an address, and the holders of shared    *)
(* formulas agree (SetCellFormula, DuplicateRowTo, RemoveRow, SaveAs).     *)
THEOREM FormulasInvHolds == Spec => []FormulasInv
  <1>1. FormulasInv /\ [Next]_vars => FormulasInv'
    <2> SUFFICES ASSUME FormulasInv, [Next]_vars PROVE FormulasInv'
      OBVIOUS
    <2>1. CASE Next
      BY <2>1, NextKeeps
    <2>2. CASE UNCHANGED vars
      <3>1. sheet' = sheet /\ heap' = heap
        BY <2>2 DEF vars
      <3> QED
        BY <3>1, Zenon DEF FormulasInv, Addressed
    <2> QED
      BY <2>1, <2>2
  <1> QED
    BY <1>1, InitInv, PTL DEF Spec

(* A shared formula is found as long as one holder is left: whatever rows  *)
(* were inserted, copied and removed, the one the formula came with        *)
(* included, and whatever was saved and opened, getSharedForumula has a    *)
(* text for every si in use.                                               *)
THEOREM SharedResolvesAlways == Spec => []SharedResolves
  BY FormulasInvHolds, InvResolves, PTL

(* The formulas clients read behave as a table of texts, one per cell:     *)
(* setting one changes no other, moving and copying rows carries them      *)
(* along, and saving and opening changes nothing, although the copies of a *)
(* row share their objects before and no longer do after.                  *)
THEOREM FormulaTableImplemented == Spec => ImplementsFormulaTable
  <1> DEFINE tb == [r \in 1..Len(sheet) |-> [c \in Cols |->
                      [formula |-> GetCellFormula(sheet, heap, r, c), value |-> sheet[r][c].V]]]
  <1>1. Init => FT!Init
    <2> SUFFICES ASSUME Init PROVE FT!Init
      OBVIOUS
    <2>1. Good(sheet, heap)
      BY InitInv DEF FormulasInv
    <2>2. Seen \in Seq([Cols -> Entry])
      BY <2>1, TableType DEF Seen
    <2> QED
      BY <2>2, SeenIs DEF FT!Init, Entry
  <1>2. FormulasInv /\ [Next]_vars => [FT!Next]_tb
    <2> SUFFICES ASSUME FormulasInv, [Next]_vars PROVE [FT!Next]_tb
      OBVIOUS
    <2>1. tb = Seen /\ tb' = Seen'
      BY SeenIs DEF Seen, TableOf
    <2>2. CASE Next
      <3>1. FT!Step(Seen, Seen')
        BY <2>2, NextKeeps
      <3> QED
        BY <2>1, <3>1 DEF FT!Next
    <2>3. CASE UNCHANGED vars
      BY <2>3 DEF vars
    <2> QED
      BY <2>2, <2>3
  <1> QED
    BY <1>1, <1>2, FormulasInvHolds, PTL DEF Spec, ImplementsFormulaTable, FT!Spec
=============================================================================
