--------------------------- MODULE SettingsProofs ---------------------------
(***************************************************************************)
(* Proofs about module Settings: for every set of texts, scales, sizes,    *)
(* lengths and view indices, every list of views to start from, and any    *)
(* number of data validations.                                             *)
(***************************************************************************)
EXTENDS Settings, SequenceTheorems, TLAPS

-----------------------------------------------------------------------------
(* Data validations.                                                       *)

\* An object the client holds has at most one element in each formula, the
\* second never alone; one read from a file has them all in the first.
Held1 == {<< >>, << "formula1" >>}
Held2 == {<< >>, << "formula2" >>}
Lists == {<< >>, << "formula1" >>, << "formula1", "formula2" >>}

HeldWhole(dd) ==
  /\ dd.Formula1.els \in Held1 /\ dd.Formula2.els \in Held2
  /\ dd.Formula2.els # << >> => dd.Formula1.els # << >>
  /\ dd.Formula2.len = IF dd.Formula2.els = << >> THEN 0 ELSE TagsLen + 1
  /\ dd.Type = "whole" => dd.Formula2.els # << >> /\ dd.Formula1.len = TagsLen + 1
  /\ dd.Type = "list" => dd.Formula1.els # << >> /\ dd.Formula1.len <= FormulaStrLen + TagsLen

\* the elements and the length of what is written for a type of validation
Sound(type, els, size) ==
  /\ els \in Lists
  /\ type = "whole" => els = << "formula1", "formula2" >> /\ size = 2 * (TagsLen + 1)
  /\ type = "list" => /\ els # << >>
                      /\ size <= FormulaStrLen + TagsLen
                                 + IF els = << "formula1" >> THEN 0 ELSE TagsLen + 1

ReadWhole(dd) == dd.Formula2 = NoFormula /\ Sound(dd.Type, dd.Formula1.els, dd.Formula1.len)

IsWhole(dd) == IF dd.held THEN HeldWhole(dd) ELSE ReadWhole(dd)

SettingsInv == /\ TypeOK
               /\ validations = [list |-> validations.list, Count |-> validations.Count]
               /\ \A k \in 1..Len(objects) : IsWhole(objects[k])

\* the lists of elements, and what they are one after the other
LEMMA Lists12 ==
  /\ << >> # << "formula1" >> /\ << >> # << "formula2" >>
  /\ << >> # << "formula1", "formula2" >>
  /\ << >> \o << >> = << >> /\ << "formula1" >> \o << >> = << "formula1" >>
  /\ << "formula1" >> \o << "formula2" >> = << "formula1", "formula2" >>
  /\ << "formula1", "formula2" >> \o << >> = << "formula1", "formula2" >>
  /\ Len(<< >>) = 0 /\ Len(<< "formula1" >>) = 1 /\ Len(<< "formula1", "formula2" >>) = 2
  <1> DEFINE S == {"formula1", "formula2"}
             two == << "formula1", "formula2" >>
  <1>1. << >> \in Seq(S) /\ << "formula1" >> \in Seq(S) /\ << "formula2" >> \in Seq(S)
        /\ two \in Seq(S)
    OBVIOUS
  <1>2. Len(<< >>) = 0 /\ Len(<< "formula1" >>) = 1 /\ Len(<< "formula2" >>) = 1 /\ Len(two) = 2
    OBVIOUS
  <1>3. << >> # << "formula1" >> /\ << >> # << "formula2" >> /\ << >> # two
    BY <1>2
  <1>4. << >> \o << >> = << >> /\ << "formula1" >> \o << >> = << "formula1" >>
        /\ two \o << >> = two
    BY <1>1, ConcatEmptySeq
  <1>5. << "formula1" >> \o << "formula2" >> = two
    <2> DEFINE a == << "formula1" >>
               b == << "formula2" >>
               c == a \o b
    <2>1. a \in Seq(S) /\ b \in Seq(S) /\ Len(a) = 1 /\ Len(b) = 1
          /\ a[1] = "formula1" /\ b[1] = "formula2"
      OBVIOUS
    <2>2. two \in Seq(S) /\ Len(two) = 2 /\ two[1] = "formula1" /\ two[2] = "formula2"
      OBVIOUS
    <2> HIDE DEF a, b, two, S
    <2>3. /\ c \in Seq(S) /\ Len(c) = Len(a) + Len(b)
          /\ \A i \in 1..(Len(a) + Len(b)) : c[i] = IF i <= Len(a) THEN a[i] ELSE b[i - Len(a)]
      BY <2>1, ConcatProperties
    <2> HIDE DEF c
    <2>4. Len(c) = 2 /\ c[1] = "formula1" /\ c[2] = "formula2"
      BY <2>1, <2>3
    <2>5. \A i \in 1..2 : c[i] = two[i]
      BY <2>2, <2>4
    <2>6. c = two
      BY <2>2, <2>3, <2>4, <2>5, SeqEqual
    <2> QED
      BY <2>6 DEF a, b, c
  <1> QED
    BY <1>2, <1>3, <1>4, <1>5

\* what the file says of an object
LEMMA WrittenWhole ==
  ASSUME NEW dd \in DataValidation, IsWhole(dd)
  PROVE  /\ Sound(dd.Type, Written(dd), dd.Formula1.len + dd.Formula2.len)
         /\ dd.Formula1.len + dd.Formula2.len \in Nat
  <1> DEFINE a == dd.Formula1.els
             b == dd.Formula2.els
  <1>1. dd.Formula1.len \in Nat /\ dd.Formula2.len \in Nat /\ dd.held \in BOOLEAN
    BY DEF DataValidation, Formula
  <1>2. Written(dd) = a \o b
    BY DEF Written
  <1>3. CASE dd.held
    <2>1. /\ a \in Held1 /\ b \in Held2 /\ (b # << >> => a # << >>)
          /\ dd.Formula2.len = IF b = << >> THEN 0 ELSE TagsLen + 1
          /\ (dd.Type = "whole" => b # << >> /\ dd.Formula1.len = TagsLen + 1)
          /\ (dd.Type = "list" => a # << >> /\ dd.Formula1.len <= FormulaStrLen + TagsLen)
      BY <1>3 DEF IsWhole, HeldWhole
    <2> HIDE DEF a, b
    <2>2. \/ a = << >> /\ b = << >>
          \/ a = << "formula1" >> /\ b = << >>
          \/ a = << "formula1" >> /\ b = << "formula2" >>
      BY <2>1 DEF Held1, Held2
    <2>3. \/ a \o b = << >> /\ a = << >> /\ b = << >>
          \/ a \o b = << "formula1" >> /\ a # << >> /\ b = << >>
          \/ a \o b = << "formula1", "formula2" >> /\ a # << >> /\ b # << >>
      BY <2>2, Lists12
    <2>4. /\ a \o b \in Lists
          /\ dd.Type = "whole" => a \o b = << "formula1", "formula2" >>
          /\ dd.Type = "list" => a \o b # << >>
      BY <2>1, <2>3, Lists12 DEF Lists
    <2>5. a \o b = << "formula1" >> \/ a \o b = << >> => b = << >>
      BY <2>3, Lists12
    <2>6. << "formula1" >> # << "formula1", "formula2" >>
      BY Lists12
    <2>7. dd.Type = "whole" => dd.Formula1.len + dd.Formula2.len = 2 * (TagsLen + 1)
      BY <1>1, <2>1 DEF TagsLen
    <2>8. CASE b = << >>
      <3>1. dd.Type = "list" => dd.Formula1.len + dd.Formula2.len <= FormulaStrLen + TagsLen
        BY <1>1, <2>1, <2>8 DEF FormulaStrLen, TagsLen
      <3>2. dd.Type = "list" => a \o b = << "formula1" >>
        BY <2>1, <2>2, <2>8, Lists12
      <3> QED
        BY <1>1, <1>2, <2>4, <2>7, <3>1, <3>2 DEF Sound, FormulaStrLen, TagsLen
    <2>9. CASE b # << >>
      <3>1. dd.Type = "list" =>
              dd.Formula1.len + dd.Formula2.len <= FormulaStrLen + TagsLen + (TagsLen + 1)
        BY <1>1, <2>1, <2>9 DEF FormulaStrLen, TagsLen
      <3>2. a \o b # << "formula1" >>
        BY <2>3, <2>6, <2>9
      <3> QED
        BY <1>1, <1>2, <2>4, <2>7, <3>1, <3>2 DEF Sound
    <2> QED
      BY <2>8, <2>9
  <1>4. CASE ~dd.held
    <2>1. b = << >> /\ dd.Formula2.len = 0 /\ Sound(dd.Type, a, dd.Formula1.len)
      BY <1>4 DEF IsWhole, ReadWhole, NoFormula
    <2> HIDE DEF a, b
    <2>2. a \o b = a
      BY <2>1, Lists12 DEF Lists, Sound
    <2>3. dd.Formula1.len + dd.Formula2.len = dd.Formula1.len
      BY <1>1, <2>1
    <2> QED
      BY <1>1, <1>2, <2>1, <2>2, <2>3
  <1> QED
    BY <1>1, <1>3, <1>4

-----------------------------------------------------------------------------
(* Options.                                                                *)

LEMMA InitKeeps == Init => SettingsInv
  <1> SUFFICES ASSUME Init PROVE SettingsInv
    OBVIOUS
  <1>1. Len(objects) = 0 /\ objects \in Seq(DataValidation)
    BY DEF Init
  <1>2. /\ validations = [list |-> validations.list, Count |-> validations.Count]
        /\ validations.list = << >> /\ validations.Count = 0
    BY DEF Init
  <1>3. TypeOK
    <2>1. views \in Seq(View)
      BY SettingsAssumption DEF Init
    <2>2. validations.list \in Seq(1..Len(objects)) /\ validations.Count = Len(validations.list)
      BY <1>2
    <2> QED
      BY <1>1, <2>1, <2>2 DEF Init, TypeOK
  <1> QED
    BY <1>1, <1>2, <1>3 DEF SettingsInv

\* a setter of an option leaves the data validations alone
LEMMA OptionKeeps ==
  ASSUME SettingsInv, UNCHANGED <<objects, validations>>,
         views' \in Seq(View), pr' \in SheetPr \cup {None}, page' \in PageSetUp \cup {None},
         headerFooter' \in [HeaderFields -> Nat] \cup {None},
         protection' \in {None, "open", "password"}
  PROVE  SettingsInv'
  BY DEF SettingsInv, TypeOK

LEMMA PrType ==
  ASSUME SettingsInv, NEW o \in PrOptions, NEW v \in PrValues(o)
  PROVE  WithPrOption(o, v) \in SheetPr
  <1> DEFINE p == IF pr = None THEN NewSheetPr ELSE pr
  <1>1. p \in SheetPr
    BY SettingsAssumption DEF SettingsInv, TypeOK, NewSheetPr, SheetPr
  <1>2. WithPrOption(o, v) = SetSheetPrOption(p, o, v)
    BY DEF WithPrOption
  <1> HIDE DEF p
  <1>3. CASE o = "CodeName"
    BY <1>1, <1>2, <1>3 DEF SetSheetPrOption, SheetPr, PrValues
  <1>4. CASE o \in {"EnableFormatConditionsCalculation", "Published"}
    <2>1. v \in BOOLEAN
      BY <1>4 DEF PrValues
    <2>2. SetSheetPrOption(p, o, v) = [p EXCEPT ![o] = v]
      BY <1>4 DEF SetSheetPrOption
    <2> QED
      BY <1>1, <1>2, <1>4, <2>1, <2>2 DEF SheetPr
  <1>5. CASE o = "OutlineSummaryBelow"
    <2>1. v \in BOOLEAN
      BY <1>5 DEF PrValues
    <2>2. SetSheetPrOption(p, o, v) = [p EXCEPT !.OutlinePr = v]
      BY <1>5 DEF SetSheetPrOption
    <2> QED
      BY <1>1, <1>2, <2>1, <2>2 DEF SheetPr
  <1>6. CASE o \in {"FitToPage", "AutoPageBreaks"}
    <2>1. v \in BOOLEAN
      BY <1>6 DEF PrValues
    <2>2. SetSheetPrOption(p, o, v) = SetInPageSetUpPr(p, o, v)
      BY <1>6 DEF SetSheetPrOption
    <2> DEFINE q == IF p.PageSetUpPr = None THEN [FitToPage |-> FALSE, AutoPageBreaks |-> FALSE]
                    ELSE p.PageSetUpPr
    <2>3. q \in PageSetUpPr
      BY <1>1 DEF SheetPr, PageSetUpPr
    <2>4. [q EXCEPT ![o] = v] \in PageSetUpPr
      BY <1>6, <2>1, <2>3 DEF PageSetUpPr
    <2>5. \/ SetInPageSetUpPr(p, o, v) = p
          \/ SetInPageSetUpPr(p, o, v) = [p EXCEPT !.PageSetUpPr = [q EXCEPT ![o] = v]]
      BY DEF SetInPageSetUpPr
    <2> HIDE DEF q
    <2>6. [p EXCEPT !.PageSetUpPr = [q EXCEPT ![o] = v]] \in SheetPr
      BY <1>1, <2>4 DEF SheetPr
    <2> QED
      BY <1>1, <1>2, <2>2, <2>5, <2>6
  <1> QED
    BY <1>3, <1>4, <1>5, <1>6 DEF PrOptions

\* the view an index names
LEMMA ViewIndex ==
  ASSUME SettingsInv, NEW i \in Indices
  PROVE  /\ Len(views) \in Nat
         /\ GetSheetView(i) = None \/ GetSheetView(i) \in 1..Len(views)
         /\ \A k \in 1..Len(views) : Means(i, k) <=> k = GetSheetView(i)
  <1> DEFINE n == Len(views)
  <1>1. n \in Nat /\ i \in Int /\ None \notin Int
    <2>1. views \in Seq(View)
      BY DEF SettingsInv, TypeOK
    <2>2. i \in Int /\ None \notin Int
      BY SettingsAssumption
    <2>3. n \in Nat
      BY <2>1
    <2> QED
      BY <2>2, <2>3
  <1>2. GetSheetView(i) = IF i < 0 THEN (IF i < -n THEN None ELSE n + i + 1)
                          ELSE IF i >= n THEN None ELSE i + 1
    BY DEF GetSheetView
  <1>3. \A k : Means(i, k) <=> i = k - 1 \/ i = k - 1 - n
    BY DEF Means
  <1> HIDE DEF n
  <1>4. CASE i < -n \/ i >= n
    <2>1. GetSheetView(i) = None
      BY <1>1, <1>2, <1>4
    <2>2. \A k \in 1..n : ~Means(i, k)
      BY <1>1, <1>3, <1>4
    <2>3. \A k \in 1..n : k # None
      BY <1>1
    <2> QED
      BY <1>1, <2>1, <2>2, <2>3 DEF n
  <1>5. CASE i < 0 /\ ~(i < -n)
    <2>1. GetSheetView(i) = n + i + 1 /\ n + i + 1 \in 1..n
      BY <1>1, <1>2, <1>5
    <2>2. \A k \in 1..n : Means(i, k) <=> k = n + i + 1
      BY <1>1, <1>3, <1>5
    <2> QED
      BY <1>1, <2>1, <2>2 DEF n
  <1>6. CASE i >= 0 /\ ~(i >= n)
    <2>1. GetSheetView(i) = i + 1 /\ i + 1 \in 1..n
      BY <1>1, <1>2, <1>6
    <2>2. \A k \in 1..n : Means(i, k) <=> k = i + 1
      BY <1>1, <1>3, <1>6
    <2> QED
      BY <1>1, <2>1, <2>2 DEF n
  <1> QED
    BY <1>1, <1>4, <1>5, <1>6

LEMMA ViewType ==
  ASSUME NEW view \in View, NEW o \in ViewOptions, NEW v \in ViewValues(o)
  PROVE  SetSheetViewOption(view, o, v) \in View
  <1>1. [view EXCEPT ![o] = v] \in View
    <2>1. CASE o = "ZoomScale"
      BY <2>1, SettingsAssumption DEF ViewValues, View
    <2>2. CASE o = "TopLeftCell"
      BY <2>2 DEF ViewValues, View
    <2>3. CASE o \in PointerOptions
      BY <2>3 DEF ViewValues, View, PointerOptions
    <2>4. CASE o \in FlagOptions
      BY <2>4 DEF ViewValues, View, FlagOptions
    <2> QED
      BY <2>1, <2>2, <2>3, <2>4 DEF ViewOptions
  <1> QED
    BY <1>1 DEF SetSheetViewOption

LEMMA ViewsType ==
  ASSUME SettingsInv, NEW i \in Indices, NEW o \in ViewOptions, NEW v \in ViewValues(o)
  PROVE  WithViewOption(i, o, v) \in Seq(View)
  <1> DEFINE k == GetSheetView(i)
             w == SetSheetViewOption(views[k], o, v)
  <1>1. views \in Seq(View)
    BY DEF SettingsInv, TypeOK
  <1>2. CASE k = None
    BY <1>1, <1>2 DEF WithViewOption
  <1>3. CASE k # None
    <2>1. k \in 1..Len(views)
      BY <1>3, ViewIndex
    <2>2. WithViewOption(i, o, v) = [views EXCEPT ![k] = w]
      BY <1>3 DEF WithViewOption
    <2> HIDE DEF k
    <2>3. w \in View
      BY <1>1, <2>1, ViewType
    <2> HIDE DEF w
    <2> QED
      BY <1>1, <2>1, <2>2, <2>3, ExceptSeq
  <1> QED
    BY <1>2, <1>3

LEMMA OptionsKeep == SettingsInv /\ SetOptions => SettingsInv'
  <1> SUFFICES ASSUME SettingsInv, SetOptions PROVE SettingsInv'
    OBVIOUS
  <1>1. /\ views \in Seq(View) /\ pr \in SheetPr \cup {None} /\ page \in PageSetUp \cup {None}
        /\ headerFooter \in [HeaderFields -> Nat] \cup {None}
        /\ protection \in {None, "open", "password"}
    BY DEF SettingsInv, TypeOK
  <1>2. ASSUME NEW o \in PrOptions, NEW v \in PrValues(o), SetSheetPrOptions(o, v)
        PROVE  SettingsInv'
    BY <1>1, <1>2, PrType, OptionKeeps DEF SetSheetPrOptions
  <1>3. ASSUME NEW i \in Indices, NEW o \in ViewOptions, NEW v \in ViewValues(o),
               SetSheetViewOptions(i, o, v)
        PROVE  SettingsInv'
    BY <1>1, <1>3, ViewsType, OptionKeeps DEF SetSheetViewOptions
  <1>4. ASSUME NEW freeze \in BOOLEAN, NEW split \in BOOLEAN, NEW panes \in {0, 1},
               SetPanes(freeze, split, panes)
        PROVE  SettingsInv'
    <2> DEFINE n == Len(views)
               pane == IF freeze THEN "frozen" ELSE IF split THEN "split" ELSE None
               w == [views[n] EXCEPT !.Pane = pane, !.Selection = panes]
    <2>1. n \in 1..Len(views) /\ pane \in {None, "frozen", "split"}
      BY <1>1, <1>4 DEF SetPanes
    <2>2. views' = [views EXCEPT ![n] = w]
      <3>1. views' = [views EXCEPT ![n].Pane = pane, ![n].Selection = panes]
        BY <1>4 DEF SetPanes
      <3> HIDE DEF n, pane
      <3> QED
        BY <1>1, <2>1, <3>1
    <2> HIDE DEF n, pane
    <2>3. w \in View
      <3>1. views[n] \in View
        BY <1>1, <2>1
      <3> DEFINE u == views[n]
      <3> HIDE DEF u
      <3>2. panes \in 0..4
        OBVIOUS
      <3>3. [u EXCEPT !.Pane = pane, !.Selection = panes] \in View
        BY <2>1, <3>1, <3>2 DEF View, u
      <3> QED
        BY <3>3 DEF u
    <2> HIDE DEF w
    <2>4. views' \in Seq(View)
      BY <1>1, <2>1, <2>2, <2>3, ExceptSeq
    <2> QED
      BY <1>1, <1>4, <2>4, OptionKeeps DEF SetPanes
  <1>5. ASSUME NEW o \in {"Orientation", "PaperSize"}, NEW v,
               o = "Orientation" => v \in {"portrait", "landscape"},
               o = "PaperSize" => v \in Sizes,
               SetPageLayout(o, v)
        PROVE  SettingsInv'
    <2> DEFINE p == IF page = None THEN [Orientation |-> "", PaperSize |-> 0] ELSE page
    <2>1. p \in PageSetUp
      BY <1>1 DEF PageSetUp
    <2>2. page' = [p EXCEPT ![o] = v]
      BY <1>5 DEF SetPageLayout, WithPageLayout
    <2> HIDE DEF p
    <2>3. page' \in PageSetUp
      BY <1>5, <2>1, <2>2, SettingsAssumption DEF PageSetUp
    <2> QED
      BY <1>1, <1>5, <2>3, OptionKeeps DEF SetPageLayout
  <1>6. ASSUME NEW password \in BOOLEAN, ProtectSheet(password)
        PROVE  SettingsInv'
    BY <1>1, <1>6, OptionKeeps DEF ProtectSheet
  <1>7. ASSUME UnprotectSheet
        PROVE  SettingsInv'
    BY <1>1, <1>7, OptionKeeps DEF UnprotectSheet
  <1> QED
    BY <1>2, <1>3, <1>4, <1>5, <1>6, <1>7 DEF SetOptions

LEMMA HeaderKeeps ==
  ASSUME SettingsInv, NEW s \in Headers(HeaderFields \ {"FirstHeader"}) \cup {None},
         SetHeaderFooter(s)
  PROVE  SettingsInv'
  <1>1. s \in [HeaderFields -> Nat] \cup {None}
    <2>1. \A n \in Lengths : \A field : [f \in HeaderFields |-> IF f = field THEN n ELSE 0] \in [HeaderFields -> Nat]
      BY SettingsAssumption
    <2> QED
      BY <2>1 DEF Headers
  <1>2. /\ views \in Seq(View) /\ pr \in SheetPr \cup {None} /\ page \in PageSetUp \cup {None}
        /\ headerFooter \in [HeaderFields -> Nat] \cup {None}
        /\ protection \in {None, "open", "password"}
    BY DEF SettingsInv, TypeOK
  <1>3. headerFooter' \in [HeaderFields -> Nat] \cup {None}
    BY <1>1, <1>2 DEF SetHeaderFooter
  <1> QED
    BY <1>2, <1>3, OptionKeeps DEF SetHeaderFooter

-----------------------------------------------------------------------------
(* The methods of a data validation, and the file.                         *)

\* a method leaves every other object alone
LEMMA ChangeKeeps ==
  ASSUME SettingsInv, NEW k \in 1..Len(objects), NEW dd \in DataValidation, IsWhole(dd),
         Change(k, dd)
  PROVE  SettingsInv'
  <1>1. /\ objects \in Seq(DataValidation) /\ Len(objects) \in Nat
        /\ \A j \in 1..Len(objects) : IsWhole(objects[j])
    BY DEF SettingsInv, TypeOK
  <1>2. objects' = [objects EXCEPT ![k] = dd]
    BY DEF Change
  <1>3. objects' \in Seq(DataValidation) /\ Len(objects') = Len(objects)
    BY <1>1, <1>2, ExceptSeq
  <1>4. \A j \in 1..Len(objects') : IsWhole(objects'[j])
    <2> TAKE j \in 1..Len(objects')
    <2>1. CASE j = k
      BY <1>1, <1>2, <1>3, <2>1
    <2>2. CASE j # k
      BY <1>1, <1>2, <1>3, <2>2
    <2> QED
      BY <2>1, <2>2
  <1> QED
    BY <1>3, <1>4 DEF SettingsInv, TypeOK, Change

LEMMA NewKeeps == SettingsInv /\ NewDataValidation => SettingsInv'
  <1> SUFFICES ASSUME SettingsInv, NewDataValidation PROVE SettingsInv'
    OBVIOUS
  <1> DEFINE n == Len(objects)
             h == TRUE
             s == FALSE
             dd == [Type |-> "", Operator |-> "", Formula1 |-> NoFormula,
                    Formula2 |-> NoFormula, Sqref |-> 0,
                    ShowErrorMessage |-> s, ShowInputMessage |-> s, held |-> h]
  <1>1. /\ objects \in Seq(DataValidation) /\ n \in Nat
        /\ \A j \in 1..n : IsWhole(objects[j])
        /\ validations.list \in Seq(1..n)
    BY DEF SettingsInv, TypeOK
  <1>2. objects' = Append(objects, dd)
    BY DEF NewDataValidation
  <1>3. NoFormula \in Formula /\ NoFormula.els = << >> /\ NoFormula.len = 0
    BY DEF NoFormula, Formula
  <1>4. h = TRUE /\ s \in BOOLEAN
    OBVIOUS
  <1> HIDE DEF h, s
  <1>5. dd \in DataValidation
    BY <1>3, <1>4 DEF DataValidation
  <1>6. IsWhole(dd)
    BY <1>3, <1>4 DEF IsWhole, HeldWhole, Held1, Held2, FormulaStrLen, TagsLen
  <1> HIDE DEF dd, n
  <1>7. /\ objects' \in Seq(DataValidation) /\ Len(objects') = n + 1
        /\ \A j \in 1..n : objects'[j] = objects[j]
        /\ objects'[n + 1] = dd
    BY <1>1, <1>2, <1>5, AppendProperties DEF n
  <1>8. \A j \in 1..Len(objects') : IsWhole(objects'[j])
    <2> TAKE j \in 1..Len(objects')
    <2>1. j \in 1..n \/ j = n + 1
      BY <1>1, <1>7
    <2> QED
      BY <1>1, <1>6, <1>7, <2>1
  <1>9. validations.list \in Seq(1..Len(objects'))
    <2>1. 1..n \subseteq 1..Len(objects')
      BY <1>1, <1>7
    <2> QED
      BY <1>1, <2>1
  <1> QED
    BY <1>7, <1>8, <1>9 DEF SettingsInv, TypeOK, NewDataValidation

LEMMA ValidateKeeps ==
  ASSUME SettingsInv, NEW k \in Held, Validate(k)
  PROVE  SettingsInv'
  <1> DEFINE d == objects[k]
  <1>1. k \in 1..Len(objects) /\ d.held
    BY DEF Held
  <1>2. d \in DataValidation /\ IsWhole(d)
    BY <1>1 DEF SettingsInv, TypeOK
  <1>3. HeldWhole(d)
    BY <1>1, <1>2 DEF IsWhole
  <1>4. ASSUME SetError(k) PROVE SettingsInv'
    <2> DEFINE t == TRUE
               e == [d EXCEPT !.ShowErrorMessage = t]
    <2>1. t \in BOOLEAN /\ Change(k, e)
      BY <1>4 DEF SetError
    <2> HIDE DEF t, d
    <2>2. e \in DataValidation /\ e.held = d.held /\ e.Formula1 = d.Formula1
          /\ e.Formula2 = d.Formula2 /\ e.Type = d.Type
      BY <1>2, <2>1 DEF DataValidation
    <2> HIDE DEF e
    <2>3. IsWhole(e)
      BY <1>1, <1>3, <2>2 DEF IsWhole, HeldWhole
    <2> QED
      BY <1>1, <2>1, <2>2, <2>3, ChangeKeeps
  <1>5. ASSUME SetInput(k) PROVE SettingsInv'
    <2> DEFINE t == TRUE
               e == [d EXCEPT !.ShowInputMessage = t]
    <2>1. t \in BOOLEAN /\ Change(k, e)
      BY <1>5 DEF SetInput
    <2> HIDE DEF t, d
    <2>2. e \in DataValidation /\ e.held = d.held /\ e.Formula1 = d.Formula1
          /\ e.Formula2 = d.Formula2 /\ e.Type = d.Type
      BY <1>2, <2>1 DEF DataValidation
    <2> HIDE DEF e
    <2>3. IsWhole(e)
      BY <1>1, <1>3, <2>2 DEF IsWhole, HeldWhole
    <2> QED
      BY <1>1, <2>1, <2>2, <2>3, ChangeKeeps
  <1>6. ASSUME SetSqref(k) PROVE SettingsInv'
    <2> DEFINE n == d.Sqref + 1
               e == [d EXCEPT !.Sqref = n]
    <2>1. n \in Nat /\ Change(k, e)
      <3>1. d.Sqref \in Nat
        BY <1>2 DEF DataValidation
      <3>2. Change(k, e)
        BY <1>6 DEF SetSqref
      <3> QED
        BY <3>1, <3>2
    <2> HIDE DEF n, d
    <2>2. e \in DataValidation /\ e.held = d.held /\ e.Formula1 = d.Formula1
          /\ e.Formula2 = d.Formula2 /\ e.Type = d.Type
      BY <1>2, <2>1 DEF DataValidation
    <2> HIDE DEF e
    <2>3. IsWhole(e)
      BY <1>1, <1>3, <2>2 DEF IsWhole, HeldWhole
    <2> QED
      BY <1>1, <2>1, <2>2, <2>3, ChangeKeeps
  <1>7. ASSUME SetRange(k) PROVE SettingsInv'
    <2> DEFINE f1 == [els |-> << "formula1" >>, len |-> TagsLen + 1]
               f2 == [els |-> << "formula2" >>, len |-> TagsLen + 1]
               e  == [d EXCEPT !.Formula1 = f1, !.Formula2 = f2, !.Type = "whole",
                               !.Operator = "between"]
    <2>1. Change(k, e)
      BY <1>7 DEF SetRange
    <2>2. f1 \in Formula /\ f2 \in Formula
      BY DEF Formula, TagsLen
    <2>3. /\ f1.els = << "formula1" >> /\ f1.len = TagsLen + 1
          /\ f2.els = << "formula2" >> /\ f2.len = TagsLen + 1
      OBVIOUS
    <2> HIDE DEF f1, f2, d
    <2>4. e \in DataValidation /\ e.held = d.held /\ e.Formula1 = f1
          /\ e.Formula2 = f2 /\ e.Type = "whole"
      BY <1>2, <2>2 DEF DataValidation
    <2> HIDE DEF e
    <2>5. IsWhole(e)
      BY <1>1, <2>3, <2>4, Lists12 DEF IsWhole, HeldWhole, Held1, Held2, FormulaStrLen, TagsLen
    <2> QED
      BY <1>1, <2>1, <2>4, <2>5, ChangeKeeps
  <1>8. ASSUME NEW joined \in Lengths, SetDropList(k, joined) PROVE SettingsInv'
    <2> DEFINE n  == joined + 2 + TagsLen
               f1 == [els |-> << "formula1" >>, len |-> n]
               e  == [d EXCEPT !.Formula1 = f1, !.Type = "list"]
    <2>1. Change(k, e) /\ n \in Nat /\ n <= FormulaStrLen + TagsLen
      <3>1. joined \in Nat
        BY SettingsAssumption
      <3> QED
        BY <1>8, <3>1 DEF SetDropList, DropListFits, FormulaStrLen, TagsLen
    <2> HIDE DEF n
    <2>2. f1 \in Formula /\ f1.els = << "formula1" >> /\ f1.len = n
      BY <2>1 DEF Formula
    <2> HIDE DEF f1, d
    <2>3. e \in DataValidation /\ e.held = d.held /\ e.Formula1 = f1
          /\ e.Formula2 = d.Formula2 /\ e.Type = "list"
      BY <1>2, <2>2 DEF DataValidation
    <2> HIDE DEF e
    <2>4. IsWhole(e)
      BY <1>1, <1>3, <2>1, <2>2, <2>3, Lists12 DEF IsWhole, HeldWhole, Held1
    <2> QED
      BY <1>1, <2>1, <2>3, <2>4, ChangeKeeps
  <1>9. ASSUME AddDataValidation(k) PROVE SettingsInv'
    <2> DEFINE l == Append(validations.list, k)
               n == Len(validations.list) + 1
    <2>1. l \in Seq(1..Len(objects)) /\ Len(l) = n
      BY <1>1, AppendProperties DEF SettingsInv, TypeOK
    <2>2. validations' = [list |-> l, Count |-> n]
      BY <1>9 DEF AddDataValidation
    <2> HIDE DEF l, n
    <2>3. /\ validations'.list = l /\ validations'.Count = n
          /\ validations' = [list |-> validations'.list, Count |-> validations'.Count]
      BY <2>2
    <2> QED
      BY <1>9, <2>1, <2>3 DEF SettingsInv, TypeOK, AddDataValidation
  <1> QED
    BY <1>4, <1>5, <1>6, <1>7, <1>8, <1>9 DEF Validate

LEMMA ReopenKeeps == SettingsInv /\ Reopen => SettingsInv'
  <1> SUFFICES ASSUME SettingsInv, Reopen PROVE SettingsInv'
    OBVIOUS
  <1> DEFINE l == validations.list
             n == Len(validations.list)
             read(dd) == [dd EXCEPT !.Formula1 = [els |-> Written(dd),
                                                  len |-> dd.Formula1.len + dd.Formula2.len],
                                    !.Formula2 = NoFormula, !.held = FALSE]
  <1>1. /\ objects \in Seq(DataValidation) /\ Len(objects) \in Nat
        /\ \A j \in 1..Len(objects) : IsWhole(objects[j])
        /\ l \in Seq(1..Len(objects)) /\ validations.Count = n /\ n \in Nat
        /\ validations = [list |-> l, Count |-> n]
    BY DEF SettingsInv, TypeOK
  <1>2. /\ objects' = [i \in 1..n |-> read(objects[l[i]])]
        /\ validations' = [validations EXCEPT !.list = [i \in 1..n |-> i]]
    BY DEF Reopen
  <1>3. ASSUME NEW dd \in DataValidation, IsWhole(dd)
        PROVE  read(dd) \in DataValidation /\ IsWhole(read(dd))
    <2> DEFINE f1 == [els |-> Written(dd), len |-> dd.Formula1.len + dd.Formula2.len]
               no == FALSE
               e  == [dd EXCEPT !.Formula1 = f1, !.Formula2 = NoFormula, !.held = no]
    <2>1. /\ f1.els = Written(dd) /\ f1.len = dd.Formula1.len + dd.Formula2.len
      OBVIOUS
    <2>2. f1 \in Formula /\ NoFormula \in Formula
      <3>1. Written(dd) \in Seq({"formula1", "formula2", "text"})
        <4> DEFINE S == {"formula1", "formula2", "text"}
        <4>1. /\ << >> \in Seq(S) /\ << "formula1" >> \in Seq(S)
              /\ << "formula1", "formula2" >> \in Seq(S)
          OBVIOUS
        <4> HIDE DEF S
        <4>2. Lists \subseteq Seq(S)
          BY <4>1 DEF Lists
        <4> QED
          BY <1>3, <4>2, WrittenWhole DEF S, Sound
      <3>2. f1.len \in Nat
        BY <1>3, WrittenWhole
      <3> QED
        BY <3>1, <3>2 DEF Formula, NoFormula
    <2>3. no \in BOOLEAN /\ ~no
      OBVIOUS
    <2>4. read(dd) = e
      OBVIOUS
    <2> HIDE DEF f1, no
    <2>5. e \in DataValidation /\ e.Formula1 = f1 /\ e.Formula2 = NoFormula /\ e.held = no
          /\ e.Type = dd.Type
      BY <2>2, <2>3 DEF DataValidation
    <2> HIDE DEF e, read
    <2>6. IsWhole(e)
      BY <1>3, <2>1, <2>3, <2>5, WrittenWhole DEF IsWhole, ReadWhole
    <2> QED
      BY <2>4, <2>5, <2>6
  <1> HIDE DEF read
  <1>4. \A i \in 1..n : objects[l[i]] \in DataValidation /\ IsWhole(objects[l[i]])
    <2> TAKE i \in 1..n
    <2>1. l[i] \in 1..Len(objects)
      BY <1>1
    <2> QED
      BY <1>1, <2>1
  <1> HIDE DEF l, n
  <1>5. /\ objects' \in Seq(DataValidation) /\ Len(objects') = n
        /\ \A i \in 1..n : IsWhole(objects'[i])
    <2>1. \A i \in 1..n : /\ read(objects[l[i]]) \in DataValidation
                          /\ IsWhole(read(objects[l[i]]))
      BY <1>3, <1>4
    <2>2. objects' = [i \in 1..n |-> objects'[i]] /\ \A i \in 1..n : objects'[i] = read(objects[l[i]])
      BY <1>2
    <2>3. \A i \in 1..n : objects'[i] \in DataValidation /\ IsWhole(objects'[i])
      BY <2>1, <2>2
    <2>4. \E m \in Nat : objects' \in [1..m -> DataValidation]
      BY <1>1, <2>2, <2>3
    <2>5. objects' \in Seq(DataValidation)
      BY <2>4
    <2>6. Len(objects') = n
      BY <1>1, <2>2, <2>5
    <2> QED
      BY <2>3, <2>5, <2>6
  <1>6. /\ validations'.list = [i \in 1..n |-> i] /\ validations'.Count = n
        /\ validations' = [list |-> validations'.list, Count |-> validations'.Count]
    <2> DEFINE ids == [i \in 1..n |-> i]
    <2>1. validations' = [list |-> ids, Count |-> n]
      <3> HIDE DEF ids
      <3>1. validations' = [validations EXCEPT !.list = ids]
        BY <1>2 DEF ids
      <3> QED
        BY <1>1, <3>1
    <2> HIDE DEF ids
    <2>2. validations'.list = ids /\ validations'.Count = n
          /\ validations' = [list |-> validations'.list, Count |-> validations'.Count]
      BY <2>1
    <2> QED
      BY <2>2 DEF ids
  <1>7. [i \in 1..n |-> i] \in Seq(1..n) /\ Len([i \in 1..n |-> i]) = n
    BY <1>1
  <1> QED
    BY <1>5, <1>6, <1>7 DEF SettingsInv, TypeOK, Reopen

-----------------------------------------------------------------------------
(* Getters after setters.                                                  *)

\* what a getter shows of a structure that exists
ShownPr(p, o) ==
  CASE o = "CodeName" -> p.CodeName
    [] o = "OutlineSummaryBelow" -> DefaultTrue(p.OutlinePr)
    [] o \in {"FitToPage", "AutoPageBreaks"} ->
         IF p.PageSetUpPr = None THEN FALSE ELSE p.PageSetUpPr[o]
    [] o \in {"EnableFormatConditionsCalculation", "Published"} -> DefaultTrue(p[o])

LEMMA PrShown ==
  ASSUME NEW p \in SheetPr, NEW o \in PrOptions
  PROVE  GetSheetPrOption(p, o) = ShownPr(p, o)
  <1>1. p # None
    BY SettingsAssumption
  <1> QED
    BY <1>1 DEF GetSheetPrOption, ShownPr, PrOptions

\* a structure that is made shows the defaults
LEMMA NewPrShows ==
  ASSUME NEW o \in PrOptions
  PROVE  GetSheetPrOption(None, o) = GetSheetPrOption(NewSheetPr, o)
  <1>1. NewSheetPr \in SheetPr
    BY SettingsAssumption DEF NewSheetPr, SheetPr
  <1>2. NewSheetPr # None
    BY <1>1, SettingsAssumption
  <1>3. /\ NewSheetPr.CodeName = "" /\ NewSheetPr.OutlinePr = None
        /\ NewSheetPr.PageSetUpPr = None /\ NewSheetPr.Published = None
        /\ NewSheetPr.EnableFormatConditionsCalculation = None
    BY DEF NewSheetPr
  <1>4. DefaultTrue(None) = TRUE
    BY DEF DefaultTrue
  <1>5. CASE o = "CodeName"
    BY <1>2, <1>3, <1>5 DEF GetSheetPrOption
  <1>6. CASE o = "OutlineSummaryBelow"
    BY <1>2, <1>3, <1>4, <1>6 DEF GetSheetPrOption
  <1>7. CASE o \in {"FitToPage", "AutoPageBreaks"}
    BY <1>2, <1>3, <1>7 DEF GetSheetPrOption
  <1>8. CASE o \in {"EnableFormatConditionsCalculation", "Published"}
    BY <1>2, <1>3, <1>4, <1>8 DEF GetSheetPrOption
  <1> QED
    BY <1>5, <1>6, <1>7, <1>8 DEF PrOptions

LEMMA PrReadsBack ==
  ASSUME NEW p \in SheetPr, NEW o \in PrOptions, NEW v \in PrValues(o), NEW q \in PrOptions,
         SetSheetPrOption(p, o, v) \in SheetPr
  PROVE  GetSheetPrOption(SetSheetPrOption(p, o, v), q) =
           IF q = o THEN v ELSE GetSheetPrOption(p, q)
  <1> DEFINE r == SetSheetPrOption(p, o, v)
  <1>1. GetSheetPrOption(r, q) = ShownPr(r, q) /\ GetSheetPrOption(p, q) = ShownPr(p, q)
    BY PrShown
  <1>2. CASE o = "CodeName"
    <2>1. r = [p EXCEPT !.CodeName = v]
      BY <1>2 DEF SetSheetPrOption
    <2>2. /\ r.CodeName = v /\ r.OutlinePr = p.OutlinePr /\ r.PageSetUpPr = p.PageSetUpPr
          /\ r.Published = p.Published
          /\ r.EnableFormatConditionsCalculation = p.EnableFormatConditionsCalculation
      BY <2>1 DEF SheetPr
    <2> HIDE DEF r
    <2>3. ShownPr(r, q) = IF q = o THEN v ELSE ShownPr(p, q)
      BY <1>2, <2>2 DEF ShownPr, PrOptions
    <2> QED
      BY <1>1, <2>3 DEF r
  <1>3. CASE o \in {"EnableFormatConditionsCalculation", "Published"}
    <2>1. r = [p EXCEPT ![o] = v] /\ v \in BOOLEAN
      BY <1>3 DEF SetSheetPrOption, PrValues
    <2>2. /\ r[o] = v /\ r.OutlinePr = p.OutlinePr /\ r.PageSetUpPr = p.PageSetUpPr
          /\ r.CodeName = p.CodeName
          /\ \A k \in {"EnableFormatConditionsCalculation", "Published"} : k # o => r[k] = p[k]
      BY <1>3, <2>1 DEF SheetPr
    <2>3. DefaultTrue(v) = v
      BY <2>1, SettingsAssumption DEF DefaultTrue
    <2> HIDE DEF r
    <2>4. ShownPr(r, q) = IF q = o THEN v ELSE ShownPr(p, q)
      BY <1>3, <2>2, <2>3 DEF ShownPr, PrOptions
    <2> QED
      BY <1>1, <2>4 DEF r
  <1>4. CASE o = "OutlineSummaryBelow"
    <2>1. r = [p EXCEPT !.OutlinePr = v] /\ v \in BOOLEAN
      BY <1>4 DEF SetSheetPrOption, PrValues
    <2>2. /\ r.OutlinePr = v /\ r.CodeName = p.CodeName /\ r.PageSetUpPr = p.PageSetUpPr
          /\ r.Published = p.Published
          /\ r.EnableFormatConditionsCalculation = p.EnableFormatConditionsCalculation
      BY <2>1 DEF SheetPr
    <2>3. DefaultTrue(v) = v
      BY <2>1, SettingsAssumption DEF DefaultTrue
    <2> HIDE DEF r
    <2>4. ShownPr(r, q) = IF q = o THEN v ELSE ShownPr(p, q)
      BY <1>4, <2>2, <2>3 DEF ShownPr, PrOptions
    <2> QED
      BY <1>1, <2>4 DEF r
  <1>5. CASE o \in {"FitToPage", "AutoPageBreaks"}
    <2>1. r = SetInPageSetUpPr(p, o, v) /\ v \in BOOLEAN
      BY <1>5 DEF SetSheetPrOption, PrValues
    <2>2. CASE p.PageSetUpPr = None /\ ~v
      <3>1. r = p /\ v = FALSE
        BY <2>1, <2>2 DEF SetInPageSetUpPr
      <3>2. ShownPr(p, o) = FALSE
        BY <1>5, <2>2 DEF ShownPr
      <3> HIDE DEF r
      <3> QED
        BY <1>1, <3>1, <3>2 DEF r
    <2>3. CASE ~(p.PageSetUpPr = None /\ ~v)
      <3> DEFINE s == IF p.PageSetUpPr = None THEN [FitToPage |-> FALSE, AutoPageBreaks |-> FALSE]
                      ELSE p.PageSetUpPr
                 t == [s EXCEPT ![o] = v]
      <3>1. s \in PageSetUpPr
        BY DEF SheetPr, PageSetUpPr
      <3>2. t \in PageSetUpPr /\ t[o] = v
            /\ \A k \in {"FitToPage", "AutoPageBreaks"} : k # o => t[k] = s[k]
        BY <1>5, <2>1, <3>1 DEF PageSetUpPr
      <3>3. t # None
        BY <3>2, SettingsAssumption
      <3>4. r = [p EXCEPT !.PageSetUpPr = t]
        BY <2>1, <2>3 DEF SetInPageSetUpPr
      <3>5. \A k \in {"FitToPage", "AutoPageBreaks"} : s[k] = ShownPr(p, k)
        <4> TAKE k \in {"FitToPage", "AutoPageBreaks"}
        <4>1. ShownPr(p, k) = IF p.PageSetUpPr = None THEN FALSE ELSE p.PageSetUpPr[k]
          BY DEF ShownPr
        <4>2. [FitToPage |-> FALSE, AutoPageBreaks |-> FALSE][k] = FALSE
          OBVIOUS
        <4>3. CASE p.PageSetUpPr = None
          BY <4>1, <4>2, <4>3
        <4>4. CASE p.PageSetUpPr # None
          BY <4>1, <4>4
        <4> QED
          BY <4>3, <4>4
      <3> HIDE DEF s, t
      <3>6. /\ r.PageSetUpPr = t /\ r.CodeName = p.CodeName /\ r.OutlinePr = p.OutlinePr
            /\ r.Published = p.Published
            /\ r.EnableFormatConditionsCalculation = p.EnableFormatConditionsCalculation
        BY <3>4 DEF SheetPr
      <3> HIDE DEF r
      <3>7. CASE q \in {"FitToPage", "AutoPageBreaks"}
        <4>1. ShownPr(r, q) = t[q]
          BY <3>3, <3>6, <3>7 DEF ShownPr
        <4>2. t[q] = IF q = o THEN v ELSE ShownPr(p, q)
          BY <3>2, <3>5, <3>7
        <4> QED
          BY <1>1, <4>1, <4>2 DEF r
      <3>8. CASE q \notin {"FitToPage", "AutoPageBreaks"}
        <4>1. ShownPr(r, q) = ShownPr(p, q)
          BY <3>6, <3>8 DEF ShownPr, PrOptions
        <4> QED
          BY <1>1, <1>5, <3>8, <4>1 DEF r
      <3> QED
        BY <3>7, <3>8
    <2> QED
      BY <2>2, <2>3
  <1> QED
    BY <1>2, <1>3, <1>4, <1>5 DEF PrOptions

LEMMA ViewReadsBack ==
  ASSUME NEW view \in View, NEW o \in ViewOptions, NEW v \in ViewValues(o), NEW q \in ViewOptions,
         o = "ZoomScale" => InZoomRange(v)
  PROVE  GetSheetViewOption(SetSheetViewOption(view, o, v), q) =
           IF q = o THEN v ELSE GetSheetViewOption(view, q)
  <1> DEFINE r == [view EXCEPT ![o] = v]
  <1>1. SetSheetViewOption(view, o, v) = r
    BY DEF SetSheetViewOption
  <1>2. DOMAIN view = {"DefaultGridColor", "ShowGridLines", "ShowRowColHeaders", "RightToLeft",
                       "ShowFormulas", "ZoomScale", "TopLeftCell", "Pane", "Selection"}
    BY DEF View
  <1>3. ViewOptions \subseteq DOMAIN view
    BY <1>2 DEF ViewOptions, PointerOptions, FlagOptions
  <1>4. r[q] = IF q = o THEN v ELSE view[q]
    BY <1>3
  <1>5. q \in PointerOptions /\ q = o => DefaultTrue(v) = v
    <2>1. q \in PointerOptions /\ q = o => v \in BOOLEAN
      BY DEF ViewValues, PointerOptions
    <2> QED
      BY <2>1, SettingsAssumption DEF DefaultTrue
  <1> HIDE DEF r
  <1>6. GetSheetViewOption(r, q) = IF q = o THEN v ELSE GetSheetViewOption(view, q)
    <2>1. CASE q \in PointerOptions /\ q = o
      BY <1>4, <1>5, <2>1 DEF GetSheetViewOption
    <2>2. CASE q \in PointerOptions /\ q # o
      BY <1>4, <2>2 DEF GetSheetViewOption
    <2>3. CASE q \notin PointerOptions
      BY <1>4, <2>3 DEF GetSheetViewOption
    <2> QED
      BY <2>1, <2>2, <2>3
  <1> QED
    BY <1>1, <1>6

LEMMA ViewsReadBack ==
  ASSUME SettingsInv, NEW i \in Indices, NEW o \in ViewOptions, NEW v \in ViewValues(o)
  PROVE  ViewReads(WithViewOption(i, o, v)) =
           [k \in 1..Len(views) |->
              IF Means(i, k) /\ (o = "ZoomScale" => v >= 10 /\ v <= 400)
              THEN [ViewReads(views)[k] EXCEPT ![o] = v]
              ELSE ViewReads(views)[k]]
  <1> DEFINE new == WithViewOption(i, o, v)
             g   == GetSheetView(i)
             n   == Len(views)
             fits == (o = "ZoomScale" => InZoomRange(v))
             Row(w) == [q \in ViewOptions |-> GetSheetViewOption(w, q)]
  <1>1. views \in Seq(View) /\ n \in Nat
    BY DEF SettingsInv, TypeOK
  <1>2. new \in Seq(View)
    BY ViewsType
  <1>3. Len(new) = n
    BY <1>1 DEF WithViewOption
  <1>4. \A k \in 1..n : Means(i, k) <=> k = g
    BY ViewIndex
  <1>5. \A k \in 1..n : new[k] = IF k = g THEN SetSheetViewOption(views[k], o, v) ELSE views[k]
    <2>1. g = None => \A k \in 1..n : k # g
      <3>1. None \notin Int
        BY SettingsAssumption
      <3> QED
        BY <1>1, <3>1
    <2>2. CASE g = None
      BY <2>1, <2>2 DEF WithViewOption
    <2>3. CASE g # None
      <3>1. g \in 1..n
        BY <2>3, ViewIndex
      <3>2. new = [views EXCEPT ![g] = SetSheetViewOption(views[g], o, v)]
        BY <2>3 DEF WithViewOption
      <3> HIDE DEF new, g
      <3> QED
        BY <1>1, <3>1, <3>2
    <2> QED
      BY <2>2, <2>3
  <1>6. fits <=> (o = "ZoomScale" => v >= 10 /\ v <= 400)
    BY DEF InZoomRange
  <1>7. \A w \in View : Row(SetSheetViewOption(w, o, v)) = IF fits THEN [Row(w) EXCEPT ![o] = v]
                                                          ELSE Row(w)
    <2> TAKE w \in View
    <2>1. CASE fits
      <3>1. \A q \in ViewOptions : GetSheetViewOption(SetSheetViewOption(w, o, v), q) =
                                     IF q = o THEN v ELSE GetSheetViewOption(w, q)
        BY <2>1, ViewReadsBack
      <3>2. Row(SetSheetViewOption(w, o, v)) =
              [q \in ViewOptions |-> IF q = o THEN v ELSE GetSheetViewOption(w, q)]
        BY <3>1
      <3>3. [Row(w) EXCEPT ![o] = v] =
              [q \in ViewOptions |-> IF q = o THEN v ELSE GetSheetViewOption(w, q)]
        OBVIOUS
      <3> QED
        BY <2>1, <3>2, <3>3
    <2>2. CASE ~fits
      <3>1. SetSheetViewOption(w, o, v) = w
        BY <2>2 DEF SetSheetViewOption
      <3> QED
        BY <2>2, <3>1
    <2> QED
      BY <2>1, <2>2
  <1>8. ViewReads(new) = [k \in 1..n |-> Row(new[k])]
    BY <1>3 DEF ViewReads
  <1>9. \A k \in 1..n : ViewReads(views)[k] = Row(views[k])
    BY DEF ViewReads
  <1> HIDE DEF new, g, n, fits, Row
  <1>10. \A k \in 1..n : Row(new[k]) = IF Means(i, k) /\ fits THEN [Row(views[k]) EXCEPT ![o] = v]
                                       ELSE Row(views[k])
    <2> TAKE k \in 1..n
    <2>1. views[k] \in View
      BY <1>1 DEF n
    <2>2. CASE k = g
      BY <1>4, <1>5, <1>7, <2>1, <2>2
    <2>3. CASE k # g
      BY <1>4, <1>5, <2>3
    <2> QED
      BY <2>2, <2>3
  <1>11. \A k \in 1..n : Row(new[k]) = IF Means(i, k) /\ fits THEN [ViewReads(views)[k] EXCEPT ![o] = v]
                                       ELSE ViewReads(views)[k]
    BY <1>9, <1>10
  <1>12. ViewReads(new) = [k \in 1..n |-> IF Means(i, k) /\ fits THEN [ViewReads(views)[k] EXCEPT ![o] = v]
                                          ELSE ViewReads(views)[k]]
    BY <1>8, <1>11
  <1> QED
    BY <1>6, <1>12 DEF new, n

LEMMA PageReadsBack ==
  ASSUME SettingsInv
  PROVE  /\ \A v \in {"portrait", "landscape"} :
              PageReads(WithPageLayout("Orientation", v)) =
                [PageReads(page) EXCEPT !["Orientation"] = v]
         /\ \A v \in Sizes :
              PageReads(WithPageLayout("PaperSize", v)) = [PageReads(page) EXCEPT !["PaperSize"] = v]
  <1> DEFINE p == IF page = None THEN [Orientation |-> "", PaperSize |-> 0] ELSE page
  <1>1. p \in PageSetUp /\ page \in PageSetUp \cup {None}
    BY DEF SettingsInv, TypeOK, PageSetUp
  <1>2. /\ GetPageLayout(page, "Orientation") = IF p.Orientation = "" THEN "portrait" ELSE p.Orientation
        /\ GetPageLayout(page, "PaperSize") = IF p.PaperSize = 0 THEN 1 ELSE p.PaperSize
    BY DEF GetPageLayout
  <1>3. \A o, v : WithPageLayout(o, v) = [p EXCEPT ![o] = v]
    BY DEF WithPageLayout
  <1> HIDE DEF p
  <1>4. \A r : PageReads(r) = [o \in {"Orientation", "PaperSize"} |->
                                 IF o = "Orientation" THEN GetPageLayout(r, "Orientation")
                                 ELSE GetPageLayout(r, "PaperSize")]
    BY DEF PageReads
  <1>5. ASSUME NEW v \in {"portrait", "landscape"}
        PROVE  PageReads(WithPageLayout("Orientation", v)) =
                 [PageReads(page) EXCEPT !["Orientation"] = v]
    <2> DEFINE r == [p EXCEPT !["Orientation"] = v]
    <2>1. r \in PageSetUp /\ r.Orientation = v /\ r.PaperSize = p.PaperSize
      BY <1>1 DEF PageSetUp
    <2>2. r # None
      BY <2>1, SettingsAssumption
    <2> HIDE DEF r
    <2>3. /\ GetPageLayout(r, "Orientation") = v
          /\ GetPageLayout(r, "PaperSize") = GetPageLayout(page, "PaperSize")
      BY <1>2, <2>1, <2>2 DEF GetPageLayout
    <2>4. PageReads(r) = [PageReads(page) EXCEPT !["Orientation"] = v]
      BY <1>4, <2>3
    <2> QED
      BY <1>3, <2>4 DEF r
  <1>6. ASSUME NEW v \in Sizes
        PROVE  PageReads(WithPageLayout("PaperSize", v)) =
                 [PageReads(page) EXCEPT !["PaperSize"] = v]
    <2> DEFINE r == [p EXCEPT !["PaperSize"] = v]
    <2>0. v \in Nat /\ v # 0
      BY SettingsAssumption
    <2>1. r \in PageSetUp /\ r.PaperSize = v /\ r.Orientation = p.Orientation
      BY <1>1, <2>0 DEF PageSetUp
    <2>2. r # None
      BY <2>1, SettingsAssumption
    <2> HIDE DEF r
    <2>3. /\ GetPageLayout(r, "PaperSize") = v
          /\ GetPageLayout(r, "Orientation") = GetPageLayout(page, "Orientation")
      BY <1>2, <2>0, <2>1, <2>2 DEF GetPageLayout
    <2>4. PageReads(r) = [PageReads(page) EXCEPT !["PaperSize"] = v]
      BY <1>4, <2>3
    <2> QED
      BY <1>3, <2>4 DEF r
  <1> QED
    BY <1>5, <1>6

-----------------------------------------------------------------------------
(* The theorems.                                                           *)

LEMMA NextKeeps == SettingsInv /\ [Next]_vars => SettingsInv'
  <1> SUFFICES ASSUME SettingsInv, [Next]_vars PROVE SettingsInv'
    OBVIOUS
  <1>1. CASE UNCHANGED vars
    BY <1>1 DEF vars, SettingsInv, TypeOK
  <1>2. CASE Next
    BY <1>2, OptionsKeep, HeaderKeeps, NewKeeps, ValidateKeeps, ReopenKeeps DEF Next
  <1> QED
    BY <1>1, <1>2

\* The invariant of the data validations holds however the methods of an
\* object are called and whenever the file is read again.
THEOREM SettingsInvHolds == Spec => []SettingsInv
  BY InitKeeps, NextKeeps, PTL DEF Spec

\* Every option holds a value of its kind, and the Count of the data
\* validations is the length of their list.
THEOREM SettingsTypeCorrect == Spec => []TypeOK
  <1>1. SettingsInv => TypeOK
    BY DEF SettingsInv
  <1> QED
    BY <1>1, SettingsInvHolds, PTL

\* However SetRange, SetDropList and the other methods but SetSqrefDropList are
\* called on an object, what the file says of it is a first formula and perhaps
\* a second, in that order: two numbers for a range, keys of at most 255
\* characters for a drop list, a range that was set before it or not.
THEOREM ValidationsWholeAlways == Spec => []ValidationsWhole
  <1>1. SettingsInv => ValidationsWhole
    <2> SUFFICES ASSUME SettingsInv, NEW i \in 1..Len(validations.list)
                 PROVE  LET dd == objects[validations.list[i]]
                        IN  /\ Written(dd) \in Lists
                            /\ dd.Type = "whole" =>
                                 /\ Len(Written(dd)) = 2
                                 /\ dd.Formula1.len + dd.Formula2.len = 2 * (TagsLen + 1)
                            /\ dd.Type = "list" => Len(Written(dd)) >= 1 /\ KeysLen(dd) <= 255
      BY DEF ValidationsWhole, Lists
    <2> DEFINE dd == objects[validations.list[i]]
    <2>1. validations.list[i] \in 1..Len(objects)
      BY DEF SettingsInv, TypeOK
    <2>2. dd \in DataValidation /\ IsWhole(dd)
      BY <2>1 DEF SettingsInv, TypeOK
    <2> HIDE DEF dd
    <2>3. /\ Sound(dd.Type, Written(dd), dd.Formula1.len + dd.Formula2.len)
          /\ dd.Formula1.len + dd.Formula2.len \in Nat
      BY <2>2, WrittenWhole
    <2>4. dd.Formula1.len \in Nat /\ dd.Formula2.len \in Nat
      BY <2>2 DEF DataValidation, Formula
    <2>5. ASSUME dd.Type = "list" PROVE Len(Written(dd)) >= 1 /\ KeysLen(dd) <= 255
      <3>1. CASE Written(dd) = << "formula1" >>
        <4>1. Len(Written(dd)) = 1
          BY <3>1, Lists12
        <4>2. dd.Formula1.len + dd.Formula2.len <= FormulaStrLen + TagsLen
          BY <2>3, <2>5, <3>1 DEF Sound, FormulaStrLen, TagsLen
        <4>3. KeysLen(dd) = dd.Formula1.len + dd.Formula2.len - 2 - TagsLen
          BY <4>1 DEF KeysLen
        <4> QED
          BY <2>4, <4>1, <4>2, <4>3 DEF FormulaStrLen, TagsLen
      <3>2. CASE Written(dd) = << "formula1", "formula2" >>
        <4>1. Len(Written(dd)) = 2 /\ Written(dd) # << "formula1" >>
          BY <3>2, Lists12
        <4>2. dd.Formula1.len + dd.Formula2.len <= FormulaStrLen + TagsLen + (TagsLen + 1)
          BY <2>3, <2>5, <4>1 DEF Sound
        <4>3. KeysLen(dd) = dd.Formula1.len + dd.Formula2.len - 2 - (2 * TagsLen + 1)
          BY <4>1 DEF KeysLen
        <4> QED
          BY <2>4, <4>1, <4>2, <4>3 DEF FormulaStrLen, TagsLen
      <3> QED
        BY <2>3, <2>5, <3>1, <3>2 DEF Sound, Lists
    <2> QED
      BY <2>3, <2>5, Lists12 DEF dd, Sound
  <1> QED
    BY <1>1, SettingsInvHolds, PTL

\* Whatever was set before, a getter answers with what its setter is given and
\* every other getter with what it answered before.
THEOREM ReadsBackAlways == Spec => []ReadsBack
  <1>1. SettingsInv => ReadsBack
    <2> SUFFICES ASSUME SettingsInv PROVE ReadsBack
      OBVIOUS
    <2>1. ASSUME NEW o \in PrOptions, NEW v \in PrValues(o)
          PROVE  PrReads(WithPrOption(o, v)) = [PrReads(pr) EXCEPT ![o] = v]
      <3> DEFINE p == IF pr = None THEN NewSheetPr ELSE pr
                 r == SetSheetPrOption(p, o, v)
      <3>1. p \in SheetPr
        BY SettingsAssumption DEF SettingsInv, TypeOK, NewSheetPr, SheetPr
      <3>2. r = WithPrOption(o, v) /\ r \in SheetPr
        BY PrType DEF WithPrOption
      <3>3. \A q \in PrOptions : GetSheetPrOption(pr, q) = GetSheetPrOption(p, q)
        BY NewPrShows
      <3> HIDE DEF p
      <3>4. \A q \in PrOptions : GetSheetPrOption(r, q) = IF q = o THEN v ELSE GetSheetPrOption(p, q)
        BY <3>1, <3>2, PrReadsBack
      <3> HIDE DEF r
      <3>5. PrReads(r) = [q \in PrOptions |-> IF q = o THEN v ELSE GetSheetPrOption(pr, q)]
        BY <3>3, <3>4 DEF PrReads
      <3>6. [PrReads(pr) EXCEPT ![o] = v] =
              [q \in PrOptions |-> IF q = o THEN v ELSE GetSheetPrOption(pr, q)]
        BY DEF PrReads
      <3> QED
        BY <3>2, <3>5, <3>6
    <2> QED
      BY <2>1, ViewsReadBack, PageReadsBack DEF ReadsBack
  <1> QED
    BY <1>1, SettingsInvHolds, PTL

=============================================================================
