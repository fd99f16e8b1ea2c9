------------------------------ MODULE Settings ------------------------------
(***************************************************************************)
(* What a worksheet keeps beside its cells: the options of its properties, *)
(* views and page, panes, header and footer, protection and data           *)
(* validations, with the setters and getters of each and the file between  *)
(* two handles.                                                            *)
(*                                                                         *)
(* Options live in structures that exist only once one of them was set,    *)
(* some behind pointers of their own; a getter has a default for each      *)
(* level that may be missing.  None is the nil pointer.  A call with       *)
(* several options is the calls with one each.  Data validations are       *)
(* objects that the client goes on holding after it has added them.        *)
(*                                                                         *)
(* Texts are only as long as they are: what counts is whether they fit.    *)
(* Spec keeps the first page's header short and lists its drop downs;      *)
(* SpecFirstHeader and SpecSource do not.                                  *)
(***************************************************************************)
EXTENDS Integers, Sequences, FiniteSets

CONSTANTS None,         \* nil
          Zooms,        \* the scales ZoomScale gets
          Texts,        \* code names and top left cells, "" included
          Sizes,        \* paper sizes
          Indices,      \* the view indices clients name
          Lengths,      \* the lengths of headers and of drop lists
          Files,        \* the sheets a session may start from
          MaxObjects    \* bound on the data validations made

VARIABLES views,        \* SheetViews.SheetView
          pr,           \* SheetPr
          page,         \* PageSetUp
          headerFooter, \* HeaderFooter
          protection,   \* SheetProtection
          objects,      \* the data validations NewDataValidation made
          validations   \* DataValidations: which of them, and Count

vars == <<views, pr, page, headerFooter, protection, objects, validations>>

-----------------------------------------------------------------------------
(* Types.                                                                  *)

PointerOptions == {"DefaultGridColor", "ShowGridLines", "ShowRowColHeaders"}
FlagOptions == {"RightToLeft", "ShowFormulas"}

View == [DefaultGridColor : BOOLEAN \cup {None}, ShowGridLines : BOOLEAN \cup {None},
         ShowRowColHeaders : BOOLEAN \cup {None}, RightToLeft : BOOLEAN,
         ShowFormulas : BOOLEAN, ZoomScale : Nat, TopLeftCell : Texts,
         Pane : {None, "frozen", "split"}, Selection : 0..4]

NewView == [DefaultGridColor |-> None, ShowGridLines |-> None, ShowRowColHeaders |-> None,
            RightToLeft |-> FALSE, ShowFormulas |-> FALSE, ZoomScale |-> 0,
            TopLeftCell |-> "", Pane |-> None, Selection |-> 0]

PageSetUpPr == [FitToPage : BOOLEAN, AutoPageBreaks : BOOLEAN]

SheetPr == [CodeName : Texts, EnableFormatConditionsCalculation : BOOLEAN \cup {None},
            Published : BOOLEAN \cup {None}, PageSetUpPr : PageSetUpPr \cup {None},
            OutlinePr : BOOLEAN \cup {None}]

NewSheetPr == [CodeName |-> "", EnableFormatConditionsCalculation |-> None,
               Published |-> None, PageSetUpPr |-> None, OutlinePr |-> None]

PageSetUp == [Orientation : {"", "portrait", "landscape"}, PaperSize : Nat]

HeaderFields == {"OddHeader", "OddFooter", "EvenHeader", "EvenFooter",
                 "FirstFooter", "FirstHeader"}

\* a formula is the elements it is written as, and its length
Formula == [els : Seq({"formula1", "formula2", "text"}), len : Nat]
NoFormula == [els |-> << >>, len |-> 0]

DataValidation == [Type : {"", "list", "whole"}, Operator : {"", "between"},
                   Formula1 : Formula, Formula2 : Formula, Sqref : Nat,
                   ShowErrorMessage : BOOLEAN, ShowInputMessage : BOOLEAN,
                   held : BOOLEAN]   \* by the client

\* nil is no value of its own
ASSUME SettingsAssumption ==
  /\ None \notin BOOLEAN /\ None \notin Int
  /\ None \notin SheetPr /\ None \notin PageSetUpPr /\ None \notin PageSetUp
  /\ Zooms \subseteq Nat /\ "" \in Texts /\ Sizes \subseteq Nat \ {0}
  /\ Indices \subseteq Int /\ Lengths \subseteq Nat /\ Files \subseteq Seq(View)
  /\ MaxObjects \in Nat

\* the shape of the state
TypeOK == /\ views \in Seq(View)
          /\ pr \in SheetPr \cup {None}
          /\ page \in PageSetUp \cup {None}
          /\ headerFooter \in [HeaderFields -> Nat] \cup {None}
          /\ protection \in {None, "open", "password"}
          /\ objects \in Seq(DataValidation)
          /\ validations.list \in Seq(1..Len(objects))
          /\ validations.Count = Len(validations.list)

Init == /\ views \in Files
        /\ pr = None /\ page = None /\ headerFooter = None /\ protection = None
        /\ objects = << >> /\ validations = [list |-> << >>, Count |-> 0]

-----------------------------------------------------------------------------
(* Sheet properties.                                                       *)

PrOptions == {"CodeName", "EnableFormatConditionsCalculation", "Published",
              "FitToPage", "AutoPageBreaks", "OutlineSummaryBelow"}
PrValues(o) == IF o = "CodeName" THEN Texts ELSE BOOLEAN

\* mutant: the structure is made anew for each option
SetInPageSetUpPrNew(p, o, v) ==
  [p EXCEPT !.PageSetUpPr =
     [[FitToPage |-> FALSE, AutoPageBreaks |-> FALSE] EXCEPT ![o] = v]]

\* an option that is off already needs no structure
SetInPageSetUpPr(p, o, v) ==
  IF p.PageSetUpPr = None /\ ~v THEN p
  ELSE [p EXCEPT !.PageSetUpPr =
          [(IF @ = None THEN [FitToPage |-> FALSE, AutoPageBreaks |-> FALSE] ELSE @)
             EXCEPT ![o] = v]]

SetSheetPrOption(p, o, v) ==
  CASE o \in {"FitToPage", "AutoPageBreaks"} -> SetInPageSetUpPr(p, o, v)
    [] o = "OutlineSummaryBelow" -> [p EXCEPT !.OutlinePr = v]
    [] OTHER -> [p EXCEPT ![o] = v]

DefaultTrue(b) == IF b = None THEN TRUE ELSE b

GetSheetPrOption(p, o) ==
  CASE o = "CodeName" -> IF p = None THEN "" ELSE p.CodeName
    [] o = "OutlineSummaryBelow" -> IF p = None THEN TRUE ELSE DefaultTrue(p.OutlinePr)
    [] o \in {"FitToPage", "AutoPageBreaks"} ->
         IF p = None THEN FALSE
         ELSE IF p.PageSetUpPr = None THEN FALSE ELSE p.PageSetUpPr[o]
    [] OTHER -> IF p = None THEN TRUE ELSE DefaultTrue(p[o])

WithPrOption(o, v) == SetSheetPrOption(IF pr = None THEN NewSheetPr ELSE pr, o, v)

SetSheetPrOptions(o, v) ==
  /\ pr' = WithPrOption(o, v)
  /\ UNCHANGED <<views, page, headerFooter, protection, objects, validations>>

-----------------------------------------------------------------------------
(* Views and panes.                                                        *)

ViewOptions == PointerOptions \cup FlagOptions \cup {"ZoomScale", "TopLeftCell"}
ViewValues(o) == CASE o = "ZoomScale" -> Zooms
                   [] o = "TopLeftCell" -> Texts
                   [] OTHER -> BOOLEAN

\* mutant: the view after the one counted back to
GetSheetViewAfter(i) ==
  IF i < 0 THEN (IF i < -Len(views) THEN None
                 ELSE IF i = -1 THEN Len(views) ELSE Len(views) + i + 2)
  ELSE IF i >= Len(views) THEN None ELSE i + 1

\* the view at index i, counted back from the last when it is negative
GetSheetView(i) ==
  IF i < 0 THEN (IF i < -Len(views) THEN None ELSE Len(views) + i + 1)
  ELSE IF i >= Len(views) THEN None ELSE i + 1

InZoomRange(z) == z >= 10 /\ z <= 400

SetSheetViewOption(view, o, v) ==
  IF o = "ZoomScale" /\ ~InZoomRange(v) THEN view ELSE [view EXCEPT ![o] = v]

GetSheetViewOption(view, o) == IF o \in PointerOptions THEN DefaultTrue(view[o]) ELSE view[o]

\* an index out of range is an error
WithViewOption(i, o, v) ==
  IF GetSheetView(i) = None THEN views
  ELSE [views EXCEPT ![GetSheetView(i)] = SetSheetViewOption(@, o, v)]

SetSheetViewOptions(i, o, v) ==
  /\ views' = WithViewOption(i, o, v)
  /\ UNCHANGED <<pr, page, headerFooter, protection, objects, validations>>

\* the pane goes to the last view; on a sheet without views the index is out
\* of range and the call panics
SetPanes(freeze, split, panes) ==
  /\ views # << >>
  /\ views' = [views EXCEPT ![Len(views)].Pane =
                               IF freeze THEN "frozen" ELSE IF split THEN "split" ELSE None,
                             ![Len(views)].Selection = panes]
  /\ UNCHANGED <<pr, page, headerFooter, protection, objects, validations>>

-----------------------------------------------------------------------------
(* Page layout, header and footer, protection.                             *)

WithPageLayout(o, v) ==
  [(IF page = None THEN [Orientation |-> "", PaperSize |-> 0] ELSE page) EXCEPT ![o] = v]

SetPageLayout(o, v) ==
  /\ page' = WithPageLayout(o, v)
  /\ UNCHANGED <<views, pr, headerFooter, protection, objects, validations>>

GetPageLayout(p, o) ==
  IF o = "Orientation" THEN IF p = None THEN "portrait"
                            ELSE IF p.Orientation = "" THEN "portrait" ELSE p.Orientation
  ELSE IF p = None THEN 1 ELSE IF p.PaperSize = 0 THEN 1 ELSE p.PaperSize

\* the loop over the fields of the settings stops before the last
CheckedFields == HeaderFields \ {"FirstHeader"}

SetHeaderFooter(settings) ==
  /\ IF settings = None THEN headerFooter' = None
     ELSE IF \E field \in CheckedFields : settings[field] >= 255 THEN UNCHANGED headerFooter
     ELSE headerFooter' = settings
  /\ UNCHANGED <<views, pr, page, protection, objects, validations>>

ProtectSheet(password) ==
  /\ protection' = IF password THEN "password" ELSE "open"
  /\ UNCHANGED <<views, pr, page, headerFooter, objects, validations>>

UnprotectSheet ==
  /\ protection' = None
  /\ UNCHANGED <<views, pr, page, headerFooter, objects, validations>>

-----------------------------------------------------------------------------
(* Data validations.                                                       *)

FormulaStrLen == 257   \* 255 characters and 2 quotes
TagsLen == 21          \* <formula1></formula1>

NewDataValidation ==
  /\ Len(objects) < MaxObjects
  /\ objects' = Append(objects, [Type |-> "", Operator |-> "", Formula1 |-> NoFormula,
                                 Formula2 |-> NoFormula, Sqref |-> 0,
                                 ShowErrorMessage |-> FALSE, ShowInputMessage |-> FALSE,
                                 held |-> TRUE])
  /\ UNCHANGED <<views, pr, page, headerFooter, protection, validations>>

\* a method of the object k: what it makes of it
Change(k, dd) ==
  /\ objects' = [objects EXCEPT ![k] = dd]
  /\ UNCHANGED <<views, pr, page, headerFooter, protection, validations>>

SetError(k) == Change(k, [objects[k] EXCEPT !.ShowErrorMessage = TRUE])
SetInput(k) == Change(k, [objects[k] EXCEPT !.ShowInputMessage = TRUE])

\* mutant: the length is that of the keys, without the quotes
DropListFitsUnquoted(joined) == FormulaStrLen >= joined

DropListFits(joined) == FormulaStrLen >= joined + 2

SetDropList(k, joined) ==
  /\ DropListFits(joined)
  /\ Change(k, [objects[k] EXCEPT
                  !.Formula1 = [els |-> << "formula1" >>, len |-> joined + 2 + TagsLen],
                  !.Type = "list"])

\* the lengths checked are those of the formulas it replaces
SetRange(k) ==
  /\ objects[k].Formula1.len <= FormulaStrLen + TagsLen
  /\ objects[k].Formula2.len <= FormulaStrLen + TagsLen
  /\ Change(k, [objects[k] EXCEPT
                  !.Formula1 = [els |-> << "formula1" >>, len |-> TagsLen + 1],
                  !.Formula2 = [els |-> << "formula2" >>, len |-> TagsLen + 1],
                  !.Type = "whole", !.Operator = "between"])

\* the reference is written without an element around it
SetSqrefDropList(k) ==
  Change(k, [objects[k] EXCEPT !.Formula1 = [els |-> << "text" >>, len |-> 5],
                               !.Type = "list"])

SetSqref(k) == objects[k].Sqref < 1 /\ Change(k, [objects[k] EXCEPT !.Sqref = @ + 1])

AddDataValidation(k) ==
  /\ Len(validations.list) < MaxObjects
  /\ validations' = [list |-> Append(validations.list, k),
                     Count |-> Len(validations.list) + 1]
  /\ UNCHANGED <<views, pr, page, headerFooter, protection, objects>>

\* what the file says: both formulas are the inner XML, one after the other
Written(dd) == dd.Formula1.els \o dd.Formula2.els

\* the file is read again: each entry is an object of its own that nobody
\* holds, with all its inner XML in the first formula
Reopen ==
  /\ objects' = [i \in 1..Len(validations.list) |->
                   LET dd == objects[validations.list[i]]
                   IN  [dd EXCEPT !.Formula1 = [els |-> Written(dd),
                                                len |-> dd.Formula1.len + dd.Formula2.len],
                                  !.Formula2 = NoFormula, !.held = FALSE]]
  /\ validations' = [validations EXCEPT !.list = [i \in 1..Len(@) |-> i]]
  /\ UNCHANGED <<views, pr, page, headerFooter, protection>>

-----------------------------------------------------------------------------
\* one field of the settings is long
Headers(fields) ==
  {[f \in HeaderFields |-> IF f = field THEN n ELSE 0] : field \in fields, n \in Lengths}

SetOptions ==
  \/ \E o \in PrOptions : \E v \in PrValues(o) : SetSheetPrOptions(o, v)
  \/ \E i \in Indices, o \in ViewOptions : \E v \in ViewValues(o) : SetSheetViewOptions(i, o, v)
  \/ \E freeze, split \in BOOLEAN, panes \in {0, 1} : SetPanes(freeze, split, panes)
  \/ \E v \in {"portrait", "landscape"} : SetPageLayout("Orientation", v)
  \/ \E v \in Sizes : SetPageLayout("PaperSize", v)
  \/ \E password \in BOOLEAN : ProtectSheet(password)
  \/ UnprotectSheet

Validate(k) ==
  \/ SetError(k) \/ SetInput(k) \/ SetRange(k) \/ SetSqref(k)
  \/ \E joined \in Lengths : SetDropList(k, joined)
  \/ AddDataValidation(k)

Held == {k \in 1..Len(objects) : objects[k].held}

Next == \/ SetOptions
        \/ \E s \in Headers(HeaderFields \ {"FirstHeader"}) \cup {None} : SetHeaderFooter(s)
        \/ NewDataValidation
        \/ \E k \in Held : Validate(k)
        \/ Reopen

Spec == Init /\ [][Next]_vars

SpecFirstHeader ==
  Init /\ [][\E s \in Headers(HeaderFields) : SetHeaderFooter(s)]_vars

SpecSource ==
  Init /\ [][\/ NewDataValidation
             \/ \E k \in Held : SetSqrefDropList(k) \/ AddDataValidation(k)]_vars

-----------------------------------------------------------------------------
(* Properties.                                                             *)

PrReads(p) == [o \in PrOptions |-> GetSheetPrOption(p, o)]
ViewReads(vs) == [i \in 1..Len(vs) |->
                    [o \in ViewOptions |-> GetSheetViewOption(vs[i], o)]]
PageReads(p) == [o \in {"Orientation", "PaperSize"} |-> GetPageLayout(p, o)]

\* the view a client means: the first is 0, the last is also -1
Means(i, k) == i = k - 1 \/ i = k - 1 - Len(views)

\* Whatever was set before, a getter answers with what its setter is given now
\* and every other getter with what it answered: options that share a
\* structure, views counted from either end, scales out of range, defaults of
\* structures that are missing.
ReadsBack ==
  /\ \A o \in PrOptions : \A v \in PrValues(o) :
       PrReads(WithPrOption(o, v)) = [PrReads(pr) EXCEPT ![o] = v]
  /\ \A i \in Indices, o \in ViewOptions : \A v \in ViewValues(o) :
       ViewReads(WithViewOption(i, o, v)) =
         [k \in 1..Len(views) |->
            IF Means(i, k) /\ (o = "ZoomScale" => v >= 10 /\ v <= 400)
            THEN [ViewReads(views)[k] EXCEPT ![o] = v]
            ELSE ViewReads(views)[k]]
  /\ \A v \in {"portrait", "landscape"} :
       PageReads(WithPageLayout("Orientation", v)) =
         [PageReads(page) EXCEPT !["Orientation"] = v]
  /\ \A v \in Sizes :
       PageReads(WithPageLayout("PaperSize", v)) = [PageReads(page) EXCEPT !["PaperSize"] = v]

\* No header or footer of a sheet is as long as 255 characters, which
\* SetHeaderFooter refuses.
HeadersFit == headerFooter # None => \A f \in HeaderFields : headerFooter[f] < 255

\* the length of the keys of a drop list: what is written without the tags,
\* the quotes and the number of a second formula
KeysLen(dd) == dd.Formula1.len + dd.Formula2.len - 2
               - IF Len(Written(dd)) = 2 THEN 2 * TagsLen + 1 ELSE TagsLen

\* What the file says of a data validation is a first formula and perhaps a
\* second, in that order: two numbers for a range, and for a drop list keys of
\* at most 255 characters, whether or not a range was set on the object before.
\* So it is in whichever order SetRange, SetDropList, SetError, SetInput and
\* SetSqref are called, before and after AddDataValidation, and the file is
\* read and saved again. SetSqrefDropList is not among the calls: what it
\* writes is no formula at all (SourceWritten).
ValidationsWhole ==
  \A i \in 1..Len(validations.list) :
    LET dd == objects[validations.list[i]]
    IN  /\ Written(dd) \in {<< >>, << "formula1" >>, << "formula1", "formula2" >>}
        /\ dd.Type = "whole" => /\ Len(Written(dd)) = 2
                                /\ dd.Formula1.len + dd.Formula2.len = 2 * (TagsLen + 1)
        /\ dd.Type = "list" => Len(Written(dd)) >= 1 /\ KeysLen(dd) <= 255

\* A drop down list has the formula its choices come from.
SourceWritten ==
  \A i \in 1..Len(validations.list) :
    objects[validations.list[i]].Type = "list" =>
      "formula1" \in {Written(objects[validations.list[i]])[j] :
                        j \in 1..Len(Written(objects[validations.list[i]]))}
=============================================================================
