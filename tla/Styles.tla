------------------------------- MODULE Styles -------------------------------
(***************************************************************************)
(* The style sheet of a workbook: registries of number formats, fonts,     *)
(* fills, borders and cell formats that refer to each other by index, the  *)
(* differential formats, and the conditional formats of a worksheet that   *)
(* refer to those.                                                         *)
(*                                                                         *)
(* A registry is a list with a Count of its own, as in the file, and an    *)
(* index counts from 0.  Colours, names and texts are left out: a font is  *)
(* its size, family and underline, a fill its kind and how it is made, a   *)
(* number format code what it was asked for.  Caller requests are records  *)
(* like the formatStyle that parseFormatStyleSet makes.                    *)
(***************************************************************************)
EXTENDS Integers, Sequences, FiniteSets

CONSTANTS Requests,      \* the styles a caller may ask for
          Conditions,    \* the lists of conditional rules a caller may pass
          BuiltIn,       \* builtInNumFmt: the numbers of built-in formats
          Currency,      \* currencyNumFmt
          Languages,     \* langNumFmt: the numbers each language has
          MaxStyles,     \* bound on the styles made
          SheetFiles     \* the style sheets to start with

\* the first number for a format of the sheet's own
FirstCustom == 164

ASSUME StylesAssumption ==
  /\ BuiltIn \subseteq 0..(FirstCustom - 1) /\ 0 \in BuiltIn
  /\ Currency \subseteq Nat /\ Currency \cap BuiltIn = {}
  /\ MaxStyles \in Nat

VARIABLES styles,   \* the parsed xl/styles.xml
          made,     \* what NewStyle returned and was asked for, in order
          dmade,    \* the same of NewConditionalStyle
          formats   \* ConditionalFormatting of the worksheet, with the requests

vars == <<styles, made, dmade, formats>>

\* a string that was not given; an optional value is a list of at most one
None == "none"

Sides == {"left", "right", "top", "bottom", "diagonalUp", "diagonalDown"}
Underlines == {"", "single", "double"}

Font == [size : Nat, family : {"Calibri", "named"}, underline : Underlines]
Fill == [kind : {"gradient", "path", "pattern", "empty"}, how : Nat, fg : BOOLEAN]
Border == [{"left", "right", "top", "bottom", "diagonal"} -> 0..13]

\* what templateStyles and the files have: every Count is the length of its
\* list (indices are taken from the Count), every index of a cell format is
\* that of an entry
IsRegistry(r) == /\ r.list \in Seq({r.list[i] : i \in 1..Len(r.list)})
                 /\ r.Count = Len(r.list)

IsSheet(s) ==
  /\ \A k \in {"fonts", "fills", "borders", "cellXfs", "dxfs"} : IsRegistry(s[k])
  /\ \A i \in 1..Len(s.cellXfs.list) :
       LET xf == s.cellXfs.list[i]
       IN  /\ xf.fontID \in 0..s.fonts.Count - 1
           /\ xf.fillID \in 0..s.fills.Count - 1
           /\ xf.borderID \in 0..s.borders.Count - 1
           /\ xf.numFmtID \in Nat /\ Len(xf.alignment) <= 1 /\ Len(xf.protection) <= 1
  /\ \A i \in 1..Len(s.fonts.list) : s.fonts.list[i] \in Font
  /\ \A i \in 1..Len(s.fills.list) : s.fills.list[i] \in Fill
  /\ \A i \in 1..Len(s.borders.list) : s.borders.list[i].lines \in Border
  /\ \A i \in 1..Len(s.numFmts) : s.numFmts[i].id \in Nat

\* there is a first font and a first fill; the numbers of the sheet's own
\* formats begin at FirstCustom and grow
IsUsable(s) ==
  /\ DOMAIN s = {"numFmts", "fonts", "fills", "borders", "cellXfs", "dxfs"}
  /\ s.fonts.Count >= 1 /\ s.fills.Count >= 1
  /\ s.numFmts \in Seq({s.numFmts[i] : i \in 1..Len(s.numFmts)})
  /\ \A i \in 1..Len(s.numFmts) : s.numFmts[i].id >= FirstCustom
  /\ \A i, j \in 1..Len(s.numFmts) : i < j => s.numFmts[i].id < s.numFmts[j].id

ASSUME SheetFilesAssumption == \A s \in SheetFiles : IsSheet(s) /\ IsUsable(s)

\* parseFormatStyleSet makes at most one font, alignment and protection
ASSUME RequestsAssumption ==
  /\ \A r \in Requests :
       /\ r.font \in Seq([size : Nat, family : STRING, underline : STRING]) /\ Len(r.font) <= 1
       /\ r.border \in Seq([side : Sides, style : Int])
       /\ Len(r.alignment) <= 1 /\ Len(r.protection) <= 1
  /\ Conditions \subseteq Seq([type : STRING, criteria : STRING, format : Nat])

\* the shape of the state
TypeOK == IsSheet(styles)

-----------------------------------------------------------------------------
(* From a request to the entries of the registries.                        *)

SetFont(r) ==
  [size |-> IF r.size < 1 THEN 11 ELSE r.size,
   family |-> IF r.family = "" THEN "Calibri" ELSE "named",
   underline |-> IF r.underline \in {"single", "double"} THEN r.underline ELSE ""]

\* a request out of range makes a fill with nothing in it, one of no known
\* type makes none
SetFills(r, fg) ==
  IF r.type \notin {"gradient", "pattern"} THEN << >>
  ELSE IF r.type = "gradient" /\ r.colors = 2
       THEN <<[kind |-> IF r.shading \in 4..5 THEN "path" ELSE "gradient",
               how |-> IF r.shading \in 0..5 THEN r.shading ELSE 1, fg |-> TRUE]>>
  ELSE IF r.type = "pattern" /\ r.pattern \in 0..18 /\ r.colors >= 1
       THEN <<[kind |-> "pattern", how |-> r.pattern, fg |-> fg]>>
  ELSE <<[kind |-> "empty", how |-> 0, fg |-> TRUE]>>

\* of the lines for a side the last one with a known style counts; the two
\* diagonals have one style between them
SetBorders(lines) ==
  LET valid == {i \in 1..Len(lines) : lines[i].style \in 0..13}
      on(sides) == {i \in valid : lines[i].side \in sides}
      last(sides) == IF on(sides) = {} THEN 0
                     ELSE lines[CHOOSE i \in on(sides) : \A j \in on(sides) : j <= i].style
  IN  [lines |-> [s \in {"left", "right", "top", "bottom", "diagonal"} |->
                    IF s = "diagonal" THEN last({"diagonalUp", "diagonalDown"}) ELSE last({s})],
       up |-> on({"diagonalUp"}) # {}, down |-> on({"diagonalDown"}) # {}]

\* mutant: every custom format gets the first number
FirstNumFmtID(s, first) == first

\* the number after that of the last format in the list; the list is there
\* when it has a format, an element without one would fail there and is in none
\* of the files
NextNumFmtID(s, first) ==
  IF s.numFmts = << >> THEN first ELSE s.numFmts[Len(s.numFmts)].id + 1

DecimalPlaces(r) == IF r.places < 0 \/ r.places > 30 THEN 2 ELSE r.places

\* setCustomNumFmt, a currency of setNumFmt, setLangNumFmt: a new format with
\* its code, << >> when a number is used as it is
NewNumFmt(s, r) ==
  IF r.custom # None THEN <<[id |-> NextNumFmtID(s, FirstCustom), code |-> <<"custom", r.custom>>]>>
  ELSE IF r.numFmt \in BuiltIn THEN << >>
  ELSE IF r.numFmt \in Currency
       THEN <<[id |-> NextNumFmtID(s, FirstCustom),
               code |-> <<"currency", r.numFmt, DecimalPlaces(r), r.negRed>>]>>
  ELSE IF r.lang \in DOMAIN Languages /\ r.numFmt \in Languages[r.lang]
       THEN <<[id |-> NextNumFmtID(s, r.numFmt), code |-> <<"lang", r.lang, r.numFmt>>]>>
  ELSE << >>

NumFmtID(s, r) ==
  IF NewNumFmt(s, r) # << >> THEN NewNumFmt(s, r)[1].id
  ELSE IF r.numFmt \in BuiltIn THEN r.numFmt ELSE 0

\* mutant: the list grows and its Count does not
AddUncounted(registry, x) == [registry EXCEPT !.list = Append(@, x)]

Add(registry, x) == [Count |-> registry.Count + 1, list |-> Append(registry.list, x)]

\* the style sheet with the entry, and the index of the entry
AddedFont(s, r) ==
  IF r.font = << >> THEN <<s, 0>>
  ELSE LET t == [s EXCEPT !.fonts = Add(@, SetFont(r.font[1]))] IN <<t, t.fonts.Count - 1>>

AddedFill(s, r) ==
  LET fill == SetFills(r.fill, TRUE)
  IN  IF fill = << >> THEN <<s, 0>>
      ELSE LET t == [s EXCEPT !.fills = Add(@, fill[1])] IN <<t, t.fills.Count - 1>>

SetCellXfs(s, fontID, numFmtID, fillID, borderID, r) ==
  [s EXCEPT !.cellXfs =
     Add(@, [fontID |-> fontID, numFmtID |-> numFmtID, fillID |-> fillID, borderID |-> borderID,
             applyFont |-> fontID # 0, applyNumberFormat |-> numFmtID # 0,
             alignment |-> r.alignment, protection |-> r.protection])]

\* the body of NewStyle, on a style sheet
WithStyle(s, r) ==
  LET numbered == [s EXCEPT !.numFmts = @ \o NewNumFmt(s, r)]
      font     == AddedFont(numbered, r)
      bordered == [font[1] EXCEPT !.borders = Add(@, SetBorders(r.border))]
      fill     == AddedFill(bordered, r)
  IN  SetCellXfs(fill[1], font[2], NumFmtID(s, r), fill[2], bordered.borders.Count - 1, r)

-----------------------------------------------------------------------------
(* Conditional formats.                                                    *)

\* validType and drawContFmtFunc together: the rules that are drawn
Drawn == [cell |-> "cellIs", top |-> "top10", bottom |-> "top10", average |-> "aboveAverage",
          duplicate |-> "duplicateValues", unique |-> "uniqueValues", formula |-> "expression",
          scale2 |-> "colorScale", scale3 |-> "colorScale", data_bar |-> "dataBar"]

\* criteriaType has more names for these
Operators == {"between", "notBetween", "equal", "notEqual", "greaterThan", "lessThan",
              "greaterThanOrEqual", "lessThanOrEqual", "containsText", "today"}

\* how many formulas, values or colours drawCondFmtCellIs, drawConfFmtExp,
\* drawCondFmtColorScale and drawCondFmtDataBar write
Operands(type, criteria) ==
  CASE type = "cell" /\ criteria \in {"between", "notBetween"} -> 2
    [] type = "cell" /\ criteria \in {"equal", "notEqual", "greaterThan", "lessThan"} -> 1
    [] type \in {"formula", "data_bar"} -> 1
    [] type = "scale2" -> 2
    [] type = "scale3" -> 3
    [] OTHER -> 0

IsDrawn(q) == q.type \in DOMAIN Drawn /\ (q.criteria \in Operators \/ q.type = "formula")

\* colour scales and bars have no format of their own
DrawRule(p, q) ==
  [priority |-> p, type |-> Drawn[q.type],
   operator |-> IF q.type = "cell" THEN q.criteria ELSE None,
   operands |-> Operands(q.type, q.criteria),
   dxf |-> IF q.type \in {"scale2", "scale3", "data_bar"} THEN << >> ELSE <<q.format>>]

\* mutant: the priority is the number of rules drawn so far
DrawRulesCounted(qs) ==
  LET places == {p \in 1..Len(qs) : IsDrawn(qs[p])}
      rank(p) == Cardinality({x \in places : x <= p})
  IN  [k \in 1..Cardinality(places) |->
         LET p == CHOOSE p \in places : rank(p) = k IN DrawRule(k, qs[p])]

\* rules of a type or with criteria unknown are left out, the priority is the
\* place in the request
DrawRules(qs) ==
  LET places == {p \in 1..Len(qs) : IsDrawn(qs[p])}
      rank(p) == Cardinality({x \in places : x <= p})
  IN  [k \in 1..Cardinality(places) |->
         LET p == CHOOSE p \in places : rank(p) = k IN DrawRule(p, qs[p])]

-----------------------------------------------------------------------------
(* The calls.                                                              *)

NewStyle(r) ==
  LET s == WithStyle(styles, r)
  IN  /\ styles' = s
      /\ made' = Append(made, [id |-> s.cellXfs.Count - 1, request |-> r])
      /\ UNCHANGED <<dmade, formats>>

DxfOf(r) == [fill |-> SetFills(r.fill, FALSE), border |-> SetBorders(r.border),
             alignment |-> r.alignment,
             font |-> [i \in 1..Len(r.font) |-> SetFont(r.font[i])]]

NewConditionalStyle(r) ==
  LET s == [styles EXCEPT !.dxfs = Add(@, DxfOf(r))]
  IN  /\ styles' = s
      /\ dmade' = Append(dmade, [id |-> s.dxfs.Count - 1, request |-> r])
      /\ UNCHANGED <<made, formats>>

\* an element is added even when no rule is drawn
SetConditionalFormat(qs) ==
  /\ formats' = Append(formats, [request |-> qs, rules |-> DrawRules(qs)])
  /\ UNCHANGED <<styles, made, dmade>>

-----------------------------------------------------------------------------
Made == Len(made) + Len(dmade) + Len(formats)

IsLang(r) == r.custom = None /\ r.numFmt \notin BuiltIn \cup Currency

\* a language format is not the first of the sheet's own number formats: it
\* would keep its number, and the next ones could be those of built-in formats
Careful == {r \in Requests : IsLang(r) => styles.numFmts # << >>}

\* rules refer to formats that were made
Referring == {qs \in Conditions : \A p \in 1..Len(qs) :
                qs[p].format \in {dmade[i].id : i \in 1..Len(dmade)}}

Init == styles \in SheetFiles /\ made = << >> /\ dmade = << >> /\ formats = << >>
Next == /\ Made < MaxStyles
        /\ \/ \E r \in Careful : NewStyle(r)
           \/ \E r \in Requests : NewConditionalStyle(r)
           \/ \E qs \in Referring : SetConditionalFormat(qs)
Spec == Init /\ [][Next]_vars

\* the same with language formats first
SpecLang == Init /\ [][Made < MaxStyles /\ \E r \in Requests : NewStyle(r)]_vars

-----------------------------------------------------------------------------
(* Properties.                                                             *)

At(registry, index) == registry.list[index + 1]

\* what a number format stands for: the first entry of that number, or the
\* built-in format
Code(id) ==
  LET found == {i \in 1..Len(styles.numFmts) : styles.numFmts[i].id = id}
  IN  IF found = {} THEN <<"builtin", id>>
      ELSE styles.numFmts[CHOOSE i \in found : \A j \in found : i <= j].code

WantedCode(r) ==
  IF r.custom # None THEN <<"custom", r.custom>>
  ELSE IF r.numFmt \in BuiltIn THEN <<"builtin", r.numFmt>>
  ELSE IF r.numFmt \in Currency THEN <<"currency", r.numFmt, DecimalPlaces(r), r.negRed>>
  ELSE IF r.lang \in DOMAIN Languages /\ r.numFmt \in Languages[r.lang]
       THEN <<"lang", r.lang, r.numFmt>>
  ELSE <<"builtin", 0>>

\* The index NewStyle returned stands for the style that was asked for, then
\* and after every later NewStyle: its number format, font, fill and border are
\* found where the cell format points, and no number format is given a number
\* that means another one to some style.  Two things are taken for granted: a
\* language format is not the first number format of the sheet's own (Careful),
\* and those a file brings are numbered from 164 on, ascending (IsUsable).
StyleMeans ==
  \A i \in 1..Len(made) :
    LET r  == made[i].request
        xf == At(styles.cellXfs, made[i].id)
    IN  /\ Code(xf.numFmtID) = WantedCode(r)
        /\ xf.numFmtID # 0 => xf.applyNumberFormat
        /\ r.font # << >> => xf.applyFont /\ At(styles.fonts, xf.fontID) = SetFont(r.font[1])
        /\ SetFills(r.fill, TRUE) # << >> => <<At(styles.fills, xf.fillID)>> = SetFills(r.fill, TRUE)
        /\ At(styles.borders, xf.borderID) = SetBorders(r.border)
        /\ xf.alignment = r.alignment /\ xf.protection = r.protection

\* A conditional rule of a sheet shows the differential format its request
\* asked for, as NewConditionalStyle made it, whatever was made since and
\* whichever requests before it were left out, and the rules come in the order
\* of their priorities.
RulesApply ==
  \A i \in 1..Len(formats) :
    \A k \in 1..Len(formats[i].rules) :
      LET rule == formats[i].rules[k]
          q    == formats[i].request[rule.priority]
      IN  /\ rule.dxf # << >> =>
               \E j \in 1..Len(dmade) :
                 /\ dmade[j].id = q.format
                 /\ At(styles.dxfs, rule.dxf[1]) = DxfOf(dmade[j].request)
          /\ k > 1 => formats[i].rules[k - 1].priority < rule.priority

\* the criteria the comment of SetConditionalFormat lists for cells
CellCriteria == {"between", "notBetween", "equal", "notEqual", "greaterThan", "lessThan",
                 "greaterThanOrEqual", "lessThanOrEqual"}

\* A rule for the values of cells has the values its criterion compares with:
\* two for "between" and "not between", one for the other criteria that
\* SetConditionalFormat lists.
RulesHaveValues ==
  \A i \in 1..Len(formats) :
    \A k \in 1..Len(formats[i].rules) :
      LET rule == formats[i].rules[k]
      IN  rule.type = "cellIs" /\ rule.operator \in CellCriteria =>
            rule.operands = IF rule.operator \in {"between", "notBetween"} THEN 2 ELSE 1
=============================================================================
