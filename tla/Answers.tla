------------------------------ MODULE Answers ------------------------------
(***************************************************************************)
(* The functions of the package that keep no state: cell names, dates, the *)
(* password hash, filter criteria and the contents of a chart part.  Each  *)
(* step asks one question; the invariants compare the answer of the code's *)
(* algorithm with a definition of what the answer means.                   *)
(***************************************************************************)
EXTENDS Names, Dates, Criteria, Charts

CONSTANTS Columns,      \* column numbers
          Strings,      \* spellings of cell names, good and bad
          Times,        \* the times written and read, in eighths of a day
          ExcelTimes,   \* the numbers read from a file, in eighths of a day
          Passwords,    \* as sequences of bytes
          Expressions,  \* filter expressions
          Formats       \* chart formats

VARIABLE call           \* the question asked, with its arguments

Idle == [op |-> "idle"]

Init == call = Idle

Ask(q) == call = Idle /\ call' = q

AskColumn   == \E n \in Columns     : Ask([op |-> "column", n |-> n])
AskCell     == \E s \in Strings     : Ask([op |-> "cell", s |-> s])
AskTime     == \E t \in Times       : Ask([op |-> "time", t |-> t])
AskRead     == \E x \in ExcelTimes, d \in BOOLEAN :
                                      Ask([op |-> "read", x |-> x, date1904 |-> d])
AskPassword == \E p \in Passwords   : Ask([op |-> "password", p |-> p])
AskFilter   == \E e \in Expressions, h, v \in 1..3, c \in 0..4 :
                 Ask([op |-> "filter", e |-> e, h |-> h, v |-> v, c |-> c])
AskChart    == \E fs \in Formats    : Ask([op |-> "chart", fs |-> fs])
Answered    == call # Idle /\ call' = Idle

Next == AskColumn \/ AskCell \/ AskTime \/ AskRead \/ AskPassword
          \/ AskFilter \/ AskChart \/ Answered

Spec == Init /\ [][Next]_call

-----------------------------------------------------------------------------
(* Names.                                                                  *)

UpperCase(s) == [i \in 1..Len(s) |-> IF Lower(s[i]) THEN s[i] - 32 ELSE s[i]]
LowerCase(s) == [i \in 1..Len(s) |-> IF Upper(s[i]) THEN s[i] + 32 ELSE s[i]]

\* shorter names first, names of one length in the order of the alphabet
NameBefore(a, b) ==
  \/ Len(a) < Len(b)
  \/ /\ Len(a) = Len(b)
     /\ \E i \in 1..Len(a) : a[i] < b[i] /\ SubSeq(a, 1, i - 1) = SubSeq(b, 1, i - 1)

(* Column numbers and column names are two spellings of one order: the     *)
(* name of a number, in either case, is read back as that number, and the  *)
(* next number has the next name (ColumnNumberToName, ColumnNameToNumber). *)
ColumnsAgree ==
  call.op = "column" =>
    LET name == ColumnNumberToName(call.n)[1]
    IN  /\ ColumnNameToNumber(name) = <<call.n>>
        /\ ColumnNameToNumber(LowerCase(name)) = <<call.n>>
        /\ NameBefore(name, ColumnNumberToName(call.n + 1)[1])

\* letters, then a number above 0 that may carry a plus sign
IsCellName(s) ==
  \E i \in 1..Len(s) - 1 :
    /\ \A k \in 1..i : Alpha(s[k])
    /\ LET d == IF s[i + 1] = 43 THEN i + 2 ELSE i + 1
       IN  /\ d <= Len(s)
           /\ \A k \in d..Len(s) : Digit(s[k])
           /\ \E k \in d..Len(s) : s[k] # 48

(* A string is read as a cell exactly when it is letters and a positive    *)
(* number, and the cell it is read as has one name: spelling the           *)
(* coordinates, or joining the split parts, gives the same name, which is  *)
(* read as the same cell (CellNameToCoordinates, CoordinatesToCellName,    *)
(* SplitCellName, JoinCellName).                                           *)
CellsAgree ==
  call.op = "cell" =>
    LET at == CellNameToCoordinates(call.s)
    IN  /\ (at # None) = IsCellName(call.s)
        /\ at # None =>
             LET name  == CoordinatesToCellName(at[1], at[2])
                 split == SplitCellName(call.s)[1]
             IN  /\ JoinCellName(split.col, split.row) = name
                 /\ CellNameToCoordinates(name[1]) = at

-----------------------------------------------------------------------------
(* Dates.                                                                  *)

(* A time written into a cell and read from it is that time, whatever the  *)
(* number of stretches the two loops cut it into (timeToExcelTime,         *)
(* timeFromExcelTime).                                                     *)
TimesReadBack ==
  call.op = "time" => TimeFromExcelTime(TimeToExcelTime(call.t), FALSE) = call.t

(* The numbers on either side of 61, which two algorithms convert, count   *)
(* days from one epoch: the Julian path and the loop of durations give     *)
(* times in the same order and at the same distances (timeFromExcelTime).  *)
NumbersCountDays ==
  call.op = "read" =>
    TimeFromExcelTime(call.x, call.date1904) =
      (IF call.date1904 THEN Date(1904, 1, 1) ELSE Date(1899, 12, 30)) + call.x

-----------------------------------------------------------------------------
(* Passwords.                                                              *)

\* rotating 15 bits to the left is multiplying modulo 2^15 - 1
Rotated15(v, p) == (v * 2^(p % 15)) % (2^15 - 1)

(* The hash is the exclusive or of the characters, each rotated within 15  *)
(* bits by its position, of the length and of a constant, and it fits in   *)
(* 16 bits (the comment on genSheetPasswd).                                *)
HashRotates ==
  call.op = "password" =>
    /\ GenSheetPasswd(call.p) =
         (FoldLeftDomain(LAMBDA h, i : h ^^ Rotated15(call.p[i], i), 0, call.p)
            ^^ (Len(call.p) ^^ 52811))
    /\ GenSheetPasswd(call.p) < 2^16

-----------------------------------------------------------------------------
(* Criteria.  A column's cells are empty, hold one of the numbers, a text  *)
(* one of the patterns matches, or the word blanks.                        *)

Contents == {"empty", "blanks"} \cup Numbers \cup Patterns

Rank(n) == CHOOSE i \in 1..Len(Ordered) : Ordered[i] = n

Compares(op, content, token) ==
  /\ {content, token} \subseteq Numbers
  /\ CASE op \in {"<", "lessThan"}            -> Rank(content) < Rank(token)
       [] op \in {"<=", "lessThanOrEqual"}    -> Rank(content) <= Rank(token)
       [] op \in {">", "greaterThan"}         -> Rank(content) > Rank(token)
       [] op \in {">=", "greaterThanOrEqual"} -> Rank(content) >= Rank(token)

\* what the client asks: the documentation of AutoFilter
Matches(content, token) ==
  CASE token = "blanks"    -> content = "empty"
    [] token = "nonblanks" -> content # "empty"
    [] OTHER               -> content = token

Asked(op, token, content) ==
  CASE op = "=="   -> Matches(content, token)
    [] op = "!="   -> ~ Matches(content, token)
    [] OTHER       -> Compares(op, content, token)

ExpressionKeeps(e, content) ==
  IF "con" \notin DOMAIN e THEN Asked(e.op1, e.val1, content)
  ELSE IF e.con = "or"
       THEN Asked(e.op1, e.val1, content) \/ Asked(e.op2, e.val2, content)
       ELSE Asked(e.op1, e.val1, content) /\ Asked(e.op2, e.val2, content)

\* what the elements say: a filter lists texts, match characters excepted, and
\* its list has an attribute for the empty cells; a custom filter compares,
\* a single space standing for the empty cells
Says(val, content) == content = IF val = " " THEN "empty" ELSE val

CustomKeeps(c, content) ==
  CASE c.operator = "equal"    -> Says(c.val, content)
    [] c.operator = "notEqual" -> ~ Says(c.val, content)
    [] OTHER                   -> Compares(c.operator, content, c.val)

CriteriaKeep(c, content) ==
  IF "filters" \in DOMAIN c
  THEN \/ c.blank /\ content = "empty"
       \/ \E i \in 1..Len(c.filters) : c.filters[i] \notin Patterns /\ content = c.filters[i]
  ELSE IF c.and THEN \A i \in 1..Len(c.custom) : CustomKeeps(c.custom[i], content)
       ELSE \E i \in 1..Len(c.custom) : CustomKeeps(c.custom[i], content)

\* a condition that holds of the empty cells only
AsksBlanks(e) ==
  LET conditions == {<<e.op1, e.val1>>}
                      \cup (IF "con" \in DOMAIN e THEN {<<e.op2, e.val2>>} ELSE {})
  IN  conditions \cap {<<"==", "blanks">>, <<"!=", "nonblanks">>} # {}

(* The criteria written keep the rows the expression describes, on a       *)
(* column of the area, and a refused expression writes none (autoFilter,   *)
(* parseFilterExpression, parseFilterTokens, writeAutoFilter).  Not among  *)
(* them are the expressions that ask for the empty cells: BlanksMean.      *)
FiltersMean ==
  call.op = "filter" =>
    LET filter == AutoFilter(call.h, call.v, call.c, call.e)
    IN  /\ filter.from <= filter.to
        /\ filter.colID # -1 => /\ filter.from + filter.colID = call.c
                                /\ call.c \in filter.from..filter.to
        /\ filter.criteria # Refused /\ ~AsksBlanks(call.e) =>
             \A content \in Contents :
               CriteriaKeep(filter.criteria[1], content) <=> ExpressionKeeps(call.e, content)

(* "Filtering of blank or non-blank data can be achieved by using a value  *)
(* of Blanks or NonBlanks in the expression" (the comment of AutoFilter):  *)
(* an expression that asks for the empty cells keeps them.                 *)
BlanksMean ==
  call.op = "filter" =>
    LET filter == AutoFilter(call.h, call.v, call.c, call.e)
    IN  filter.criteria # Refused /\ AsksBlanks(call.e) =>
          (CriteriaKeep(filter.criteria[1], "empty") <=> ExpressionKeeps(call.e, "empty"))

-----------------------------------------------------------------------------
(* Charts.                                                                 *)

Axes(plot) == {a[1] : a \in {plot.catAx, plot.valAx} \ {Absent}}

(* Every axis a plot refers to is drawn, crosses the other one and lies    *)
(* across it; every axis drawn is referred to; only the round charts have  *)
(* none (AxID, CrossAx of the draw functions).                             *)
AxesPaired ==
  call.op = "chart" =>
    LET plot == AddChart(call.fs).plotArea
    IN  /\ {a.axID : a \in Axes(plot)} = {plot.axIDs[i] : i \in 1..Len(plot.axIDs)}
        /\ \A a \in Axes(plot) : \E b \in Axes(plot) \ {a} :
             a.crossAx = b.axID /\ b.crossAx = a.axID
             /\ (a.pos \in {"l", "r"}) # (b.pos \in {"l", "r"})
        /\ (Axes(plot) = {}) <=> plot.element \in {"doughnutChart", "pieChart", "pie3DChart"}

\* the colours a theme has
ThemeColours == {<<"accent", i>> : i \in 1..6} \cup {<<"lt", i>> : i \in 1..2}

(* Every series carries its categories and its values once, in the pair of *)
(* elements its kind of chart has, under its own index, in colours the     *)
(* theme has (drawChartSeries and the per-type tables it goes through).    *)
SeriesWhole ==
  call.op = "chart" =>
    LET plot == AddChart(call.fs).plotArea
        Pair(s) == IF plot.element = "scatterChart" THEN <<s.xVal, s.yVal>> ELSE <<s.cat, s.val>>
        Other(s) == IF plot.element = "scatterChart" THEN <<s.cat, s.val>> ELSE <<s.xVal, s.yVal>>
    IN  /\ Len(plot.ser) = Len(call.fs.series)
        /\ \A i \in 1..Len(plot.ser) :
             LET s == plot.ser[i]
             IN  /\ Pair(s) = <<<<call.fs.series[i].categories>>, <<call.fs.series[i].values>>>>
                 /\ Other(s) = <<Absent, Absent>>
                 /\ \A j \in 1..Len(plot.ser) : plot.ser[j].idx = s.idx => j = i
                 /\ \A d \in {s.dPt} \ {Absent} :
                      {d[1].fill, d[1].line, d[1].contour} \subseteq ThemeColours
                 /\ s.marker = Absent \/ s.marker[1] \in ThemeColours
                 /\ plot.element = "lineChart" => s.spPr[1] \in ThemeColours

(* The tables agree on each type: shares of a whole are shown as percent   *)
(* and nothing else is, only charts with depth are turned, bars and only   *)
(* bars have a direction (the tables of chart.go indexed by chart type).   *)
TablesAgree ==
  call.op = "chart" =>
    LET chart == AddChart(call.fs)
        plot  == chart.plotArea
    IN  /\ plot.valAx # Absent =>
             ((plot.valAx[1].numFmt = "0%") <=> (plot.grouping = <<"percentStacked">>))
        /\ (chart.view3D.rotX # 0) <=>
             plot.element \in {"area3DChart", "bar3DChart", "pie3DChart"}
        /\ (chart.view3D.rotY # 0 /\ chart.view3D.rAngAx # 0) <=>
             plot.element \in {"area3DChart", "bar3DChart"}
        /\ (plot.barDir # Absent) <=> plot.element \in {"barChart", "bar3DChart"}
        /\ plot.element = "barChart" =>
             ((plot.overlap # Absent) <=> (plot.grouping # <<"clustered">>))
============================================================================
