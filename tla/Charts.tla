------------------------------- MODULE Charts -------------------------------
(***************************************************************************)
(* What a chart part holds (chart.go: addChart and the functions that draw *)
(* the plot area).  The 25 chart types are told apart by tables indexed by *)
(* type: one for the function that draws the plot area, one for each       *)
(* attribute, one for each element of a series.  A table that disagrees    *)
(* with another for one type gives a chart no program can draw.            *)
(*                                                                         *)
(* A format is [type, series, xReverse, yReverse]: series is a sequence of *)
(* [categories, values], the others say whether an axis is reversed.  An   *)
(* absent element is Absent.  What is copied from the format (titles,      *)
(* legend, data labels, bounds of an axis) and what is the same in every   *)
(* chart (fonts, line widths, fills, margins) is left out.                 *)
(***************************************************************************)
EXTENDS Integers, Sequences

Absent == << >>
CatID == 754001152
ValID == 753999904

Area2D == {"area", "areaStacked", "areaPercentStacked"}
Area3D == {"area3D", "area3DStacked", "area3DPercentStacked"}
Bar2D  == {"bar", "barStacked", "barPercentStacked"}
Bar3D  == {"bar3DClustered", "bar3DStacked", "bar3DPercentStacked"}
Col2D  == {"col", "colStacked", "colPercentStacked"}
Col3D  == {"col3DClustered", "col3D", "col3DStacked", "col3DPercentStacked"}
BaseTypes == Area2D \cup Area3D \cup Bar2D \cup Bar3D \cup Col2D \cup Col3D
ChartTypes == BaseTypes \cup {"doughnut", "line", "pie", "pie3D", "radar", "scatter"}

Stacked == {"areaStacked", "area3DStacked", "barStacked", "bar3DStacked",
            "colStacked", "col3DStacked"}
PercentStacked == {"areaPercentStacked", "area3DPercentStacked", "barPercentStacked",
                   "bar3DPercentStacked", "colPercentStacked", "col3DPercentStacked"}

-----------------------------------------------------------------------------
(* The tables.                                                             *)

Solid == Area3D \cup Bar3D \cup Col3D

ChartView3D(type) ==
  [rotX   |-> IF type \in Solid THEN 15 ELSE IF type = "pie3D" THEN 30 ELSE 0,
   rotY   |-> IF type \in Solid THEN 20 ELSE 0,
   rAngAx |-> IF type \in Solid THEN 1 ELSE 0]

ChartValAxNumFmtFormatCode(type) == IF type \in PercentStacked THEN "0%" ELSE "General"

\* mutant: one type is missing from the table
PlotAreaChartGroupingShort(type) ==
  CASE type \in Stacked        -> "stacked"
    [] type \in PercentStacked \ {"area3DPercentStacked"} -> "percentStacked"
    [] OTHER                   -> "standard"

PlotAreaChartGrouping(type) ==
  CASE type \in Stacked        -> "stacked"
    [] type \in PercentStacked -> "percentStacked"
    [] type \in {"bar", "bar3DClustered", "col", "col3DClustered"} -> "clustered"
    [] type \in {"area", "area3D", "col3D", "line"} -> "standard"
    [] OTHER                   -> ""

PlotAreaChartBarDir(type) ==
  CASE type \in Bar2D \cup Bar3D -> <<"bar">>
    [] type \in Col2D \cup Col3D -> <<"col">>
    [] OTHER                     -> Absent

Overlap(type) ==
  IF type \in {"colStacked", "barStacked", "barPercentStacked",
               "colPercentStacked", "areaPercentStacked"}
  THEN <<100>> ELSE Absent

-----------------------------------------------------------------------------
(* The series.  k is the index of the series, from 0.                      *)

Accent(k) == <<"accent", k + 1>>
Light(k)  == <<"lt", k + 1>>

DrawChartSeriesSpPr(k, type) ==
  CASE type = "line"    -> <<Accent(k)>>
    [] type = "scatter" -> <<"noFill">>
    [] OTHER            -> Absent

DrawChartSeriesMarker(k, type) == IF type = "scatter" THEN <<Accent(k)>> ELSE Absent

DrawChartSeriesDPt(k, type) ==
  IF type \in {"pie", "pie3D"}
  THEN <<[idx |-> k, fill |-> Accent(k), line |-> Light(k), contour |-> Light(k)]>>
  ELSE Absent

\* mutant: a scatter chart keeps the values element of the other charts
DrawChartSeriesValAlways(s, type) == <<s.values>>

DrawChartSeriesCat(s, type) == IF type = "scatter" THEN Absent ELSE <<s.categories>>
DrawChartSeriesVal(s, type) == IF type = "scatter" THEN Absent ELSE <<s.values>>
DrawChartSeriesXVal(s, type) == IF type = "scatter" THEN <<s.categories>> ELSE Absent
DrawChartSeriesYVal(s, type) == IF type = "scatter" THEN <<s.values>> ELSE Absent

DrawChartSeries(fs) ==
  [i \in 1..Len(fs.series) |->
     LET s == fs.series[i]
         k == i - 1
     IN  [idx    |-> k,
          spPr   |-> DrawChartSeriesSpPr(k, fs.type),
          marker |-> DrawChartSeriesMarker(k, fs.type),
          dPt    |-> DrawChartSeriesDPt(k, fs.type),
          cat    |-> DrawChartSeriesCat(s, fs.type),
          val    |-> DrawChartSeriesVal(s, fs.type),
          xVal   |-> DrawChartSeriesXVal(s, fs.type),
          yVal   |-> DrawChartSeriesYVal(s, fs.type)]]

-----------------------------------------------------------------------------
(* The axes.                                                               *)

CatAxPos(reverse) == IF reverse THEN "t" ELSE "b"
ValAxPos(reverse) == IF reverse THEN "r" ELSE "l"

DrawPlotAreaCatAx(fs) ==
  [axID |-> CatID, crossAx |-> ValID, pos |-> CatAxPos(fs.xReverse), numFmt |-> "General"]

\* mutant: the value axis crosses itself
DrawPlotAreaValAxSelf(fs) ==
  [axID |-> ValID, crossAx |-> ValID, pos |-> ValAxPos(fs.yReverse),
   numFmt |-> ChartValAxNumFmtFormatCode(fs.type)]

DrawPlotAreaValAx(fs) ==
  [axID |-> ValID, crossAx |-> CatID, pos |-> ValAxPos(fs.yReverse),
   numFmt |-> ChartValAxNumFmtFormatCode(fs.type)]

-----------------------------------------------------------------------------
(* The plot area: the element of the kind of chart, and its axes.          *)

Plain(fs, element) ==
  [element |-> element, ser |-> DrawChartSeries(fs),
   barDir |-> Absent, grouping |-> Absent, overlap |-> Absent,
   axIDs |-> << >>, catAx |-> Absent, valAx |-> Absent]

WithAxes(fs, plot) ==
  [plot EXCEPT !.axIDs = <<CatID, ValID>>,
               !.catAx = <<DrawPlotAreaCatAx(fs)>>,
               !.valAx = <<DrawPlotAreaValAx(fs)>>]

BaseElement(type) ==
  CASE type \in Area2D                -> "areaChart"
    [] type \in Area3D                -> "area3DChart"
    [] type \in Bar2D \cup Col2D      -> "barChart"
    [] type \in Bar3D \cup Col3D      -> "bar3DChart"

DrawBaseChart(fs) ==
  WithAxes(fs, [Plain(fs, BaseElement(fs.type)) EXCEPT
                  !.barDir   = PlotAreaChartBarDir(fs.type),
                  !.grouping = <<PlotAreaChartGrouping(fs.type)>>,
                  !.overlap  = Overlap(fs.type)])

DrawDoughnutChart(fs) == Plain(fs, "doughnutChart")
DrawPieChart(fs)      == Plain(fs, "pieChart")
DrawPie3DChart(fs)    == Plain(fs, "pie3DChart")

DrawLineChart(fs) ==
  WithAxes(fs, [Plain(fs, "lineChart") EXCEPT
                  !.grouping = <<PlotAreaChartGrouping(fs.type)>>])

DrawRadarChart(fs)   == WithAxes(fs, Plain(fs, "radarChart"))
DrawScatterChart(fs) == WithAxes(fs, Plain(fs, "scatterChart"))

PlotArea(fs) ==
  CASE fs.type \in BaseTypes  -> DrawBaseChart(fs)
    [] fs.type = "doughnut"   -> DrawDoughnutChart(fs)
    [] fs.type = "line"       -> DrawLineChart(fs)
    [] fs.type = "pie"        -> DrawPieChart(fs)
    [] fs.type = "pie3D"      -> DrawPie3DChart(fs)
    [] fs.type = "radar"      -> DrawRadarChart(fs)
    [] fs.type = "scatter"    -> DrawScatterChart(fs)

AddChart(fs) == [view3D |-> ChartView3D(fs.type), plotArea |-> PlotArea(fs)]
============================================================================
