SPECIFICATION Spec
CONSTANTS
  Columns <- MCColumns
  Strings <- MCStrings
  Times <- MCTimes
  ExcelTimes <- MCExcelTimes
  Passwords <- MCPasswords
  Ordered <- MCOrdered
  Patterns <- MCPatterns
  Expressions <- MCExpressions
  Formats <- MCFormats
INVARIANTS
  ColumnsAgree
  CellsAgree
  TimesReadBack
  NumbersCountDays
  HashRotates
  FiltersMean
  AxesPaired
  SeriesWhole
  TablesAgree
