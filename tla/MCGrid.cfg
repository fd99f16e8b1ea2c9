SPECIFICATION SpecFewFilled
CONSTANTS
  CellTypes = {"", "str"}
  CellValues = {"", "x"}
  StyleIds = {0, 1}
  RowAttrs = {0, 1}
  MaxRow = 3
  MaxCol = 4
  MaxFilled = 2
  MaxCells = 4
  Writes <- MCEmptyString
  ColStyles = {0}
  Areas <- MCAreas
  FormulaOps = {TRUE, FALSE}
  TimeValue = "x"
  TimeStyle = 1
  Files <- MCFiles
PROPERTIES
  CallsExact
INVARIANTS
  ReadersAgree
  TypeOK
  GridContiguous
  NoPanic
