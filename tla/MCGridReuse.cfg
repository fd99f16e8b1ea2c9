SPECIFICATION SpecReuse
CONSTANTS
  CellTypes = {"", "str"}
  CellValues = {"", "x"}
  StyleIds = {0, 1}
  RowAttrs = {0}
  MaxRow = 3
  MaxCol = 3
  MaxFilled = 2
  MaxCells = 9
  Writes <- MCWrites
  ColStyles = {1}
  Areas <- MCAreas
  FormulaOps = {TRUE, FALSE}
  TimeValue = "x"
  TimeStyle = 1
  Files <- MCFiles
CONSTRAINT FewFilled
PROPERTIES
  SetIsRead
