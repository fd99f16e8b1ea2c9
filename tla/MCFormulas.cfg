SPECIFICATION SpecFewCells
CONSTANTS
  Cols <- MCCols
  Contents <- MCContents
  MaxRows = 3
  Indices = {1}
  MaxValues = 1
  MaxFormulas = 5
INVARIANTS
  SharedResolves
PROPERTIES
  ImplementsFormulaTable
