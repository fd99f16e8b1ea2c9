SPECIFICATION SpecReordered
CONSTANTS
  A = A
  B = B
  C = C
  Forbidden = Forbidden
  Names <- MCNames
  Trim <- MCTrim
  Data = {0, 1}
  MaxID = 3
  MaxLinks = 0
  FormulaOps = {}
  MaxThings = 2
  NewBooks <- MCNewBooks
  Reordered <- MCReordered
PROPERTIES
  DeleteKeepsOthers
