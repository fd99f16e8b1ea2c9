SPECIFICATION SpecFewThings
CONSTANTS
  A = A
  B = B
  C = C
  Forbidden = Forbidden
  Names <- MCNames
  Trim <- MCTrim
  Data = {0}
  MaxID = 3
  MaxLinks = 1
  FormulaOps = {TRUE, FALSE}
  MaxThings = 2
  NewBooks <- MCNewBooks
  Reordered <- MCReordered
SYMMETRY Renamings
INVARIANTS
  TypeOK
  Catalogue
  ActiveAgrees
  LinksResolve
  ChainResolves
PROPERTIES
  ImplementsBook
