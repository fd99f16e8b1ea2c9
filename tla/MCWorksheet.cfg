SPECIFICATION SpecFewThings
CONSTANTS
  MaxRow = 3
  MaxCol = 3
  MaxAreas = 3
  MaxThings = 3
  MaxLinks = 2
  Targets = {x}
  None = None
  Merges <- MCAreas
  LinkCells <- MCTwoCells
  Filters <- MCFilters
INVARIANTS
  TypeOK
  AdjustCompletes
  AreasDisjoint
  LinksResolve
