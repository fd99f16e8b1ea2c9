SPECIFICATION SpecTouching
CONSTANTS
  MaxRow = 3
  MaxCol = 3
  MaxAreas = 2
  MaxThings = 3
  MaxLinks = 0
  Targets = {x}
  None = None
  Merges <- MCBeside
  LinkCells <- NoCells
  Filters <- NoAreas
INVARIANTS
  AreasDisjoint
