SPECIFICATION Spec
CONSTANTS
  MaxRow = 3
  MaxCol = 3
  MaxAreas = 2
  MaxThings = 3
  MaxLinks = 0
  Targets = {x}
  None = None
  Merges <- MCCrossing
  LinkCells <- NoCells
  Filters <- NoAreas
INVARIANTS
  NewAreaWins
