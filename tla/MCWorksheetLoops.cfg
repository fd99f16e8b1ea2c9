SPECIFICATION SpecLoops
CONSTANTS
  MaxRow = 3
  MaxCol = 3
  MaxAreas = 3
  MaxThings = 3
  MaxLinks = 0
  Targets = {x}
  None = None
  Merges <- MCRow
  LinkCells <- NoCells
  Filters <- NoAreas
INVARIANTS
  AdjustCompletes
