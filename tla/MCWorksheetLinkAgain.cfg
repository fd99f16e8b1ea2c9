SPECIFICATION SpecLinkAgain
CONSTANTS
  MaxRow = 3
  MaxCol = 3
  MaxAreas = 0
  MaxThings = 3
  MaxLinks = 3
  Targets = {x, y}
  None = None
  Merges <- NoAreas
  LinkCells <- MCLinkCells
  Filters <- NoAreas
PROPERTIES
  LinkIsSet
