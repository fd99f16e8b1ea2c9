SPECIFICATION SpecOverlayFewThings
CONSTANTS
  MaxRow = 4
  MaxCol = 3
  MaxAreas = 2
  MaxThings = 2
  MaxLinks = 2
  Targets = {x}
  None = None
  Merges <- MCMerges
  LinkCells <- MCTwoCells
  Filters <- MCOneFilter
PROPERTIES
  ImplementsOverlay
