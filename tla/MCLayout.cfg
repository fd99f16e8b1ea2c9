SPECIFICATION Spec
CONSTANTS
  MaxCol = 2
  MaxRow = 1
  Widths = {1}
  Heights = {9}
  Levels = {1}
  Styles = {0, 1}
  Files <- MCFiles
  Sizes = {13, 40}
  Offsets = {0, 3}
  LargeOffsets = {30}
  MaxEntries = 3
  LastCell = 45
INVARIANTS
  AnchorExact
PROPERTIES
  PlacingEnds
  ImplementsColumnTable
