SPECIFICATION SpecFewSet
CONSTANTS
  None = None
  Zooms = {9, 10, 400, 401}
  Texts = {"", "x"}
  Sizes = {1, 8}
  Indices <- MCIndices
  Lengths = {254, 255, 256}
  Files <- MCFiles
  MaxObjects = 2
  MaxSet = 3
INVARIANTS
  ValidationsWhole
  ReadsBack
