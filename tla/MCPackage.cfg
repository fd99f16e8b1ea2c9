SPECIFICATION SpecFewObjects
CONSTANTS
  Cells = {1}
  BadCell = 0
  Images = {1, 2}
  Charts = {1}
  Tables = {1}
  Texts = {1}
  Linked = {TRUE}
  MaxSheet = 2
  MaxObjects = 2
  NewFiles <- MCNewFiles
  Loaded <- MCLoaded
INVARIANTS
  TypeOK
  PartsResolve
  NotesAgree
  PicturesRead
PROPERTY
  ImplementsGallery
