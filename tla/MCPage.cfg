SPECIFICATION PageSpec
CONSTANTS
  Pages <- MCPages
  Modes <- MCModes
  Wanted <- MCWanted
  Entities <- MCEntities
  MaxPiece = 2
  Tab = 4
  Images <- TheImages
  MaxBits = 5
  None = None
  sheet1 = sheet1
  Sheets = {sheet1}
  Documents <- SoupDocuments
  CounterSize = 3
  Messages <- SomeMessages
  Inflated <- SomeInflated
  Room = 2
  MetaType = "multi"
  BodyWindows <- TwoWindows
  MaxLookups = 2
  Together = FALSE
INVARIANTS
  PagesAreRead
  ImagesAreRight
  BodiesAreRight
PROPERTIES
  PageIsBuilt
CHECK_DEADLOCK FALSE
