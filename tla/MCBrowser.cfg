SPECIFICATION BrowserSpec
CONSTANTS
  u1 = u1
  u2 = u2
  k1 = k1
  k2 = k2
  k3 = k3
  Null = Null
  Urls = {u1, u2}
  Keys = {k1, k2, k3}
  NumRows = 2
  NumScans = 3
  DlibBytes = {b, c}
  NulByte = NulByte
  Junk = Junk
  Elements = {1, 2, 3}
  RcLines <- SomeRcLines
  MaxText = 4
  MaxItems = 6
  BookmarkUrls = {u}
  SectionTitles = {s, t}
  Unclassified = Unclassified
  NoFile = NoFile
  BigFile = 2
  MaxSections = 3
  MaxBookmarks = 2
  MaxFailures = 1
  Dirs <- SomeDirs
  DiskFiles <- SomeDiskFiles
  DataOf <- SomeData
  Typed <- SomeTyped
  Guess <- SomeGuess
  NoType = NoType
  Tabs = {1, 2, 3}
  Windows = {1, 2}
  PageTitles = {"a"}
  EngineNames = {"e", "f"}
  Boxes = {"location", "search"}
SYMMETRY Symmetry
INVARIANTS
  ImagesAreShared
  StringsAreRight
  ListingsAreTrue
  WindowsAreRight
PROPERTIES
  EditIsExact
CHECK_DEADLOCK FALSE
