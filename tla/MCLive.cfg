SPECIFICATION LiveSpec
CONSTANTS
  Pages <- SomePages
  Realms = {"r", "s"}
  Protects <- SomeProtects
  AuthWindows = {w1, w2}
  NoRealm = NoRealm
  Downloads = {1, 2, 3}
  Whole = 3
  CurlErrors = 1
  Patient = TRUE
INVARIANTS
  DownloadsAreRight
PROPERTIES
  AuthIsRight
  WaitsEndRight
CHECK_DEADLOCK FALSE
