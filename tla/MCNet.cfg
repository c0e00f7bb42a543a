SPECIFICATION NetSpec
CONSTANTS
  w1 = w1
  page1 = page1
  page2 = page2
  fragment1 = fragment1
  None = None
  NavWindows = {w1}
  NavPages = {page1, page2}
  Fragments = {fragment1}
  MaxStack = 3
  MaxTimeouts = 2
  NoPart = NoPart
  Bases <- SomeBases
  References <- SomeReferences
  MaxSegments = 3
  NoValue = NoValue
  Requests <- SomeRequests
  Addresses <- SomeAddresses
  WideTlds = {"uk"}
  Lines <- SomeLines
  Control <- NoRules
  DefaultAction = "accept"
  MaxDomainCookies = 2
  MaxTotalCookies = 2
  MaxTime = 1
  MaxUses = 3
  Half = 8
  MaxNodes = 5
  Forms <- SomeForms
  Texts <- SomeTexts
  Boundaries = {"B", "C"}
  Files <- SomeFiles
  EnterForces = FALSE
  Unset = Unset
  NoPref = NoPref
  Options <- SomeOptions
  Kind <- SomeKinds
  Default <- SomeDefaults
  PrefValues <- SomeValues
  Engines <- SomeEngines
  DefaultEngines <- SomeDefaultEngines
  RcFiles <- SomeRcFiles
  MaxEngines = 3
  Queries <- SomeTexts
  KeyCodes <- SomeKeyCodes
  Characters = {65, 97}
  ShiftedTo <- SomeShifted
  DefaultKeys <- SomeDefaultKeys
  KeyLines <- SomeKeyLines
  MaxKeyLines = 2
  MaxCode = 255
SYMMETRY Symmetry
INVARIANTS
  
  
  KeysAreDistinct
  EngineExists
  KeysAreRight
PROPERTIES
  
  ResolvesAsRfc
  FormsAreRight
CHECK_DEADLOCK FALSE
