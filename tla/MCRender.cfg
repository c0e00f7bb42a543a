SPECIFICATION RenderSpec
CONSTANTS
  Kinds <- SomeKinds
  Rulesets <- SomeRulesets
  MaxNodes = 4
  MaxRulesets = 2
  NoStyle = NoStyle
  Statements <- SomeStatements
  Cells <- SomeCells
  Widths <- SomeWidths
  Spacing = 1
  SpanLimit = 2
  MaxCols = 3
  MaxRows = 3
  Null = Null
  Indent = 0
  Texts <- SomeTexts
  Spaces = {1}
  Lines = FALSE
  MaxWords = 3
  MaxY = 1
  ImageSize = 2
  Windows <- SomeWindows
  Bar = 1
  MaxEvents = 1
  Widgets = {1, 2}
  Documents <- TheDocuments
  Keys <- TheKeys
  Lower <- TheLower
  Blanks <- TheBlanks
  Buttons = {1}
INVARIANTS
  
  SheetsAreUnderstood
  
  
PROPERTIES
  SearchIsSound
CHECK_DEADLOCK FALSE
