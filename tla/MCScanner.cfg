SPECIFICATION Spec
CONSTANTS
  Sources <- AllTexts
  Letters <- AllLetters
INVARIANTS
  MaximalMunch
  GapsAreBlank
  LinesExact
  ReservedAreKeywords
PROPERTIES
  ScanEnds
CHECK_DEADLOCK FALSE
