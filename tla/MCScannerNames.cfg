SPECIFICATION Spec
CONSTANTS
  Sources <- Names
  Letters <- AllLetters
INVARIANTS
  OnlyReservedAreKeywords
CHECK_DEADLOCK FALSE
