SPECIFICATION Spec
CONSTANTS
  Sources <- MCSources
  Names <- MCNames
  MaxLocals = 5
  MaxUpvalues = 2
  MaxArgs = 2
INVARIANTS
  TypeOK
  StackMatchesLocals
  NamesResolve
  CapturedAreClosed
PROPERTIES
  CompileEnds
CHECK_DEADLOCK FALSE
