SPECIFICATION Spec
CONSTANTS
  Names <- MCNames
  Sources <- MCSources
  MaxLines = 2
  MaxEnvs = 7
INVARIANTS
  AccessIsLexical
  DepthsAgree
  LinesStartGlobal
CHECK_DEADLOCK FALSE
