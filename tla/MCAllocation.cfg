SPECIFICATION Spec
CONSTANTS
  MaxObjects = 60
  FramesMax = 4
  Functions <- MCFunctions
  Scripts <- MCScripts
  MaxLines = 2
INVARIANTS
  HeldAreLive
  StringsUnique
  PrintsAsWritten
  NothingLeft
