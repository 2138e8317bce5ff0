SPECIFICATION FairSpec
CONSTANTS
  o1 = o1
  o2 = o2
  o3 = o3
  Null = Null
  Objects <- MCObjects
  Types <- GraphTypes
  Kinds <- GraphKinds
  Stress = FALSE
  FirstGC = 4
  Sizeof <- SmallSizes
  MinArray = 2
  MaxBytes = 12
  Lengths = {2}
INVARIANTS
  NoDangling
  ListExact
PROPERTIES
  CollectionIsExact
  CollectionEnds
CHECK_DEADLOCK FALSE
