SPECIFICATION Spec
CONSTANTS
  o1 = o1
  o2 = o2
  o3 = o3
  Null = Null
  Objects <- TwoObjects
  Types <- ObjType
  Kinds <- RootKinds
  Stress = TRUE
  FirstGC = 1
  Sizeof <- SmallSizes
  MinArray = 2
  MaxBytes = 15
  Lengths = {1}
SYMMETRY Addresses
INVARIANTS
  TypeOK
  NoDangling
  MarksClear
  StringsExact
  BytesExact
  AllFreed
PROPERTIES
  CollectionIsExact
CHECK_DEADLOCK FALSE
