SPECIFICATION Spec
CONSTANTS
  k1 = k1
  k2 = k2
  k3 = k3
  k4 = k4
  v1 = v1
  NoKey = NoKey
  Nil = Nil
  True = True
  Absent = Absent
  Keys <- MCKeys
  Values <- MCValues
  Hash <- MCHash
  MinCapacity = 4
  MaxCapacity = 8
INVARIANTS
  TypeOK
  ProbeEnds
  KeysFindable
  CountExact
  LoadBounded
  CapacityIsPowerOfTwo
PROPERTIES
  ImplementsDict
  RemoveWhiteIsExact
