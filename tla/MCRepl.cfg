SPECIFICATION Spec
CONSTANTS
  c1 = c1
  c2 = c2
  c3 = c3
  c4 = c4
  u1 = u1
  u2 = u2
  d1 = d1
  d2 = d2
  Null = Null
  Self = Self
  Absent = Absent
  ClosureIds <- FourClosures
  UpvalueIds <- TwoUpvalues
  Data <- OneDatum
  Library = {"closure"}
  StackMax = 4
  FramesMax = 2
  MaxUpvalues = 1
  MaxArity = 0
  Repl = TRUE
SYMMETRY Addresses
INVARIANT
  OneUpvaluePerValue
CHECK_DEADLOCK FALSE
