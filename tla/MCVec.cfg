CONSTANTS
  v1 = v1
  v2 = v2
  a = a
  b = b
  c = c
  NULL = NULL
  Junk = Junk
  Vecs = {v1, v2}
  Elements = {a, b}
  PART_COUNT <- MCPartCount
  CapacityMin = 1
  LiteralMax = 3
  Literals = {c}
  ConstantsMax = 2
SYMMETRY Interchangeable
SPECIFICATION VecSpec
INVARIANTS
  VecTypeOK
  BlocksAreHeldOnce
PROPERTIES
  ImplementsLists
