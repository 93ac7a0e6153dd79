CONSTANTS
  Upvs = {u1, u2, u3}
  NoUpv = NoUpv
  Vals = {a, b}
  NoVal = NoVal
  StackMax = 5
  FramesMax = 2
SPECIFICATION Spec
SYMMETRY Interchangeable
CHECK_DEADLOCK FALSE
INVARIANTS
  TypeOK
  InScopeIsOpen
  VisibleIsSorted
  SharedAbove
PROPERTIES
  ClosedIsPrivate
  ReturnClosesAllButSelf
