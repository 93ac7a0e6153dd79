CONSTANTS
  Objects = {o1, o2, o3, o4}
  NoObj = NoObj
  Chars = {a, b}
  NoChars = NoChars
  StackMax = 3
  GlobalsMax = 1
  MembersMax = 1
SPECIFICATION GcSpec
SYMMETRY Interchangeable
CHECK_DEADLOCK FALSE
INVARIANTS
  HeapTypeOK
  StringsAllocated
  EqualStringsAreOne
PROPERTIES
  
  NothingFloats
