CONSTANTS
  k1 = k1
  k2 = k2
  k3 = k3
  k4 = k4
  NullVal = NullVal
  TrueVal = TrueVal
  NoKey = NoKey
  Keys <- MCKeys
  Vals <- MCVals
  Hash <- MCHash
  MinCapacity = 4
  MaxCapacity = 8
SPECIFICATION Spec
INVARIANTS
  TypeOK
  Reachable
  EmptySlotRemains
  CountIsOccupancy
PROPERTIES
  ImplementsDictionary
