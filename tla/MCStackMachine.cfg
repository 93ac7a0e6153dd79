CONSTANTS
  Names = {"x"}
  Forms <- Balancing
  StatementsMax = 4
  StackMax = 9
SPECIFICATION Spec
CHECK_DEADLOCK FALSE
INVARIANTS
  TypeOK
  Balanced
  SlotsAreRight
PROPERTIES
  Structured
