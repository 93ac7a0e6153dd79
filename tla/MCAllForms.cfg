CONSTANTS
  Names = {"x"}
  Forms <- AllForms
  StatementsMax = 3
  StackMax = 9
SPECIFICATION Spec
CHECK_DEADLOCK FALSE
INVARIANTS
  StaysInCode
