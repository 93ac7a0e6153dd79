CONSTANTS
  Names = {x, y}
  LocalsMax = 4
  UpvaluesMax = 2
  IndexRange = 8
  ArgumentsMax = 1
  DeclarationsMax = 3
  NestingMax = 5
SYMMETRY Renamings
SPECIFICATION ScopesSpec
INVARIANTS
  NamesResolveLexically
  SlotsHoldLocals
  SharedAreClosed
