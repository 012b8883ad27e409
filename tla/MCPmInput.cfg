CONSTANTS
  Backends = {"raw", "parsed"}
  FilterChoices <- MCFilters
  InitialStatus = {0, 144}
  InitialCount = {0, 2}
  MaxInput = 7
  MaxOverflows = 1
  MaxSetFilter = 1
SPECIFICATION Spec
INVARIANTS TypeOK SysexIsContiguous SysexIsComplete ShortIsWhole
CHECK_DEADLOCK FALSE
