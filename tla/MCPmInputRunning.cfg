CONSTANTS
  Backends = {"raw"}
  FilterChoices = {}
  InitialStatus = {0}
  InitialCount = {0}
  MaxInput = 5
  MaxOverflows = 0
  MaxSetFilter = 0
SPECIFICATION HeardSpec
INVARIANT ShortIsDelivered
CHECK_DEADLOCK FALSE
