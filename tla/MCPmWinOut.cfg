CONSTANTS
  NumBuffers = 2
  Expansion = 1
  EventSize = 3
  BufferLength = 6
  ExpansionLength = 8
  Wrap = 8
  Times <- MCTimes
  MaxCalls <- MCMaxCalls
  MaxFailures = 2
SPECIFICATION Spec
INVARIANTS TypeOK FilledIsOurs NoWakeupIsLost StreamTimeIsRight
PROPERTIES CallReturns
CHECK_DEADLOCK FALSE
