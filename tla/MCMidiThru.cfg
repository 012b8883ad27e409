CONSTANTS
  Platforms <- MCPlatforms
  MaxStarts = 1
  Delay = 1
  Timeout = 2
  QueueSize = 2
  InputSize = 2
  MaxEvents = 3
  MaxInput = 2
SPECIFICATION Spec
INVARIANTS TypeOK NoCallAfterClose 
PROPERTIES ThruIsLive
CHECK_DEADLOCK FALSE
