CONSTANTS
  Platforms <- MCPlatforms
  MaxStarts = 3
SPECIFICATION TimerSpec
INVARIANTS TimerTypeOK StoppedIsQuiet NothingIsMissing
PROPERTIES StopTakesEffect
CHECK_DEADLOCK FALSE
