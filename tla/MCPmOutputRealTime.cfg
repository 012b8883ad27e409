CONSTANTS
  Backends = {"mac", "alsa", "winmm"}
  Buffers <- MCRealTime
  SysexLengths = {}
  BUFLEN = 2
  fill_length = 6
  SysexBuffer = 5
  PacketBuffer = 7
  MaxCalls = 3
  MaxFailures = 0
SPECIFICATION Spec
INVARIANT RealTimeIsOneByte
CHECK_DEADLOCK FALSE
