CONSTANTS
  Backends = {"mac", "alsa", "winmm", "haiku", "synth", "sndio"}
  Buffers <- MCBuffers
  SysexLengths = {2, 4, 5, 9, 13, 21}
  BUFLEN = 2
  fill_length = 6
  SysexBuffer = 5
  PacketBuffer = 7
  MaxCalls = 3
  MaxFailures = 1
SPECIFICATION Spec
INVARIANTS TypeOK WrittenIsSent OrderIsKeptElsewhere SuccessMeansSent
PROPERTIES CallReturns
CHECK_DEADLOCK FALSE
