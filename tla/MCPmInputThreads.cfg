CONSTANTS
  Backends = {"virtual", "device", "haiku", "winmm", "sndio"}
  MaxOpens = 4
  MaxPackets = 3
  NumBuffers = 3
  MaxTroubles = 3
  MaxSwitches = 3
SPECIFICATION Spec
INVARIANTS TypeOK CallbackFindsStream ServedWhileOpen
CHECK_DEADLOCK FALSE
