CONSTANTS
  Apis = {"alsa", "coremidi", "haiku", "winmm", "sndio"}
  Names = {"a", "b"}
  Hardware <- MCHardware
  Chunk = 2
  Streams = 2
  MaxInits = 2
  MaxCreates = 3
  MaxFailures = 2
SPECIFICATION Spec
INVARIANTS TypeOK OneStreamPerOpenDevice NamesAreUnique QueueIsCounted PortsAreNotLeaked
PROPERTIES IdsAreStable
CHECK_DEADLOCK FALSE
