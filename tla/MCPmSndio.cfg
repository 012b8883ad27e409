CONSTANTS
  SYSEX_MAXLEN = 3
  MaxBytes = 8
  MaxReopen = 1
SPECIFICATION Spec
INVARIANTS TypeOK DeliveredIsSent
CHECK_DEADLOCK FALSE
