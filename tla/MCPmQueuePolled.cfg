CONSTANTS
  NumMsgs = 2
  MsgWords = 1
  MaxOffered = 4
SPECIFICATION PolledSpec
PROPERTY OverflowIsAcknowledged
CHECK_DEADLOCK FALSE
