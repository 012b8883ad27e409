CONSTANTS
  NumMsgs = 2
  MsgWords = 2
  MaxOffered = 4
SPECIFICATION FairSpec
INVARIANTS TypeOK NoTornMessage GapIffLoss
PROPERTIES FullOnlyIfFull ImplementsStream OverflowIsAcknowledged AcceptedIsDelivered
