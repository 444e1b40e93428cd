SPECIFICATION FairSpec
CONSTANTS
  MaxMessages = 2
  Malformed <- NoMessage
  Rejected <- NoMessage
  Unwritable <- NoMessage
PROPERTY HardCloseReturns
CHECK_DEADLOCK FALSE
