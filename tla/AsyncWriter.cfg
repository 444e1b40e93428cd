SPECIFICATION FairSpec
CONSTANTS
  MaxMessages = 5
  Malformed <- SecondOne
  Unwritable <- LastOne
INVARIANTS
  NothingLost
  SoftCloseKeepsAll
  StopsClosed
PROPERTIES
  QuietWhenClosed
  CloseEnds
CHECK_DEADLOCK FALSE
