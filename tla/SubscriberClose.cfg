SPECIFICATION FairSpec
CONSTANTS
  MaxMessages = 3
  Malformed <- LastMalformed
  Rejected <- NoMessage
  Unwritable <- AnyMessage
INVARIANTS
  TypeOK
  Pipeline
  TasksAccounted
  WrittenInOrder
  NothingAfterNone
  SoftCloseKeepsAll
PROPERTIES
  ClosedIsQuiet
  NoneEndsSoftClose
CHECK_DEADLOCK FALSE
