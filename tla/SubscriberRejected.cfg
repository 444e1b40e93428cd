SPECIFICATION Spec
CONSTANTS
  MaxMessages = 2
  Malformed <- NoMessage
  Rejected <- FirstRejected
  Unwritable <- NoMessage
INVARIANT NothingAfterNone
CHECK_DEADLOCK FALSE
