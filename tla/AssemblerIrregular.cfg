SPECIFICATION FairSpec
CONSTANTS
  NTM = 2
  RelaxedIP = FALSE
  ReadoutTw = 2
  BufferTime = 3
  BufferLen = 4
  Datagrams <- IrregularDatagrams
  MaxDatagrams = 4
INVARIANTS
  TypeOK
  BufferInv
  BufferBounded
  ConsecutiveNumbers
PROPERTIES
  OnlyExpiredLeave
  QueueIsServed
  ExpiredIsPublished
  BuildsEvents
CHECK_DEADLOCK FALSE
