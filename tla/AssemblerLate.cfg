SPECIFICATION Spec
CONSTANTS
  NTM = 2
  RelaxedIP = TRUE
  ReadoutTw = 3
  BufferTime = 8
  BufferLen = 4
  Datagrams <- EventDatagrams
  MaxDatagrams = 5
INVARIANT SurvivesLatePackets
CHECK_DEADLOCK FALSE
