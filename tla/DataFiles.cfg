SPECIFICATION Spec
CONSTANTS
  NSP = 3
  Byte = 3
  Keys = {"a", "b", "x,y"}
  CommaKeys = {"x,y"}
  Restorable = {"SSReadout"}
  Instances = {"SSReadoutFrame"}
  Foreign = {"Foreign"}
  Uninstalled = {"Gone"}
  Plain = {"bytes"}
  Packets <- MCPackets
  Logs <- MCLogs
  LogFields <- MCLogFields
  Stamps <- MCStamps
  Objects <- MCObjects
  Readouts <- MCReadouts
  N_TM = 2
  N_TM_PIX = 2
  Map <- MCMap
  Precision = 2
  Buffer = 2
  MaxObjects = 3
  ReadoutTrigger = 1
  BusyTrigger = 2
  MaxStamps = 4
  MaxSteps = 4
CHECK_DEADLOCK FALSE
INVARIANTS
  PacketsReadBack
  FrameReadsBack
  RowsReadBack
  RatesCoverStream
  GapsAreCounted
