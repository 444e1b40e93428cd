SPECIFICATION Spec
CONSTANTS
  Data <- Readouts
  NewFileData <- FirstReadout
  Enumerators <- ByDate
  Limits <- NoLimitOrOne
  CheckEvery = 2
  MaxData = 4
  MaxSessions = 1
  MaxMinute = 2
INVARIANT TotalsAreTrue
CHECK_DEADLOCK FALSE
