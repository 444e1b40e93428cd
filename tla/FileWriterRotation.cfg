SPECIFICATION Spec
CONSTANTS
  Data <- Readouts
  NewFileData <- FirstReadout
  Enumerators <- AllEnumerators
  Limits <- NoLimitOrOne
  CheckEvery = 2
  MaxData = 4
  MaxSessions = 2
  MaxMinute = 1
INVARIANTS
  KeptUnlessReopened
  NumbersAreFresh
  RunsApart
CHECK_DEADLOCK FALSE
