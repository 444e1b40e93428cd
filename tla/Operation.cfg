SPECIFICATION FairSpec
CONSTANTS
  Config <- MCConfig
  WriterConfig <- MCWriterConfig
  Matches <- MCMatches
  NameLists <- MCNameLists
  Pids = {1, 2}
  None = 0
  Monitor = "Monitor"
  Screened = {"Trigger"}
  Second = 2
  Silence = 3
  MaxCommands = 2
  MaxAccidents = 2
  MaxBacklog = 1
INVARIANTS
  OneDaemonEach
  StoppedIsDead
PROPERTY
  ScreenSettles
