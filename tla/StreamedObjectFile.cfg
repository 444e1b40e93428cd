SPECIFICATION FileSpec
CONSTANTS
  Objects <- TwoObjects
  Size <- Sizes
  BunchSize = 1
  HeaderSize = 3
  TrailerSize = 3
  IndexSize = 2
  MaxBunch = 1
  CompressedSizes <- ShorterOrLonger
  MaxObjects = 4
  MaxReads = 4
  Files = {f, g}
  ChunkHeader = 2
  MaxChunks = 3
  MaxCalls = 4
INVARIANTS
  ReadsBack
  OpensAtBunchEnd
  ClosedIsComplete
  StreamsInOrder
  ChunksReadBack
CHECK_DEADLOCK FALSE
