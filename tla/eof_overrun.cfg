SPECIFICATION CallsSpec
CONSTANTS
  NT = 2
  MaxDepth = 1
  MAX_OPEN_FILES = 4
  BlockSize = 2
  Entries <- TwoFiles
  FileLength <- TwoLengths
  DataBlocks <- TwoBlocks
  ReadSizes <- ShortReads
  MaxOpen = 3
  OneLister = TRUE
  TakeTurns = FALSE
  SteadyDisplay = FALSE
INVARIANT
  StopsAtEndOfFile
CHECK_DEADLOCK FALSE
