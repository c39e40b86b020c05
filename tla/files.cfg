SPECIFICATION CallsSpec
CONSTANTS
  NT = 2
  MaxDepth = 2
  MAX_OPEN_FILES = 4
  BlockSize = 2
  Entries <- Image
  FileLength <- Lengths
  DataBlocks <- Blocks
  ReadSizes <- Reads
  MaxOpen = 2
  OneLister = TRUE
  TakeTurns = TRUE
  SteadyDisplay = TRUE
INVARIANTS
  CallsIInv
  CountsAtRest
  ReadInOrder
PROPERTY
  EachEntryOnce
