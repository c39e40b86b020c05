SPECIFICATION ProgramsFairSpec
CONSTANTS
  NT = 1
  MaxDepth = 2
  MAX_OPEN_FILES = 8
  BlockSize = 7
  Entries <- Image
  FileLength <- Lengths
  DataBlocks <- Blocks
  ReadSizes = {}
  MaxOpen = 16
  OneLister = FALSE
  BUFSIZE = 4
  FILE_NAME_SIZE = 3
  MAX_ARGS = 4
  ProgramOf <- Executables
  HelloName <- Hello
  ShellName <- Shell
  ExitWord <- Exit
  Dot <- Point
  Lines <- Typings
  Disks <- Images
  StackBytes <- Stack
INVARIANTS
  ProgramsTypeOK
  ArgsAreOwn
  CatShowsFile
  GrepFindsLines
  SyserrPasses
PROPERTY
  CommandsReturn
