SPECIFICATION Spec
CONSTANTS
  MINBLOCKSIZE = 2
  MAXFCBS = 1
  Files = {f1, f2}
  Origins = {f1, f2}
  Slots = {1, 2}
  LastCluster = 7
  Root <- MCRoot
  RootChain <- MCRootChain
  InitFree <- MCInitFree
  Modes = {"read", "create", "write", "append"}
  FirstCounts = {1, 3}
  Counts = {1, 2}
  ReadCounts = {1}
  Offsets = {1}
  MaxSize = 3
  MaxOpen = 1
  EmptyFiles = FALSE
  NULL = NULL
  CLOSED = CLOSED
  JUNK = JUNK
  NoName = NoName
  NoRead = NoRead
SYMMETRY Names
VIEW Visible
INVARIANTS
  NoStrayAccess
  ChainsCoverFiles
PROPERTY OthersUntouched
