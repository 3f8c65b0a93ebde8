SPECIFICATION Spec
CONSTANTS
  MINBLOCKSIZE = 3
  MAXFCBS = 1
  Files = {f1, f2}
  Origins = {f1, f2}
  Slots = {1, 2}
  LastCluster = 9
  Root <- MCRoot
  RootChain <- MCRootChain
  InitFree <- MCInitFree
  Modes = {"read", "create"}
  FirstCounts = {2}
  Counts = {1, 4}
  ReadCounts = {2}
  Offsets = {}
  MaxSize = 7
  MaxOpen = 1
  EmptyFiles = FALSE
  NULL = NULL
  CLOSED = CLOSED
  JUNK = JUNK
  NoName = NoName
  NoRead = NoRead
SYMMETRY Names
INVARIANTS
  TypeOK
  ReadsContent
  StoredIsContent
  ChainsHaveOwners
  
