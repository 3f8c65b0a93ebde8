SPECIFICATION ShellSpec
CONSTANTS
  MINBLOCKSIZE = 4
  BUFFERLEN = 3
  MAXFCBS = 2
  Files = {f1, f2}
  Slots = {1, 2}
  HostFiles = {h1}
  Origins = {h1}
  MaxSize = 5
  HostSizes = {5}
  Overwrite = FALSE
  MaxLost = 1
  LastCluster = 7
  Root <- MCRoot
  RootChain <- MCRootChain
  InitFree <- MCInitFree
  NULL = NULL
  CLOSED = CLOSED
  JUNK = JUNK
  NoName = NoName
  NoRead = NoRead
INVARIANT CopyOutIsWhole
PROPERTIES
  ImplementsFileStore
  MoveKeepsFile
  
  CommandEnds
