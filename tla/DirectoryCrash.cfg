SPECIFICATION CrashSpec
CONSTANTS
  Names <- ThreeNames
  LongNames = {}
  Slots = 2
  DirClusters = 1
  Root = 2
  InitFree <- Clusters5
  RootChain <- FormattedRoot
  RootStart = 50
  Paths <- PlainPaths
  MaxDepth = 2
  MaxEntries = 3
  NeverRefused = TRUE
INVARIANT SoundWhenLeft
PROPERTIES
  OnlyDeathLoses
  ImplementsNameTree
