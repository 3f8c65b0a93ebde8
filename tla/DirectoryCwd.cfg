SPECIFICATION Spec
CONSTANTS
  Names <- TwoNames
  LongNames = {}
  Slots = 2
  DirClusters = 1
  Root = 2
  InitFree <- Clusters4
  RootChain <- FormattedRoot
  Paths <- SomePaths
  MaxDepth = 3
  MaxEntries = 3
  NeverRefused = TRUE
PROPERTIES
  EnteredIsCurrent
