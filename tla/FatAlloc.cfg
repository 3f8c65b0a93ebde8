SPECIFICATION FairSpec
CONSTANTS
  LastCluster = 7
  RootSize = 1
  Requests = {1, 2, 3}
INVARIANTS
  TypeOK
  NoCrossLink
  NoClusterLost
  AllocStaysOnFreeList
  CounterIsListLinks
  WriteThrough
PROPERTIES
  CallReturns
  ImplementsChainStore
