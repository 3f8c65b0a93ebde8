SPECIFICATION Spec
CONSTANTS
  LastCluster = 60
  RootSize = 4
  RootBlock = 30
  Requests = {26}
  DiesInFormat = FALSE
INVARIANT RootFitsBuffer
