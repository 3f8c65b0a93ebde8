SPECIFICATION Spec
CONSTANTS
  LastCluster = 60
  RootSize = 4
  RootBlock = 30
  Requests = {10}
  DiesInFormat = TRUE
INVARIANT FreeListIsSound
PROPERTY LaterStartsEnd
