SPECIFICATION Spec
CONSTANTS
  LastCluster = 8
  RootSize = 4
  RootBlock = 7
  Requests = {}
  DiesInFormat = TRUE
PROPERTY StartEnds
