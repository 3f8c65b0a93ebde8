SPECIFICATION CrashSpec
CONSTANTS
  LastCluster = 6
  RootSize = 1
  Requests = {1, 2}
INVARIANTS
  SoundOutsideWindows
  GrowthKeepsClusters
  CrashCostsTheChain
  
