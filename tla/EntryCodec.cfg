SPECIFICATION CodecSpec
CONSTANTS
  Sizes <- SoundSizes
  Locations <- FirstClusters
INVARIANTS
  TableHoldsLinks
  ClustersAreDataBlocks
  LocationKept
