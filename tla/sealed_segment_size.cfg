SPECIFICATION SequentialSpec
CONSTANTS
  Key <- SequentialKeys
  MaxSkiplistNode = 1
  MaxSealed <- Level0AsBuilt
  NumVictims = 2
  IndexNodesPerPage = 1
  DataNodesPerPage = 1
  RevStart = 0
  INVALID_LPN = INVALID_LPN
  MaxPut = 20
INVARIANT SegmentsFit
