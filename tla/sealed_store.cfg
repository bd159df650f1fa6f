SPECIFICATION FairSpec
CONSTANTS
  Key = {k1, k2}
  MaxSkiplistNode = 1
  MaxSealed <- SmallRings
  NumVictims = 2
  IndexNodesPerPage = 1
  DataNodesPerPage = 1
  RevStart = 0
  INVALID_LPN = INVALID_LPN
  MaxPut = 17
INVARIANTS TypeOK RingInv RunOrder
PROPERTIES NoOverwrite Implements CompactionEnds
