SPECIFICATION BuilderSpec
CONSTANTS
  Key = {k1, k2}
  MaxSkiplistNode = 1
  MaxSealed <- TwoInLevel1
  NumVictims = 2
  IndexNodesPerPage = 1
  DataNodesPerPage = 1
  RevStart = 0
  INVALID_LPN = INVALID_LPN
  MaxPut = 6
  NodesPerPage = 1
  Stride = 0
  NoTarget = NoTarget
  Concurrent = {"search"}
  GarbageBound = 3
INVARIANTS HeaderKept
