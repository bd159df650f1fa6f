SPECIFICATION SearchSpec
CONSTANTS
  Key = {k1}
  MaxSkiplistNode = 1
  MaxSealed <- TwoInLevel1
  NumVictims = 2
  IndexNodesPerPage = 1
  DataNodesPerPage = 1
  RevStart = 0
  INVALID_LPN = INVALID_LPN
  MaxPut = 9
  NodesPerPage = 1
  Stride = 0
  NoTarget = NoTarget
  Concurrent = {"search", "put"}
  GarbageBound = 3
INVARIANTS SeenOnce BuildFlags LivePagesMapped CompactionAsserts
PROPERTIES SeenAtEnd ImplementsSearch PauseHolds
