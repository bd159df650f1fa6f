SPECIFICATION InTurnSpec
CONSTANTS
  Key = {0, 1, 2, 3}
  MaxSkiplistNode = 2
  MaxSealed <- TwoInLevel1
  NumVictims = 2
  IndexNodesPerPage = 2
  DataNodesPerPage = 1
  RevStart = 0
  INVALID_LPN = INVALID_LPN
  MaxPut = 17
  NodesPerPage = 2
  Stride = 1
  NoTarget = NoTarget
  Concurrent = {"search"}
  GarbageBound = 3
INVARIANTS BuilderTypeOK IndexComplete ResumeAtPage TablesKept
PROPERTIES AllIndexed BuildEnds
