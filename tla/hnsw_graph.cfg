SPECIFICATION GraphSpec
CONSTANTS
  EF_CONSTRUCTION = 4
  Total = 5
  Position = {0, 1, 2, 4, 6}
  MAX_LEVELS = 3
  M_PARAM = 2
  Uninit = {0}
INVARIANTS LinksSound SearchFillsUp
PROPERTIES BackLinks NewNodeReachable
CHECK_DEADLOCK FALSE
