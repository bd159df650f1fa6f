SPECIFICATION ListsSpec
CONSTANTS
  USER_DIES = 1
  USER_BLOCKS_PER_DIE = 3
  Bad <- NoneBad
  SLICES_PER_BLOCK = 2
  Lsa = {l1,l2,l3}
  Data = {x}
  NONE = NONE
INVARIANT CurrentPageManaged
CHECK_DEADLOCK FALSE
