SPECIFICATION MCSpec
CONSTANTS
  USER_DIES = 2
  USER_BLOCKS_PER_DIE = 3
  Bad <- NoneBad
  SLICES_PER_BLOCK = 2
  l1 = l1 l2 = l2 l3 = l3 l4 = l4 e1 = e1 e2 = e2
  Lsa = {l1, l2, l3, l4}
  Data <- AnyData
  NONE = NONE
  DataEntry = {e1, e2}
  SLOTS = 5
  RETRY_LIMIT = 1
  MaxCommands = 2
INVARIANTS ReadsLatest FlashAsMapped
PROPERTIES ImplementsOrdered AllFinish
CHECK_DEADLOCK FALSE
