SPECIFICATION OwnDataSpec
CONSTANTS
  USER_DIES = 2
  USER_BLOCKS_PER_DIE = 3
  Bad <- OneBad
  SLICES_PER_BLOCK = 2
  Lsa = {l1, l2, l3, l4}
  Data = {l1, l2, l3, l4}
  NONE = NONE
SYMMETRY Slices
INVARIANTS FtlTypeOK MapsInverse CountsExact AbortOnlyWhenFull ListsSound
PROPERTIES ImplementsFtl ImplementsStore
CHECK_DEADLOCK FALSE
