SPECIFICATION ResultsSpec
CONSTANTS
  top_k = 3
  Id = {c1, c2, c3, c4, c5, c6}
  Distance <- Near
  EPSILON = 1
SYMMETRY Ids
INVARIANTS ResultsTypeOK Sorted NearestKept ExitNear
