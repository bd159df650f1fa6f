SPECIFICATION ClientSpec
CONSTANTS
  Die = {d1}
  Block = {b1}
  Entry = {e1, e2}
  DmaRequest <- Transfers
  Pages = 2
  SLOTS = 4
  RETRY_LIMIT = 1
  NONE = NONE
INVARIANT RowTableExact
PROPERTY ImplementsOrdered
SYMMETRY Interchangeable
