SPECIFICATION ArraySpec
CONSTANTS
  Items = {o1, o2, o3}
  Capacity = 2
  NULL = NULL
CHECK_DEADLOCK FALSE
INVARIANT IndexAssertionHolds
