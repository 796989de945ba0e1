SPECIFICATION CircSpec
CONSTANTS
  Elems = {a, b}
  MaxEntries = 0
  InitialElements = 2
  MaxElements = 8
  NULL = NULL
PROPERTY FifoSpec
