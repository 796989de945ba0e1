SPECIFICATION Spec
CONSTANTS
  Items = {s1, s2}
  Capacity = 2
  NULL = NULL
  Workers = 2
  Fds = {f1, f2}
  QueueCap = 2
  AcceptErrors = FALSE
  PartialWrites = FALSE
  Refusals = FALSE
CHECK_DEADLOCK FALSE
PROPERTIES StopTerminates PeerCloseFrees
