SPECIFICATION SafeSpec
CONSTANTS
  Items = {s1, s2, s3}
  Capacity = 2
  NULL = NULL
  Workers = 2
  Fds = {f1, f2}
  QueueCap = 2
  AcceptErrors = TRUE
  PartialWrites = TRUE
  Refusals = TRUE
CHECK_DEADLOCK FALSE
INVARIANTS
  ConsistentUntilMove SingleOwner NoUseAfterFree AbortOnlyAtStop
  RegistrationsCurrent NoSpuriousRead
SYMMETRY Symmetry
