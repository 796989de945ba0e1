SPECIFICATION PoolSpec
CONSTANTS
  Workers = 2
  Callers = {0, 1}
  NoCaller = NoCaller
  AllocSizes = {1, 8}
  PREFIX_SIZE = 4
  LongSize = 4
  SizeRange = 64
  Pointers = {b1, b2}
  MaxCalls = 2
CHECK_DEADLOCK FALSE
INVARIANTS StartedIsReady RunUntilStopped LoopsOutliveUse UsedIsSum
PROPERTIES StartReturns SigintWhileRunning
