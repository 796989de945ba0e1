SPECIFICATION Spec
CONSTANTS
  Sockets = {f1, f2}
  Sessions = {s1, s2}
  NULL = NULL
  QueueCap = 2
  FirstDelay = 3
  MaxDelay = 8
  MaxTimers = 2
SYMMETRY Symmetry
CHECK_DEADLOCK FALSE
INVARIANTS
  RetryNeverStuck AtMostOneActivity OpenIsWatched
  NoOrphanSocket NoUseAfterFree
PROPERTY QuietStaysQuiet
