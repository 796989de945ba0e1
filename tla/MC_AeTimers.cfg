SPECIFICATION Spec
CONSTANTS
  Second = 3
  Delays = {0, 4}
  Period = 2
  MaxTimers = 3
  MaxNow = 7
CHECK_DEADLOCK FALSE
INVARIANTS WalkIsComplete SleepLength
PROPERTIES OncePerWalk StopEnds
