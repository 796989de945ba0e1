SPECIFICATION Spec
CONSTANTS
  Second = 3
  Delays = {0, 2, 4}
  Period = 2
  MaxTimers = 1
  MaxNow = 9
CHECK_DEADLOCK FALSE
INVARIANT SleepsNoLonger
