SPECIFICATION Spec
CONSTANTS
  Elems = {m1, m2, m3, m4}
  Producers = {p1, p2}
  Loop = Loop
  NoThread = NoThread
  NULL = NULL
  MaxEntries = 2
  InitialElements = 2
  MaxElements = 2
  SockCap = 2
  RecvMax = 1
CHECK_DEADLOCK FALSE
INVARIANTS NoLostWakeup WakeBytesBounded
PROPERTIES ChannelSpec PushReturns
