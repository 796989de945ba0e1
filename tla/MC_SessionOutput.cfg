SPECIFICATION Spec
CONSTANTS
  Senders = {t1, t2}
  Loop = Loop
  QueueCap = 2
  Room = 2
  MaxLen = 2
  MaxBytes = 2
CHECK_DEADLOCK FALSE
INVARIANTS EveryByteOnce GapIsSendBuffer StalledUnwatched FreedUseIsLateOrRace
SYMMETRY Symmetry
