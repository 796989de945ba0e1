SPECIFICATION Spec
CONSTANTS
  NumFds = 2
  SetSize = 2
INVARIANTS OpenIsHeld AskedIsWatched ServedInBatch
PROPERTY CalledIsLive
