SPECIFICATION Spec
CONSTANTS
  kCheapPrepend = 2
  Word = 64
  SessionSizes = {2, 3}
  Appends <- AllLengths
  Receives <- SomeStrings
  Prepends <- Prefixes
  MaxSize = 8
CHECK_DEADLOCK FALSE
INVARIANTS ReadableIsStream SafeUses
PROPERTY OverrunOnlyBeyondDoubling
