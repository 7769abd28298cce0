SPECIFICATION Spec
CONSTANTS
  PageSize = 8
  Base = 2
  UInt = 32
  ULong = 256
  U64 = 256
  MaxAddr = 16
  MaxVal = 2
  MaxBytes = 40
  Reqs <- MCReqs
INVARIANT
  UncacheableIsSync
CHECK_DEADLOCK FALSE
