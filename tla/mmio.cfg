SPECIFICATION Spec
CONSTANTS
  PageSize = 8
  Base = 2
  UInt = 32
  ULong = 256
  U64 = 256
  MaxAddr = 16
  MaxVal = 256
  MaxBytes = 40
  Reqs <- MCReqs
INVARIANTS
  TypeOK
  AccessInMapping
  LabelNamesData
  Released
  DumpIsComplete
  WriteStoresValue
PROPERTY
  EventuallyEnds
CHECK_DEADLOCK FALSE
