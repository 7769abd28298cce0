SPECIFICATION Spec
CONSTANTS
  Byte = 4
  ULong = 65536
  U64 = 65536
  BLOCK_MAX = 3
  Reqs <- MCReqs
INVARIANT
  ProcessCallPrintsReply
CHECK_DEADLOCK FALSE
