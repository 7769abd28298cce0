SPECIFICATION Spec
CONSTANTS
  Byte = 4
  ULong = 65536
  U64 = 65536
  BLOCK_MAX = 3
  Reqs <- MCReqs
INVARIANTS
  TypeOK
  WireMatches
  StatusTells
  PrintsReply
  NeverSteals
  Released
CHECK_DEADLOCK FALSE
