SPECIFICATION MiscSpec
CONSTANTS
  SetSize = 8
  WordBits = 4
  IntBits = 3
  UInt = 16
  ULong = 64
  MaxHotplug = 2
  CheckEvery = 2
  Second = 2
  Elapsed = 6
  IntRange = 8
  MaxStall = 2
  MaxJumps = 2
  MaxLines = 8
  Machines <- MCMachines
  Invocations <- MCInvocations
  Jumps <- MCJumps
INVARIANTS
  AffTypeOK
  RunsWhereNamed
  LineMeansSecond
  NegativeCountWraps
PROPERTIES
  CountEnds
  EndlessPrints
CHECK_DEADLOCK FALSE
