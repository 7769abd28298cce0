SPECIFICATION ToolSpec
CONSTANTS
  Arch = "x86"
  MaxOperands = 8
  NULL = NULL
  Groups <- AllGroups
  commands <- MCcommands
  LinkOrders <- FileOrders
  Lines <- MCToolLines
  Returns <- HandlerReturns
  Replacing <- MCReplacing
  Endless <- MCEndless
  ARCH_X86 <- MCARCH_X86
  LLBits = 6
  IntBits = 4
  ULong = 64
  Spells <- MCSpells
INVARIANTS
  ArgvInBounds
  PortNeedsIopl
  ResultIsExact
  PrintedIffSuccess
PROPERTY
  Implements
CHECK_DEADLOCK FALSE
