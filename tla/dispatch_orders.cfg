SPECIFICATION Spec
CONSTANTS
  Arch = "powerpc"
  MaxOperands = 4
  NULL = NULL
  Groups <- SmallGroups
  commands <- MCcommands
  LinkOrders <- AllOrders
  Lines <- MCLines
  Returns <- HandlerReturns
  Replacing <- MCReplacing
  Endless <- MCEndless
  ARCH_X86 <- MCARCH_X86
INVARIANTS
  TypeOK
  NoCommandShadowed
  ArgvInBounds
PROPERTY
  EventuallyEnds
CHECK_DEADLOCK FALSE
