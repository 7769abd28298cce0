SPECIFICATION ToolSpec
CONSTANTS
  UInt = 256
  ULong = 512
  K = 16
  Byte = 4
  MaxPlugs = 2
  Devices <- MCDevices
  CpuFiles <- MCCpuFiles
  ChipFiles <- MCChipFiles
  Pir <- MCPir
  ChipOfCore <- MCChipOfCore
  Stale <- MCStale
  Reqs <- MCReqs
  CpuWords <- MCCpuWords
INVARIANTS
  DevTypeOK
  NoFalseFailure
  PortNeverGarbage
  ListFaithful
  ListedLineReadsDevice
  LookupFindsChip
PROPERTY
  AccessImplements
CHECK_DEADLOCK FALSE
