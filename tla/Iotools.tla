------------------------------- MODULE Iotools -------------------------------
(***************************************************************************)
(* The dispatcher of Commands.tla with the real command tables: what the   *)
(* handlers of each file rely on when they are called.  A handler reads    *)
(* argv[1], argv[2], ... without looking at argc; only the prereq_params   *)
(* of its table row protect it from reading past the argument vector.      *)
(***************************************************************************)
EXTENDS Commands, CommandTable

\* The groups are some of those that the build has, with their own arrays.
ASSUME BuildAssumption ==
  /\ Groups \subseteq AllGroups
  /\ \A g \in Groups : commands[g] = TableOf(g)

\* The highest index of argv that a handler dereferences.

IoLastArg(c) == IF c.entry = "io_read_x" THEN 1 ELSE 2

MmioLastArg(c, n) ==
  CASE c.entry = "mmio_read_x" -> 1
    [] c.entry = "mmio_write_x" -> 2
    [] c.entry = "mmio_dump" -> IF n = 4 THEN 3 ELSE 2

\* One operand more than the required ones is taken as the segment.
MutPciLastArg(c, n) ==
  CASE c.entry = "pci_read_x" -> IF n > 4 THEN 5 ELSE 4
    [] c.entry = "pci_write_x" -> IF n > 5 THEN 6 ELSE 5
    [] c.entry = "pci_list" -> 0
PciLastArg(c, n) ==
  CASE c.entry = "pci_read_x" -> IF n > 5 THEN 5 ELSE 4
    [] c.entry = "pci_write_x" -> IF n > 6 THEN 6 ELSE 5
    [] c.entry = "pci_list" -> 0

\* smbus_prologue() takes argv[3] as the register, except for three sizes.
SmbusPrologueLastArg(op) ==
  IF op \in {SMBUS_SIZE_BYTE, SMBUS_QUICK, SMBUS_WRITE_READ} THEN 2 ELSE 3

SmbusLastArg(c) ==
  CASE c.entry = "smbus_read" -> SmbusPrologueLastArg(c.op)
    [] c.entry = "smbus_write" ->
         IF c.op \in {SMBUS_SIZE_BYTE, SMBUS_QUICK} THEN 3 ELSE 4
    [] c.entry \in {"smbus_process_call", "smbus_writeread"} -> 4

\* logic_op() reads argv[1] and then everything up to argc.
LogicLastArg(c, n) ==
  CASE c.entry = "logic_op" -> IF n > 2 THEN n - 1 ELSE 1
    [] c.entry = "not" -> 1
    [] c.entry = "shift" -> 2

\* runon() hands argv + 2 to execvp(), whose first word must exist.
MiscLastArg(c, n) ==
  CASE c.entry \in {"rdtsc", "cpu_list"} -> 0
    [] c.entry = "cpuid" -> IF n = 4 THEN 3 ELSE 2
    [] c.entry = "busy_loop" -> IF n = 2 THEN 1 ELSE 0
    [] c.entry = "runon" -> 2

MsrLastArg(c) == IF c.entry = "rd_msr" THEN 2 ELSE 3

CmosLastArg(c) == IF c.entry = "cmos_rd" THEN 1 ELSE 2

ScomLastArg(c) ==
  CASE c.entry = "rd_scom" -> 2
    [] c.entry = "wr_scom" -> 3
    [] c.entry \in {"cpu_to_chipid", "cpu_to_ex"} -> 1

LastArg(g, c, n) ==
  CASE g = "IO" -> IoLastArg(c)
    [] g \in {"MMIO", "MEM"} -> MmioLastArg(c, n)
    [] g = "PCI" -> PciLastArg(c, n)
    [] g = "SMBus" -> SmbusLastArg(c)
    [] g = "LOGIC" -> LogicLastArg(c, n)
    [] g = "MISC" -> MiscLastArg(c, n)
    [] g = "MSR" -> MsrLastArg(c)
    [] g = "CMOS" -> CmosLastArg(c)
    [] g = "SCOM" -> ScomLastArg(c)

\* Handlers that execute in/out instructions on x86.
PortHandlers == {"io_read_x", "io_write_x"}
-----------------------------------------------------------------------------
\* No handler reads past its argument vector: whatever the command line and
\* whichever way the command was named, the highest argv index the handler
\* dereferences is below the argc it was given.
ArgvInBounds ==
  pc = "handler" =>
    \A g \in Groups :
      cmd_info \in CmdsOf(g) => LastArg(g, cmd_info, argc) < argc

\* Port instructions run only at I/O privilege level 3: the process would be
\* killed by a protection fault otherwise.
PortNeedsIopl ==
  pc = "handler" /\ ARCH_X86 /\ cmd_info.entry \in PortHandlers => iopl = 3
==============================================================================
