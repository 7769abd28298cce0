--------------------------- MODULE LogicToolProofs ---------------------------
(***************************************************************************)
(* Proofs about the dispatcher with the real command tables, and with the  *)
(* logic handlers in it: no handler reads past its argument vector, port   *)
(* instructions run with the privilege they need, and the logic commands   *)
(* print what their operands ask for.                                      *)
(***************************************************************************)
EXTENDS LogicTool, CommandsProofs, CNumbersProofs, FiniteSetTheorems

-----------------------------------------------------------------------------
(* The rows of the tables. *)

\* The number of arguments lies between the limits of a row.
Allowed(c, n) == \A p \in c.params : n >= p.min_args /\ n <= p.max_args

\* A row's parameters are those limits.
LEMMA PrereqAllows ==
  ASSUME NEW c, NEW min \in Int, NEW max \in Int, NEW io \in Int, NEW n \in Int,
         c.params = Prereq(min, max, io), Allowed(c, n)
  PROVE  n >= min /\ n <= max
<1>1. [min_args |-> min, max_args |-> max, iopl_needed |-> io] \in c.params
  BY DEF Prereq
<1> QED
  BY <1>1 DEF Allowed

\* The rows of io_rw.c.
LEMMA IoRows ==
  ASSUME NEW i \in DOMAIN io_cmds
  PROVE  \/ /\ io_cmds[i].entry = "io_read_x" /\ io_cmds[i].params = Prereq(2, 2, 3)
         \/ /\ io_cmds[i].entry = "io_write_x" /\ io_cmds[i].params = Prereq(3, 3, 3)
BY DEF io_cmds, Cmd

\* The rows of mmio_rw.c.
LEMMA MmioRows ==
  ASSUME NEW t \in {mmio_cmds, cacheable_mmio_cmds}, NEW i \in DOMAIN t
  PROVE  \/ /\ t[i].entry = "mmio_read_x" /\ t[i].params = Prereq(2, 2, 0)
         \/ /\ t[i].entry = "mmio_write_x" /\ t[i].params = Prereq(3, 3, 0)
         \/ /\ t[i].entry = "mmio_dump" /\ t[i].params = Prereq(3, 4, 0)
BY DEF mmio_cmds, cacheable_mmio_cmds, Cmd, mmio_rd_params, mmio_wr_params, mmio_dump_params

\* The rows of pci_rw.c.
LEMMA PciRows ==
  ASSUME NEW i \in DOMAIN pci_cmds
  PROVE  \/ /\ pci_cmds[i].entry = "pci_read_x" /\ pci_cmds[i].params = Prereq(5, 6, 0)
         \/ /\ pci_cmds[i].entry = "pci_write_x" /\ pci_cmds[i].params = Prereq(6, 7, 0)
         \/ /\ pci_cmds[i].entry = "pci_list" /\ pci_cmds[i].params = {}
BY DEF pci_cmds, Cmd

\* The rows of smbus_rw.c.
LEMMA SmbusRows ==
  ASSUME NEW i \in DOMAIN smbus_cmds
  PROVE  LET c == smbus_cmds[i]
         IN  \/ /\ c.entry = "smbus_read" /\ c.op \in {8, 16, 32, 64, SMBUS_SIZE_BLOCK}
                /\ c.params = Prereq(4, 4, 0)
             \/ /\ c.entry = "smbus_read" /\ c.op = SMBUS_SIZE_BYTE
                /\ c.params = Prereq(3, 3, 0)
             \/ /\ c.entry = "smbus_write" /\ c.op \in {8, 16, 32, 64, SMBUS_SIZE_BLOCK}
                /\ c.params = Prereq(5, 5, 0)
             \/ /\ c.entry = "smbus_write" /\ c.op \in {SMBUS_SIZE_BYTE, SMBUS_QUICK}
                /\ c.params = Prereq(4, 4, 0)
             \/ /\ c.entry \in {"smbus_process_call", "smbus_writeread"}
                /\ c.params = Prereq(5, 5, 0)
BY SMTT(30) DEF smbus_cmds, Cmd

\* The rows of logic.c.
LEMMA LogicRows ==
  ASSUME NEW i \in DOMAIN logic_cmds
  PROVE  LET c == logic_cmds[i]
         IN  \/ /\ c.entry = "logic_op" /\ c.params = Prereq(2, INT_MAX, 0)
                /\ \/ c.name = "or" /\ c.op = 0
                   \/ c.name = "and" /\ c.op = 1
                   \/ c.name = "xor" /\ c.op = 2
             \/ /\ c.entry = "logic_op" /\ c.params = Prereq(3, 3, 0)
                /\ \/ c.name = "bts" /\ c.op = 5
                   \/ c.name = "btr" /\ c.op = 6
             \/ /\ c.entry = "shift" /\ c.params = Prereq(3, 3, 0)
                /\ \/ c.name = "shl" /\ c.op = 3
                   \/ c.name = "shr" /\ c.op = 4
             \/ c.entry = "not" /\ c.name = "not" /\ c.params = Prereq(2, 2, 0)
BY DEF logic_cmds, Cmd, OR_OP, AND_OP, XOR_OP, SHL_OP, SHR_OP, BTS_OP, BTR_OP

\* The rows of misc.c.
LEMMA MiscRows ==
  ASSUME NEW i \in DOMAIN misc_cmds
  PROVE  LET c == misc_cmds[i]
         IN  \/ c.entry \in {"rdtsc", "busy_loop", "cpu_list"} /\ c.params = {}
             \/ c.entry = "cpuid" /\ c.params = Prereq(3, 4, 0)
             \/ c.entry = "runon" /\ c.params = Prereq(3, INT_MAX, 0)
BY DEF misc_cmds, Cmd

\* The rows of msr.c, cmos_rw.c and scom.c.
LEMMA RegisterRows ==
  /\ \A i \in DOMAIN msr_cmds :
       \/ msr_cmds[i].entry = "rd_msr" /\ msr_cmds[i].params = Prereq(3, 3, 0)
       \/ msr_cmds[i].entry = "wr_msr" /\ msr_cmds[i].params = Prereq(4, 4, 0)
  /\ \A i \in DOMAIN cmos_cmds :
       \/ cmos_cmds[i].entry = "cmos_rd" /\ cmos_cmds[i].params = Prereq(2, 2, 0)
       \/ cmos_cmds[i].entry = "cmos_wr" /\ cmos_cmds[i].params = Prereq(3, 3, 0)
  /\ \A i \in DOMAIN scom_cmds :
       \/ scom_cmds[i].entry = "rd_scom" /\ scom_cmds[i].params = Prereq(3, 3, 0)
       \/ scom_cmds[i].entry = "wr_scom" /\ scom_cmds[i].params = Prereq(4, 4, 0)
       \/ /\ scom_cmds[i].entry \in {"cpu_to_chipid", "cpu_to_ex"}
          /\ scom_cmds[i].params = Prereq(2, 2, 0)
BY DEF msr_cmds, cmos_cmds, scom_cmds, Cmd

\* Which array a command is in.
LEMMA CommandRow ==
  ASSUME NEW g \in Groups, NEW c \in CmdsOf(g)
  PROVE  /\ g \in {"IO", "MMIO", "MEM", "PCI", "SMBus", "LOGIC", "MISC", "MSR", "CMOS", "SCOM"}
         /\ \E i \in DOMAIN TableOf(g) : c = TableOf(g)[i]
<1>1. g \in AllGroups /\ commands[g] = TableOf(g)
  BY BuildAssumption
<1>2. g \in {"IO", "MMIO", "MEM", "PCI", "SMBus", "LOGIC", "MISC", "MSR", "CMOS", "SCOM"}
  BY <1>1 DEF AllGroups
<1>3. \E i \in DOMAIN TableOf(g) : c = TableOf(g)[i]
  BY <1>1 DEF CmdsOf
<1> QED
  BY <1>2, <1>3

\* An allowed number of arguments covers every argument that the handler of
\* the row reads.
LEMMA ArgumentsSuffice ==
  ASSUME NEW g \in Groups, NEW c \in CmdsOf(g), NEW n \in Nat, n > 0, Allowed(c, n)
  PROVE  LastArg(g, c, n) < n
<1>0. /\ g \in {"IO", "MMIO", "MEM", "PCI", "SMBus", "LOGIC", "MISC", "MSR", "CMOS", "SCOM"}
      /\ \E i \in DOMAIN TableOf(g) : c = TableOf(g)[i]
  BY CommandRow
<1>1. PICK i \in DOMAIN TableOf(g) : c = TableOf(g)[i]
  BY <1>0
<1>p. ASSUME NEW min \in Int, NEW max \in Int, NEW io \in Int, c.params = Prereq(min, max, io)
      PROVE  n >= min /\ n <= max
  BY <1>p, PrereqAllows
<1>2. CASE g = "IO"
  <2>1. TableOf(g) = io_cmds /\ LastArg(g, c, n) = IoLastArg(c)
    BY <1>2 DEF TableOf, LastArg
  <2>2. \/ c.entry = "io_read_x" /\ c.params = Prereq(2, 2, 3)
        \/ c.entry = "io_write_x" /\ c.params = Prereq(3, 3, 3)
    BY <1>1, <2>1, IoRows
  <2>3. \/ c.entry = "io_read_x" /\ n >= 2
        \/ c.entry = "io_write_x" /\ n >= 3
    BY <1>p, <2>2
  <2> QED
    BY <2>1, <2>3 DEF IoLastArg
<1>3. CASE g \in {"MMIO", "MEM"}
  <2>1. TableOf(g) \in {mmio_cmds, cacheable_mmio_cmds} /\ LastArg(g, c, n) = MmioLastArg(c, n)
    BY <1>3 DEF TableOf, LastArg
  <2>2. \/ c.entry = "mmio_read_x" /\ c.params = Prereq(2, 2, 0)
        \/ c.entry = "mmio_write_x" /\ c.params = Prereq(3, 3, 0)
        \/ c.entry = "mmio_dump" /\ c.params = Prereq(3, 4, 0)
    BY <1>1, <2>1, MmioRows
  <2>3. \/ c.entry = "mmio_read_x" /\ n >= 2
        \/ c.entry \in {"mmio_write_x", "mmio_dump"} /\ n >= 3
    BY <1>p, <2>2
  <2> QED
    BY <2>1, <2>3 DEF MmioLastArg
<1>4. CASE g = "PCI"
  <2>1. TableOf(g) = pci_cmds /\ LastArg(g, c, n) = PciLastArg(c, n)
    BY <1>4 DEF TableOf, LastArg
  <2>2. \/ c.entry = "pci_read_x" /\ c.params = Prereq(5, 6, 0)
        \/ c.entry = "pci_write_x" /\ c.params = Prereq(6, 7, 0)
        \/ c.entry = "pci_list" /\ c.params = {}
    BY <1>1, <2>1, PciRows
  <2>3. \/ c.entry = "pci_read_x" /\ n >= 5
        \/ c.entry = "pci_write_x" /\ n >= 6
        \/ c.entry = "pci_list"
    BY <1>p, <2>2
  <2> QED
    BY <2>1, <2>3 DEF PciLastArg
<1>5. CASE g = "SMBus"
  <2>1. TableOf(g) = smbus_cmds /\ LastArg(g, c, n) = SmbusLastArg(c)
    BY <1>5 DEF TableOf, LastArg
  <2>2. \/ /\ c.entry = "smbus_read" /\ c.op \in {8, 16, 32, 64, SMBUS_SIZE_BLOCK}
           /\ c.params = Prereq(4, 4, 0)
        \/ c.entry = "smbus_read" /\ c.op = SMBUS_SIZE_BYTE /\ c.params = Prereq(3, 3, 0)
        \/ /\ c.entry = "smbus_write" /\ c.op \in {8, 16, 32, 64, SMBUS_SIZE_BLOCK}
           /\ c.params = Prereq(5, 5, 0)
        \/ /\ c.entry = "smbus_write" /\ c.op \in {SMBUS_SIZE_BYTE, SMBUS_QUICK}
           /\ c.params = Prereq(4, 4, 0)
        \/ c.entry \in {"smbus_process_call", "smbus_writeread"} /\ c.params = Prereq(5, 5, 0)
    BY <1>1, <2>1, SmbusRows
  <2>3. \/ c.entry = "smbus_read" /\ n >= 4
        \/ c.entry = "smbus_read" /\ c.op = SMBUS_SIZE_BYTE /\ n >= 3
        \/ c.entry = "smbus_write" /\ n >= 5
        \/ c.entry = "smbus_write" /\ c.op \in {SMBUS_SIZE_BYTE, SMBUS_QUICK} /\ n >= 4
        \/ c.entry \in {"smbus_process_call", "smbus_writeread"} /\ n >= 5
    BY <1>p, <2>2
  <2> QED
    BY <2>1, <2>3 DEF SmbusLastArg, SmbusPrologueLastArg
<1>6. CASE g = "LOGIC"
  <2>1. TableOf(g) = logic_cmds /\ LastArg(g, c, n) = LogicLastArg(c, n)
    BY <1>6 DEF TableOf, LastArg
  <2>2. \/ c.entry = "logic_op" /\ c.params = Prereq(2, INT_MAX, 0)
        \/ c.entry \in {"logic_op", "shift"} /\ c.params = Prereq(3, 3, 0)
        \/ c.entry = "not" /\ c.params = Prereq(2, 2, 0)
    BY <1>1, <2>1, LogicRows
  <2>3. \/ c.entry = "logic_op" /\ n >= 2
        \/ c.entry = "shift" /\ n >= 3
        \/ c.entry = "not" /\ n >= 2
    BY <1>p, <2>2 DEF INT_MAX
  <2> QED
    BY <2>1, <2>3 DEF LogicLastArg
<1>7. CASE g = "MISC"
  <2>1. TableOf(g) = misc_cmds /\ LastArg(g, c, n) = MiscLastArg(c, n)
    BY <1>7 DEF TableOf, LastArg
  <2>2. \/ c.entry \in {"rdtsc", "busy_loop", "cpu_list"} /\ c.params = {}
        \/ c.entry = "cpuid" /\ c.params = Prereq(3, 4, 0)
        \/ c.entry = "runon" /\ c.params = Prereq(3, INT_MAX, 0)
    BY <1>1, <2>1, MiscRows
  <2>3. \/ c.entry \in {"rdtsc", "busy_loop", "cpu_list"}
        \/ c.entry \in {"cpuid", "runon"} /\ n >= 3
    BY <1>p, <2>2 DEF INT_MAX
  <2> QED
    BY <2>1, <2>3 DEF MiscLastArg
<1>8. CASE g = "MSR"
  <2>1. TableOf(g) = msr_cmds /\ LastArg(g, c, n) = MsrLastArg(c)
    BY <1>8 DEF TableOf, LastArg
  <2>2. \/ c.entry = "rd_msr" /\ c.params = Prereq(3, 3, 0)
        \/ c.entry = "wr_msr" /\ c.params = Prereq(4, 4, 0)
    BY <1>1, <2>1, RegisterRows
  <2>3. \/ c.entry = "rd_msr" /\ n >= 3
        \/ c.entry = "wr_msr" /\ n >= 4
    BY <1>p, <2>2
  <2> QED
    BY <2>1, <2>3 DEF MsrLastArg
<1>9. CASE g = "CMOS"
  <2>1. TableOf(g) = cmos_cmds /\ LastArg(g, c, n) = CmosLastArg(c)
    BY <1>9 DEF TableOf, LastArg
  <2>2. \/ c.entry = "cmos_rd" /\ c.params = Prereq(2, 2, 0)
        \/ c.entry = "cmos_wr" /\ c.params = Prereq(3, 3, 0)
    BY <1>1, <2>1, RegisterRows
  <2>3. \/ c.entry = "cmos_rd" /\ n >= 2
        \/ c.entry = "cmos_wr" /\ n >= 3
    BY <1>p, <2>2
  <2> QED
    BY <2>1, <2>3 DEF CmosLastArg
<1>10. CASE g = "SCOM"
  <2>1. TableOf(g) = scom_cmds /\ LastArg(g, c, n) = ScomLastArg(c)
    BY <1>10 DEF TableOf, LastArg
  <2>2. \/ c.entry = "rd_scom" /\ c.params = Prereq(3, 3, 0)
        \/ c.entry = "wr_scom" /\ c.params = Prereq(4, 4, 0)
        \/ c.entry \in {"cpu_to_chipid", "cpu_to_ex"} /\ c.params = Prereq(2, 2, 0)
    BY <1>1, <2>1, RegisterRows
  <2>3. \/ c.entry = "rd_scom" /\ n >= 3
        \/ c.entry = "wr_scom" /\ n >= 4
        \/ c.entry \in {"cpu_to_chipid", "cpu_to_ex"} /\ n >= 2
    BY <1>p, <2>2
  <2> QED
    BY <2>1, <2>3 DEF ScomLastArg
<1> QED
  BY <1>0, <1>2, <1>3, <1>4, <1>5, <1>6, <1>7, <1>8, <1>9, <1>10

\* Only the rows of io_rw.c have a handler that executes port instructions,
\* and they ask for privilege level 3.
LEMMA PortRows ==
  ASSUME NEW c \in Cmds, c.entry \in PortHandlers
  PROVE  c.params \in {Prereq(2, 2, 3), Prereq(3, 3, 3)}
<1>1. PICK g \in Groups : c \in CmdsOf(g)
  BY DEF Cmds
<1>2. /\ g \in {"IO", "MMIO", "MEM", "PCI", "SMBus", "LOGIC", "MISC", "MSR", "CMOS", "SCOM"}
      /\ \E i \in DOMAIN TableOf(g) : c = TableOf(g)[i]
  BY <1>1, CommandRow
<1>3. PICK i \in DOMAIN TableOf(g) : c = TableOf(g)[i]
  BY <1>2
<1> USE DEF PortHandlers
<1>4. CASE g = "IO"
  BY <1>3, <1>4, IoRows DEF TableOf
<1>5. CASE g \in {"MMIO", "MEM"}
  <2>1. TableOf(g) \in {mmio_cmds, cacheable_mmio_cmds}
    BY <1>5 DEF TableOf
  <2> QED
    BY <1>3, <2>1, MmioRows
<1>6. CASE g = "PCI"
  BY <1>3, <1>6, PciRows DEF TableOf
<1>7. CASE g = "SMBus"
  BY <1>3, <1>7, SmbusRows DEF TableOf
<1>8. CASE g = "LOGIC"
  BY <1>3, <1>8, LogicRows DEF TableOf
<1>9. CASE g = "MISC"
  BY <1>3, <1>9, MiscRows DEF TableOf
<1>10. CASE g \in {"MSR", "CMOS", "SCOM"}
  BY <1>3, <1>10, RegisterRows DEF TableOf
<1> QED
  BY <1>2, <1>4, <1>5, <1>6, <1>7, <1>8, <1>9, <1>10

-----------------------------------------------------------------------------
(***************************************************************************)
(* What check_prereqs() leaves to the handler: it is called only with an   *)
(* allowed number of arguments and, where the row asks for it, at that     *)
(* privilege level.  Nothing between the check and the call may change     *)
(* argc, the command or the level, which is why this is kept from the      *)
(* check on.                                                               *)
(***************************************************************************)

Prepared ==
  pc \in {"entry", "handler"} =>
    /\ Allowed(cmd_info, argc)
    /\ IoplNeeded = {} \/ \E p \in IoplNeeded : iopl = p.iopl_needed

\* Every step of the process keeps it.
LEMMA PreparedKept == IInv /\ Prepared /\ [Next]_vars => Prepared'
<1> SUFFICES ASSUME IInv, Prepared, [Next]_vars PROVE Prepared'
  OBVIOUS
<1>1. CASE register_command_group \/ run_command \/ iotools_fallback \/ main \/ entry_returns
  <2>1. pc' \notin {"entry", "handler"}
    BY <1>1 DEF register_command_group, run_command, iotools_fallback, main, entry_returns, Fallback
  <2> QED
    BY <2>1 DEF Prepared
<1>2. CASE check_prereqs
  <2>0. UNCHANGED <<line, skip, cmd_info>>
    BY <1>2 DEF check_prereqs
  <2>1. argc' = argc /\ IoplNeeded' = IoplNeeded /\ cmd_info' = cmd_info
    BY <2>0 DEF argc, IoplNeeded
  <2>2. CASE pc' = "exit"
    BY <2>2 DEF Prepared
  <2>3. CASE ArgsOk /\ IoplNeeded = {}
    <3>1. Allowed(cmd_info, argc)
      BY <2>3 DEF ArgsOk, Allowed
    <3>2. Allowed(cmd_info', argc') /\ IoplNeeded' = {}
      BY <2>1, <2>3, <3>1
    <3> QED
      BY <3>2 DEF Prepared
  <2>4. CASE ArgsOk /\ \E p \in IoplNeeded : iopl' = p.iopl_needed
    <3>1. Allowed(cmd_info, argc)
      BY <2>4 DEF ArgsOk, Allowed
    <3>2. Allowed(cmd_info', argc') /\ \E p \in IoplNeeded' : iopl' = p.iopl_needed
      BY <2>1, <2>4, <3>1
    <3> QED
      BY <3>2 DEF Prepared
  <2> QED
    BY <1>2, <2>2, <2>3, <2>4 DEF check_prereqs
<1>3. CASE entry \/ UNCHANGED vars
  <2>0. UNCHANGED <<line, skip, cmd_info, iopl>>
    BY <1>3 DEF entry, vars
  <2>1. argc' = argc /\ IoplNeeded' = IoplNeeded /\ cmd_info' = cmd_info /\ iopl' = iopl
    BY <2>0 DEF argc, IoplNeeded
  <2>2. pc' \in {"entry", "handler"} => pc \in {"entry", "handler"}
    BY <1>3 DEF entry, vars
  <2> QED
    BY <2>1, <2>2 DEF Prepared
<1> QED
  BY <1>1, <1>2, <1>3 DEF Next

\* It holds of every process.
LEMMA PreparedAlways == Spec => [](IInv /\ Prepared)
<1>1. Init => Prepared
  BY DEF Init, Prepared
<1> QED
  BY <1>1, InitEstablishes, StepPreserves, PreparedKept, PTL DEF Spec

\* The two promises follow from it.
LEMMA PreparedSuffices == IInv /\ Prepared => ArgvInBounds /\ PortNeedsIopl
<1> SUFFICES ASSUME IInv, Prepared, pc = "handler"
             PROVE  /\ \A g \in Groups :
                         cmd_info \in CmdsOf(g) => LastArg(g, cmd_info, argc) < argc
                    /\ ARCH_X86 /\ cmd_info.entry \in PortHandlers => iopl = 3
  BY DEF ArgvInBounds, PortNeedsIopl
<1>0. /\ Allowed(cmd_info, argc)
      /\ IoplNeeded = {} \/ \E p \in IoplNeeded : iopl = p.iopl_needed
  BY DEF Prepared
<1>1. argc \in Nat /\ argc > 0
  <2>1. line \in Seq(Seq(STRING)) /\ skip \in 0 .. Len(line) - 1
    BY LineAssumption DEF IInv, TypeOK
  <2> QED
    BY <2>1 DEF argc
<1>2. cmd_info \in Cmds
  BY ResolvedIsCommand DEF IInv, ControlOK
<1>3. ASSUME NEW g \in Groups, cmd_info \in CmdsOf(g) PROVE LastArg(g, cmd_info, argc) < argc
  BY <1>0, <1>1, <1>3, ArgumentsSuffice
<1>4. ASSUME ARCH_X86, cmd_info.entry \in PortHandlers PROVE iopl = 3
  <2>1. cmd_info.params \in {Prereq(2, 2, 3), Prereq(3, 3, 3)}
    BY <1>2, <1>4, PortRows
  <2>2. \A p \in cmd_info.params : p.iopl_needed = 3
    BY <2>1 DEF Prereq
  <2>3. cmd_info.params # {}
    BY <2>1 DEF Prereq
  <2>4. IoplNeeded # {}
    BY <1>4, <2>2, <2>3 DEF IoplNeeded
  <2>5. \A p \in IoplNeeded : p.iopl_needed = 3
    BY <2>2 DEF IoplNeeded
  <2> QED
    BY <1>0, <2>4, <2>5
<1> QED
  BY <1>3, <1>4

\* No handler of the program reads past its argument vector, for every build,
\* every link order and every command line.
THEOREM HandlersStayInArgv == Spec => []ArgvInBounds
<1> QED
  BY PreparedAlways, PreparedSuffices, PTL

\* Port instructions run only at I/O privilege level 3.
THEOREM PortsHavePrivilege == Spec => []PortNeedsIopl
<1> QED
  BY PreparedAlways, PreparedSuffices, PTL

-----------------------------------------------------------------------------
(* The dispatcher with the logic handlers in it. *)

\* A step of the composition is a step of the dispatcher, or none.
LEMMA ToolStepDispatches == [ToolNext]_toolVars => [Next]_vars
<1> SUFFICES ASSUME [ToolNext]_toolVars PROVE [Next]_vars
  OBVIOUS
<1>1. CASE Dispatch
  BY <1>1 DEF Dispatch, Next
<1>2. CASE entry_logic \/ entry_other
  BY <1>2 DEF entry_logic, entry_other, Next
<1>3. CASE logic_runs
  BY <1>3 DEF logic_runs
<1>4. CASE logic_returns \/ other_returns
  BY <1>4 DEF logic_returns, other_returns, Next
<1>5. CASE UNCHANGED toolVars
  BY <1>5 DEF toolVars
<1> QED
  BY <1>1, <1>2, <1>3, <1>4, <1>5 DEF ToolNext

(***************************************************************************)
(* The inductive invariant of the composition.  Inside the loop of         *)
(* logic_op() the result is that of the operands seen so far: bit by bit,  *)
(* those among the first m operands that have the bit.                     *)
(***************************************************************************)

HavingIn(nums, m, b) == {k \in 1 .. m : b \in OperandBits(nums, k)}

FoldedIn(name, nums, m, b) ==
  CASE name = "or" -> HavingIn(nums, m, b) # {}
    [] name = "and" -> HavingIn(nums, m, b) = 1 .. m
    [] name = "xor" -> Cardinality(HavingIn(nums, m, b)) % 2 = 1

\* What bts and btr may make of their first operand.
BitOpResult(name, nums, value) ==
  \E mask \in BitMasks(strtoull(nums[2])) :
    value = IF name = "bts" THEN OperandBits(nums, 1) \union mask ELSE OperandBits(nums, 1) \ mask

\* The value that m operands make.
Partial(name, nums, m, value) ==
  /\ name \in {"or", "and", "xor"} =>
       \A b \in Positions : b \in value <=> FoldedIn(name, nums, m, b)
  /\ name \in {"bts", "btr"} =>
       /\ Len(nums) = 2
       /\ m = 1 => value = OperandBits(nums, 1)
       /\ m = 2 => BitOpResult(name, nums, value)

\* m operands are done and the others are to come.
Remaining(nums, m, rest) ==
  /\ Len(rest) = Len(nums) - m
  /\ \A k \in 1 .. Len(rest) : rest[k] = nums[m + k]

LoopInv ==
  /\ call.op = cmd_info.name /\ call.op \in FoldOps
  /\ todo \in Seq(Int)
  /\ \E m \in 1 .. Len(Numbers) :
       Remaining(Numbers, m, todo) /\ Partial(cmd_info.name, Numbers, m, result)

LogicInv ==
  /\ stage \in {"idle", "loop", "done"} /\ cond \in {0, 1}
  /\ pc \in {"ctors", "fallback"} => ~InLogic
  /\ pc \in {"ctors", "prereqs", "entry", "fallback"} => stage = "idle"
  /\ pc = "handler" /\ InLogic => stage # "idle"
  /\ stage = "idle" => stdout = <<>>
  /\ stage = "loop" => pc = "handler" /\ InLogic /\ stdout = <<>> /\ LoopInv
  /\ stage = "done" => InLogic /\ stdout = <<result>> /\ Exact(cmd_info.name, Numbers, result)
  /\ pc = "exit" /\ InLogic => (stage = "done" <=> rc >= 0) /\ stage # "loop"
  /\ pc = "exited" /\ InLogic => (stage = "done" <=> status = "EXIT_SUCCESS") /\ stage # "loop"

ToolInv == IInv /\ Prepared /\ LogicInv

-----------------------------------------------------------------------------
(* Bits. *)

\* A number has bits at its positions only, and strtoull() returns one.
LEMMA BitsTyped ==
  ASSUME NEW n
  PROVE  /\ Bits(n) \subseteq Positions
         /\ n \in Int => strtoull(n) \in Nat
<1>1. Bits(n) \subseteq Positions
  BY Zenon DEF Bits
<1>2. n \in Int => strtoull(n) \in Nat
  <2>1. ULLong \in Nat /\ ULLong > 0
    BY LogicAssumption
  <2>2. ASSUME n \in Int PROVE Parse(n, ULLong) \in 0 .. ULLong - 1
    BY <2>1, <2>2, ParseRange
  <2> QED
    BY <2>1, <2>2 DEF strtoull
<1> QED
  BY <1>1, <1>2

\* One operand more.
LEMMA HavingStep ==
  ASSUME NEW nums, NEW m \in Nat, NEW b
  PROVE  /\ HavingIn(nums, m + 1, b) =
              IF b \in OperandBits(nums, m + 1) THEN HavingIn(nums, m, b) \union {m + 1}
                                                ELSE HavingIn(nums, m, b)
         /\ m + 1 \notin HavingIn(nums, m, b)
         /\ IsFiniteSet(HavingIn(nums, m, b))
         /\ HavingIn(nums, m, b) \subseteq 1 .. m
<1>1. HavingIn(nums, m, b) \subseteq 1 .. m
  BY DEF HavingIn
<1>2. IsFiniteSet(1 .. m)
  BY FS_Interval
<1>3. IsFiniteSet(HavingIn(nums, m, b))
  BY <1>1, <1>2, FS_Subset
<1>4. 1 .. m + 1 = (1 .. m) \union {m + 1}
  OBVIOUS
<1>5. HavingIn(nums, m + 1, b) =
        IF b \in OperandBits(nums, m + 1) THEN HavingIn(nums, m, b) \union {m + 1}
                                          ELSE HavingIn(nums, m, b)
  BY <1>4 DEF HavingIn
<1> QED
  BY <1>1, <1>3, <1>5

\* A bit of the result after a turn, from that bit before and of the operand.
Turned(name, has, bit) ==
  CASE name = "or" -> has \/ bit
    [] name = "and" -> has /\ bit
    [] name = "xor" -> ~(has <=> bit)

\* A turn of the loop folds the next operand into the result.
LEMMA FoldStep ==
  ASSUME NEW nums, NEW m \in Nat, m >= 1, NEW b,
         NEW name \in {"or", "and", "xor"},
         NEW has \in BOOLEAN, has <=> FoldedIn(name, nums, m, b)
  PROVE  FoldedIn(name, nums, m + 1, b) <=> Turned(name, has, b \in OperandBits(nums, m + 1))
<1> USE DEF Turned
<1> DEFINE S == HavingIn(nums, m, b)
           T == HavingIn(nums, m + 1, b)
           Bit == b \in OperandBits(nums, m + 1)
<1>1. /\ T = IF Bit THEN S \union {m + 1} ELSE S
      /\ m + 1 \notin S /\ IsFiniteSet(S) /\ S \subseteq 1 .. m
  BY HavingStep
<1>2. CASE name = "or"
  <2>1. FoldedIn(name, nums, m, b) <=> S # {}
    BY <1>2 DEF FoldedIn
  <2>2. FoldedIn(name, nums, m + 1, b) <=> T # {}
    BY <1>2 DEF FoldedIn
  <2> HIDE DEF S, T
  <2>3. T # {} <=> (S # {} \/ Bit)
    BY <1>1
  <2> QED
    BY <1>2, <2>1, <2>2, <2>3
<1>3. CASE name = "and"
  <2>1. FoldedIn(name, nums, m, b) <=> S = 1 .. m
    BY <1>3 DEF FoldedIn
  <2>2. FoldedIn(name, nums, m + 1, b) <=> T = 1 .. m + 1
    BY <1>3 DEF FoldedIn
  <2> HIDE DEF S, T
  <2>3. T = 1 .. m + 1 <=> (S = 1 .. m /\ Bit)
    <3>1. 1 .. m + 1 = (1 .. m) \union {m + 1} /\ m + 1 \notin 1 .. m
      OBVIOUS
    <3>2. CASE Bit
      BY <1>1, <3>1, <3>2
    <3>3. CASE ~Bit
      BY <1>1, <3>1, <3>3
    <3> QED
      BY <3>2, <3>3
  <2> QED
    BY <1>3, <2>1, <2>2, <2>3
<1>4. CASE name = "xor"
  <2>1. FoldedIn(name, nums, m, b) <=> Cardinality(S) % 2 = 1
    BY <1>4 DEF FoldedIn
  <2>2. FoldedIn(name, nums, m + 1, b) <=> Cardinality(T) % 2 = 1
    BY <1>4 DEF FoldedIn
  <2> HIDE DEF S, T
  <2>3. Cardinality(S) \in Nat
    BY <1>1, FS_CardinalityType
  <2>4. Bit => Cardinality(T) = Cardinality(S) + 1
    BY <1>1, FS_AddElement
  <2>5. ~Bit => T = S
    BY <1>1
  <2>6. Cardinality(T) % 2 = 1 <=> ~(Cardinality(S) % 2 = 1 <=> Bit)
    <3>1. CASE Bit
      BY <2>3, <2>4, <3>1
    <3>2. CASE ~Bit
      BY <2>5, <3>2
    <3> QED
      BY <3>1, <3>2
  <2> QED
    BY <1>4, <2>1, <2>2, <2>6
<1> QED
  BY <1>2, <1>3, <1>4

\* A mask made of a bit number.
LEMMA MaskExact ==
  ASSUME NEW bit \in Nat, NEW mask \in BitMasks(bit)
  PROVE  /\ bit < IntBits => bit \in mask
         /\ \A b \in Positions \ {bit} :
              (b < bit /\ bit < IntBits) \/ bit < IntBits - 1 => b \notin mask
<1>0. LLBits \in Nat /\ IntBits \in 2 .. LLBits
  BY LogicAssumption
<1>1. CASE bit < IntBits
  <2>1. mask = IF bit = IntBits - 1 THEN IntBits - 1 .. LLBits - 1 ELSE {bit}
    BY <1>1 DEF BitMasks, IntShift
  <2>2. CASE bit = IntBits - 1
    BY <1>0, <2>1, <2>2 DEF Positions
  <2>3. CASE bit # IntBits - 1
    BY <1>0, <2>1, <2>3 DEF Positions
  <2> QED
    BY <2>2, <2>3
<1>2. CASE ~(bit < IntBits)
  BY <1>0, <1>2
<1> QED
  BY <1>1, <1>2

-----------------------------------------------------------------------------
(* From the line to the call. *)

\* The handler gets the operands of the line, whichever way it was named.
LEMMA CallHasNumbers ==
  ASSUME TypeOK, Resolved
  PROVE  /\ Numbers \in Seq(Int) /\ Len(Numbers) = argc - 1 /\ argc \in Nat
         /\ LogicCall(cmd_info, argv).args = Numbers
<1>0. line \in Lines /\ line \in Seq(Seq(STRING)) /\ skip \in 0 .. Len(line) - 1
  BY LineAssumption DEF TypeOK
<1>1. Len(line) \in Nat /\ argc \in Nat /\ Len(argv) = argc /\ argc = Len(line) - skip
  BY <1>0, ArgcIsLength DEF argc
<1>2. NamedByOperand <=> Abstract!ByOperand(line) # {}
  BY <1>1 DEF NamedByOperand, Abstract!ByOperand, Abstract!Named
<1>3. (IF NamedByOperand THEN 2 ELSE 1) = skip + 1
  BY <1>2 DEF Resolved
<1>4. Numbers = [k \in 1 .. Len(line) - (skip + 1) |-> Spells(line[k + (skip + 1)])]
  BY <1>3 DEF Numbers
<1>5. Len(line) - (skip + 1) = argc - 1 /\ argc - 1 \in Nat
  BY <1>0, <1>1
<1>6. ASSUME NEW k \in 1 .. argc - 1 PROVE Spells(line[k + (skip + 1)]) \in Int
  <2>1. k + (skip + 1) \in DOMAIN line
    BY <1>0, <1>1
  <2> QED
    BY <1>0, <2>1, SpellsAssumption
<1>7. Numbers \in Seq(Int) /\ Len(Numbers) = argc - 1
  BY <1>4, <1>5, <1>6
<1>8. LogicCall(cmd_info, argv).args = [k \in 1 .. Len(argv) - 1 |-> Spells(argv[k + 1])]
  BY DEF LogicCall
<1>9. ASSUME NEW k \in 1 .. argc - 1 PROVE argv[k + 1] = line[k + (skip + 1)]
  <2> DEFINE s == skip
             e == Len(line)
  <2>1. s \in Nat /\ e \in Nat /\ k + 1 \in 1 .. e - s /\ k \in Nat /\ line \in Seq(Seq(STRING))
    BY <1>0, <1>1
  <2>2. argv = SubSeq(line, s + 1, e)
    BY DEF argv
  <2> HIDE DEF s, e
  <2>3. SubSeq(line, s + 1, e)[k + 1] = line[(s + 1) + (k + 1) - 1]
    BY <2>1
  <2>4. (s + 1) + (k + 1) - 1 = k + (s + 1)
    BY <2>1
  <2> QED
    BY <2>2, <2>3, <2>4 DEF s
<1> QED
  BY <1>1, <1>4, <1>5, <1>7, <1>8, <1>9

\* The call is of the operation that the command's name says, with as many
\* operands as it needs.
LEMMA CallHasName ==
  ASSUME InLogic, NEW av, NEW n \in Nat, Allowed(cmd_info, n)
  PROVE  /\ LogicCall(cmd_info, av).op = cmd_info.name
         /\ \/ cmd_info.name \in {"or", "and", "xor"} /\ n >= 2
            \/ cmd_info.name \in {"bts", "btr", "shl", "shr"} /\ n = 3
            \/ cmd_info.name = "not" /\ n = 2
<1> DEFINE c == cmd_info
<1>1. "LOGIC" \in Groups /\ c \in CmdsOf("LOGIC")
  BY DEF InLogic
<1>2. PICK i \in DOMAIN TableOf("LOGIC") : c = TableOf("LOGIC")[i]
  BY <1>1, CommandRow
<1>3. TableOf("LOGIC") = logic_cmds
  BY DEF TableOf
<1> HIDE DEF c
<1>4. \/ /\ c.entry = "logic_op" /\ c.params = Prereq(2, INT_MAX, 0)
         /\ \/ c.name = "or" /\ c.op = 0
            \/ c.name = "and" /\ c.op = 1
            \/ c.name = "xor" /\ c.op = 2
      \/ /\ c.entry = "logic_op" /\ c.params = Prereq(3, 3, 0)
         /\ \/ c.name = "bts" /\ c.op = 5
            \/ c.name = "btr" /\ c.op = 6
      \/ /\ c.entry = "shift" /\ c.params = Prereq(3, 3, 0)
         /\ \/ c.name = "shl" /\ c.op = 3
            \/ c.name = "shr" /\ c.op = 4
      \/ c.entry = "not" /\ c.name = "not" /\ c.params = Prereq(2, 2, 0)
  BY <1>2, <1>3, LogicRows
<1>5. ASSUME NEW min \in Int, NEW max \in Int, NEW io \in Int, c.params = Prereq(min, max, io)
      PROVE  n >= min /\ n <= max
  BY <1>5, PrereqAllows DEF c
<1>6. \/ c.name \in {"or", "and", "xor"} /\ n >= 2
      \/ c.name \in {"bts", "btr", "shl", "shr"} /\ n = 3
      \/ c.name = "not" /\ n = 2
  BY <1>4, <1>5 DEF INT_MAX
<1>7. LogicCall(c, av).op = c.name
  BY <1>4 DEF LogicCall, OpName
<1> QED
  BY <1>6, <1>7 DEF c

\* One operand is what the first operand alone makes.
LEMMA FirstOperand ==
  ASSUME NEW nums \in Seq(Int), Len(nums) >= 1,
         NEW name \in FoldOps, name \in {"bts", "btr"} => Len(nums) = 2
  PROVE  Partial(name, nums, 1, OperandBits(nums, 1))
<1>1. ASSUME NEW b, name \in {"or", "and", "xor"}
      PROVE  b \in OperandBits(nums, 1) <=> FoldedIn(name, nums, 1, b)
  <2> DEFINE S == HavingIn(nums, 1, b)
             Bit == b \in OperandBits(nums, 1)
  <2>1. S = IF Bit THEN {1} ELSE {}
    <3>1. 1 .. 1 = {1}
      OBVIOUS
    <3> QED
      BY <3>1 DEF HavingIn
  <2>2. Cardinality({1}) = 1 /\ Cardinality({}) = 0
    BY FS_EmptySet, FS_Singleton
  <2>3. CASE name = "or"
    BY <2>1, <2>3 DEF FoldedIn
  <2>4. CASE name = "and"
    <3>1. 1 .. 1 = {1}
      OBVIOUS
    <3> QED
      BY <2>1, <2>4, <3>1 DEF FoldedIn
  <2>5. CASE name = "xor"
    <3>1. FoldedIn(name, nums, 1, b) <=> Cardinality(S) % 2 = 1
      BY <2>5 DEF FoldedIn
    <3> HIDE DEF S
    <3> QED
      BY <2>1, <2>2, <3>1 DEF Turned
  <2> QED
    BY <1>1, <2>3, <2>4, <2>5
<1> QED
  BY <1>1 DEF Partial

\* All operands make the exact result.
LEMMA AllOperands ==
  ASSUME NEW nums \in Seq(Int), Len(nums) >= 1, NEW name \in FoldOps, NEW value,
         Partial(name, nums, Len(nums), value)
  PROVE  Exact(name, nums, value)
<1>1. CASE name \in {"or", "and", "xor"}
  <2>1. DOMAIN nums = 1 .. Len(nums)
    OBVIOUS
  <2>2. ASSUME NEW b PROVE Having(nums, b) = HavingIn(nums, Len(nums), b)
    BY <2>1 DEF Having, HavingIn
  <2>3. ASSUME NEW b PROVE FoldedBit(name, nums, b) <=> FoldedIn(name, nums, Len(nums), b)
    BY <1>1, <2>1, <2>2 DEF FoldedBit, FoldedIn
  <2> QED
    BY <1>1, <2>3 DEF Partial, Exact
<1>2. CASE name \in {"bts", "btr"}
  <2> DEFINE bit == strtoull(nums[2])
  <2>1. Len(nums) = 2 /\ BitOpResult(name, nums, value)
    BY <1>2 DEF Partial
  <2>2. bit \in Nat
    <3> DEFINE n == nums[2]
    <3>1. n \in Int
      BY <2>1
    <3> HIDE DEF n
    <3>2. strtoull(n) \in Nat
      BY <3>1, BitsTyped
    <3> QED
      BY <3>2 DEF n
  <2>3. PICK mask \in BitMasks(bit) :
          value = IF name = "bts" THEN OperandBits(nums, 1) \union mask
                                  ELSE OperandBits(nums, 1) \ mask
    BY <2>1 DEF BitOpResult
  <2> HIDE DEF bit
  <2>4. /\ bit < IntBits => bit \in mask
        /\ \A b \in Positions \ {bit} :
             (b < bit /\ bit < IntBits) \/ bit < IntBits - 1 => b \notin mask
    BY <2>2, MaskExact
  <2>5. BitOpExact(name, nums, bit, value)
    <3>1. CASE name = "bts"
      BY <2>3, <2>4, <3>1 DEF BitOpExact
    <3>2. CASE name = "btr"
      BY <2>3, <2>4, <3>2 DEF BitOpExact
    <3> QED
      BY <1>2, <3>1, <3>2
  <2> QED
    BY <1>2, <2>5 DEF Exact, bit
<1> QED
  BY <1>1, <1>2 DEF FoldOps

-----------------------------------------------------------------------------
(* The steps. *)

\* The operands and the command stay, once they are found.
LEMMA SameCommand ==
  ASSUME UNCHANGED <<line, cmd_info>>
  PROVE  Numbers' = Numbers /\ (InLogic' <=> InLogic) /\ cmd_info' = cmd_info
BY DEF Numbers, NamedByOperand, InLogic

\* Before the constructors there is no command.
LEMMA InitLogic == ToolInit => ToolInv
<1> SUFFICES ASSUME ToolInit PROVE ToolInv
  OBVIOUS
<1>1. IInv /\ Prepared
  BY InitEstablishes DEF ToolInit, Init, Prepared
<1>2. ~InLogic
  BY TableAssumption DEF ToolInit, Init, InLogic, Cmds
<1>3. LogicInv
  BY <1>2 DEF ToolInit, Init, LogicInit, LogicInv
<1> QED
  BY <1>1, <1>3 DEF ToolInv

\* The dispatcher's own steps.
LEMMA DispatchKeepsLogic ==
  ASSUME ToolInv, Dispatch
  PROVE  LogicInv'
<1> USE DEF ToolInv, LogicInv
<1>0. UNCHANGED <<call, todo, result, cond, stdout, stage>>
  BY DEF Dispatch, logicVars
<1>1. CASE register_command_group
  <2>1. pc = "ctors" /\ pc' = "ctors" /\ UNCHANGED <<line, cmd_info>>
    BY <1>1 DEF register_command_group
  <2> QED
    BY <1>0, <2>1, SameCommand
<1>2. CASE run_command
  <2>1. pc = "ctors" /\ \/ pc' = "prereqs"
                        \/ pc' = "fallback" /\ UNCHANGED <<line, cmd_info>>
    BY <1>2 DEF run_command
  <2> QED
    BY <1>0, <2>1, SameCommand
<1>3. CASE check_prereqs
  <2>1. /\ pc = "prereqs" /\ UNCHANGED <<line, cmd_info>>
        /\ pc' = "entry" \/ (pc' = "exit" /\ rc' = -1)
    BY <1>3 DEF check_prereqs
  <2> QED
    BY <1>0, <2>1, SameCommand
<1>4. CASE iotools_fallback
  <2>1. pc = "fallback" /\ UNCHANGED <<line, cmd_info>> /\ pc' = "exit"
    BY <1>4 DEF iotools_fallback, Fallback
  <2> QED
    BY <1>0, <2>1, SameCommand
<1>5. CASE main
  <2>1. /\ pc = "exit" /\ UNCHANGED <<line, cmd_info>> /\ pc' = "exited"
        /\ status' = IF rc < 0 THEN "EXIT_FAILURE" ELSE "EXIT_SUCCESS"
        /\ rc \in {-1, 0, 1}
    BY <1>5 DEF main, IInv, TypeOK
  <2>2. InLogic => (stage = "done" <=> status' = "EXIT_SUCCESS") /\ stage # "loop"
    BY <2>1
  <2>3. Numbers' = Numbers /\ (InLogic' <=> InLogic) /\ cmd_info' = cmd_info
    BY <2>1, SameCommand
  <2> QED
    BY <1>0, <2>1, <2>2, <2>3
<1> QED
  BY <1>1, <1>2, <1>3, <1>4, <1>5 DEF Dispatch

\* The handler that the dispatcher calls: its loop starts with the first
\* operand, or its one step is the result.
LEMMA EntryKeepsLogic ==
  ASSUME ToolInv, entry_logic
  PROVE  LogicInv'
<1> USE DEF ToolInv
<1> DEFINE c == LogicCall(cmd_info, argv)
           name == cmd_info.name
           nums == Numbers
<1>0. /\ pc = "entry" /\ InLogic /\ pc' = "handler" /\ UNCHANGED <<line, cmd_info>>
      /\ LogicStart(c)
  BY DEF entry_logic, entry
<1>1. Numbers' = nums /\ InLogic' /\ cmd_info' = cmd_info
  BY <1>0, SameCommand
<1>2. stage = "idle" /\ stdout = <<>> /\ cond \in {0, 1}
  BY <1>0 DEF LogicInv
<1>3. TypeOK /\ Resolved /\ Allowed(cmd_info, argc)
  BY <1>0 DEF IInv, ControlOK, Prepared
<1>4. nums \in Seq(Int) /\ Len(nums) = argc - 1 /\ argc \in Nat /\ c.args = nums
  BY <1>3, CallHasNumbers
<1>5. /\ c.op = name
      /\ \/ name \in {"or", "and", "xor"} /\ argc >= 2
         \/ name \in {"bts", "btr", "shl", "shr"} /\ argc = 3
         \/ name = "not" /\ argc = 2
  BY <1>0, <1>3, <1>4, CallHasName
<1> HIDE DEF c, nums, name
<1>6. Len(nums) >= 1 /\ nums[1] \in Int /\ (argc = 3 => Len(nums) = 2 /\ nums[2] \in Int)
  BY <1>4, <1>5
<1>7. Bits(strtoull(c.args[1])) = OperandBits(nums, 1)
  BY <1>4 DEF OperandBits
<1>8. CASE logic_op(c)
  <2>1. /\ name \in FoldOps /\ call' = c /\ result' = OperandBits(nums, 1) /\ todo' = Tail(nums)
        /\ cond' = 0 /\ stage' = "loop" /\ stdout' = <<>>
    BY <1>2, <1>4, <1>5, <1>7, <1>8 DEF logic_op
  <2>2. Partial(name, nums, 1, OperandBits(nums, 1))
    <3>1. name \in {"bts", "btr"} => Len(nums) = 2
      BY <1>5, <1>6
    <3> QED
      BY <1>4, <1>6, <2>1, <3>1, FirstOperand
  <2>3. Tail(nums) \in Seq(Int) /\ Remaining(nums, 1, Tail(nums))
    BY <1>4, <1>6 DEF Remaining
  <2>4. 1 \in 1 .. Len(nums)
    BY <1>4, <1>6
  <2>5. \E m \in 1 .. Len(nums) : Remaining(nums, m, todo') /\ Partial(name, nums, m, result')
    BY <2>1, <2>2, <2>3, <2>4
  <2>6. LoopInv'
    <3>1. call'.op = name /\ name \in FoldOps /\ todo' \in Seq(Int) /\ cmd_info'.name = name
      BY <1>1, <1>5, <2>1, <2>3 DEF name
    <3> QED
      BY <1>1, <2>5, <3>1 DEF LoopInv
  <2> QED
    BY <1>0, <1>1, <2>1, <2>6 DEF LogicInv
<1>9. ASSUME NEW value, Finish(value, cond'), cond' \in {0, 1}, Exact(name, nums, value)
      PROVE  LogicInv'
  <2>1. result' = value /\ stdout' = <<value>> /\ stage' = "done"
    BY <1>2, <1>9 DEF Finish
  <2>2. cmd_info'.name = name
    BY <1>1 DEF name
  <2>3. Exact(cmd_info.name, Numbers, result)'
    BY <1>1, <1>9, <2>1, <2>2
  <2> QED
    BY <1>0, <1>1, <1>9, <2>1, <2>3 DEF LogicInv
<1>10. CASE not(c)
  <2> DEFINE value == Positions \ OperandBits(nums, 1)
  <2>1. Finish(value, One(value = {})) /\ name = "not"
    BY <1>5, <1>7, <1>10 DEF not
  <2>2. cond' = One(value = {}) /\ cond' \in {0, 1}
    BY <2>1 DEF Finish, One
  <2>3. Exact(name, nums, value)
    BY <2>1 DEF Exact
  <2> HIDE DEF value
  <2>4. Finish(value, cond')
    BY <2>1, <2>2
  <2> QED
    BY <1>9, <2>2, <2>3, <2>4
<1>11. CASE shift(c)
  <2> DEFINE bits == OperandBits(nums, 1)
             n == nums[2]
             sign == IF name = "shl" THEN 1 ELSE -1
  <2>1. name \in {"shl", "shr"} /\ n \in Int /\ c.args[2] = n
    BY <1>4, <1>5, <1>6, <1>11 DEF shift, ShiftOps
  <2>2. PICK value \in ShiftBy(bits, Parse(n, ULong), sign) : Finish(value, 0)
    BY <1>5, <1>7, <1>11, <2>1 DEF shift
  <2>3. bits \subseteq Positions
    BY BitsTyped DEF OperandBits
  <2> HIDE DEF bits, n, sign
  <2>4. cond' = 0 /\ Finish(value, cond')
    BY <2>2 DEF Finish
  <2>5. ASSUME n \in 0 .. LLBits - 1, NEW b \in Positions
        PROVE  b \in value <=> (IF name = "shl" THEN b - n ELSE b + n) \in bits
    <3>1. LLBits \in Nat /\ ULong \in Nat /\ ULong > 0 /\ n \in 0 .. ULong - 1
      BY <2>1, <2>5, LogicAssumption
    <3>2. Parse(n, ULong) = n
      BY <2>1, <3>1, ParseRange
    <3>3. value = Shifted(bits, sign * n)
      BY <2>2, <2>5, <3>1, <3>2 DEF ShiftBy
    <3>4. b \in value <=> \E a \in bits : b = a + sign * n
      BY <3>3 DEF Shifted
    <3>5. b \in Int /\ n \in Int /\ \A a \in bits : a \in Int
      BY <2>1, <2>3, <3>1 DEF Positions
    <3>6. CASE name = "shl"
      <4>1. sign = 1
        BY <3>6 DEF sign
      <4> QED
        BY <3>4, <3>5, <3>6, <4>1
    <3>7. CASE name = "shr"
      <4>1. sign = -1
        BY <3>7 DEF sign
      <4> QED
        BY <3>4, <3>5, <3>7, <4>1
    <3> QED
      BY <2>1, <3>6, <3>7
  <2>6. Exact(name, nums, value)
    BY <2>1, <2>5 DEF Exact, bits, n
  <2> QED
    BY <1>9, <2>4, <2>6
<1> QED
  BY <1>0, <1>8, <1>10, <1>11 DEF LogicStart

\* A turn of the loop: the result of m operands becomes that of m + 1.
LEMMA TurnKeepsLogic ==
  ASSUME ToolInv, logic_op_turn, UNCHANGED vars
  PROVE  LogicInv'
<1> USE DEF ToolInv
<1> DEFINE name == cmd_info.name
           nums == Numbers
           val == strtoull(Head(todo))
<1>0. /\ stage = "loop" /\ todo # <<>> /\ todo' = Tail(todo) /\ UNCHANGED <<call, stdout, stage>>
      /\ UNCHANGED <<line, cmd_info, pc>>
  BY DEF logic_op_turn, vars
<1>1. Numbers' = nums /\ (InLogic' <=> InLogic) /\ cmd_info' = cmd_info
  BY <1>0, SameCommand
<1>2. pc = "handler" /\ InLogic /\ stdout = <<>> /\ call.op = name /\ name \in FoldOps /\ todo \in Seq(Int)
  BY <1>0 DEF LogicInv, LoopInv
<1>3. PICK m \in 1 .. Len(nums) : Remaining(nums, m, todo) /\ Partial(name, nums, m, result)
  BY <1>0 DEF LogicInv, LoopInv
<1>4. nums \in Seq(Int)
  BY <1>2, CallHasNumbers DEF IInv, ControlOK
<1> HIDE DEF nums, name
<1>5. Len(todo) \in Nat /\ Len(todo) > 0 /\ Len(nums) \in Nat
  BY <1>0, <1>2, <1>4
<1>6. m + 1 \in 1 .. Len(nums) /\ Head(todo) = nums[m + 1]
  BY <1>2, <1>3, <1>5 DEF Remaining
<1>7. Tail(todo) \in Seq(Int) /\ Remaining(nums, m + 1, Tail(todo))
  <2>1. Len(Tail(todo)) = Len(todo) - 1 /\ Tail(todo) \in Seq(Int)
    BY <1>0, <1>2
  <2>2. ASSUME NEW k \in 1 .. Len(Tail(todo)) PROVE Tail(todo)[k] = nums[(m + 1) + k]
    <3>1. Tail(todo)[k] = todo[k + 1] /\ k + 1 \in 1 .. Len(todo)
      BY <1>2, <1>5, <2>1
    <3>2. todo[k + 1] = nums[m + (k + 1)]
      BY <1>3, <3>1 DEF Remaining
    <3>3. m + (k + 1) = (m + 1) + k
      BY <1>5, <2>1
    <3> QED
      BY <3>1, <3>2, <3>3
  <2>3. Len(Tail(todo)) = Len(nums) - (m + 1)
    BY <1>3, <1>5, <2>1 DEF Remaining
  <2> QED
    BY <2>1, <2>2, <2>3 DEF Remaining
<1>8. Bits(val) = OperandBits(nums, m + 1)
  BY <1>6 DEF OperandBits
<1>9. cond' \in {0, 1} /\ Partial(name, nums, m + 1, result')
  <2> DEFINE old == OperandBits(nums, m + 1)
  <2>1. ASSUME NEW op \in {"or", "and", "xor"}, name = op,
               \A b \in Positions : b \in result' <=> Turned(op, b \in result, b \in old)
        PROVE  Partial(name, nums, m + 1, result')
    <3>1. \A b \in Positions : b \in result <=> FoldedIn(op, nums, m, b)
      BY <1>3, <2>1 DEF Partial
    <3>2. ASSUME NEW b \in Positions PROVE b \in result' <=> FoldedIn(op, nums, m + 1, b)
      <4> DEFINE has == b \in result
      <4>1. has \in BOOLEAN /\ (has <=> FoldedIn(op, nums, m, b))
        BY <3>1
      <4>2. b \in result' <=> Turned(op, has, b \in old)
        BY <2>1
      <4>3. m \in Nat /\ m >= 1
        BY <1>5
      <4> HIDE DEF has
      <4>4. FoldedIn(op, nums, m + 1, b) <=> Turned(op, has, b \in old)
        BY <4>1, <4>3, FoldStep
      <4> QED
        BY <4>2, <4>4
    <3> QED
      BY <2>1, <3>2 DEF Partial
  <2>2. CASE name = "or"
    <3>1. result' = result \union old /\ cond' \in {0, 1}
      BY <1>2, <1>8, <2>2 DEF logic_op_turn, Combine, One
    <3> QED
      BY <2>1, <2>2, <3>1 DEF Turned
  <2>3. CASE name = "and"
    <3>1. result' = result \intersect old /\ cond' \in {0, 1}
      BY <1>2, <1>8, <2>3 DEF logic_op_turn, Combine, One
    <3> QED
      BY <2>1, <2>3, <3>1 DEF Turned
  <2>4. CASE name = "xor"
    <3>1. result' = (result \ old) \union (old \ result) /\ cond' \in {0, 1}
      BY <1>2, <1>8, <2>4 DEF logic_op_turn, Combine, One
    <3> QED
      BY <2>1, <2>4, <3>1 DEF Turned
  <2>5. CASE name \in {"bts", "btr"}
    <3>1. Len(nums) = 2 /\ m = 1 /\ result = OperandBits(nums, 1)
      <4>1. Len(nums) = 2
        BY <1>3, <2>5 DEF Partial
      <4>2. m = 1
        BY <1>6, <4>1
      <4> QED
        BY <1>3, <2>5, <4>1, <4>2 DEF Partial
    <3>2. val = strtoull(nums[2])
      BY <1>6, <3>1
    <3> HIDE DEF val
    <3>3. \E mask \in BitMasks(val) :
            /\ result' = IF name = "bts" THEN result \union mask ELSE result \ mask
            /\ cond' = One(result \intersect mask # {})
      BY <1>2, <2>5 DEF logic_op_turn, Combine, val
    <3>4. cond' \in {0, 1}
      BY <3>3 DEF One
    <3>5. BitOpResult(name, nums, result')
      BY <3>1, <3>2, <3>3 DEF BitOpResult
    <3> QED
      BY <2>5, <3>1, <3>4, <3>5 DEF Partial
  <2> QED
    BY <1>2, <2>2, <2>3, <2>4, <2>5 DEF FoldOps
<1>10. LoopInv'
  <2>1. \E k \in 1 .. Len(nums) : Remaining(nums, k, todo') /\ Partial(name, nums, k, result')
    BY <1>0, <1>6, <1>7, <1>9
  <2>2. call'.op = name /\ cmd_info'.name = name /\ todo' \in Seq(Int)
    BY <1>0, <1>1, <1>2, <1>7 DEF name
  <2> QED
    BY <1>1, <1>2, <2>1, <2>2 DEF LoopInv
<1> QED
  BY <1>0, <1>1, <1>2, <1>9, <1>10 DEF LogicInv

\* After the last operand the result is printed.
LEMMA EndKeepsLogic ==
  ASSUME ToolInv, logic_op_end, UNCHANGED vars
  PROVE  LogicInv'
<1> USE DEF ToolInv
<1> DEFINE name == cmd_info.name
           nums == Numbers
<1>0. /\ stage = "loop" /\ todo = <<>> /\ Finish(result, cond)
      /\ UNCHANGED <<line, cmd_info, pc>>
  BY DEF logic_op_end, vars
<1>1. Numbers' = nums /\ (InLogic' <=> InLogic) /\ cmd_info' = cmd_info
  BY <1>0, SameCommand
<1>2. pc = "handler" /\ InLogic /\ stdout = <<>> /\ name \in FoldOps /\ cond \in {0, 1}
  BY <1>0 DEF LogicInv, LoopInv
<1>3. PICK m \in 1 .. Len(nums) : Remaining(nums, m, todo) /\ Partial(name, nums, m, result)
  BY <1>0 DEF LogicInv, LoopInv
<1>4. nums \in Seq(Int)
  BY <1>2, CallHasNumbers DEF IInv, ControlOK
<1> HIDE DEF nums, name
<1>5. m = Len(nums) /\ Len(nums) >= 1
  BY <1>0, <1>3, <1>4 DEF Remaining
<1>6. Exact(name, nums, result)
  BY <1>2, <1>3, <1>4, <1>5, AllOperands
<1>7. result' = result /\ stdout' = <<result>> /\ stage' = "done" /\ cond' = cond
  BY <1>0, <1>2 DEF Finish
<1>8. Exact(cmd_info.name, Numbers, result)'
  BY <1>1, <1>6, <1>7 DEF name
<1> QED
  BY <1>0, <1>1, <1>2, <1>7, <1>8 DEF LogicInv

\* Every step of the composition keeps its invariant.
LEMMA ToolStepKeeps == ToolInv /\ [ToolNext]_toolVars => ToolInv'
<1> SUFFICES ASSUME ToolInv, [ToolNext]_toolVars PROVE ToolInv'
  OBVIOUS
<1>0. IInv' /\ Prepared'
  BY ToolStepDispatches, StepPreserves, PreparedKept DEF ToolInv
<1>1. CASE Dispatch
  BY <1>0, <1>1, DispatchKeepsLogic DEF ToolInv
<1>2. CASE entry_logic
  BY <1>0, <1>2, EntryKeepsLogic DEF ToolInv
<1>3. CASE entry_other
  <2>1. /\ pc = "entry" /\ pc' = "handler" /\ ~InLogic /\ UNCHANGED <<line, cmd_info>>
        /\ UNCHANGED <<call, todo, result, cond, stdout, stage>>
    BY <1>3 DEF entry_other, entry, logicVars
  <2>2. LogicInv'
    BY <2>1, SameCommand DEF ToolInv, LogicInv
  <2> QED
    BY <1>0, <2>2 DEF ToolInv
<1>4. CASE logic_runs
  BY <1>0, <1>4, TurnKeepsLogic, EndKeepsLogic DEF ToolInv, logic_runs, LogicStep
<1>5. CASE logic_returns
  <2>1. /\ pc = "handler" /\ pc' \in {"exit", "replaced"} /\ InLogic /\ UNCHANGED <<line, cmd_info>>
        /\ stage = "done" /\ rc' = cond /\ cond \in {0, 1}
        /\ UNCHANGED <<call, todo, result, cond, stdout, stage>>
    BY <1>5 DEF logic_returns, entry_returns, logicVars, ToolInv, LogicInv
  <2>2. rc' >= 0
    BY <2>1
  <2>3. Numbers' = Numbers /\ InLogic' /\ cmd_info' = cmd_info
    BY <2>1, SameCommand
  <2>4. Exact(cmd_info.name, Numbers, result)'
    BY <2>1, <2>3 DEF ToolInv, LogicInv
  <2>5. LogicInv'
    BY <2>1, <2>2, <2>3, <2>4 DEF ToolInv, LogicInv
  <2> QED
    BY <1>0, <2>5 DEF ToolInv
<1>6. CASE other_returns
  <2>1. /\ pc = "handler" /\ pc' \in {"exit", "replaced"} /\ ~InLogic /\ UNCHANGED <<line, cmd_info>>
        /\ UNCHANGED <<call, todo, result, cond, stdout, stage>>
    BY <1>6 DEF other_returns, entry_returns, logicVars
  <2>2. LogicInv'
    BY <2>1, SameCommand DEF ToolInv, LogicInv
  <2> QED
    BY <1>0, <2>2 DEF ToolInv
<1>7. CASE UNCHANGED toolVars
  <2>1. /\ UNCHANGED <<line, cmd_info, pc, rc, status>>
        /\ UNCHANGED <<call, todo, result, cond, stdout, stage>>
    BY <1>7 DEF toolVars, vars, logicVars
  <2>2. Numbers' = Numbers /\ (InLogic' <=> InLogic) /\ cmd_info' = cmd_info
    BY <2>1, SameCommand
  <2>3. LoopInv' <=> LoopInv
    BY <2>1, <2>2 DEF LoopInv
  <2>4. LogicInv'
    BY <2>1, <2>2, <2>3 DEF ToolInv, LogicInv
  <2> QED
    BY <1>0, <2>4 DEF ToolInv
<1> QED
  BY <1>1, <1>2, <1>3, <1>4, <1>5, <1>6, <1>7 DEF ToolNext
-----------------------------------------------------------------------------
(* Theorems. *)

\* ToolInv holds of every process.
THEOREM ToolInvariant == ToolSpec => []ToolInv
<1> QED
  BY InitLogic, ToolStepKeeps, PTL DEF ToolSpec

\* The two promises about argv and privilege hold of the composition, too.
THEOREM ToolIsPrepared == ToolSpec => [](ArgvInBounds /\ PortNeedsIopl)
<1>1. ToolInv => ArgvInBounds /\ PortNeedsIopl
  BY PreparedSuffices DEF ToolInv
<1> QED
  BY <1>1, ToolInvariant, PTL

\* The logic commands print what their operands ask for, for every width of
\* the types and any number of operands.
THEOREM LogicIsExact == ToolSpec => []ResultIsExact
<1>1. ToolInv => ResultIsExact
  <2> SUFFICES ASSUME ToolInv, NEW n \in DOMAIN stdout
               PROVE  Exact(cmd_info.name, Numbers, stdout[n])
    BY DEF ResultIsExact
  <2>1. stage = "done" /\ stdout = <<result>> /\ Exact(cmd_info.name, Numbers, result)
    BY DEF ToolInv, LogicInv
  <2>2. n = 1
    BY <2>1
  <2> QED
    BY <2>1, <2>2
<1> QED
  BY <1>1, ToolInvariant, PTL

\* A logic command prints one number if it succeeds and none if it fails.
THEOREM OneNumberOrFailure == ToolSpec => []PrintedIffSuccess
<1>1. ToolInv => PrintedIffSuccess
  <2> SUFFICES ASSUME ToolInv, pc = "exited", InLogic
               PROVE  Len(stdout) = (IF status = "EXIT_SUCCESS" THEN 1 ELSE 0)
    BY DEF PrintedIffSuccess
  <2>1. CASE stage = "done"
    BY <2>1 DEF ToolInv, LogicInv
  <2>2. CASE stage # "done"
    <3>1. stdout = <<>> /\ status # "EXIT_SUCCESS"
      BY <2>2 DEF ToolInv, LogicInv
    <3> QED
      BY <3>1
  <2> QED
    BY <2>1, <2>2
<1> QED
  BY <1>1, ToolInvariant, PTL

\* With the logic handlers in it, the dispatcher still implements the promise
\* of a multi-call binary.
THEOREM ToolImplements == ToolSpec => Implements
<1>1. ToolInit => Abstract!Init
  BY DEF ToolInit, Init, Abstract!Init, Nothing, Abstract!Nothing, Effect, Abstract!Effect
<1>2. ToolInv /\ [ToolNext]_toolVars => [Abstract!Next]_(Abstract!vars)
  BY ToolStepDispatches, StepSimulates DEF ToolInv
<1> QED
  BY <1>1, <1>2, ToolInvariant, PTL DEF ToolSpec, Implements, Abstract!Spec
==============================================================================
