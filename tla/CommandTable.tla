---------------------------- MODULE CommandTable ----------------------------
(***************************************************************************)
(* The command groups of the program as their macros build them, and for   *)
(* every handler the arguments it dereferences and the values it returns.  *)
(***************************************************************************)
EXTENDS Integers, Sequences

CONSTANT Arch    \* "x86", "powerpc" or "other"
ASSUME ArchAssumption == Arch \in {"x86", "powerpc", "other"}

INT_MAX == 2147483647

\* _MAKE_CMD.  op stands for privdata or sizedata: the width in bits, or the
\* operation.  params is {} for NULL, else the set of one prereq_params.
Cmd(name, entry, op, params) ==
  [name |-> name, entry |-> entry, op |-> op, params |-> params]
Prereq(min, max, iopl) ==
  {[min_args |-> min, max_args |-> max, iopl_needed |-> iopl]}

io_cmds ==
  LET rd_params == Prereq(2, 2, 3)
      wr_params == Prereq(3, 3, 3)
  IN  <<Cmd("io_read8", "io_read_x", 8, rd_params),
        Cmd("io_write8", "io_write_x", 8, wr_params),
        Cmd("io_read16", "io_read_x", 16, rd_params),
        Cmd("io_write16", "io_write_x", 16, wr_params),
        Cmd("io_read32", "io_read_x", 32, rd_params),
        Cmd("io_write32", "io_write_x", 32, wr_params)>>

\* rd_params, wr_params and dump_params of mmio_rw.c, shared by both groups.
mmio_rd_params == Prereq(2, 2, 0)
mmio_wr_params == Prereq(3, 3, 0)
mmio_dump_params == Prereq(3, 4, 0)

mmio_cmds ==
  <<Cmd("mmio_read8", "mmio_read_x", 8, mmio_rd_params),
    Cmd("mmio_write8", "mmio_write_x", 8, mmio_wr_params),
    Cmd("mmio_read16", "mmio_read_x", 16, mmio_rd_params),
    Cmd("mmio_write16", "mmio_write_x", 16, mmio_wr_params),
    Cmd("mmio_read32", "mmio_read_x", 32, mmio_rd_params),
    Cmd("mmio_write32", "mmio_write_x", 32, mmio_wr_params),
    Cmd("mmio_read64", "mmio_read_x", 64, mmio_rd_params),
    Cmd("mmio_write64", "mmio_write_x", 64, mmio_wr_params),
    Cmd("mmio_dump", "mmio_dump", 0, mmio_dump_params)>>

cacheable_mmio_cmds ==
  <<Cmd("mem_read8", "mmio_read_x", 8, mmio_rd_params),
    Cmd("mem_write8", "mmio_write_x", 8, mmio_wr_params),
    Cmd("mem_read16", "mmio_read_x", 16, mmio_rd_params),
    Cmd("mem_write16", "mmio_write_x", 16, mmio_wr_params),
    Cmd("mem_read32", "mmio_read_x", 32, mmio_rd_params),
    Cmd("mem_write32", "mmio_write_x", 32, mmio_wr_params),
    Cmd("mem_read64", "mmio_read_x", 64, mmio_rd_params),
    Cmd("mem_write64", "mmio_write_x", 64, mmio_wr_params),
    Cmd("mem_dump", "mmio_dump", 0, mmio_dump_params)>>

pci_cmds ==
  LET rd_params == Prereq(5, 6, 0)
      wr_params == Prereq(6, 7, 0)
  IN  <<Cmd("pci_read8", "pci_read_x", 8, rd_params),
        Cmd("pci_write8", "pci_write_x", 8, wr_params),
        Cmd("pci_read16", "pci_read_x", 16, rd_params),
        Cmd("pci_write16", "pci_write_x", 16, wr_params),
        Cmd("pci_read32", "pci_read_x", 32, rd_params),
        Cmd("pci_write32", "pci_write_x", 32, wr_params),
        Cmd("pci_list", "pci_list", 0, {})>>

\* enum SMBUS_SIZE beyond the fixed widths.
SMBUS_SIZE_BLOCK == 65
SMBUS_SIZE_BYTE == 66
SMBUS_QUICK == 67
SMBUS_PROC_CALL == 68
SMBUS_BLOCK_PROC_CALL == 69
SMBUS_WRITE_READ == 70

smbus_cmds ==
  LET read_params == Prereq(4, 4, 0)
      write_params == Prereq(5, 5, 0)
  IN  <<Cmd("smbus_read8", "smbus_read", 8, read_params),
        Cmd("smbus_write8", "smbus_write", 8, write_params),
        Cmd("smbus_read16", "smbus_read", 16, read_params),
        Cmd("smbus_write16", "smbus_write", 16, write_params),
        Cmd("smbus_read32", "smbus_read", 32, read_params),
        Cmd("smbus_write32", "smbus_write", 32, write_params),
        Cmd("smbus_read64", "smbus_read", 64, read_params),
        Cmd("smbus_write64", "smbus_write", 64, write_params),
        Cmd("smbus_readblock", "smbus_read", SMBUS_SIZE_BLOCK, read_params),
        Cmd("smbus_writeblock", "smbus_write", SMBUS_SIZE_BLOCK, write_params),
        Cmd("smbus_receive_byte", "smbus_read", SMBUS_SIZE_BYTE, Prereq(3, 3, 0)),
        Cmd("smbus_send_byte", "smbus_write", SMBUS_SIZE_BYTE, Prereq(4, 4, 0)),
        Cmd("smbus_quick", "smbus_write", SMBUS_QUICK, Prereq(4, 4, 0)),
        Cmd("smbus_process_call", "smbus_process_call", SMBUS_PROC_CALL,
            write_params),
        Cmd("smbus_block_process_call", "smbus_process_call",
            SMBUS_BLOCK_PROC_CALL, write_params),
        Cmd("smbus_writeread", "smbus_writeread", SMBUS_WRITE_READ,
            Prereq(5, 5, 0))>>

\* LOGIC_OP
OR_OP == 0
AND_OP == 1
XOR_OP == 2
SHL_OP == 3
SHR_OP == 4
BTS_OP == 5
BTR_OP == 6

logic_cmds ==
  LET logic_op_params == Prereq(2, INT_MAX, 0)
      shift_params == Prereq(3, 3, 0)
      bit_params == Prereq(3, 3, 0)
  IN  <<Cmd("or", "logic_op", OR_OP, logic_op_params),
        Cmd("and", "logic_op", AND_OP, logic_op_params),
        Cmd("xor", "logic_op", XOR_OP, logic_op_params),
        Cmd("shl", "shift", SHL_OP, shift_params),
        Cmd("shr", "shift", SHR_OP, shift_params),
        Cmd("not", "not", 0, Prereq(2, 2, 0)),
        Cmd("btr", "logic_op", BTR_OP, bit_params),
        Cmd("bts", "logic_op", BTS_OP, bit_params)>>

misc_cmds ==
  (IF Arch = "x86"
     THEN <<Cmd("rdtsc", "rdtsc", 0, {}), Cmd("cpuid", "cpuid", 0, Prereq(3, 4, 0))>>
     ELSE <<>>)
  \o <<Cmd("busy_loop", "busy_loop", 0, {}),
       Cmd("cpu_list", "cpu_list", 0, {}),
       Cmd("runon", "runon", 0, Prereq(3, INT_MAX, 0))>>

msr_cmds == <<Cmd("rdmsr", "rd_msr", 0, Prereq(3, 3, 0)),
              Cmd("wrmsr", "wr_msr", 0, Prereq(4, 4, 0))>>

cmos_cmds == <<Cmd("cmos_read", "cmos_rd", 0, Prereq(2, 2, 0)),
               Cmd("cmos_write", "cmos_wr", 0, Prereq(3, 3, 0))>>

scom_cmds == <<Cmd("getscom", "rd_scom", 0, Prereq(3, 3, 0)),
               Cmd("putscom", "wr_scom", 0, Prereq(4, 4, 0)),
               Cmd("cputochipid", "cpu_to_chipid", 0, Prereq(2, 2, 0)),
               Cmd("cputoex", "cpu_to_ex", 0, Prereq(2, 2, 0))>>

\* What a handler returns to main(): logic_op() and not() return whether the
\* result is zero, five handlers cannot fail, runon() only returns if execvp()
\* failed, the others return 0 or -1.
HandlerReturns(h) ==
  CASE h \in {"logic_op", "not"} -> {0, 1}
    [] h \in {"io_read_x", "io_write_x", "shift", "rdtsc", "busy_loop"} -> {0}
    [] h = "runon" -> {-1}
    [] OTHER -> {0, -1}

\* The groups an architecture builds, and their arrays.
AllGroups ==
  {"IO", "MMIO", "MEM", "PCI", "SMBus", "LOGIC", "MISC", "CMOS"}
    \union (IF Arch = "x86" THEN {"MSR"} ELSE {})
    \union (IF Arch = "powerpc" THEN {"SCOM"} ELSE {})

TableOf(g) ==
  CASE g = "IO" -> io_cmds
    [] g = "MMIO" -> mmio_cmds
    [] g = "MEM" -> cacheable_mmio_cmds
    [] g = "PCI" -> pci_cmds
    [] g = "SMBus" -> smbus_cmds
    [] g = "LOGIC" -> logic_cmds
    [] g = "MISC" -> misc_cmds
    [] g = "MSR" -> msr_cmds
    [] g = "CMOS" -> cmos_cmds
    [] g = "SCOM" -> scom_cmds
==============================================================================
