----------------------------- MODULE DeviceFiles -----------------------------
(***************************************************************************)
(* The register commands that go through a device file: PCI configuration  *)
(* space (pci_rw.c), MSR (msr.c), CMOS (cmos_rw.c), SCOM (scom.c) and, on  *)
(* builds without port instructions, /dev/port (io_rw.c).  Each opens a    *)
(* file, seeks to an offset made from an operand, moves some bytes and     *)
(* prints them as a number.  Any of these calls may fail or come short.    *)
(*                                                                         *)
(* Memory byte i of a value of size bytes is byte i or size + 1 - i of the *)
(* number, depending on the byte order of the host.  A transfer is a set   *)
(* of triples <<register, i, j>> as in RegisterAccess.tla.                 *)
(***************************************************************************)
EXTENDS PciBus, CNumbers

CONSTANTS
  CpuFiles,      \* CPUs with /dev/cpu/N/msr
  ChipFiles,     \* chips with a scom access file
  UInt, ULong,   \* where unsigned int and unsigned long wrap
  K              \* 2^59; uint64_t wraps at 32 * K

U64 == 32 * K
NVRAM_OFFSET == 14
None == [space |-> "none", write |-> FALSE, unit |-> <<>>, reg |-> 0, size |-> 1]

\* A request: operands as the numbers they spell, as many as the tables of the
\* commands let through.  unit is <<bus, dev, func>> or <<seg, bus, dev, func>>
\* for PCI, <<cpu>>, <<chip>> or <<>>.
Operands(n) == [1 .. n -> Int]
Request ==
  [space : {"pci"}, write : BOOLEAN, unit : Operands(3) \union Operands(4), reg : Int,
   size : {1, 2, 4}]
    \union [space : {"msr", "scom"}, write : BOOLEAN, unit : Operands(1), reg : Int, size : {8}]
    \union [space : {"cmos"}, write : BOOLEAN, unit : {<<>>}, reg : Int, size : {1}]
    \union [space : {"port"}, write : BOOLEAN, unit : {<<>>}, reg : Int, size : {1, 2, 4}]

ASSUME DeviceAssumption ==
  /\ UInt \in Nat /\ ULong \in Nat /\ K \in Nat
  /\ UInt > 2 * NVRAM_OFFSET /\ UInt % 2 = 0 /\ ULong >= UInt /\ ULong % 2 = 0
  /\ K > 0 /\ U64 >= ULong /\ U64 >= 2 * UInt

VARIABLES
  big_endian,    \* byte order of the host
  req,           \* the invocation, or None
  pc,
  fd,            \* <<>>, or <<file>> if it is open
  got,           \* bytes that read() or write() moved
  moved,
  shown,         \* the number printed
  rc,
  faulted        \* history: a system call failed or came short

devVars == <<big_endian, req, pc, fd, got, moved, shown, rc, faulted>>

Port == req.space = "port"
-----------------------------------------------------------------------------
(* Operands. *)

UIntOf(n) == Parse(n, ULong) % UInt            \* unsigned int x = strtoul()
UIntOfLong(n) == ParseLong(n, ULong) % UInt    \* unsigned int x = strtol()
IntOf(n) == Signed(ParseLong(n, ULong), UInt)  \* int x = strtol()

\* One operand more than the required ones is the segment.
PciUnit(u) ==
  IF Len(u) = 4 THEN <<UIntOfLong(u[1]), UIntOfLong(u[2]), UIntOf(u[3]), UIntOf(u[4])>>
                ELSE <<0, UIntOfLong(u[1]), UIntOf(u[2]), UIntOf(u[3])>>

\* Bit 63 of the address, 16 * K, moves to bit 62 of the offset, 8 * K.
MutScomOffset(scom) ==
  LET shifted == ((scom % (16 * K)) * 8) % U64
  IN  IF scom >= 16 * K /\ (shifted \div K) % 2 = 0 THEN shifted + K ELSE shifted
ScomOffset(scom) ==
  LET shifted == ((scom % (16 * K)) * 8) % U64
  IN  IF scom >= 16 * K /\ (shifted \div (8 * K)) % 2 = 0 THEN shifted + 8 * K
                                                         ELSE shifted

\* The file, and the offset given to lseek().  An off_t has 64 bits, except
\* that cmos_rw.c takes what the build gives it: those of a long.
File(r, fs) ==
  [space |-> r.space, fs |-> fs,
   unit |-> CASE r.space = "pci" -> PciUnit(r.unit)
              [] r.space \in {"msr", "scom"} -> <<IntOf(r.unit[1])>>
              [] OTHER -> <<>>]

Offset(r) ==
  CASE r.space = "pci" -> UIntOf(r.reg)
    [] r.space = "msr" -> Signed(Parse(r.reg, ULong), U64)
    [] r.space = "cmos" -> Signed(Parse(r.reg, ULong) - NVRAM_OFFSET, ULong)
    [] r.space = "scom" -> Signed(ScomOffset(Parse(r.reg, U64)), U64)
    [] r.space = "port" -> Signed(Parse(r.reg, ULong), UInt)
-----------------------------------------------------------------------------
(* The kernel's side of the files. *)

Exists(file) ==
  CASE file.space = "pci" -> file.fs \in mounted /\ file.unit \in present
    [] file.space = "msr" -> file.unit[1] \in CpuFiles
    [] file.space = "scom" -> file.unit[1] \in ChipFiles
    [] OTHER -> TRUE

\* The scom driver shifts the offset back and looks for bit 59.
ScomDecode(off) ==
  LET reg == off \div 8
  IN  IF reg >= K THEN reg - K + 16 * K ELSE reg

\* The register at an offset of a file; that of an MSR has 32 bits.
At(file, off) ==
  [space |-> file.space, unit |-> file.unit,
   reg |-> CASE file.space = "msr" -> off % UInt
             [] file.space = "cmos" -> off + NVRAM_OFFSET
             [] file.space = "scom" -> ScomDecode(off % U64)
             [] OTHER -> off]

\* The drivers of msr and port take offsets that are negative as an off_t.
SeekResults(file, off) ==
  IF off >= 0 \/ (off # -1 /\ file.space \in {"msr", "port"}) THEN {off, -1} ELSE {-1}

\* msr and scom files hold a native integer, the others bytes by address.
RegisterByte(i) ==
  IF big_endian /\ req.space \in {"msr", "scom"} THEN req.size + 1 - i ELSE i
-----------------------------------------------------------------------------
(* The handlers. *)

\* The byte of the number that memory byte i is; le_to_host and host_to_le
\* swap on big-endian hosts, and only pci_rw.c uses them.
HostByte(i) == IF big_endian THEN req.size + 1 - i ELSE i
le_to_host(i) == IF big_endian THEN req.size + 1 - i ELSE i
NumberByte(i) == IF req.space = "pci" THEN le_to_host(HostByte(i)) ELSE HostByte(i)

\* A failed call ends the command, except that io_in() and io_out() return to
\* callers that do not look.
GiveUp == IF Port THEN pc' = "finish" /\ UNCHANGED rc ELSE pc' = "exited" /\ rc' = -1
Fails == GiveUp /\ faulted' = TRUE

MutOpenedUnchecked(file) ==
  /\ fd' = IF Exists(file) THEN <<file>> ELSE <<>>
  /\ pc' = "seek"
  /\ UNCHANGED <<rc, faulted>>

Opened(file) == Exists(file) /\ fd' = <<file>> /\ pc' = "seek" /\ UNCHANGED <<rc, faulted>>

Invoke(r) ==
  /\ pc = "idle"
  /\ req' = r
  /\ pc' = "start"
  /\ r.space = "msr" => ~big_endian
  /\ UNCHANGED <<big_endian, fd, got, moved, shown, rc, faulted>>

\* open_device(): sysfs first, and whatever the error was, procfs.
open_device ==
  /\ pc = "start"
  /\ \/ Opened(File(req, "sysfs"))
     \/ pc' = "procfs" /\ UNCHANGED <<fd, rc, faulted>>
  /\ UNCHANGED <<big_endian, req, got, moved, shown>>

open_device_procfs ==
  /\ pc = "procfs"
  /\ Opened(File(req, "procfs")) \/ (Fails /\ UNCHANGED fd)
  /\ UNCHANGED <<big_endian, req, got, moved, shown>>

\* open() in open_and_seek() of msr.c and scom.c and in io_in(), io_out().
open_file ==
  /\ pc = "start"
  /\ Opened(File(req, "dev")) \/ (Fails /\ UNCHANGED fd)
  /\ UNCHANGED <<big_endian, req, got, moved, shown>>

\* cmos_rd() and cmos_wr(): the first bytes belong to the clock.
MutIndexOk == Parse(req.reg, ULong) > NVRAM_OFFSET
IndexOk == Parse(req.reg, ULong) >= NVRAM_OFFSET

cmos_open ==
  /\ pc = "start"
  /\ \/ ~IndexOk /\ pc' = "exited" /\ rc' = -1 /\ UNCHANGED <<fd, faulted>>
     \/ IndexOk /\ (Opened(File(req, "dev")) \/ (Fails /\ UNCHANGED fd))
  /\ UNCHANGED <<big_endian, req, got, moved, shown>>

\* lseek(): an error is < 0 in pci_rw.c and cmos_rw.c, -1 in the others.
\* pci_read_x() and pci_write_x() return without close().
SeekFailed(ret) == IF req.space \in {"pci", "cmos"} THEN ret < 0 ELSE ret = -1

lseek ==
  /\ pc = "seek"
  /\ \E ret \in SeekResults(fd[1], Offset(req)) :
       \/ ~SeekFailed(ret) /\ pc' = "transfer" /\ UNCHANGED <<fd, rc, faulted>>
       \/ /\ SeekFailed(ret)
          /\ GiveUp
          /\ faulted' = (ret = -1)
          /\ fd' = IF req.space = "pci" THEN fd ELSE <<>>
  /\ UNCHANGED <<big_endian, req, got, moved, shown>>

\* read() or write(): any number of bytes, none if it fails.
transfer ==
  /\ pc = "transfer"
  /\ got' \in 0 .. req.size
  /\ moved' = {<<At(fd[1], Offset(req)), RegisterByte(i), NumberByte(i)>> : i \in 1 .. got'}
  /\ faulted' = (got' < req.size)
  /\ pc' = "finish"
  /\ UNCHANGED <<big_endian, req, fd, shown, rc>>

\* What inb(), inw() and inl() put into the value before they read: all ones,
\* except that inl() sets two bytes of four.
Constant(value) == [space |-> value, unit |-> <<>>, reg |-> 0]
MutFiller(j) == Constant("uninitialised")
Filler(j) == Constant(IF j <= 2 THEN "ff" ELSE "00")
PortNumber ==
  moved \union {<<Filler(HostByte(i)), 0, HostByte(i)>> : i \in got + 1 .. req.size}

\* The count is compared with the size, the file closed and the number
\* printed.  PCI leaves the file open on an error, ports leave it open.
CountOk == got = req.size

finish ==
  /\ pc = "finish"
  /\ pc' = "exited"
  /\ \/ Port /\ rc' = 0 /\ UNCHANGED fd
     \/ ~Port /\ CountOk /\ rc' = 0 /\ fd' = <<>>
     \/ /\ ~Port /\ ~CountOk
        /\ rc' = -1
        /\ fd' = IF req.space = "pci" THEN fd ELSE <<>>
  /\ shown' = CASE rc' = -1 \/ req.write -> {}
                [] rc' = 0 /\ ~req.write /\ Port -> PortNumber
                [] OTHER -> moved
  /\ UNCHANGED <<big_endian, req, got, moved, faulted>>

\* Each handler, as its stages in the order of its code.
For(space, write) == req.space = space /\ req.write = write
PciStages == open_device \/ open_device_procfs \/ lseek \/ transfer \/ finish
CmosStages == cmos_open \/ lseek \/ transfer \/ finish
FileStages == open_file \/ lseek \/ transfer \/ finish

pci_read_x == For("pci", FALSE) /\ PciStages
pci_write_x == For("pci", TRUE) /\ PciStages
rd_msr == For("msr", FALSE) /\ FileStages
wr_msr == For("msr", TRUE) /\ FileStages
cmos_rd == For("cmos", FALSE) /\ CmosStages
cmos_wr == For("cmos", TRUE) /\ CmosStages
rd_scom == For("scom", FALSE) /\ FileStages
wr_scom == For("scom", TRUE) /\ FileStages
io_read_x == For("port", FALSE) /\ FileStages
io_write_x == For("port", TRUE) /\ FileStages
-----------------------------------------------------------------------------
DevInit ==
  /\ big_endian \in BOOLEAN
  /\ req = None
  /\ pc = "idle"
  /\ fd = <<>>
  /\ got = 0
  /\ moved = {} /\ shown = {}
  /\ rc = 0
  /\ faulted = FALSE

DevStep ==
  \/ pci_read_x \/ pci_write_x \/ rd_msr \/ wr_msr \/ cmos_rd \/ cmos_wr
  \/ rd_scom \/ wr_scom \/ io_read_x \/ io_write_x
-----------------------------------------------------------------------------
(* Properties. *)

\* Type invariant.
DevTypeOK ==
  /\ pc \in {"idle", "start", "procfs", "seek", "transfer", "finish", "exited"}
  /\ Len(fd) <= 1
  /\ pc \in {"seek", "transfer"} => fd # <<>>
  /\ req = None <=> pc = "idle"
  /\ rc \in {-1, 0}
  /\ req # None => got \in 0 .. req.size

\* The operands that survive the types they are parsed into.  A scom address
\* may use bit 63 and the bits below 59: the others collide in the offset.
Small(n) == n \in 0 .. (UInt \div 2) - 1
OperandsFit(r) ==
  /\ \A k \in DOMAIN r.unit : Small(r.unit[k])
  /\ CASE r.space \in {"pci", "port"} -> Small(r.reg)
       [] r.space = "msr" -> r.reg \in 0 .. UInt - 1
       [] r.space = "cmos" -> r.reg \in NVRAM_OFFSET .. ULong - 1
       [] r.space = "scom" -> r.reg \in (0 .. K - 1) \union (16 * K .. 17 * K - 1)

\* The register the words of the command line name.
NamedRegister(r) ==
  [space |-> r.space, reg |-> r.reg,
   unit |-> IF r.space = "pci" /\ Len(r.unit) = 3
              THEN <<0, r.unit[1], r.unit[2], r.unit[3]>>
              ELSE r.unit]

ErrorsDropped(r) == r.space = "port"

\* Every command that goes through a device file implements one access of
\* the register its operands name: the right register through either file
\* system and the mangled offset, the right byte order, and success exactly
\* if the whole value moved.  The handlers of /dev/port drop errors.
Register == INSTANCE RegisterAccess WITH
  None <- None, Named <- NamedRegister, InRange <- OperandsFit, Blind <- ErrorsDropped,
  req <- req, moved <- moved, shown <- shown,
  status <- IF pc # "exited" THEN "running" ELSE IF rc = 0 THEN "success" ELSE "failure"

AccessImplements == Register!Spec

\* No command reports a failure when all its system calls succeeded, except
\* that the clock's bytes of the CMOS are refused: under their own number or
\* the negative one that strtoul() takes for it, always, and untouched.
ClockByte(n) == n \in 0 .. NVRAM_OFFSET - 1 \/ n + ULong \in 1 .. NVRAM_OFFSET - 1
ClockRequest == req.space = "cmos" /\ ClockByte(req.reg)
NoFalseFailure ==
  /\ pc = "exited" /\ rc = -1 => faulted \/ ClockRequest
  /\ ClockRequest => moved = {} /\ (pc = "exited" => rc = -1)

\* A port that cannot be read in full still gives a number all of whose bytes
\* are defined: the port's, or those of the value set before the read.
PortNeverGarbage ==
  pc = "exited" /\ Port /\ ~req.write =>
    \A j \in 1 .. req.size :
      \/ \E m \in moved : m[3] = j /\ m \in shown
      \/ \E m \in shown : m[1].space \in {"ff", "00"} /\ m[3] = j
==============================================================================
