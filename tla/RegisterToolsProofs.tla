------------------------- MODULE RegisterToolsProofs -------------------------
(***************************************************************************)
(* Proofs about the register commands for every width of the integer       *)
(* types, every request, every set of PCI devices and every topology.      *)
(***************************************************************************)
EXTENDS RegisterTools, CNumbersProofs

(* Requests and the register they lead to. *)

\* The fields of a request.
LEMMA RequestFields ==
  ASSUME NEW r \in Request
  PROVE  /\ r.space \in {"pci", "msr", "cmos", "scom", "port"}
         /\ r.write \in BOOLEAN
         /\ r.reg \in Int
         /\ r.size \in {1, 2, 4, 8}
         /\ r.space = "cmos" => r.size = 1
         /\ r # None
BY DEF Request, None

\* The units of a request.
LEMMA RequestUnits ==
  ASSUME NEW r \in Request
  PROVE  /\ r.space = "pci" => r.unit \in [1 .. 3 -> Int] \union [1 .. 4 -> Int]
         /\ r.space \in {"msr", "scom"} => r.unit \in [1 .. 1 -> Int]
         /\ r.space \in {"cmos", "port"} => r.unit = <<>>
BY DEF Request, Operands

\* A small operand survives every conversion to an int or an unsigned int.
LEMMA SmallSurvives ==
  ASSUME NEW n \in Int, Small(n)
  PROVE  UIntOf(n) = n /\ UIntOfLong(n) = n /\ IntOf(n) = n
<1>1. /\ UInt \in Nat /\ ULong \in Nat /\ UInt > 0 /\ ULong > 0
      /\ UInt % 2 = 0 /\ ULong >= UInt
      /\ n \in 0 .. (UInt \div 2) - 1
  BY DeviceAssumption DEF Small, NVRAM_OFFSET
<1>2. n \in 0 .. ULong - 1 /\ n \in -(ULong \div 2) .. (ULong \div 2) - 1
  BY <1>1
<1>3. Parse(n, ULong) = n /\ ParseLong(n, ULong) = n
  BY <1>1, <1>2, ParseRange, ParseLongFits
<1>4. n % UInt = n
  BY <1>1, ModSmall
<1>5. Signed(n, UInt) = n
  BY <1>1, SignedFits
<1> QED
  BY <1>3, <1>4, <1>5 DEF UIntOf, UIntOfLong, IntOf

\* The scom driver of the kernel takes the offset of open_and_seek() apart into
\* the address it was made from: bit 63 and the bits below 59 survive.
LEMMA ScomRoundTrip ==
  ASSUME NEW n \in (0 .. K - 1) \union (16 * K .. 17 * K - 1)
  PROVE  /\ ScomOffset(n) \in 0 .. 16 * K - 1
         /\ ScomDecode(ScomOffset(n)) = n
<1>0. K \in Nat /\ K > 0
  BY DeviceAssumption
<1> DEFINE s == IF n < K THEN n ELSE n - 16 * K
<1>1. s \in 0 .. K - 1 /\ n \in Nat /\ (n < K => n = s) /\ (~(n < K) => n = s + 16 * K)
  BY <1>0
<1>2. n % (16 * K) = s
  <2>1. s % (16 * K) = s
    BY <1>0, <1>1, ModSmall
  <2>2. (s + 16 * K) % (16 * K) = s % (16 * K)
    <3> DEFINE m == 16 * K
    <3>1. m \in Nat /\ m > 0 /\ s \in Int
      BY <1>0, <1>1
    <3> HIDE DEF m, s
    <3>2. (s + m) % m = s % m
      BY <3>1, ModShift
    <3> QED
      BY <3>2 DEF m
  <2> QED
    BY <1>1, <2>1, <2>2
<1>3. (s * 8) % U64 = s * 8
  BY <1>0, <1>1, ModSmall DEF U64
<1>4. (s * 8) \div (8 * K) = 0
  BY <1>0, <1>1
<1>5. ScomOffset(n) = IF n < K THEN s * 8 ELSE s * 8 + 8 * K
  BY <1>0, <1>1, <1>2, <1>3, <1>4 DEF ScomOffset
<1> QED
  BY <1>0, <1>1, <1>5 DEF ScomDecode

\* The register that the file name and the offset of the request lead to.
Target == At(File(req, "dev"), Offset(req))

\* lseek() may have accepted the offset.
Seekable == Offset(req) >= 0 \/ req.space \in {"msr", "port"}

\* The chip that a SCOM request leads to.
ChipThere == req.space = "scom" => IntOf(req.unit[1]) \in ChipFiles

\* The file name is that of the unit the operands name.
LEMMA UnitNamed ==
  ASSUME NEW r \in Request, OperandsFit(r), r.space # "port"
  PROVE  File(r, "dev").unit = NamedRegister(r).unit
<1>1. CASE r.space = "pci" /\ r.unit \in [1 .. 4 -> Int]
  <2>1. Len(r.unit) = 4 /\ DOMAIN r.unit = 1 .. 4
    BY <1>1
  <2>2. \A k \in 1 .. 4 : r.unit[k] \in Int /\ Small(r.unit[k])
    BY <1>1, <2>1 DEF OperandsFit
  <2>3. PciUnit(r.unit) = <<r.unit[1], r.unit[2], r.unit[3], r.unit[4]>>
    BY <2>1, <2>2, SmallSurvives DEF PciUnit
  <2>4. r.unit = <<r.unit[1], r.unit[2], r.unit[3], r.unit[4]>>
    BY <1>1
  <2> QED
    BY <1>1, <2>1, <2>3, <2>4 DEF File, NamedRegister
<1>2. CASE r.space = "pci" /\ r.unit \in [1 .. 3 -> Int]
  <2>1. Len(r.unit) = 3 /\ DOMAIN r.unit = 1 .. 3
    BY <1>2
  <2>2. \A k \in 1 .. 3 : r.unit[k] \in Int /\ Small(r.unit[k])
    BY <1>2, <2>1 DEF OperandsFit
  <2>3. PciUnit(r.unit) = <<0, r.unit[1], r.unit[2], r.unit[3]>>
    BY <2>1, <2>2, SmallSurvives DEF PciUnit
  <2> QED
    BY <1>2, <2>1, <2>3 DEF File, NamedRegister
<1>3. CASE r.space \in {"msr", "scom"}
  <2>1. r.unit \in [1 .. 1 -> Int]
    BY <1>3, RequestUnits
  <2>2. r.unit[1] \in Int /\ Small(r.unit[1])
    BY <2>1 DEF OperandsFit
  <2>3. r.unit = <<r.unit[1]>>
    BY <2>1
  <2> QED
    BY <1>3, <2>2, <2>3, SmallSurvives DEF File, NamedRegister
<1>4. CASE r.space = "cmos"
  BY <1>4, RequestUnits DEF File, NamedRegister
<1> QED
  BY <1>1, <1>2, <1>3, <1>4, RequestFields, RequestUnits

\* An MSR number of 32 bits survives the conversion to an off_t of 64.
LEMMA MsrRoundTrip ==
  ASSUME NEW n \in 0 .. UInt - 1
  PROVE  Signed(Parse(n, ULong), U64) % UInt = n
<1>0. /\ ULong \in Nat /\ ULong > 0 /\ UInt \in Nat /\ UInt > 0
      /\ n \in Int /\ n \in Nat /\ n < UInt /\ n < ULong
      /\ U64 \in Nat /\ U64 > 0 /\ U64 % 2 = 0 /\ U64 >= 2 * UInt
  BY DeviceAssumption DEF NVRAM_OFFSET, U64
<1>1. Parse(n, ULong) = n
  BY <1>0, ParseRange
<1>2. n % UInt = n
  BY <1>0, ModSmall
<1>3. n \in -(U64 \div 2) .. (U64 \div 2) - 1
  BY <1>0
<1>4. Signed(n, U64) = n
  BY <1>0, <1>3, SignedFits
<1> QED
  BY <1>1, <1>2, <1>4

\* A CMOS index does, unless the offset made from it is negative.
LEMMA CmosRoundTrip ==
  ASSUME NEW n \in NVRAM_OFFSET .. ULong - 1,
         Signed(Parse(n, ULong) - NVRAM_OFFSET, ULong) >= 0
  PROVE  Signed(Parse(n, ULong) - NVRAM_OFFSET, ULong) + NVRAM_OFFSET = n
<1> DEFINE m == n - 14
           off == Signed(m, ULong)
<1>0. /\ ULong \in Nat /\ ULong > 0 /\ ULong % 2 = 0 /\ n \in Int /\ n \in 0 .. ULong - 1
      /\ m \in Int /\ m \in Nat /\ m < ULong /\ n = m + 14
  BY DeviceAssumption DEF NVRAM_OFFSET
<1>1. Parse(n, ULong) = n
  BY <1>0, ParseRange
<1>2. off >= 0
  BY <1>1 DEF NVRAM_OFFSET
<1> HIDE DEF m
<1>3. off % ULong = m % ULong /\ off \in -(ULong \div 2) .. (ULong \div 2) - 1
  BY <1>0, SignedRange
<1> HIDE DEF off
<1>4. off \in Nat /\ off < ULong
  BY <1>0, <1>2, <1>3
<1>5. off % ULong = off
  BY <1>0, <1>4, ModSmall
<1>6. m % ULong = m
  BY <1>0, ModSmall
<1> QED
  BY <1>0, <1>1, <1>3, <1>5, <1>6 DEF NVRAM_OFFSET, off, m

\* So does a SCOM address.
LEMMA ScomOffsetFits ==
  ASSUME NEW n \in (0 .. K - 1) \union (16 * K .. 17 * K - 1)
  PROVE  ScomDecode(Signed(ScomOffset(Parse(n, U64)), U64) % U64) = n
<1>1. /\ U64 \in Nat /\ U64 > 0 /\ U64 % 2 = 0 /\ U64 \div 2 = 16 * K
      /\ n \in Int /\ n \in 0 .. U64 - 1 /\ K \in Nat
  BY DeviceAssumption DEF U64
<1>2. Parse(n, U64) = n
  BY <1>1, ParseRange
<1> DEFINE off == ScomOffset(n)
<1>3. off \in 0 .. 16 * K - 1 /\ ScomDecode(off) = n
  BY ScomRoundTrip
<1> HIDE DEF off
<1>4. /\ off \in Nat /\ off < U64
      /\ off \in -(U64 \div 2) .. (U64 \div 2) - 1
  BY <1>1, <1>3
<1>5. Signed(off, U64) = off
  BY <1>1, <1>4, SignedFits
<1>6. off % U64 = off
  BY <1>1, <1>4, ModSmall
<1> QED
  BY <1>2, <1>3, <1>5, <1>6 DEF off

\* What is at the offset of the request, if lseek() accepts it, is the register
\* the operands name.
LEMMA OffsetNamed ==
  ASSUME NEW r \in Request, OperandsFit(r), r.space # "port",
         Offset(r) >= 0 \/ r.space = "msr", NEW file, file.space = r.space
  PROVE  At(file, Offset(r)).reg = r.reg
<1>0. r.reg \in Int
  BY RequestFields
<1>1. CASE r.space = "pci"
  BY <1>0, <1>1, SmallSurvives DEF Offset, At, OperandsFit
<1>2. CASE r.space = "msr"
  BY <1>2, MsrRoundTrip DEF Offset, At, OperandsFit
<1>3. CASE r.space = "cmos"
  BY <1>3, CmosRoundTrip DEF Offset, At, OperandsFit
<1>4. CASE r.space = "scom"
  BY <1>4, ScomOffsetFits DEF Offset, At, OperandsFit
<1> QED
  BY <1>1, <1>2, <1>3, <1>4, RequestFields

\* lseek() is given a number.
LEMMA OffsetInt ==
  ASSUME NEW r \in Request
  PROVE  Offset(r) \in Int
<1>0. /\ UInt \in Nat /\ ULong \in Nat /\ U64 \in Nat /\ UInt > 0 /\ ULong > 0 /\ U64 > 0
      /\ UInt % 2 = 0 /\ ULong % 2 = 0 /\ U64 % 2 = 0 /\ K \in Nat /\ K > 0
  BY DeviceAssumption DEF NVRAM_OFFSET, U64
<1>1. ASSUME NEW n \in Int, NEW w \in Nat, w > 0, w % 2 = 0 PROVE Signed(n, w) \in Int
  BY <1>1, SignedRange
<1>2. Parse(r.reg, ULong) \in Int /\ Parse(r.reg, U64) \in Nat
  <2>1. r.reg \in Int
    BY RequestFields
  <2> QED
    BY <1>0, <2>1, ParseRange
<1>3. ASSUME NEW n \in Nat PROVE ScomOffset(n) \in Int
  <2>1. 16 * K \in Nat /\ 16 * K > 0
    BY <1>0
  <2>2. n % (16 * K) \in Int
    BY <2>1, ModRange
  <2>3. ((n % (16 * K)) * 8) % U64 \in Int
    BY <1>0, <2>2, ModRange
  <2> QED
    BY <1>0, <2>3 DEF ScomOffset
<1>4. UIntOf(r.reg) \in Int
  BY <1>0, <1>2, ModRange DEF UIntOf
<1>5. Parse(r.reg, ULong) - NVRAM_OFFSET \in Int
  BY <1>2 DEF NVRAM_OFFSET
<1> QED
  BY <1>0, <1>1, <1>2, <1>3, <1>4, <1>5, RequestFields DEF Offset

\* Together: a transfer reaches the register that the operands name.
LEMMA TargetNamed ==
  ASSUME req \in Request, OperandsFit(req), req.space # "port", Seekable
  PROVE  Target = NamedRegister(req)
<1> DEFINE file == File(req, "dev")
<1>1. file.space = req.space
  BY DEF File
<1>2. file.unit = NamedRegister(req).unit
  BY UnitNamed
<1>3. At(file, Offset(req)).reg = req.reg
  BY <1>1, OffsetNamed DEF Seekable
<1> HIDE DEF file
<1> QED
  BY <1>1, <1>2, <1>3 DEF At, NamedRegister, Target, file
-----------------------------------------------------------------------------
(* Bytes. *)

\* Through a device file a byte of the register goes to the same byte of the
\* number, whatever the host's byte order; no two go to the same one.
LEMMA BytesInPlace ==
  ASSUME req \in Request, big_endian \in BOOLEAN, NEW i \in 1 .. req.size
  PROVE  /\ NumberByte(i) \in 1 .. req.size
         /\ NumberByte(NumberByte(i)) = i
         /\ ~Port => RegisterByte(i) = NumberByte(i)
<1>1. req.size \in {1, 2, 4, 8} /\ (req.space = "cmos" => req.size = 1)
  BY RequestFields
<1>2. req.space \in {"pci", "msr", "cmos", "scom", "port"}
  BY RequestFields
<1> QED
  BY <1>1, <1>2 DEF NumberByte, RegisterByte, HostByte, le_to_host, Port

\* What a transfer of n bytes moves.
Transferred(n) == {<<Target, RegisterByte(i), NumberByte(i)>> : i \in 1 .. n}

\* Nothing, if n is 0.
LEMMA NothingTransferred == Transferred(0) = {}
BY DEF Transferred

\* The outcome depends on the request and on the host alone.
LEMMA TransferFrame ==
  ASSUME UNCHANGED <<big_endian, req>>
  PROVE  /\ Target' = Target
         /\ Seekable' = Seekable
         /\ ClockRequest' = ClockRequest
         /\ ChipThere' = ChipThere
         /\ \A n : Transferred(n)' = Transferred(n)
<1>1. Target' = Target
  BY DEF Target
<1>2. Seekable' = Seekable /\ ClockRequest' = ClockRequest /\ ChipThere' = ChipThere
  BY DEF Seekable, ClockRequest, ClockByte, ChipThere
<1>3. ASSUME NEW i PROVE RegisterByte(i)' = RegisterByte(i) /\ NumberByte(i)' = NumberByte(i)
  BY DEF RegisterByte, NumberByte, HostByte, le_to_host
<1> QED
  BY <1>1, <1>2, <1>3 DEF Transferred
-----------------------------------------------------------------------------
(* The inductive invariant of the commands. *)

FileSystems == {"sysfs", "procfs", "dev"}

\* What is true of a command at each of its stages.
DevInv ==
  /\ DevTypeOK
  /\ big_endian \in BOOLEAN
  /\ req = None \/ req \in Request
  \* The open file is one the request leads to.
  /\ fd = <<>> \/ \E fs \in FileSystems : fd = <<File(req, fs)>>
  /\ pc \in {"idle", "start", "procfs"} => fd = <<>>
  /\ pc # "exited" => rc = 0 /\ shown = {}
  /\ pc \in {"idle", "start", "procfs", "seek", "transfer"} => got = 0
  \* Bytes only move after lseek() accepted the offset.
  /\ moved = Transferred(got)
  /\ pc = "transfer" \/ got > 0 => Seekable
  /\ pc = "finish" /\ ~Port /\ got < req.size => faulted
  \* A file that was opened was there, and the clock's bytes open none.
  /\ fd # <<>> \/ got > 0 => ChipThere
  /\ ClockRequest => pc \in {"start", "exited"} /\ got = 0
  /\ NoFalseFailure
  /\ pc = "exited" /\ Port => rc = 0 /\ (~req.write => shown = PortNumber)

\* The stages of the handlers, by the register space.
LEMMA StagesOf ==
  ASSUME DevStep
  PROVE  \/ req.space = "pci" /\ PciStages
         \/ req.space = "cmos" /\ CmosStages
         \/ req.space \in {"msr", "scom", "port"} /\ FileStages
BY DEF DevStep, For, pci_read_x, pci_write_x, rd_msr, wr_msr, cmos_rd, cmos_wr, rd_scom,
       wr_scom, io_read_x, io_write_x

\* A step of a handler leaves the request alone.
LEMMA StepKeepsRequest ==
  ASSUME DevStep
  PROVE  UNCHANGED <<big_endian, req>>
BY StagesOf DEF PciStages, CmosStages, FileStages, open_device, open_device_procfs,
                open_file, cmos_open, lseek, transfer, finish

\* The CMOS handlers refuse the index of the clock's bytes and no other.
LEMMA RefusedIsClock ==
  ASSUME req \in Request
  PROVE  ~IndexOk <=> ClockByte(req.reg)
<1>1. req.reg \in Int /\ ULong \in Nat /\ ULong > 28
  BY RequestFields, DeviceAssumption DEF NVRAM_OFFSET
<1> DEFINE n == req.reg
<1> HIDE DEF n
<1>2. n \in Int /\ (IndexOk <=> Parse(n, ULong) >= 14)
  BY <1>1 DEF IndexOk, NVRAM_OFFSET, n
<1>3. ~(Parse(n, ULong) >= 14) <=> n \in 0 .. 13 \/ n + ULong \in 1 .. 13
  BY <1>1, <1>2 DEF Parse
<1> QED
  BY <1>2, <1>3 DEF ClockByte, NVRAM_OFFSET, n

\* A file that open() finds is there.
LEMMA OpenedIsThere ==
  ASSUME NEW fs, Opened(File(req, fs))
  PROVE  ChipThere
BY DEF Opened, Exists, File, ChipThere

\* An open file keeps the command at a stage where nothing has moved.
LEMMA OpeningPreserves ==
  ASSUME DevInv, req # None,
         open_device \/ open_device_procfs \/ open_file,
         req.space # "cmos"
  PROVE  DevInv'
<1> USE DEF DevInv
<1>0. /\ UNCHANGED <<big_endian, req, got, moved, shown>>
      /\ pc \in {"start", "procfs"} /\ got = 0 /\ fd = <<>> /\ rc = 0 /\ shown = {}
      /\ req \in Request
  BY DEF open_device, open_device_procfs, open_file
<1>1. /\ Transferred(got)' = Transferred(got) /\ Seekable' = Seekable
      /\ ChipThere' = ChipThere /\ ClockRequest' = ClockRequest
  BY <1>0, TransferFrame
<1>2. \/ \E fs \in FileSystems : Opened(File(req, fs))
      \/ pc' = "procfs" /\ UNCHANGED <<fd, rc, faulted>>
      \/ Fails /\ UNCHANGED fd
  BY DEF open_device, open_device_procfs, open_file, FileSystems
<1>3. req.size \in {1, 2, 4, 8}
  BY <1>0, RequestFields
<1>4. ~ClockRequest
  BY DEF ClockRequest
<1>5. CASE \E fs \in FileSystems : Opened(File(req, fs))
  <2>1. PICK fs \in FileSystems : Opened(File(req, fs))
    BY <1>5
  <2>2. fd' = <<File(req', fs)>> /\ pc' = "seek" /\ UNCHANGED <<rc, faulted>>
    BY <1>0, <2>1 DEF Opened
  <2>3. Len(fd') = 1 /\ fd' # <<>>
    BY <2>2
  <2>4. ChipThere
    BY <2>1, OpenedIsThere
  <2> QED
    BY <1>0, <1>1, <1>3, <1>4, <2>2, <2>3, <2>4 DEF DevTypeOK, NoFalseFailure
<1>6. CASE pc' = "procfs" /\ UNCHANGED <<fd, rc, faulted>>
  BY <1>0, <1>1, <1>3, <1>4, <1>6 DEF DevTypeOK, NoFalseFailure
<1>7. CASE Fails /\ UNCHANGED fd
  BY <1>0, <1>1, <1>3, <1>4, <1>7 DEF DevTypeOK, NoFalseFailure, Fails, GiveUp, Port
<1> QED
  BY <1>2, <1>5, <1>6, <1>7

\* The CMOS handlers open their file after a look at the index.
LEMMA CmosOpenPreserves ==
  ASSUME DevInv, req.space = "cmos", req # None, cmos_open
  PROVE  DevInv'
<1> USE DEF DevInv
<1>0. /\ UNCHANGED <<big_endian, req, got, moved, shown>>
      /\ pc = "start" /\ got = 0 /\ fd = <<>> /\ rc = 0 /\ shown = {}
      /\ req \in Request
  BY DEF cmos_open
<1>1. /\ Transferred(got)' = Transferred(got) /\ Seekable' = Seekable
      /\ ChipThere' = ChipThere /\ ClockRequest' = ClockRequest
  BY <1>0, TransferFrame
<1>2. req.size \in {1, 2, 4, 8}
  BY <1>0, RequestFields
<1>3. CASE ~IndexOk /\ pc' = "exited" /\ rc' = -1 /\ UNCHANGED <<fd, faulted>>
  <2>1. ClockRequest
    BY <1>0, <1>3, RefusedIsClock DEF ClockRequest
  <2> QED
    BY <1>0, <1>1, <1>2, <1>3, <2>1 DEF DevTypeOK, NoFalseFailure, Port
<1>4. IndexOk => ~ClockRequest
  BY <1>0, RefusedIsClock DEF ClockRequest
<1>5. CASE IndexOk /\ Opened(File(req, "dev"))
  <2>1. fd' = <<File(req', "dev")>> /\ pc' = "seek" /\ UNCHANGED <<rc, faulted>>
    BY <1>0, <1>5 DEF Opened
  <2>2. Len(fd') = 1 /\ fd' # <<>>
    BY <2>1
  <2>3. ChipThere
    BY <1>5, OpenedIsThere
  <2> QED
    BY <1>0, <1>1, <1>2, <1>5, <1>4, <2>1, <2>2, <2>3 DEF DevTypeOK, NoFalseFailure, FileSystems
<1>6. CASE IndexOk /\ Fails /\ UNCHANGED fd
  BY <1>0, <1>1, <1>2, <1>6, <1>4 DEF DevTypeOK, NoFalseFailure, Fails, GiveUp, Port
<1> QED
  BY <1>3, <1>5, <1>6 DEF cmos_open

\* lseek() lets a transfer follow only from an offset it accepts, and fails
\* only if the system call does.
LEMMA SeekPreserves ==
  ASSUME DevInv, req # None, lseek
  PROVE  DevInv'
<1> USE DEF DevInv
<1>0. /\ UNCHANGED <<big_endian, req, got, moved, shown>>
      /\ pc = "seek" /\ got = 0 /\ fd # <<>> /\ rc = 0 /\ shown = {}
      /\ req \in Request
  BY DEF lseek, DevTypeOK
<1>1. /\ Transferred(got)' = Transferred(got) /\ Seekable' = Seekable
      /\ ChipThere' = ChipThere /\ ClockRequest' = ClockRequest
  BY <1>0, TransferFrame
<1>2. req.size \in {1, 2, 4, 8}
  BY <1>0, RequestFields
<1>3. fd[1].space = req.space
  BY <1>0 DEF File
<1>4. PICK ret \in SeekResults(fd[1], Offset(req)) :
        \/ ~SeekFailed(ret) /\ pc' = "transfer" /\ UNCHANGED <<fd, rc, faulted>>
        \/ /\ SeekFailed(ret)
           /\ GiveUp
           /\ faulted' = (ret = -1)
           /\ fd' = IF req.space = "pci" THEN fd ELSE <<>>
  BY DEF lseek
<1>5. (fd # <<>> => \E fs \in FileSystems : fd = <<File(req', fs)>>) /\ Len(fd) <= 1
  BY <1>0 DEF DevTypeOK
<1>6. CASE ~SeekFailed(ret) /\ pc' = "transfer" /\ UNCHANGED <<fd, rc, faulted>>
  <2>1. Seekable
    BY <1>3, <1>4, <1>6 DEF SeekResults, SeekFailed, Seekable
  <2> QED
    BY <1>0, <1>1, <1>2, <1>5, <1>6, <2>1 DEF DevTypeOK, NoFalseFailure
<1>7. CASE /\ SeekFailed(ret)
           /\ GiveUp
           /\ faulted' = (ret = -1)
           /\ fd' = IF req.space = "pci" THEN fd ELSE <<>>
  <2>0. ret = -1
    BY <1>0, <1>3, <1>4, <1>7, OffsetInt DEF SeekResults, SeekFailed
  <2>1. faulted' = TRUE
    BY <1>7, <2>0
  <2>2. fd' = <<>> \/ fd' = fd
    BY <1>7
  <2>3. Len(fd') <= 1 /\ (fd' = <<>> \/ \E fs \in FileSystems : fd' = <<File(req', fs)>>)
    BY <1>5, <2>2
  <2> QED
    BY <1>0, <1>1, <1>2, <1>7, <2>1, <2>3 DEF DevTypeOK, NoFalseFailure, GiveUp, Port
<1> QED
  BY <1>4, <1>6, <1>7

\* The transfer moves bytes of the register that the request leads to.
LEMMA TransferPreserves ==
  ASSUME DevInv, req # None, transfer
  PROVE  DevInv' /\ moved = {} /\ Seekable
<1> USE DEF DevInv
<1>0. /\ UNCHANGED <<big_endian, req, fd, shown, rc>>
      /\ pc = "transfer" /\ pc' = "finish" /\ got = 0 /\ fd # <<>> /\ rc = 0 /\ shown = {}
      /\ req \in Request /\ Seekable
      /\ got' \in 0 .. req.size
      /\ faulted' = (got' < req.size)
  BY DEF transfer, DevTypeOK
<1>1. /\ \A n : Transferred(n)' = Transferred(n)
      /\ Seekable' = Seekable
      /\ ChipThere' = ChipThere /\ ClockRequest' = ClockRequest
  BY <1>0, TransferFrame
<1>2. req.size \in {1, 2, 4, 8}
  BY <1>0, RequestFields
<1>3. At(fd[1], Offset(req)) = Target
  <2>1. PICK fs \in FileSystems : fd = <<File(req, fs)>>
    BY <1>0
  <2>2. File(req, fs).space = File(req, "dev").space /\ File(req, fs).unit = File(req, "dev").unit
    BY DEF File
  <2>3. fd[1] = File(req, fs)
    BY <2>1
  <2> QED
    BY <2>2, <2>3 DEF At, Target
<1>4. moved' = Transferred(got')
  BY <1>3 DEF transfer, Transferred
<1>5. moved' = Transferred(got)'
  BY <1>0, <1>4, <1>1, TransferFrame DEF Transferred
<1>6. moved = {}
  BY <1>0, NothingTransferred
<1>7. got' < req.size => faulted'
  <2>1. CASE got' < req.size
    <3>1. faulted' = TRUE
      BY <1>0, <2>1
    <3> QED
      BY <3>1
  <2> QED
    BY <2>1
<1> QED
  BY <1>0, <1>1, <1>2, <1>5, <1>6, <1>7 DEF DevTypeOK, NoFalseFailure, Port

\* The end of a handler: success if it is a port's or the count is right.
LEMMA FinishPreserves ==
  ASSUME DevInv, req # None, finish
  PROVE  DevInv'
<1> USE DEF DevInv
<1>0. /\ UNCHANGED <<big_endian, req, got, moved, faulted>>
      /\ pc = "finish" /\ pc' = "exited" /\ rc = 0
      /\ req \in Request /\ got \in 0 .. req.size
  BY DEF finish, DevTypeOK
<1>1. /\ Transferred(got)' = Transferred(got) /\ Seekable' = Seekable
      /\ ChipThere' = ChipThere /\ ClockRequest' = ClockRequest
  BY <1>0, TransferFrame
<1>2. req.size \in {1, 2, 4, 8}
  BY <1>0, RequestFields
<1>3. fd' = <<>> \/ fd' = fd
  BY DEF finish
<1>4. Len(fd') <= 1 /\ (fd' = <<>> \/ \E fs \in FileSystems : fd' = <<File(req', fs)>>)
  BY <1>0, <1>3 DEF DevTypeOK
<1>5. rc' \in {-1, 0} /\ (Port => rc' = 0) /\ (rc' = -1 => faulted)
  BY <1>0, <1>2 DEF finish, CountOk
<1>6. Port /\ ~req.write => shown' = PortNumber
  BY <1>5 DEF finish
<1>7. PortNumber' = PortNumber
  BY <1>0 DEF PortNumber, HostByte
<1>8. ~ClockRequest
  BY <1>0
<1> QED
  BY <1>0, <1>1, <1>2, <1>3, <1>4, <1>5, <1>6, <1>7, <1>8 DEF DevTypeOK, NoFalseFailure, Port

\* One step of a handler.
LEMMA DevStepPreserves ==
  ASSUME DevInv, DevStep
  PROVE  DevInv'
<1>1. req # None
  BY StagesOf DEF None
<1> QED
  BY <1>1, StagesOf, OpeningPreserves, CmosOpenPreserves, SeekPreserves, TransferPreserves,
     FinishPreserves
  DEF PciStages, CmosStages, FileStages

\* The start of a handler.
LEMMA InvokePreserves ==
  ASSUME DevInv, NEW r \in Request, Invoke(r)
  PROVE  DevInv'
<1> USE DEF DevInv
<1>0. /\ pc = "idle" /\ pc' = "start" /\ req = None /\ req' = r /\ got = 0 /\ fd = <<>>
      /\ UNCHANGED <<big_endian, fd, got, moved, shown, rc, faulted>>
  BY DEF Invoke, DevTypeOK
<1>1. Transferred(0)' = {} /\ Transferred(0) = {}
  BY DEF Transferred
<1>2. moved' = Transferred(got)' /\ moved' = {}
  BY <1>0, <1>1 DEF Transferred
<1>3. r.size \in {1, 2, 4, 8} /\ r # None
  BY RequestFields
<1> QED
  BY <1>0, <1>2, <1>3 DEF DevTypeOK, NoFalseFailure
-----------------------------------------------------------------------------
(* The refinement of RegisterAccess. *)

\* Bytes that moved are in their place, in the register that was named.
LEMMA TransferredPart ==
  ASSUME req \in Request, big_endian \in BOOLEAN, ~Port, Seekable,
         NEW n \in 1 .. req.size
  PROVE  Register!Part(req, Transferred(n))
<1>1. req.size \in {1, 2, 4, 8}
  BY RequestFields
<1>2. \A i \in 1 .. n : NumberByte(i) \in 1 .. req.size /\ RegisterByte(i) = NumberByte(i)
  BY <1>1, BytesInPlace
<1>3. Transferred(n) \subseteq {<<Target, j, j>> : j \in 1 .. req.size}
  BY <1>2 DEF Transferred
<1>4. Target \in {m[1] : m \in Transferred(n)}
  <2>1. <<Target, RegisterByte(1), NumberByte(1)>> \in Transferred(n)
    BY DEF Transferred
  <2> QED
    BY <2>1
<1>5. OperandsFit(req) => Target = NamedRegister(req)
  BY TargetNamed DEF Port
<1> QED
  BY <1>3, <1>4, <1>5 DEF Register!Part, Register!Whole

\* The access is complete exactly if the count is right.
LEMMA CompleteIffCounted ==
  ASSUME DevInv, req \in Request, ~Port
  PROVE  Register!Complete <=> CountOk
<1>1. req.size \in {1, 2, 4, 8} /\ got \in 0 .. req.size /\ big_endian \in BOOLEAN
  BY RequestFields DEF DevInv, DevTypeOK
<1>2. \A i \in 1 .. req.size : NumberByte(i) \in 1 .. req.size /\ NumberByte(NumberByte(i)) = i
  BY <1>1, BytesInPlace
<1>3. moved = Transferred(got) /\ (got > 0 => Seekable)
  BY DEF DevInv
<1>4. ASSUME CountOk PROVE Register!Complete
  <2>1. got = req.size /\ got \in 1 .. req.size
    BY <1>1, <1>4 DEF CountOk
  <2>2. Register!Part(req, moved)
    BY <1>1, <1>3, <2>1, TransferredPart
  <2>3. ASSUME NEW j \in 1 .. req.size PROVE \E m \in moved : m[3] = j
    <3>1. NumberByte(j) \in 1 .. got /\ NumberByte(NumberByte(j)) = j
      BY <1>2, <2>1
    <3>2. <<Target, RegisterByte(NumberByte(j)), NumberByte(NumberByte(j))>> \in moved
      BY <1>3, <3>1 DEF Transferred
    <3> QED
      BY <3>1, <3>2
  <2>4. moved # {}
    BY <1>1, <2>3
  <2> QED
    BY <2>2, <2>3, <2>4 DEF Register!Complete
<1>5. ASSUME Register!Complete PROVE CountOk
  <2>1. NumberByte(req.size) \in 1 .. req.size
    BY <1>1, <1>2
  <2>2. PICK m \in moved : m[3] = NumberByte(req.size)
    BY <1>5, <2>1 DEF Register!Complete
  <2>3. PICK i \in 1 .. got : m = <<Target, RegisterByte(i), NumberByte(i)>>
    BY <1>3, <2>2 DEF Transferred
  <2>4. NumberByte(i) = NumberByte(req.size) /\ i \in 1 .. req.size
    BY <1>1, <2>2, <2>3
  <2>5. i = req.size
    BY <1>1, <1>2, <2>4
  <2> QED
    BY <1>1, <2>5 DEF CountOk
<1> QED
  BY <1>4, <1>5

\* Opening and seeking are no steps of an access, except that a failure is.
LEMMA OpeningRefines ==
  ASSUME DevInv, req \in Request,
         open_device \/ open_device_procfs \/ open_file \/ cmos_open \/ lseek
  PROVE  [Register!Next]_(Register!vars)
<1>1. /\ UNCHANGED <<req, moved, shown>> /\ req # None
      /\ pc \in {"start", "procfs", "seek"} /\ moved = {}
  BY RequestFields, NothingTransferred
     DEF open_device, open_device_procfs, open_file, cmos_open, lseek, DevInv
<1>2. pc' # "exited" \/ rc' = -1
  BY DEF open_device, open_device_procfs, open_file, cmos_open, lseek, Opened, Fails, GiveUp
<1>3. CASE pc' # "exited"
  BY <1>1, <1>3 DEF Register!vars
<1>4. CASE pc' = "exited" /\ rc' = -1
  <2>1. ~Register!Complete
    BY <1>1 DEF Register!Complete
  <2> QED
    BY <1>1, <1>4, <2>1 DEF Register!Next, Register!Fail
<1> QED
  BY <1>2, <1>3, <1>4

\* A transfer that moves something is the access.
LEMMA TransferRefines ==
  ASSUME DevInv, req \in Request, transfer
  PROVE  [Register!Next]_(Register!vars)
<1>0. req # None
  BY RequestFields
<1>1. DevInv' /\ moved = {} /\ Seekable
  BY <1>0, TransferPreserves
<1>2. /\ UNCHANGED <<big_endian, req, shown, rc>> /\ pc = "transfer" /\ pc' = "finish"
      /\ got' \in 0 .. req.size
  BY DEF transfer
<1>3. moved' = Transferred(got')
  <2>1. moved' = Transferred(got)'
    BY <1>1 DEF DevInv
  <2> QED
    BY <1>2, <2>1, TransferFrame DEF Transferred
<1>4. CASE got' = 0
  BY <1>1, <1>2, <1>3, <1>4, NothingTransferred DEF Register!vars
<1>5. CASE got' # 0
  <2>1. got' \in 1 .. req.size
    BY <1>2, <1>5, RequestFields
  <2>2. ~Port => Register!Part(req, moved')
    BY <1>1, <1>3, <2>1, TransferredPart DEF DevInv
  <2>3. Port => ErrorsDropped(req)
    BY DEF Port, ErrorsDropped
  <2> QED
    BY <1>0, <1>1, <1>2, <2>2, <2>3 DEF Register!Next, Register!Access
<1> QED
  BY <1>4, <1>5

\* The end of a handler is the end of the access.
LEMMA FinishRefines ==
  ASSUME DevInv, req \in Request, finish
  PROVE  [Register!Next]_(Register!vars)
<1>1. /\ UNCHANGED <<req, moved>> /\ pc = "finish" /\ pc' = "exited" /\ shown = {}
      /\ req # None
  BY RequestFields DEF finish, DevInv
<1>2. CASE Port
  <2>1. rc' = 0 /\ ErrorsDropped(req)
    BY <1>2 DEF finish, ErrorsDropped, Port
  <2> QED
    BY <1>1, <2>1 DEF Register!Next, Register!Succeed
<1>3. CASE ~Port /\ CountOk
  <2>1. rc' = 0 /\ shown' = (IF req.write THEN {} ELSE moved)
    BY <1>3 DEF finish
  <2>2. Register!Complete
    BY <1>3, CompleteIffCounted
  <2> QED
    BY <1>1, <2>1, <2>2 DEF Register!Next, Register!Succeed
<1>4. CASE ~Port /\ ~CountOk
  <2>1. rc' = -1 /\ shown' = {}
    BY <1>4 DEF finish
  <2>2. ~Register!Complete
    BY <1>4, CompleteIffCounted
  <2> QED
    BY <1>1, <2>1, <2>2 DEF Register!Next, Register!Fail
<1> QED
  BY <1>2, <1>3, <1>4

\* Every step of a handler is a step of the access or none.
LEMMA DevStepRefines ==
  ASSUME DevInv, DevStep
  PROVE  [Register!Next]_(Register!vars)
<1>1. req \in Request
  BY StagesOf DEF None, DevInv
<1> QED
  BY <1>1, StagesOf, OpeningRefines, TransferRefines, FinishRefines
  DEF PciStages, CmosStages, FileStages
-----------------------------------------------------------------------------
(* pci_list. *)

\* A device is the tuple of its four numbers.
LEMMA DeviceTuple ==
  ASSUME NEW d \in Devices
  PROVE  /\ d[1] \in Nat /\ d[2] \in Nat /\ d[3] \in Nat /\ d[4] \in Nat
         /\ d = <<d[1], d[2], d[3], d[4]>>
BY BusAssumption

Lines == [line : Operands(3), from : Devices]

\* The line is the device's address, except that procfs misleads about buses
\* outside segment 0.
LineRight(l) ==
  source = "sysfs" \/ l.from[1] = 0 => l.line = <<l.from[2], l.from[3], l.from[4]>>

\* What is true of a listing at each of its stages.
ListInv ==
  /\ lpc \in {"idle", "start", "sysfs", "procfs_open", "procfs", "subdir", "done"}
  /\ lrc \in {-1, 0}
  /\ present \subseteq Devices /\ ever \subseteq Devices /\ stable \subseteq ever
  /\ listed \in Seq(Lines)
  /\ lpc \in {"idle", "start", "procfs_open"} => listed = <<>> /\ seen = {} /\ dirs = {}
  /\ lpc = "sysfs" => source = "sysfs"
  /\ lpc \in {"procfs", "subdir"} => source = "procfs"
  \* The lines are those of the entries returned that match, one for each.
  /\ seen \subseteq ever
  /\ \A d \in seen : FourDigits(d) => \E k \in DOMAIN listed : listed[k].from = d
  /\ \A k \in DOMAIN listed : listed[k].from \in seen /\ LineRight(listed[k])
  /\ \A j, k \in DOMAIN listed : listed[j].from = listed[k].from => j = k
  \* procfs: what stayed in a directory that was read has been seen.
  /\ lpc \in {"procfs", "subdir"} =>
       \A d \in stable :
         BusDir(d) \in dirs /\ (lpc = "subdir" => BusDir(d) # subdir) => d \in seen
  /\ lpc = "done" /\ lrc = 0 => stable \subseteq seen

\* One more line, for a device that was not seen yet.
LEMMA LinePreserves ==
  ASSUME ListInv, NEW d \in ever \ seen, NEW bus \in Int,
         lpc \in {"sysfs", "subdir"}, UNCHANGED lpc,
         source = "sysfs" \/ d[1] = 0 => bus = d[2],
         seen' = seen \union {d}, listed' = Append(listed, Line(bus, d)),
         UNCHANGED <<busVars, source, dirs, subdir, stable, ever, lrc>>
  PROVE  ListInv'
<1> USE DEF ListInv
<1> DEFINE l == Line(bus, d)
<1>1. d \in Devices /\ d[2] \in Nat /\ d[3] \in Nat /\ d[4] \in Nat
  BY DeviceTuple
<1>2. l.from = d /\ l.line = <<bus, d[3], d[4]>> /\ l \in Lines
  BY <1>1 DEF Line, Lines, Operands, Printed
<1>3. LineRight(l)
  BY <1>2 DEF LineRight
<1> HIDE DEF l
<1>4. /\ listed' = Append(listed, l) /\ listed' \in Seq(Lines) /\ Len(listed') = Len(listed) + 1
      /\ Len(listed) \in Nat
      /\ DOMAIN listed' = 1 .. Len(listed) + 1 /\ DOMAIN listed = 1 .. Len(listed)
      /\ listed'[Len(listed) + 1] = l
      /\ \A k \in 1 .. Len(listed) : listed'[k] = listed[k]
  BY <1>2 DEF l
<1>5. \A k \in DOMAIN listed : listed[k].from # d
  OBVIOUS
<1>6. \A e \in seen' : FourDigits(e) => \E k \in DOMAIN listed' : listed'[k].from = e
  BY <1>2, <1>4
<1>7. \A k \in DOMAIN listed' : listed'[k].from \in seen' /\ LineRight(listed'[k])
  BY <1>2, <1>3, <1>4
<1>8. \A j, k \in DOMAIN listed' : listed'[j].from = listed'[k].from => j = k
  BY <1>2, <1>4, <1>5
<1> QED
  BY <1>1, <1>4, <1>6, <1>7, <1>8 DEF busVars, LineRight

\* opendir() starts the histories.
LEMMA OpendirPreserves ==
  ASSUME ListInv, pci_list \/ pci_list_procfs_open
  PROVE  ListInv'
<1> USE DEF ListInv
<1>0. /\ UNCHANGED <<present, seen, dirs, subdir, listed>>
      /\ listed = <<>> /\ seen = {} /\ dirs = {}
  BY DEF pci_list, pci_list_procfs_open, busVars
<1>1. DOMAIN listed = {} /\ DOMAIN listed' = {}
  BY <1>0
<1>2. CASE pci_list
  BY <1>0, <1>1, <1>2 DEF pci_list, Opendir, Done
<1>3. CASE pci_list_procfs_open
  BY <1>0, <1>1, <1>3 DEF pci_list_procfs_open, Opendir, Done
<1> QED
  BY <1>2, <1>3

\* An entry of sysfs, or the end of the directory.
LEMMA SysfsPreserves ==
  ASSUME ListInv, pci_list_sysfs
  PROVE  ListInv'
<1>0. lpc = "sysfs" /\ UNCHANGED <<busVars, source, dirs, subdir, stable, ever>>
  BY DEF pci_list_sysfs
<1>1. ASSUME NEW d \in ever \ seen,
             seen' = seen \union {d},
             listed' = IF FourDigits(d) THEN Append(listed, Line(d[2], d)) ELSE listed,
             UNCHANGED <<lpc, lrc>>
      PROVE  ListInv'
  <2>1. d[2] \in Int
    BY DeviceTuple DEF ListInv
  <2>2. CASE FourDigits(d)
    BY <1>0, <1>1, <2>1, <2>2, LinePreserves
  <2>3. CASE ~FourDigits(d)
    BY <1>0, <1>1, <2>3 DEF ListInv, LineRight, busVars
  <2> QED
    BY <2>2, <2>3
<1>2. CASE stable \subseteq seen /\ Done(0) /\ UNCHANGED <<seen, listed>>
  BY <1>0, <1>2 DEF ListInv, Done, LineRight, busVars
<1> QED
  BY <1>1, <1>2 DEF pci_list_sysfs

\* A bus directory of procfs.
LEMMA ProcfsPreserves ==
  ASSUME ListInv, pci_list_procfs
  PROVE  ListInv'
<1> USE DEF ListInv
<1>0. lpc = "procfs" /\ UNCHANGED <<present, source, seen, stable, ever, listed>>
  BY DEF pci_list_procfs, busVars
<1>1. ASSUME NEW dir \in {BusDir(d) : d \in ever} \ dirs,
             dirs' = dirs \union {dir}, subdir' = dir, lpc' = "subdir", UNCHANGED lrc
      PROVE  ListInv'
  BY <1>0, <1>1 DEF LineRight, BusDir
<1>2. CASE SubdirFails
  BY <1>0, <1>2 DEF LineRight, SubdirFails, Done
<1>3. CASE {BusDir(d) : d \in stable} \subseteq dirs /\ Done(0) /\ UNCHANGED <<dirs, subdir>>
  <2>1. stable \subseteq seen
    BY <1>0, <1>3
  <2> QED
    BY <1>0, <1>3, <2>1 DEF LineRight, Done
<1> QED
  BY <1>1, <1>2, <1>3 DEF pci_list_procfs

\* An entry of a bus directory, or its end.
LEMMA SubdirPreserves ==
  ASSUME ListInv, pci_list_subdir
  PROVE  ListInv'
<1>0. /\ lpc = "subdir" /\ UNCHANGED <<busVars, source, dirs, subdir, stable, ever, lrc>>
      /\ source = "procfs"
  BY DEF pci_list_subdir, ListInv
<1>1. ASSUME NEW d \in ever \ seen, BusDir(d) = subdir,
             seen' = seen \union {d}, listed' = Append(listed, Line(BusOf(subdir), d)),
             UNCHANGED lpc
      PROVE  ListInv'
  <2>1. d[1] \in Nat /\ d[2] \in Nat
    BY DeviceTuple DEF ListInv
  <2>2. BusOf(subdir) \in Int /\ (d[1] = 0 => BusOf(subdir) = d[2])
    <3>1. subdir[1] = d[1] /\ subdir[2] = d[2]
      BY <1>1 DEF BusDir
    <3> QED
      BY <2>1, <3>1, ListAssumption DEF BusOf
  <2> QED
    BY <1>0, <1>1, <2>2, LinePreserves
<1>2. CASE /\ \A d \in stable : BusDir(d) = subdir => d \in seen
           /\ lpc' = "procfs" /\ UNCHANGED <<seen, listed>>
  BY <1>0, <1>2 DEF ListInv, LineRight, busVars, BusDir
<1> QED
  BY <1>1, <1>2 DEF pci_list_subdir

\* Devices that come or go.
LEMMA HotplugPreserves ==
  ASSUME ListInv, hotplug
  PROVE  ListInv'
BY DEF ListInv, LineRight, hotplug, plug, unplug, BusDir

\* One step of pci_list.
LEMMA ListStepPreserves ==
  ASSUME ListInv, ListStep
  PROVE  ListInv'
BY OpendirPreserves, SysfsPreserves, ProcfsPreserves, SubdirPreserves DEF ListStep

\* The invariant gives the fair picture.
LEMMA ListInvFaithful ==
  ASSUME ListInv
  PROVE  ListFaithful
<1>1. SUFFICES ASSUME lpc = "done", lrc = 0, NamesReadable
               PROVE  /\ \A d \in stable :
                           d[1] <= 65535 => \E k \in DOMAIN listed : listed[k].from = d
                      /\ \A k \in DOMAIN listed :
                           /\ listed[k].from \in ever
                           /\ listed[k].line =
                                <<listed[k].from[2], listed[k].from[3], listed[k].from[4]>>
                           /\ \A j \in DOMAIN listed :
                                listed[j].from = listed[k].from => j = k
  BY DEF ListFaithful
<1>2. ASSUME NEW d \in stable PROVE d \in seen /\ (d[1] <= 65535 => FourDigits(d))
  <2>1. d \in seen /\ d \in Devices
    BY <1>1 DEF ListInv
  <2>2. d[1] \in Nat
    BY <2>1, DeviceTuple
  <2> QED
    BY <2>1, <2>2 DEF FourDigits
<1>3. ASSUME NEW k \in DOMAIN listed
      PROVE  listed[k].line = <<listed[k].from[2], listed[k].from[3], listed[k].from[4]>>
  <2>1. listed[k].from \in ever /\ LineRight(listed[k])
    BY DEF ListInv
  <2> QED
    BY <1>1, <2>1 DEF NamesReadable, LineRight
<1> QED
  BY <1>2, <1>3 DEF ListInv
-----------------------------------------------------------------------------
(* cputochipid and cputoex. *)

\* What is true of a lookup at each of its stages.
ChipInv ==
  /\ cpc \in {"idle", "start", "ex", "glob", "done"}
  /\ cmd \in {"cputochipid", "cputoex"}
  /\ crc \in {-1, 0}
  /\ printed \in Int
  /\ cpc # "idle" => named \in Int /\ cpu = CpuOf(named)
  /\ cpc \in {"ex", "glob"} \/ (cpc = "done" /\ crc = 0) => cpu \in DOMAIN Pir
  /\ cpc \in {"ex", "glob"} => pir \in Nat /\ (short \/ pir = Pir[cpu])
  /\ cpc = "ex" => cmd = "cputoex"
  /\ cpc = "glob" => cmd = "cputochipid"
  /\ cpc = "done" /\ crc = 0 /\ ~short =>
       /\ cmd = "cputoex" => printed = ExOf(Pir[cpu])
       /\ cmd # "cputoex" => printed = HostOrder(ChipOfCore[CoreOf(Pir[cpu])], big_endian)

\* One step of a lookup.
LEMMA ChipStepPreserves ==
  ASSUME ChipInv, ChipStep(big_endian), UNCHANGED big_endian
  PROVE  ChipInv'
<1> USE DEF ChipInv
<1>0. /\ \A c \in DOMAIN Pir : Pir[c] \in Nat
      /\ \A core \in DOMAIN ChipOfCore : ChipOfCore[core] \in Int
      /\ Byte \in Int /\ Stale \subseteq Nat
  BY ChipAssumption
<1>1. UNCHANGED <<named, cpu>> => CpuOf(named)' = CpuOf(named)
  BY DEF CpuOf
<1>2. CASE cpu_to_pir
  <2>1. UNCHANGED <<named, cpu, cmd, printed>> /\ cpc = "start"
    BY <1>2 DEF cpu_to_pir
  <2>2. CASE Leave(-1) /\ UNCHANGED <<pir, short>>
    BY <1>1, <2>1, <2>2 DEF Leave
  <2>3. CASE /\ cpu \in DOMAIN Pir
             /\ cpc' = IF cmd = "cputoex" THEN "ex" ELSE "glob"
             /\ \/ pir' = Pir[cpu] /\ UNCHANGED short
                \/ pir' \in Stale /\ short' = TRUE
             /\ UNCHANGED crc
    <3>1. pir' \in Nat /\ (short' \/ pir' = Pir[cpu])
      BY <1>0, <2>3
    <3> QED
      BY <1>1, <2>1, <2>3, <3>1
  <2> QED
    BY <1>2, <2>2, <2>3 DEF cpu_to_pir
<1>3. CASE cpu_to_ex
  <2>1. /\ UNCHANGED <<named, cpu, cmd, short>> /\ cmd = "cputoex" /\ pir \in Nat
        /\ named \in Int /\ cpu = CpuOf(named)
        /\ printed' = ExOf(pir) /\ cpc' = "done" /\ crc' = 0
        /\ (short \/ pir = Pir[cpu]) /\ cpu \in DOMAIN Pir
    BY <1>3 DEF cpu_to_ex, Leave
  <2>2. printed' \in Int
    BY <2>1 DEF ExOf
  <2> QED
    BY <1>1, <2>1, <2>2
<1>4. CASE cpu_to_chipid(big_endian)
  <2>1. /\ UNCHANGED <<named, cpu, cmd, pir>> /\ cmd = "cputochipid" /\ cpc' = "done"
        /\ named \in Int /\ cpu = CpuOf(named)
        /\ (short \/ pir = Pir[cpu]) /\ cpu \in DOMAIN Pir
    BY <1>4 DEF cpu_to_chipid, Leave
  <2>2. CASE Leave(-1) /\ UNCHANGED <<printed, short>>
    BY <1>1, <2>1, <2>2 DEF Leave
  <2>3. CASE /\ CoreOf(pir) \in DOMAIN ChipOfCore /\ Leave(0)
             /\ printed' = HostOrder(ChipOfCore[CoreOf(pir)], big_endian) /\ UNCHANGED short
    <3>1. printed' \in Int
      BY <1>0, <2>3 DEF HostOrder
    <3> QED
      BY <1>1, <2>1, <2>3, <3>1 DEF Leave
  <2>4. CASE printed' \in Stale /\ short' = TRUE /\ Leave(0)
    BY <1>0, <1>1, <2>1, <2>4 DEF Leave
  <2> QED
    BY <1>4, <2>2, <2>3, <2>4 DEF cpu_to_chipid
<1> QED
  BY <1>2, <1>3, <1>4 DEF ChipStep
-----------------------------------------------------------------------------
(* The scripts. *)

\* The request that a script has made.
ScriptInv ==
  /\ script = "list" => req = None \/ (req.space = "pci" /\ req.unit \in Operands(3))
  /\ script = "chip" =>
       \/ req = None
       \/ cpc = "done" /\ crc = 0 /\ cmd = "cputochipid" /\ req = GetScom(printed)

ToolInv == DevInv /\ ListInv /\ ChipInv /\ ScriptInv

\* The requests of a script are requests.
LEMMA ScriptRequests ==
  /\ \A line \in Operands(3) : PciRead(line) \in Request
  /\ \A chip \in Int : GetScom(chip) \in Request
<1>1. \A chip \in Int : <<chip>> \in Operands(1)
  BY DEF Operands
<1> QED
  BY <1>1 DEF PciRead, GetScom, Request

\* The start.
LEMMA ToolInitInv == ToolInit => ToolInv
<1> SUFFICES ASSUME ToolInit PROVE ToolInv
  OBVIOUS
<1>1. DevInv
  BY NothingTransferred
  DEF ToolInit, DevInit, DevInv, DevTypeOK, NoFalseFailure, ClockRequest, None
<1>2. ListInv
  <2>1. listed = <<>> /\ DOMAIN listed = {} /\ listed \in Seq(Lines)
    BY DEF ToolInit, ListInit
  <2> QED
    BY <2>1 DEF ToolInit, ListInit, BusInit, ListInv
<1>3. ChipInv
  BY DEF ToolInit, ChipInit, ChipInv
<1>4. ScriptInv
  BY DEF ToolInit, DevInit, ScriptInv
<1> QED
  BY <1>1, <1>2, <1>3, <1>4 DEF ToolInv

\* The request of an invocation is one that the command tables let through.
LEMMA Invocations ==
  ASSUME ToolInv, user_command \/ read_listed \/ read_chip
  PROVE  \E r \in Request :
           /\ Invoke(r)
           /\ script = "list" => r.space = "pci" /\ r.unit \in Operands(3)
           /\ script = "chip" =>
                cpc = "done" /\ crc = 0 /\ cmd = "cputochipid" /\ r = GetScom(printed)
<1>1. CASE user_command
  BY <1>1, TopologyAssumption DEF user_command
<1>2. CASE read_listed
  <2>1. PICK k \in DOMAIN listed : Invoke(PciRead(listed[k].line))
    BY <1>2 DEF read_listed
  <2>2. listed[k].line \in Operands(3)
    <3>1. listed \in Seq(Lines)
      BY DEF ToolInv, ListInv
    <3>2. listed[k] \in Lines
      BY <3>1, <2>1
    <3> QED
      BY <3>2 DEF Lines
  <2>3. PciRead(listed[k].line).space = "pci" /\ PciRead(listed[k].line).unit \in Operands(3)
    BY <2>2 DEF PciRead
  <2> QED
    BY <1>2, <2>1, <2>2, <2>3, ScriptRequests DEF read_listed
<1>3. CASE read_chip
  BY <1>3, ScriptRequests DEF read_chip, ToolInv, ChipInv
<1> QED
  BY <1>1, <1>2, <1>3

\* The invariant is inductive.
LEMMA ToolInvNext == ToolInv /\ [ToolNext]_toolVars => ToolInv'
<1> SUFFICES ASSUME ToolInv, [ToolNext]_toolVars PROVE ToolInv'
  OBVIOUS
<1> USE DEF ToolInv
<1>1. ASSUME UNCHANGED devVars PROVE DevInv'
  <2>1. UNCHANGED <<big_endian, req, got, fd, pc, moved, shown, rc, faulted>>
    BY <1>1 DEF devVars
  <2>2. /\ Seekable' = Seekable /\ Transferred(got)' = Transferred(got)
        /\ ChipThere' = ChipThere /\ ClockRequest' = ClockRequest
    BY <2>1, TransferFrame
  <2>3. PortNumber' = PortNumber
    BY <2>1 DEF PortNumber, HostByte
  <2> QED
    BY <2>1, <2>2, <2>3 DEF DevInv, DevTypeOK, NoFalseFailure, Port
<1>2. ASSUME UNCHANGED <<busVars, listVars>> PROVE ListInv'
  BY <1>2 DEF ListInv, LineRight, busVars, listVars, BusDir
<1>3. ASSUME UNCHANGED <<chipVars, big_endian>> PROVE ChipInv'
  BY <1>3 DEF ChipInv, chipVars
<1>4. CASE user_command \/ read_listed \/ read_chip
  <2>0. UNCHANGED <<busVars, listVars, chipVars, script>>
    BY <1>4 DEF user_command, read_listed, read_chip
  <2>1. PICK r \in Request :
          /\ Invoke(r)
          /\ script = "list" => r.space = "pci" /\ r.unit \in Operands(3)
          /\ script = "chip" =>
               cpc = "done" /\ crc = 0 /\ cmd = "cputochipid" /\ r = GetScom(printed)
    BY <1>4, Invocations
  <2>2. DevInv'
    BY <2>1, InvokePreserves
  <2>3. UNCHANGED <<cpc, crc, cmd, printed, script, big_endian>> /\ req' = r
    BY <2>0, <2>1 DEF chipVars, Invoke
  <2>4. ScriptInv'
    BY <2>1, <2>3 DEF ScriptInv, GetScom
  <2> QED
    BY <1>2, <1>3, <2>0, <2>2, <2>3, <2>4
<1>5. CASE start_list
  <2>1. UNCHANGED <<busVars, devVars, source, seen, dirs, subdir, stable, ever, listed, lrc,
                    chipVars, script>> /\ lpc = "idle" /\ lpc' = "start"
    BY <1>5 DEF start_list
  <2>2. ListInv'
    BY <2>1 DEF ListInv, LineRight, busVars
  <2>3. ScriptInv' /\ UNCHANGED big_endian
    BY <2>1 DEF ScriptInv, devVars, chipVars, GetScom
  <2> QED
    BY <1>1, <1>3, <2>1, <2>2, <2>3
<1>6. CASE start_lookup
  <2>1. /\ UNCHANGED <<busVars, devVars, listVars, pir, printed, crc, short, script>>
        /\ cpc = "idle" /\ cpc' = "start" /\ named' \in Int /\ cpu' = CpuOf(named')
        /\ cmd' \in {"cputochipid", "cputoex"}
    BY <1>6, TopologyAssumption DEF start_lookup
  <2>2. ChipInv' /\ ScriptInv'
    BY <2>1 DEF CpuOf, ChipInv, ScriptInv, devVars, GetScom
  <2> QED
    BY <1>1, <1>2, <2>1, <2>2
<1>7. CASE DevStep /\ UNCHANGED <<busVars, listVars, chipVars, script>>
  <2>1. DevInv' /\ UNCHANGED <<big_endian, req>>
    BY <1>7, DevStepPreserves, StepKeepsRequest
  <2>2. ScriptInv'
    BY <1>7, <2>1 DEF ScriptInv, chipVars, GetScom
  <2> QED
    BY <1>2, <1>3, <1>7, <2>1, <2>2
<1>8. CASE ListStep /\ UNCHANGED <<devVars, chipVars, script>>
  <2>1. ScriptInv' /\ UNCHANGED big_endian
    BY <1>8 DEF ScriptInv, devVars, chipVars, GetScom
  <2> QED
    BY <1>1, <1>3, <1>8, <2>1, ListStepPreserves
<1>9. CASE ChipStep(big_endian) /\ UNCHANGED <<busVars, devVars, listVars, script>>
  <2>1. ScriptInv' /\ UNCHANGED big_endian
    BY <1>9 DEF ScriptInv, devVars, GetScom, ChipStep, cpu_to_pir, cpu_to_ex, cpu_to_chipid
  <2> QED
    BY <1>1, <1>2, <1>9, <2>1, ChipStepPreserves
<1>10. CASE hotplug /\ UNCHANGED <<devVars, chipVars, script>>
  <2>1. ScriptInv' /\ UNCHANGED big_endian
    BY <1>10 DEF ScriptInv, devVars, chipVars, GetScom
  <2> QED
    BY <1>1, <1>3, <1>10, <2>1, HotplugPreserves
<1>11. CASE UNCHANGED toolVars
  <2>1. ScriptInv' /\ UNCHANGED big_endian
    BY <1>11 DEF ScriptInv, toolVars, devVars, chipVars, GetScom
  <2> QED
    BY <1>1, <1>2, <1>3, <1>11, <2>1 DEF toolVars
<1> QED
  BY <1>4, <1>5, <1>6, <1>7, <1>8, <1>9, <1>10, <1>11 DEF ToolNext

\* Every byte of what a port command prints is a port's or was set before.
LEMMA DevInvNoGarbage ==
  ASSUME DevInv
  PROVE  PortNeverGarbage
<1> SUFFICES ASSUME pc = "exited", Port, ~req.write, NEW j \in 1 .. req.size
             PROVE  \/ \E m \in moved : m[3] = j /\ m \in shown
                    \/ \E m \in shown : m[1].space \in {"ff", "00"} /\ m[3] = j
  BY DEF PortNeverGarbage
<1>1. /\ req \in Request /\ big_endian \in BOOLEAN
      /\ shown = PortNumber /\ moved = Transferred(got) /\ got \in 0 .. req.size
  BY DEF DevInv, DevTypeOK, Port, None
<1>2. req.size \in {1, 2, 4, 8}
  BY <1>1, RequestFields
<1> DEFINE i == NumberByte(j)
<1>3. i \in 1 .. req.size /\ NumberByte(i) = j
  BY <1>1, BytesInPlace
<1>4. HostByte(i) = j
  BY <1>3 DEF NumberByte, Port
<1> HIDE DEF i
<1>5. CASE i <= got
  <2>1. <<Target, RegisterByte(i), NumberByte(i)>> \in moved
    BY <1>1, <1>2, <1>3, <1>5 DEF Transferred
  <2>2. moved \subseteq shown
    BY <1>1 DEF PortNumber
  <2> QED
    BY <1>3, <2>1, <2>2
<1>6. CASE ~(i <= got)
  <2>1. i \in got + 1 .. req.size
    BY <1>1, <1>2, <1>3, <1>6
  <2>2. <<Filler(HostByte(i)), 0, HostByte(i)>> \in shown
    BY <1>1, <2>1 DEF PortNumber
  <2>3. Filler(HostByte(i)).space \in {"ff", "00"}
    BY DEF Filler, Constant
  <2> QED
    BY <1>4, <2>2, <2>3
<1> QED
  BY <1>5, <1>6

\* What moved came from the unit that the file name was made from.
LEMMA MovedUnit ==
  ASSUME DevInv, NEW m \in moved
  PROVE  /\ req \in Request
         /\ m[1].unit = File(req, "dev").unit
         /\ ChipThere
<1>1. moved = Transferred(got)
  BY DEF DevInv
<1>2. PICK i \in 1 .. got : m = <<Target, RegisterByte(i), NumberByte(i)>>
  BY <1>1 DEF Transferred
<1>3. req \in Request
  BY <1>2 DEF DevInv, DevTypeOK
<1>4. got > 0
  BY <1>2 DEF DevInv, DevTypeOK, None
<1> QED
  BY <1>2, <1>3, <1>4 DEF Target, At, DevInv

\* A line of segment 0 is read back as the device it was printed for.
LEMMA ListedReadsDevice ==
  ASSUME ToolInv
  PROVE  ListedLineReadsDevice
<1> SUFFICES ASSUME script = "list", NEW k \in DOMAIN listed, NEW m \in moved,
                    req.unit = listed[k].line, listed[k].from[1] = 0
             PROVE  m[1].unit = listed[k].from
  BY DEF ListedLineReadsDevice
<1> DEFINE d == listed[k].from
<1>1. d \in Devices /\ listed[k].line = <<d[2], d[3], d[4]>>
  BY DEF ToolInv, ListInv, LineRight
<1>2. /\ d[1] \in Nat /\ d[2] \in Nat /\ d[3] \in Nat /\ d[4] \in Nat
      /\ d = <<d[1], d[2], d[3], d[4]>>
  BY <1>1, DeviceTuple
<1>3. Small(d[2]) /\ Small(d[3]) /\ Small(d[4])
  BY <1>1, TopologyAssumption
<1>4. req \in Request /\ m[1].unit = File(req, "dev").unit
  BY MovedUnit DEF ToolInv
<1>5. req.space = "pci"
  BY <1>4, RequestFields DEF ToolInv, ScriptInv
<1>6. PciUnit(<<d[2], d[3], d[4]>>) = <<0, d[2], d[3], d[4]>>
  BY <1>2, <1>3, SmallSurvives DEF PciUnit
<1>7. File(req, "dev").unit = PciUnit(req.unit)
  BY <1>5 DEF File
<1> HIDE DEF d
<1> QED
  BY <1>1, <1>2, <1>4, <1>6, <1>7 DEF d

\* A chip number in the wrong byte order is that of no chip, if it is not 0.
LEMMA SwappedIsNoChip ==
  ASSUME NEW n \in 0 .. Byte - 1, n # 0
  PROVE  IntOf(HostOrder(n, FALSE)) \notin ChipFiles
<1> DEFINE c == Byte * (Byte * Byte)
           s == n * Byte * Byte * Byte
<1>1. Byte \in Nat /\ Byte >= 2 /\ n \in Nat /\ n >= 1 /\ n <= Byte - 1
  BY ChipAssumption
<1>2. Byte * Byte \in Nat /\ Byte * Byte >= 2 * Byte
  BY <1>1
<1>3. c \in Nat /\ c >= 2 * (Byte * Byte)
  BY <1>1, <1>2
<1>4. s = n * c
  BY <1>1
<1>5. Byte * c <= UInt
  BY TopologyAssumption
<1> HIDE DEF s, c
<1>6. s \in Nat /\ s >= c /\ s <= (Byte - 1) * c
  BY <1>1, <1>3, <1>4
<1>7. (Byte - 1) * c = Byte * c - c /\ Byte * c >= 2 * c
  BY <1>1, <1>3
<1>8. s >= 4 * Byte /\ s < UInt /\ UInt >= 8 * Byte
  BY <1>1, <1>2, <1>3, <1>5, <1>6, <1>7, DeviceAssumption
<1>9. UInt \in Nat /\ ULong \in Nat /\ UInt % 2 = 0 /\ ULong % 2 = 0 /\ ULong >= UInt
  BY DeviceAssumption
<1> DEFINE m == ParseLong(s, ULong)
<1>10. m \in Byte .. UInt - 1
  BY <1>1, <1>6, <1>8, <1>9 DEF ParseLong
<1> HIDE DEF m
<1>11. Signed(m, UInt) \notin 0 .. Byte - 1
  <2>1. CASE m < UInt \div 2
    <3>1. m \in -(UInt \div 2) .. (UInt \div 2) - 1
      BY <1>1, <1>9, <1>10, <2>1
    <3>2. Signed(m, UInt) = m
      BY <1>1, <1>8, <1>9, <3>1, SignedFits
    <3> QED
      BY <1>1, <1>10, <3>2
  <2>2. CASE ~(m < UInt \div 2)
    <3> DEFINE h == UInt \div 2
               k == m + h - UInt
    <3>1. h \in Nat /\ UInt = h + h /\ m \in Nat /\ m >= h /\ m < UInt
      BY <1>1, <1>9, <1>10, <2>2
    <3>2. k \in Nat /\ k < h
      BY <3>1
    <3>3. k % UInt = k
      BY <1>9, <3>1, <3>2, ModSmall
    <3>4. m + h = k + UInt
      BY <3>1
    <3>5. (k + UInt) % UInt = k % UInt
      BY <1>1, <1>8, <1>9, <3>2, ModShift
    <3>6. Signed(m, UInt) = k - h
      BY <3>3, <3>4, <3>5 DEF Signed
    <3> HIDE DEF k, h
    <3> QED
      BY <1>1, <3>1, <3>2, <3>6
  <2> QED
    BY <2>1, <2>2
<1>12. IntOf(HostOrder(n, FALSE)) = Signed(m, UInt)
  BY DEF IntOf, HostOrder, m, s
<1> QED
  BY <1>11, <1>12, TopologyAssumption

\* A byte is less than half of an unsigned int.
LEMMA ByteIsSmall == Byte <= UInt \div 2
<1>1. Byte \in Nat /\ Byte >= 2 /\ UInt \in Nat /\ UInt % 2 = 0
  BY ChipAssumption, DeviceAssumption
<1>2. Byte * Byte \in Nat /\ Byte * Byte >= 2 * Byte
  BY <1>1
<1>3. Byte * (Byte * Byte) \in Nat /\ Byte * (Byte * Byte) >= 2 * (Byte * Byte)
  BY <1>1, <1>2
<1>4. Byte * (Byte * (Byte * Byte)) >= 2 * (Byte * (Byte * Byte))
  BY <1>1, <1>3
<1> QED
  BY <1>1, <1>2, <1>3, <1>4, TopologyAssumption

\* A small operand is the number of the CPU.
LEMMA SmallCpu ==
  ASSUME NEW n \in Int, Small(n)
  PROVE  CpuOf(n) = n
<1>1. /\ UInt \in Nat /\ ULong \in Nat /\ UInt > 0 /\ ULong > 0
      /\ UInt % 2 = 0 /\ ULong >= UInt
      /\ n \in 0 .. (UInt \div 2) - 1
  BY DeviceAssumption DEF Small, NVRAM_OFFSET
<1>2. n \in 0 .. ULong - 1 /\ n \in -(UInt \div 2) .. (UInt \div 2) - 1
  BY <1>1
<1>3. Parse(n, ULong) = n /\ Signed(n, UInt) = n
  BY <1>1, <1>2, ParseRange, SignedFits
<1> QED
  BY <1>3 DEF CpuOf

\* getscom opens the chip that was printed, if there is one of that number:
\* the CPU's, or on a little-endian host none unless it is chip 0.
LEMMA LookupLeadsToChip ==
  ASSUME ToolInv
  PROVE  LookupFindsChip
<1> SUFFICES ASSUME script = "chip", cpc = "done", crc = 0, ~short, Small(named)
             PROVE  /\ cmd = "cputoex" => printed = (Pir[named] % 128) \div 8
                    /\ \A m \in moved :
                         m[1].unit = <<ChipOfCore[Pir[named] - (Pir[named] % 8)]>>
  BY DEF LookupFindsChip
<1>0. cpu = named
  BY SmallCpu DEF ToolInv, ChipInv
<1>1. cpu \in DOMAIN Pir /\ Pir[cpu] \in Nat
  BY ChipAssumption DEF ToolInv, ChipInv
<1>2. cmd = "cputoex" => printed = (Pir[cpu] % 128) \div 8
  <2>1. cmd = "cputoex" => printed = ExOf(Pir[cpu])
    BY DEF ToolInv, ChipInv
  <2>2. \A p \in Nat : (p \div 8) % 16 = (p % 128) \div 8
    OBVIOUS
  <2> QED
    BY <1>1, <2>1, <2>2 DEF ExOf
<1>3. ASSUME NEW m \in moved
      PROVE  m[1].unit = <<ChipOfCore[Pir[cpu] - (Pir[cpu] % 8)]>>
  <2> DEFINE chip == ChipOfCore[CoreOf(Pir[cpu])]
  <2>1. /\ req \in Request /\ m[1].unit = File(req, "dev").unit /\ ChipThere
    BY MovedUnit DEF ToolInv
  <2>2. cmd = "cputochipid" /\ req = GetScom(printed)
    BY <2>1, RequestFields DEF ToolInv, ScriptInv
  <2>3. printed = HostOrder(chip, big_endian) /\ big_endian \in BOOLEAN
    BY <2>2 DEF ToolInv, ChipInv, DevInv
  <2>4. chip \in 0 .. Byte - 1 /\ Byte \in Nat
    BY <1>1, ChipAssumption, TopologyAssumption
  <2>5. chip \in Int /\ Small(chip)
    <3>1. Byte <= UInt \div 2
      BY <2>4, ByteIsSmall
    <3> QED
      BY <2>4, <3>1, DeviceAssumption DEF Small
  <2>6. req.space = "scom" /\ req.unit[1] = printed
    BY <2>2 DEF GetScom
  <2>7. File(req, "dev").unit = <<IntOf(printed)>> /\ IntOf(printed) \in ChipFiles
    BY <2>1, <2>6 DEF File, ChipThere
  <2> HIDE DEF chip
  <2>8. printed = chip
    <3>1. CASE big_endian
      BY <2>3, <3>1 DEF HostOrder
    <3>2. CASE ~big_endian
      <4>1. printed = HostOrder(chip, FALSE)
        BY <2>3, <3>2 DEF HostOrder
      <4>2. chip = 0
        BY <2>4, <2>7, <4>1, SwappedIsNoChip
      <4> QED
        BY <2>4, <4>1, <4>2 DEF HostOrder
    <3> QED
      BY <3>1, <3>2
  <2>9. IntOf(chip) = chip
    BY <2>5, SmallSurvives
  <2> QED
    BY <2>1, <2>7, <2>8, <2>9 DEF chip, CoreOf
<1> QED
  BY <1>0, <1>2, <1>3

\* Every step of the scripts is a step of one register access or none.
LEMMA ToolStepRefines == ToolInv /\ [ToolNext]_toolVars => [Register!Next]_(Register!vars)
<1> SUFFICES ASSUME ToolInv, [ToolNext]_toolVars PROVE [Register!Next]_(Register!vars)
  OBVIOUS
<1>1. CASE user_command \/ read_listed \/ read_chip
  <2>1. PICK r \in Request : Invoke(r)
    BY <1>1, Invocations
  <2>2. req = None /\ r # None
    BY <2>1, RequestFields DEF Invoke, ToolInv, DevInv, DevTypeOK
  <2> QED
    BY <2>1, <2>2 DEF Invoke, Register!Next, Register!Ask
<1>2. CASE DevStep
  BY <1>2, DevStepRefines DEF ToolInv
<1>3. CASE UNCHANGED devVars
  BY <1>3 DEF devVars, Register!vars
<1> QED
  BY <1>1, <1>2, <1>3 DEF ToolNext, start_list, start_lookup, toolVars
-----------------------------------------------------------------------------
(* Theorems. *)

\* In every state of every script the invariant holds.
THEOREM ToolInvariant == ToolSpec => []ToolInv
BY ToolInitInv, ToolInvNext, PTL DEF ToolSpec

\* The type invariant of the commands that go through a device file.
THEOREM DeviceTypes == ToolSpec => []DevTypeOK
<1>1. ToolInv => DevTypeOK
  BY DEF ToolInv, DevInv
<1> QED
  BY <1>1, ToolInvariant, PTL

\* pci_rw.c, msr.c, cmos_rw.c and scom.c report no failure unless a system call
\* failed or came short, or the CMOS index is the clock's; and the clock's bytes
\* are always refused, for every operand and every width of the integer types.
THEOREM FailuresAreReal == ToolSpec => []NoFalseFailure
<1>1. ToolInv => NoFalseFailure
  BY DEF ToolInv, DevInv
<1> QED
  BY <1>1, ToolInvariant, PTL

\* io_rw.c prints defined bytes only, however little read() returns.
THEOREM PortsPrintDefinedBytes == ToolSpec => []PortNeverGarbage
<1>1. ToolInv => PortNeverGarbage
  BY DevInvNoGarbage DEF ToolInv
<1> QED
  BY <1>1, ToolInvariant, PTL

\* pci_list prints a fair picture of the segments up to 0xffff of a bus that
\* changes while it is read, for any set of devices and any number of hot-plug
\* events.
THEOREM ListingIsFair == ToolSpec => []ListFaithful
<1>1. ToolInv => ListFaithful
  BY ListInvFaithful DEF ToolInv
<1> QED
  BY <1>1, ToolInvariant, PTL

\* A line of pci_list for a device of segment 0, given back to a PCI command,
\* leads it to that device.
THEOREM LinesLeadBack == ToolSpec => []ListedLineReadsDevice
BY ListedReadsDevice, ToolInvariant, PTL

\* What cputochipid prints leads getscom to the chip of the CPU or, in the wrong
\* byte order, to no chip, and cputoex prints the core, for every topology.
THEOREM LookupsLeadToChip == ToolSpec => []LookupFindsChip
BY LookupLeadsToChip, ToolInvariant, PTL

\* The commands that go through a device file implement RegisterAccess: the
\* register that the operands name, byte for byte, and success exactly if the
\* whole value moved.
THEOREM CommandsImplementAccess == ToolSpec => AccessImplements
<1>1. ToolInit => Register!Init
  BY DEF ToolInit, DevInit, Register!Init
<1> QED
  BY <1>1, ToolStepRefines, ToolInvariant, PTL DEF ToolSpec, AccessImplements, Register!Spec
=============================================================================
