--------------------------------- MODULE Mmio ---------------------------------
(***************************************************************************)
(* mmio_rw.c: one process reads, writes or dumps physical memory through   *)
(* /dev/mem.  The page containing the address is mapped from its start,    *)
(* with a length that the code computes in unsigned int arithmetic, and    *)
(* the access goes to the offset of the address in the mapping.            *)
(*                                                                         *)
(* Widths are parameters: a memory byte has Base values, unsigned int,     *)
(* unsigned long and uint64_t wrap at UInt, ULong and U64; off_t has 64    *)
(* bits in every build (mmio_rw.c:23), so that mmap() takes any address.   *)
(* Access sizes are the real ones, in bytes.  Positions in the mapping are *)
(* offsets from mem.  The kernel (open, mmap, stdout) is external.         *)
(***************************************************************************)
EXTENDS Integers, Sequences, CNumbers

CONSTANTS
  Reqs,       \* the invocations tried, see Request
  PageSize,   \* getpagesize()
  Base, UInt, ULong, U64

WordSize == 4     \* sizeof(uint32_t)
DataStore == 8    \* sizeof(data_store)

\* entry: the handler; group: MMIO or MEM; size: access size in bytes; addr,
\* val, num: the integers that the operands spell; opt: a fourth word.
Request ==
  [entry : {"mmio_read_x", "mmio_write_x", "mmio_dump"}, group : {"MMIO", "MEM"},
   size : {1, 2, 4, 8}, addr : Int, val : Int, num : Int,
   opt : {"none", "-b", "other"}]

ASSUME WidthAssumption ==
  /\ PageSize \in Nat /\ Base \in Nat /\ UInt \in Nat /\ ULong \in Nat
  /\ U64 \in Nat
  /\ PageSize > 0 /\ UInt > PageSize + DataStore
  /\ ULong >= UInt /\ U64 >= ULong
  /\ Base > 1

ASSUME RequestAssumption == Reqs \subseteq Request

VARIABLES
  req,            \* the invocation
  pc,
  fd,             \* "closed" or "open"
  flags,          \* the flags of open()
  mmap_addr,      \* struct mmap_info: addr, off, length
  mapped,         \* TRUE while the mapping exists
  ptr,            \* working pointer of mmio_dump
  bytes_left,
  desired_addr,
  fields_on_line,
  out,            \* what went to stdout, token by token
  stored,         \* writes to memory
  rc

vars == <<req, pc, fd, flags, mmap_addr, mapped, ptr, bytes_left, desired_addr,
          fields_on_line, out, stored, rc>>

dump == <<ptr, bytes_left, desired_addr, fields_on_line>>
-----------------------------------------------------------------------------
(* Conversions. *)

MutStrtoul(n) == Parse(n, UInt)
strtoul(n) == Parse(n, ULong)
strtoull(n) == Parse(n, U64)

\* How many values 1, 2, 4 or 8 bytes can hold.
Values(size) ==
  LET two == Base * Base
      four == two * two
  IN  CASE size = 1 -> Base [] size = 2 -> two [] size = 4 -> four [] size = 8 -> four * four

\* Converting an integer to uint8_t ... uint64_t keeps the low bytes.
Truncate(n, size) == n % Values(size)

\* unsigned bytes, plus int off, is unsigned.
MutLength(bytes, off) == bytes % UInt
Length(bytes, off) == ((bytes % UInt) + off) % UInt

Off(addr) == addr % PageSize

\* The kernel maps whole pages.
Pages(length) == ((length + PageSize - 1) \div PageSize) * PageSize

Token(tok, at, width) == [tok |-> tok, at |-> at, width |-> width]
Label(at) == Token("label", at, 0)
Field(at, width) == Token("field", at, width)
Raw(at, width) == Token("raw", at, width)
Newline == Token("newline", 0, 0)
-----------------------------------------------------------------------------
Return(code) == pc' = "exited" /\ rc' = code

close_mapping == mapped' = FALSE /\ fd' = "closed"

\* open_mapping(): open, then mmap; a failed mmap closes the file again.
MutFdAfterFailedMmap == "open"
FdAfterFailedMmap == "closed"

\* mmap refuses a length of zero and what is not in the address space, and
\* may refuse anything else (no such memory, no permission).
open_mapping(address, oflags, bytes, next) ==
  LET info == [addr |-> address - Off(address), off |-> Off(address),
               length |-> Length(bytes, Off(address))]
  IN  /\ flags' = oflags
      /\ mmap_addr' = info
      /\ \/ /\ Return(-1)
            /\ UNCHANGED <<fd, mapped>>
         \/ /\ Return(-1)
            /\ fd' = FdAfterFailedMmap
            /\ UNCHANGED mapped
         \/ /\ info.length > 0
            /\ info.addr + Pages(info.length) <= U64
            /\ fd' = "open"
            /\ mapped' = TRUE
            /\ pc' = next
            /\ UNCHANGED rc

SyncFlags == IF req.group = "MMIO" THEN {"O_SYNC"} ELSE {}

mmio_read_open ==
  /\ pc = "start" /\ req.entry = "mmio_read_x"
  /\ open_mapping(strtoull(req.addr), {"O_RDONLY"} \union SyncFlags, DataStore, "read")
  /\ UNCHANGED <<req, dump, out, stored>>

\* mmio_write_x() opens with O_RDWR alone.
mmio_write_open ==
  /\ pc = "start" /\ req.entry = "mmio_write_x"
  /\ open_mapping(strtoull(req.addr), {"O_RDWR"}, DataStore, "write")
  /\ UNCHANGED <<req, dump, out, stored>>

\* mmio_dump() up to its loop; a fourth word other than -b is refused.
mmio_dump_open ==
  /\ pc = "start" /\ req.entry = "mmio_dump"
  /\ \/ /\ req.opt = "other"
        /\ Return(-1)
        /\ UNCHANGED <<fd, flags, mmap_addr, mapped, dump>>
     \/ /\ req.opt # "other"
        /\ open_mapping(strtoull(req.addr), {"O_RDONLY"} \union SyncFlags,
                        strtoul(req.num), IF req.opt = "-b" THEN "fwrite" ELSE "loop")
        /\ ptr' = Off(strtoull(req.addr))
        /\ bytes_left' = strtoul(req.num)
        /\ desired_addr' = strtoull(req.addr)
        /\ fields_on_line' = 0
  /\ UNCHANGED <<req, out, stored>>

Physical(at) == mmap_addr.addr + at

\* The access of the handler at its current position: where, how many bytes.
MutDumpAccessWords == [at |-> ptr, width |-> WordSize]
MutDumpAccessEarly == [at |-> ptr, width |-> IF bytes_left <= WordSize THEN 1 ELSE WordSize]
DumpAccess == [at |-> ptr, width |-> IF bytes_left < WordSize THEN 1 ELSE WordSize]
Access ==
  CASE pc \in {"read", "write"} -> [at |-> mmap_addr.off, width |-> req.size]
    [] pc = "loop" -> DumpAccess
    [] pc = "fwrite" -> [at |-> ptr, width |-> bytes_left]

mmio_read_x ==
  /\ pc = "read"
  /\ out' = Append(out, Field(Physical(Access.at), Access.width))
  /\ close_mapping
  /\ Return(0)
  /\ UNCHANGED <<req, flags, mmap_addr, dump, stored>>

mmio_write_x ==
  /\ pc = "write"
  /\ stored' = Append(stored, [at |-> Physical(Access.at), width |-> Access.width,
                               value |-> Truncate(strtoul(req.val), req.size)])
  /\ close_mapping
  /\ Return(0)
  /\ UNCHANGED <<req, flags, mmap_addr, dump, out>>

\* One item of bytes_to_dump bytes: none of them if that is zero, and the
\* write to stdout may fail.
mmio_dump_binary ==
  /\ pc = "fwrite"
  /\ \/ /\ bytes_left > 0
        /\ out' = Append(out, Raw(Physical(ptr), bytes_left))
        /\ Return(0)
     \/ Return(-1) /\ UNCHANGED out
  /\ close_mapping
  /\ UNCHANGED <<req, flags, mmap_addr, dump, stored>>

\* One turn of the loop: a label in front of every fourth field, words as
\* long as there are four bytes left, then single bytes.
MutFieldsPerLine == 5
FieldsPerLine == 4

MutBytesPrinted == WordSize
bytes_printed == Access.width

mmio_dump_turn ==
  /\ pc = "loop"
  /\ bytes_left > 0
  /\ LET next == (fields_on_line + 1) % FieldsPerLine
     IN  /\ out' = out \o (IF fields_on_line = 0 THEN <<Label(desired_addr)>> ELSE <<>>)
                       \o <<Field(Physical(Access.at), Access.width)>>
                       \o (IF next = 0 THEN <<Newline>> ELSE <<>>)
         /\ fields_on_line' = next
  /\ ptr' = ptr + Access.width
  /\ bytes_left' = bytes_left - bytes_printed
  /\ desired_addr' = (desired_addr + bytes_printed) % U64
  /\ UNCHANGED <<req, pc, fd, flags, mmap_addr, mapped, stored, rc>>

mmio_dump_end ==
  /\ pc = "loop"
  /\ bytes_left = 0
  /\ out' = IF fields_on_line # 0 THEN Append(out, Newline) ELSE out
  /\ close_mapping
  /\ Return(0)
  /\ UNCHANGED <<req, flags, mmap_addr, dump, stored>>

\* An access that leaves the mapped pages may hit another mapping, or kill
\* the process.
Accessing == pc \in {"read", "write", "fwrite"} \/ (pc = "loop" /\ bytes_left > 0)

Fault ==
  /\ Accessing
  /\ Access.at + Access.width > Pages(mmap_addr.length)
  /\ pc' = "killed"
  /\ fd' = "closed"
  /\ mapped' = FALSE
  /\ UNCHANGED <<req, flags, mmap_addr, dump, out, stored, rc>>
-----------------------------------------------------------------------------
Init ==
  /\ req \in Reqs
  /\ pc = "start"
  /\ fd = "closed"
  /\ flags = {}
  /\ mmap_addr = [addr |-> 0, off |-> 0, length |-> 0]
  /\ mapped = FALSE
  /\ ptr = 0 /\ bytes_left = 0 /\ desired_addr = 0 /\ fields_on_line = 0
  /\ out = <<>>
  /\ stored = <<>>
  /\ rc = 0

Next ==
  \/ mmio_read_open \/ mmio_write_open \/ mmio_dump_open
  \/ mmio_read_x \/ mmio_write_x \/ mmio_dump_binary
  \/ mmio_dump_turn \/ mmio_dump_end
  \/ Fault

Spec == Init /\ [][Next]_vars /\ WF_vars(Next)
-----------------------------------------------------------------------------
(* Properties. *)

\* The request and its offset in the page can be told in an unsigned int.
Fits == strtoul(req.num) + PageSize <= UInt

\* Types of struct mmap_info and of the variables of mmio_dump().
TypeOK ==
  /\ req \in Request
  /\ pc \in {"start", "read", "write", "fwrite", "loop", "exited", "killed"}
  /\ fd \in {"closed", "open"}
  /\ mapped \in BOOLEAN
  /\ mmap_addr \in [addr : Nat, off : 0 .. PageSize - 1, length : 0 .. UInt - 1]
  /\ ptr \in Nat /\ bytes_left \in Nat
  /\ desired_addr \in 0 .. U64 - 1
  /\ fields_on_line \in 0 .. 3
  /\ rc \in {-1, 0}

\* No handler reaches outside the length it mapped, at the end of a page and
\* in the odd bytes of a dump too; a dump as long as its size fits.
AccessInMapping ==
  Accessing /\ (req.entry = "mmio_dump" => Fits) =>
    mapped /\ Access.at + Access.width <= mmap_addr.length

\* While a dump runs, the address it prints in front of a line is that of the
\* byte the line starts with, and what is left is what is not yet printed.
LabelNamesData ==
  pc = "loop" /\ Fits =>
    /\ bytes_left > 0 => desired_addr = Physical(ptr)
    /\ ptr + bytes_left = mmap_addr.off + strtoul(req.num)

\* Every way out of a handler, failed calls included, gives back the mapping
\* and the file descriptor.
Released == pc = "exited" => fd = "closed" /\ ~mapped

\* What mmio_dump <addr> <num_bytes> prints: the whole words and then the odd
\* bytes of exactly that range, in order.  Field k starts at Start(k, bytes).
FieldCount(bytes) == bytes \div WordSize + (bytes % WordSize)
Start(k, bytes) ==
  LET words == bytes \div WordSize
  IN  IF k <= words THEN WordSize * k ELSE WordSize * words + (k - words)
FieldWidth(k, bytes) == IF k < bytes \div WordSize THEN WordSize ELSE 1

\* There are six tokens to a line, counted from 0: the address of the first
\* field, four fields, and the end of the line.
DumpToken(at, bytes, n) ==
  LET first == 4 * (n \div 6)
      k == first + (n % 6) - 1
  IN  CASE n % 6 = 0 -> Label(at + Start(first, bytes))
        [] n % 6 = 5 -> Newline
        [] OTHER -> Field(at + Start(k, bytes), FieldWidth(k, bytes))

\* The last line may have fewer fields, and ends like the others.
DumpText(at, bytes) ==
  LET length == FieldCount(bytes) + 2 * ((FieldCount(bytes) + 3) \div 4)
  IN  [n \in 1 .. length |-> IF n = length THEN Newline ELSE DumpToken(at, bytes, n - 1)]

\* A dump that succeeds printed that text, or with -b exactly the bytes
\* requested, whatever the address and the length, zero included.
DumpIsComplete ==
  pc = "exited" /\ rc = 0 /\ req.entry = "mmio_dump" /\ Fits =>
    LET at == strtoull(req.addr)
        bytes == strtoul(req.num)
    IN  out = IF req.opt = "-b" THEN <<Raw(at, bytes)>> ELSE DumpText(at, bytes)

\* A write command that succeeds stored the operand's value at the operand's
\* address, once, for every value that the access size and an unsigned long
\* can hold.
WriteStoresValue ==
  pc = "exited" /\ rc = 0 /\ req.entry = "mmio_write_x"
    /\ req.val \in 0 .. Values(req.size) - 1 /\ req.val < ULong =>
      stored = <<[at |-> strtoull(req.addr), width |-> req.size, value |-> req.val]>>

\* Every command ends.
EventuallyEnds == <>(pc \in {"exited", "killed"})

\* open_mapping() maps the bytes requested and the part of the page in front
\* of them.
LengthCoversRequest ==
  pc \in {"loop", "fwrite"} /\ ptr = mmap_addr.off =>
    mmap_addr.length = bytes_left + mmap_addr.off

\* The commands of group MMIO access memory uncached: /dev/mem is open with
\* O_SYNC.
UncacheableIsSync == mapped /\ req.group = "MMIO" => "O_SYNC" \in flags
==============================================================================
