-------------------------------- MODULE Smbus --------------------------------
(***************************************************************************)
(* smbus_rw.c with the wrappers of linux-i2c-dev.h: one process parses its *)
(* operands, attaches to a slave address through /dev/i2c-N, performs one  *)
(* SMBus transaction and prints the reply, while a kernel driver may bind  *)
(* to the same address at any time.                                        *)
(*                                                                         *)
(* A byte has Byte values, a word of k bytes is the sequence of its bytes, *)
(* low byte first as on a little-endian host.  The adapter, the slave and  *)
(* the i2c-dev driver are external: any call may fail, a slave may answer  *)
(* with any number of bytes that the protocol allows, and a combined       *)
(* transfer may stop after its first message.                              *)
(***************************************************************************)
EXTENDS Integers, Sequences, CNumbers

CONSTANTS
  Reqs,       \* the invocations tried, see Request
  Byte,       \* values of a byte
  ULong,      \* where unsigned long wraps; LONG_MAX is half of it
  U64,        \* where uint64_t wraps
  BLOCK_MAX   \* I2C_SMBUS_BLOCK_MAX

LONG_MAX == ULong \div 2 - 1

ReadSizes == {"8", "16", "32", "64", "BLOCK", "BYTE"}
Ops ==
  [entry : {"smbus_read"}, size : ReadSizes]
    \union [entry : {"smbus_write"}, size : ReadSizes \union {"QUICK"}]
    \union [entry : {"smbus_process_call"}, size : {"PROC_CALL", "BLOCK_PROC_CALL"}]
    \union [entry : {"smbus_writeread"}, size : {"WRITE_READ"}]

\* A numeric operand: what it spells, and whether junk follows.  A block
\* operand: whether 0x precedes it, how many digits it has, and whether one of
\* them is no hex digit.
Operand == [n : Int, junk : BOOLEAN]
Text == [x : BOOLEAN, digits : Nat, junk : BOOLEAN]
Request == [op : Ops, adapter : Operand, address : Operand, reg : Operand,
            val : Operand, text : Text, count : Operand]

ASSUME SmbusAssumption ==
  /\ Byte \in Nat \ {0, 1} /\ ULong \in Nat /\ U64 \in Nat /\ BLOCK_MAX \in Nat \ {0}
  /\ ULong > 2 * Byte /\ ULong <= U64 /\ BLOCK_MAX < Byte
  /\ Reqs \subseteq Request

VARIABLES
  req,         \* the invocation
  pc,
  fd,          \* "closed" or "open"
  bound,       \* a kernel driver owns the slave address
  raced,       \* it came after this process had attached
  data,        \* the bytes of params->data that were filled; zeros follow
  read_count,
  wire,        \* the transactions started
  out,         \* what was printed
  rc

vars == <<req, pc, fd, bound, raced, data, read_count, wire, out, rc>>

Return(code) == pc' = "exited" /\ rc' = code
-----------------------------------------------------------------------------
(* Parsing. *)

\* ismaxortrailingjunk()
Plain(o) == ~o.junk /\ Parse(o.n, ULong) # LONG_MAX

MutParseUint8(o) == Parse(o.n, ULong) < Byte
parse_uint8(o) == Plain(o) /\ Parse(o.n, ULong) < Byte

\* What byte j of a number counts, for a number of up to 64 bits.
Word16 == Byte * Byte
Word32 == Word16 * Word16
Place == <<1, Byte, Word16, Word16 * Byte, Word32, Word32 * Byte, Word32 * Word16,
           Word32 * Word16 * Byte, Word32 * Word32>>

BytesOf(n, k) == [j \in 1 .. k |-> (n \div Place[j]) % Byte]

\* Some k bytes, as a block operand or a slave may spell them.
Pattern(k, b) == [j \in 1 .. k |-> (j + b) % Byte]

Block(size) == size \in {"BLOCK", "BLOCK_PROC_CALL", "WRITE_READ"}

Width(size) ==
  CASE size \in {"QUICK", "BYTE", "8"} -> 1
    [] size \in {"16", "PROC_CALL"} -> 2
    [] size = "32" -> 4
    [] size = "64" -> 8

\* The length check sees the 0x, the limit does not.
TextLength(t) == t.digits + (IF t.x THEN 2 ELSE 0)
MutBlockOk(t) == TextLength(t) > 0 /\ TextLength(t) % 2 = 0 /\ ~t.junk
BlockOk(t) ==
  /\ TextLength(t) > 0 /\ TextLength(t) % 2 = 0
  /\ t.digits \div 2 <= BLOCK_MAX
  /\ ~t.junk

\* parse_io_width(): the operand is well formed, and the bytes it becomes.
WidthOk(size, val, text) ==
  CASE Block(size) -> BlockOk(text)
    [] size = "QUICK" -> Plain(val) /\ Parse(val.n, ULong) \in {0, 1}
    [] size \in {"BYTE", "8", "16", "PROC_CALL"} -> Plain(val)
    [] size \in {"32", "64"} -> ~val.junk

WidthData(size, val, text) ==
  CASE Block(size) -> Pattern(text.digits \div 2, 0)
    [] size = "64" -> BytesOf(Parse(val.n, U64), 8)
    [] OTHER -> BytesOf(Parse(val.n, ULong), Width(size))

\* Byte, quick and write-read operations have no register operand.
HasRegister(size) == size \notin {"BYTE", "QUICK", "WRITE_READ"}
-----------------------------------------------------------------------------
(* The handlers. *)

\* open_i2c_slave(): I2C_SLAVE is refused while a driver owns the address.
MutSlaveFree == TRUE
SlaveFree == ~bound

\* smbus_prologue(): three operands, then open() and the ioctl; a refused
\* ioctl closes the file.
smbus_prologue ==
  /\ pc = "start"
  /\ \/ /\ ~(/\ parse_uint8(req.adapter) /\ parse_uint8(req.address)
             /\ HasRegister(req.op.size) => parse_uint8(req.reg))
        /\ Return(-1)
        /\ UNCHANGED <<fd, raced>>
     \/ /\ parse_uint8(req.adapter) /\ parse_uint8(req.address)
        /\ HasRegister(req.op.size) => parse_uint8(req.reg)
        /\ \/ Return(-1) /\ UNCHANGED <<fd, raced>>
           \/ /\ SlaveFree
              /\ fd' = "open"
              /\ raced' = FALSE
              /\ pc' = IF req.op.entry = "smbus_read" THEN "perform" ELSE "parse"
              /\ UNCHANGED rc
  /\ UNCHANGED <<req, bound, data, read_count, wire, out>>

\* A refused value closes the file.
MutFdAfterBadValue == "open"
FdAfterBadValue == "closed"

\* parse_io_width() with the file open, as three handlers call it.
ParseValue(next) ==
  /\ pc = "parse"
  /\ \/ /\ ~WidthOk(req.op.size, req.val, req.text)
        /\ Return(-1)
        /\ fd' = FdAfterBadValue
        /\ UNCHANGED data
     \/ /\ WidthOk(req.op.size, req.val, req.text)
        /\ data' = WidthData(req.op.size, req.val, req.text)
        /\ pc' = next
        /\ UNCHANGED <<fd, rc>>
  /\ UNCHANGED <<req, bound, raced, read_count, wire, out>>

smbus_write == req.op.entry = "smbus_write" /\ ParseValue("force")
smbus_process_call == req.op.entry = "smbus_process_call" /\ ParseValue("force")
smbus_writeread == req.op.entry = "smbus_writeread" /\ ParseValue("count")

\* The read count of smbus_writeread() is checked with the file open, and a
\* bad one returns without closing it.
CountOk == parse_uint8(req.count) /\ Parse(req.count.n, ULong) <= BLOCK_MAX

parse_read_count ==
  /\ pc = "count"
  /\ \/ /\ ~CountOk
        /\ Return(-1)
        /\ UNCHANGED read_count
     \/ /\ CountOk
        /\ read_count' = Parse(req.count.n, ULong)
        /\ pc' = "perform"
        /\ UNCHANGED rc
  /\ UNCHANGED <<req, fd, bound, raced, data, wire, out>>

\* I2C_SLAVE_FORCE in front of writes and process calls: it takes the address
\* from a driver, and may fail otherwise.
slave_force ==
  /\ pc = "force"
  /\ \/ pc' = "perform" /\ UNCHANGED <<fd, rc>>
     \/ Return(-1) /\ fd' = "closed"
  /\ UNCHANGED <<req, bound, raced, data, read_count, wire, out>>

\* What the operation puts on the wire.  Registers and send-byte values go in
\* the command byte; write_quick() sends its value as the direction.
Register == IF HasRegister(req.op.size) THEN <<Parse(req.reg.n, ULong)>> ELSE <<>>

\* What a slave may send back.
Replies(lengths) == UNION {{Pattern(k, b) : b \in 0 .. Byte - 1} : k \in lengths}

\* The buffer after the first bytes of it were written.
Filled(buffer, bytes) == bytes \o SubSeq(buffer, Len(bytes) + 1, Len(buffer))

\* print_read_data(): the bytes of the number, or the first n of a block.
First(buffer, n) == [j \in 1 .. n |-> IF j <= Len(buffer) THEN buffer[j] ELSE 0]
MutPrintReadData(size, n, buffer) ==
  <<First(buffer, IF Block(size) THEN BLOCK_MAX ELSE Width(size))>>
print_read_data(size, n, buffer) ==
  <<First(buffer, IF ~Block(size) THEN Width(size) ELSE IF n > BLOCK_MAX THEN BLOCK_MAX ELSE n)>>

\* One ioctl: it fails, or succeeds with that reply and leaves that in the
\* buffer; the handler may find the reply incomplete.  Then the caller closes
\* the file.  whole: all messages of the transaction were made.
Transact(reply, whole, buffer, complete, printed) ==
  /\ pc = "perform"
  /\ \E ok \in BOOLEAN :
       /\ wire' = Append(wire, [op |-> req.op, adapter |-> Parse(req.adapter.n, ULong),
                                address |-> Parse(req.address.n, ULong),
                                register |-> Register, payload |-> data, reply |-> reply,
                                whole |-> whole, ok |-> ok, stolen |-> bound /\ ~raced])
       /\ data' = IF ok THEN buffer ELSE data
       /\ \/ /\ ok /\ complete
             /\ Return(0)
             /\ out' = out \o printed
          \/ /\ ~(ok /\ complete)
             /\ Return(-1)
             /\ UNCHANGED out
  /\ fd' = "closed"
  /\ UNCHANGED <<req, bound, raced, read_count>>

\* A 32 or 64 bit read is an i2c block read; one that came short is an error.
MutComplete(reply) == TRUE
Complete(reply) == req.op.size \in {"32", "64"} => Len(reply) = Width(req.op.size)

\* The slave chooses the length of a block.
ReadLengths ==
  CASE req.op.size = "BLOCK" -> 0 .. BLOCK_MAX
    [] req.op.size \in {"32", "64"} -> 0 .. Width(req.op.size)
    [] OTHER -> {Width(req.op.size)}

\* The buffer is zeroed, then filled with the reply.
smbus_read_op ==
  /\ req.op.entry = "smbus_read"
  /\ \E reply \in Replies(ReadLengths) :
       LET buffer == Filled(<<>>, reply)
       IN  Transact(reply, TRUE, buffer, Complete(reply),
                    print_read_data(req.op.size, Len(reply), buffer))

smbus_write_op ==
  /\ req.op.entry = "smbus_write"
  /\ Transact(<<>>, TRUE, data, TRUE, <<>>)

\* i2c_smbus_process_call() returns the word read; the buffer still holds the
\* word sent, and that is printed.
smbus_process_call_op ==
  /\ req.op.size = "PROC_CALL"
  /\ \E reply \in Replies({Width("PROC_CALL")}) :
       Transact(reply, TRUE, data, TRUE, print_read_data("16", 0, data))

smbus_block_process_call_op ==
  /\ req.op.size = "BLOCK_PROC_CALL"
  /\ \E reply \in Replies(0 .. BLOCK_MAX) :
       LET buffer == Filled(data, reply)
       IN  Transact(reply, TRUE, buffer, TRUE, print_read_data("BLOCK", Len(reply), buffer))

\* I2C_RDWR returns the number of messages that were made; the handler takes
\* any as success, and prints the buffer that the reply should be in.
smbus_writeread_op ==
  /\ req.op.size = "WRITE_READ"
  /\ \E whole \in BOOLEAN : \E reply \in Replies({IF whole THEN read_count ELSE 0}) :
       LET buffer == Filled(data, reply)
       IN  Transact(reply, whole, buffer, TRUE, print_read_data("BLOCK", read_count, buffer))

\* A kernel driver binds to the slave, or leaves it.
driver ==
  /\ pc # "exited"
  /\ bound' = ~bound
  /\ raced' = (raced \/ fd = "open")
  /\ UNCHANGED <<req, pc, fd, data, read_count, wire, out, rc>>
-----------------------------------------------------------------------------
Init ==
  /\ req \in Reqs
  /\ pc = "start"
  /\ fd = "closed"
  /\ bound \in BOOLEAN
  /\ raced = FALSE
  /\ data = <<>> /\ read_count = 0
  /\ wire = <<>>
  /\ out = <<>>
  /\ rc = 0

Next ==
  \/ smbus_prologue
  \/ smbus_write \/ smbus_process_call \/ smbus_writeread
  \/ parse_read_count
  \/ slave_force
  \/ smbus_read_op \/ smbus_write_op \/ smbus_process_call_op
  \/ smbus_block_process_call_op \/ smbus_writeread_op
  \/ driver

Spec == Init /\ [][Next]_vars
-----------------------------------------------------------------------------
(* Properties. *)

\* Types; the buffer is a union of a data_store and BLOCK_MAX + 2 bytes, and
\* block operands and replies fill at most BLOCK_MAX of them.
TypeOK ==
  /\ pc \in {"start", "parse", "count", "force", "perform", "exited"}
  /\ fd \in {"closed", "open"}
  /\ data \in Seq(0 .. Byte - 1)
  /\ Len(data) <= (IF Block(req.op.size) THEN BLOCK_MAX ELSE 8)
  /\ read_count \in 0 .. BLOCK_MAX
  /\ rc \in {-1, 0}

\* The number that up to eight bytes spell, low byte first.
ValueOf(bytes) ==
  LET Part(j) == IF j <= Len(bytes) THEN bytes[j] * Place[j] ELSE 0
  IN  Part(1) + Part(2) + Part(3) + Part(4) + Part(5) + Part(6) + Part(7) + Part(8)

\* How many bytes the name of a write or process call command promises.
NominalWidth == [s \in {"BYTE", "QUICK", "8", "16", "PROC_CALL", "32", "64"} |->
                   CASE s \in {"16", "PROC_CALL"} -> 2
                     [] s = "32" -> 4
                     [] s = "64" -> 8
                     [] OTHER -> 1]

\* The operand spells that byte, as it is or as the negative number that
\* strtoul() takes for it.
Spells(o, b) == ~o.junk /\ b \in 0 .. Byte - 1 /\ o.n \in {b, b - ULong}

NoRegister == {"BYTE", "QUICK", "WRITE_READ"}

\* A command line starts at most one transaction, and none if one of the
\* operands it needs is refused: adapter, address and register are bytes as
\* they were written; a numeric value has no junk, is not LONG_MAX (0 or 1 for
\* quick) and travels as the bytes that the width in the command's name leaves
\* of it; a block is clean and travels as one byte for every two digits,
\* whether 0x precedes them or not, BLOCK_MAX at most (a lone 0x is a block
\* without a byte); a write-read asks for as many bytes as its count says.
WireMatches ==
  /\ Len(wire) <= 1
  /\ \A k \in DOMAIN wire :
       LET w == wire[k]
       IN  /\ Spells(req.adapter, w.adapter)
           /\ Spells(req.address, w.address)
           /\ IF w.op.size \in NoRegister
                THEN w.register = <<>>
                ELSE Len(w.register) = 1 /\ Spells(req.reg, w.register[1])
           /\ w.op.entry \in {"smbus_write", "smbus_process_call"} /\ ~Block(w.op.size) =>
                /\ ~req.val.junk
                /\ w.op.size \notin {"32", "64"} => req.val.n # LONG_MAX
                /\ w.op.size = "QUICK" => req.val.n \in {0, 1, 1 - ULong}
                /\ Len(w.payload) = NominalWidth[w.op.size]
                /\ req.val.n \in 0 .. ULong - 1 =>
                     ValueOf(w.payload) = req.val.n % Place[Len(w.payload) + 1]
           /\ w.op.entry # "smbus_read" /\ Block(w.op.size) =>
                /\ ~req.text.junk
                /\ 2 * Len(w.payload) = req.text.digits
                /\ Len(w.payload) <= BLOCK_MAX
                /\ w.payload = <<>> => req.text.x
           /\ w.op.size = "WRITE_READ" =>
                \E c \in 0 .. BLOCK_MAX :
                  Spells(req.count, c) /\ (w.whole => Len(w.reply) = c)

\* The exit status is that of the transaction, a 32 or 64 bit read that came
\* short included, and a command that failed prints nothing.  A write-read of
\* which I2C_RDWR made one message of two counts as accepted.
StatusTells ==
  pc = "exited" =>
    /\ rc = 0 <=>
         \E k \in DOMAIN wire :
           /\ wire[k].ok
           /\ wire[k].op \in [entry : {"smbus_read"}, size : {"32", "64"}] =>
                Len(wire[k].reply) = NominalWidth[wire[k].op.size]
    /\ rc # 0 => out = <<>>

\* What a successful command prints is the slave's reply, whatever the buffer
\* held before; a write-read that stopped half way shows the bytes it was to
\* send, and zeros.
PrintsReplyFor(sizes) ==
  pc = "exited" /\ rc = 0 /\ req.op.entry # "smbus_write" /\ req.op.size \in sizes =>
    /\ wire[1].whole => out = <<wire[1].reply>>
    /\ ~wire[1].whole =>
         \A j \in DOMAIN out[1] :
           out[1][j] = IF j <= Len(wire[1].payload) THEN wire[1].payload[j] ELSE 0

PrintsReply == PrintsReplyFor(ReadSizes \union {"BLOCK_PROC_CALL", "WRITE_READ"})

\* smbus_process_call prints the data read, too.
ProcessCallPrintsReply == PrintsReplyFor({"PROC_CALL"})

\* I2C_SLAVE_FORCE never takes a slave from a driver that owned it before the
\* process attached; only a driver that comes later can be hit.
NeverSteals == \A k \in DOMAIN wire : ~wire[k].stolen

\* Every way out closes the file, but for the read count of smbus_writeread.
Released ==
  pc = "exited" /\ fd = "open" => req.op.entry = "smbus_writeread" /\ ~CountOk

\* A block read that succeeds has read at least one byte.
BlockReadNotEmpty ==
  \A k \in DOMAIN wire :
    pc = "exited" /\ rc = 0 /\ req.op = [entry |-> "smbus_read", size |-> "BLOCK"] =>
      Len(wire[k].reply) >= 1
==============================================================================
