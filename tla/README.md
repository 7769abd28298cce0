# A TLA+ model of iotools

iotools is one Linux binary that holds about seventy small commands to read and
write hardware registers (ports, memory, PCI, SMBus, MSR, CMOS, SCOM), and some
arithmetic and scheduling helpers. Each invocation is one short process. The
modules here model what such a process does, system call by system call, and
what several processes and a kernel driver do to each other.

## The system

| component | source | state | operations |
|---|---|---|---|
| dispatcher | `commands.c`, `commands.h`, `iotools.c` | list `group_head`, argv, I/O privilege | constructors, search, checks, handler call, own options, exit |
| command tables | `*_cmds[]` in ten files | constant | – |
| command links | `commands.c` | a directory shared by processes | `--make-links`, `--clean-links` |
| memory | `mmio_rw.c` | `/dev/mem` mapping, dump cursor | read, write, dump, binary dump |
| SMBus | `smbus_rw.c`, `linux-i2c-dev.h` | file, slave attachment, buffer | read, write, process calls, write-read |
| device files | `pci_rw.c`, `msr.c`, `cmos_rw.c`, `scom.c`, `io_rw.c`, `platform.h` | file descriptor and offset | open, seek, read or write, close |
| PCI listing | `pci_rw.c` | open directories | `pci_list` |
| chip lookup | `scom.c` | PIR, chip-id | `cputochipid`, `cputoex` |
| logic | `logic.c` | operands, result | bit operations on operands |
| misc | `misc.c` | clock, counter, CPU affinity | `busy_loop`, `runon`, `cpuid`, `rdtsc`, `cpu_list` |

How the parts interact: every file registers its group through a GCC
constructor before `main()` runs, so the list is in an order that the linker
chose. The dispatcher finds a command by operand or by the name of the link,
checks the number of operands and raises the I/O privilege; the handlers then
index argv without looking at argc and rely on the table row. `--make-links`
puts the names of all commands next to the binary, and these names are how the
dispatcher is entered afterwards. Handlers share nothing but the kernel, but
scripts chain them: a line of `pci_list` becomes the operands of `pci_read*`, the
number of `cputochipid` those of `getscom`, and `runon` starts `busy_loop`.

What is hard here:

- *ordering*: constructors in any order; argv shifted or not;
- *interleaving*: makers and cleaners on one directory; a driver that binds to
  an SMBus slave between the polite and the forced attach; PCI devices that come
  and go during a listing; a CPU that goes off line between `sched_setaffinity`
  and the instruction; a clock that is set during `busy_loop`;
- *partial failure*: one of seventy links fails; `mmap` fails after `open`; an
  operand is refused with the device open; a short reply; a seek or a transfer
  that fails on each of five kinds of device file, whose handlers differ in what
  counts as an error and in whether they look at all;
- *numeric edges*: the mapping length in `unsigned int`, the value in `unsigned
  long`, the end of a page, the odd bytes of a dump, a block of 32 bytes, of
  none, and the operand `0x`; bit 63 of a SCOM address, a CMOS offset below the
  clock's registers, a PCI segment of five digits, `1 << val` in `int`, a CPU
  number beyond the set or beyond `int`, a negative count, `elapsed` in `unsigned
  int`.

`PROJECT.json` lists these hazards with their lines and the properties about
them. Where the code itself has no defence, a property cannot promise one: it
holds up to that case, and the note of the hazard says which part of it the
property excepts.

## Modules

| module | content |
|---|---|
| `MultiCall` | abstract specification: a command line names at most one of a *set* of commands, which is run on its own arguments, refused or denied; or the binary serves an option |
| `Commands` | the dispatcher; tables, link orders and command lines are constants |
| `CommandTable` | the ten command arrays, row by row, for an architecture |
| `Iotools` | `Commands` with `CommandTable`: what the handlers rely on |
| `CommandLinks` | concurrent `--make-links` and `--clean-links` |
| `CNumbers` | `strtoul`, `strtol`, conversion to a signed type and `1 << n` for any width (the C library and compiler) |
| `Mmio` | `mmio_rw.c` |
| `Smbus` | `smbus_rw.c` and the wrappers it uses |
| `Logic` | the handlers of `logic.c` |
| `LogicTool` | `Iotools` and `Logic` composed: what a shell gets to see |
| `RegisterAccess` | abstract specification: one whole access of the register the operands name, or a failure |
| `PciBus` | PCI devices under hot-plug and the file systems that show them (external) |
| `DeviceFiles` | PCI, MSR, CMOS, SCOM and `/dev/port` accesses; implements `RegisterAccess` |
| `PciList` | `pci_list` |
| `ChipId` | `cputochipid` and `cputoex` |
| `RegisterTools` | the three above composed as scripts compose them |
| `Affinity` | `runon`, `cpuid`, `rdtsc`, `cpu_list` under CPU hot-plug |
| `BusyLoop` | `busy_loop` and its clock |
| `MiscTools` | `runon N iotools busy_loop [count]` |
| `CNumbersProofs` | lemmas on `%`, `\div`, `strtoul`, `strtol` and conversions, for any width |
| `CommandsProofs`, `LogicToolProofs` | theorems on `Commands`, and on `Iotools` and `LogicTool` |
| `CommandLinksProofs`, `MmioProofs`, `SmbusProofs` | theorems on the modules of those names |
| `RegisterToolsProofs`, `MiscToolsProofs` | theorems on the compositions and on the modules in them |
| `MC*` | instances for TLC |

### Dispatcher

`objs` is the rest of the constructor array, `group_head` the linked list as a
sequence, `line` the argument vector and `skip` the number of times argv was
advanced, so that `argv` and `argc` are what the C variables are. A word is the
sequence of its `/`-separated parts: that is all `strrchr` and `strcmp` can
tell. Actions have the names of the functions; `entry` and `entry_returns` are
the call of a handler and its return. A handler may return each of the values
its code has, replace the process (`runon`) or not return (`busy_loop`).
`effect` records what the process did, for the refinement.

### Command links

A directory entry is absent, a file, a directory or a link to some binary. One
turn of a loop is one action because it makes one system call; any call may be
refused. `complained` is what was written to stderr; `undone` is a history
variable that records which names another process changed later.

### Memory

Addresses and lengths are integers, and the widths of `unsigned int`,
`unsigned long` and `uint64_t` are constants, ordered as on every build; an
`off_t` has 64 bits on all of them (`_FILE_OFFSET_BITS`), so an address reaches
`mmap` as it was parsed. `mmap_addr` is the struct, `ptr` the working pointer relative to the
mapping. Output is a sequence of tokens that say which physical bytes were
shown and how wide; digits are left out. A process that touches memory outside
the pages it mapped may die (`Fault`) or read what is there.

### SMBus

A number is what an operand spells plus the fact that junk follows it; a block
operand is its digit count and whether `0x` precedes it. Bytes have `Byte`
values. The handlers that parse a value share `ParseValue`, the transactions
share `Transact`, as the C functions share theirs. `data` is the one buffer of
`smbus_op_params`: operands are parsed into it, the reply is written over its
beginning (`Filled`), and `print_read_data` shows what is in it then, the operand
included where no reply came. The slave sends any reply the
protocol allows, and a combined transfer may stop after its first message.
`bound` says that a kernel driver owns the address, `raced` that
it came or went after this process had attached.

### Logic

An `unsigned long long` is the set of its one bits. `logic_op` takes one action
per operand, as its loop does; `LogicTool` puts the handlers between the
dispatcher's `entry` and `entry_returns`, so that `ResultIsExact` compares stdout
with the words of the command line, through argv, shifted or not, and
`PrintedIffSuccess` compares it with the exit status.

### Device files

A request is what the operands spell; `UIntOf`, `IntOf`, `PciUnit` and `Offset` are
the C conversions on the way to the file name and to `lseek`. The handlers share the
stages `open_*`, `lseek`, `transfer` and `finish`, and each handler is the
disjunction of its own stages; what differs between the five files (`SeekFailed`,
`GiveUp`, who closes on which error, who swaps bytes) is kept. The content of a
register is abstracted to where each byte came from: `moved` holds triples of a
register, a byte of it and a byte of the number, so a wrong register, a wrong byte
order and a short transfer are all visible. `At`, `ScomDecode` and `SeekResults` are the
kernel's side; the code's comment (`scom.c:44-50`) says how the driver takes the
address apart, and the MSR driver keeps 32 bits of the position. `faulted` is a history variable.

### Listing and lookup

`pci_list` reads a directory entry by entry: `readdir` must return what was there all
the time (`stable`) and may return what was there at some time (`ever`). An entry whose
name does not match the format is passed over (`FourDigits`). In
`ChipId` neither `read` is checked for its length, so a short one leaves `Stale`.
`RegisterTools` runs one of three scripts: a command on operands of the user, a
listing followed by a read of one of its lines, or a lookup followed by `getscom`.

### Affinity and busy loop

`CpuSets` is what `CPU_ZERO` and `CPU_SET` may leave in the set: the C library's
macros, or with klibc the program's own, whose `CPU_ZERO` clears one word and whose
`CPU_SET` shifts an `int`. The kernel may take a CPU away at any time; a process
that has none left is let loose (`lost`). In `BusyLoop`, `since` is the time the
clock shows since `t0` in the width of `elapsed`, `real` the time that passed; the
history variable `early` counts the lines that came before a real second had passed,
`jumps` how often the clock was set.

## Runs

| run | shows | instance |
|---|---|---|
| `dispatch_orders` | types; no command is lost or shadowed; no handler reads past argv; every process ends | three groups of a POWER build, all 6 orders, every command by operand and by link with 0–4 operands, all options |
| `dispatch_tables` | no handler reads past argv; port instructions only at privilege level 3; the logic commands print what their operands ask for, once, and succeed; refinement of `MultiCall` | all nine x86 groups, 0–8 operands; for logic 6 bit `unsigned long long`, 4 bit `int`, operands and counts on both sides of them |
| `links` | a name that was handled stands unless a message or another process accounts for it; all end | two makers of different binaries, one cleaner, three names, every initial directory |
| `mmio` | accesses stay in the mapping; labels are those of the data; nothing leaks; a dump prints exactly its range; a write stores its value; every command ends | page of 8 bytes, `unsigned int` 0–31, `unsigned long` and `uint64_t` 0–255, binary "bytes" |
| `smbus` | what goes on the wire is what every operand asked for, and nothing does if one is refused; status and output tell what happened; no driver that was there first loses its slave; files are closed | bytes of 4 values, blocks up to 3 bytes, one operand varied at a time around its limits |
| `devices` | each device command implements one access of its register (`RegisterAccess`); no failure without a fault or a clock register, and no success on one; port values are never garbage; listings are fair and their lines lead to their devices; a lookup finds the chip | both byte orders, every call failing or short, requests around every width (`unsigned int` 0–255, `unsigned long` 0–511, 2^59 as 16), 4 PCI devices in 3 segments, one of them of five digits, 2 hot-plug events, all combinations of mounted file systems |
| `misc` | what `cpuid` prints and `runon` starts belongs to the CPU named; `cpu_list` prints no CPU that the machine lacks; a line of `busy_loop` is a second but for one per setting of the clock; counts end, and the endless loop keeps printing | machines of 3 and 5 CPUs, CPU sets of 2 words of 4 bits, 2 CPU hot-plug events, a second of 2 units, `elapsed` 0–5, two settings of the clock |

More groups would add nothing to `dispatch_orders`: the search compares names
only, and the theorem covers every table. Its operands exceed the `max_args` of
its groups; eight exceed every `max_args` that is not `INT_MAX`. In `mmio` the page is as long as the
widest access, so every access size straddles a page for some address, and
dumps go up to 40 bytes, past the `unsigned int` limit and through several
output lines. In `smbus` all conversions are tried at zero, below and at the
byte limit, at `LONG_MAX`, at the type limit and with a minus sign. In `devices` the
widths are large enough that a register, its neighbour across the sign bit and its
neighbour across the type limit are different numbers. Two hot-plug events
let a device go and come back, or one go and another come, within one listing, and the devices of
the other segments have the bus, device and function of one of the first. In `misc` five CPUs do not fit in a word of the
set, `int` has fewer bits than the word, and `elapsed` can hold a second and the
longest time between two looks at the clock, as 2^32 microseconds can, while a
step back of 1 or 3 units makes it wrap; two settings can fall into one second or into two.

The remaining runs look for, and find, a behaviour that a comment or message of
the code excludes:

| run | what the code does |
|---|---|
| `links_foreign` | `--clean-links` unlinks a regular file that has a command's name |
| `mmio_length` | the length wraps in `unsigned int`; a dump maps less than it reads |
| `mmio_uncached` | `mmio_write*` opens `/dev/mem` without `O_SYNC` |
| `smbus_process_call` | the word sent is printed, not the word read |
| `smbus_block_read` | an empty block read is a success |

Other limits of the code, which the properties below state as exceptions:

- Where `unsigned long` has 32 bits, `mmio_write64` stores a saturated value,
  because it parses with `strtoul` (`mmio_rw.c:156`).
- A block operand of `0x` alone passes the length check and sends an empty block
  (`smbus_rw.c:200-208`); `WireMatches` counts its digits.
- `I2C_RDWR` returns how many messages were made, and `smbus_writeread` takes any
  number as success (`smbus_rw.c:613`): after one of two it prints the operand's bytes
  and zeros, which is what `PrintsReply` says of it.
- On big-endian hosts, the 32 and 64 bit SMBus commands put the high byte first; `Smbus` is a
  little-endian host.
- `pci_list` below sysfs passes over devices of segments from 0x10000 on and
  succeeds, because `%04x` takes four digits (`pci_rw.c:215-217`).
- `pci_list` drops the segment, and the procfs listing takes the first two digits of
  `segment:bus` for the bus (`pci_rw.c:238`): `NamesReadable` and
  `ListedLineReadsDevice` are about segment 0.
- `cputochipid` prints the big-endian chip-id in host order: on little-endian POWER
  the number is byte-swapped unless it is zero. `LookupFindsChip` says, on both hosts, that
  such a number leads to no wrong chip: no chip has it.
- `int cpu = strtoul()` (`scom.c:199`, `222`) makes another CPU of a number that an
  `int` cannot hold, and a short read of `pir` or `ibm,chip-id` goes unnoticed.
  `LookupFindsChip` excepts both.
- MSR numbers from 2^32 on name the MSR of their low 32 bits (`OperandsFit`).
- `/dev/port` commands return success whatever happened: `AccessImplements` promises
  nothing about their outcome, only `PortNeverGarbage` holds. After a failed read
  `inl` shows 0x0000ffff, not all ones (`io_rw.c:71`).
- SCOM addresses may use bit 63 and the bits below 59 only; the others collide in
  the offset (`OperandsFit`).
- `bts` and `btr` are exact for bits below the sign bit of an `int`; beyond, all that
  `ResultIsExact` promises is that `bts` clears and `btr` sets no bit. Shifts by 64 and more
  are the build's choice.
- With klibc, `runon` and `cpuid` are right for CPU numbers below the sign bit of an
  `int` on machines that fit in one word of the set (`OperandFits`).
- `cpu_list` prints consecutive numbers, which are those of the CPUs on line only
  while none is missing; no property says more than that the machine has such a CPU.

Properties that hold only within a limit say so: `AccessInMapping`,
`LabelNamesData` and `DumpIsComplete` are about dumps whose size and page offset
fit in an `unsigned int` (`Fits`), `WriteStoresValue` about values that an `unsigned
long` can hold. `Released` of `Smbus` excepts the read count of `smbus_writeread`,
which is refused without closing the file (the process exits right after).

`RunsWhereNamed` excepts a CPU that went off line in between, `NeverSteals` a driver
that binds after the polite attach. `LineMeansSecond` excepts nothing: set back, the clock
looks like a very long second, and the property is that each setting costs at most one
early line.

CHECK_DEADLOCK is off in all runs: processes exit.

### Fairness

`EventuallyEnds` and `AllExit` need only that the kernel schedules a process
(weak fairness of its steps) and that a handler other than `busy_loop`
returns; every system call is assumed to return, possibly with an error.
`busy_loop` without an argument never ends, so `EventuallyEnds` of the
dispatcher excepts it. `Smbus` claims no liveness: a bus may hang. `CountEnds` and
`EndlessPrints` of `busy_loop` need that the loop is scheduled on whatever CPU it may use
(weak fairness of `BusyStep`) and that time passes (`ClockTick`). They also rest on
`BusyAssumption`: between two looks at the clock less time passes than `elapsed` can
hold beyond a second (over an hour in the code); a process stopped for longer may
have its second wrap away. Setting the clock is not fair and is bounded by `MaxJumps`:
who sets it for ever can keep the loop from printing.

## Proofs

Every invariant that a passing run checks, and both refinements, are also proved,
for every value of the constants. The theorems have the form `Spec => []P`; each
rests on an inductive invariant `I` with `Init => I`, `I /\ [Next]_vars => I'` and
`I => P`, and the step has one lemma or case per action.

### Assumptions

They are named in the module that declares the constants, and TLC evaluates all
of them in the runs.

| assumption | says | because |
|---|---|---|
| `TableAssumption`, `LinkOrderAssumption`, `LineAssumption` | tables are arrays of rows; a link order has each group once; argv is not empty | C arrays, one constructor per object file, the kernel's argv |
| `NamesUnique`, `OrderAssumption` | no name is used twice | evaluated on the real tables |
| `BuildAssumption` | a build has some of the ten groups, each with the table of the source | the object files of the Makefile |
| `SpellsAssumption` | each word spells an integer | a word without digits spells 0 to `strtoull` |
| `LinksAssumption` | makers and cleaners differ, and walk lists of names | one option per process |
| `WidthAssumption` (`Mmio`) | a page and the widest access fit in an `unsigned int`, which is no wider than `unsigned long` and `uint64_t`, in this order | 32 and 64 bit builds |
| `SmbusAssumption` | `unsigned long` holds more than two bytes' values and at most 64 bits; a block length is a byte | types of the headers, `I2C_SMBUS_BLOCK_MAX` is 32 |
| `DeviceAssumption` | `unsigned int` is even, no wider than `unsigned long`, and more than `2 * NVRAM_OFFSET`; `uint64_t` holds an `unsigned long` and twice an `unsigned int` | 2^32, and 2^32 or 2^64 |
| `BusAssumption`, `ListAssumption` | a device is four numbers; a segment has at most five hex digits | PCI addresses; Linux gives domains of its own making five digits |
| `ChipAssumption`, `TopologyAssumption` | bus, device and function fit an `int`, chip numbers a byte, and four bytes an `unsigned int`; each CPU's core has a chip | sysfs and device tree of one machine |
| `AffinityAssumption` | a machine's CPUs are `0 .. n-1` at boot and fit in a `cpu_set_t`, which fits an `int` | Linux numbering |
| `BusyAssumption` | a second and the time between two looks at the clock fit in `elapsed` | 2^32 microseconds; see Fairness |
| `LogicAssumption` | `int` is no wider than `unsigned long long`, whose bit count fits an `unsigned long` | every C implementation |

### Theorems and their arguments

- **`CommandsProofs`** (`TypeCorrect`, `NoShadowing`, `Refinement`). The inductive
  invariant `IInv` adds to the types that the list and the pending constructors
  together hold every group, and, for each control point, that `cmd_info` is the
  one the abstract resolution of the line gives and that `skip` fits the way it was
  found. `LocateComplete` (a name in the list is found, and only its own command)
  rests on the least-element principle for the search order. For `Refinement`
  (`Spec => Abstract!Spec`), `entry`, the refusals and the fallback map to `Serve`,
  `main` to `Finish`, everything else to stuttering.
- **`LogicToolProofs`** (`HandlersStayInArgv`, `PortsHavePrivilege`, `ToolIsPrepared`,
  `LogicIsExact`, `OneNumberOrFailure`, `ToolImplements`). One lemma per table states which
  handlers and argument limits its rows have; `ArgumentsSuffice` concludes that an
  argument count that the row allows covers every index of argv that the handler reads, and
  `PortRows` that every port command asks for level 3. `Prepared` carries both from
  `check_prereqs` to the call: nothing in between may change argc, the command or the
  level. `LogicInv` says that after `m` operands the result is the fold of the first
  `m` numbers of the command line, bit by bit, and that the others are still to come; xor is
  the parity of a cardinality that grows by at most one per turn (`HavingStep`,
  `FoldStep`), so that no induction over the operands is needed. `ToolStepDispatches`
  shows that every step of the composition is a step of the dispatcher or leaves it
  alone, which carries `IInv` and the refinement over.
- **`CommandLinksProofs`** (`Types`, `LinksStand`). The invariant says of every process, in
  the middle of its loop too, that each name it has passed is as wanted, complained
  about or undone; a step of another process can only change a passed name together
  with `undone`. It covers any number of processes, lists and names.
- **`MmioProofs`** (`Types`, `InMapping`, `LabelsHonest`, `NothingLeaks`, `DumpsWhole`,
  `WritesValue`). `IInv` ties the cursor of a dump to the mapping:
  `ptr + bytes_left = off + num_bytes`, the length is exact if the request fits, and the
  label equals the physical address while bytes are left. The label is kept modulo the
  width of `uint64_t`, so it also carries that the mapping ends within the address
  space. `OutInv` adds what was printed: after `k` fields the output is the beginning
  of the reference text `DumpText`, which gives the token at each place directly, so a
  turn of the loop only has to add the right one, two or three tokens.
- **`SmbusProofs`** (`BufferHolds`, `WireCarriesOperands`, `StatusIsTransaction`,
  `ReplyIsPrinted`, `ForceIsLate`, `FileIsClosed`). `SmbusInv` says per stage which operands were accepted
  and what the buffer holds (`Parsed`), and at the end that nothing was sent (`Refused`) or
  how the one transaction ended (`Performed`): it carried what was parsed (`Sent`), asked for
  the count (`Counted`) and left its reply in the buffer (`Answers`). `UintSpells` turns an
  accepted operand into the byte it spells, `FilledBuffer` says what the shared buffer shows
  after a reply. `CameLater` is the point of
  `NeverSteals`: while the file is open, a driver that owns the slave came after the
  attach. `BytesSpell` proves that the bytes sent spell the number modulo their place
  value, from `NextPlace`, which peels off one digit.
- **`RegisterToolsProofs`** (`DeviceTypes`, `FailuresAreReal`, `PortsPrintDefinedBytes`,
  `ListingIsFair`, `LinesLeadBack`, `LookupsLeadToChip`, `CommandsImplementAccess`). `DevInv` says that the open file
  is one the request leads to and that exactly the first `got` bytes of the register
  behind the offset have moved, in their order. `ListInv` says that the lines are
  those of the entries returned, one each, and that what stayed in a directory that was
  read has been seen, at every point between two hot-plug events. `ChipInv` and
  `ScriptInv` follow the value from one command to the next. The refinement of
  `RegisterAccess` needs that operands survive their conversions (`SmallSurvives`), that
  the kernel takes the SCOM offset apart into the address it was made from
  (`ScomRoundTrip`), and that byte orders cancel out.
- **`MiscToolsProofs`** (`CpuTypes`, `RunsOnNamedCpu`, `LinesMeanSeconds`,
  `NegativeCountsWrap`). `AffInv`: a process that has tied itself to a CPU may use that
  one only, unless the kernel let it loose. `BusyInv`: there is a setting
  of the clock for each early line, and one more if, before a second has passed, the clock
  does not show the real time; and `printed` is the number of lines
  as an `int`, wrapped.
- **`CNumbersProofs`** holds what the others share: uniqueness of quotient and remainder, `%` on
  multiples, shifts and wider moduli, and the ranges in which `strtoul`, `strtol` and signed
  conversion keep a number.

### Only model-checked

Liveness, because the prover has no fairness: `EventuallyEnds` of `Commands` and of
`Mmio`, `AllExit`, `CountEnds` and `EndlessPrints`. The properties that the runs violate are
refuted by TLC's counterexamples.

## Not modelled

The Makefile beyond the link orders it permits, wording and number formats other than
the decimal of `pci_list`, path buffers of `FILENAME_MAX`, the values that `rdtsc`,
`cpuid` and the port instructions deliver (only where they ran), the branches for
operation codes and sizes that no table row has, and the parts of
`linux-i2c-dev.h` that nothing calls (functionality flags, PEC). The handlers of `mmio_rw.c`, `smbus_rw.c`, `misc.c` and the
device files are not composed with the dispatcher as the logic handlers are: what
they take from it is argv, which `ArgvInBounds` covers.

## Plan

The model is complete up to the section above, and so are the proofs of its safety
properties. What would be worth adding:

1. proofs of exactness for the two findings that are limits rather than wrong output: that
   `LengthCoversRequest` and `BlockReadNotEmpty` fail only where the README says;
2. a composition of `Mmio` with the dispatcher like that of `Logic`, with operands as words.
