---------------------------- MODULE RegisterTools ----------------------------
(***************************************************************************)
(* The register commands as a script uses them: a command on operands of   *)
(* the user, pci_list followed by a PCI read of one of its lines, or       *)
(* cputochipid followed by a getscom of the chip it printed.  PCI devices  *)
(* come and go all the time.                                               *)
(***************************************************************************)
EXTENDS DeviceFiles, PciList, ChipId

CONSTANTS
  Reqs,       \* the invocations tried without a listing or a lookup
  CpuWords    \* the operands of the lookups, as the numbers they spell

VARIABLE script     \* "user", "list" or "chip"

toolVars == <<busVars, devVars, listVars, chipVars, script>>

\* Every thread of a core is in the device tree through its core; the numbers
\* of buses, devices and functions fit in an int, those of chips in a byte,
\* and four bytes in an unsigned int.
ASSUME TopologyAssumption ==
  /\ Reqs \subseteq Request
  /\ CpuWords \subseteq Int
  /\ \A d \in Devices : Small(d[2]) /\ Small(d[3]) /\ Small(d[4])
  /\ ChipFiles \subseteq 0 .. Byte - 1
  /\ Byte * (Byte * (Byte * Byte)) <= UInt
  /\ \A c \in DOMAIN Pir : CoreOf(Pir[c]) \in DOMAIN ChipOfCore

PciRead(line) == [space |-> "pci", write |-> FALSE, unit |-> line, reg |-> 0, size |-> 2]
GetScom(chip) == [space |-> "scom", write |-> FALSE, unit |-> <<chip>>, reg |-> 1, size |-> 8]

user_command ==
  /\ script = "user"
  /\ \E r \in Reqs : Invoke(r)
  /\ UNCHANGED <<busVars, listVars, chipVars, script>>

start_list ==
  /\ script = "list" /\ lpc = "idle"
  /\ lpc' = "start"
  /\ UNCHANGED <<busVars, devVars, source, seen, dirs, subdir, stable, ever, listed, lrc,
                 chipVars, script>>

read_listed ==
  /\ script = "list" /\ lpc = "done" /\ lrc = 0
  /\ \E k \in DOMAIN listed : Invoke(PciRead(listed[k].line))
  /\ UNCHANGED <<busVars, listVars, chipVars, script>>

\* int cpu = strtoul()
CpuOf(n) == Signed(Parse(n, ULong), UInt)

start_lookup ==
  /\ script = "chip" /\ cpc = "idle"
  /\ named' \in CpuWords
  /\ cpu' = CpuOf(named')
  /\ cmd' \in {"cputochipid", "cputoex"}
  /\ cpc' = "start"
  /\ UNCHANGED <<busVars, devVars, listVars, pir, printed, crc, short, script>>

read_chip ==
  /\ script = "chip" /\ cpc = "done" /\ crc = 0 /\ cmd = "cputochipid"
  /\ Invoke(GetScom(printed))
  /\ UNCHANGED <<busVars, listVars, chipVars, script>>

\* Without a listing the bus stands still: any open() may fail anyway.
ToolInit ==
  /\ BusInit /\ DevInit /\ ListInit /\ ChipInit
  /\ \/ script = "list"
     \/ /\ script \in {"user", "chip"}
        /\ present = Devices /\ mounted = {"sysfs", "procfs"}

ToolNext ==
  \/ user_command \/ start_list \/ read_listed \/ start_lookup \/ read_chip
  \/ DevStep /\ UNCHANGED <<busVars, listVars, chipVars, script>>
  \/ ListStep /\ UNCHANGED <<devVars, chipVars, script>>
  \/ ChipStep(big_endian) /\ UNCHANGED <<busVars, devVars, listVars, script>>
  \/ script = "list" /\ hotplug /\ UNCHANGED <<devVars, chipVars, script>>

ToolSpec == ToolInit /\ [][ToolNext]_toolVars
-----------------------------------------------------------------------------
(* Properties. *)

\* The line that pci_list prints for a device of segment 0 leads a later PCI
\* read to that device, hot-plug or not; lines of other segments do not carry
\* their segment.
ListedLineReadsDevice ==
  script = "list" =>
    \A k \in DOMAIN listed, m \in moved :
      req.unit = listed[k].line /\ listed[k].from[1] = 0 => m[1].unit = listed[k].from

\* When sysfs and the device tree deliver what they hold, a getscom of what
\* cputochipid printed reaches no other chip than the one that holds the CPU
\* named, on a little-endian host too, where the number is printed in the
\* wrong byte order; and cputoex prints the number of the CPU's core.  CPU
\* numbers that an int cannot hold are those of other CPUs.
LookupFindsChip ==
  script = "chip" /\ cpc = "done" /\ crc = 0 /\ ~short /\ Small(named) =>
    /\ cmd = "cputoex" => printed = (Pir[named] % 128) \div 8
    /\ \A m \in moved : m[1].unit = <<ChipOfCore[Pir[named] - (Pir[named] % 8)]>>
==============================================================================
