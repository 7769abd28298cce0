------------------------------- MODULE PciList -------------------------------
(***************************************************************************)
(* pci_list of pci_rw.c: every device found below sysfs or, if that cannot *)
(* be opened, below procfs, one directory entry at a time, while devices   *)
(* come and go.  A line shows bus, device and function; the segment is     *)
(* dropped.                                                                *)
(***************************************************************************)
EXTENDS PciBus

\* Segments have four hex digits in a file name, five where a driver makes its
\* own (from 0x10000).
ASSUME ListAssumption == \A d \in Devices : d[1] < 16 * 65536

VARIABLES
  lpc,
  source,    \* the file system that is read
  seen,      \* devices whose entries were returned
  dirs,      \* procfs: bus directories that were returned
  subdir,    \* procfs: the bus directory being read
  stable,    \* history: devices present since opendir()
  ever,      \* history: devices present at some time since opendir()
  listed,    \* the lines printed, each with the device it comes from
  lrc

listVars == <<lpc, source, seen, dirs, subdir, stable, ever, listed, lrc>>

BusDir(d) == <<d[1], d[2]>>

\* %d of a number that the next command parses in base 0: decimal is safe.
MutPrinted(n) == (n \div 16) * 10 + (n % 16)
Printed(n) == n

\* %04x takes four digits of a segment: the colon does not match a fifth one.
MutFourDigits(d) == d[1] = 0
FourDigits(d) == d[1] < 65536

Line(bus, d) == [line |-> <<Printed(bus), Printed(d[3]), Printed(d[4])>>, from |-> d]

Opendir(fs, next) ==
  /\ fs \in mounted
  /\ source' = fs
  /\ lpc' = next
  /\ stable' = present
  /\ ever' = present

Done(code) == lpc' = "done" /\ lrc' = code

\* pci_list() and the opendir() of pci_list_sysfs(), which any error sends to
\* the other file system.
pci_list ==
  /\ lpc = "start"
  /\ \/ Opendir("sysfs", "sysfs")
     \/ lpc' = "procfs_open" /\ UNCHANGED <<source, stable, ever>>
  /\ UNCHANGED <<busVars, seen, dirs, subdir, listed, lrc>>

\* readdir() returns what was there all the time, and may return the rest.  A
\* name that does not match the format is passed over in silence.
pci_list_sysfs ==
  /\ lpc = "sysfs"
  /\ \/ \E d \in ever \ seen :
          /\ seen' = seen \union {d}
          /\ listed' = IF FourDigits(d) THEN Append(listed, Line(d[2], d)) ELSE listed
          /\ UNCHANGED <<lpc, lrc>>
     \/ /\ stable \subseteq seen
        /\ Done(0)
        /\ UNCHANGED <<seen, listed>>
  /\ UNCHANGED <<busVars, source, dirs, subdir, stable, ever>>

pci_list_procfs_open ==
  /\ lpc = "procfs_open"
  /\ \/ Opendir("procfs", "procfs") /\ UNCHANGED lrc
     \/ Done(-1) /\ UNCHANGED <<source, stable, ever>>
  /\ UNCHANGED <<busVars, seen, dirs, subdir, listed>>

\* The name of a bus directory is the bus, or segment:bus; %02x takes the
\* first two digits of it.
BusOf(dir) ==
  IF dir[1] = 0 THEN dir[2] ELSE dir[1] \div (IF dir[1] < 65536 THEN 256 ELSE 4096)

\* A bus directory that cannot be opened ends the command with an error, after
\* the lines that were printed.
MutSubdirFails == lpc' = "procfs" /\ UNCHANGED lrc
SubdirFails == Done(-1)

pci_list_procfs ==
  /\ lpc = "procfs"
  /\ \/ \E dir \in {BusDir(d) : d \in ever} \ dirs :
          /\ dirs' = dirs \union {dir}
          /\ \/ /\ \E d \in present : BusDir(d) = dir
                /\ subdir' = dir
                /\ lpc' = "subdir"
                /\ UNCHANGED lrc
             \/ SubdirFails /\ UNCHANGED subdir
     \/ /\ {BusDir(d) : d \in stable} \subseteq dirs
        /\ Done(0)
        /\ UNCHANGED <<dirs, subdir>>
  /\ UNCHANGED <<busVars, source, seen, stable, ever, listed>>

pci_list_subdir ==
  /\ lpc = "subdir"
  /\ \/ \E d \in ever \ seen :
          /\ BusDir(d) = subdir
          /\ seen' = seen \union {d}
          /\ listed' = Append(listed, Line(BusOf(subdir), d))
          /\ UNCHANGED lpc
     \/ /\ \A d \in stable : BusDir(d) = subdir => d \in seen
        /\ lpc' = "procfs"
        /\ UNCHANGED <<seen, listed>>
  /\ UNCHANGED <<busVars, source, dirs, subdir, stable, ever, lrc>>

\* Hot-plug, as it concerns a directory being read.
hotplug ==
  /\ \/ \E d \in Devices \ present : plug(d) /\ ever' = ever \union {d} /\ UNCHANGED stable
     \/ \E d \in present : unplug(d) /\ stable' = stable \ {d} /\ UNCHANGED ever
  /\ UNCHANGED <<lpc, source, seen, dirs, subdir, listed, lrc>>
-----------------------------------------------------------------------------
ListInit ==
  /\ lpc = "idle"
  /\ source = "none"
  /\ seen = {} /\ dirs = {} /\ subdir = <<0, 0>>
  /\ stable = {} /\ ever = {}
  /\ listed = <<>>
  /\ lrc = 0

ListStep ==
  \/ pci_list \/ pci_list_sysfs \/ pci_list_procfs_open \/ pci_list_procfs \/ pci_list_subdir
-----------------------------------------------------------------------------
(* Properties. *)

\* procfs names are misread once there is a second segment.
NamesReadable == source = "sysfs" \/ \A d \in ever : d[1] = 0

\* A listing that succeeds is a fair picture of a bus that changes meanwhile:
\* every device that stayed and whose segment is at most 0xffff has its own
\* line, and every line is the address of a device that was there.  Devices
\* of segments with five digits are left out, and the command succeeds.
ListFaithful ==
  lpc = "done" /\ lrc = 0 /\ NamesReadable =>
    /\ \A d \in stable : d[1] <= 65535 => \E k \in DOMAIN listed : listed[k].from = d
    /\ \A k \in DOMAIN listed :
         /\ listed[k].from \in ever
         /\ listed[k].line = <<listed[k].from[2], listed[k].from[3], listed[k].from[4]>>
         /\ \A j \in DOMAIN listed : listed[j].from = listed[k].from => j = k
==============================================================================
