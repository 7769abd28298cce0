-------------------------------- MODULE PciBus --------------------------------
(***************************************************************************)
(* The PCI devices of the machine and the two file systems that show them, *)
(* as pci_rw.c uses them: devices come and go while a command runs.  A     *)
(* device is <<segment, bus, device, function>>.                           *)
(***************************************************************************)
EXTENDS Integers, Sequences

CONSTANTS
  Devices,     \* the devices that may ever be there
  MaxPlugs     \* how many hot-plug events are considered

ASSUME BusAssumption ==
  /\ Devices \subseteq Nat \X Nat \X Nat \X Nat
  /\ MaxPlugs \in Nat

VARIABLES
  present,     \* the devices there are
  mounted,     \* the file systems there are: a subset of {"sysfs", "procfs"}
  plugs        \* hot-plug events so far

busVars == <<present, mounted, plugs>>

BusInit ==
  /\ present \in SUBSET Devices
  /\ mounted \in SUBSET {"sysfs", "procfs"}
  /\ plugs = 0

plug(d) ==
  /\ plugs < MaxPlugs
  /\ present' = present \union {d}
  /\ plugs' = plugs + 1
  /\ UNCHANGED mounted

unplug(d) ==
  /\ plugs < MaxPlugs
  /\ present' = present \ {d}
  /\ plugs' = plugs + 1
  /\ UNCHANGED mounted
==============================================================================
