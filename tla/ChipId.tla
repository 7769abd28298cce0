-------------------------------- MODULE ChipId --------------------------------
(***************************************************************************)
(* cputochipid and cputoex of scom.c: a CPU number becomes a processor     *)
(* identification register (PIR) through sysfs, and the PIR a chip through *)
(* the device tree, or a core number by arithmetic.  Neither read() is     *)
(* checked for the number of bytes it returns.                             *)
(***************************************************************************)
EXTENDS Integers

CONSTANTS
  Pir,         \* Pir[cpu]: what /sys/devices/system/cpu/cpuN/pir holds
  ChipOfCore,  \* ChipOfCore[pir]: the chip-id of the node *@pir in the device tree
  Stale,       \* what may be left in a variable or buffer that nothing filled
  Byte         \* values of a byte

ASSUME ChipAssumption ==
  /\ Byte \in Nat \ {0, 1}
  /\ \A core \in DOMAIN ChipOfCore : core \in Nat /\ ChipOfCore[core] \in 0 .. Byte - 1
  /\ \A c \in DOMAIN Pir : c \in Nat /\ Pir[c] \in Nat
  /\ Stale \subseteq Nat

VARIABLES
  named,       \* the operand, as the number it spells
  cpu,         \* the int it is assigned to
  cmd,         \* "cputochipid" or "cputoex"
  cpc,
  pir,
  printed,     \* the number printed, or -1
  crc,
  short        \* history: a read() returned less than the file holds

chipVars == <<named, cpu, cmd, cpc, pir, printed, crc, short>>

Leave(code) == cpc' = "done" /\ crc' = code

\* cpu_to_pir(): the text is parsed whatever read() left in the buffer.
cpu_to_pir ==
  /\ cpc = "start"
  /\ \/ Leave(-1) /\ UNCHANGED <<pir, short>>
     \/ /\ cpu \in DOMAIN Pir
        /\ cpc' = IF cmd = "cputoex" THEN "ex" ELSE "glob"
        /\ \/ pir' = Pir[cpu] /\ UNCHANGED short
           \/ pir' \in Stale /\ short' = TRUE
        /\ UNCHANGED crc
  /\ UNCHANGED <<named, cpu, cmd, printed>>

\* The last three bits are the thread, the four above them the core.
CoreOf(p) == p - (p % 8)
MutExOf(p) == p % 16
ExOf(p) == (p \div 8) % 16

cpu_to_ex ==
  /\ cpc = "ex"
  /\ printed' = ExOf(pir)
  /\ Leave(0)
  /\ UNCHANGED <<named, cpu, cmd, pir, short>>

\* The property is big-endian; it is read into a uint32_t as it is.
HostOrder(n, big_endian) == IF big_endian THEN n ELSE n * Byte * Byte * Byte

\* pir_to_chipid() and the end of cpu_to_chipid().
cpu_to_chipid(big_endian) ==
  /\ cpc = "glob"
  /\ \/ Leave(-1) /\ UNCHANGED <<printed, short>>
     \/ /\ CoreOf(pir) \in DOMAIN ChipOfCore
        /\ \/ printed' = HostOrder(ChipOfCore[CoreOf(pir)], big_endian) /\ UNCHANGED short
           \/ printed' \in Stale /\ short' = TRUE
        /\ Leave(0)
  /\ UNCHANGED <<named, cpu, cmd, pir>>
-----------------------------------------------------------------------------
ChipInit ==
  /\ named = 0 /\ cpu = 0 /\ cmd = "cputochipid"
  /\ cpc = "idle"
  /\ pir = 0 /\ printed = -1
  /\ crc = 0
  /\ short = FALSE

ChipStep(big_endian) == cpu_to_pir \/ cpu_to_ex \/ cpu_to_chipid(big_endian)
==============================================================================
