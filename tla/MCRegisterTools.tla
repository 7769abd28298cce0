--------------------------- MODULE MCRegisterTools ---------------------------
(***************************************************************************)
(* RegisterTools for TLC: requests on both sides of every limit, two PCI   *)
(* devices of segment 0 on different buses, one of another segment with    *)
(* the address of the first, one of a segment with five digits, and POWER  *)
(* cores with two threads each.                                            *)
(***************************************************************************)
EXTENDS RegisterTools

MCDevices == {<<0, 11, 1, 0>>, <<0, 17, 1, 0>>, <<1, 11, 1, 0>>, <<65536, 11, 1, 0>>}
MCCpuFiles == {0, 1}
MCChipFiles == {0, 1}
MCPir == [c \in 0 .. 3 |-> CASE c = 0 -> 8 [] c = 1 -> 12 [] c = 2 -> 40 [] c = 3 -> 136]
MCChipOfCore == [p \in {8, 40, 136} |-> IF p = 136 THEN 1 ELSE 0]
MCStale == {0, 8, 77}
MCCpuWords == {0, 1, 2, 3, 4, UInt + 1, -1, UInt - ULong}

Req(space, write, unit, reg, size) ==
  [space |-> space, write |-> write, unit |-> unit, reg |-> reg, size |-> size]

PciUnits == {<<11, 1, 0>>, <<1, 11, 1, 0>>, <<0, 17, 1, 0>>, <<UInt + 11, 1, 0>>, <<-1, 1, 0>>}
Cells(writes, units, regs, sizes, space) ==
  {Req(space, w, u, r, s) : w \in writes, u \in units, r \in regs, s \in sizes}

MCReqs ==
  Cells(BOOLEAN, PciUnits, {0, 5, UInt \div 2 - 1, UInt + 1}, {1, 2, 4}, "pci")
    \union Cells(BOOLEAN, {<<n>> : n \in {0, 1, UInt + 1, -1}},
                 {0, UInt - 1, UInt, UInt + 1, ULong \div 2, ULong - 2, ULong - 1, -1}, {8}, "msr")
    \union Cells(BOOLEAN, {<<>>}, {-1, 2 - ULong, 0, 13, 14, 15, ULong \div 2 + 14, ULong - 1}, {1}, "cmos")
    \union Cells(BOOLEAN, {<<n>> : n \in {0, 1, 2}},
                 {0, 1, K - 1, K, 4 * K, 8 * K, 16 * K - 1, 16 * K, 17 * K - 1, 17 * K, U64 - 1},
                 {8}, "scom")
    \union Cells(BOOLEAN, {<<>>}, {0, UInt \div 2 - 1, UInt \div 2, UInt, -1}, {1, 2, 4}, "port")
==============================================================================
