----------------------------- MODULE MCIotools -----------------------------
(***************************************************************************)
(* Constants of Iotools for TLC: which groups are linked, in which orders, *)
(* and which command lines are tried.                                      *)
(***************************************************************************)
EXTENDS Iotools, SequencesExt

CONSTANT MaxOperands   \* longest run of operands after a command name

MCcommands == [g \in Groups |-> TableOf(g)]

\* Groups for which all orders are tried: one that only one architecture has,
\* one with conditional rows and rows without parameters, one with open-ended
\* operands.
SmallGroups == {"SCOM", "LOGIC", "MISC"}
AllOrders == {o \in [1 .. Cardinality(Groups) -> Groups] : IsInjective(o)}

\* The link order of $(wildcard *.c) sorted by name, and its reverse.
ByFile == SelectSeq(<<"CMOS", "IO", "LOGIC", "MISC", "MMIO", "MEM", "MSR",
                      "PCI", "SCOM", "SMBus">>, LAMBDA g : g \in Groups)
FileOrders == {ByFile, Reverse(ByFile)}

MCReplacing == {"runon"}
MCEndless == {"busy_loop"}
MCARCH_X86 == Arch = "x86"

Number == <<"0">>
Binary == <<"", "usr", "sbin", "iotools">>
Operands(n) == [k \in 1 .. n |-> Number]
Names == {c.name : c \in Cmds}

\* iotools <cmd> 0 0 ... and /usr/sbin/<cmd> 0 0 ...
CommandLines ==
  UNION {{<<Binary, <<n>>>> \o Operands(k),
          <<<<"", "usr", "sbin", n>>>> \o Operands(k)} : n \in Names, k \in 0 .. MaxOperands}

\* The binary's own options, under its own name and under a link's; a
\* command name as the operand of a link; words that are nothing.
OptionLines ==
  {<<Binary>>, <<Binary, Number>>, <<Binary, Number, Number>>}
    \union {<<Binary, o>> : o \in Options}
    \union {<<<<"or">>, o>> : o \in Options}
    \union {<<<<n>>, <<"and">>, Number>> : n \in {"or", "runon", "cpu_list"}}
    \union {<<Binary, <<"", "usr", "sbin", "or">>, Number>>}

MCLines == CommandLines \union OptionLines
==============================================================================
