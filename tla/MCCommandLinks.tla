---------------------------- MODULE MCCommandLinks ----------------------------
(***************************************************************************)
(* Constants of CommandLinks for TLC: an installed iotools and a renamed   *)
(* older copy with its list in another order, in one directory.            *)
(***************************************************************************)
EXTENDS CommandLinks, SequencesExt

CONSTANTS m1, m2, c1

MCNames == {"and", "cpuid", "runon"}
MCOrder == [p \in Procs |-> IF p = m2 THEN <<"runon", "cpuid", "and">>
                                      ELSE <<"and", "cpuid", "runon">>]
MCbin_name == [p \in Procs |-> IF p = m2 THEN "iotools.old" ELSE "iotools"]
==============================================================================
