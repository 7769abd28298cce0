----------------------------- MODULE MCMiscTools -----------------------------
(***************************************************************************)
(* MiscTools for TLC: machines that fit in a word of the CPU set and that  *)
(* do not, CPU numbers around every limit, and counts of every sign.       *)
(***************************************************************************)
EXTENDS MiscTools

MCMachines == {0 .. 2, 0 .. 4}
MCJumps == {-3, -1, 2}

CpuOperands == {-1, 0, 1, 2, 3, 4, 5, SetSize, UInt + 1, ULong}

MCInvocations ==
  [entry : {"cpuid"}, cpu : CpuOperands, count : {<<>>}]
    \union [entry : {"cpu_list", "rdtsc"}, cpu : {0}, count : {<<>>}]
    \union [entry : {"runon"}, cpu : CpuOperands, count : {<<0>>}]
    \union [entry : {"runon"}, cpu : {1}, count : {<<>>, <<1>>, <<2>>, <<-3>>}]
==============================================================================
