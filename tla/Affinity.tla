------------------------------- MODULE Affinity -------------------------------
(***************************************************************************)
(* runon, cpuid, rdtsc and cpu_list of misc.c: a process ties itself to    *)
(* one CPU and executes an instruction or another program there, while     *)
(* CPUs go off line and come back.  On klibc the CPU set is the program's  *)
(* own code, with an int shift and a CPU_ZERO that clears one word.        *)
(***************************************************************************)
EXTENDS Integers, Sequences, FiniteSets, CNumbers

CONSTANTS
  Machines,     \* sets of CPUs a machine may have
  Invocations,  \* commands tried, see Invocation
  SetSize,      \* CPU_SETSIZE
  WordBits,     \* __NCPUBITS, also the bits of a pointer
  IntBits,
  UInt, ULong,  \* where unsigned int and unsigned long wrap
  MaxHotplug    \* how many CPU hot-plug events are considered

Invocation == [entry : {"runon", "cpuid", "rdtsc", "cpu_list"}, cpu : Int, count : Seq(Int)]

ASSUME AffinityAssumption ==
  /\ SetSize \in Nat /\ WordBits \in Nat \ {0} /\ IntBits \in 2 .. WordBits
  /\ UInt \in Nat \ {0} /\ UInt % 2 = 0
  /\ ULong \in Nat \ {0} /\ ULong >= UInt /\ ULong % UInt = 0
  /\ SetSize <= UInt \div 2
  /\ \A m \in Machines : \E n \in 1 .. SetSize : m = 0 .. n - 1
  /\ Invocations \subseteq Invocation

VARIABLES
  klibc,       \* the C library of the build
  possible,    \* the CPUs of the machine
  online,
  plugs,
  inv,         \* the invocation
  apc,
  allowed,     \* affinity of the process
  oncpu,       \* where it runs
  lost,        \* history: the kernel gave up the affinity for want of a CPU
  printed_cpus,\* the CPUs whose numbers or data were printed
  arc

machineVars == <<klibc, possible, online, plugs>>
procVars == <<inv, apc, allowed, oncpu, lost, printed_cpus, arc>>
affVars == <<machineVars, procVars>>

Ends(code) == apc' = "done" /\ arc' = code
-----------------------------------------------------------------------------
\* runon() passes an unsigned long to an int parameter, cpuid() has an int.
CpuNumber ==
  IF inv.entry = "runon" THEN Signed(Parse(inv.cpu, ULong), UInt)
                         ELSE Signed(ParseLong(inv.cpu, ULong), UInt)

\* CPU_ZERO() and CPU_SET(): glibc's ignores a number beyond the set.
glibc_set(cpu) == {IF cpu \in 0 .. SetSize - 1 THEN {cpu} ELSE {}}

\* The words after the first keep what the stack held.  A number beyond the
\* set writes elsewhere.
klibc_set(cpu) ==
  LET word == (cpu \div WordBits) * WordBits
      bits == IF cpu \in 0 .. SetSize - 1
                THEN {{word + b : b \in m} : m \in IntShift(cpu % WordBits, IntBits, WordBits)}
                ELSE {{}}
  IN  {set \union rest : set \in bits, rest \in SUBSET (WordBits .. SetSize - 1)}

MutCpuSets(cpu) == {{cpu} \union rest : rest \in SUBSET possible}
CpuSets(cpu) == IF klibc THEN klibc_set(cpu) ELSE glibc_set(cpu)

\* set_cpu_affinity(): the kernel refuses a set without a CPU that is on line,
\* and moves the process at once otherwise.
set_cpu_affinity ==
  /\ apc = "start" /\ inv.entry \in {"runon", "cpuid"}
  /\ \/ /\ Ends(-1)
        /\ UNCHANGED <<allowed, oncpu, lost>>
     \/ \E set \in CpuSets(CpuNumber) :
          /\ set \intersect online # {}
          /\ allowed' = set \intersect possible
          /\ oncpu' \in set \intersect online
          /\ lost' = FALSE
          /\ apc' = IF inv.entry = "runon" THEN "exec" ELSE "cpuid"
          /\ UNCHANGED arc
  /\ UNCHANGED <<machineVars, inv, printed_cpus>>

\* The instruction of cpuid_inline() and the output of cpuid().
cpuid_inline ==
  /\ apc = "cpuid"
  /\ printed_cpus' = {oncpu}
  /\ Ends(0)
  /\ UNCHANGED <<machineVars, inv, allowed, oncpu, lost>>

\* rdtsc() reads the counter of the CPU it happens to be on.
rdtsc ==
  /\ apc = "start" /\ inv.entry = "rdtsc"
  /\ printed_cpus' = {oncpu}
  /\ Ends(0)
  /\ UNCHANGED <<machineVars, inv, allowed, oncpu, lost>>

\* execvp(): the affinity stays with the process.
runon ==
  /\ apc = "exec"
  /\ \/ apc' = "program" /\ UNCHANGED arc
     \/ Ends(-1)
  /\ UNCHANGED <<machineVars, inv, allowed, oncpu, lost, printed_cpus>>

\* cpu_list() counts the CPUs on line and prints the first numbers; klibc may
\* not have sysconf().
MutListedCpus == 0 .. Cardinality(online)
ListedCpus == 0 .. Cardinality(online) - 1

cpu_list ==
  /\ apc = "start" /\ inv.entry = "cpu_list"
  /\ \/ printed_cpus' = ListedCpus /\ Ends(0)
     \/ klibc /\ UNCHANGED printed_cpus /\ Ends(-1)
  /\ UNCHANGED <<machineVars, inv, allowed, oncpu, lost>>

\* The scheduler, and CPUs that leave and return.
Running == apc \in {"start", "exec", "cpuid", "program"}

migrate ==
  /\ Running
  /\ oncpu' \in (allowed \intersect online) \ {oncpu}
  /\ UNCHANGED <<machineVars, inv, apc, allowed, lost, printed_cpus, arc>>

cpu_down(c) ==
  /\ Running /\ plugs < MaxHotplug
  /\ online' = online \ {c} /\ online' # {}
  /\ plugs' = plugs + 1
  /\ IF allowed \intersect online' = {}
       THEN allowed' = possible /\ lost' = TRUE
       ELSE UNCHANGED <<allowed, lost>>
  /\ oncpu' \in allowed' \intersect online'
  /\ oncpu \in online' => oncpu' = oncpu
  /\ UNCHANGED <<klibc, possible, inv, apc, printed_cpus, arc>>

cpu_up(c) ==
  /\ Running /\ plugs < MaxHotplug
  /\ online' = online \union {c}
  /\ plugs' = plugs + 1
  /\ UNCHANGED <<klibc, possible, procVars>>
-----------------------------------------------------------------------------
AffInit ==
  /\ klibc \in BOOLEAN
  /\ possible \in Machines
  /\ online = possible
  /\ plugs = 0
  /\ inv \in Invocations
  /\ apc = "start"
  /\ allowed = possible
  /\ oncpu = 0
  /\ lost = FALSE
  /\ printed_cpus = {}
  /\ arc = 0

AffStep ==
  \/ set_cpu_affinity \/ cpuid_inline \/ rdtsc \/ runon \/ cpu_list
  \/ migrate
  \/ \E c \in online : cpu_down(c)
  \/ \E c \in possible \ online : cpu_up(c)
-----------------------------------------------------------------------------
(* Properties. *)

\* Type invariant: the process always runs on a CPU that it may use, and no
\* command prints a CPU that the machine does not have.
AffTypeOK ==
  /\ online \subseteq possible /\ possible \in Machines
  /\ apc \in {"start", "exec", "cpuid", "program", "done"}
  /\ allowed \subseteq possible
  /\ Running => oncpu \in allowed \intersect online
  /\ printed_cpus \subseteq possible
  /\ arc \in {-1, 0}

\* The operand survives int.  The klibc set is good for CPUs below the sign
\* bit of an int, on machines whose CPUs fit in its first word.
OperandFits ==
  /\ inv.cpu \in -(UInt \div 2) .. (UInt \div 2) - 1
  /\ klibc => inv.cpu < IntBits - 1 /\ possible \subseteq 0 .. WordBits - 1

\* What cpuid prints and what runon starts comes from, and stays on, the CPU
\* that was named, unless that CPU went off line in between; a CPU that does
\* not exist is an error, never another CPU.
RunsWhereNamed ==
  OperandFits /\ ~lost =>
    /\ inv.entry = "cpuid" => printed_cpus \subseteq {inv.cpu}
    /\ apc \in {"exec", "program"} => oncpu = inv.cpu
==============================================================================
