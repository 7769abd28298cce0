---------------------------- MODULE MiscToolsProofs ----------------------------
(***************************************************************************)
(* Proofs about the misc commands for every machine, every operand, every  *)
(* width of the integer types and every behaviour of the clock.            *)
(***************************************************************************)
EXTENDS MiscTools, CNumbersProofs, FiniteSetTheorems

(* The CPU that an operand names. *)

\* An operand that an int can hold is the number that set_cpu_affinity() gets,
\* negative ones included, which strtoul() turns into large ones.
LEMMA NumberNamed ==
  ASSUME inv \in Invocation, inv.cpu \in -(UInt \div 2) .. (UInt \div 2) - 1
  PROVE  CpuNumber = inv.cpu
<1> DEFINE n == inv.cpu
           h == UInt \div 2
<1>0. /\ UInt \in Nat /\ UInt > 0 /\ UInt % 2 = 0 /\ ULong \in Nat /\ ULong > 0
      /\ ULong >= UInt /\ ULong % UInt = 0
  BY AffinityAssumption
<1>1. n \in Int /\ h \in Nat /\ UInt = 2 * h /\ n \in -h .. h - 1
  BY <1>0 DEF Invocation
<1> HIDE DEF n
<1>2. Signed(n, UInt) = n
  BY <1>0, <1>1, SignedFits
<1>3. ParseLong(n, ULong) = n
  <2>1. n \in -(ULong \div 2) .. (ULong \div 2) - 1
    BY <1>0, <1>1
  <2> QED
    BY <1>0, <1>1, <2>1, ParseLongFits
<1>4. Signed(Parse(n, ULong), UInt) = n
  <2>1. CASE n >= 0
    <3>1. n \in 0 .. ULong - 1
      BY <1>0, <1>1, <2>1
    <3> QED
      BY <1>0, <1>1, <1>2, <3>1, ParseRange
  <2>2. CASE n < 0
    <3>1. Parse(n, ULong) = ULong + n
      BY <1>0, <1>1, <2>2 DEF Parse
    <3> DEFINE s == n + h
    <3>2. s \in Int /\ s \in Nat /\ s < UInt
      BY <1>1, <2>2
    <3> HIDE DEF s
    <3>3. (s + ULong) % UInt = s % UInt
      BY <1>0, <3>2, ModWiden
    <3>4. s % UInt = s
      BY <1>0, <3>2, ModSmall
    <3>5. ULong + n + h = s + ULong
      BY <1>0, <1>1 DEF s
    <3>6. Signed(ULong + n, UInt) = s - h
      BY <3>3, <3>4, <3>5 DEF Signed
    <3>7. s - h = n
      BY <1>1 DEF s
    <3> QED
      BY <3>1, <3>6, <3>7
  <2> QED
    BY <1>1, <2>1, <2>2
<1> QED
  BY <1>2, <1>3, <1>4 DEF CpuNumber, n

\* The CPUs of a machine are numbered from 0 and fit in a CPU set.
LEMMA MachineCpus ==
  ASSUME NEW m \in Machines
  PROVE  \E n \in Nat : n > 0 /\ n <= SetSize /\ m = 0 .. n - 1
BY AffinityAssumption

\* Either library's set has, of the CPUs that the machine has, the one named.
LEMMA SetNamesCpu ==
  ASSUME inv \in Invocation, OperandFits, possible \in Machines,
         NEW set \in CpuSets(CpuNumber), set \intersect possible # {}
  PROVE  set \intersect possible = {inv.cpu}
<1> DEFINE c == inv.cpu
<1>0. /\ SetSize \in Nat /\ WordBits \in Nat /\ WordBits > 0 /\ IntBits \in Int
      /\ IntBits >= 2 /\ IntBits <= WordBits
  BY AffinityAssumption
<1>1. CpuNumber = c /\ c \in Int
  BY NumberNamed DEF OperandFits, Invocation
<1>2. CASE ~klibc
  <2>1. set = (IF c \in 0 .. SetSize - 1 THEN {c} ELSE {})
    BY <1>1, <1>2 DEF CpuSets, glibc_set
  <2> QED
    BY <2>1
<1>3. CASE klibc
  <2>1. c < IntBits - 1 /\ possible \subseteq 0 .. WordBits - 1
    BY <1>3 DEF OperandFits
  <2> DEFINE word == (c \div WordBits) * WordBits
             bits == IF c \in 0 .. SetSize - 1
                       THEN {{word + b : b \in m} :
                               m \in IntShift(c % WordBits, IntBits, WordBits)}
                       ELSE {{}}
  <2>2. PICK low \in bits, rest \in SUBSET (WordBits .. SetSize - 1) : set = low \union rest
    <3> DEFINE sets == {x \union rest : x \in bits, rest \in SUBSET (WordBits .. SetSize - 1)}
    <3>1. CpuSets(c) = sets
      BY <1>3 DEF CpuSets, klibc_set
    <3> HIDE DEF c, word, bits, sets
    <3>2. set \in CpuSets(c)
      BY <1>1
    <3>3. set \in sets
      BY <3>1, <3>2
    <3> QED
      BY <3>3 DEF sets
  <2>3. rest \intersect possible = {}
    BY <1>0, <2>1, <2>2
  <2>4. c \in 0 .. SetSize - 1 => low = {c}
    <3> SUFFICES ASSUME c \in 0 .. SetSize - 1 PROVE low = {c}
      OBVIOUS
    <3>1. c \in Nat /\ c < WordBits
      BY <1>0, <1>1, <2>1
    <3>2. c % WordBits = c /\ word = 0
      <4>1. c = WordBits * 0 + c /\ c \in 0 .. WordBits - 1
        BY <1>0, <3>1
      <4>2. c % WordBits = c /\ c \div WordBits = 0
        BY <1>0, <1>1, <4>1, DivModUnique
      <4> QED
        BY <1>0, <4>2
    <3>3. IntShift(c, IntBits, WordBits) = {{c}}
      <4> HIDE DEF c
      <4> QED
        BY <1>0, <1>1, <2>1, <3>1 DEF IntShift
    <3>4. bits = {{word + b : b \in m} : m \in {{c}}}
      BY <3>2, <3>3
    <3>5. low = {0 + c}
      BY <3>2, <3>4
    <3> QED
      BY <1>1, <3>5
  <2>5. c \notin 0 .. SetSize - 1 => low = {}
    BY <2>2
  <2> QED
    BY <2>2, <2>3, <2>4, <2>5
<1> QED
  BY <1>2, <1>3
-----------------------------------------------------------------------------
(* The inductive invariant of runon, cpuid, rdtsc and cpu_list. *)

\* Where a process has tied itself to the CPU it names.
Tied == apc \in {"exec", "program", "cpuid"}

AffInv ==
  /\ AffTypeOK
  /\ inv \in Invocation
  /\ apc = "cpuid" => inv.entry = "cpuid"
  /\ apc # "done" => printed_cpus = {}
  \* The kernel lets the process run there and nowhere else.
  /\ Tied /\ OperandFits /\ ~lost => allowed = {inv.cpu}
  /\ inv.entry = "cpuid" /\ OperandFits /\ ~lost => printed_cpus \subseteq {inv.cpu}

\* The start.
LEMMA AffInitInv == AffInit => AffInv
<1> SUFFICES ASSUME AffInit PROVE AffInv
  OBVIOUS
<1>1. 0 \in possible
  BY MachineCpus DEF AffInit
<1>2. inv \in Invocation
  BY AffinityAssumption DEF AffInit
<1> QED
  BY <1>1, <1>2 DEF AffInit, AffInv, AffTypeOK, Running, Tied

\* set_cpu_affinity() ties the process to the CPU named, or fails.
LEMMA TiePreserves ==
  ASSUME AffInv, set_cpu_affinity
  PROVE  AffInv'
<1> USE DEF AffInv
<1>0. /\ UNCHANGED <<klibc, possible, online, plugs, inv, printed_cpus>>
      /\ apc = "start" /\ inv.entry \in {"runon", "cpuid"} /\ printed_cpus = {}
      /\ online \subseteq possible
  BY DEF set_cpu_affinity, machineVars, AffTypeOK
<1>1. OperandFits' = OperandFits
  BY <1>0 DEF OperandFits
<1>2. CASE Ends(-1) /\ UNCHANGED <<allowed, oncpu, lost>>
  BY <1>0, <1>1, <1>2 DEF Ends, AffTypeOK, Running, Tied
<1>3. ASSUME NEW set \in CpuSets(CpuNumber),
             set \intersect online # {},
             allowed' = set \intersect possible,
             oncpu' \in set \intersect online,
             lost' = FALSE,
             apc' = IF inv.entry = "runon" THEN "exec" ELSE "cpuid",
             UNCHANGED arc
      PROVE  AffInv'
  <2>1. OperandFits => allowed' = {inv.cpu}
    <3>1. set \intersect possible # {}
      BY <1>0, <1>3
    <3> QED
      BY <1>3, <3>1, SetNamesCpu DEF AffTypeOK
  <2>2. apc' \in {"exec", "cpuid"} /\ (apc' = "cpuid" => inv.entry = "cpuid")
    BY <1>0, <1>3
  <2>3. oncpu' \in allowed' \intersect online' /\ allowed' \subseteq possible
    BY <1>0, <1>3
  <2> QED
    BY <1>0, <1>1, <1>3, <2>1, <2>2, <2>3 DEF AffTypeOK, Running, Tied
<1> QED
  BY <1>2, <1>3 DEF set_cpu_affinity

\* cpuid and rdtsc print the number of the CPU they run on.
LEMMA InstructionPreserves ==
  ASSUME AffInv, cpuid_inline \/ rdtsc
  PROVE  AffInv'
<1> USE DEF AffInv
<1>0. /\ UNCHANGED <<klibc, possible, online, plugs, inv, allowed, oncpu, lost>>
      /\ apc' = "done" /\ arc' = 0 /\ printed_cpus' = {oncpu}
      /\ oncpu \in allowed \intersect online
      /\ inv.entry # "cpu_list" /\ (inv.entry = "cpuid" => apc = "cpuid")
  BY DEF cpuid_inline, rdtsc, machineVars, Ends, AffTypeOK, Running
<1>1. OperandFits' = OperandFits
  BY <1>0 DEF OperandFits
<1> QED
  BY <1>0, <1>1 DEF AffTypeOK, Running, Tied

\* execvp() keeps the affinity.
LEMMA ExecPreserves ==
  ASSUME AffInv, runon
  PROVE  AffInv'
<1> USE DEF AffInv
<1>0. /\ UNCHANGED <<klibc, possible, online, plugs, inv, allowed, oncpu, lost, printed_cpus>>
      /\ apc = "exec" /\ printed_cpus = {}
      /\ (apc' = "program" /\ arc' = arc) \/ (apc' = "done" /\ arc' = -1)
  BY DEF runon, machineVars, Ends
<1>1. OperandFits' = OperandFits
  BY <1>0 DEF OperandFits
<1> QED
  BY <1>0, <1>1 DEF AffTypeOK, Running, Tied

\* The numbers that cpu_list prints are all of CPUs of the machine.
LEMMA ListPreserves ==
  ASSUME AffInv, cpu_list
  PROVE  AffInv'
<1> USE DEF AffInv
<1>0. /\ UNCHANGED <<klibc, possible, online, plugs, inv, allowed, oncpu, lost>>
      /\ apc = "start" /\ apc' = "done" /\ inv.entry = "cpu_list" /\ printed_cpus = {}
      /\ (printed_cpus' = ListedCpus /\ arc' = 0) \/ (printed_cpus' = {} /\ arc' = -1)
  BY DEF cpu_list, machineVars, Ends
<1>1. PICK n \in Nat : n > 0 /\ possible = 0 .. n - 1
  BY MachineCpus DEF AffTypeOK
<1>2. IsFiniteSet(possible) /\ Cardinality(possible) = n
  <2>1. /\ IsFiniteSet(0 .. n - 1)
        /\ Cardinality(0 .. n - 1) = IF 0 > n - 1 THEN 0 ELSE n - 1 - 0 + 1
    BY FS_Interval
  <2> QED
    BY <1>1, <2>1
<1> DEFINE c == Cardinality(online)
<1>3. c \in Nat /\ c <= n
  <2>1. online \in SUBSET possible
    BY DEF AffTypeOK
  <2>2. IsFiniteSet(online) /\ Cardinality(online) <= n
    BY <1>2, <2>1, FS_Subset
  <2> QED
    BY <2>2, FS_CardinalityType
<1>4. 0 .. c - 1 \subseteq possible
  BY <1>1, <1>3
<1>5. printed_cpus' \subseteq possible
  BY <1>0, <1>4 DEF ListedCpus
<1>6. OperandFits' = OperandFits
  BY <1>0 DEF OperandFits
<1> QED
  BY <1>0, <1>5, <1>6 DEF AffTypeOK, Running, Tied

\* The scheduler and CPUs that leave and return.
LEMMA KernelPreserves ==
  ASSUME AffInv,
         \/ migrate
         \/ \E c \in online : cpu_down(c)
         \/ \E c \in possible \ online : cpu_up(c)
  PROVE  AffInv'
<1> USE DEF AffInv
<1>0. /\ UNCHANGED <<klibc, possible, inv, apc, printed_cpus, arc>>
      /\ Running /\ printed_cpus = {} /\ apc # "done"
  BY DEF migrate, cpu_down, cpu_up, machineVars, procVars, Running
<1>1. OperandFits' = OperandFits
  BY <1>0 DEF OperandFits
<1>2. CASE migrate
  BY <1>0, <1>1, <1>2 DEF migrate, machineVars, AffTypeOK, Running, Tied
<1>3. ASSUME NEW c \in online, cpu_down(c) PROVE AffInv'
  <2>1. /\ online' \subseteq possible
        /\ oncpu' \in allowed' \intersect online'
        /\ (allowed' = possible /\ lost' = TRUE) \/ UNCHANGED <<allowed, lost>>
    BY <1>3 DEF cpu_down, AffTypeOK
  <2> QED
    BY <1>0, <1>1, <2>1 DEF AffTypeOK, Running, Tied
<1>4. ASSUME NEW c \in possible \ online, cpu_up(c) PROVE AffInv'
  <2>1. /\ online' = online \union {c}
        /\ UNCHANGED <<allowed, lost, oncpu>>
    BY <1>4 DEF cpu_up, procVars
  <2> QED
    BY <1>0, <1>1, <2>1 DEF AffTypeOK, Running, Tied
<1> QED
  BY <1>2, <1>3, <1>4

\* One step of these commands.
LEMMA AffStepPreserves ==
  ASSUME AffInv, AffStep
  PROVE  AffInv'
BY TiePreserves, InstructionPreserves, ExecPreserves, ListPreserves, KernelPreserves
DEF AffStep
-----------------------------------------------------------------------------
(* The inductive invariant of busy_loop. *)

Half == IntRange \div 2

\* How many lines a count asks for: a negative one is met when the int wraps.
Wanted == IF reps >= 0 THEN reps ELSE IntRange + reps

BusyInv ==
  /\ bpc \in {"idle", "loop", "done"}
  /\ bpc = "idle" => reps = 0
  /\ reps \in -Half .. Half - 1
  /\ lines \in Nat
  /\ since \in Int /\ real \in 0 .. Second /\ early \in Nat /\ jumps \in Nat
  \* Until a second has passed, the clock tells the time, unless it was set and
  \* no line has come of that yet.
  /\ real < Second => since = real \/ early < jumps
  \* printed is the number of lines as an int.
  /\ reps # -1 => /\ lines \in 0 .. Wanted
                  /\ printed = IF lines < Half THEN lines ELSE lines - IntRange
  /\ reps = -1 => printed = 0
  /\ bpc = "done" => printed = reps
  /\ LineMeansSecond

\* The range of an int.
LEMMA HalfRange == /\ Half \in Nat /\ Half > 0 /\ IntRange = 2 * Half
                   /\ IntRange \in Nat /\ IntRange > 0 /\ MaxLines >= IntRange
                   /\ MaxLines \in Nat
BY BusyAssumption DEF Half

\* The next int after n wraps at the end.
LEMMA NextInt ==
  ASSUME NEW n \in -Half .. Half - 1
  PROVE  Signed(n + 1, IntRange) = IF n + 1 < Half THEN n + 1 ELSE -Half
<1>0. IntRange \in Nat /\ IntRange > 0 /\ IntRange % 2 = 0 /\ IntRange \div 2 = Half
  BY BusyAssumption DEF Half
<1>1. CASE n + 1 < Half
  <2> DEFINE k == n + 1
  <2>1. k \in -(IntRange \div 2) .. (IntRange \div 2) - 1
    BY <1>0, <1>1, HalfRange
  <2> HIDE DEF k
  <2>2. Signed(k, IntRange) = k
    BY <1>0, <2>1, SignedFits
  <2> QED
    BY <1>1, <2>2 DEF k
<1>2. CASE ~(n + 1 < Half)
  <2>1. n + 1 = Half
    BY <1>2, HalfRange
  <2>2. Half + Half = IntRange /\ IntRange % IntRange = 0
    BY <1>0, HalfRange
  <2>3. Signed(Half, IntRange) = 0 - Half
    BY <1>0, <2>2 DEF Signed
  <2> QED
    BY <1>2, <2>1, <2>3, HalfRange
<1> QED
  BY <1>1, <1>2

\* The start.
LEMMA BusyInitInv == BusyInit => BusyInv
<1>1. Second \in Nat /\ Second > 0
  BY BusyAssumption
<1> QED
  BY <1>1, HalfRange DEF BusyInit, BusyInv, LineMeansSecond, Wanted

\* The operand of busy_loop.
LEMMA BusyStartPreserves ==
  ASSUME BusyInv, NEW operands \in Seq(Int), busy_loop(operands)
  PROVE  BusyInv'
<1>0. /\ UNCHANGED <<printed, since, real, jumps, lines, early>> /\ bpc = "idle" /\ bpc' = "loop"
      /\ reps = 0 /\ lines = 0 /\ printed = 0
  BY HalfRange DEF busy_loop, BusyInv, Wanted
<1>1. reps' \in -Half .. Half - 1
  <2>1. CASE Len(operands) = 1
    <3>1. operands[1] \in Int
      BY <2>1
    <3>2. Signed(operands[1], IntRange) \in -Half .. Half - 1
      <4>1. IntRange \in Nat /\ IntRange > 0 /\ IntRange % 2 = 0
        BY BusyAssumption
      <4> DEFINE n == operands[1]
      <4>2. n \in Int
        BY <3>1
      <4> HIDE DEF n
      <4>3. Signed(n, IntRange) \in -(IntRange \div 2) .. (IntRange \div 2) - 1
        BY <4>1, <4>2, SignedRange
      <4> QED
        BY <4>3 DEF n, Half
    <3> QED
      BY <2>1, <3>2 DEF busy_loop
  <2>2. CASE Len(operands) # 1
    BY <2>2, HalfRange DEF busy_loop
  <2> QED
    BY <2>1, <2>2
<1>2. Wanted' \in Nat
  <2>1. \A k \in -Half .. Half - 1 : (IF k >= 0 THEN k ELSE IntRange + k) \in Nat
    <3> SUFFICES ASSUME NEW k \in -Half .. Half - 1
                 PROVE  (IF k >= 0 THEN k ELSE IntRange + k) \in Nat
      OBVIOUS
    <3> QED
      BY HalfRange
  <2>2. Wanted' = IF reps' >= 0 THEN reps' ELSE IntRange + reps'
    BY DEF Wanted
  <2> QED
    BY <1>1, <2>1, <2>2
<1>3. lines' \in 0 .. Wanted' /\ printed' = IF lines' < Half THEN lines' ELSE lines' - IntRange
  BY <1>0, <1>2, HalfRange
<1>4. LineMeansSecond'
  BY <1>0 DEF BusyInv, LineMeansSecond
<1> QED
  BY <1>0, <1>1, <1>3, <1>4 DEF BusyInv

\* A line.
LEMMA LinePreserves ==
  ASSUME BusyInv, busy_print
  PROVE  BusyInv'
<1> USE DEF BusyInv
<1>0. /\ bpc = "loop" /\ UNCHANGED <<bpc, reps>> /\ printed # reps
      /\ since >= Second /\ since' = 0 /\ real' = 0
      /\ early' = (IF real < Second THEN early + 1 ELSE early) /\ jumps' = jumps
      /\ lines' = IF lines < MaxLines THEN lines + 1 ELSE lines
      /\ printed' = IF reps # -1 THEN Signed(printed + 1, IntRange) ELSE printed
  BY DEF busy_print, LoopOver, SecondOver, NextPrinted
<1>1. Second \in Nat /\ Second > 0
  BY BusyAssumption
<1>2. LineMeansSecond'
  <2>1. real < Second => early < jumps
    BY <1>0, <1>1
  <2> QED
    BY <1>0, <1>1, <2>1 DEF LineMeansSecond
<1>3. reps # -1 =>
        /\ lines' \in 0 .. Wanted
        /\ printed' = IF lines' < Half THEN lines' ELSE lines' - IntRange
  <2> SUFFICES ASSUME reps # -1
               PROVE  /\ lines' \in 0 .. Wanted
                      /\ printed' = IF lines' < Half THEN lines' ELSE lines' - IntRange
    OBVIOUS
  <2>1. /\ lines \in 0 .. Wanted /\ Wanted \in Nat /\ Wanted < IntRange
        /\ printed = IF lines < Half THEN lines ELSE lines - IntRange
    BY HalfRange DEF Wanted
  <2>2. lines < Wanted
    BY <1>0, <2>1, HalfRange DEF Wanted
  <2>3. lines' = lines + 1
    BY <1>0, <2>1, HalfRange
  <2>4. printed \in -Half .. Half - 1
    BY <2>1, HalfRange
  <2>5. printed' = IF printed + 1 < Half THEN printed + 1 ELSE -Half
    BY <1>0, <2>4, NextInt
  <2> QED
    BY <2>1, <2>2, <2>3, <2>5, HalfRange
<1>4. lines' \in Nat
  BY <1>0
<1>5. Wanted' = Wanted
  BY <1>0 DEF Wanted
<1> QED
  BY <1>0, <1>1, <1>2, <1>3, <1>4, <1>5

\* The other steps of the loop, and the clock.
LEMMA BusyStepPreserves ==
  ASSUME BusyInv, BusyLoopStep \/ tick \/ settimeofday
  PROVE  BusyInv'
<1> USE DEF BusyInv
<1>0. Second \in Nat /\ Elapsed \in Nat /\ Elapsed > 0 /\ Second < Elapsed /\ Jumps \subseteq Int
  BY BusyAssumption
<1>1. CASE busy_count \/ busy_check \/ busy_end
  BY <1>1 DEF busy_count, busy_check, busy_end, LoopOver, Wanted, LineMeansSecond
<1>2. CASE tick
  <2>1. /\ UNCHANGED <<bpc, reps, printed, jumps, lines, early>>
        /\ since' = (since + 1) % Elapsed
        /\ real' = IF real < Second THEN real + 1 ELSE real
    BY <1>2 DEF tick
  <2>2. since' \in Int /\ real' \in 0 .. Second
    BY <1>0, <2>1, ModRange
  <2>3. real' < Second => since' = real' \/ early < jumps
    <3> SUFFICES ASSUME ~(early < jumps), real' < Second PROVE since' = real'
      OBVIOUS
    <3>1. since + 1 = real' /\ real' \in Nat /\ real' < Elapsed
      BY <1>0, <2>1, <2>2
    <3>2. real' % Elapsed = real'
      BY <1>0, <3>1, ModSmall
    <3> QED
      BY <2>1, <3>1, <3>2
  <2> QED
    BY <2>1, <2>2, <2>3 DEF Wanted, LineMeansSecond
<1>3. CASE settimeofday
  <2>1. PICK j \in Jumps : since' = (since + j) % Elapsed
    BY <1>3 DEF settimeofday
  <2>2. since' \in Int
    BY <1>0, <2>1, ModRange
  <2> QED
    BY <1>3, <2>2 DEF settimeofday, Wanted, LineMeansSecond
<1> QED
  BY <1>1, <1>2, <1>3, LinePreserves DEF BusyLoopStep
-----------------------------------------------------------------------------
(* The commands together. *)

MiscInv == AffInv /\ BusyInv

\* Every step of the commands, of the kernel and of the clock.
LEMMA MiscInvNext == MiscInv /\ [MiscNext]_miscVars => MiscInv'
<1> SUFFICES ASSUME MiscInv, [MiscNext]_miscVars PROVE MiscInv'
  OBVIOUS
<1> USE DEF MiscInv
<1>1. ASSUME UNCHANGED affVars PROVE AffInv'
  BY <1>1 DEF AffInv, AffTypeOK, Running, Tied, OperandFits, affVars,
              machineVars, procVars
<1>2. ASSUME UNCHANGED busyVars PROVE BusyInv'
  BY <1>2 DEF BusyInv, Wanted, LineMeansSecond, busyVars
<1>3. CASE AffStep /\ UNCHANGED busyVars
  BY <1>2, <1>3, AffStepPreserves
<1>4. CASE start_program
  <2>1. inv.count \in Seq(Int)
    BY DEF AffInv, Invocation
  <2> QED
    BY <1>1, <1>4, <2>1, BusyStartPreserves DEF start_program
<1>5. CASE BusyStep \/ ClockTick \/ (settimeofday /\ UNCHANGED affVars)
  BY <1>1, <1>5, BusyStepPreserves DEF BusyStep, ClockTick
<1>6. CASE UNCHANGED miscVars
  BY <1>1, <1>2, <1>6 DEF miscVars
<1> QED
  BY <1>3, <1>4, <1>5, <1>6 DEF MiscNext

\* The invariant holds in every reachable state.
THEOREM MiscInvariant == MiscSpec => []MiscInv
BY AffInitInv, BusyInitInv, MiscInvNext, PTL DEF MiscSpec, MiscInit, MiscInv

\* The type invariant: a process runs on a CPU it may use, whatever CPUs leave,
\* and no command prints a CPU that the machine does not have.
THEOREM CpuTypes == MiscSpec => []AffTypeOK
<1>1. MiscInv => AffTypeOK
  BY DEF MiscInv, AffInv
<1> QED
  BY <1>1, MiscInvariant, PTL

\* runon and cpuid run on the CPU that was named, with either C library, on any
\* machine and with any hot-plugging that leaves them that CPU.
THEOREM RunsOnNamedCpu == MiscSpec => []RunsWhereNamed
<1>1. MiscInv => RunsWhereNamed
  BY DEF MiscInv, AffInv, RunsWhereNamed, AffTypeOK, Running, Tied
<1> QED
  BY <1>1, MiscInvariant, PTL

\* Lines of busy_loop are a second apart, but for one after each time that the
\* clock was set, for every speed of the machine and every setting.
THEOREM LinesMeanSeconds == MiscSpec => []LineMeansSecond
<1>1. MiscInv => LineMeansSecond
  BY DEF MiscInv, BusyInv
<1> QED
  BY <1>1, MiscInvariant, PTL

\* A negative count ends busy_loop only after the int has wrapped, at
\* exactly the line where it meets the count.
THEOREM NegativeCountsWrap == MiscSpec => []NegativeCountWraps
<1>1. MiscInv => NegativeCountWraps
  <2> SUFFICES ASSUME BusyInv, bpc = "done", reps < 0
               PROVE  reps # -1 /\ lines = IntRange + reps
    BY DEF MiscInv, NegativeCountWraps
  <2>1. printed = reps /\ reps \in Int
    BY HalfRange DEF BusyInv
  <2>2. reps # -1
    BY <2>1 DEF BusyInv
  <2>3. printed = IF lines < Half THEN lines ELSE lines - IntRange
    BY <2>2 DEF BusyInv
  <2>4. lines \in Nat
    BY DEF BusyInv
  <2> QED
    BY <2>1, <2>2, <2>3, <2>4, HalfRange
<1> QED
  BY <1>1, MiscInvariant, PTL
==============================================================================
