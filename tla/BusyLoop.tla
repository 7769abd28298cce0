------------------------------- MODULE BusyLoop -------------------------------
(***************************************************************************)
(* busy_loop of misc.c: count as fast as possible, look at the clock every *)
(* 16384 counts and print a line about once a second, a given number of    *)
(* times or for ever.  The clock runs by itself, and may be set.           *)
(*                                                                         *)
(* The count is kept modulo CheckEvery and the time since t0 modulo the    *)
(* unsigned int that elapsed is: the code can tell no more.                *)
(***************************************************************************)
EXTENDS Integers, Sequences, CNumbers

CONSTANTS
  CheckEvery,   \* 16384
  Second,       \* a second, in units of the clock
  Elapsed,      \* where elapsed, an unsigned int, wraps
  IntRange,     \* where int wraps
  MaxStall,     \* longest time between two looks at the clock
  Jumps,        \* by how much the clock may be set
  MaxJumps,     \* how often
  MaxLines      \* lines that are counted, as many as an int can tell

ASSUME BusyAssumption ==
  /\ CheckEvery \in Nat \ {0} /\ Second \in Nat \ {0} /\ Elapsed \in Nat /\ MaxStall \in Nat \ {0}
  /\ Second + MaxStall <= Elapsed
  /\ IntRange \in Nat \ {0} /\ IntRange % 2 = 0
  /\ Jumps \subseteq Int /\ MaxJumps \in Nat /\ MaxLines \in Nat /\ MaxLines >= IntRange

VARIABLES
  bpc, reps, printed,
  count,        \* modulo CheckEvery
  since,        \* clock time since t0, modulo Elapsed
  real,         \* history: true time since t0, counted up to a second
  jumps,
  stall,        \* time since the clock was looked at
  lines,        \* history: lines printed
  early,        \* history: lines printed before a second had passed
  odd           \* history: the number of lines is odd, counted without end

busyVars == <<bpc, reps, printed, count, since, real, jumps, stall, lines, early, odd>>

\* An operand is the number of lines, atoi() of it; without one, for ever.
busy_loop(operands) ==
  /\ bpc = "idle"
  /\ bpc' = "loop"
  /\ reps' = IF Len(operands) = 1 THEN Signed(operands[1], IntRange) ELSE -1
  /\ UNCHANGED <<printed, count, since, real, jumps, stall, lines, early, odd>>

MutLoopOver == printed >= reps
LoopOver == printed = reps

busy_count ==
  /\ bpc = "loop"
  /\ ~LoopOver
  /\ count + 1 < CheckEvery
  /\ count' = count + 1
  /\ UNCHANGED <<bpc, reps, printed, since, real, jumps, stall, lines, early, odd>>

\* Counted only if there is an end.
MutNextPrinted == printed
NextPrinted == IF reps # -1 THEN Signed(printed + 1, IntRange) ELSE printed

MutSecondOver == since + 1 >= Second
SecondOver == since >= Second

\* A line: t0 starts again.
busy_print ==
  /\ bpc = "loop"
  /\ ~LoopOver
  /\ count + 1 = CheckEvery
  /\ SecondOver
  /\ early' = IF real < Second THEN early + 1 ELSE early
  /\ odd' = ~odd
  /\ lines' = IF lines < MaxLines THEN lines + 1 ELSE lines
  /\ count' = 0 /\ since' = 0 /\ real' = 0 /\ stall' = 0
  /\ printed' = NextPrinted
  /\ UNCHANGED <<bpc, reps, jumps>>

busy_check ==
  /\ bpc = "loop"
  /\ ~LoopOver
  /\ count + 1 = CheckEvery
  /\ ~SecondOver
  /\ count' = 0 /\ stall' = 0
  /\ UNCHANGED <<bpc, reps, printed, since, real, jumps, lines, early, odd>>

busy_end ==
  /\ bpc = "loop"
  /\ LoopOver
  /\ bpc' = "done"
  /\ UNCHANGED <<reps, printed, count, since, real, jumps, stall, lines, early, odd>>

\* The clock.
tick ==
  /\ bpc = "loop"
  /\ stall < MaxStall
  /\ stall' = stall + 1
  /\ since' = (since + 1) % Elapsed
  /\ real' = IF real < Second THEN real + 1 ELSE real
  /\ UNCHANGED <<bpc, reps, printed, count, jumps, lines, early, odd>>

settimeofday ==
  /\ bpc = "loop"
  /\ jumps < MaxJumps
  /\ \E j \in Jumps : since' = (since + j) % Elapsed
  /\ jumps' = jumps + 1
  /\ UNCHANGED <<bpc, reps, printed, count, real, stall, lines, early, odd>>
-----------------------------------------------------------------------------
BusyInit ==
  /\ bpc = "idle"
  /\ reps = 0 /\ printed = 0
  /\ count = 0 /\ since = 0 /\ real = 0 /\ jumps = 0 /\ stall = 0
  /\ lines = 0 /\ early = 0 /\ odd = FALSE

BusyLoopStep == busy_count \/ busy_print \/ busy_check \/ busy_end
-----------------------------------------------------------------------------
(* Properties. *)

\* A line means that a second has passed.  Setting the clock breaks that once:
\* set back by any amount it looks like a long second, because elapsed is
\* unsigned, but t0 is read again after the line, and the next one is true.
LineMeansSecond == early <= jumps

\* A count of zero or more ends after exactly that many lines, whatever the
\* clock does.
CountEnds == (bpc = "loop" /\ reps >= 0) ~> (bpc = "done" /\ lines = reps)

\* Without a count a line follows every line.
EndlessPrints ==
  \A b \in BOOLEAN : (bpc = "loop" /\ reps = -1 /\ odd = b) ~> (odd # b)

\* A negative count other than -1 is met only when printed wraps around.
NegativeCountWraps ==
  bpc = "done" /\ reps < 0 => reps # -1 /\ lines = IntRange + reps
==============================================================================
