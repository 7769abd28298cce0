------------------------------ MODULE MiscTools ------------------------------
(***************************************************************************)
(* The misc commands composed: runon N iotools busy_loop [count], and the  *)
(* others alone.  The program that runon starts inherits the affinity, and *)
(* CPUs come and go while it counts.                                       *)
(***************************************************************************)
EXTENDS Affinity, BusyLoop

miscVars == <<affVars, busyVars>>

\* The program that runon has started begins.
start_program ==
  /\ apc = "program"
  /\ inv.entry = "runon"
  /\ busy_loop(inv.count)
  /\ UNCHANGED affVars

BusyStep == BusyLoopStep /\ UNCHANGED affVars
ClockTick == tick /\ UNCHANGED affVars

MiscInit == AffInit /\ BusyInit

MiscNext ==
  \/ AffStep /\ UNCHANGED busyVars
  \/ start_program
  \/ BusyStep
  \/ ClockTick
  \/ settimeofday /\ UNCHANGED affVars

\* The kernel schedules the loop on whatever CPU it may use, and time passes.
MiscSpec ==
  MiscInit /\ [][MiscNext]_miscVars /\ WF_miscVars(BusyStep) /\ WF_miscVars(ClockTick)
==============================================================================
