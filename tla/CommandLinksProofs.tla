-------------------------- MODULE CommandLinksProofs --------------------------
(***************************************************************************)
(* Proofs about CommandLinks.tla for every number of processes, every      *)
(* directory and every list of commands.                                   *)
(***************************************************************************)
EXTENDS CommandLinks, TLAPS

\* What p left behind so far stands, in the middle of its loop already, and a
\* process that returned 0 has been through its whole list.
Standing(p) ==
  /\ \A k \in DOMAIN Order[p] :
       k < i[p] /\ Order[p][k] \notin complained[p] \union undone[p]
         => Wanted(p, Order[p][k])
  /\ pc[p] = "exited" /\ rc[p] = 0 => i[p] > Len(Order[p])

\* The inductive invariant.
IInv == TypeOK /\ \A p \in Procs : Standing(p)

\* The list of a binary is a sequence of names.
LEMMA OrderTyped ==
  ASSUME NEW p \in Procs
  PROVE  /\ Len(Order[p]) \in Nat
         /\ DOMAIN Order[p] = 1 .. Len(Order[p])
         /\ \A k \in DOMAIN Order[p] : Order[p][k] \in Names
BY LinksAssumption

\* The initial states satisfy the invariant.
LEMMA InitEstablishes == Init => IInv
<1> SUFFICES ASSUME Init PROVE IInv
  OBVIOUS
<1>1. TypeOK
  BY OrderTyped DEF Init, TypeOK
<1>2. ASSUME NEW p \in Procs PROVE Standing(p)
  BY OrderTyped DEF Init, Standing
<1> QED
  BY <1>1, <1>2 DEF IInv

\* A turn of p's loop that leaves p's own name n as wanted, or complains, or
\* finds it as wanted, keeps everybody's work standing.
LEMMA TurnPreserves ==
  ASSUME IInv, NEW p \in Procs, pc[p] = "loop", i[p] <= Len(Order[p]),
         Advance(p), UNCHANGED <<pc, rc>>,
         \/ Complain(p, Current(p))
         \/ Wanted(p, Current(p)) /\ UNCHANGED <<dir, undone, complained>>
         \/ SetEntry(p, Current(p), IF p \in Makers THEN bin_name[p] ELSE "absent")
  PROVE  IInv'
<1> USE DEF IInv
<1>0. i[p] \in DOMAIN Order[p] /\ Current(p) \in Names
  BY OrderTyped DEF TypeOK, Current
<1>1. TypeOK'
  <2>1. i' \in [Procs -> Nat] /\ \A q \in Procs : i'[q] \in 1 .. Len(Order[q]) + 1
    BY OrderTyped DEF TypeOK, Advance
  <2>2. dir' \in [Names -> Entries]
    BY <1>0 DEF TypeOK, Complain, SetEntry, Entries, Bins
  <2>3. complained' \in [Procs -> SUBSET Names]
    <3>1. CASE Complain(p, Current(p))
      <4>1. complained' = [complained EXCEPT ![p] = complained[p] \union {Current(p)}]
        BY <3>1 DEF Complain
      <4>2. complained \in [Procs -> SUBSET Names] /\ complained[p] \in SUBSET Names
        BY DEF TypeOK
      <4>3. complained[p] \union {Current(p)} \in SUBSET Names
        BY <1>0, <4>2
      <4> QED
        BY <4>1, <4>2, <4>3
    <3>2. CASE UNCHANGED complained
      BY <3>2 DEF TypeOK
    <3> QED
      BY <3>1, <3>2 DEF SetEntry
  <2>4. undone' \in [Procs -> SUBSET Names]
    BY <1>0 DEF TypeOK, Complain, SetEntry
  <2> QED
    BY <2>1, <2>2, <2>3, <2>4 DEF TypeOK
<1>2. ASSUME NEW q \in Procs PROVE Standing(q)'
  <2>1. (pc[q] = "exited" /\ rc[q] = 0 => i[q] > Len(Order[q]))'
    BY OrderTyped DEF Standing, Advance, TypeOK
  <2>2. ASSUME NEW k \in DOMAIN Order[q], k < i'[q],
               Order[q][k] \notin complained'[q] \union undone'[q]
        PROVE  Wanted(q, Order[q][k])'
    <3> DEFINE n == Order[q][k]
    <3>0. n \in Names
      BY OrderTyped
    <3>1. CASE q = p /\ k = i[p]
      BY <1>0, <2>2, <3>0, <3>1 DEF Complain, SetEntry, Wanted, Current, TypeOK
    <3>2. CASE q = p /\ k # i[p]
      <4>1. k < i[p] /\ n # Current(p)
        BY <1>0, <2>2, <3>2, OrderTyped, OrderAssumption DEF Advance, TypeOK, Current
      <4>2. n \notin complained[p] \union undone[p]
        BY <2>2, <3>2, <1>0 DEF Complain, SetEntry, TypeOK
      <4>3. Wanted(p, n)
        BY <3>2, <4>1, <4>2 DEF Standing
      <4> QED
        BY <1>0, <3>0, <3>2, <4>1, <4>3 DEF Wanted, Complain, SetEntry, TypeOK
    <3>3. CASE q # p
      <4>1. k < i[q] /\ n \in Passed(q)
        BY <2>2, <3>3, OrderTyped DEF Advance, TypeOK, Passed
      <4>2. n \notin complained[q] \union undone[q]
        <5>1. complained[q] \subseteq complained'[q]
          BY <3>3 DEF Complain, SetEntry, TypeOK
        <5>2. undone[q] \subseteq undone'[q]
          BY <3>3 DEF Complain, SetEntry, TypeOK
        <5> QED
          BY <2>2, <5>1, <5>2
      <4>3. Wanted(q, n)
        BY <4>1, <4>2 DEF Standing
      <4>4. dir'[n] = dir[n]
        BY <1>0, <2>2, <3>0, <3>3, <4>1 DEF Complain, SetEntry, TypeOK
      <4> QED
        BY <4>3, <4>4 DEF Wanted
    <3> QED
      BY <3>1, <3>2, <3>3
  <2> QED
    BY <2>1, <2>2 DEF Standing
<1> QED
  BY <1>1, <1>2

\* Every step of every process preserves the invariant.
LEMMA StepPreserves == IInv /\ [Next]_vars => IInv'
<1> SUFFICES ASSUME IInv, [Next]_vars PROVE IInv'
  OBVIOUS
<1>1. ASSUME NEW p \in Procs, locate_path_of_binary(p) PROVE IInv'
  <2>1. TypeOK'
    BY <1>1 DEF IInv, TypeOK, locate_path_of_binary
  <2>2. ASSUME NEW q \in Procs PROVE Standing(q)'
    BY <1>1 DEF IInv, TypeOK, Standing, Wanted, locate_path_of_binary
  <2> QED
    BY <2>1, <2>2 DEF IInv
<1>2. ASSUME NEW p \in Procs, make_command_links(p) PROVE IInv'
  BY <1>2, TurnPreserves DEF make_command_links
<1>3. ASSUME NEW p \in Procs, clean_command_links(p) PROVE IInv'
  <2>1. p \notin Makers
    BY <1>3, LinksAssumption DEF clean_command_links
  <2> QED
    BY <1>3, <2>1, TurnPreserves DEF clean_command_links, Wanted
<1>4. ASSUME NEW p \in Procs, LoopEnds(p) PROVE IInv'
  <2>1. TypeOK'
    BY <1>4 DEF IInv, TypeOK, LoopEnds
  <2>2. ASSUME NEW q \in Procs PROVE Standing(q)'
    BY <1>4 DEF IInv, TypeOK, Standing, Wanted, LoopEnds
  <2> QED
    BY <2>1, <2>2 DEF IInv
<1>5. CASE UNCHANGED vars
  BY <1>5 DEF IInv, TypeOK, Standing, Wanted, vars
<1> QED
  BY <1>1, <1>2, <1>3, <1>4, <1>5 DEF Next, Process

\* The type invariant: whatever order the processes run in, each index stays in
\* the process's list of names.
THEOREM Types == Spec => []TypeOK
<1>1. IInv => TypeOK
  BY DEF IInv
<1> QED
  BY <1>1, InitEstablishes, StepPreserves, PTL DEF Spec

\* However many processes make and clean links at once, a name that a
\* process dealt with is as that process wanted it, unless the process
\* complained about the name or another process changed it later.
THEOREM LinksStand == Spec => []WorkStands
<1>1. IInv => WorkStands
  <2> SUFFICES ASSUME IInv, NEW p \in Procs, pc[p] = "exited", rc[p] = 0,
                      NEW k \in DOMAIN Order[p],
                      Order[p][k] \notin complained[p] \union undone[p]
               PROVE  Wanted(p, Order[p][k])
    BY DEF WorkStands
  <2>1. k < i[p]
    BY OrderTyped DEF IInv, TypeOK, Standing
  <2> QED
    BY <2>1 DEF IInv, Standing
<1> QED
  BY <1>1, InitEstablishes, StepPreserves, PTL DEF Spec
==============================================================================
