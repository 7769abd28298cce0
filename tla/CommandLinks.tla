----------------------------- MODULE CommandLinks -----------------------------
(***************************************************************************)
(* iotools --make-links and --clean-links (commands.c): several processes  *)
(* walk the command list at the same time and create or remove one entry   *)
(* per command in the one directory that holds their binaries.             *)
(*                                                                         *)
(* A directory entry is "absent", a "file", a "dir", or a symbolic link,   *)
(* which is written as the name of the binary it points to.  symlink() and *)
(* unlink() are the kernel's and atomic; either may be refused at any time *)
(* (EACCES, ENOSPC, EROFS...).                                             *)
(***************************************************************************)
EXTENDS Integers, Sequences

CONSTANTS
  Makers,     \* processes started with --make-links
  Cleaners,   \* processes started with --clean-links
  Names,      \* names in the directory
  Order,      \* Order[p]: command names of p's binary, in the order of its list
  bin_name    \* bin_name[p]: the name of p's binary, from /proc/self/exe

Procs == Makers \union Cleaners
Bins == {bin_name[p] : p \in Procs}
Entries == {"absent", "file", "dir"} \union Bins

ASSUME LinksAssumption ==
  /\ Makers \intersect Cleaners = {}
  /\ \A p \in Procs : Order[p] \in Seq(Names)
  /\ {"absent", "file", "dir"} \intersect Bins = {}

\* One name, one command (NamesUnique of Commands.tla).
ASSUME OrderAssumption ==
  \A p \in Procs : \A j, k \in DOMAIN Order[p] : Order[p][j] = Order[p][k] => j = k

VARIABLES
  dir,         \* the directory
  i,           \* i[p]: position of p's loop in Order[p]
  pc,
  rc,
  complained,  \* complained[p]: names p wrote an error message about
  undone       \* undone[p]: names another process changed after p was there

vars == <<dir, i, pc, rc, complained, undone>>

Current(p) == Order[p][i[p]]
Passed(p) == {Order[p][k] : k \in {k \in DOMAIN Order[p] : k < i[p]}}

Init ==
  /\ dir \in [Names -> Entries]
  /\ i = [p \in Procs |-> 1]
  /\ pc = [p \in Procs |-> "start"]
  /\ rc = [p \in Procs |-> 0]
  /\ complained = [p \in Procs |-> {}]
  /\ undone = [p \in Procs |-> {}]

\* readlink("/proc/self/exe") may fail, and then nothing is done.
locate_path_of_binary(p) ==
  /\ pc[p] = "start"
  /\ \/ /\ pc' = [pc EXCEPT ![p] = "loop"]
        /\ UNCHANGED rc
     \/ /\ pc' = [pc EXCEPT ![p] = "exited"]
        /\ rc' = [rc EXCEPT ![p] = -1]
  /\ UNCHANGED <<dir, i, complained, undone>>

\* Both loops visit every command of every group once.
MutAdvanceTwice(p) == i' = [i EXCEPT ![p] = @ + 2]
MutAdvanceNot(p) == UNCHANGED i
Advance(p) == i' = [i EXCEPT ![p] = @ + 1]

\* p changes the entry n to e; whoever was there before finds its work undone.
SetEntry(p, n, e) ==
  /\ dir' = [dir EXCEPT ![n] = e]
  /\ undone' = [q \in Procs |-> IF q # p /\ n \in Passed(q) THEN undone[q] \union {n}
                                                          ELSE undone[q]]
  /\ UNCHANGED complained

MutComplainNot(p, n) == UNCHANGED <<dir, undone, complained>>
Complain(p, n) ==
  /\ complained' = [complained EXCEPT ![p] = @ \union {n}]
  /\ UNCHANGED <<dir, undone>>

\* One turn of the loop: symlink() refuses a name that exists, and the loop
\* goes on.
make_command_links(p) ==
  /\ p \in Makers
  /\ pc[p] = "loop"
  /\ i[p] <= Len(Order[p])
  /\ \/ dir[Current(p)] = "absent" /\ SetEntry(p, Current(p), bin_name[p])
     \/ Complain(p, Current(p))
  /\ Advance(p)
  /\ UNCHANGED <<pc, rc>>

\* One turn of the loop: unlink() takes files and links away, whatever they
\* point to, and refuses directories; a missing name (ENOENT) is no error.
clean_command_links(p) ==
  /\ p \in Cleaners
  /\ pc[p] = "loop"
  /\ i[p] <= Len(Order[p])
  /\ \/ /\ dir[Current(p)] = "absent"
        /\ UNCHANGED <<dir, undone, complained>>
     \/ /\ dir[Current(p)] \notin {"absent", "dir"}
        /\ SetEntry(p, Current(p), "absent")
     \/ /\ dir[Current(p)] # "absent"
        /\ Complain(p, Current(p))
  /\ Advance(p)
  /\ UNCHANGED <<pc, rc>>

\* Both functions return 0 after the loop, whatever failed in it.
LoopEnds(p) ==
  /\ pc[p] = "loop"
  /\ i[p] > Len(Order[p])
  /\ pc' = [pc EXCEPT ![p] = "exited"]
  /\ UNCHANGED <<dir, i, rc, complained, undone>>

Process(p) ==
  \/ locate_path_of_binary(p)
  \/ make_command_links(p)
  \/ clean_command_links(p)
  \/ LoopEnds(p)

Next == \E p \in Procs : Process(p)

\* Every process is scheduled.
Fairness == \A p \in Procs : WF_vars(Process(p))

Spec == Init /\ [][Next]_vars /\ Fairness
-----------------------------------------------------------------------------
\* Types; the cursor of a loop never leaves its list by more than one.
TypeOK ==
  /\ dir \in [Names -> Entries]
  /\ i \in [Procs -> Nat]
  /\ \A p \in Procs : i[p] \in 1 .. Len(Order[p]) + 1
  /\ pc \in [Procs -> {"start", "loop", "exited"}]
  /\ rc \in [Procs -> {-1, 0}]
  /\ complained \in [Procs -> SUBSET Names]
  /\ undone \in [Procs -> SUBSET Names]

\* What a process leaves behind for a name it has dealt with.
Wanted(p, n) == dir[n] = IF p \in Makers THEN bin_name[p] ELSE "absent"

\* When --make-links or --clean-links has returned 0, every command of the
\* binary has its own link, or no entry at all, unless an error message named
\* it or another process changed it since: failures of one name never cost
\* another name, and no interleaving of makers and cleaners loses an entry
\* silently.
WorkStands ==
  \A p \in Procs :
    pc[p] = "exited" /\ rc[p] = 0 =>
      \A k \in DOMAIN Order[p] :
        Order[p][k] \notin complained[p] \union undone[p] => Wanted(p, Order[p][k])

\* Every process ends, however the others interfere.
AllExit == <>(\A p \in Procs : pc[p] = "exited")

\* --clean-links removes links only: a program of another package that has
\* the name of a command stays.
CleanRemovesOnlyLinks ==
  [][\A n \in Names : dir[n] = "file" => dir'[n] = "file"]_vars
==============================================================================
