--------------------------- MODULE CommandsProofs ---------------------------
(***************************************************************************)
(* Proofs about Commands.tla, for every set of groups with unique names,   *)
(* every link order and every command line.                                *)
(***************************************************************************)
EXTENDS Commands, TLAPS, WellFoundedInduction

\* A non-empty set of natural numbers has a least element, which First picks.
LEMMA FirstIsLeast ==
  ASSUME NEW S \in SUBSET Nat, S # {}
  PROVE  First(S) \in S /\ \A y \in S : First(S) <= y
<1>1. PICK x \in S : \A y \in S : <<y, x>> \notin OpToRel(<, Nat)
  BY NatLessThanWellFounded, WFMin, Zenon
<1>2. \A y \in S : ~ (y < x)
  BY <1>1, Zenon DEF OpToRel
<1>3. \A y \in S : x <= y
  BY <1>2
<1> QED
  BY <1>3 DEF First

\* A search that meets a matching group returns a command of that name.
LEMMA LocateFinds ==
  ASSUME NEW list \in Seq(Groups), NEW word, GroupHits(list, word) # {}
  PROVE  locate_command(list, word) \in Abstract!Named(word)
<1> DEFINE hits == GroupHits(list, word)
           g == list[First(hits)]
           in_g == CmdHits(g, word)
<1>1. hits \in SUBSET Nat /\ hits # {}
  BY DEF GroupHits
<1>2. First(hits) \in hits
  <2> HIDE DEF hits
  <2> QED BY <1>1, FirstIsLeast
<1>3. g \in Groups /\ \E c \in CmdsOf(g) : <<c.name>> = word
  BY <1>2 DEF GroupHits
<1>4. DOMAIN commands[g] \subseteq Nat
  BY <1>3, TableAssumption
<1>5. in_g # {} /\ in_g \in SUBSET Nat
  BY <1>3, <1>4 DEF CmdHits, CmdsOf
<1>6. First(in_g) \in in_g
  <2> HIDE DEF in_g
  <2> QED BY <1>5, FirstIsLeast
<1>7. /\ commands[g][First(in_g)] \in CmdsOf(g)
      /\ <<commands[g][First(in_g)].name>> = word
  BY <1>6 DEF CmdHits, CmdsOf
<1>8. locate_command(list, word) = commands[g][First(in_g)]
  BY DEF locate_command
<1> QED
  BY <1>3, <1>7, <1>8 DEF Abstract!Named, Cmds

\* locate_command() returns NULL or a command that has the name searched for.
LEMMA LocateSound ==
  ASSUME NEW list \in Seq(Groups), NEW word, locate_command(list, word) # NULL
  PROVE  locate_command(list, word) \in Abstract!Named(word)
<1>1. GroupHits(list, word) # {}
  BY DEF locate_command
<1> QED
  BY <1>1, LocateFinds

\* A name has at most one command.
LEMMA AtMostOneNamed ==
  ASSUME NEW word, NEW c \in Abstract!Named(word), NEW d \in Abstract!Named(word)
  PROVE  c = d
<1>1. PICK g \in Groups : c \in CmdsOf(g) /\ <<c.name>> = word
  BY DEF Abstract!Named, Cmds
<1>2. PICK h \in Groups : d \in CmdsOf(h) /\ <<d.name>> = word
  BY DEF Abstract!Named, Cmds
<1>3. PICK i \in DOMAIN commands[g] : c = commands[g][i]
  BY <1>1 DEF CmdsOf
<1>4. PICK j \in DOMAIN commands[h] : d = commands[h][j]
  BY <1>2 DEF CmdsOf
<1>5. c.name = d.name
  BY <1>1, <1>2
<1> QED
  BY <1>3, <1>4, <1>5, NamesUnique

Holds(list) == \A g \in Groups : \E k \in DOMAIN list : list[k] = g

\* On a list that holds every group the search is complete.
LEMMA LocateComplete ==
  ASSUME NEW list \in Seq(Groups), Holds(list), NEW word,
         locate_command(list, word) = NULL
  PROVE  Abstract!Named(word) = {}
<1>1. SUFFICES ASSUME NEW c \in Abstract!Named(word) PROVE FALSE
  OBVIOUS
<1>2. PICK g \in Groups : c \in CmdsOf(g) /\ <<c.name>> = word
  BY DEF Abstract!Named, Cmds
<1>3. PICK k \in DOMAIN list : list[k] = g
  BY DEF Holds
<1>4. GroupHits(list, word) # {}
  BY <1>2, <1>3 DEF GroupHits
<1> QED
  BY <1>4, LocateFinds, TableAssumption DEF Abstract!Named
-----------------------------------------------------------------------------
(***************************************************************************)
(* The inductive invariant: the list and the constructors still to run     *)
(* hold every group between them; what was found is what the line names;   *)
(* and the values on their way to main() are those the effect allows.      *)
(***************************************************************************)

Registered ==
  \A g \in Groups : \/ \E k \in DOMAIN objs : objs[k] = g
                    \/ \E k \in DOMAIN group_head : group_head[k] = g

\* cmd_info is the command that the line names, and argv starts at its name.
Resolved ==
  \/ /\ cmd_info \in Abstract!ByOperand(line)
     /\ skip = 1
  \/ /\ Abstract!ByOperand(line) = {}
     /\ cmd_info \in Abstract!ByLink(line)
     /\ skip = 0

ControlOK ==
  /\ pc \in {"ctors", "fallback"} => skip = 0
  /\ pc \in {"prereqs", "entry", "handler"} => Resolved
  /\ pc = "fallback" => Abstract!ByOperand(line) = {} /\ Abstract!ByLink(line) = {}
  /\ pc = "entry" => ArgsOk

EffectOK ==
  /\ pc \in {"ctors", "prereqs", "entry", "fallback"} => effect = Nothing
  /\ pc = "handler" => effect.what = "run"
  /\ pc = "exit" =>
       /\ effect.what # "nothing"
       /\ (IF rc < 0 THEN "EXIT_FAILURE" ELSE "EXIT_SUCCESS") \in Abstract!Verdicts(effect)
  /\ pc \notin {"exited"} => status = "running"

IInv == TypeOK /\ Registered /\ ControlOK /\ EffectOK

\* Once the constructors have run, the two searches of run_command() find
\* what the line names, and nothing only if it names nothing.
LEMMA SearchResolves ==
  ASSUME TypeOK, Registered, skip = 0, objs = <<>>
  PROVE  /\ ByOperand # NULL => /\ ByOperand \in Abstract!ByOperand(line)
                                /\ Len(line) > 1
         /\ ByOperand = NULL => Abstract!ByOperand(line) = {}
         /\ ByLink # NULL => ByLink \in Abstract!ByLink(line)
         /\ ByLink = NULL => Abstract!ByLink(line) = {}
<1>1. group_head \in Seq(Groups) /\ Holds(group_head)
  BY DEF TypeOK, Registered, Holds
<1>2. Len(line) \in Nat /\ argc = Len(line)
  BY LineAssumption DEF TypeOK, argc
<1>3. ByOperand # NULL => /\ ByOperand \in Abstract!ByOperand(line)
                          /\ Len(line) > 1
  BY <1>1, <1>2, LocateSound DEF ByOperand, Abstract!ByOperand
<1>4. ByOperand = NULL => Abstract!ByOperand(line) = {}
  BY <1>1, <1>2, LocateComplete DEF ByOperand, Abstract!ByOperand
<1>5. ByLink # NULL => ByLink \in Abstract!ByLink(line)
  BY <1>1, LocateSound DEF ByLink, Abstract!ByLink, Basename
<1>6. ByLink = NULL => Abstract!ByLink(line) = {}
  BY <1>1, LocateComplete DEF ByLink, Abstract!ByLink, Basename
<1> QED
  BY <1>3, <1>4, <1>5, <1>6

\* What a line names is a command.
LEMMA ResolvedIsCommand ==
  ASSUME Resolved
  PROVE  cmd_info \in Cmds
BY DEF Resolved, Abstract!ByOperand, Abstract!ByLink, Abstract!Named

\* The initial states satisfy the invariant.
LEMMA InitEstablishes == Init => IInv
<1> SUFFICES ASSUME Init PROVE IInv
  OBVIOUS
<1>1. /\ objs \in Seq(Groups)
      /\ \A g \in Groups : \E k \in DOMAIN objs : objs[k] = g
  BY LinkOrderAssumption DEF Init
<1>2. line \in Lines /\ Len(line) \in Nat /\ Len(line) > 0
  BY LineAssumption DEF Init
<1>3. TypeOK
  BY <1>1, <1>2 DEF Init, TypeOK, PCs
<1>4. Registered
  BY <1>1 DEF Registered
<1>5. ControlOK /\ EffectOK
  BY DEF Init, ControlOK, EffectOK
<1> QED
  BY <1>3, <1>4, <1>5 DEF IInv

\* Every step of the process preserves the invariant.
LEMMA StepPreserves == IInv /\ [Next]_vars => IInv'
<1> SUFFICES ASSUME IInv, [Next]_vars PROVE IInv'
  OBVIOUS
<1> USE DEF IInv
<1>0. Len(line) \in Nat /\ Len(line) > 0
  BY LineAssumption DEF TypeOK
<1>1. CASE register_command_group
  <2>1. Head(objs) \in Groups /\ Tail(objs) \in Seq(Groups)
    BY <1>1 DEF register_command_group, TypeOK
  <2>2. TypeOK'
    BY <1>1, <2>1 DEF register_command_group, TypeOK
  <2>3. Registered'
    <3> SUFFICES ASSUME NEW g \in Groups
                 PROVE  \/ \E k \in DOMAIN objs' : objs'[k] = g
                        \/ \E k \in DOMAIN group_head' : group_head'[k] = g
      BY DEF Registered
    <3>1. CASE \E k \in DOMAIN objs : objs[k] = g
      <4>1. PICK k \in DOMAIN objs : objs[k] = g
        BY <3>1
      <4>2. CASE k = 1
        BY <1>1, <4>1, <4>2 DEF register_command_group, TypeOK
      <4>3. CASE k # 1
        <5>1. k - 1 \in DOMAIN Tail(objs) /\ Tail(objs)[k - 1] = g
          BY <1>1, <4>1, <4>3 DEF register_command_group, TypeOK
        <5> QED
          BY <1>1, <5>1 DEF register_command_group
      <4> QED
        BY <4>2, <4>3
    <3>2. CASE \E k \in DOMAIN group_head : group_head[k] = g
      <4>1. PICK k \in DOMAIN group_head : group_head[k] = g
        BY <3>2
      <4>2. k + 1 \in DOMAIN group_head' /\ group_head'[k + 1] = g
        BY <1>1, <2>1, <4>1 DEF register_command_group, TypeOK
      <4> QED
        BY <4>2
    <3> QED
      BY <3>1, <3>2 DEF Registered
  <2>4. ControlOK' /\ EffectOK'
    BY <1>1 DEF register_command_group, ControlOK, EffectOK
  <2> QED
    BY <2>2, <2>3, <2>4
<1>2. CASE run_command
  <2>1. pc = "ctors" /\ objs = <<>> /\ skip = 0
    BY <1>2 DEF run_command, ControlOK
  <2>2. Registered'
    BY <1>2 DEF run_command, Registered
  <2>3. EffectOK'
    BY <1>2 DEF run_command, EffectOK
  <2>4. TypeOK' /\ ControlOK'
    <3>1. CASE ByOperand # NULL
      <4>1. /\ cmd_info' = ByOperand /\ skip' = 1 /\ pc' = "prereqs"
            /\ line' = line
        BY <1>2, <3>1 DEF run_command, OperandShift
      <4>2. cmd_info' \in Abstract!ByOperand(line) /\ Len(line) > 1
        BY <2>1, <3>1, <4>1, SearchResolves
      <4>3. Resolved'
        BY <4>1, <4>2 DEF Resolved, Abstract!ByOperand, Abstract!Named
      <4>4. cmd_info' \in Cmds
        BY <4>2 DEF Abstract!ByOperand, Abstract!Named
      <4> QED
        BY <1>0, <1>2, <4>1, <4>2, <4>3, <4>4 DEF run_command, TypeOK, ControlOK, PCs
    <3>2. CASE ByOperand = NULL /\ ByLink # NULL
      <4>1. /\ cmd_info' = ByLink /\ skip' = 0 /\ pc' = "prereqs"
            /\ line' = line
        BY <1>2, <3>2 DEF run_command
      <4>2. cmd_info' \in Abstract!ByLink(line) /\ Abstract!ByOperand(line) = {}
        BY <2>1, <3>2, <4>1, SearchResolves
      <4>3. Resolved'
        BY <4>1, <4>2 DEF Resolved, Abstract!ByLink, Abstract!ByOperand, Abstract!Named
      <4>4. cmd_info' \in Cmds
        BY <4>2 DEF Abstract!ByLink, Abstract!Named
      <4> QED
        BY <1>0, <1>2, <4>1, <4>3, <4>4 DEF run_command, TypeOK, ControlOK, PCs
    <3>3. CASE ByOperand = NULL /\ ByLink = NULL
      <4>1. pc' = "fallback" /\ UNCHANGED <<cmd_info, skip, line>>
        BY <1>2, <3>3 DEF run_command
      <4>2. Abstract!ByOperand(line) = {} /\ Abstract!ByLink(line) = {}
        BY <2>1, <3>3, SearchResolves
      <4>3. (Abstract!ByOperand(line) = {} /\ Abstract!ByLink(line) = {})'
        BY <4>1, <4>2 DEF Abstract!ByLink, Abstract!ByOperand, Abstract!Named
      <4> QED
        BY <1>0, <1>2, <2>1, <4>1, <4>3 DEF run_command, TypeOK, ControlOK, PCs
    <3> QED
      BY <3>1, <3>2, <3>3
  <2> QED
    BY <2>2, <2>3, <2>4
<1>3. CASE check_prereqs
  <2>1. Registered'
    BY <1>3 DEF check_prereqs, Registered
  <2>2. TypeOK'
    BY <1>3 DEF check_prereqs, TypeOK, PCs
  <2>3. ControlOK'
    BY <1>3 DEF check_prereqs, ControlOK, Resolved, ArgsOk, argc,
                Abstract!ByOperand, Abstract!ByLink, Abstract!Named
  <2>4. EffectOK'
    BY <1>3 DEF check_prereqs, EffectOK, Effect, Abstract!Verdicts
  <2> QED
    BY <2>1, <2>2, <2>3, <2>4
<1>4. CASE entry
  <2>1. Registered'
    BY <1>4 DEF entry, Registered
  <2>2. TypeOK'
    BY <1>4 DEF entry, TypeOK, PCs
  <2>3. ControlOK'
    BY <1>4 DEF entry, ControlOK, Resolved,
                Abstract!ByOperand, Abstract!ByLink, Abstract!Named
  <2>4. EffectOK'
    BY <1>4 DEF entry, EffectOK, Effect
  <2> QED
    BY <2>1, <2>2, <2>3, <2>4
<1>5. CASE entry_returns
  <2>1. Registered'
    BY <1>5 DEF entry_returns, Registered
  <2>2. cmd_info \in Cmds
    BY <1>5, ResolvedIsCommand DEF entry_returns, ControlOK
  <2>3. TypeOK'
    BY <1>5, <2>2, TableAssumption DEF entry_returns, TypeOK, PCs
  <2>4. ControlOK'
    BY <1>5 DEF entry_returns, ControlOK
  <2>5. EffectOK'
    BY <1>5 DEF entry_returns, EffectOK, Abstract!Verdicts
  <2> QED
    BY <2>1, <2>3, <2>4, <2>5
<1>6. CASE iotools_fallback
  <2>1. Registered'
    BY <1>6 DEF iotools_fallback, Registered
  <2>2. TypeOK'
    BY <1>6 DEF iotools_fallback, Fallback, TypeOK, PCs
  <2>3. ControlOK'
    BY <1>6 DEF iotools_fallback, Fallback, ControlOK
  <2>4. EffectOK'
    BY <1>6 DEF iotools_fallback, Fallback, Effect, EffectOK, Abstract!Verdicts
  <2> QED
    BY <2>1, <2>2, <2>3, <2>4
<1>7. CASE main
  <2>1. Registered'
    BY <1>7 DEF main, Registered
  <2>2. TypeOK' /\ ControlOK' /\ EffectOK'
    BY <1>7 DEF main, TypeOK, PCs, ControlOK, EffectOK
  <2> QED
    BY <2>1, <2>2
<1>8. CASE UNCHANGED vars
  <2>1. TypeOK' /\ Registered'
    BY <1>8 DEF vars, TypeOK, Registered
  <2>2. ControlOK'
    BY <1>8 DEF vars, ControlOK, Resolved, ArgsOk, argc,
                Abstract!ByOperand, Abstract!ByLink, Abstract!Named
  <2>3. EffectOK'
    BY <1>8 DEF vars, EffectOK, Nothing, Effect, Abstract!Verdicts
  <2> QED
    BY <2>1, <2>2, <2>3
<1> QED
  BY <1>1, <1>2, <1>3, <1>4, <1>5, <1>6, <1>7, <1>8 DEF Next
-----------------------------------------------------------------------------
(* The theorems. *)

\* The invariant holds in every reachable state.
THEOREM Invariance == Spec => []IInv
<1> QED
  BY InitEstablishes, StepPreserves, PTL DEF Spec

\* Type correctness: the list stays a list of groups, argv is never advanced
\* past its end, and main() sees only -1, 0 or 1.
THEOREM TypeCorrect == Spec => []TypeOK
<1>1. IInv => TypeOK
  BY DEF IInv
<1> QED
  BY <1>1, Invariance, PTL

\* For every set of groups with unique names and in every link order, each
\* command that --list-cmds prints is the one that its name runs.
THEOREM NoShadowing == Spec => []NoCommandShadowed
<1>1. ASSUME IInv, objs = <<>> PROVE NoCommandShadowed
  <2> DEFINE listed == list_commands(group_head)
  <2>1. group_head \in Seq(Groups) /\ Holds(group_head)
    BY <1>1 DEF IInv, TypeOK, Registered, Holds
  <2>2. \A g \in Groups : \E k \in DOMAIN listed : listed[k] = commands[g]
    BY <2>1 DEF Holds, list_commands
  <2>3. ASSUME NEW k \in DOMAIN listed, NEW i \in DOMAIN listed[k]
        PROVE  locate_command(group_head, <<listed[k][i].name>>) = listed[k][i]
    <3> DEFINE word == <<listed[k][i].name>>
    <3>1. listed[k][i] \in Abstract!Named(word)
      BY <2>1, <2>3 DEF list_commands, Abstract!Named, Cmds, CmdsOf
    <3>2. locate_command(group_head, word) # NULL
      BY <2>1, <3>1, LocateComplete
    <3>3. locate_command(group_head, word) \in Abstract!Named(word)
      BY <2>1, <3>2, LocateSound
    <3> QED
      BY <3>1, <3>3, AtMostOneNamed
  <2> QED
    BY <2>2, <2>3 DEF NoCommandShadowed
<1>2. IInv => NoCommandShadowed
  BY <1>1 DEF NoCommandShadowed
<1> QED
  BY <1>2, Invariance, PTL

\* What the process may do once cmd_info is resolved is what the abstract
\* specification promises for the line.
LEMMA ResolvedServes ==
  ASSUME TypeOK, Resolved,
         NEW e \in Abstract!Serves(cmd_info, argv)
  PROVE  e \in Abstract!Promise(line)
<1>0. line \in Seq(Seq(STRING)) /\ Len(line) > 0
  BY LineAssumption DEF TypeOK
<1>1. CASE cmd_info \in Abstract!ByOperand(line) /\ skip = 1
  <2>1. argv = Tail(line)
    BY <1>0, <1>1 DEF argv
  <2> QED
    BY <1>1, <2>1 DEF Abstract!Promise
<1>2. CASE /\ Abstract!ByOperand(line) = {} /\ skip = 0
           /\ cmd_info \in Abstract!ByLink(line)
  <2>1. argv = line
    BY <1>0, <1>2 DEF argv
  <2> QED
    BY <1>2, <2>1 DEF Abstract!Promise
<1> QED
  BY <1>1, <1>2 DEF Resolved

\* argc is the length of argv.
LEMMA ArgcIsLength ==
  ASSUME TypeOK
  PROVE  Len(argv) = argc /\ argc \in Nat
<1>1. line \in Seq(Seq(STRING)) /\ skip \in 0 .. Len(line) - 1
  BY LineAssumption DEF TypeOK
<1> QED
  BY <1>1 DEF argv, argc

\* Every step of the process is a step of the multi-call binary, or none.
LEMMA StepSimulates == IInv /\ [Next]_vars => [Abstract!Next]_(Abstract!vars)
<1> SUFFICES ASSUME IInv, [Next]_vars PROVE [Abstract!Next]_(Abstract!vars)
  OBVIOUS
<1> USE DEF IInv
<1>1. CASE register_command_group
  BY <1>1 DEF register_command_group, Abstract!vars
<1>2. CASE run_command
  BY <1>2 DEF run_command, Abstract!vars
<1>3. CASE check_prereqs
  <2>1. Resolved /\ effect = Nothing /\ UNCHANGED <<line, status>>
    BY <1>3 DEF check_prereqs, ControlOK, EffectOK
  <2>2. CASE effect' = effect
    BY <2>1, <2>2 DEF Abstract!vars
  <2>3. CASE ~ArgsOk /\ effect' = Effect("refused", cmd_info, argv)
    <3>1. effect' \in Abstract!Serves(cmd_info, argv)
      BY <2>3, ArgcIsLength
         DEF ArgsOk, Abstract!Serves, Abstract!Accepts, Abstract!Effect, Effect
    <3> QED
      BY <2>1, <3>1, ResolvedServes
         DEF Abstract!Next, Abstract!Serve, Abstract!Nothing, Nothing, Effect, Abstract!Effect
  <2>4. CASE /\ ArgsOk /\ IoplNeeded # {}
             /\ effect' = Effect("denied", cmd_info, argv)
    <3>1. effect' \in Abstract!Serves(cmd_info, argv)
      BY <2>4, ArgcIsLength
         DEF ArgsOk, IoplNeeded, Abstract!Serves, Abstract!Accepts, Abstract!Effect, Effect
    <3> QED
      BY <2>1, <3>1, ResolvedServes
         DEF Abstract!Next, Abstract!Serve, Abstract!Nothing, Nothing, Effect, Abstract!Effect
  <2> QED
    BY <1>3, <2>2, <2>3, <2>4 DEF check_prereqs
<1>4. CASE entry
  <2>1. /\ Resolved /\ ArgsOk /\ effect = Nothing /\ UNCHANGED <<line, status>>
        /\ effect' = Effect("run", cmd_info, argv)
    BY <1>4 DEF entry, ControlOK, EffectOK
  <2>2. effect' \in Abstract!Serves(cmd_info, argv)
    BY <2>1, ArgcIsLength
       DEF ArgsOk, Abstract!Serves, Abstract!Accepts, Abstract!Effect, Effect
  <2> QED
    BY <2>1, <2>2, ResolvedServes
       DEF Abstract!Next, Abstract!Serve, Abstract!Nothing, Nothing, Effect, Abstract!Effect
<1>5. CASE entry_returns
  BY <1>5 DEF entry_returns, Abstract!vars
<1>6. CASE iotools_fallback
  <2>1. /\ effect = Nothing /\ UNCHANGED <<line, status>> /\ skip = 0
        /\ Abstract!ByOperand(line) = {} /\ Abstract!ByLink(line) = {}
    BY <1>6 DEF iotools_fallback, EffectOK, ControlOK
  <2>2. argv = line /\ argc = Len(line) /\ Len(line) \in Nat
    BY <2>1, LineAssumption DEF TypeOK, argv, argc
  <2>3. effect' = Effect(Abstract!OptionEffect(line), NULL, line)
    <3> DEFINE w == line[2]
    <3>1. CASE Len(line) # 2
      BY <1>6, <2>2, <3>1 DEF iotools_fallback, Fallback, Abstract!OptionEffect
    <3>2. CASE Len(line) = 2 /\ w \notin Options
      BY <1>6, <2>2, <3>2 DEF iotools_fallback, Fallback, Options, Abstract!OptionEffect
    <3>3. CASE Len(line) = 2 /\ w = <<"--help">>
      BY <1>6, <2>2, <3>3 DEF iotools_fallback, Fallback, Options, Abstract!OptionEffect
    <3>4. CASE Len(line) = 2 /\ w = <<"--make-links">>
      BY <1>6, <2>2, <3>4 DEF iotools_fallback, Fallback, Options, Abstract!OptionEffect
    <3>5. CASE Len(line) = 2 /\ w = <<"--clean-links">>
      BY <1>6, <2>2, <3>5 DEF iotools_fallback, Fallback, Options, Abstract!OptionEffect
    <3>6. CASE Len(line) = 2 /\ w = <<"--list-cmds">>
      BY <1>6, <2>2, <3>6 DEF iotools_fallback, Fallback, Options, Abstract!OptionEffect
    <3>7. CASE Len(line) = 2 /\ w \in {<<"-v">>, <<"--version">>}
      BY <1>6, <2>2, <3>7 DEF iotools_fallback, Fallback, Options, Abstract!OptionEffect
    <3> QED
      BY <3>1, <3>2, <3>3, <3>4, <3>5, <3>6, <3>7 DEF Options
  <2>4. effect' \in Abstract!Promise(line)
    BY <2>1, <2>3 DEF Abstract!Promise, Abstract!Effect, Effect
  <2> QED
    BY <2>1, <2>4 DEF Abstract!Next, Abstract!Serve, Abstract!Nothing, Nothing,
                      Effect, Abstract!Effect
<1>7. CASE main
  BY <1>7 DEF main, EffectOK, Abstract!Next, Abstract!Finish, Abstract!Nothing,
              Abstract!Effect
<1>8. CASE UNCHANGED vars
  BY <1>8 DEF vars, Abstract!vars
<1> QED
  BY <1>1, <1>2, <1>3, <1>4, <1>5, <1>6, <1>7, <1>8 DEF Next

\* The dispatcher implements the promise of a multi-call binary: a command
\* line runs the one command it names, on its own arguments, or is refused,
\* or is served by the option it is; nothing depends on the link order.
THEOREM Refinement == Spec => Implements
<1>1. Init => Abstract!Init
  BY DEF Init, Abstract!Init, Nothing, Abstract!Nothing, Effect, Abstract!Effect
<1> QED
  BY <1>1, StepSimulates, Invariance, PTL DEF Spec, Implements, Abstract!Spec
=============================================================================
