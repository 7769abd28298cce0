------------------------------ MODULE Commands ------------------------------
(***************************************************************************)
(* One iotools process from its constructors to exit(): the registry of    *)
(* command groups, the search in it, the checks before a handler is called *)
(* and the options of the binary itself (commands.c, commands.h,           *)
(* iotools.c).                                                             *)
(*                                                                         *)
(* The command tables are constants (CommandTable.tla has the real ones).  *)
(* A handler is one step here: it is entered with an argv and returns one  *)
(* of the values its code can return; the modules of the handlers open it  *)
(* up.  The loops of --make-links and --clean-links are in                 *)
(* CommandLinks.tla.                                                       *)
(***************************************************************************)
EXTENDS Integers, Sequences

CONSTANTS
  Groups,       \* the struct cmd_group objects of the build
  commands,     \* commands[g]: the cmd_info array of g, a sequence
  LinkOrders,   \* the orders in which the linker may place the constructors
  Lines,        \* the command lines a process may be started with
  Returns(_),   \* Returns(entry): the values a handler can return
  Replacing,    \* handlers that may replace the process image (execvp)
  Endless,      \* handlers that need not return
  ARCH_X86,     \* TRUE on builds where iopl() exists
  NULL

CmdsOf(g) == {commands[g][i] : i \in DOMAIN commands[g]}
Cmds == UNION {CmdsOf(g) : g \in Groups}

\* What the build guarantees: arrays of commands, NULL is none of them, and
\* every constructor runs exactly once.
ASSUME TableAssumption ==
  /\ \A g \in Groups : commands[g] \in Seq(CmdsOf(g))
  /\ NULL \notin Cmds
  /\ \A c \in Cmds : Returns(c.entry) \in SUBSET {-1, 0, 1}
  /\ ARCH_X86 \in BOOLEAN

ASSUME LinkOrderAssumption ==
  \A o \in LinkOrders :
    /\ o \in Seq(Groups)
    /\ \A g \in Groups : \E k \in DOMAIN o : o[k] = g
    /\ \A j, k \in DOMAIN o : o[j] = o[k] => j = k

ASSUME LineAssumption ==
  \A l \in Lines :
    /\ l \in Seq(Seq(STRING)) /\ Len(l) > 0
    /\ \A k \in DOMAIN l : Len(l[k]) > 0

\* No name is used twice, in one group or in two.
ASSUME NamesUnique ==
  /\ \A g, h \in Groups : \A i \in DOMAIN commands[g], j \in DOMAIN commands[h] :
       commands[g][i].name = commands[h][j].name => g = h /\ i = j

VARIABLES
  objs,        \* constructors that have not run yet, in link order
  group_head,  \* the linked list of groups, first element first
  line,        \* the argument vector the kernel passed
  skip,        \* how far argv was advanced: argv[k] is line[skip + k + 1]
  cmd_info,    \* the command found, or NULL
  iopl,        \* I/O privilege level of the process
  rc,          \* return value on its way to main()
  effect,      \* what the process did
  status,      \* exit status
  pc

vars == <<objs, group_head, line, skip, cmd_info, iopl, rc, effect, status, pc>>

argv == SubSeq(line, skip + 1, Len(line))
argc == Len(line) - skip

Effect(what, cmd, av) == [what |-> what, cmd |-> cmd, argv |-> av]
Nothing == Effect("nothing", NULL, <<>>)
-----------------------------------------------------------------------------
(* The registry. *)

First(S) == CHOOSE x \in S : \A y \in S : x <= y

\* Positions of the list whose group has a command of that name, and the
\* positions of such commands in one group.
GroupHits(list, word) ==
  {k \in DOMAIN list : \E c \in CmdsOf(list[k]) : <<c.name>> = word}
CmdHits(g, word) == {i \in DOMAIN commands[g] : <<commands[g][i].name>> = word}

\* First group in list order, first match in array order.
locate_command(list, word) ==
  LET hits == GroupHits(list, word)
  IN  IF hits = {}
        THEN NULL
        ELSE LET g == list[First(hits)]
             IN  commands[g][First(CmdHits(g, word))]

\* --list-cmds prints every group of the list with its whole array.
list_commands(list) == [k \in DOMAIN list |-> commands[list[k]]]

\* strrchr(argv[0], '/'): what follows the last slash.
Basename(word) == <<word[Len(word)]>>
-----------------------------------------------------------------------------
\* The constructor of REGISTER_CMD_GROUP: the group goes in front.
MutRegisterLosesTail ==
  /\ pc = "ctors"
  /\ objs # <<>>
  /\ group_head' = <<Head(objs)>>
  /\ objs' = Tail(objs)
  /\ UNCHANGED <<line, skip, cmd_info, iopl, rc, effect, status, pc>>

register_command_group ==
  /\ pc = "ctors"
  /\ objs # <<>>
  /\ group_head' = <<Head(objs)>> \o group_head
  /\ objs' = Tail(objs)
  /\ UNCHANGED <<line, skip, cmd_info, iopl, rc, effect, status, pc>>

\* run_command(): the operand first, then the name of the link.
ByOperand == IF argc > 1 THEN locate_command(group_head, line[2]) ELSE NULL
ByLink == locate_command(group_head, Basename(line[1]))

\* A command named by an operand is called with argv advanced over argv[0].
MutNoShift == 0
MutShiftTwice == 2
OperandShift == 1

run_command ==
  /\ pc = "ctors"
  /\ objs = <<>>
  /\ \/ /\ ByOperand # NULL
        /\ cmd_info' = ByOperand
        /\ skip' = OperandShift
        /\ pc' = "prereqs"
     \/ /\ ByOperand = NULL
        /\ ByLink # NULL
        /\ cmd_info' = ByLink
        /\ skip' = 0
        /\ pc' = "prereqs"
     \/ /\ ByOperand = NULL
        /\ ByLink = NULL
        /\ pc' = "fallback"
        /\ UNCHANGED <<cmd_info, skip>>
  /\ UNCHANGED <<objs, group_head, line, iopl, rc, effect, status>>

\* params is {} for the null pointer and {p} for a pointer to p; min_args and
\* max_args count argv[0].
MutArgsWithoutArgv0 ==
  \A p \in cmd_info.params : argc + 1 >= p.min_args /\ argc <= p.max_args
ArgsOk == \A p \in cmd_info.params : argc >= p.min_args /\ argc <= p.max_args

MutIoplForgotten == {}
IoplNeeded == {p \in cmd_info.params : ARCH_X86 /\ p.iopl_needed # 0}

check_prereqs ==
  /\ pc = "prereqs"
  /\ \/ /\ ~ArgsOk
        /\ rc' = -1
        /\ effect' = Effect("refused", cmd_info, argv)
        /\ pc' = "exit"
        /\ UNCHANGED iopl
     \/ /\ ArgsOk
        /\ IoplNeeded = {}
        /\ pc' = "entry"
        /\ UNCHANGED <<rc, effect, iopl>>
     \/ \E p \in IoplNeeded :
          /\ ArgsOk
          /\ \/ /\ iopl' = p.iopl_needed
                /\ pc' = "entry"
                /\ UNCHANGED <<rc, effect>>
             \/ /\ rc' = -1
                /\ effect' = Effect("denied", cmd_info, argv)
                /\ pc' = "exit"
                /\ UNCHANGED iopl
  /\ UNCHANGED <<objs, group_head, line, skip, cmd_info, status>>

\* cmd_info->entry(argc, argv, cmd_info) is called ...
entry ==
  /\ pc = "entry"
  /\ effect' = Effect("run", cmd_info, argv)
  /\ pc' = "handler"
  /\ UNCHANGED <<objs, group_head, line, skip, cmd_info, iopl, rc, status>>

\* ... and returns, or the process becomes another program.
entry_returns ==
  /\ pc = "handler"
  /\ \/ /\ rc' \in Returns(cmd_info.entry)
        /\ pc' = "exit"
     \/ /\ cmd_info.entry \in Replacing
        /\ pc' = "replaced"
        /\ UNCHANGED rc
  /\ UNCHANGED <<objs, group_head, line, skip, cmd_info, iopl, effect, status>>

\* iotools_fallback(): what the binary does itself, and what that returns.
\* make_command_links() and clean_command_links() return -1 if the path of
\* the binary cannot be found, 0 otherwise.
MutFallbackRetries(what, codes) ==
  /\ pc' = "ctors"
  /\ UNCHANGED <<effect, rc>>

Fallback(what, codes) ==
  /\ effect' = Effect(what, NULL, argv)
  /\ rc' \in codes
  /\ pc' = "exit"

Options == {<<"--help">>, <<"--make-links">>, <<"--clean-links">>,
            <<"--list-cmds">>, <<"-v">>, <<"--version">>}

iotools_fallback ==
  /\ pc = "fallback"
  /\ \/ argc # 2 /\ Fallback("usage", {-1})
     \/ /\ argc = 2
        /\ \/ line[2] = <<"--help">> /\ Fallback("help", {0})
           \/ line[2] = <<"--make-links">> /\ Fallback("make", {0, -1})
           \/ line[2] = <<"--clean-links">> /\ Fallback("clean", {0, -1})
           \/ line[2] = <<"--list-cmds">> /\ Fallback("list", {0})
           \/ line[2] \in {<<"-v">>, <<"--version">>} /\ Fallback("version", {0})
           \/ line[2] \notin Options /\ Fallback("usage", {-1})
  /\ UNCHANGED <<objs, group_head, line, skip, cmd_info, iopl, status>>

MutMainNonzero ==
  /\ pc = "exit"
  /\ status' = IF rc # 0 THEN "EXIT_FAILURE" ELSE "EXIT_SUCCESS"
  /\ pc' = "exited"
  /\ UNCHANGED <<objs, group_head, line, skip, cmd_info, iopl, rc, effect>>

\* main(): any non-negative value is success, a handler's 1 included.
main ==
  /\ pc = "exit"
  /\ status' = IF rc < 0 THEN "EXIT_FAILURE" ELSE "EXIT_SUCCESS"
  /\ pc' = "exited"
  /\ UNCHANGED <<objs, group_head, line, skip, cmd_info, iopl, rc, effect>>
-----------------------------------------------------------------------------
Init ==
  /\ objs \in LinkOrders
  /\ group_head = <<>>
  /\ line \in Lines
  /\ skip = 0
  /\ cmd_info = NULL
  /\ iopl = 0
  /\ rc = 0
  /\ effect = Nothing
  /\ status = "running"
  /\ pc = "ctors"

Next ==
  \/ register_command_group
  \/ run_command
  \/ check_prereqs
  \/ entry
  \/ entry_returns
  \/ iotools_fallback
  \/ main

\* The process is scheduled, and every handler but the endless ones returns.
Fairness ==
  /\ WF_vars(register_command_group \/ run_command \/ check_prereqs \/ entry
               \/ iotools_fallback \/ main)
  /\ WF_vars(entry_returns /\ cmd_info.entry \notin Endless)

Spec == Init /\ [][Next]_vars /\ Fairness
-----------------------------------------------------------------------------
(* Properties. *)

PCs == {"ctors", "prereqs", "entry", "handler", "fallback", "exit", "exited",
        "replaced"}

\* Type invariant of the process state; argv never moves past the end.
TypeOK ==
  /\ objs \in Seq(Groups)
  /\ group_head \in Seq(Groups)
  /\ line \in Lines
  /\ skip \in 0 .. Len(line) - 1
  /\ cmd_info \in Cmds \union {NULL}
  /\ rc \in {-1, 0, 1}
  /\ status \in {"running", "EXIT_SUCCESS", "EXIT_FAILURE"}
  /\ pc \in PCs

\* Every command that --list-cmds shows can be run under its name: whatever
\* the order in which the constructors ran, every group of the build is
\* listed, and the search finds the very cmd_info that is listed.
NoCommandShadowed ==
  objs = <<>> =>
    LET listed == list_commands(group_head)
    IN  /\ \A g \in Groups : \E k \in DOMAIN listed : listed[k] = commands[g]
        /\ \A k \in DOMAIN listed : \A i \in DOMAIN listed[k] :
             locate_command(group_head, <<listed[k][i].name>>) = listed[k][i]

\* The process implements the promise of a multi-call binary, for every
\* order of the constructors.  The list and its search disappear into the set
\* of commands; line, effect and status are what an observer sees.
Abstract == INSTANCE MultiCall WITH
  Cmds <- Cmds, Lines <- Lines, ARCH_X86 <- ARCH_X86, NULL <- NULL,
  line <- line, effect <- effect, status <- status

Implements == Abstract!Spec

\* Every process ends: it exits or becomes another program, unless it sits
\* in a handler that need not return.
InEndlessHandler == pc = "handler" /\ cmd_info.entry \in Endless
EventuallyEnds == <>(pc \in {"exited", "replaced"} \/ InEndlessHandler)
==============================================================================
