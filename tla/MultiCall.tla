------------------------------ MODULE MultiCall ------------------------------
(***************************************************************************)
(* What a multi-call binary promises, without the machinery: a command     *)
(* line names at most one command of a SET of commands, and the process    *)
(* either runs that command on its own arguments, refuses it, or serves    *)
(* one of the binary's own options.  No list, no registration order and    *)
(* no search appear here; Commands.tla is shown to implement this module.  *)
(*                                                                         *)
(* A word of a command line is the sequence of its '/'-separated parts, so *)
(* "or" is <<"or">> and "/sbin/or" is <<"", "sbin", "or">>.  line[1] is    *)
(* what C calls argv[0].                                                   *)
(***************************************************************************)
EXTENDS Integers, Sequences

CONSTANTS
  Cmds,       \* the set of commands, records with fields name and params
  Lines,      \* the command lines a process may be started with
  ARCH_X86,   \* TRUE on builds where iopl() exists
  NULL        \* no command

VARIABLES
  line,       \* the command line of the process
  effect,     \* what the process did
  status      \* "running", or the exit status

vars == <<line, effect, status>>

Effect(what, cmd, argv) == [what |-> what, cmd |-> cmd, argv |-> argv]
Nothing == Effect("nothing", NULL, <<>>)

\* The options of the binary itself, and what each of them does.
OptionEffect(l) ==
  CASE Len(l) # 2                             -> "usage"
    [] Len(l) = 2 /\ l[2] = <<"--help">>        -> "help"
    [] Len(l) = 2 /\ l[2] = <<"--make-links">>  -> "make"
    [] Len(l) = 2 /\ l[2] = <<"--clean-links">> -> "clean"
    [] Len(l) = 2 /\ l[2] = <<"--list-cmds">>   -> "list"
    [] Len(l) = 2 /\ l[2] \in {<<"-v">>, <<"--version">>} -> "version"
    [] OTHER                                  -> "usage"

Named(word) == {c \in Cmds : <<c.name>> = word}

\* The command a line names: its first operand if that is a command, else
\* the name under which the binary was started.
ByOperand(l) == IF Len(l) > 1 THEN Named(l[2]) ELSE {}
ByLink(l)    == Named(<<l[1][Len(l[1])]>>)

Accepts(c, argv) == \A q \in c.params : Len(argv) \in q.min_args .. q.max_args

\* Running c on argv, or refusing to: for its operands, or because the
\* privilege it needs may be denied.
Serves(c, argv) ==
  IF Accepts(c, argv)
    THEN {Effect("run", c, argv)}
           \union {Effect("denied", c, argv) :
                     q \in {q \in c.params : ARCH_X86 /\ q.iopl_needed # 0}}
    ELSE {Effect("refused", c, argv)}

Promise(l) ==
  CASE ByOperand(l) # {} -> UNION {Serves(c, Tail(l)) : c \in ByOperand(l)}
    [] ByOperand(l) = {} /\ ByLink(l) # {} -> UNION {Serves(c, l) : c \in ByLink(l)}
    [] OTHER -> {Effect(OptionEffect(l), NULL, l)}

Verdicts(e) ==
  CASE e.what \in {"refused", "denied", "usage"} -> {"EXIT_FAILURE"}
    [] e.what \in {"help", "list", "version"}    -> {"EXIT_SUCCESS"}
    [] OTHER -> {"EXIT_SUCCESS", "EXIT_FAILURE"}
-----------------------------------------------------------------------------
Init ==
  /\ line \in Lines
  /\ effect = Nothing
  /\ status = "running"

Serve ==
  /\ effect = Nothing
  /\ effect' \in Promise(line)
  /\ UNCHANGED <<line, status>>

\* A command that replaces the process image (runon) never gets here.
Finish ==
  /\ effect # Nothing
  /\ status = "running"
  /\ status' \in Verdicts(effect)
  /\ UNCHANGED <<line, effect>>

Next == Serve \/ Finish

Spec == Init /\ [][Next]_vars
==============================================================================
