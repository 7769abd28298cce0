------------------------------ MODULE LogicTool ------------------------------
(***************************************************************************)
(* The dispatcher composed with the logic handlers: what a shell that runs *)
(* iotools or 1 2, or the link or 1 2, gets to see on stdout and as the    *)
(* exit status.  Handlers of the other groups stay single steps.           *)
(***************************************************************************)
EXTENDS Iotools, Logic, FiniteSets

CONSTANT Spells(_)    \* the number that a word of the command line spells
ASSUME SpellsAssumption == \A l \in Lines : \A k \in DOMAIN l : Spells(l[k]) \in Int

toolVars == <<vars, logicVars>>

InLogic == "LOGIC" \in Groups /\ cmd_info \in CmdsOf("LOGIC")

\* enum LOGIC_OP
OpName == <<"or", "and", "xor", "shl", "shr", "bts", "btr">>

\* The call that an entry of the table makes of an argument vector.
LogicCall(c, av) ==
  [op |-> IF c.entry = "not" THEN "not" ELSE OpName[c.op + 1],
   args |-> [k \in 1 .. Len(av) - 1 |-> Spells(av[k + 1])]]

\* cmd_info->entry(argc, argv, cmd_info), for the handlers of logic.c and for
\* the others.
entry_logic ==
  /\ pc = "entry"
  /\ InLogic
  /\ entry
  /\ LogicStart(LogicCall(cmd_info, argv))

entry_other == pc = "entry" /\ ~InLogic /\ entry /\ UNCHANGED logicVars

logic_returns == InLogic /\ stage = "done" /\ entry_returns /\ rc' = cond /\ UNCHANGED logicVars
other_returns == ~InLogic /\ entry_returns /\ UNCHANGED logicVars

logic_runs == LogicStep /\ UNCHANGED vars

Dispatch ==
  /\ register_command_group \/ run_command \/ check_prereqs \/ iotools_fallback \/ main
  /\ UNCHANGED logicVars
-----------------------------------------------------------------------------
ToolInit == Init /\ LogicInit

ToolNext ==
  Dispatch \/ entry_logic \/ entry_other \/ logic_runs \/ logic_returns \/ other_returns

ToolSpec == ToolInit /\ [][ToolNext]_toolVars
-----------------------------------------------------------------------------
(* What the operands of a line ask for, without argv, loop or order. *)

\* The operands of a line are what follows the name of the command, which is
\* the link's name unless the first word after it is a command's name.
NamedByOperand == Len(line) > 1 /\ \E c \in Cmds : <<c.name>> = line[2]
Numbers ==
  LET name == IF NamedByOperand THEN 2 ELSE 1
  IN  [k \in 1 .. Len(line) - name |-> Spells(line[k + name])]

OperandBits(nums, k) == Bits(strtoull(nums[k]))
Having(nums, b) == {k \in DOMAIN nums : b \in OperandBits(nums, k)}

\* Bit b of the result, for the commands that fold their operands.
FoldedBit(name, nums, b) ==
  CASE name = "or" -> Having(nums, b) # {}
    [] name = "and" -> Having(nums, b) = DOMAIN nums
    [] name = "xor" -> Cardinality(Having(nums, b)) % 2 = 1

\* bts and btr have the named bit set or cleared, and whatever the number of
\* the bit, bts clears none and btr sets none.
BitOpExact(name, nums, bit, value) ==
  /\ IF name = "bts" THEN OperandBits(nums, 1) \subseteq value
                     ELSE value \subseteq OperandBits(nums, 1)
  /\ bit < IntBits => (bit \in value <=> name = "bts")
  /\ \A b \in Positions \ {bit} :
       (b < bit /\ bit < IntBits) \/ bit < IntBits - 1 =>
         (b \in value <=> b \in OperandBits(nums, 1))

\* A result that is what the operands ask for.
Exact(name, nums, value) ==
  /\ name \in {"or", "and", "xor"} =>
       \A b \in Positions : b \in value <=> FoldedBit(name, nums, b)
  /\ name = "not" => \A b \in Positions : b \in value <=> b \notin OperandBits(nums, 1)
  /\ name \in {"shl", "shr"} /\ nums[2] \in 0 .. LLBits - 1 =>
       \A b \in Positions :
         b \in value <=>
           (IF name = "shl" THEN b - nums[2] ELSE b + nums[2]) \in OperandBits(nums, 1)
  /\ name \in {"bts", "btr"} => BitOpExact(name, nums, strtoull(nums[2]), value)

\* What the shell reads is what the operands ask for, whichever way the
\* command was named: or, and, xor over all operands, however many, not, and
\* the shifts and the single bits.  A shift count of the width or more is
\* undefined and excepted.  A bit number is good up to the last but one of an
\* int: the last one drags all higher bits along (1 << val is an int), and a
\* larger one changes other bits or none, but only in the command's direction.
ResultIsExact == \A n \in DOMAIN stdout : Exact(cmd_info.name, Numbers, stdout[n])

\* logic_op() and not() return 1 for a zero result or a bit that was set, and
\* main() takes that for success: a command whose operands are accepted prints
\* exactly one number and succeeds, one that is refused prints nothing and
\* fails.
PrintedIffSuccess ==
  pc = "exited" /\ InLogic =>
    Len(stdout) = (IF status = "EXIT_SUCCESS" THEN 1 ELSE 0)
==============================================================================
