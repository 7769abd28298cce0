-------------------------------- MODULE Logic --------------------------------
(***************************************************************************)
(* The handlers of logic.c: or, and, xor, bts and btr fold their operands  *)
(* one by one, not and the shifts take one step.                           *)
(*                                                                         *)
(* An unsigned long long is the set of its one bits.  The constant 1 of    *)
(* 1 << val is an int, so the mask of bts and btr is made in IntBits bits  *)
(* and then sign-extended.  What C leaves undefined is what the shift      *)
(* instructions of the builds do: the count wraps, or the bits are gone.   *)
(***************************************************************************)
EXTENDS Integers, Sequences, CNumbers

CONSTANTS
  LLBits,     \* bits of unsigned long long
  IntBits,    \* bits of int
  ULong       \* where unsigned long wraps

ULLong == 2^LLBits    \* where unsigned long long wraps

ASSUME LogicAssumption ==
  /\ LLBits \in Nat \ {0} /\ IntBits \in 2 .. LLBits
  /\ ULong \in Nat /\ ULong >= LLBits /\ ULLong \in Nat \ {0}

\* A call is [op, args]: an operation and the numbers that its operands spell.
FoldOps == {"or", "and", "xor", "bts", "btr"}
ShiftOps == {"shl", "shr"}

VARIABLES
  call,       \* the call in progress
  todo,       \* operands that the loop has not seen
  result,
  cond,       \* the handler's own rc
  stdout,     \* the numbers printed
  stage       \* "idle", "loop" or "done"

logicVars == <<call, todo, result, cond, stdout, stage>>

Positions == 0 .. LLBits - 1
Bits(n) == {b \in Positions : (n \div 2^b) % 2 = 1}
strtoull(n) == Parse(n, ULLong)

\* val = (1 << val), as bts and btr compute their mask.
BitMasks(val) == IntShift(val, IntBits, LLBits)

Shifted(bits, k) == {b + k : b \in bits} \intersect Positions

\* <<= and >>= of the shift command.
ShiftBy(bits, count, sign) ==
  IF count < LLBits THEN {Shifted(bits, sign * count)}
                    ELSE {{}, Shifted(bits, sign * (count % LLBits))}

\* The result is printed and the condition returned.
Finish(value, c) ==
  /\ result' = value
  /\ cond' = c
  /\ stdout' = Append(stdout, value)
  /\ stage' = "done"

One(b) == IF b THEN 1 ELSE 0
-----------------------------------------------------------------------------
\* logic_op(): the first operand is the initial result.
MutLogicOpNotStripped(c) ==
  /\ stage = "idle"
  /\ c.op \in FoldOps
  /\ call' = c
  /\ result' = Bits(strtoull(c.args[1]))
  /\ todo' = c.args
  /\ cond' = 0
  /\ stage' = "loop"
  /\ UNCHANGED stdout

logic_op(c) ==
  /\ stage = "idle"
  /\ c.op \in FoldOps
  /\ call' = c
  /\ result' = Bits(strtoull(c.args[1]))
  /\ todo' = Tail(c.args)
  /\ cond' = 0
  /\ stage' = "loop"
  /\ UNCHANGED stdout

\* One turn of its loop.
Combine(new, c) == result' = new /\ cond' = One(c)

logic_op_turn ==
  /\ stage = "loop"
  /\ todo # <<>>
  /\ LET val == strtoull(Head(todo))
     IN  \/ call.op = "or" /\ Combine(result \union Bits(val), result \union Bits(val) = {})
         \/ /\ call.op = "and"
            /\ Combine(result \intersect Bits(val), result \intersect Bits(val) = {})
         \/ /\ call.op = "xor"
            /\ Combine((result \ Bits(val)) \union (Bits(val) \ result), result = Bits(val))
         \/ /\ call.op = "bts"
            /\ \E mask \in BitMasks(val) :
                 Combine(result \union mask, result \intersect mask # {})
         \/ /\ call.op = "btr"
            /\ \E mask \in BitMasks(val) :
                 Combine(result \ mask, result \intersect mask # {})
  /\ todo' = Tail(todo)
  /\ UNCHANGED <<call, stdout, stage>>

logic_op_end ==
  /\ stage = "loop"
  /\ todo = <<>>
  /\ Finish(result, cond)
  /\ UNCHANGED <<call, todo>>

not(c) ==
  /\ stage = "idle"
  /\ c.op = "not"
  /\ LET value == Positions \ Bits(strtoull(c.args[1]))
     IN  Finish(value, One(value = {}))
  /\ call' = c
  /\ UNCHANGED todo

shift(c) ==
  /\ stage = "idle"
  /\ c.op \in ShiftOps
  /\ \E value \in ShiftBy(Bits(strtoull(c.args[1])), Parse(c.args[2], ULong),
                          IF c.op = "shl" THEN 1 ELSE -1) :
       Finish(value, 0)
  /\ call' = c
  /\ UNCHANGED todo
-----------------------------------------------------------------------------
LogicInit ==
  /\ call = [op |-> "not", args |-> <<>>]
  /\ todo = <<>>
  /\ result = {}
  /\ cond = 0
  /\ stdout = <<>>
  /\ stage = "idle"

LogicStart(c) == logic_op(c) \/ not(c) \/ shift(c)
LogicStep == logic_op_turn \/ logic_op_end
==============================================================================
