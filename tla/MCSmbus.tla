------------------------------- MODULE MCSmbus -------------------------------
(***************************************************************************)
(* Requests of Smbus for TLC: every operation with operands on both sides  *)
(* of each limit, one operand varied at a time.                            *)
(***************************************************************************)
EXTENDS Smbus

Num(n) == [n |-> n, junk |-> FALSE]
Junk == [n |-> 0, junk |-> TRUE]
Hex(d) == [x |-> FALSE, digits |-> d, junk |-> FALSE]

Good(op) == [op |-> op, adapter |-> Num(1), address |-> Num(2), reg |-> Num(Byte - 1),
             val |-> Num(1), text |-> Hex(2), count |-> Num(1)]

SmallOperands == {Num(n) : n \in {1 - ULong, -1, 0, Byte - 1, Byte}} \union {Junk}
Values == SmallOperands
            \union {Num(n) : n \in {Byte + 1, Byte^4 + 5, LONG_MAX, ULong - 1, ULong, U64 - 1}}
Texts == [x : BOOLEAN, digits : 0 .. 2 * BLOCK_MAX + 3, junk : {FALSE}]
           \union {[x |-> FALSE, digits |-> 2, junk |-> TRUE]}
Counts == SmallOperands \union {Num(n) : n \in 0 .. BLOCK_MAX + 1}

MCReqs ==
  UNION {{[Good(op) EXCEPT !.adapter = o] : o \in SmallOperands}
           \union {[Good(op) EXCEPT !.address = o] : o \in SmallOperands}
           \union {[Good(op) EXCEPT !.reg = o] : o \in SmallOperands}
           \union {[Good(op) EXCEPT !.val = o] : o \in Values}
           \union {[Good(op) EXCEPT !.text = t] : t \in Texts}
           \union {[Good(op) EXCEPT !.count = o] : o \in Counts} : op \in Ops}
==============================================================================
