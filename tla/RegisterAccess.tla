---------------------------- MODULE RegisterAccess ----------------------------
(***************************************************************************)
(* What a register command promises, without files, offsets or byte order: *)
(* one access to the register that its operands name, which either moves   *)
(* the whole value and succeeds, or is reported as a failure and shows     *)
(* nothing.  DeviceFiles.tla is shown to implement this module.            *)
(*                                                                         *)
(* A transfer is a set of triples <<register, i, j>>: byte i of the        *)
(* register and byte j of the number, low byte first.                      *)
(***************************************************************************)
EXTENDS Integers

CONSTANTS
  None,          \* no request yet
  Named(_),      \* the register a request names
  InRange(_),    \* its operands fit the C types they are parsed into
  Blind(_)       \* its handler drops errors: no promise about the outcome

VARIABLES
  req,           \* None, or a record with fields size (in bytes) and write
  moved,         \* what was transferred
  shown,         \* the number printed
  status

vars == <<req, moved, shown, status>>

Whole(r, register) == {<<register, j, j>> : j \in 1 .. r.size}

\* Some bytes of one register, each in its place.
Part(r, t) ==
  \E register \in {m[1] : m \in t} :
    /\ InRange(r) => register = Named(r)
    /\ t \subseteq Whole(r, register)

Complete == moved # {} /\ Part(req, moved) /\ \A j \in 1 .. req.size : \E m \in moved : m[3] = j
-----------------------------------------------------------------------------
Init == req = None /\ moved = {} /\ shown = {} /\ status = "running"

Ask == req = None /\ req' # None /\ UNCHANGED <<moved, shown, status>>

Access ==
  /\ req # None /\ moved = {} /\ status = "running"
  /\ Part(req, moved') \/ Blind(req)
  /\ UNCHANGED <<req, shown, status>>

Succeed ==
  /\ req # None /\ status = "running"
  /\ Complete \/ Blind(req)
  /\ status' = "success"
  /\ shown' = (IF req.write THEN {} ELSE moved) \/ Blind(req)
  /\ UNCHANGED <<req, moved>>

Fail ==
  /\ req # None /\ status = "running"
  /\ ~Complete \/ Blind(req)
  /\ status' = "failure"
  /\ UNCHANGED <<req, moved, shown>>

Next == Ask \/ Access \/ Succeed \/ Fail

Spec == Init /\ [][Next]_vars
==============================================================================
