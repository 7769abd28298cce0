------------------------------- MODULE CNumbers -------------------------------
(***************************************************************************)
(* The C library's number parsing, for types of any width, and the         *)
(* conversion to a signed type; and 1 << val.                              *)
(***************************************************************************)
EXTENDS Integers

\* strtoul() for a type that wraps at width: it saturates, and negates what
\* follows a minus sign.  A word without digits spells 0.
Parse(n, width) ==
  CASE n >= width -> width - 1
    [] n >= 0 /\ n < width -> n
    [] n < 0 /\ n > -width -> width + n
    [] n <= -width -> width - 1

\* strtol() saturates at both ends.
ParseLong(n, width) ==
  CASE n >= width \div 2 -> width \div 2 - 1
    [] n < -(width \div 2) -> -(width \div 2)
    [] OTHER -> n

\* Assignment to a signed type: two's complement.
Signed(n, width) == ((n + width \div 2) % width) - width \div 2

\* 1 << val in an int, converted to an unsigned type, as the set of one bits:
\* the sign bit is copied upwards.  Where C leaves the result undefined, the
\* shift instructions of the builds wrap the count or shift the bit out.
IntShift(val, int_bits, bits) ==
  LET Mask(v) == IF v = int_bits - 1 THEN int_bits - 1 .. bits - 1 ELSE {v}
  IN  IF val < int_bits THEN {Mask(val)} ELSE {{}, Mask(val % int_bits)}
==============================================================================
