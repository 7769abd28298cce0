---------------------------- MODULE CNumbersProofs ----------------------------
(***************************************************************************)
(* Facts about division, remainders and the conversions of CNumbers.tla,   *)
(* for types of any width.  The provers know little about a modulus that   *)
(* is not a number, so what the other proofs need is stated here once.     *)
(***************************************************************************)
EXTENDS CNumbers, TLAPS

(* Division with a symbolic divisor. *)

\* A multiple of m that lies strictly between -m and m is zero.
LEMMA SmallMultiple ==
  ASSUME NEW m \in Nat, m > 0, NEW k \in Int, m * k < m, m * k > -m
  PROVE  k = 0
<1>1. ASSUME k >= 1 PROVE FALSE
  <2>1. m * (k - 1) >= 0
    BY <1>1
  <2>2. m * (k - 1) = m * k - m
    OBVIOUS
  <2> QED
    BY <2>1, <2>2
<1>2. ASSUME k <= -1 PROVE FALSE
  <2>1. m * (-1 - k) >= 0
    BY <1>2
  <2>2. m * (-1 - k) = -m - m * k
    OBVIOUS
  <2> QED
    BY <2>1, <2>2
<1> QED
  BY <1>1, <1>2

\* Quotient and remainder are what they are defined to be, and are unique.
LEMMA DivModUnique ==
  ASSUME NEW m \in Nat, m > 0, NEW q \in Int, NEW r \in 0 .. m - 1,
         NEW n \in Int, n = m * q + r
  PROVE  n \div m = q /\ n % m = r
<1>2. n = m * (n \div m) + (n % m) /\ n % m \in 0 .. m - 1 /\ n \div m \in Int
  OBVIOUS
<1>3. m * (q - n \div m) = (n % m) - r
  <2>1. m * (q - n \div m) = m * q - m * (n \div m)
    BY <1>2
  <2> QED
    BY <1>2, <2>1
<1>4. q - n \div m = 0
  BY <1>2, <1>3, SmallMultiple
<1> QED
  BY <1>2, <1>3, <1>4

\* A remainder lies below its modulus.
LEMMA ModRange ==
  ASSUME NEW a \in Int, NEW m \in Nat, m > 0
  PROVE  a % m \in 0 .. m - 1
OBVIOUS

\* A number below the modulus is its own remainder.
LEMMA ModSmall ==
  ASSUME NEW a \in Nat, NEW m \in Nat, a < m
  PROVE  a % m = a
OBVIOUS

\* A remainder is never larger than the number.
LEMMA ModLe ==
  ASSUME NEW a \in Nat, NEW m \in Nat, m > 0
  PROVE  a % m <= a
OBVIOUS

\* Multiples of the modulus do not change the remainder.
LEMMA ModMultiple ==
  ASSUME NEW m \in Nat, m > 0, NEW b \in Int, NEW k \in Int
  PROVE  (b + m * k) % m = b % m
<1>1. b = m * (b \div m) + (b % m) /\ b % m \in 0 .. m - 1 /\ b \div m \in Int
  OBVIOUS
<1> DEFINE a == b + m * k
           q == b \div m + k
           r == b % m
<1>2. a = m * q + r
  <2>1. m * q = m * (b \div m) + m * k
    BY <1>1
  <2> QED
    BY <1>1, <2>1
<1>3. a \in Int /\ q \in Int /\ r \in 0 .. m - 1
  BY <1>1
<1> HIDE DEF a, q, r
<1>4. a % m = r
  BY <1>2, <1>3, DivModUnique
<1> QED
  BY <1>4 DEF a, r

\* One modulus more or less does not either.
LEMMA ModShift ==
  ASSUME NEW m \in Nat, m > 0, NEW n \in Int
  PROVE  (n + m) % m = n % m /\ (n - m) % m = n % m
<1>1. n + m = n + m * 1 /\ n - m = n + m * (-1) /\ 1 \in Int /\ -1 \in Int
  OBVIOUS
<1>2. ASSUME NEW k \in Int PROVE (n + m * k) % m = n % m
  BY ModMultiple
<1>3. (n + m * 1) % m = n % m /\ (n + m * (-1)) % m = n % m
  BY <1>1, <1>2, Zenon
<1> QED
  BY <1>1, <1>3

\* Nor does a whole multiple that is itself a width.
LEMMA ModWiden ==
  ASSUME NEW m \in Nat, m > 0, NEW w \in Nat, w % m = 0, NEW n \in Int
  PROVE  (n + w) % m = n % m
<1>1. w = m * (w \div m) /\ w \div m \in Int
  OBVIOUS
<1>2. ASSUME NEW k \in Int PROVE (n + m * k) % m = n % m
  BY ModMultiple
<1>3. (n + m * (w \div m)) % m = n % m
  BY <1>1, <1>2, Zenon
<1> QED
  BY <1>1, <1>3
-----------------------------------------------------------------------------
(* The conversions. *)

\* strtoul() returns a value of its type for any operand, and the operand
\* itself if the type can hold it.
LEMMA ParseRange ==
  ASSUME NEW n \in Int, NEW width \in Nat, width > 0
  PROVE  /\ Parse(n, width) \in 0 .. width - 1
         /\ n \in 0 .. width - 1 => Parse(n, width) = n
BY DEF Parse

\* strtol() keeps what a long can hold.
LEMMA ParseLongFits ==
  ASSUME NEW n \in Int, NEW width \in Nat, width > 0
  PROVE  /\ ParseLong(n, width) \in Int
         /\ n \in -(width \div 2) .. (width \div 2) - 1 => ParseLong(n, width) = n
BY DEF ParseLong

\* Conversion to a signed type gives a value of the type that differs from the
\* number by a multiple of its width.
LEMMA SignedRange ==
  ASSUME NEW n \in Int, NEW width \in Nat, width > 0, width % 2 = 0
  PROVE  /\ Signed(n, width) \in -(width \div 2) .. (width \div 2) - 1
         /\ Signed(n, width) % width = n % width
<1> DEFINE h == width \div 2
           s == (n + h) % width
<1>1. h \in Nat /\ width = 2 * h
  OBVIOUS
<1>2. s \in 0 .. width - 1
  BY <1>1, ModRange
<1> DEFINE a == s - h
           k == -((n + h) \div width)
<1>3. k \in Int /\ a = n + width * k
  BY <1>1, <1>2
<1>4. a \in -h .. h - 1
  BY <1>1, <1>2
<1>5. a % width = n % width
  <2>1. (n + width * k) % width = n % width
    <3> HIDE DEF k
    <3> QED
      BY <1>3, ModMultiple
  <2> QED
    BY <1>3, <2>1, Zenon
<1> QED
  BY <1>4, <1>5 DEF Signed

\* It keeps what the type can hold.
LEMMA SignedFits ==
  ASSUME NEW width \in Nat, width > 0, width % 2 = 0,
         NEW n \in -(width \div 2) .. (width \div 2) - 1
  PROVE  Signed(n, width) = n
<1>1. n + width \div 2 \in Nat /\ n + width \div 2 < width
  OBVIOUS
<1>2. (n + width \div 2) % width = n + width \div 2
  BY <1>1, ModSmall
<1> QED
  BY <1>2 DEF Signed
==============================================================================
