----------------------------- MODULE SmbusProofs -----------------------------
(***************************************************************************)
(* Proofs about Smbus: the bytes a number travels as, and what every run   *)
(* of an SMBus command guarantees, for every adapter, slave and operand.   *)
(***************************************************************************)
EXTENDS Smbus, CNumbersProofs, SequenceTheorems, TLAPS

-----------------------------------------------------------------------------
(* Bytes of a number. *)

\* A product of positive numbers is positive.
LEMMA ProductPositive ==
  ASSUME NEW a \in Nat, a > 0, NEW b \in Nat, b > 0
  PROVE  a * b \in Nat /\ a * b > 0
<1>1. a * b \in Nat /\ a * b >= a
  <2>1. a * b = a + a * (b - 1) /\ b - 1 \in Nat
    OBVIOUS
  <2>2. a * (b - 1) >= 0 /\ a * (b - 1) \in Int
    BY <2>1
  <2> QED
    BY <2>1, <2>2
<1> QED
  BY <1>1

\* Multiplication may be bracketed either way.
LEMMA Regroup ==
  ASSUME NEW a \in Int, NEW b \in Int, NEW c \in Int
  PROVE  (a * b) * c = a * (b * c)
OBVIOUS

\* Each place counts Byte times the one before.
LEMMA PlaceSteps ==
  /\ Place[1] = 1
  /\ \A j \in 1 .. 9 : Place[j] \in Nat /\ Place[j] > 0
  /\ \A j \in 1 .. 8 : Place[j + 1] = Place[j] * Byte
<1>0. Byte \in Nat /\ Byte > 0
  BY SmbusAssumption
<1>1. Word16 \in Nat /\ Word16 > 0
  BY <1>0, ProductPositive DEF Word16
<1>2. Word32 \in Nat /\ Word32 > 0
  BY <1>1, ProductPositive DEF Word32
<1>3. Word16 * Byte \in Nat /\ Word16 * Byte > 0
  BY <1>0, <1>1, ProductPositive
<1>4. Word32 * Byte \in Nat /\ Word32 * Byte > 0
  BY <1>0, <1>2, ProductPositive
<1>5. Word32 * Word16 \in Nat /\ Word32 * Word16 > 0
  BY <1>1, <1>2, ProductPositive
<1>6. Word32 * Word16 * Byte \in Nat /\ Word32 * Word16 * Byte > 0
  BY <1>0, <1>5, ProductPositive
<1>7. Word32 * Word32 \in Nat /\ Word32 * Word32 > 0
  BY <1>2, ProductPositive
<1>8. Word32 = (Word16 * Byte) * Byte
  BY <1>0, <1>1, Regroup DEF Word16, Word32
<1>9. Word32 * Word16 = (Word32 * Byte) * Byte
  BY <1>0, <1>2, Regroup DEF Word16
<1>10. Word32 * Word32 = (Word32 * Word16 * Byte) * Byte
  <2>1. (Word32 * Word16 * Byte) * Byte = (Word32 * Word16) * (Byte * Byte)
    BY <1>0, <1>5, Regroup
  <2>2. (Word32 * Word16) * Word16 = Word32 * (Word16 * Word16)
    BY <1>1, <1>2, Regroup
  <2> QED
    BY <2>1, <2>2 DEF Word16, Word32
<1> DEFINE w == Word16
           d == Word32
           w3 == w * Byte
           d1 == d * Byte
           d2 == d * w
           d3 == d * w * Byte
           d4 == d * d
<1>11. Place = <<1, Byte, w, w3, d, d1, d2, d3, d4>>
  BY DEF Place
<1>12. /\ w = Byte * Byte /\ w3 = w * Byte /\ d = w3 * Byte /\ d1 = d * Byte
       /\ d2 = d1 * Byte /\ d3 = d2 * Byte /\ d4 = d3 * Byte /\ Byte = 1 * Byte
  BY <1>0, <1>8, <1>9, <1>10 DEF Word16
<1>13. /\ w \in Nat /\ w > 0 /\ w3 \in Nat /\ w3 > 0 /\ d \in Nat /\ d > 0 /\ d1 \in Nat /\ d1 > 0
       /\ d2 \in Nat /\ d2 > 0 /\ d3 \in Nat /\ d3 > 0 /\ d4 \in Nat /\ d4 > 0
  BY <1>1, <1>2, <1>3, <1>4, <1>5, <1>6, <1>7
<1> HIDE DEF w, d, w3, d1, d2, d3, d4
<1>14. /\ Place[1] = 1 /\ Place[2] = Byte /\ Place[3] = w /\ Place[4] = w3 /\ Place[5] = d
       /\ Place[6] = d1 /\ Place[7] = d2 /\ Place[8] = d3 /\ Place[9] = d4
  BY <1>11
<1>15. ASSUME NEW j \in 1 .. 9 PROVE Place[j] \in Nat /\ Place[j] > 0
  <2>1. j \in {1, 2, 3, 4, 5, 6, 7, 8, 9}
    OBVIOUS
  <2> QED
    BY <1>0, <1>13, <1>14, <2>1
<1>16. ASSUME NEW j \in 1 .. 8 PROVE Place[j + 1] = Place[j] * Byte
  <2>1. j \in {1, 2, 3, 4, 5, 6, 7, 8}
    OBVIOUS
  <2>2. /\ Place[1 + 1] = Place[1] * Byte /\ Place[2 + 1] = Place[2] * Byte
        /\ Place[3 + 1] = Place[3] * Byte /\ Place[4 + 1] = Place[4] * Byte
        /\ Place[5 + 1] = Place[5] * Byte /\ Place[6 + 1] = Place[6] * Byte
        /\ Place[7 + 1] = Place[7] * Byte /\ Place[8 + 1] = Place[8] * Byte
    BY <1>12, <1>14
  <2> QED
    BY <2>1, <2>2
<1> QED
  BY <1>14, <1>15, <1>16

\* One more place of a number.
LEMMA NextPlace ==
  ASSUME NEW n \in Nat, NEW a \in Nat, a > 0, NEW b \in Nat, b > 0
  PROVE  n % (a * b) = (n % a) + ((n \div a) % b) * a
<1> DEFINE q == n \div a
           r == n % a
           t == q \div b
           s == q % b
<1>1. n = a * q + r /\ q \in Int /\ r \in 0 .. a - 1
  OBVIOUS
<1> HIDE DEF q, r
<1>2. q = b * t + s /\ t \in Int /\ s \in 0 .. b - 1
  BY <1>1
<1> HIDE DEF t, s
<1>3. n = (a * b) * t + (s * a + r)
  <2>1. a * (b * t + s) = (a * b) * t + s * a
    BY <1>2
  <2> QED
    BY <1>1, <1>2, <2>1
<1>4. s * a + r \in 0 .. a * b - 1
  <2>1. a * b = a * (b - 1 - s) + s * a + a
    BY <1>2
  <2>2. b - 1 - s \in Nat /\ a * (b - 1 - s) \in Nat /\ s * a \in Nat
    BY <1>2
  <2> QED
    BY <1>1, <2>1, <2>2
<1>5. a * b \in Nat /\ a * b > 0
  BY ProductPositive
<1> DEFINE ab == a * b
           u == s * a + r
<1>6. ab \in Nat /\ ab > 0 /\ u \in 0 .. ab - 1 /\ n = ab * t + u /\ t \in Int
  BY <1>2, <1>3, <1>4, <1>5
<1> HIDE DEF ab, u
<1>7. n % ab = u
  BY <1>6, DivModUnique
<1> QED
  BY <1>7 DEF ab, u, s, r, q

\* The bytes of a number are bytes.
LEMMA BytesTyped ==
  ASSUME NEW n \in Nat, NEW k \in 0 .. 8
  PROVE  /\ BytesOf(n, k) \in Seq(0 .. Byte - 1)
         /\ Len(BytesOf(n, k)) = k
<1>0. Byte \in Nat /\ Byte > 0
  BY SmbusAssumption
<1>1. ASSUME NEW j \in 1 .. k PROVE (n \div Place[j]) % Byte \in 0 .. Byte - 1
  <2>1. Place[j] \in Nat /\ Place[j] > 0
    BY PlaceSteps
  <2> DEFINE p == Place[j]
  <2>2. p \in Nat /\ p > 0
    BY <2>1
  <2> HIDE DEF p
  <2>3. (n \div p) \in Int
    BY <2>2
  <2>4. (n \div p) % Byte \in 0 .. Byte - 1
    BY <1>0, <2>3, ModRange
  <2> QED
    BY <2>4 DEF p
<1> QED
  BY <1>1 DEF BytesOf

\* A number's low bytes spell its remainder: what a command of that width can
\* carry of it.
LEMMA BytesSpell ==
  ASSUME NEW n \in Nat, NEW k \in {1, 2, 4, 8}
  PROVE  ValueOf(BytesOf(n, k)) = n % Place[k + 1]
<1> DEFINE D(j) == ((n \div Place[j]) % Byte) * Place[j]
           M(j) == n % Place[j]
<1>0. Byte \in Nat /\ Byte > 0
  BY SmbusAssumption
<1>1. ASSUME NEW j \in 1 .. 8 PROVE M(j + 1) = M(j) + D(j) /\ M(j) \in Int /\ D(j) \in Int
  <2> DEFINE p == Place[j]
             p1 == Place[j + 1]
  <2>1. p \in Nat /\ p > 0 /\ p1 = p * Byte
    BY PlaceSteps
  <2> HIDE DEF p, p1
  <2>2. n % (p * Byte) = (n % p) + ((n \div p) % Byte) * p
    BY <1>0, <2>1, NextPlace
  <2>3. (n \div p) % Byte \in Int /\ ((n \div p) % Byte) * p \in Int /\ n % p \in Int
    BY <1>0, <2>1
  <2>4. n % p1 = (n % p) + ((n \div p) % Byte) * p
    BY <2>1, <2>2
  <2> QED
    BY <2>3, <2>4 DEF p, p1
<1>2. M(1) = 0
  BY PlaceSteps
<1> DEFINE b == BytesOf(n, k)
<1>3. Len(b) = k
  <2>1. k \in 0 .. 8
    OBVIOUS
  <2> QED
    BY <2>1, BytesTyped
<1>4. ASSUME NEW j \in 1 .. k PROVE b[j] * Place[j] = D(j)
  BY DEF BytesOf
<1>5. ValueOf(b) =   (IF 1 <= k THEN b[1] * Place[1] ELSE 0) + (IF 2 <= k THEN b[2] * Place[2] ELSE 0)
                   + (IF 3 <= k THEN b[3] * Place[3] ELSE 0) + (IF 4 <= k THEN b[4] * Place[4] ELSE 0)
                   + (IF 5 <= k THEN b[5] * Place[5] ELSE 0) + (IF 6 <= k THEN b[6] * Place[6] ELSE 0)
                   + (IF 7 <= k THEN b[7] * Place[7] ELSE 0) + (IF 8 <= k THEN b[8] * Place[8] ELSE 0)
  <2> HIDE DEF b
  <2> QED
    BY <1>3 DEF ValueOf
<1> HIDE DEF b, D, M
<1>6. /\ M(2) = M(1) + D(1) /\ M(3) = M(2) + D(2) /\ M(4) = M(3) + D(3) /\ M(5) = M(4) + D(4)
      /\ M(6) = M(5) + D(5) /\ M(7) = M(6) + D(6) /\ M(8) = M(7) + D(7) /\ M(9) = M(8) + D(8)
  <2>1. ASSUME NEW j \in 1 .. 8, NEW i, i = j + 1 PROVE M(i) = M(j) + D(j)
    BY <1>1, <2>1
  <2> QED
    BY <2>1
<1>7. \A j \in 1 .. 8 : M(j) \in Int /\ D(j) \in Int
  BY <1>1
<1>8. ValueOf(b) = M(k + 1)
  <2>1. CASE k = 1
    <3>1. b[1] * Place[1] = D(1)
      BY <1>4, <2>1
    <3> QED
      BY <3>1, <1>2, <1>5, <1>6, <1>7, <2>1
  <2>2. CASE k = 2
    <3>1. b[1] * Place[1] = D(1) /\ b[2] * Place[2] = D(2)
      BY <1>4, <2>2
    <3> QED
      BY <3>1, <1>2, <1>5, <1>6, <1>7, <2>2
  <2>3. CASE k = 4
    <3>1. /\ b[1] * Place[1] = D(1) /\ b[2] * Place[2] = D(2)
          /\ b[3] * Place[3] = D(3) /\ b[4] * Place[4] = D(4)
      BY <1>4, <2>3
    <3> QED
      BY <3>1, <1>2, <1>5, <1>6, <1>7, <2>3
  <2>4. CASE k = 8
    <3>1. /\ b[1] * Place[1] = D(1) /\ b[2] * Place[2] = D(2)
          /\ b[3] * Place[3] = D(3) /\ b[4] * Place[4] = D(4)
          /\ b[5] * Place[5] = D(5) /\ b[6] * Place[6] = D(6)
          /\ b[7] * Place[7] = D(7) /\ b[8] * Place[8] = D(8)
      BY <1>4, <2>4
    <3> QED
      BY <3>1, <1>2, <1>5, <1>6, <1>7, <2>4
  <2> QED
    BY <2>1, <2>2, <2>3, <2>4
<1> QED
  BY <1>8 DEF b, M

-----------------------------------------------------------------------------
(* Operands. *)

\* The sizes of all commands.
Sizes == {"8", "16", "32", "64", "BLOCK", "BYTE", "QUICK", "PROC_CALL",
          "BLOCK_PROC_CALL", "WRITE_READ"}

\* Which sizes each command has.
LEMMA OpSizes ==
  ASSUME NEW op \in Ops
  PROVE  /\ op.size \in Sizes
         /\ op.entry \in {"smbus_read", "smbus_write", "smbus_process_call", "smbus_writeread"}
         /\ op.entry = "smbus_read" => op.size \in ReadSizes
         /\ op.entry = "smbus_process_call" <=> op.size \in {"PROC_CALL", "BLOCK_PROC_CALL"}
         /\ op.entry = "smbus_writeread" <=> op.size = "WRITE_READ"
BY DEF Ops, ReadSizes, Sizes

\* An operand that parse_uint8() accepts spells the byte it becomes.
LEMMA UintSpells ==
  ASSUME NEW o \in Operand, parse_uint8(o)
  PROVE  Spells(o, Parse(o.n, ULong))
<1> DEFINE n == o.n
<1>1. n \in Int /\ ~o.junk /\ Parse(n, ULong) < Byte
  BY DEF Operand, parse_uint8, Plain
<1>2. Byte \in Nat /\ ULong \in Nat /\ ULong > 2 * Byte /\ Byte > 1
  BY SmbusAssumption
<1> HIDE DEF n
<1>3. Parse(n, ULong) \in 0 .. Byte - 1 /\ n \in {Parse(n, ULong), Parse(n, ULong) - ULong}
  BY <1>1, <1>2 DEF Parse
<1> QED
  BY <1>1, <1>3 DEF Spells, n

\* parse_io_width() accepts no junk, no LONG_MAX below 32 bits, and nothing but
\* 0 and 1 for a quick command.
LEMMA AcceptedValue ==
  ASSUME NEW size \in Sizes, ~Block(size),
         NEW val \in Operand, NEW text, WidthOk(size, val, text)
  PROVE  /\ ~val.junk
         /\ size \notin {"32", "64"} => val.n # LONG_MAX
         /\ size = "QUICK" => val.n \in {0, 1, 1 - ULong}
<1> DEFINE n == val.n
<1>0. ULong \in Nat /\ ULong > 4 /\ n \in Int
  BY SmbusAssumption DEF Operand
<1>1. CASE size \in {"32", "64"}
  BY <1>1 DEF WidthOk, Block
<1>2. CASE size \notin {"32", "64"}
  <2>1. Plain(val) /\ (size = "QUICK" => Parse(val.n, ULong) \in {0, 1})
    <3>1. CASE size = "QUICK"
      BY <3>1 DEF WidthOk, Block
    <3>2. CASE size \in {"BYTE", "8", "16", "PROC_CALL"}
      BY <3>2 DEF WidthOk, Block
    <3> QED
      BY <1>2, <3>1, <3>2 DEF Sizes, Block
  <2>2. ~val.junk /\ Parse(n, ULong) # LONG_MAX /\ (size = "QUICK" => Parse(n, ULong) \in {0, 1})
    BY <2>1 DEF Plain
  <2> HIDE DEF n
  <2>3. LONG_MAX \in 0 .. ULong - 1
    BY <1>0 DEF LONG_MAX
  <2>4. n # LONG_MAX
    BY <1>0, <2>2, <2>3, ParseRange
  <2>5. Parse(n, ULong) \in {0, 1} => n \in {0, 1, 1 - ULong}
    BY <1>0 DEF Parse
  <2> QED
    BY <1>2, <2>2, <2>4, <2>5 DEF n
<1> QED
  BY <1>1, <1>2

\* An accepted value has as many bytes as its command's width, and a block
\* one for every two digits, of which there are no more than the buffer takes.
LEMMA AcceptedData ==
  ASSUME NEW size \in Sizes,
         NEW val \in Operand, NEW text \in Text, WidthOk(size, val, text)
  PROVE  /\ WidthData(size, val, text) \in Seq(0 .. Byte - 1)
         /\ Len(WidthData(size, val, text)) <= (IF Block(size) THEN BLOCK_MAX ELSE 8)
         /\ Block(size) =>
              /\ ~text.junk
              /\ 2 * Len(WidthData(size, val, text)) = text.digits
              /\ WidthData(size, val, text) = <<>> => text.x
         /\ ~Block(size) =>
              /\ Len(WidthData(size, val, text)) = NominalWidth[size]
              /\ val.n \in 0 .. ULong - 1 =>
                   ValueOf(WidthData(size, val, text))
                     = val.n % Place[Len(WidthData(size, val, text)) + 1]
<1>0. /\ Byte \in Nat /\ Byte > 0 /\ ULong \in Nat /\ ULong > 0 /\ U64 \in Nat /\ U64 > 0
      /\ BLOCK_MAX \in Nat /\ ULong <= U64
  BY SmbusAssumption
<1> DEFINE data1 == WidthData(size, val, text)
<1>1. CASE Block(size)
  <2> DEFINE k == text.digits \div 2
             dg == text.digits
  <2>1. data1 = Pattern(k, 0)
    BY <1>1 DEF WidthData, Block
  <2>2. BlockOk(text) /\ dg \in Nat
    BY <1>1 DEF WidthOk, Text, Block
  <2>3. dg % 2 = 0 /\ k <= BLOCK_MAX
    BY <2>2 DEF BlockOk, TextLength
  <2> HIDE DEF dg
  <2>4. dg \div 2 \in Nat /\ 2 * (dg \div 2) = dg
    BY <2>2, <2>3
  <2>5. k \in Nat /\ 2 * k = text.digits
    BY <2>4 DEF dg
  <2> HIDE DEF k
  <2>6. Len(Pattern(k, 0)) = k
    BY <2>5 DEF Pattern
  <2>7. Pattern(k, 0) \in Seq(0 .. Byte - 1)
    <3>1. ASSUME NEW j \in 1 .. k PROVE (j + 0) % Byte \in 0 .. Byte - 1
      BY <1>0, <2>5, ModRange
    <3> QED
      BY <2>5, <3>1 DEF Pattern
  <2>8. data1 = <<>> => text.x
    <3>1. data1 = <<>> => k = 0
      BY <2>1, <2>6
    <3>2. text.digits = 0 => text.x
      BY <2>2 DEF BlockOk, TextLength
    <3> QED
      BY <2>5, <3>1, <3>2
  <2>9. ~text.junk
    BY <2>2 DEF BlockOk
  <2> QED
    BY <1>1, <2>1, <2>3, <2>5, <2>6, <2>7, <2>8, <2>9
<1>2. CASE ~Block(size)
  <2> DEFINE n == IF size = "64" THEN Parse(val.n, U64) ELSE Parse(val.n, ULong)
             k == NominalWidth[size]
             v == val.n
  <2>1. v \in Int
    BY DEF Operand
  <2>0. size \in {"8", "16", "32", "64", "BYTE", "QUICK", "PROC_CALL"}
    BY <1>2 DEF Block, Sizes
  <2>2. k \in {1, 2, 4, 8} /\ k = Width(size)
    <3>1. k = CASE size \in {"16", "PROC_CALL"} -> 2 [] size = "32" -> 4 [] size = "64" -> 8
                [] OTHER -> 1
      BY <2>0 DEF NominalWidth
    <3>2. CASE size \in {"16", "PROC_CALL"}
      <4>1. k = 2 /\ Width(size) = 2
        BY <3>1, <3>2 DEF Width
      <4> QED
        BY <4>1
    <3>3. CASE size = "32"
      <4>1. k = 4 /\ Width(size) = 4
        BY <3>1, <3>3 DEF Width
      <4> QED
        BY <4>1
    <3>4. CASE size = "64"
      <4>1. k = 8 /\ Width(size) = 8
        BY <3>1, <3>4 DEF Width
      <4> QED
        BY <4>1
    <3>5. CASE size \in {"8", "BYTE", "QUICK"}
      <4>1. k = 1 /\ Width(size) = 1
        BY <3>1, <3>5 DEF Width
      <4> QED
        BY <4>1
    <3> QED
      BY <2>0, <3>2, <3>3, <3>4, <3>5
  <2>3. data1 = BytesOf(n, k)
    <3>1. CASE size = "64"
      <4>1. k = 8
        BY <3>1, <2>2 DEF Width
      <4>2. n = Parse(val.n, U64)
        BY <3>1
      <4>3. data1 = BytesOf(Parse(val.n, U64), 8)
        BY <1>2, <3>1 DEF WidthData
      <4> QED
        BY <4>1, <4>2, <4>3
    <3>2. CASE size # "64"
      <4>1. n = Parse(val.n, ULong)
        BY <3>2
      <4>2. data1 = BytesOf(Parse(val.n, ULong), Width(size))
        BY <1>2, <3>2 DEF WidthData
      <4> QED
        BY <4>1, <4>2, <2>2
    <3> QED
      BY <3>1, <3>2
  <2> HIDE DEF v, k
  <2>4. n \in Nat /\ (v \in 0 .. ULong - 1 => n = v)
    <3>1. /\ Parse(v, ULong) \in 0 .. ULong - 1 /\ (v \in 0 .. ULong - 1 => Parse(v, ULong) = v)
          /\ Parse(v, U64) \in 0 .. U64 - 1 /\ (v \in 0 .. U64 - 1 => Parse(v, U64) = v)
      BY <1>0, <2>1, ParseRange
    <3> QED
      BY <1>0, <2>1, <3>1 DEF v
  <2> HIDE DEF n
  <2>5. k \in 0 .. 8
    BY <2>2
  <2>6. BytesOf(n, k) \in Seq(0 .. Byte - 1) /\ Len(BytesOf(n, k)) = k
    BY <2>4, <2>5, BytesTyped
  <2>7. ValueOf(BytesOf(n, k)) = n % Place[k + 1]
    BY <2>2, <2>4, BytesSpell
  <2>8. data1 \in Seq(0 .. Byte - 1) /\ Len(data1) = k /\ k <= 8
    BY <2>2, <2>3, <2>6
  <2>9. v \in 0 .. ULong - 1 => ValueOf(data1) = v % Place[Len(data1) + 1]
    BY <2>3, <2>4, <2>7, <2>8
  <2> QED
    BY <1>2, <2>8, <2>9 DEF v, k
<1> QED
  BY <1>1, <1>2

-----------------------------------------------------------------------------
(* The buffer. *)

\* A buffer of bytes, no longer than the kind of transaction allows.
Room(size) == IF Block(size) THEN BLOCK_MAX ELSE 8
Fits(size, bytes) == bytes \in Seq(0 .. Byte - 1) /\ Len(bytes) <= Room(size)

\* A reply has one of the lengths the slave may choose, in bytes.
LEMMA ReplyTyped ==
  ASSUME NEW lengths \in SUBSET Nat, NEW reply \in Replies(lengths)
  PROVE  reply \in Seq(0 .. Byte - 1) /\ Len(reply) \in lengths
<1>0. Byte \in Nat /\ Byte > 0
  BY SmbusAssumption
<1>1. PICK k \in lengths, b \in 0 .. Byte - 1 : reply = Pattern(k, b)
  BY DEF Replies
<1>2. \A j \in 1 .. k : (j + b) % Byte \in 0 .. Byte - 1
  BY <1>0, ModRange
<1> QED
  BY <1>1, <1>2 DEF Pattern

\* A reply replaces the start of the buffer and nothing else: its bytes come
\* out again, whatever the buffer held, and no reply leaves the buffer alone.
LEMMA FilledBuffer ==
  ASSUME NEW buffer \in Seq(0 .. Byte - 1), NEW reply \in Seq(0 .. Byte - 1)
  PROVE  /\ Filled(buffer, reply) \in Seq(0 .. Byte - 1)
         /\ Len(Filled(buffer, reply)) <= Len(buffer) \/ Len(Filled(buffer, reply)) = Len(reply)
         /\ First(Filled(buffer, reply), Len(reply)) = reply
         /\ reply = <<>> => Filled(buffer, reply) = buffer
<1> DEFINE rest == SubSeq(buffer, Len(reply) + 1, Len(buffer))
           f == Filled(buffer, reply)
<1>1. rest \in Seq(0 .. Byte - 1)
  <2>1. \A j \in 1 .. Len(buffer) : buffer[j] \in 0 .. Byte - 1
    BY ElementOfSeq
  <2> DEFINE m == Len(reply) + 1
             n == Len(buffer)
  <2>2. m \in Int /\ n \in Int /\ \A j \in m .. n : j \in 1 .. Len(buffer)
    OBVIOUS
  <2>3. \A j \in m .. n : buffer[j] \in 0 .. Byte - 1
    BY <2>1, <2>2
  <2> HIDE DEF m, n
  <2>4. SubSeq(buffer, m, n) \in Seq(0 .. Byte - 1)
    BY <2>2, <2>3, SubSeqProperties
  <2> QED
    BY <2>4 DEF m, n
<1>2. Len(rest) = IF Len(reply) < Len(buffer) THEN Len(buffer) - Len(reply) ELSE 0
  OBVIOUS
<1>3. f = reply \o rest
  BY DEF Filled
<1>4. reply = <<>> => rest = buffer
  OBVIOUS
<1> HIDE DEF rest, f
<1>5. /\ f \in Seq(0 .. Byte - 1) /\ Len(f) = Len(reply) + Len(rest)
      /\ \A j \in 1 .. Len(reply) : f[j] = reply[j]
  BY <1>1, <1>3
<1>6. Len(f) <= Len(buffer) \/ Len(f) = Len(reply)
  BY <1>2, <1>5
<1>7. First(f, Len(reply)) = reply
  <2>1. \A j \in 1 .. Len(reply) : j <= Len(f)
    BY <1>1, <1>5
  <2>2. First(f, Len(reply)) = [j \in 1 .. Len(reply) |-> reply[j]]
    BY <1>5, <2>1 DEF First
  <2> QED
    BY <2>2
<1>8. reply = <<>> => f = buffer
  BY <1>1, <1>3, <1>4
<1> QED
  BY <1>5, <1>6, <1>7, <1>8 DEF f

-----------------------------------------------------------------------------
(* The inductive invariant. *)

\* The file is open and the handler has not returned.
Attached == pc \in {"parse", "count", "force", "perform"}

\* smbus_prologue() accepted its operands.
OperandsGood ==
  /\ parse_uint8(req.adapter) /\ parse_uint8(req.address)
  /\ HasRegister(req.op.size) => parse_uint8(req.reg)

\* The value operand, where there is one, was accepted and fills the buffer.
Parsed ==
  req.op.entry # "smbus_read" =>
    /\ WidthOk(req.op.size, req.val, req.text)
    /\ data = WidthData(req.op.size, req.val, req.text)

\* Nothing is missing of what a 32 or 64 bit read asked for.
Whole(reply) ==
  req.op \in [entry : {"smbus_read"}, size : {"32", "64"}] =>
    Len(reply) = NominalWidth[req.op.size]

\* The commands that print the reply.
PrintsIt ==
  /\ req.op.entry # "smbus_write"
  /\ req.op.size \in ReadSizes \union {"BLOCK_PROC_CALL", "WRITE_READ"}

\* The count of a write-read was accepted.
Counted ==
  req.op.size = "WRITE_READ" => CountOk /\ read_count = Parse(req.count.n, ULong)

\* What a command that prints the reply shows: the reply, or, if the transfer
\* stopped half way, what it was to send.
Answers(whole, payload, reply, printed) ==
  /\ printed = <<printed[1]>>
  /\ whole => printed = <<reply>>
  /\ ~whole => \A j \in DOMAIN printed[1] :
                 printed[1][j] = IF j <= Len(payload) THEN payload[j] ELSE 0

\* How a handler may have ended after its transaction.
Sent(w) ==
  /\ w.op = req.op /\ w.register = Register
  /\ w.adapter = Parse(req.adapter.n, ULong) /\ w.address = Parse(req.address.n, ULong)
  /\ req.op.entry # "smbus_read" =>
       /\ WidthOk(req.op.size, req.val, req.text)
       /\ w.payload = WidthData(req.op.size, req.val, req.text)
  /\ req.op.size = "WRITE_READ" =>
       CountOk /\ (w.whole => Len(w.reply) = Parse(req.count.n, ULong))
  /\ ~w.stolen

Performed ==
  /\ OperandsGood
  /\ wire = <<wire[1]>> /\ Sent(wire[1])
  /\ rc = 0 <=> wire[1].ok /\ Whole(wire[1].reply)
  /\ rc # 0 => out = <<>>
  /\ rc = 0 /\ PrintsIt => Answers(wire[1].whole, wire[1].payload, wire[1].reply, out)

\* Before it, or without one.
Refused == wire = <<>> /\ out = <<>> /\ rc = -1

Leaked == req.op.entry = "smbus_writeread" /\ ~CountOk

\* A driver that owns the slave came after this process had attached.
CameLater == bound => raced
Flags == bound \in BOOLEAN /\ raced \in BOOLEAN

SmbusInv ==
  /\ TypeOK
  /\ req \in Reqs /\ Flags
  /\ Attached => fd = "open" /\ OperandsGood
  /\ fd = "open" => (Attached \/ (pc = "exited" /\ Leaked)) /\ CameLater
  /\ pc \in {"count", "force", "perform"} => Parsed
  /\ pc \in {"count", "force"} => (pc = "count" <=> req.op.entry = "smbus_writeread")
  /\ pc = "perform" => Counted
  /\ pc # "exited" => wire = <<>> /\ out = <<>>
  /\ pc = "exited" => Refused \/ Performed

\* What an invocation is made of.
LEMMA RequestTyped ==
  ASSUME req \in Reqs
  PROVE  /\ req.op \in Ops /\ req.val \in Operand /\ req.text \in Text
         /\ req.count \in Operand /\ req.reg \in Operand
         /\ req.adapter \in Operand /\ req.address \in Operand
BY SmbusAssumption DEF Request

\* The width of a long read is the one in its name.
LEMMA LongWidths ==
  ASSUME NEW size \in {"32", "64"}
  PROVE  Width(size) = NominalWidth[size]
<1>1. CASE size = "32"
  BY <1>1 DEF Width, NominalWidth
<1>2. CASE size = "64"
  BY <1>2 DEF Width, NominalWidth
<1> QED
  BY <1>1, <1>2

\* The start of a process.
LEMMA InitSmbus == Init => SmbusInv
<1> SUFFICES ASSUME Init PROVE SmbusInv
  OBVIOUS
<1>1. TypeOK
  <2>1. Len(data) = 0 /\ data \in Seq(0 .. Byte - 1) /\ BLOCK_MAX \in Nat
    BY SmbusAssumption DEF Init
  <2> QED
    BY <2>1 DEF Init, TypeOK
<1>2. Flags
  BY DEF Init, Flags
<1> QED
  BY <1>1, <1>2 DEF Init, SmbusInv, Attached

\* smbus_prologue() accepts, refuses, or finds the slave taken.
LEMMA PrologueKeeps ==
  ASSUME SmbusInv, smbus_prologue
  PROVE  SmbusInv'
<1> USE DEF SmbusInv
<1>1. pc = "start" /\ UNCHANGED <<req, bound, data, read_count, wire, out>> /\ fd = "closed"
  BY DEF smbus_prologue, Attached, TypeOK
<1>2. CASE Return(-1) /\ UNCHANGED <<fd, raced>>
  <2>1. Flags'
    BY <1>1, <1>2 DEF Flags
  <2> QED
    BY <1>1, <1>2, <2>1 DEF Return, TypeOK, Attached, Refused
<1>3. CASE /\ OperandsGood
           /\ SlaveFree /\ fd' = "open" /\ raced' = FALSE
           /\ pc' = IF req.op.entry = "smbus_read" THEN "perform" ELSE "parse"
           /\ UNCHANGED rc
  <2>1. OperandsGood'
    BY <1>1, <1>3 DEF OperandsGood
  <2>2. TypeOK'
    BY <1>1, <1>3 DEF TypeOK
  <2>3. pc' = "perform" => Parsed' /\ Counted'
    <3>1. req.op \in Ops
      BY RequestTyped
    <3>2. req.op.entry = "smbus_read" => req.op.size # "WRITE_READ"
      BY <3>1, OpSizes
    <3> QED
      BY <1>1, <1>3, <3>2 DEF Parsed, Counted
  <2>4. Flags' /\ CameLater'
    BY <1>1, <1>3, Zenon DEF Flags, CameLater, SlaveFree
  <2> QED
    BY <1>1, <1>3, <2>1, <2>2, <2>3, <2>4 DEF Attached
<1> QED
  BY <1>2, <1>3 DEF smbus_prologue, OperandsGood

\* parse_io_width(), with the file open.
LEMMA ParseKeeps ==
  ASSUME SmbusInv, NEW next \in {"force", "count"}, ParseValue(next),
         next = "count" <=> req.op.entry = "smbus_writeread"
  PROVE  SmbusInv'
<1> USE DEF SmbusInv
<1>1. pc = "parse" /\ UNCHANGED <<req, bound, raced, read_count, wire, out>>
  BY DEF ParseValue
<1>0. Flags' /\ (CameLater' <=> CameLater)
  BY <1>1 DEF Flags, CameLater
<1>2. CASE Return(-1) /\ fd' = FdAfterBadValue /\ UNCHANGED data
  BY <1>0, <1>1, <1>2 DEF Return, FdAfterBadValue, TypeOK, Attached, Refused
<1>3. CASE /\ WidthOk(req.op.size, req.val, req.text)
           /\ data' = WidthData(req.op.size, req.val, req.text)
           /\ pc' = next
           /\ UNCHANGED <<fd, rc>>
  <2>1. OperandsGood'
    BY <1>1, <1>3 DEF OperandsGood, Attached
  <2>2. TypeOK'
    <3>1. req.op \in Ops /\ req.val \in Operand /\ req.text \in Text
      BY RequestTyped
    <3>2. req.op.size \in Sizes
      BY <3>1, OpSizes
    <3>3. data' \in Seq(0 .. Byte - 1)
          /\ Len(data') <= (IF Block(req.op.size) THEN BLOCK_MAX ELSE 8)
      BY <1>3, <3>1, <3>2, AcceptedData
    <3> QED
      BY <1>1, <1>3, <3>3 DEF TypeOK
  <2>3. Parsed'
    BY <1>1, <1>3 DEF Parsed
  <2> QED
    BY <1>0, <1>1, <1>3, <2>1, <2>2, <2>3 DEF Attached
<1> QED
  BY <1>2, <1>3 DEF ParseValue

\* The read count of smbus_writeread().
LEMMA CountKeeps ==
  ASSUME SmbusInv, parse_read_count
  PROVE  SmbusInv'
<1> USE DEF SmbusInv
<1>1. pc = "count" /\ UNCHANGED <<req, fd, bound, raced, data, wire, out>>
      /\ req.op.entry = "smbus_writeread"
  BY DEF parse_read_count
<1>0. Flags' /\ (CameLater' <=> CameLater)
  BY <1>1 DEF Flags, CameLater
<1>2. CASE ~CountOk /\ Return(-1) /\ UNCHANGED read_count
  <2>1. Leaked'
    BY <1>1, <1>2 DEF Leaked, CountOk
  <2> QED
    BY <1>0, <1>1, <1>2, <2>1 DEF Return, TypeOK, Attached, Refused
<1>3. CASE CountOk /\ read_count' = Parse(req.count.n, ULong) /\ pc' = "perform" /\ UNCHANGED rc
  <2>1. OperandsGood' /\ Parsed' /\ Counted'
    BY <1>1, <1>3 DEF OperandsGood, Attached, Parsed, Counted, CountOk
  <2>2. read_count' \in 0 .. BLOCK_MAX
    <3> DEFINE n == req.count.n
    <3>1. n \in Int
      BY RequestTyped DEF Operand
    <3>2. Parse(n, ULong) <= BLOCK_MAX /\ read_count' = Parse(n, ULong)
      BY <1>3 DEF CountOk
    <3> HIDE DEF n
    <3>3. ULong \in Nat /\ ULong > 0 /\ BLOCK_MAX \in Nat
      BY SmbusAssumption
    <3>4. Parse(n, ULong) \in 0 .. ULong - 1
      BY <3>1, <3>3, ParseRange
    <3> QED
      BY <3>2, <3>3, <3>4
  <2>3. TypeOK'
    BY <1>1, <1>3, <2>2 DEF TypeOK
  <2> QED
    BY <1>0, <1>1, <1>3, <2>1, <2>3 DEF Attached
<1> QED
  BY <1>2, <1>3 DEF parse_read_count

\* I2C_SLAVE_FORCE.
LEMMA ForceKeeps ==
  ASSUME SmbusInv, slave_force
  PROVE  SmbusInv'
<1> USE DEF SmbusInv
<1>1. pc = "force" /\ UNCHANGED <<req, bound, raced, data, read_count, wire, out>>
  BY DEF slave_force
<1>0. Flags' /\ (CameLater' <=> CameLater)
  BY <1>1 DEF Flags, CameLater
<1>2. CASE pc' = "perform" /\ UNCHANGED <<fd, rc>>
  <2>1. OperandsGood' /\ Parsed'
    BY <1>1, <1>2 DEF OperandsGood, Attached, Parsed
  <2>2. Counted'
    <3>1. req.op \in Ops
      BY RequestTyped
    <3>2. req.op.size # "WRITE_READ"
      BY <1>1, <3>1, OpSizes
    <3> QED
      BY <1>1, <3>2 DEF Counted
  <2> QED
    BY <1>0, <1>1, <1>2, <2>1, <2>2 DEF Attached, TypeOK
<1>3. CASE Return(-1) /\ fd' = "closed"
  BY <1>0, <1>1, <1>3 DEF Return, Attached, TypeOK, Refused
<1> QED
  BY <1>2, <1>3 DEF slave_force

\* A driver comes or goes.
LEMMA DriverKeeps ==
  ASSUME SmbusInv, driver
  PROVE  SmbusInv'
<1> USE DEF SmbusInv
<1>1. /\ UNCHANGED <<req, pc, fd, data, read_count, wire, out, rc>> /\ pc # "exited"
      /\ bound' = ~bound
  BY DEF driver
<1>2. fd = "open" => CameLater'
  BY Zenon DEF driver, CameLater
<1>3. Flags'
  BY Zenon DEF driver, Flags
<1>4. OperandsGood' = OperandsGood /\ Parsed' = Parsed /\ Counted' = Counted
  BY <1>1 DEF OperandsGood, Parsed, Counted, CountOk
<1> QED
  BY <1>1, <1>2, <1>3, <1>4 DEF Attached, TypeOK

\* One transaction, whichever command makes it.
LEMMA TransactKeeps ==
  ASSUME SmbusInv, NEW reply, NEW whole, NEW buffer, NEW complete \in BOOLEAN, NEW printed,
         Transact(reply, whole, buffer, complete, printed),
         Fits(req.op.size, buffer),
         complete <=> Whole(reply),
         complete /\ PrintsIt => Answers(whole, data, reply, printed),
         req.op.size = "WRITE_READ" => (whole => Len(reply) = read_count)
  PROVE  SmbusInv'
<1> USE DEF SmbusInv
<1>1. /\ pc = "perform" /\ pc' = "exited" /\ fd' = "closed"
      /\ UNCHANGED <<req, bound, raced, read_count>>
  BY DEF Transact, Return
<1> DEFINE W(b, st) ==
             [op |-> req.op, adapter |-> Parse(req.adapter.n, ULong),
              address |-> Parse(req.address.n, ULong),
              register |-> Register, payload |-> data, reply |-> reply,
              whole |-> whole, ok |-> b, stolen |-> st]
<1>2. PICK ok \in BOOLEAN :
        /\ wire' = Append(wire, W(ok, bound /\ ~raced))
        /\ data' = IF ok THEN buffer ELSE data
        /\ \/ ok /\ complete /\ Return(0) /\ out' = out \o printed
           \/ ~(ok /\ complete) /\ Return(-1) /\ UNCHANGED out
  BY DEF Transact
<1>3. /\ wire = <<>> /\ out = <<>> /\ fd = "open" /\ CameLater
      /\ OperandsGood /\ Parsed /\ Counted
  BY <1>1 DEF Attached
<1>4. (bound /\ ~raced) = FALSE
  BY <1>3, Zenon DEF CameLater
<1> DEFINE w == W(ok, FALSE)
<1>5. wire' = <<w>>
  <2>1. wire' = Append(wire, w)
    BY <1>2, <1>4, Zenon
  <2> QED
    BY <1>3, <2>1
<1>6. /\ w.op = req.op /\ w.register = Register /\ w.payload = data /\ w.reply = reply
      /\ w.adapter = Parse(req.adapter.n, ULong) /\ w.address = Parse(req.address.n, ULong)
      /\ w.whole = whole /\ w.ok = ok /\ w.stolen = FALSE
  OBVIOUS
<1> HIDE DEF w, W
<1>7. wire' = <<wire'[1]>> /\ wire'[1] = w
  BY <1>5
<1>8. OperandsGood' /\ Register' = Register /\ CountOk' = CountOk
  BY <1>1, <1>3 DEF OperandsGood, Register, CountOk
<1>9. (wire[1].ok)' = ok /\ (Whole(wire[1].reply))' = Whole(reply) /\ PrintsIt' = PrintsIt
  BY <1>1, <1>6, <1>7 DEF Whole, PrintsIt
<1>10. rc' \in {-1, 0} /\ (rc' = 0 <=> ok /\ Whole(reply))
  BY <1>2 DEF Return
<1>11. /\ rc' # 0 => out' = <<>>
       /\ rc' = 0 /\ PrintsIt => Answers(whole, data, reply, out')
  <2>1. CASE ok /\ complete /\ Return(0) /\ out' = out \o printed
    <3>1. rc' = 0
      BY <2>1 DEF Return
    <3>2. PrintsIt => out' = printed
      BY <1>3, <2>1
    <3> QED
      BY <2>1, <3>1, <3>2
  <2>2. CASE ~(ok /\ complete) /\ Return(-1) /\ UNCHANGED out
    BY <1>3, <2>2 DEF Return
  <2> QED
    BY <1>2, <2>1, <2>2
<1>12. Sent(wire[1])'
  BY <1>1, <1>3, <1>6, <1>7, <1>8 DEF Sent, Parsed, Counted
<1>13. Performed'
  <2>1. rc' = 0 /\ PrintsIt' =>
          Answers(wire'[1].whole, wire'[1].payload, wire'[1].reply, out')
    BY <1>6, <1>7, <1>9, <1>11
  <2> QED
    BY <1>7, <1>8, <1>9, <1>10, <1>11, <1>12, <2>1 DEF Performed
<1>14. TypeOK'
  BY <1>1, <1>2, <1>10 DEF TypeOK, Fits, Room
<1>15. Flags'
  BY <1>1 DEF Flags
<1> QED
  BY <1>1, <1>13, <1>14, <1>15 DEF Attached

\* The commands that read.
LEMMA ReadKeeps ==
  ASSUME SmbusInv, smbus_read_op
  PROVE  SmbusInv'
<1> DEFINE size == req.op.size
<1>1. req.op.entry = "smbus_read"
  BY DEF smbus_read_op
<1>2. PICK reply \in Replies(ReadLengths) :
        Transact(reply, TRUE, Filled(<<>>, reply), Complete(reply),
                 print_read_data(size, Len(reply), Filled(<<>>, reply)))
  BY DEF smbus_read_op
<1>3. req.op \in Ops /\ size \in ReadSizes /\ BLOCK_MAX \in Nat /\ BLOCK_MAX > 0
  BY <1>1, RequestTyped, OpSizes, SmbusAssumption DEF SmbusInv
<1>4. Complete(reply) <=> Whole(reply)
  <2>1. req.op \in [entry : {"smbus_read"}, size : {"32", "64"}] <=> req.op.size \in {"32", "64"}
    BY <1>1, <1>3 DEF Ops, ReadSizes
  <2>2. req.op.size \in {"32", "64"} => Width(req.op.size) = NominalWidth[req.op.size]
    BY LongWidths
  <2> QED
    BY <2>1, <2>2 DEF Complete, Whole
<1>5. Complete(reply) \in BOOLEAN
  BY DEF Complete
<1>6. /\ ReadLengths \in SUBSET (0 .. Room(size))
      /\ ~Block(size) => Width(size) \in Nat
      /\ Complete(reply) /\ ~Block(size) => ReadLengths = {Width(size)} \/ Len(reply) = Width(size)
  <2>1. CASE size = "BLOCK"
    BY <1>3, <2>1 DEF ReadLengths, Room, Block
  <2>2. CASE size \in {"32", "64"}
    <3>1. Width(size) \in 0 .. 8
      BY <2>2 DEF Width
    <3>2. ReadLengths = 0 .. Width(size)
      BY <2>2 DEF ReadLengths
    <3> QED
      BY <2>2, <3>1, <3>2 DEF Room, Block, Complete
  <2>3. CASE size \in {"8", "16", "BYTE"}
    <3>1. Width(size) \in 0 .. 8
      BY <2>3 DEF Width
    <3>2. ReadLengths = {Width(size)}
      BY <2>3 DEF ReadLengths
    <3> QED
      BY <2>3, <3>1, <3>2 DEF Room, Block
  <2> QED
    BY <1>3, <2>1, <2>2, <2>3 DEF ReadSizes
<1> DEFINE lengths == ReadLengths
<1>7. lengths \in SUBSET Nat /\ reply \in Replies(lengths) /\ lengths \in SUBSET (0 .. Room(size))
  BY <1>2, <1>3, <1>6 DEF Room
<1> HIDE DEF lengths
<1>8. reply \in Seq(0 .. Byte - 1) /\ Len(reply) \in lengths
  BY <1>7, ReplyTyped
<1>9. Len(reply) \in 0 .. Room(size) /\ (Complete(reply) /\ ~Block(size) => Len(reply) = Width(size))
  BY <1>6, <1>7, <1>8 DEF lengths
<1> DEFINE buffer == Filled(<<>>, reply)
           complete == Complete(reply)
           printed == print_read_data(size, Len(reply), buffer)
<1>10. /\ buffer \in Seq(0 .. Byte - 1)
       /\ Len(buffer) <= Len(<<>>) \/ Len(buffer) = Len(reply)
       /\ First(buffer, Len(reply)) = reply
  <2>1. <<>> \in Seq(0 .. Byte - 1)
    OBVIOUS
  <2> QED
    BY <1>8, <2>1, FilledBuffer
<1>11. complete => printed = <<reply>>
  <2> HIDE DEF buffer
  <2>1. CASE Block(size)
    <3>1. Len(reply) <= BLOCK_MAX /\ Len(reply) \in Nat
      BY <1>3, <1>9, <2>1 DEF Room
    <3>2. printed = <<First(buffer, Len(reply))>>
      BY <1>3, <2>1, <3>1 DEF print_read_data
    <3> QED
      BY <1>10, <3>2
  <2>2. CASE ~Block(size)
    <3>1. printed = <<First(buffer, Width(size))>>
      BY <2>2 DEF print_read_data
    <3> QED
      BY <1>9, <1>10, <2>2, <3>1
  <2> QED
    BY <2>1, <2>2
<1>12. Fits(size, buffer)
  <2> HIDE DEF buffer
  <2>1. Len(<<>>) = 0 /\ Room(size) \in Nat
    BY <1>3 DEF Room
  <2> QED
    BY <1>9, <1>10, <2>1 DEF Fits
<1>13. complete => Answers(TRUE, data, reply, printed)
  BY <1>11 DEF Answers
<1>14. size # "WRITE_READ"
  BY <1>3 DEF ReadSizes
<1>15. Transact(reply, TRUE, buffer, complete, printed) /\ complete \in BOOLEAN
       /\ (complete <=> Whole(reply))
  BY <1>2, <1>4, <1>5
<1> HIDE DEF complete, printed, buffer
<1> QED
  BY <1>12, <1>13, <1>14, <1>15, TransactKeeps

\* The commands that write.
LEMMA WriteKeeps ==
  ASSUME SmbusInv, smbus_write_op
  PROVE  SmbusInv'
<1>1. req.op.entry = "smbus_write" /\ Transact(<<>>, TRUE, data, TRUE, <<>>)
  BY DEF smbus_write_op
<1>2. Whole(<<>>) /\ ~PrintsIt
  BY <1>1 DEF Whole, PrintsIt
<1>3. req.op \in Ops
  BY RequestTyped DEF SmbusInv
<1>4. Fits(req.op.size, data) /\ req.op.size # "WRITE_READ"
  BY <1>1, <1>3, OpSizes DEF SmbusInv, TypeOK, Fits, Room
<1> QED
  BY <1>1, <1>2, <1>4, TransactKeeps

\* A word process call leaves the word sent in the buffer.
LEMMA ProcessCallKeeps ==
  ASSUME SmbusInv, smbus_process_call_op
  PROVE  SmbusInv'
<1> DEFINE printed == print_read_data("16", 0, data)
<1>1. PICK reply : req.op.size = "PROC_CALL" /\ Transact(reply, TRUE, data, TRUE, printed)
  BY DEF smbus_process_call_op
<1>2. req.op \in Ops
  BY RequestTyped DEF SmbusInv
<1>3. Whole(reply) /\ ~PrintsIt
  BY <1>1, <1>2 DEF Whole, PrintsIt, ReadSizes, Ops
<1>4. Fits(req.op.size, data)
  BY DEF SmbusInv, TypeOK, Fits, Room
<1> HIDE DEF printed
<1> QED
  BY <1>1, <1>3, <1>4, TransactKeeps

\* What a block process call or a write-read shows of its buffer.
LEMMA BlockAnswer ==
  ASSUME NEW buffer, Fits("BLOCK", buffer), NEW n \in 0 .. BLOCK_MAX, NEW whole \in BOOLEAN,
         NEW reply \in Seq(0 .. Byte - 1), Len(reply) = IF whole THEN n ELSE 0
  PROVE  /\ Fits("BLOCK", Filled(buffer, reply))
         /\ Answers(whole, buffer, reply, print_read_data("BLOCK", n, Filled(buffer, reply)))
<1>0. BLOCK_MAX \in Nat
  BY SmbusAssumption
<1> DEFINE f == Filled(buffer, reply)
<1>1. buffer \in Seq(0 .. Byte - 1) /\ Len(buffer) <= BLOCK_MAX
  BY DEF Fits, Room, Block
<1>2. /\ f \in Seq(0 .. Byte - 1)
      /\ Len(f) <= Len(buffer) \/ Len(f) = Len(reply)
      /\ First(f, Len(reply)) = reply
      /\ reply = <<>> => f = buffer
  BY <1>1, FilledBuffer
<1> HIDE DEF f
<1>3. Fits("BLOCK", f)
  BY <1>0, <1>1, <1>2 DEF Fits, Room, Block
<1>4. print_read_data("BLOCK", n, f) = <<First(f, n)>>
  BY <1>0 DEF print_read_data, Block
<1> DEFINE shown == First(f, n)
           printed == print_read_data("BLOCK", n, f)
<1>5. printed = <<shown>> /\ (whole => shown = reply)
  BY <1>2, <1>4
<1> HIDE DEF printed, shown
<1>6. printed[1] = shown /\ printed = <<printed[1]>>
  BY <1>5
<1>7. ASSUME whole PROVE Answers(whole, buffer, reply, printed)
  BY <1>5, <1>6, <1>7 DEF Answers
<1>8. ASSUME ~whole PROVE Answers(whole, buffer, reply, printed)
  <2>1. reply = <<>>
    BY <1>8
  <2>2. f = buffer
    BY <1>2, <2>1
  <2>3. First(f, n) = [j \in 1 .. n |-> IF j <= Len(buffer) THEN buffer[j] ELSE 0]
    BY <2>2 DEF First
  <2>4. \A j \in DOMAIN shown : shown[j] = IF j <= Len(buffer) THEN buffer[j] ELSE 0
    BY <2>3 DEF shown
  <2> QED
    BY <1>6, <1>8, <2>4 DEF Answers
<1> QED
  BY <1>3, <1>7, <1>8 DEF f, printed

\* The block process call.
LEMMA BlockCallKeeps ==
  ASSUME SmbusInv, smbus_block_process_call_op
  PROVE  SmbusInv'
<1> DEFINE Buffer(r) == Filled(data, r)
           Shown(r) == print_read_data("BLOCK", Len(r), Buffer(r))
<1>0. BLOCK_MAX \in Nat
  BY SmbusAssumption
<1>1. req.op.size = "BLOCK_PROC_CALL" /\ req.op \in Ops
  BY RequestTyped DEF SmbusInv, smbus_block_process_call_op
<1>2. PICK reply \in Replies(0 .. BLOCK_MAX) : Transact(reply, TRUE, Buffer(reply), TRUE, Shown(reply))
  BY Zenon DEF smbus_block_process_call_op
<1> DEFINE lengths == 0 .. BLOCK_MAX
<1>3. lengths \in SUBSET Nat /\ reply \in Replies(lengths)
  BY <1>0, <1>2
<1> HIDE DEF lengths
<1>4. reply \in Seq(0 .. Byte - 1) /\ Len(reply) \in lengths
  BY <1>3, ReplyTyped
<1> DEFINE n == Len(reply)
<1>5. n \in 0 .. BLOCK_MAX /\ n = Len(reply)
  BY <1>4 DEF lengths
<1>6. Fits("BLOCK", data)
  BY <1>1 DEF SmbusInv, TypeOK, Fits, Room, Block
<1>7. Fits("BLOCK", Buffer(reply)) /\ Answers(TRUE, data, reply, print_read_data("BLOCK", n, Buffer(reply)))
  <2> HIDE DEF n
  <2> QED
    BY <1>4, <1>5, <1>6, BlockAnswer
<1> DEFINE buffer == Buffer(reply)
           printed == Shown(reply)
<1>8. /\ Transact(reply, TRUE, buffer, TRUE, printed) /\ Fits("BLOCK", buffer)
      /\ Answers(TRUE, data, reply, printed)
  BY <1>2, <1>7
<1> HIDE DEF buffer, printed
<1>9. Fits(req.op.size, buffer)
  BY <1>1, <1>8 DEF Fits, Room, Block
<1>10. Whole(reply)
  BY <1>1 DEF Whole, Ops
<1> QED
  BY <1>1, <1>8, <1>9, <1>10, TransactKeeps

\* The combined transfer, whole or half.
LEMMA WriteReadKeeps ==
  ASSUME SmbusInv, smbus_writeread_op
  PROVE  SmbusInv'
<1> DEFINE Buffer(r) == Filled(data, r)
           Shown(r) == print_read_data("BLOCK", read_count, Buffer(r))
<1>0. BLOCK_MAX \in Nat /\ read_count \in 0 .. BLOCK_MAX
  BY SmbusAssumption DEF SmbusInv, TypeOK
<1>1. req.op.size = "WRITE_READ" /\ req.op \in Ops
  BY RequestTyped DEF SmbusInv, smbus_writeread_op
<1>2. PICK whole \in BOOLEAN : \E reply \in Replies({IF whole THEN read_count ELSE 0}) :
        Transact(reply, whole, Buffer(reply), TRUE, Shown(reply))
  BY Zenon DEF smbus_writeread_op
<1> DEFINE lengths == {IF whole THEN read_count ELSE 0}
<1>3. PICK reply \in Replies(lengths) : Transact(reply, whole, Buffer(reply), TRUE, Shown(reply))
  BY <1>2, Zenon
<1>4. lengths \in SUBSET Nat
  BY <1>0
<1> HIDE DEF lengths
<1>5. reply \in Seq(0 .. Byte - 1) /\ Len(reply) \in lengths
  BY <1>3, <1>4, ReplyTyped
<1>6. Len(reply) = IF whole THEN read_count ELSE 0
  BY <1>5 DEF lengths
<1>7. Fits("BLOCK", data)
  BY <1>1 DEF SmbusInv, TypeOK, Fits, Room, Block
<1> DEFINE buffer == Buffer(reply)
           printed == Shown(reply)
<1>8. Fits("BLOCK", buffer) /\ Answers(whole, data, reply, printed)
  BY <1>0, <1>5, <1>6, <1>7, BlockAnswer
<1>9. Transact(reply, whole, buffer, TRUE, printed)
  BY <1>3
<1> HIDE DEF buffer, printed
<1>10. Fits(req.op.size, buffer)
  BY <1>1, <1>8 DEF Fits, Room, Block
<1>11. Whole(reply)
  BY <1>1 DEF Whole, Ops
<1>12. whole => Len(reply) = read_count
  BY <1>6
<1> QED
  BY <1>8, <1>9, <1>10, <1>11, <1>12, TransactKeeps

\* The commands that do more than read.
LEMMA OthersKeep ==
  ASSUME SmbusInv,
         \/ smbus_write_op \/ smbus_process_call_op
         \/ smbus_block_process_call_op \/ smbus_writeread_op
  PROVE  SmbusInv'
BY WriteKeeps, ProcessCallKeeps, BlockCallKeeps, WriteReadKeeps

\* Every step keeps the invariant.
LEMMA StepKeeps == SmbusInv /\ [Next]_vars => SmbusInv'
<1> SUFFICES ASSUME SmbusInv, [Next]_vars PROVE SmbusInv'
  OBVIOUS
<1>1. CASE smbus_prologue
  BY <1>1, PrologueKeeps
<1>2. CASE smbus_write \/ smbus_process_call
  <2>1. ParseValue("force")
    BY <1>2 DEF smbus_write, smbus_process_call
  <2>2. req.op.entry # "smbus_writeread"
    BY <1>2 DEF smbus_write, smbus_process_call
  <2> QED
    BY <2>1, <2>2, ParseKeeps
<1>3. CASE smbus_writeread
  <2>1. ParseValue("count") /\ req.op.entry = "smbus_writeread"
    BY <1>3 DEF smbus_writeread
  <2> QED
    BY <2>1, ParseKeeps
<1>4. CASE parse_read_count
  BY <1>4, CountKeeps
<1>5. CASE slave_force
  BY <1>5, ForceKeeps
<1>6. CASE smbus_read_op
  BY <1>6, ReadKeeps
<1>7. CASE \/ smbus_write_op \/ smbus_process_call_op
           \/ smbus_block_process_call_op \/ smbus_writeread_op
  BY <1>7, OthersKeep
<1>8. CASE driver
  BY <1>8, DriverKeeps
<1>9. CASE UNCHANGED vars
  <2>1. Flags' /\ (CameLater' <=> CameLater)
    BY <1>9 DEF SmbusInv, vars, Flags, CameLater
  <2>2. TypeOK' /\ (OperandsGood' <=> OperandsGood) /\ (Parsed' <=> Parsed)
    BY <1>9 DEF vars, TypeOK, SmbusInv, OperandsGood, Parsed
  <2>5. Counted' <=> Counted
    BY <1>9 DEF vars, Counted, CountOk
  <2>3. (Refused' <=> Refused) /\ (Leaked' <=> Leaked) /\ (Attached' <=> Attached)
    BY <1>9 DEF vars, Refused, Leaked, Attached, CountOk
  <2>4. Performed => Performed'
    <3>1. (Sent(wire[1])' <=> Sent(wire[1])) /\ (PrintsIt' <=> PrintsIt)
          /\ (Whole(wire[1].reply)' <=> Whole(wire[1].reply))
      BY <1>9 DEF vars, Sent, Register, CountOk, PrintsIt, Whole
    <3> QED
      BY <1>9, <2>2, <3>1 DEF vars, Performed
  <2> QED
    BY <1>9, <2>1, <2>2, <2>3, <2>4, <2>5 DEF vars, SmbusInv
<1> QED
  BY <1>1, <1>2, <1>3, <1>4, <1>5, <1>6, <1>7, <1>8, <1>9 DEF Next
-----------------------------------------------------------------------------
(* Theorems. *)

\* SmbusInv holds of every run of an SMBus command.
THEOREM SmbusInvariant == Spec => []SmbusInv
<1> QED
  BY InitSmbus, StepKeeps, PTL DEF Spec

\* The buffer of smbus_write(), smbus_process_call() and smbus_writeread()
\* never holds more bytes than it has room for.
THEOREM BufferHolds == Spec => []TypeOK
<1>1. SmbusInv => TypeOK
  BY DEF SmbusInv
<1> QED
  BY <1>1, SmbusInvariant, PTL

\* At most one transaction and none for a refused operand; what it carries is
\* what the operands spell, and the bytes that the width in the command's name
\* leaves of the value.
THEOREM WireCarriesOperands == Spec => []WireMatches
<1>1. SmbusInv => WireMatches
  <2> SUFFICES ASSUME SmbusInv PROVE WireMatches
    OBVIOUS
  <2>1. CASE wire = <<>>
    <3>1. Len(wire) = 0 /\ DOMAIN wire = {}
      BY <2>1
    <3> QED
      BY <3>1 DEF WireMatches
  <2>2. CASE Performed
    <3>1. Len(wire) = 1 /\ DOMAIN wire = {1}
      BY <2>2 DEF Performed
    <3> DEFINE w == wire[1]
               size == req.op.size
               val == req.val
               text == req.text
    <3>2. Sent(w) /\ OperandsGood
      BY <2>2 DEF Performed
    <3>3. /\ req.op \in Ops /\ val \in Operand /\ text \in Text /\ req.adapter \in Operand
          /\ req.address \in Operand /\ req.reg \in Operand /\ req.count \in Operand
      BY RequestTyped DEF SmbusInv
    <3>4. size \in Sizes
      BY <3>3, OpSizes
    <3> HIDE DEF w
    <3>5. w.op = req.op /\ Spells(req.adapter, w.adapter) /\ Spells(req.address, w.address)
      <4>1. Spells(req.adapter, Parse(req.adapter.n, ULong))
            /\ Spells(req.address, Parse(req.address.n, ULong))
        BY <3>2, <3>3, UintSpells, Zenon DEF OperandsGood
      <4> QED
        BY <3>2, <4>1 DEF Sent
    <3>6. IF size \in NoRegister
            THEN w.register = <<>>
            ELSE Len(w.register) = 1 /\ Spells(req.reg, w.register[1])
      <4>1. HasRegister(size) <=> size \notin NoRegister
        BY DEF HasRegister, NoRegister
      <4>2. HasRegister(size) => Spells(req.reg, Parse(req.reg.n, ULong))
        BY <3>2, <3>3, UintSpells, Zenon DEF OperandsGood
      <4> DEFINE p == Parse(req.reg.n, ULong)
      <4>3. w.register = IF HasRegister(size) THEN <<p>> ELSE <<>>
        BY <3>2 DEF Sent, Register
      <4> HIDE DEF p
      <4>4. Len(<<p>>) = 1 /\ <<p>>[1] = p
        OBVIOUS
      <4> QED
        BY <4>1, <4>2, <4>3, <4>4 DEF p
    <3>7. req.op.entry # "smbus_read" =>
            WidthOk(size, val, text) /\ w.payload = WidthData(size, val, text)
      BY <3>2 DEF Sent
    <3>8. ASSUME req.op.entry # "smbus_read", ~Block(size)
          PROVE  /\ ~val.junk
                 /\ size \notin {"32", "64"} => val.n # LONG_MAX
                 /\ size = "QUICK" => val.n \in {0, 1, 1 - ULong}
                 /\ Len(w.payload) = NominalWidth[size]
                 /\ val.n \in 0 .. ULong - 1 =>
                      ValueOf(w.payload) = val.n % Place[Len(w.payload) + 1]
      <4> DEFINE wide == WidthData(size, val, text)
      <4>1. WidthOk(size, val, text) /\ w.payload = wide
        BY <3>7, <3>8
      <4> HIDE DEF size, val, text
      <4>2. /\ Len(wide) = NominalWidth[size]
            /\ val.n \in 0 .. ULong - 1 => ValueOf(wide) = val.n % Place[Len(wide) + 1]
        BY <3>3, <3>4, <3>8, <4>1, AcceptedData, Zenon
      <4>3. /\ ~val.junk
            /\ size \notin {"32", "64"} => val.n # LONG_MAX
            /\ size = "QUICK" => val.n \in {0, 1, 1 - ULong}
        BY <3>3, <3>4, <3>8, <4>1, AcceptedValue, Zenon
      <4> HIDE DEF wide
      <4> QED
        BY <4>1, <4>2, <4>3
    <3>9. ASSUME req.op.entry # "smbus_read", Block(size)
          PROVE  /\ ~text.junk
                 /\ 2 * Len(w.payload) = text.digits
                 /\ Len(w.payload) <= BLOCK_MAX
                 /\ w.payload = <<>> => text.x
      <4> DEFINE wide == WidthData(size, val, text)
      <4>1. WidthOk(size, val, text) /\ w.payload = wide
        BY <3>7, <3>9
      <4> HIDE DEF size, val, text
      <4>2. /\ ~text.junk /\ 2 * Len(wide) = text.digits /\ (wide = <<>> => text.x)
            /\ Len(wide) <= (IF Block(size) THEN BLOCK_MAX ELSE 8)
        BY <3>3, <3>4, <3>9, <4>1, AcceptedData, Zenon
      <4> HIDE DEF wide
      <4> QED
        BY <3>9, <4>1, <4>2
    <3>10. ASSUME size = "WRITE_READ"
           PROVE  \E c \in 0 .. BLOCK_MAX : Spells(req.count, c) /\ (w.whole => Len(w.reply) = c)
      <4> DEFINE c == Parse(req.count.n, ULong)
      <4>1. parse_uint8(req.count) /\ c <= BLOCK_MAX /\ (w.whole => Len(w.reply) = c)
        BY <3>2, <3>10 DEF Sent, CountOk
      <4>2. Spells(req.count, c)
        BY <3>3, <4>1, UintSpells
      <4> HIDE DEF c
      <4>3. c \in 0 .. Byte - 1 /\ BLOCK_MAX \in Nat /\ Byte \in Nat
        BY <4>2, SmbusAssumption DEF Spells
      <4>4. c \in 0 .. BLOCK_MAX
        BY <4>1, <4>3
      <4> QED
        BY <4>1, <4>2, <4>4
    <3>11. /\ Spells(req.adapter, w.adapter)
           /\ Spells(req.address, w.address)
           /\ IF w.op.size \in NoRegister
                THEN w.register = <<>>
                ELSE Len(w.register) = 1 /\ Spells(req.reg, w.register[1])
           /\ w.op.entry \in {"smbus_write", "smbus_process_call"} /\ ~Block(w.op.size) =>
                /\ ~req.val.junk
                /\ w.op.size \notin {"32", "64"} => req.val.n # LONG_MAX
                /\ w.op.size = "QUICK" => req.val.n \in {0, 1, 1 - ULong}
                /\ Len(w.payload) = NominalWidth[w.op.size]
                /\ req.val.n \in 0 .. ULong - 1 =>
                     ValueOf(w.payload) = req.val.n % Place[Len(w.payload) + 1]
           /\ w.op.entry # "smbus_read" /\ Block(w.op.size) =>
                /\ ~req.text.junk
                /\ 2 * Len(w.payload) = req.text.digits
                /\ Len(w.payload) <= BLOCK_MAX
                /\ w.payload = <<>> => req.text.x
           /\ w.op.size = "WRITE_READ" =>
                \E c \in 0 .. BLOCK_MAX :
                  Spells(req.count, c) /\ (w.whole => Len(w.reply) = c)
      BY <3>5, <3>6, <3>8, <3>9, <3>10
    <3> QED
      BY <3>1, <3>11 DEF WireMatches, w
  <2> QED
    BY <2>1, <2>2 DEF SmbusInv, Refused
<1> QED
  BY <1>1, SmbusInvariant, PTL

\* The exit status is the transaction's, and a failure prints nothing.
THEOREM StatusIsTransaction == Spec => []StatusTells
<1>1. SmbusInv => StatusTells
  <2> SUFFICES ASSUME SmbusInv, pc = "exited"
               PROVE  /\ rc = 0 <=>
                           \E k \in DOMAIN wire :
                             /\ wire[k].ok
                             /\ wire[k].op \in [entry : {"smbus_read"}, size : {"32", "64"}] =>
                                  Len(wire[k].reply) = NominalWidth[wire[k].op.size]
                      /\ rc # 0 => out = <<>>
    BY DEF StatusTells
  <2>1. CASE Refused
    <3>1. DOMAIN wire = {} /\ rc = -1 /\ out = <<>>
      BY <2>1 DEF Refused
    <3> QED
      BY <3>1
  <2>2. CASE Performed
    <3>1. DOMAIN wire = {1} /\ wire[1].op = req.op
      BY <2>2 DEF Performed, Sent
    <3> QED
      BY <2>2, <3>1 DEF Performed, Whole
  <2> QED
    BY <2>1, <2>2 DEF SmbusInv
<1> QED
  BY <1>1, SmbusInvariant, PTL

\* What a successful command prints is the slave's reply, through a buffer that
\* may hold longer operand bytes; a half-made write-read shows those.
THEOREM ReplyIsPrinted == Spec => []PrintsReply
<1>1. SmbusInv => PrintsReply
  BY DEF SmbusInv, PrintsReply, PrintsReplyFor, Refused, Performed, PrintsIt, Answers
<1> QED
  BY <1>1, SmbusInvariant, PTL

\* I2C_SLAVE_FORCE hits only a driver that came after the process attached.
THEOREM ForceIsLate == Spec => []NeverSteals
<1>1. SmbusInv => NeverSteals
  <2> SUFFICES ASSUME SmbusInv, NEW k \in DOMAIN wire PROVE ~wire[k].stolen
    BY DEF NeverSteals
  <2>1. CASE wire = <<>>
    BY <2>1
  <2>2. CASE Performed
    <3>1. DOMAIN wire = {1}
      BY <2>2 DEF Performed
    <3> QED
      BY <2>2, <3>1 DEF Performed, Sent
  <2> QED
    BY <2>1, <2>2 DEF SmbusInv, Refused
<1> QED
  BY <1>1, SmbusInvariant, PTL

\* Only a bad read count of smbus_writeread() leaves the file open.
THEOREM FileIsClosed == Spec => []Released
<1>1. SmbusInv => Released
  BY DEF SmbusInv, Released, Attached, Leaked
<1> QED
  BY <1>1, SmbusInvariant, PTL
==============================================================================
