------------------------------ MODULE MmioProofs ------------------------------
(***************************************************************************)
(* Proofs about Mmio.tla for every page size, every width of the integer   *)
(* types and every request.                                                *)
(***************************************************************************)
EXTENDS Mmio, CNumbersProofs

(* What the conversions return. *)

\* Rounding up to whole pages loses nothing.
LEMMA PagesCover ==
  ASSUME NEW l \in Nat
  PROVE  Pages(l) \in Nat /\ Pages(l) >= l
BY WidthAssumption DEF Pages

\* The length is an unsigned int.
LEMMA LengthRange ==
  ASSUME NEW b \in Nat, NEW o \in Nat
  PROVE  Length(b, o) \in 0 .. UInt - 1
BY WidthAssumption, ModRange DEF Length, DataStore

\* For a request that fits, nothing of the length is lost.
LEMMA LengthExact ==
  ASSUME NEW b \in Nat, NEW o \in 0 .. PageSize - 1, b + PageSize <= UInt
  PROVE  Length(b, o) = b + o
<1>1. b % UInt = b
  BY WidthAssumption, ModSmall DEF DataStore
<1>2. (b + o) % UInt = b + o
  BY WidthAssumption, ModSmall DEF DataStore
<1> QED
  BY <1>1, <1>2 DEF Length

\* The operands as the handlers see them.
LEMMA Operands ==
  ASSUME req \in Request
  PROVE  /\ strtoul(req.num) \in Nat
         /\ strtoull(req.addr) \in 0 .. U64 - 1
         /\ Off(strtoull(req.addr)) \in 0 .. PageSize - 1
         /\ Off(strtoull(req.addr)) <= strtoull(req.addr)
         /\ req.size \in {1, 2, 4, 8}
<1>1. req.num \in Int /\ req.addr \in Int /\ req.size \in {1, 2, 4, 8}
  BY DEF Request
<1>2. ULong \in Nat /\ ULong > 0 /\ U64 \in Nat /\ U64 > 0
  BY WidthAssumption DEF DataStore
<1>3. strtoul(req.num) \in 0 .. ULong - 1 /\ strtoull(req.addr) \in 0 .. U64 - 1
  BY <1>1, <1>2, ParseRange DEF strtoul, strtoull
<1> QED
  BY <1>1, <1>2, <1>3, WidthAssumption, ModRange, ModLe DEF Off
-----------------------------------------------------------------------------
(***************************************************************************)
(* The inductive invariant.  Between open_mapping() and close_mapping() a  *)
(* mapping exists, a read or a write mapped eight bytes from the offset,   *)
(* and a dump that fits has mapped exactly the bytes up to its end, its    *)
(* pointer, counter and label moving together.                             *)
(***************************************************************************)
Bytes == strtoul(req.num)

DumpOK ==
  /\ mmap_addr.length = mmap_addr.off + Bytes
  /\ ptr >= mmap_addr.off
  /\ ptr + bytes_left = mmap_addr.off + Bytes
  /\ bytes_left > 0 => desired_addr = mmap_addr.addr + ptr
  /\ mmap_addr.addr + mmap_addr.length <= U64

StageOK ==
  /\ pc \in {"start", "exited"} => fd = "closed" /\ ~mapped
  /\ pc \in {"read", "write", "fwrite", "loop"} => mapped
  /\ pc \in {"read", "write"} =>
       req.entry # "mmio_dump" /\ mmap_addr.length = mmap_addr.off + DataStore
  /\ pc \in {"fwrite", "loop"} => req.entry = "mmio_dump"
  /\ pc \in {"fwrite", "loop"} /\ Fits => DumpOK

IInv == TypeOK /\ StageOK

\* A process that has just started satisfies the invariant.
LEMMA InitEstablishes == Init => IInv
<1> SUFFICES ASSUME Init PROVE IInv
  OBVIOUS
<1>1. 0 \in 0 .. PageSize - 1 /\ 0 \in 0 .. UInt - 1 /\ 0 \in 0 .. U64 - 1
  BY WidthAssumption DEF DataStore
<1>2. TypeOK
  <2>1. req \in Request
    BY RequestAssumption DEF Init
  <2>2. mmap_addr \in [addr : Nat, off : 0 .. PageSize - 1, length : 0 .. UInt - 1]
    BY <1>1 DEF Init
  <2>3. mapped \in BOOLEAN /\ desired_addr \in 0 .. U64 - 1
    BY <1>1 DEF Init
  <2> QED
    BY <2>1, <2>2, <2>3 DEF Init, TypeOK
<1>3. StageOK
  BY DEF Init, StageOK
<1> QED
  BY <1>2, <1>3 DEF IInv

\* What open_mapping() leaves, for any number of bytes.
LEMMA OpenMapping ==
  ASSUME req \in Request, NEW b \in Nat, NEW f, NEW next,
         open_mapping(strtoull(req.addr), f, b, next),
         fd = "closed", ~mapped, rc \in {-1, 0}
  PROVE  /\ mmap_addr' \in [addr : Nat, off : 0 .. PageSize - 1, length : 0 .. UInt - 1]
         /\ mmap_addr'.off = Off(strtoull(req.addr))
         /\ mmap_addr'.addr + mmap_addr'.off = strtoull(req.addr)
         /\ b + PageSize <= UInt => mmap_addr'.length = b + mmap_addr'.off
         /\ rc' \in {-1, 0}
         /\ \/ pc' = "exited" /\ fd' = "closed" /\ mapped' = FALSE
            \/ /\ pc' = next /\ fd' = "open" /\ mapped' = TRUE
               /\ mmap_addr'.addr + mmap_addr'.length <= U64
<1> DEFINE a == strtoull(req.addr)
           o == Off(a)
           len == Length(b, o)
<1>1. a \in Nat /\ o \in 0 .. PageSize - 1 /\ o <= a
  BY Operands, WidthAssumption
<1>2. len \in 0 .. UInt - 1 /\ (b + PageSize <= UInt => len = b + o)
  BY <1>1, LengthRange, LengthExact, WidthAssumption
<1>3. mmap_addr' = [addr |-> a - o, off |-> o, length |-> len]
  BY DEF open_mapping
<1>4. Pages(len) \in Nat /\ Pages(len) >= len
  BY <1>2, PagesCover
<1>5. \/ pc' = "exited" /\ rc' = -1 /\ fd' = "closed" /\ mapped' = FALSE
      \/ /\ pc' = next /\ fd' = "open" /\ mapped' = TRUE /\ rc' = rc
         /\ (a - o) + Pages(len) <= U64
  BY DEF open_mapping, Return, FdAfterFailedMmap
<1> HIDE DEF a, o, len
<1> QED
  BY <1>1, <1>2, <1>3, <1>4, <1>5, WidthAssumption DEF a, o

\* Every step of a handler preserves the invariant.
LEMMA StepPreserves == IInv /\ [Next]_vars => IInv'
<1> SUFFICES ASSUME IInv, [Next]_vars PROVE IInv'
  OBVIOUS
<1> USE DEF IInv
<1>0. req \in Request /\ rc \in {-1, 0}
  BY DEF TypeOK
<1>1. CASE mmio_read_open \/ mmio_write_open
  <2>1. /\ pc = "start" /\ fd = "closed" /\ ~mapped /\ req.entry # "mmio_dump"
        /\ UNCHANGED <<req, ptr, bytes_left, desired_addr, fields_on_line>>
    BY <1>1 DEF mmio_read_open, mmio_write_open, StageOK, dump
  <2>2. PICK f, next : /\ open_mapping(strtoull(req.addr), f, DataStore, next)
                       /\ next \in {"read", "write"}
    BY <1>1 DEF mmio_read_open, mmio_write_open
  <2>3. DataStore \in Nat /\ DataStore + PageSize <= UInt
    BY WidthAssumption DEF DataStore
  <2>4. /\ mmap_addr' \in [addr : Nat, off : 0 .. PageSize - 1, length : 0 .. UInt - 1]
        /\ mmap_addr'.length = DataStore + mmap_addr'.off
        /\ rc' \in {-1, 0}
        /\ \/ pc' = "exited" /\ fd' = "closed" /\ mapped' = FALSE
           \/ pc' = next /\ fd' = "open" /\ mapped' = TRUE
    BY <1>0, <2>1, <2>2, <2>3, OpenMapping
  <2>5. TypeOK'
    BY <2>1, <2>2, <2>4 DEF TypeOK
  <2>6. StageOK'
    BY <2>1, <2>2, <2>4, <2>5, <2>3 DEF StageOK, TypeOK
  <2> QED
    BY <2>5, <2>6
<1>2. CASE mmio_dump_open
  <2>1. pc = "start" /\ fd = "closed" /\ ~mapped /\ req' = req
    BY <1>2 DEF mmio_dump_open, StageOK
  <2>2. CASE req.opt = "other"
    BY <1>2, <2>1, <2>2 DEF mmio_dump_open, Return, dump, TypeOK, StageOK
  <2>3. CASE req.opt # "other"
    <3>1. PICK f, next : /\ open_mapping(strtoull(req.addr), f, Bytes, next)
                         /\ next \in {"fwrite", "loop"}
      BY <1>2, <2>3 DEF mmio_dump_open, Bytes
    <3>2. /\ req.entry = "mmio_dump"
          /\ ptr' = Off(strtoull(req.addr)) /\ bytes_left' = Bytes
          /\ desired_addr' = strtoull(req.addr) /\ fields_on_line' = 0
      BY <1>2, <2>3 DEF mmio_dump_open, Bytes
    <3>3. Bytes \in Nat
      BY <1>0, Operands DEF Bytes
    <3>4. /\ mmap_addr' \in [addr : Nat, off : 0 .. PageSize - 1, length : 0 .. UInt - 1]
          /\ mmap_addr'.off = Off(strtoull(req.addr))
          /\ mmap_addr'.addr + mmap_addr'.off = strtoull(req.addr)
          /\ Bytes + PageSize <= UInt => mmap_addr'.length = Bytes + mmap_addr'.off
          /\ rc' \in {-1, 0}
          /\ \/ pc' = "exited" /\ fd' = "closed" /\ mapped' = FALSE
             \/ /\ pc' = next /\ fd' = "open" /\ mapped' = TRUE
                /\ mmap_addr'.addr + mmap_addr'.length <= U64
      BY <1>0, <2>1, <3>1, <3>3, OpenMapping
    <3>5. TypeOK'
      <4>1. ptr' \in Nat /\ desired_addr' \in 0 .. U64 - 1
        BY <1>0, <3>2, Operands, WidthAssumption
      <4>2. /\ pc' \in {"fwrite", "loop", "exited"} /\ fd' \in {"closed", "open"}
            /\ mapped' \in BOOLEAN
        BY <3>1, <3>4
      <4> QED
        BY <1>0, <2>1, <3>2, <3>3, <3>4, <4>1, <4>2 DEF TypeOK
    <3>6. Bytes' = Bytes /\ (Fits' <=> Bytes + PageSize <= UInt)
      BY <2>1 DEF Bytes, Fits, strtoul
    <3>7. pc' = next /\ Fits' => DumpOK'
      <4> SUFFICES ASSUME pc' = next, Fits' PROVE DumpOK'
        OBVIOUS
      <4>1. /\ mmap_addr'.length = mmap_addr'.off + Bytes'
            /\ mmap_addr'.addr + mmap_addr'.length <= U64
            /\ mmap_addr'.off \in Nat
        BY <3>1, <3>3, <3>4, <3>6, WidthAssumption
      <4> QED
        BY <3>2, <3>3, <3>4, <3>6, <4>1 DEF DumpOK
    <3>8. StageOK'
      BY <2>1, <3>1, <3>2, <3>4, <3>7 DEF StageOK
    <3> QED
      BY <3>5, <3>8
  <2> QED
    BY <2>2, <2>3
<1>3. CASE mmio_read_x \/ mmio_write_x \/ mmio_dump_binary \/ mmio_dump_end
  <2>1. /\ pc' = "exited" /\ rc' \in {-1, 0} /\ fd' = "closed" /\ mapped' = FALSE
        /\ UNCHANGED <<req, mmap_addr, ptr, bytes_left, desired_addr, fields_on_line>>
    BY <1>3 DEF mmio_read_x, mmio_write_x, mmio_dump_binary, mmio_dump_end,
                Return, close_mapping, dump
  <2> QED
    BY <2>1 DEF TypeOK, StageOK
<1>4. CASE mmio_dump_turn
  <2>1. /\ pc = "loop" /\ bytes_left > 0
        /\ UNCHANGED <<req, pc, fd, mmap_addr, mapped, rc>>
    BY <1>4 DEF mmio_dump_turn
  <2>2. PICK w \in 1 .. 4 :
          /\ w <= bytes_left /\ ptr' = ptr + w /\ bytes_left' = bytes_left - w
          /\ desired_addr' = (desired_addr + w) % U64
    BY <1>4, <2>1 DEF mmio_dump_turn, bytes_printed, Access, DumpAccess, WordSize, TypeOK
  <2>3. fields_on_line' \in 0 .. 3
    BY <1>4 DEF mmio_dump_turn, FieldsPerLine, TypeOK
  <2>4. desired_addr' \in 0 .. U64 - 1
    BY <2>2, WidthAssumption, ModRange DEF TypeOK, DataStore
  <2>5. TypeOK'
    BY <2>1, <2>2, <2>3, <2>4 DEF TypeOK
  <2>6. Bytes' = Bytes /\ Fits' = Fits
    BY <2>1 DEF Bytes, Fits, strtoul
  <2>7. ASSUME Fits PROVE DumpOK'
    <3>1. DumpOK
      BY <2>1, <2>7 DEF StageOK
    <3>2. bytes_left' > 0 => desired_addr + w < U64
      BY <1>0, <2>1, <2>2, <3>1, Operands, WidthAssumption DEF DumpOK, TypeOK, Bytes
    <3>3. bytes_left' > 0 => desired_addr' = desired_addr + w
      <4>1. desired_addr + w \in Nat /\ U64 \in Nat
        BY WidthAssumption DEF TypeOK
      <4>2. desired_addr + w < U64 => (desired_addr + w) % U64 = desired_addr + w
        BY <4>1, ModSmall, Zenon
      <4> QED
        BY <2>2, <3>2, <4>2, Zenon
    <3> QED
      BY <2>1, <2>2, <2>6, <3>1, <3>3 DEF DumpOK, TypeOK
  <2> QED
    BY <2>1, <2>5, <2>6, <2>7 DEF StageOK
<1>5. CASE Fault
  BY <1>5 DEF Fault, dump, TypeOK, StageOK
<1>6. CASE UNCHANGED vars
  <2>1. Bytes' = Bytes /\ Fits' = Fits
    BY <1>6 DEF vars, Bytes, Fits, strtoul
  <2> QED
    BY <1>6, <2>1 DEF vars, TypeOK, StageOK, DumpOK
<1> QED
  BY <1>1, <1>2, <1>3, <1>4, <1>5, <1>6 DEF Next

-----------------------------------------------------------------------------
(* The text of a dump. *)

\* 1, 2, 4 and 8 bytes hold a positive number of values.
LEMMA ValuesPositive ==
  ASSUME NEW size \in {1, 2, 4, 8}
  PROVE  Values(size) \in Nat /\ Values(size) > 0
<1> DEFINE two == Base * Base
           four == two * two
<1>1. Base \in Nat /\ Base > 0
  BY WidthAssumption
<1>2. two \in Nat /\ two > 0
  BY <1>1
<1>3. four \in Nat /\ four > 0
  <2> HIDE DEF two
  <2> QED
    BY <1>2
<1>4. four * four \in Nat /\ four * four > 0
  <2> HIDE DEF four
  <2> QED
    BY <1>3
<1> QED
  BY <1>1, <1>2, <1>3, <1>4 DEF Values

\* As long as bytes are left there is a field to come, as wide as the loop
\* takes it, and the next one starts behind it.
LEMMA NextField ==
  ASSUME NEW bytes \in Nat, NEW left \in Nat, left > 0,
         NEW k \in 0 .. FieldCount(bytes), Start(k, bytes) = bytes - left
  PROVE  /\ k + 1 \in 0 .. FieldCount(bytes)
         /\ FieldWidth(k, bytes) = IF left < 4 THEN 1 ELSE 4
         /\ Start(k + 1, bytes) = Start(k, bytes) + FieldWidth(k, bytes)
<1> DEFINE words == bytes \div 4
           odd == bytes % 4
<1>1. words \in Nat /\ odd \in 0 .. 3 /\ bytes = 4 * words + odd
  OBVIOUS
<1> HIDE DEF words, odd
<1>2. FieldCount(bytes) = words + odd
  BY DEF FieldCount, WordSize, words, odd
<1>3. \A j : Start(j, bytes) = IF j <= words THEN 4 * j ELSE 4 * words + (j - words)
  BY DEF Start, WordSize, words
<1>4. FieldWidth(k, bytes) = IF k < words THEN 4 ELSE 1
  BY DEF FieldWidth, WordSize, words
<1> QED
  BY <1>1, <1>2, <1>3, <1>4

\* When none is left, all fields are printed.
LEMMA LastField ==
  ASSUME NEW bytes \in Nat, NEW k \in 0 .. FieldCount(bytes), Start(k, bytes) = bytes
  PROVE  k = FieldCount(bytes)
<1> DEFINE words == bytes \div 4
           odd == bytes % 4
<1>1. words \in Nat /\ odd \in 0 .. 3 /\ bytes = 4 * words + odd
  OBVIOUS
<1> HIDE DEF words, odd
<1>2. FieldCount(bytes) = words + odd
  BY DEF FieldCount, WordSize, words, odd
<1>3. Start(k, bytes) = IF k <= words THEN 4 * k ELSE 4 * words + (k - words)
  BY DEF Start, WordSize, words
<1> QED
  BY <1>1, <1>2, <1>3

\* The tokens of k fields, without the end of an unfinished line.
TokenCount(k) == 6 * (k \div 4) + (IF k % 4 = 0 THEN 0 ELSE (k % 4) + 1)

Tokens == [tok : {"label", "field", "raw", "newline"}, at : Int, width : Int]

\* text is a beginning of the dump, and the one up to k fields.
Begins(text, at, bytes) ==
  /\ text \in Seq(Tokens)
  /\ \A n \in 1 .. Len(text) : text[n] = DumpToken(at, bytes, n - 1)

IsBeginning(text, at, bytes, k) == Begins(text, at, bytes) /\ Len(text) = TokenCount(k)

\* A text with one more token.
LEMMA OneMore ==
  ASSUME NEW text, NEW t \in Tokens, NEW at, NEW bytes, Begins(text, at, bytes),
         t = DumpToken(at, bytes, Len(text))
  PROVE  Begins(text \o <<t>>, at, bytes) /\ Len(text \o <<t>>) = Len(text) + 1
<1>0. /\ text \in Seq(Tokens) /\ Len(text) \in Nat
      /\ \A n \in 1 .. Len(text) : text[n] = DumpToken(at, bytes, n - 1)
  BY DEF Begins
<1>1. text \o <<t>> \in Seq(Tokens) /\ Len(text \o <<t>>) = Len(text) + 1
  BY <1>0
<1>2. \A n \in 1 .. Len(text) + 1 :
        (text \o <<t>>)[n] = IF n <= Len(text) THEN text[n] ELSE t
  BY <1>0
<1>3. ASSUME NEW n \in 1 .. Len(text) + 1
      PROVE  (text \o <<t>>)[n] = DumpToken(at, bytes, n - 1)
  <2>1. CASE n <= Len(text)
    BY <1>0, <1>2, <2>1
  <2>2. CASE ~(n <= Len(text))
    <3>1. n - 1 = Len(text)
      BY <1>0, <2>2
    <3> QED
      BY <1>2, <2>2, <3>1
  <2> QED
    BY <2>1, <2>2
<1> QED
  BY <1>1, <1>3 DEF Begins

\* What a turn of the loop adds to the beginning of a dump is its next field,
\* with the address in front of a line and the end of a full line.
LEMMA TurnAddsField ==
  ASSUME NEW at \in Int, NEW bytes \in Nat, NEW k \in Nat, NEW text,
         IsBeginning(text, at, bytes, k),
         Start(k, bytes) \in Int, FieldWidth(k, bytes) \in Int
  PROVE  IsBeginning(text \o (IF k % 4 = 0 THEN <<Label(at + Start(k, bytes))>> ELSE <<>>)
                          \o <<Field(at + Start(k, bytes), FieldWidth(k, bytes))>>
                          \o (IF (k + 1) % 4 = 0 THEN <<Newline>> ELSE <<>>),
                     at, bytes, k + 1)
<1> DEFINE q == k \div 4
           r == k % 4
           label == Label(at + Start(k, bytes))
           field == Field(at + Start(k, bytes), FieldWidth(k, bytes))
<1>1. q \in Nat /\ r \in 0 .. 3 /\ k = 4 * q + r
  OBVIOUS
<1>2. label \in Tokens /\ field \in Tokens /\ Newline \in Tokens
  BY DEF Tokens, Label, Field, Newline, Token
<1>3. r = 0 => DumpToken(at, bytes, 6 * q) = label
  <2> SUFFICES ASSUME r = 0 PROVE DumpToken(at, bytes, 6 * q) = label
    OBVIOUS
  <2>1. (6 * q) % 6 = 0 /\ 4 * ((6 * q) \div 6) = k
    BY <1>1
  <2> QED
    BY <2>1 DEF DumpToken
<1>4. DumpToken(at, bytes, 6 * q + r + 1) = field
  <2> DEFINE n == 6 * q + r + 1
  <2>1. n % 6 = r + 1 /\ n \div 6 = q
    BY <1>1
  <2>2. n % 6 # 0 /\ n % 6 # 5 /\ 4 * (n \div 6) + (n % 6) - 1 = k
    BY <1>1, <2>1
  <2> HIDE DEF n
  <2>3. DumpToken(at, bytes, n) = field
    BY <2>2 DEF DumpToken
  <2> QED
    BY <2>3 DEF n
<1>5. DumpToken(at, bytes, 6 * q + 5) = Newline
  <2> DEFINE n == 6 * q + 5
  <2>1. n % 6 = 5
    BY <1>1
  <2> HIDE DEF n
  <2>2. DumpToken(at, bytes, n) = Newline
    BY <2>1 DEF DumpToken
  <2> QED
    BY <2>2 DEF n
<1>6. TokenCount(k) = IF r = 0 THEN 6 * q ELSE 6 * q + r + 1
  BY <1>1 DEF TokenCount
<1>7. TokenCount(k + 1) = IF r = 3 THEN 6 * q + 6 ELSE 6 * q + r + 2
  <2>1. r = 3 => (k + 1) \div 4 = q + 1 /\ (k + 1) % 4 = 0
    BY <1>1
  <2>2. r # 3 => (k + 1) \div 4 = q /\ (k + 1) % 4 = r + 1
    BY <1>1
  <2> QED
    BY <1>1, <2>1, <2>2 DEF TokenCount
<1>8. (k + 1) % 4 = 0 <=> r = 3
  BY <1>1
<1> HIDE DEF q, r, label, field
<1> DEFINE one == text \o (IF r = 0 THEN <<label>> ELSE <<>>)
           two == one \o <<field>>
           three == two \o (IF r = 3 THEN <<Newline>> ELSE <<>>)
<1>9. Begins(one, at, bytes) /\ Len(one) = 6 * q + r + 1
  <2>0. Begins(text, at, bytes) /\ Len(text) = TokenCount(k)
    BY DEF IsBeginning
  <2>1. CASE r = 0
    <3>1. Len(text) = 6 * q /\ label = DumpToken(at, bytes, Len(text))
      BY <1>3, <1>6, <2>0, <2>1
    <3>2. one = text \o <<label>>
      BY <2>1
    <3> HIDE DEF one
    <3>3. Begins(one, at, bytes) /\ Len(one) = Len(text) + 1
      BY <1>2, <2>0, <3>1, <3>2, OneMore, Zenon
    <3> QED
      BY <1>1, <2>1, <3>1, <3>3
  <2>2. CASE r # 0
    <3>1. one = text
      BY <2>0, <2>2 DEF Begins
    <3> QED
      BY <1>6, <2>0, <2>2, <3>1
  <2> QED
    BY <2>1, <2>2
<1> HIDE DEF one
<1>10. Begins(two, at, bytes) /\ Len(two) = 6 * q + r + 2
  <2>1. field = DumpToken(at, bytes, Len(one))
    BY <1>4, <1>9
  <2>2. Begins(two, at, bytes) /\ Len(two) = Len(one) + 1
    BY <1>2, <1>9, <2>1, OneMore, Zenon
  <2> HIDE DEF two
  <2> QED
    BY <1>1, <1>9, <2>2
<1> HIDE DEF two
<1>11. Begins(three, at, bytes) /\ Len(three) = TokenCount(k + 1)
  <2>1. CASE r = 3
    <3>1. Newline = DumpToken(at, bytes, Len(two))
      <4>1. Len(two) = 6 * q + 5
        BY <1>1, <1>10, <2>1
      <4> QED
        BY <1>5, <4>1
    <3>2. three = two \o <<Newline>>
      BY <2>1
    <3> HIDE DEF three
    <3>3. Begins(three, at, bytes) /\ Len(three) = Len(two) + 1
      BY <1>2, <1>10, <3>1, <3>2, OneMore, Zenon
    <3> QED
      BY <1>1, <1>7, <1>10, <2>1, <3>3
  <2>2. CASE r # 3
    <3>1. three = two
      BY <1>10, <2>2 DEF Begins
    <3> QED
      BY <1>7, <1>10, <2>2, <3>1
  <2> QED
    BY <2>1, <2>2
<1>12. IsBeginning(three, at, bytes, k + 1)
  <2> HIDE DEF three
  <2> QED
    BY <1>11 DEF IsBeginning
<1> QED
  BY <1>8, <1>12 DEF one, two, three, label, field, r

\* When all fields are printed, the end of an unfinished line completes the
\* text.
LEMMA EndCompletes ==
  ASSUME NEW at, NEW bytes \in Nat, NEW text, IsBeginning(text, at, bytes, FieldCount(bytes))
  PROVE  (IF FieldCount(bytes) % 4 # 0 THEN Append(text, Newline) ELSE text)
           = DumpText(at, bytes)
<1> DEFINE f == FieldCount(bytes)
           q == f \div 4
           r == f % 4
           length == f + 2 * ((f + 3) \div 4)
           all == IF r # 0 THEN Append(text, Newline) ELSE text
<1>0. f \in Nat
  BY DEF FieldCount, WordSize
<1> HIDE DEF f
<1>1. q \in Nat /\ r \in 0 .. 3 /\ f = 4 * q + r
  BY <1>0
<1>2. length = IF r = 0 THEN 6 * q ELSE 6 * q + r + 2
  BY <1>1
<1>3. TokenCount(f) = IF r = 0 THEN 6 * q ELSE 6 * q + r + 1
  BY <1>1 DEF TokenCount
<1> HIDE DEF q, r, length
<1>4. /\ text \in Seq(Tokens) /\ Len(text) = TokenCount(f) /\ Len(text) \in Nat
      /\ \A n \in 1 .. Len(text) : text[n] = DumpToken(at, bytes, n - 1)
  BY DEF IsBeginning, Begins, f
<1>5. Newline \in Tokens
  BY DEF Newline, Token, Tokens
<1>6. all \in Seq(Tokens) /\ Len(all) = length
  <2>1. /\ Append(text, Newline) \in Seq(Tokens)
        /\ Len(Append(text, Newline)) = Len(text) + 1
    <3>1. text \in Seq(Tokens)
      BY <1>4
    <3> HIDE DEF all
    <3> QED
      BY <1>5, <3>1
  <2>2. CASE r = 0
    BY <1>2, <1>3, <1>4, <2>2
  <2>3. CASE r # 0
    <3>1. Len(text) + 1 = length
      BY <1>1, <1>2, <1>3, <1>4, <2>3
    <3> QED
      BY <2>1, <2>3, <3>1
  <2> QED
    BY <2>2, <2>3
<1>7. ASSUME NEW n \in 1 .. length
      PROVE  all[n] = IF n = length THEN Newline ELSE DumpToken(at, bytes, n - 1)
  <2>1. CASE r # 0
    <3>1. all = Append(text, Newline) /\ length = Len(text) + 1
      BY <1>1, <1>2, <1>3, <1>4, <2>1
    <3> HIDE DEF all
    <3> QED
      BY <1>4, <3>1
  <2>2. CASE r = 0
    <3>1. all = text /\ length = Len(text) /\ length = 6 * q
      BY <1>2, <1>3, <1>4, <2>2
    <3>2. ASSUME n = length PROVE DumpToken(at, bytes, n - 1) = Newline
      <4>1. (n - 1) % 6 = 5
        BY <1>1, <3>1, <3>2
      <4> QED
        BY <4>1 DEF DumpToken
    <3> HIDE DEF all
    <3> QED
      BY <1>4, <3>1, <3>2
  <2> QED
    BY <2>1, <2>2
<1>8. all = [n \in 1 .. length |-> IF n = length THEN Newline ELSE DumpToken(at, bytes, n - 1)]
  <2>1. all = [n \in 1 .. length |-> all[n]]
    BY <1>6
  <2> HIDE DEF all
  <2> QED
    BY <1>7, <2>1, Zenon
<1>9. DumpText(at, bytes)
        = [n \in 1 .. length |-> IF n = length THEN Newline ELSE DumpToken(at, bytes, n - 1)]
  BY DEF DumpText, length, f
<1> QED
  BY <1>8, <1>9 DEF r, f
-----------------------------------------------------------------------------
(***************************************************************************)
(* What the handlers leave behind.  A write has stored nothing until its   *)
(* only store; a dump has printed the beginning of its text up to the      *)
(* field its pointer is at.                                                *)
(***************************************************************************)
At == strtoull(req.addr)

DumpSoFar ==
  \E k \in 0 .. FieldCount(Bytes) :
    /\ Start(k, Bytes) = Bytes - bytes_left
    /\ fields_on_line = k % 4
    /\ IsBeginning(out, At, Bytes, k)

OutInv ==
  /\ pc \notin {"exited", "killed"} => rc = 0 /\ stored = <<>>
  /\ pc \in {"start", "fwrite"} => out = <<>>
  /\ pc = "read" => req.entry = "mmio_read_x"
  /\ pc = "write" => req.entry = "mmio_write_x"
  /\ pc \in {"read", "write", "fwrite", "loop"} => mmap_addr.addr + mmap_addr.off = At
  /\ pc = "fwrite" => req.opt = "-b" /\ bytes_left = Bytes /\ ptr = mmap_addr.off
  /\ pc = "loop" => req.opt # "-b"
  /\ pc = "loop" /\ Fits => DumpSoFar
  /\ WriteStoresValue
  /\ DumpIsComplete

\* A process that has just started has left nothing behind.
LEMMA InitLeavesNothing == Init => OutInv
BY DEF Init, OutInv, WriteStoresValue, DumpIsComplete

\* open_mapping() changes nothing that was left behind.
LEMMA OpenLeavesNothing ==
  ASSUME IInv, OutInv, mmio_read_open \/ mmio_write_open \/ mmio_dump_open
  PROVE  OutInv'
<1> USE DEF OutInv
<1>0. /\ pc = "start" /\ fd = "closed" /\ ~mapped /\ rc = 0 /\ req \in Request
      /\ UNCHANGED <<req, out, stored>> /\ out = <<>> /\ stored = <<>>
  BY DEF IInv, TypeOK, StageOK, mmio_read_open, mmio_write_open, mmio_dump_open
<1>1. At' = At /\ Bytes' = Bytes /\ Bytes \in Nat
  BY <1>0, Operands DEF At, Bytes, strtoul, strtoull
<1>2. ASSUME NEW f, NEW next, NEW b \in Nat, open_mapping(At, f, b, next)
      PROVE  /\ mmap_addr'.off = Off(At)
             /\ mmap_addr'.addr + mmap_addr'.off = At
             /\ \/ pc' = "exited" /\ rc' = -1
                \/ pc' = next /\ rc' = 0
  <2>1. mmap_addr'.off = Off(At) /\ mmap_addr'.addr + mmap_addr'.off = At
    BY <1>0, <1>2, OpenMapping DEF At
  <2> QED
    BY <1>0, <1>2, <2>1 DEF open_mapping, Return
<1>3. CASE mmio_read_open
  <2>1. PICK f : open_mapping(At, f, DataStore, "read") /\ req.entry = "mmio_read_x"
    BY <1>3 DEF mmio_read_open, At
  <2>2. DataStore \in Nat
    BY DEF DataStore
  <2>3. /\ mmap_addr'.addr + mmap_addr'.off = At
        /\ (pc' = "exited" /\ rc' = -1) \/ (pc' = "read" /\ rc' = 0)
    BY <1>2, <2>1, <2>2
  <2> QED
    BY <1>0, <1>1, <2>1, <2>3 DEF WriteStoresValue, DumpIsComplete
<1>4. CASE mmio_write_open
  <2>1. PICK f : open_mapping(At, f, DataStore, "write") /\ req.entry = "mmio_write_x"
    BY <1>4 DEF mmio_write_open, At
  <2>2. DataStore \in Nat
    BY DEF DataStore
  <2>3. /\ mmap_addr'.addr + mmap_addr'.off = At
        /\ (pc' = "exited" /\ rc' = -1) \/ (pc' = "write" /\ rc' = 0)
    BY <1>2, <2>1, <2>2
  <2> QED
    BY <1>0, <1>1, <2>1, <2>3 DEF WriteStoresValue, DumpIsComplete
<1>5. CASE mmio_dump_open /\ req.opt = "other"
  BY <1>0, <1>5 DEF mmio_dump_open, Return, WriteStoresValue, DumpIsComplete
<1>6. CASE mmio_dump_open /\ req.opt # "other"
  <2> DEFINE next == IF req.opt = "-b" THEN "fwrite" ELSE "loop"
  <2>1. PICK f : open_mapping(At, f, Bytes, next)
    BY <1>6 DEF mmio_dump_open, At, Bytes
  <2>2. ptr' = Off(At) /\ bytes_left' = Bytes /\ fields_on_line' = 0
    BY <1>6 DEF mmio_dump_open, At, Bytes
  <2>3. /\ mmap_addr'.off = Off(At) /\ mmap_addr'.addr + mmap_addr'.off = At
        /\ (pc' = "exited" /\ rc' = -1) \/ (pc' = next /\ rc' = 0)
    BY <1>1, <1>2, <2>1
  <2>4. DumpSoFar'
    <3>1. 0 \in 0 .. FieldCount(Bytes) /\ Start(0, Bytes) = 0 /\ TokenCount(0) = 0
      BY <1>1 DEF FieldCount, Start, TokenCount, WordSize
    <3>2. IsBeginning(<<>>, At, Bytes, 0)
      BY <3>1 DEF IsBeginning, Begins
    <3>3. Start(0, Bytes) = Bytes - bytes_left' /\ fields_on_line' = 0 % 4 /\ out' = <<>>
      BY <1>0, <1>1, <2>2, <3>1
    <3>4. \E k \in 0 .. FieldCount(Bytes) :
            /\ Start(k, Bytes) = Bytes - bytes_left'
            /\ fields_on_line' = k % 4
            /\ IsBeginning(out', At, Bytes, k)
      BY <3>1, <3>2, <3>3
    <3>5. DumpSoFar' <=> \E k \in 0 .. FieldCount(Bytes') :
            /\ Start(k, Bytes') = Bytes' - bytes_left'
            /\ fields_on_line' = k % 4
            /\ IsBeginning(out', At', Bytes', k)
      BY DEF DumpSoFar
    <3> QED
      BY <1>1, <3>4, <3>5, Zenon
  <2> QED
    BY <1>0, <1>1, <2>2, <2>3, <2>4 DEF WriteStoresValue, DumpIsComplete
<1> QED
  BY <1>3, <1>4, <1>5, <1>6

\* The store of a write.
LEMMA WriteStores ==
  ASSUME IInv, OutInv, mmio_write_x
  PROVE  OutInv'
<1> USE DEF OutInv
<1>0. /\ pc = "write" /\ pc' = "exited" /\ UNCHANGED <<req, mmap_addr>> /\ stored = <<>>
      /\ req \in Request /\ req.entry = "mmio_write_x" /\ mmap_addr.addr + mmap_addr.off = At
  BY DEF mmio_write_x, Return, IInv, TypeOK
<1>1. stored' = <<[at |-> Physical(mmap_addr.off), width |-> req.size,
                   value |-> Truncate(strtoul(req.val), req.size)]>>
  BY <1>0 DEF mmio_write_x, Access
<1>2. ASSUME req.val \in 0 .. Values(req.size) - 1, req.val < ULong
      PROVE  stored' = <<[at |-> At, width |-> req.size, value |-> req.val]>>
  <2>1. Values(req.size) \in Nat /\ req.val \in Nat /\ req.val < Values(req.size)
    <3>1. req.size \in {1, 2, 4, 8}
      BY <1>0, Operands
    <3> QED
      BY <1>2, <3>1, ValuesPositive
  <2>2. strtoul(req.val) = req.val
    <3> DEFINE v == req.val
    <3>1. v \in Int /\ ULong \in Nat /\ ULong > 0 /\ v \in 0 .. ULong - 1
      BY <1>2, <2>1, WidthAssumption DEF DataStore
    <3> HIDE DEF v
    <3>2. Parse(v, ULong) = v
      BY <3>1, ParseRange
    <3> QED
      BY <3>2 DEF strtoul, v
  <2>3. Truncate(req.val, req.size) = req.val
    <3> DEFINE v == req.val
               m == Values(req.size)
    <3>1. v \in Nat /\ m \in Nat /\ v < m
      BY <2>1
    <3> HIDE DEF v, m
    <3>2. v % m = v
      BY <3>1, ModSmall
    <3> QED
      BY <3>2 DEF Truncate, v, m
  <2>4. Physical(mmap_addr.off) = At
    BY <1>0 DEF Physical
  <2> QED
    BY <1>1, <2>2, <2>3, <2>4
<1>3. At' = At
  BY <1>0 DEF At
<1>4. WriteStoresValue'
  BY <1>0, <1>2, <1>3 DEF WriteStoresValue, At
<1> QED
  BY <1>0, <1>4 DEF DumpIsComplete

\* What a read prints is not the concern of the properties; a binary dump
\* prints its range once.
LEMMA BinaryDumps ==
  ASSUME IInv, OutInv, mmio_read_x \/ mmio_dump_binary
  PROVE  OutInv'
<1> USE DEF OutInv
<1>0. pc' = "exited" /\ UNCHANGED <<req, mmap_addr, stored>>
  BY DEF mmio_read_x, mmio_dump_binary, Return
<1>1. CASE mmio_read_x
  BY <1>0, <1>1 DEF mmio_read_x, DumpIsComplete, WriteStoresValue
<1>2. CASE mmio_dump_binary
  <2>1. /\ pc = "fwrite" /\ req.opt = "-b" /\ bytes_left = Bytes /\ ptr = mmap_addr.off
        /\ mmap_addr.addr + mmap_addr.off = At /\ out = <<>> /\ req.entry = "mmio_dump"
    BY <1>2 DEF mmio_dump_binary, IInv, StageOK
  <2>2. rc' = 0 => out' = <<Raw(Physical(ptr), Bytes)>>
    BY <1>2, <2>1 DEF mmio_dump_binary, Return
  <2>3. Physical(ptr) = At
    BY <2>1 DEF Physical
  <2>4. DumpIsComplete'
    BY <1>0, <2>1, <2>2, <2>3 DEF DumpIsComplete, At, Bytes
  <2> QED
    BY <1>0, <2>1, <2>4 DEF WriteStoresValue
<1> QED
  BY <1>1, <1>2

\* A turn of the loop prints the next field of the text.
LEMMA TurnPrints ==
  ASSUME IInv, OutInv, mmio_dump_turn
  PROVE  OutInv'
<1> USE DEF OutInv
<1>0. /\ pc = "loop" /\ bytes_left > 0 /\ bytes_left \in Nat
      /\ UNCHANGED <<req, pc, mmap_addr, stored, rc>> /\ req \in Request
      /\ fields_on_line \in 0 .. 3 /\ mmap_addr.addr + mmap_addr.off = At
  BY DEF mmio_dump_turn, IInv, TypeOK
<1>1. /\ At' = At /\ Bytes' = Bytes /\ Bytes \in Nat /\ At \in Int
      /\ Fits' = Fits
  BY <1>0, Operands, WidthAssumption DEF At, Bytes, strtoul, strtoull, Fits
<1>2. ASSUME Fits PROVE DumpSoFar'
  <2>1. PICK k \in 0 .. FieldCount(Bytes) :
          /\ Start(k, Bytes) = Bytes - bytes_left
          /\ fields_on_line = k % 4
          /\ IsBeginning(out, At, Bytes, k)
    BY <1>0, <1>2 DEF DumpSoFar
  <2> DEFINE w == IF bytes_left < 4 THEN 1 ELSE 4
  <2>2. Access.width = w /\ Access.at = ptr
    BY <1>0 DEF Access, DumpAccess, WordSize
  <2>3. /\ k + 1 \in 0 .. FieldCount(Bytes)
        /\ FieldWidth(k, Bytes) = w
        /\ Start(k + 1, Bytes) = Start(k, Bytes) + w
    <3>1. /\ k + 1 \in 0 .. FieldCount(Bytes)
          /\ FieldWidth(k, Bytes) = IF bytes_left < 4 THEN 1 ELSE 4
          /\ Start(k + 1, Bytes) = Start(k, Bytes) + FieldWidth(k, Bytes)
      BY <1>0, <1>1, <2>1, NextField, Zenon
    <3> QED
      BY <3>1
  <2>4. k \in Nat
    <3>1. FieldCount(Bytes) \in Nat
      BY <1>1 DEF FieldCount, WordSize
    <3> QED
      BY <3>1
  <2>5. /\ DumpOK /\ ptr \in Nat /\ mmap_addr.addr \in Nat /\ mmap_addr.off \in Nat
    <3>1. DumpOK
      BY <1>0, <1>2 DEF IInv, StageOK
    <3> QED
      BY <3>1 DEF IInv, TypeOK
  <2>6. desired_addr = At + Start(k, Bytes) /\ Physical(ptr) = At + Start(k, Bytes)
    <3>1. Physical(ptr) = mmap_addr.addr + ptr
      BY DEF Physical
    <3>2. desired_addr = mmap_addr.addr + ptr /\ ptr + bytes_left = mmap_addr.off + Bytes
      BY <1>0, <1>2, <2>5 DEF DumpOK
    <3>3. ptr = mmap_addr.off + Start(k, Bytes)
      <4> HIDE DEF OutInv
      <4> QED
        BY <1>0, <1>1, <2>1, <2>5, <3>2
    <3>4. mmap_addr.addr + ptr = At + Start(k, Bytes)
      <4>1. Start(k, Bytes) \in Int
        BY <1>0, <1>1, <2>1
      <4> HIDE DEF OutInv
      <4> QED
        BY <1>0, <1>1, <2>5, <3>3, <4>1
    <3> QED
      BY <3>1, <3>2, <3>4, Zenon
  <2>7. (fields_on_line + 1) % 4 = (k + 1) % 4
    BY <2>1, <2>4
  <2>8. /\ bytes_left' = bytes_left - w
        /\ fields_on_line' = (k + 1) % 4
        /\ out' = out \o (IF k % 4 = 0 THEN <<Label(At + Start(k, Bytes))>> ELSE <<>>)
                      \o <<Field(At + Start(k, Bytes), FieldWidth(k, Bytes))>>
                      \o (IF (k + 1) % 4 = 0 THEN <<Newline>> ELSE <<>>)
    <3>1. /\ bytes_left' = bytes_left - Access.width
          /\ fields_on_line' = (fields_on_line + 1) % 4
          /\ out' = out \o (IF fields_on_line = 0 THEN <<Label(desired_addr)>> ELSE <<>>)
                        \o <<Field(Physical(Access.at), Access.width)>>
                        \o (IF (fields_on_line + 1) % 4 = 0 THEN <<Newline>> ELSE <<>>)
      BY DEF mmio_dump_turn, bytes_printed, FieldsPerLine
    <3> HIDE DEF w
    <3> QED
      BY <2>1, <2>2, <2>3, <2>6, <2>7, <3>1
  <2>9. IsBeginning(out', At, Bytes, k + 1)
    <3>1. Start(k, Bytes) \in Int /\ FieldWidth(k, Bytes) \in Int
      BY <1>0, <1>1, <2>1, <2>3
    <3> QED
      BY <1>1, <2>1, <2>4, <2>8, <3>1, TurnAddsField
  <2>10. Start(k + 1, Bytes) = Bytes - bytes_left'
    BY <1>0, <1>1, <2>1, <2>3, <2>8
  <2>11. \E j \in 0 .. FieldCount(Bytes) :
           /\ Start(j, Bytes) = Bytes - bytes_left'
           /\ fields_on_line' = j % 4
           /\ IsBeginning(out', At, Bytes, j)
    BY <2>3, <2>8, <2>9, <2>10
  <2>12. DumpSoFar' <=> \E j \in 0 .. FieldCount(Bytes') :
           /\ Start(j, Bytes') = Bytes' - bytes_left'
           /\ fields_on_line' = j % 4
           /\ IsBeginning(out', At', Bytes', j)
    BY DEF DumpSoFar
  <2> QED
    BY <1>1, <2>11, <2>12, Zenon
<1> QED
  BY <1>0, <1>1, <1>2 DEF WriteStoresValue, DumpIsComplete

\* The end of the loop completes the text.
LEMMA EndPrints ==
  ASSUME IInv, OutInv, mmio_dump_end
  PROVE  OutInv'
<1> USE DEF OutInv
<1>0. /\ pc = "loop" /\ bytes_left = 0 /\ pc' = "exited" /\ UNCHANGED <<req, mmap_addr>>
      /\ req \in Request /\ req.entry = "mmio_dump" /\ req.opt # "-b"
      /\ out' = IF fields_on_line # 0 THEN Append(out, Newline) ELSE out
  BY DEF mmio_dump_end, Return, IInv, TypeOK, StageOK
<1>1. Bytes \in Nat
  BY <1>0, Operands DEF Bytes
<1>2. ASSUME Fits PROVE out' = DumpText(At, Bytes)
  <2>1. PICK k \in 0 .. FieldCount(Bytes) :
          /\ Start(k, Bytes) = Bytes - bytes_left
          /\ fields_on_line = k % 4
          /\ IsBeginning(out, At, Bytes, k)
    BY <1>0, <1>2 DEF DumpSoFar
  <2>2. Start(k, Bytes) = Bytes
    BY <1>0, <1>1, <2>1
  <2>3. k = FieldCount(Bytes)
    BY <1>1, <2>2, LastField
  <2>4. out' = IF FieldCount(Bytes) % 4 # 0 THEN Append(out, Newline) ELSE out
    BY <1>0, <2>1, <2>3
  <2> QED
    BY <1>1, <2>1, <2>3, <2>4, EndCompletes
<1>3. DumpIsComplete'
  <2>1. At' = At /\ Bytes' = Bytes /\ Fits' = Fits
    BY <1>0 DEF At, Bytes, Fits
  <2> QED
    BY <1>0, <1>2, <2>1 DEF DumpIsComplete, At, Bytes
<1> QED
  BY <1>0, <1>3 DEF WriteStoresValue

\* Every step of a handler.
LEMMA StepLeaves == IInv /\ OutInv /\ [Next]_vars => OutInv'
<1> SUFFICES ASSUME IInv, OutInv, [Next]_vars PROVE OutInv'
  OBVIOUS
<1>1. CASE Fault
  BY <1>1 DEF Fault, OutInv, WriteStoresValue, DumpIsComplete
<1>2. CASE UNCHANGED vars
  <2>1. /\ At' = At /\ Bytes' = Bytes /\ Fits' = Fits
        /\ DumpSoFar' <=> DumpSoFar
    BY <1>2 DEF vars, At, Bytes, Fits, DumpSoFar, IsBeginning
  <2> QED
    BY <1>2, <2>1 DEF vars, OutInv, WriteStoresValue, DumpIsComplete
<1> QED
  BY <1>1, <1>2, OpenLeavesNothing, WriteStores, BinaryDumps, TurnPrints, EndPrints DEF Next

-----------------------------------------------------------------------------
(* The theorems. *)

\* The inductive invariant holds in every reachable state of a handler.
THEOREM Invariance == Spec => []IInv
BY InitEstablishes, StepPreserves, PTL DEF Spec

\* The type invariant of the handlers.
THEOREM Types == Spec => []TypeOK
<1>1. IInv => TypeOK
  BY DEF IInv
<1> QED
  BY <1>1, Invariance, PTL

\* For every page size, integer width, address and length: reads, writes and
\* dumps stay inside the length that open_mapping() mapped, a dump as long
\* as its size and the offset in the page fit in an unsigned int.
THEOREM InMapping == Spec => []AccessInMapping
<1>1. IInv => AccessInMapping
  <2> SUFFICES ASSUME IInv, Accessing, req.entry = "mmio_dump" => Fits
               PROVE  mapped /\ Access.at + Access.width <= mmap_addr.length
    BY DEF AccessInMapping
  <2>1. CASE pc \in {"read", "write"}
    BY <2>1, Operands DEF IInv, TypeOK, StageOK, Access, DataStore
  <2>2. CASE pc = "fwrite" /\ Fits
    BY <2>2, Operands DEF IInv, TypeOK, StageOK, DumpOK, Access, Bytes
  <2>3. CASE pc = "loop" /\ Fits
    BY <2>3, Operands DEF IInv, TypeOK, StageOK, DumpOK, Access, DumpAccess, Bytes,
                          WordSize, Accessing
  <2>4. pc \in {"fwrite", "loop"} => req.entry = "mmio_dump"
    BY DEF IInv, StageOK
  <2> QED
    BY <2>1, <2>2, <2>3, <2>4 DEF Accessing
<1> QED
  BY <1>1, Invariance, PTL

\* The address in front of a line of a dump is that of the data on the line,
\* for every address.
THEOREM LabelsHonest == Spec => []LabelNamesData
<1>1. IInv => LabelNamesData
  BY DEF IInv, StageOK, DumpOK, LabelNamesData, Bytes, Physical
<1> QED
  BY <1>1, Invariance, PTL

\* Every handler gives back its mapping and its file descriptor.
THEOREM NothingLeaks == Spec => []Released
<1>1. IInv => Released
  BY DEF IInv, StageOK, Released
<1> QED
  BY <1>1, Invariance, PTL

\* In every reachable state a write has stored nothing or its value, and a dump
\* has printed the beginning of its text or all of it.
THEOREM Outcome == Spec => []OutInv
BY InitLeavesNothing, StepLeaves, Invariance, PTL DEF Spec

\* A dump that succeeds has printed every byte of its range once, in order and
\* under the right address, for every address and length; with -b it has
\* written exactly the range.
THEOREM DumpsWhole == Spec => []DumpIsComplete
<1>1. OutInv => DumpIsComplete
  BY DEF OutInv
<1> QED
  BY <1>1, Outcome, PTL

\* A write that succeeds has stored its value at its address, once, for every
\* value, address, page size and width.
THEOREM WritesValue == Spec => []WriteStoresValue
<1>1. OutInv => WriteStoresValue
  BY DEF OutInv
<1> QED
  BY <1>1, Outcome, PTL
==============================================================================
