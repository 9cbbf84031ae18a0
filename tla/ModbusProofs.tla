---------------------------- MODULE ModbusProofs ----------------------------
(***************************************************************************)
(* Proofs about the libmodbus client and server, for any script of calls,  *)
(* any size of the server's tables and every backend: what a request says, *)
(* what an answer says, and which answers a call accepts.                  *)
(***************************************************************************)
EXTENDS Modbus, SequenceTheorems, TLAPS

-----------------------------------------------------------------------------
(* The numbers of the functions, the limits and the lengths, once.         *)
Byte == {b \in Nat : b < 256}

LEMMA FunctionNumbers ==
    /\ FC.READ_COILS = 1 /\ FC.READ_DISCRETE_INPUTS = 2 /\ FC.READ_HOLDING_REGISTERS = 3
    /\ FC.READ_INPUT_REGISTERS = 4 /\ FC.WRITE_SINGLE_COIL = 5 /\ FC.WRITE_SINGLE_REGISTER = 6
    /\ FC.READ_EXCEPTION_STATUS = 7 /\ FC.WRITE_MULTIPLE_COILS = 15
    /\ FC.WRITE_MULTIPLE_REGISTERS = 16 /\ FC.REPORT_SLAVE_ID = 17
    /\ FC.MASK_WRITE_REGISTER = 22 /\ FC.WRITE_AND_READ_REGISTERS = 23
    /\ ReadBits = {1, 2} /\ ReadRegisters = {3, 4}
    /\ WriteSingle = {5, 6} /\ WriteMultiple = {15, 16}
BY DEF FC, ReadBits, ReadRegisters, WriteSingle, WriteMultiple

LEMMA Limits ==
    /\ MAX.READ_BITS = 2000 /\ MAX.WRITE_BITS = 1968 /\ MAX.READ_REGISTERS = 125
    /\ MAX.WRITE_REGISTERS = 123 /\ MAX.WR_WRITE_REGISTERS = 121 /\ MAX.WR_READ_REGISTERS = 125
BY DEF MAX

LEMMA Backends ==
    /\ DOMAIN Backend = {"rtu", "tcp", "rtutcp"}
    /\ Backend["rtu"].header = 1 /\ Backend["rtu"].checksum = 2 /\ Backend["rtu"].max_adu = 256
    /\ Backend["tcp"].header = 7 /\ Backend["tcp"].checksum = 0 /\ Backend["tcp"].max_adu = 260
    /\ Backend["rtutcp"].header = 1 /\ Backend["rtutcp"].checksum = 2
    /\ Backend["rtutcp"].max_adu = 256
BY DEF Backend

-----------------------------------------------------------------------------
(* Words, registers and bits survive the way into bytes and back.          *)

LEMMA WordBytes ==
    ASSUME NEW w \in Word16
    PROVE  /\ Bytes(w) \in Seq(Byte) /\ Len(Bytes(w)) = 2
           /\ Bytes(w)[1] \in Byte /\ Bytes(w)[2] \in Byte
           /\ Word(Bytes(w), 1) = w
           /\ Bytes(w)[1] * 256 + Bytes(w)[2] = w
<1>1. w \in Int /\ w >= 0 /\ w < 65536
    BY DEF Word16
<1>2. w % 256 \in Int /\ w % 256 >= 0 /\ w % 256 < 256 /\ w \div 256 \in Int
    BY <1>1
<1>3. PICK high \in Int, low \in Int : high = w \div 256 /\ low = w % 256
    BY <1>2
<1>4. high * 256 + low = w /\ low >= 0 /\ low < 256
    BY <1>1, <1>2, <1>3
<1>5. high >= 0 /\ high < 256
    BY <1>1, <1>4
<1>6. high % 256 = high
    BY <1>5
<1>7. Bytes(w) = <<high, low>>
    BY <1>3, <1>6 DEF Bytes
<1>8. QED
    BY <1>4, <1>5, <1>7 DEF Word, Byte

LEMMA Joined ==
    ASSUME NEW d \in Seq(Byte), NEW t \in Seq(Byte)
    PROVE  d \o t \in Seq(Byte) /\ Len(d \o t) = Len(d) + Len(t)
BY ConcatProperties

(* What stands in front stays where it is, the rest is moved on.           *)
LEMMA Behind ==
    ASSUME NEW d \in Seq(Byte), NEW t \in Seq(Byte)
    PROVE  /\ d \o t \in Seq(Byte) /\ Len(d \o t) = Len(d) + Len(t)
           /\ \A i \in 1..Len(d) : (d \o t)[i] = d[i]
           /\ \A j \in Len(d) + 1..Len(d) + Len(t) : (d \o t)[j] = t[j - Len(d)]
           /\ \A k \in Nat \ {0} : k + 1 <= Len(d) => Word(d \o t, k) = Word(d, k)
<1>1. /\ d \o t \in Seq(Byte) /\ Len(d \o t) = Len(d) + Len(t)
      /\ \A i \in 1..Len(d) : (d \o t)[i] = d[i]
      /\ \A j \in Len(d) + 1..Len(d) + Len(t) : (d \o t)[j] = t[j - Len(d)]
    BY ConcatProperties
<1>2. QED
    BY <1>1 DEF Word

(* A word behind a whole number of bytes is read there.                    *)
LEMMA WordBehind ==
    ASSUME NEW d \in Seq(Byte), NEW t \in Seq(Byte), NEW k \in Nat \ {0}, k + 1 <= Len(t)
    PROVE  Word(d \o t, Len(d) + k) = Word(t, k)
<1> DEFINE n == Len(d)
<1>1. n \in Nat
    OBVIOUS
<1>2. (d \o t)[n + k] = t[k] /\ (d \o t)[n + k + 1] = t[k + 1]
  <2>1. ASSUME NEW i \in {k, k + 1}
        PROVE  (d \o t)[n + i] = t[i]
    <3>1. n + i \in n + 1..n + Len(t) /\ (n + i) - n = i
        BY <1>1
    <3>2. QED
        BY <3>1, Behind
  <2>2. QED
    BY <1>1, <2>1
<1>3. QED
    BY <1>1, <1>2 DEF Word

(* The words of a head, and one more word or byte behind it.               *)
LEMMA Heads ==
    ASSUME NEW d \in Seq(Byte), NEW t \in Seq(Byte)
    PROVE  /\ Len(d) >= 2 => Word(d \o t, 1) = Word(d, 1)
           /\ Len(d) >= 4 => Word(d \o t, 3) = Word(d, 3)
           /\ Len(d) >= 6 => Word(d \o t, 5) = Word(d, 5)
           /\ Len(d) >= 8 => Word(d \o t, 7) = Word(d, 7)
<1>1. ASSUME NEW k \in Nat \ {0}, k + 1 <= Len(d)
      PROVE  Word(d \o t, k) = Word(d, k)
    BY <1>1, Behind
<1>2. Len(d) \in Nat /\ 1 \in Nat \ {0} /\ 3 \in Nat \ {0} /\ 5 \in Nat \ {0} /\ 7 \in Nat \ {0}
    OBVIOUS
<1>3. Len(d) >= 2 => 1 + 1 <= Len(d)
    BY <1>2
<1>4. Len(d) >= 4 => 3 + 1 <= Len(d)
    BY <1>2
<1>5. Len(d) >= 6 => 5 + 1 <= Len(d)
    BY <1>2
<1>6. Len(d) >= 8 => 7 + 1 <= Len(d)
    BY <1>2
<1>7. QED
    BY <1>1, <1>2, <1>3, <1>4, <1>5, <1>6

(* A message under construction: n bytes so far.                           *)
Has(d, n) == d \in Seq(Byte) /\ Len(d) = n
Join(d, t) == d \o t

LEMMA OneWord ==
    ASSUME NEW w \in Word16
    PROVE  Has(Bytes(w), 2) /\ Word(Bytes(w), 1) = w
BY WordBytes DEF Has

LEMMA PutWord ==
    ASSUME NEW d, NEW w \in Word16
    PROVE  LET e == Join(d, Bytes(w)) IN
           /\ Has(d, 2) => Has(e, 4) /\ Word(e, 1) = Word(d, 1) /\ Word(e, 3) = w
           /\ Has(d, 4) => /\ Has(e, 6) /\ Word(e, 1) = Word(d, 1) /\ Word(e, 3) = Word(d, 3)
                           /\ Word(e, 5) = w
           /\ Has(d, 6) => /\ Has(e, 8) /\ Word(e, 1) = Word(d, 1) /\ Word(e, 3) = Word(d, 3)
                           /\ Word(e, 5) = Word(d, 5) /\ Word(e, 7) = w
<1> DEFINE e == Join(d, Bytes(w))
<1>1. Bytes(w) \in Seq(Byte) /\ Len(Bytes(w)) = 2 /\ Word(Bytes(w), 1) = w
    BY WordBytes
<1>2. 1 \in Nat \ {0} /\ 1 + 1 <= Len(Bytes(w))
    BY <1>1
<1>3. ASSUME NEW n \in {2, 4, 6}, Has(d, n)
      PROVE  /\ Has(e, n + 2)
             /\ Word(e, n + 1) = w
             /\ n >= 2 => Word(e, 1) = Word(d, 1)
             /\ n >= 4 => Word(e, 3) = Word(d, 3)
             /\ n >= 6 => Word(e, 5) = Word(d, 5)
  <2>1. d \in Seq(Byte) /\ Len(d) = n
    BY <1>3 DEF Has
  <2>2. Word(d \o Bytes(w), Len(d) + 1) = w
    BY <1>1, <1>2, <2>1, WordBehind
  <2>3. d \o Bytes(w) \in Seq(Byte) /\ Len(d \o Bytes(w)) = n + 2
    BY <1>1, <2>1, Joined
  <2>4. /\ n >= 2 => Word(d \o Bytes(w), 1) = Word(d, 1)
        /\ n >= 4 => Word(d \o Bytes(w), 3) = Word(d, 3)
        /\ n >= 6 => Word(d \o Bytes(w), 5) = Word(d, 5)
    BY <1>1, <2>1, Heads
  <2>5. QED
    BY <2>1, <2>2, <2>3, <2>4 DEF Has, Join
<1> HIDE DEF e
<1>4. Has(d, 2) => Has(e, 4) /\ Word(e, 1) = Word(d, 1) /\ Word(e, 3) = w
  <2>1. Has(d, 2) => Has(e, 2 + 2) /\ Word(e, 2 + 1) = w /\ Word(e, 1) = Word(d, 1)
    BY <1>3
  <2>2. QED
    BY <2>1
<1>5. Has(d, 4) => /\ Has(e, 6) /\ Word(e, 1) = Word(d, 1) /\ Word(e, 3) = Word(d, 3)
                   /\ Word(e, 5) = w
  <2>1. Has(d, 4) => /\ Has(e, 4 + 2) /\ Word(e, 4 + 1) = w
                     /\ Word(e, 1) = Word(d, 1) /\ Word(e, 3) = Word(d, 3)
    BY <1>3
  <2>2. QED
    BY <2>1
<1>6. Has(d, 6) => /\ Has(e, 8) /\ Word(e, 1) = Word(d, 1) /\ Word(e, 3) = Word(d, 3)
                   /\ Word(e, 5) = Word(d, 5) /\ Word(e, 7) = w
  <2>1. Has(d, 6) => /\ Has(e, 6 + 2) /\ Word(e, 6 + 1) = w
                     /\ Word(e, 1) = Word(d, 1) /\ Word(e, 3) = Word(d, 3)
                     /\ Word(e, 5) = Word(d, 5)
    BY <1>3
  <2>2. QED
    BY <2>1
<1>7. QED
    BY <1>4, <1>5, <1>6 DEF e

LEMMA PutByte ==
    ASSUME NEW d, NEW b \in Byte
    PROVE  LET e == Join(d, <<b>>) IN
           /\ Has(d, 4) => Has(e, 5) /\ Word(e, 1) = Word(d, 1) /\ Word(e, 3) = Word(d, 3)
           /\ Has(d, 8) => /\ Has(e, 9) /\ Word(e, 1) = Word(d, 1) /\ Word(e, 3) = Word(d, 3)
                           /\ Word(e, 5) = Word(d, 5) /\ Word(e, 7) = Word(d, 7)
<1>1. <<b>> \in Seq(Byte) /\ Len(<<b>>) = 1
    OBVIOUS
<1>2. ASSUME NEW n \in {4, 8}, Has(d, n)
      PROVE  /\ Has(Join(d, <<b>>), n + 1)
             /\ Word(Join(d, <<b>>), 1) = Word(d, 1)
             /\ Word(Join(d, <<b>>), 3) = Word(d, 3)
             /\ n >= 6 => Word(Join(d, <<b>>), 5) = Word(d, 5)
             /\ n >= 8 => Word(Join(d, <<b>>), 7) = Word(d, 7)
  <2>1. d \in Seq(Byte) /\ Len(d) = n
    BY <1>2 DEF Has
  <2>2. d \o <<b>> \in Seq(Byte) /\ Len(d \o <<b>>) = n + 1
    BY <1>1, <2>1, Joined
  <2>3. /\ Len(d) >= 2 => Word(d \o <<b>>, 1) = Word(d, 1)
        /\ Len(d) >= 4 => Word(d \o <<b>>, 3) = Word(d, 3)
        /\ Len(d) >= 6 => Word(d \o <<b>>, 5) = Word(d, 5)
        /\ Len(d) >= 8 => Word(d \o <<b>>, 7) = Word(d, 7)
    BY <1>1, <2>1, Heads
  <2>4. Len(d) >= 2 /\ Len(d) >= 4 /\ (n >= 6 => Len(d) >= 6) /\ (n >= 8 => Len(d) >= 8)
    BY <2>1
  <2>5. QED
    BY <2>1, <2>2, <2>3, <2>4 DEF Has, Join
<1>3. Has(d, 4) => /\ Has(Join(d, <<b>>), 4 + 1) /\ Word(Join(d, <<b>>), 1) = Word(d, 1)
                   /\ Word(Join(d, <<b>>), 3) = Word(d, 3)
    BY <1>2
<1>4. Has(d, 8) => /\ Has(Join(d, <<b>>), 8 + 1) /\ Word(Join(d, <<b>>), 1) = Word(d, 1)
                   /\ Word(Join(d, <<b>>), 3) = Word(d, 3)
                   /\ Word(Join(d, <<b>>), 5) = Word(d, 5)
                   /\ Word(Join(d, <<b>>), 7) = Word(d, 7)
    BY <1>2
<1>5. QED
    BY <1>3, <1>4

LEMMA PutTail ==
    ASSUME NEW d, NEW t, NEW k \in {5, 9}, NEW n \in Nat, Has(d, k), Has(t, n)
    PROVE  LET e == Join(d, t) IN
           /\ Has(e, k + n)
           /\ Word(e, 1) = Word(d, 1) /\ Word(e, 3) = Word(d, 3)
           /\ k = 9 => Word(e, 5) = Word(d, 5) /\ Word(e, 7) = Word(d, 7)
<1>1. d \in Seq(Byte) /\ Len(d) = k /\ t \in Seq(Byte) /\ Len(t) = n
    BY DEF Has
<1>2. d \o t \in Seq(Byte) /\ Len(d \o t) = k + n
    BY <1>1, Joined
<1>3. QED
    BY <1>1, <1>2, Heads DEF Has, Join

LEMMA Numbers ==
    /\ \A w \in Word16 : w \in Nat /\ w <= 65535
    /\ \A b \in Byte : b \in Nat /\ b <= 255
    /\ \A n \in Nat : n <= 255 => n \in Byte
    /\ \A n \in Nat : n <= 65535 => n \in Word16
<1>1. \A w \in Word16 : w \in Nat /\ w <= 65535
    BY DEF Word16
<1>2. \A b \in Byte : b \in Nat /\ b <= 255
    BY DEF Byte
<1>3. \A n \in Nat : n <= 255 => n \in Byte
    BY DEF Byte
<1>4. \A n \in Nat : n <= 65535 => n \in Word16
    BY DEF Word16
<1>5. QED
    BY <1>1, <1>2, <1>3, <1>4

LEMMA TwoWords ==
    ASSUME NEW a \in Word16, NEW n \in Word16
    PROVE  LET d == Join(Bytes(a), Bytes(n)) IN
           Has(d, 4) /\ Word(d, 1) = a /\ Word(d, 3) = n
BY OneWord, PutWord

LEMMA RegistersInBytes ==
    ASSUME NEW regs \in Seq(Word16)
    PROVE  LET d == RegisterBytes(regs) IN
           /\ d \in Seq(Byte) /\ Len(d) = 2 * Len(regs)
           /\ \A i \in 1..Len(regs) : d[2 * i - 1] * 256 + d[2 * i] = regs[i]
<1> DEFINE d == RegisterBytes(regs)
<1>1. ASSUME NEW i \in 1..Len(regs)
      PROVE  /\ d[2 * i - 1] = Bytes(regs[i])[1] /\ d[2 * i] = Bytes(regs[i])[2]
             /\ regs[i] \in Word16
  <2>1. ((2 * i - 1) + 1) \div 2 = i /\ (2 * i - 1) % 2 = 1 /\ 2 * i - 1 \in 1..2 * Len(regs)
    OBVIOUS
  <2>2. (2 * i + 1) \div 2 = i /\ (2 * i) % 2 = 0 /\ 2 * i \in 1..2 * Len(regs)
    OBVIOUS
  <2>3. QED
    BY <2>1, <2>2 DEF RegisterBytes
<1>2. ASSUME NEW k \in 1..2 * Len(regs)
      PROVE  Bytes(regs[(k + 1) \div 2])[2 - (k % 2)] \in Byte
  <2>1. (k + 1) \div 2 \in 1..Len(regs) /\ 2 - (k % 2) \in {1, 2}
    OBVIOUS
  <2>2. QED
    BY <2>1, WordBytes
<1>3. d \in Seq(Byte) /\ Len(d) = 2 * Len(regs)
  <2>1. d \in [1..2 * Len(regs) -> Byte]
    BY <1>2 DEF RegisterBytes
  <2>2. QED
    BY <2>1
<1>4. QED
    BY <1>1, <1>3, WordBytes

LEMMA ByteCounts ==
    ASSUME NEW n \in Nat
    PROVE  /\ ByteCount(n) \in Nat /\ 8 * ByteCount(n) >= n /\ 8 * ByteCount(n) < n + 8
           /\ ByteCount(n) = (n + 7) \div 8
<1>1. PICK q \in Int, r \in Int : q = n \div 8 /\ r = n % 8
    OBVIOUS
<1>2. 8 * q + r = n /\ r >= 0 /\ r < 8 /\ q >= 0
    BY <1>1
<1>3. ByteCount(n) = q + (IF r # 0 THEN 1 ELSE 0)
    BY <1>1 DEF ByteCount
<1>4. (n + 7) \div 8 = q + (IF r # 0 THEN 1 ELSE 0)
    BY <1>2
<1>5. QED
    BY <1>2, <1>3, <1>4

OfBits(b1, b2, b3, b4, b5, b6, b7, b8) ==
    b1 + 2 * b2 + 4 * b3 + 8 * b4 + 16 * b5 + 32 * b6 + 64 * b7 + 128 * b8

LEMMA EachBit ==
    ASSUME NEW b1 \in {0, 1}, NEW b2 \in {0, 1}, NEW b3 \in {0, 1}, NEW b4 \in {0, 1},
           NEW b5 \in {0, 1}, NEW b6 \in {0, 1}, NEW b7 \in {0, 1}, NEW b8 \in {0, 1}
    PROVE  LET x == OfBits(b1, b2, b3, b4, b5, b6, b7, b8) IN
           /\ x \in Byte
           /\ (x \div 1) % 2 = b1 /\ (x \div 2) % 2 = b2 /\ (x \div 4) % 2 = b3
           /\ (x \div 8) % 2 = b4 /\ (x \div 16) % 2 = b5 /\ (x \div 32) % 2 = b6
           /\ (x \div 64) % 2 = b7 /\ (x \div 128) % 2 = b8
<1> DEFINE x == OfBits(b1, b2, b3, b4, b5, b6, b7, b8)
<1>1. x = b1 + 2 * b2 + 4 * b3 + 8 * b4 + 16 * b5 + 32 * b6 + 64 * b7 + 128 * b8
    BY DEF OfBits
<1>2. x \in Byte
    BY <1>1 DEF Byte
<1> HIDE DEF x
<1>3. (x \div 1) % 2 = b1 /\ (x \div 2) % 2 = b2
    BY <1>1
<1>4. (x \div 4) % 2 = b3 /\ (x \div 8) % 2 = b4
    BY <1>1
<1>5. (x \div 16) % 2 = b5 /\ (x \div 32) % 2 = b6
    BY <1>1
<1>6. (x \div 64) % 2 = b7 /\ (x \div 128) % 2 = b8
    BY <1>1
<1>7. QED
    BY <1>2, <1>3, <1>4, <1>5, <1>6 DEF x

LEMMA EightBits ==
    ASSUME NEW f \in [1..8 -> {0, 1}], NEW x,
           x = f[1] + 2 * f[2] + 4 * f[3] + 8 * f[4] + 16 * f[5] + 32 * f[6] + 64 * f[7] + 128 * f[8]
    PROVE  x \in Byte /\ \A j \in 1..8 : (x \div BitWeight[j]) % 2 = f[j]
<1>1. PICK b1 \in {0, 1}, b2 \in {0, 1}, b3 \in {0, 1}, b4 \in {0, 1} :
          b1 = f[1] /\ b2 = f[2] /\ b3 = f[3] /\ b4 = f[4]
    OBVIOUS
<1>2. PICK b5 \in {0, 1}, b6 \in {0, 1}, b7 \in {0, 1}, b8 \in {0, 1} :
          b5 = f[5] /\ b6 = f[6] /\ b7 = f[7] /\ b8 = f[8]
    OBVIOUS
<1>3. x = OfBits(b1, b2, b3, b4, b5, b6, b7, b8)
    BY <1>1, <1>2 DEF OfBits
<1>4. x \in Byte
    BY <1>3, EachBit
<1>5. /\ (x \div 1) % 2 = b1 /\ (x \div 2) % 2 = b2 /\ (x \div 4) % 2 = b3
      /\ (x \div 8) % 2 = b4 /\ (x \div 16) % 2 = b5 /\ (x \div 32) % 2 = b6
      /\ (x \div 64) % 2 = b7 /\ (x \div 128) % 2 = b8
    BY <1>3, EachBit
<1>6. /\ BitWeight[1] = 1 /\ BitWeight[2] = 2 /\ BitWeight[3] = 4 /\ BitWeight[4] = 8
      /\ BitWeight[5] = 16 /\ BitWeight[6] = 32 /\ BitWeight[7] = 64 /\ BitWeight[8] = 128
    BY DEF BitWeight
<1>7. ASSUME NEW j \in 1..8
      PROVE  (x \div BitWeight[j]) % 2 = f[j]
  <2>1. j = 1 \/ j = 2 \/ j = 3 \/ j = 4 \/ j = 5 \/ j = 6 \/ j = 7 \/ j = 8
    OBVIOUS
  <2>2. CASE j = 1 BY <2>2, <1>1, <1>5, <1>6
  <2>3. CASE j = 2 BY <2>3, <1>1, <1>5, <1>6
  <2>4. CASE j = 3 BY <2>4, <1>1, <1>5, <1>6
  <2>5. CASE j = 4 BY <2>5, <1>1, <1>5, <1>6
  <2>6. CASE j = 5 BY <2>6, <1>2, <1>5, <1>6
  <2>7. CASE j = 6 BY <2>7, <1>2, <1>5, <1>6
  <2>8. CASE j = 7 BY <2>8, <1>2, <1>5, <1>6
  <2>9. CASE j = 8 BY <2>9, <1>2, <1>5, <1>6
  <2>10. QED
    BY <2>1, <2>2, <2>3, <2>4, <2>5, <2>6, <2>7, <2>8, <2>9
<1>8. QED
    BY <1>4, <1>7

(* Bit i stands in byte i / 8, in the place i % 8.                         *)
LEMMA BitPlace ==
    ASSUME NEW n \in Nat, NEW i \in 1..n
    PROVE  LET k == ((i - 1) \div 8) + 1
               j == ((i - 1) % 8) + 1
           IN k \in 1..ByteCount(n) /\ j \in 1..8 /\ 8 * k - 8 + j = i
<1>1. PICK q \in Int, r \in Int : q = (i - 1) \div 8 /\ r = (i - 1) % 8
    OBVIOUS
<1>2. 8 * q + r = i - 1 /\ r >= 0 /\ r < 8 /\ q >= 0
    BY <1>1
<1>3. q < ByteCount(n)
    BY <1>2, ByteCounts
<1>4. q + 1 \in 1..ByteCount(n)
    BY <1>2, <1>3, ByteCounts
<1>5. r + 1 \in 1..8 /\ 8 * (q + 1) - 8 + (r + 1) = i
    BY <1>2
<1>6. QED
    BY <1>1, <1>4, <1>5

LEMMA BitsInBytes ==
    ASSUME NEW bits \in Seq({0, 1})
    PROVE  LET d == BitBytes(bits) IN
           /\ d \in Seq(Byte) /\ Len(d) = ByteCount(Len(bits))
           /\ \A i \in 1..Len(bits) :
                 (d[((i - 1) \div 8) + 1] \div BitWeight[((i - 1) % 8) + 1]) % 2 = bits[i]
<1> DEFINE n == Len(bits)
           d == BitBytes(bits)
           b(k, j) == IF 8 * k - 8 + j > n THEN 0 ELSE bits[8 * k - 8 + j]
<1>1. n \in Nat /\ ByteCount(n) \in Nat
    BY ByteCounts
<1>2. ASSUME NEW k \in 1..ByteCount(n), NEW j \in 1..8
      PROVE  b(k, j) \in {0, 1}
  <2>1. 8 * k - 8 + j > n \/ 8 * k - 8 + j \in 1..n
    BY <1>1
  <2>2. QED
    BY <2>1
<1>3. ASSUME NEW k \in 1..ByteCount(n)
      PROVE  d[k] = b(k, 1) + 2 * b(k, 2) + 4 * b(k, 3) + 8 * b(k, 4)
                    + 16 * b(k, 5) + 32 * b(k, 6) + 64 * b(k, 7) + 128 * b(k, 8)
  <2> DEFINE w(j) == IF 8 * k - 8 + j > n THEN 0 ELSE BitWeight[j] * bits[8 * k - 8 + j]
  <2>1. d[k] = w(1) + w(2) + w(3) + w(4) + w(5) + w(6) + w(7) + w(8)
    BY DEF BitBytes
  <2>2. /\ BitWeight[1] = 1 /\ BitWeight[2] = 2 /\ BitWeight[3] = 4 /\ BitWeight[4] = 8
        /\ BitWeight[5] = 16 /\ BitWeight[6] = 32 /\ BitWeight[7] = 64 /\ BitWeight[8] = 128
    BY DEF BitWeight
  <2>3. ASSUME NEW j \in 1..8
        PROVE  w(j) = BitWeight[j] * b(k, j)
    <3>1. BitWeight[j] \in Nat
      BY <2>2
    <3>2. QED
      BY <3>1
  <2>4. \A j \in 1..8 : b(k, j) \in {0, 1}
    BY <1>2
  <2> HIDE DEF w, b, d
  <2>5. w(1) = b(k, 1)
    BY <2>2, <2>3, <2>4
  <2>6. QED
    BY <2>1, <2>2, <2>3, <2>5
<1> HIDE DEF b
<1>4. ASSUME NEW k \in 1..ByteCount(n)
      PROVE  d[k] \in Byte /\ \A j \in 1..8 : (d[k] \div BitWeight[j]) % 2 = b(k, j)
  <2> DEFINE f == [j \in 1..8 |-> b(k, j)]
  <2>1. f \in [1..8 -> {0, 1}]
    BY <1>2
  <2>2. d[k] = f[1] + 2 * f[2] + 4 * f[3] + 8 * f[4] + 16 * f[5] + 32 * f[6] + 64 * f[7] + 128 * f[8]
    BY <1>3
  <2>3. \A j \in 1..8 : f[j] = b(k, j)
    OBVIOUS
  <2> HIDE DEF f
  <2>4. d[k] \in Byte /\ \A j \in 1..8 : (d[k] \div BitWeight[j]) % 2 = f[j]
    BY <2>1, <2>2, EightBits
  <2>5. QED
    BY <2>3, <2>4
<1>5. d \in Seq(Byte) /\ Len(d) = ByteCount(n)
  <2>1. DOMAIN d = 1..ByteCount(n)
    BY DEF BitBytes
  <2>2. d = [k \in 1..ByteCount(n) |-> d[k]]
    BY DEF BitBytes
  <2>3. d \in [1..ByteCount(n) -> Byte]
    BY <1>4, <2>2
  <2>4. QED
    BY <1>1, <2>3
<1>6. ASSUME NEW i \in 1..n
      PROVE  (d[((i - 1) \div 8) + 1] \div BitWeight[((i - 1) % 8) + 1]) % 2 = bits[i]
  <2> DEFINE k == ((i - 1) \div 8) + 1
             j == ((i - 1) % 8) + 1
  <2>1. k \in 1..ByteCount(n) /\ j \in 1..8 /\ 8 * k - 8 + j = i
    BY <1>1, BitPlace
  <2> HIDE DEF k, j
  <2>2. (d[k] \div BitWeight[j]) % 2 = b(k, j)
    BY <1>4, <2>1
  <2>3. b(k, j) = bits[i]
    BY <1>1, <2>1 DEF b
  <2>4. QED
    BY <2>2, <2>3 DEF k, j
<1>7. QED
    BY <1>5, <1>6

(* Behind a head, both are read back from where the head ends.             *)
LEMMA BitsBehind ==
    ASSUME NEW h \in Seq(Byte), NEW bits \in Seq({0, 1})
    PROVE  \A i \in 1..Len(bits) :
              Bits(h \o BitBytes(bits), Len(h) + 1, Len(bits))[i] = bits[i]
<1> DEFINE t == BitBytes(bits)
           d == h \o t
           m == Len(h)
           n == Len(bits)
<1>1. m \in Nat /\ n \in Nat /\ t \in Seq(Byte) /\ Len(t) = ByteCount(n)
    BY BitsInBytes
<1> SUFFICES ASSUME NEW i \in 1..n
             PROVE  Bits(d, m + 1, n)[i] = bits[i]
    OBVIOUS
<1> DEFINE k == ((i - 1) \div 8) + 1
           j == ((i - 1) % 8) + 1
<1>2. k \in 1..ByteCount(n) /\ j \in 1..8
    BY <1>1, BitPlace
<1>3. Bits(d, m + 1, n)[i] = (d[(m + 1) + (i - 1) \div 8] \div BitWeight[j]) % 2
    BY DEF Bits
<1>4. (m + 1) + (i - 1) \div 8 = m + k
    BY <1>1
<1>5. (t[k] \div BitWeight[j]) % 2 = bits[i]
    BY BitsInBytes
<1> HIDE DEF k, j, t, d
<1>6. m + k \in m + 1..m + Len(t) /\ (m + k) - m = k
    BY <1>1, <1>2, ByteCounts
<1>7. d[m + k] = t[k]
    BY <1>1, <1>6, Behind DEF d
<1>8. QED
    BY <1>3, <1>4, <1>5, <1>7 DEF d, t

LEMMA RegistersBehind ==
    ASSUME NEW h \in Seq(Byte), NEW regs \in Seq(Word16)
    PROVE  \A i \in 1..Len(regs) :
              Registers(h \o RegisterBytes(regs), Len(h) + 1, Len(regs))[i] = regs[i]
<1> DEFINE t == RegisterBytes(regs)
           d == h \o t
           m == Len(h)
           n == Len(regs)
<1>1. m \in Nat /\ n \in Nat /\ t \in Seq(Byte) /\ Len(t) = 2 * n
    BY RegistersInBytes
<1> SUFFICES ASSUME NEW i \in 1..n
             PROVE  Registers(d, m + 1, n)[i] = regs[i]
    OBVIOUS
<1>2. Registers(d, m + 1, n)[i] = Word(d, (m + 1) + 2 * i - 2)
    BY DEF Registers
<1>3. (m + 1) + 2 * i - 2 = m + (2 * i - 1) /\ 2 * i - 1 \in Nat \ {0} /\ (2 * i - 1) + 1 = 2 * i
    BY <1>1
<1>4. t[2 * i - 1] * 256 + t[2 * i] = regs[i]
    BY RegistersInBytes
<1>5. Word(t, 2 * i - 1) = regs[i]
    BY <1>3, <1>4 DEF Word
<1> HIDE DEF t, d
<1>6. (2 * i - 1) + 1 <= Len(t)
    BY <1>1
<1>7. Word(h \o t, m + (2 * i - 1)) = Word(t, 2 * i - 1)
    BY <1>1, <1>3, <1>6, WordBehind
<1>8. QED
    BY <1>2, <1>3, <1>5, <1>7 DEF d, t

-----------------------------------------------------------------------------
(* What a request says.                                                    *)

LEMMA CallFacts ==
    ASSUME NEW c, CallOK(c)
    PROVE  /\ c.addr \in Word16 /\ c.nb \in Word16 /\ c.waddr \in Word16
           /\ c.src \in Seq(Word16) /\ c.slave \in Int
           /\ c.fn \in {1, 2, 3, 4, 5, 6, 15, 16, 17, 22, 23}
           /\ c.fn \in {5, 6} => Len(c.src) = 1
           /\ c.fn = 22 => Len(c.src) = 2
           /\ c.fn \in {15, 16} => Len(c.src) = c.nb
           /\ c.fn = 15 => \A i \in DOMAIN c.src : c.src[i] \in {0, 1}
<1>1. c \in [slave : Int, fn : Int, addr : Word16, nb : Word16,
               src : Seq(Word16), waddr : Word16]
    BY DEF CallOK
<1>2. Known(c.fn) \/ c.fn = 17
    BY FunctionNumbers DEF CallOK
<1>3. /\ c.fn \in {5, 6} => Len(c.src) = 1
      /\ c.fn = 22 => Len(c.src) = 2
      /\ c.fn \in {15, 16} => Len(c.src) = c.nb
      /\ c.fn = 15 => \A i \in DOMAIN c.src : c.src[i] \in {0, 1}
    BY FunctionNumbers DEF CallOK
<1>4. QED
    BY <1>1, <1>2, <1>3, FunctionNumbers DEF Known

LEMMA ReadRequest ==
    ASSUME NEW c, CallOK(c), c.fn \in {1, 2, 3, 4}
    PROVE  LET d == RequestData(c) IN
           Has(d, 4) /\ Word(d, 1) = c.addr /\ Word(d, 3) = c.nb
<1>1. RequestData(c) = Join(Bytes(c.addr), Bytes(c.nb))
    BY FunctionNumbers DEF RequestData, Join
<1>2. c.addr \in Word16 /\ c.nb \in Word16
    BY CallFacts
<1>3. QED
    BY <1>1, <1>2, TwoWords

LEMMA CoilRequest ==
    ASSUME NEW c, CallOK(c), c.fn = 5
    PROVE  LET d == RequestData(c) IN
           Has(d, 4) /\ Word(d, 1) = c.addr
<1> DEFINE h == Bytes(c.addr)
<1>1. RequestData(c) = h \o <<255, 0>> \/ RequestData(c) = h \o <<0, 0>>
    BY FunctionNumbers DEF RequestData, write_bit
<1>2. h \in Seq(Byte) /\ Len(h) = 2 /\ Word(h, 1) = c.addr
    BY CallFacts, WordBytes
<1>3. <<255, 0>> \in Seq(Byte) /\ <<0, 0>> \in Seq(Byte) /\ Len(<<255, 0>>) = 2 /\ Len(<<0, 0>>) = 2
  <2>1. 0 \in Byte /\ 255 \in Byte
    BY DEF Byte
  <2>2. QED
    BY <2>1
<1>4. ASSUME NEW t \in Seq(Byte), Len(t) = 2
      PROVE  Has(h \o t, 4) /\ Word(h \o t, 1) = c.addr
  <2>1. h \o t \in Seq(Byte) /\ Len(h \o t) = Len(h) + Len(t)
    BY <1>2, <1>4, Joined
  <2>2. Word(h \o t, 1) = Word(h, 1)
    BY <1>2, <1>4, Heads
  <2>3. Len(h) + Len(t) = 4
    BY <1>2, <1>4
  <2>4. QED
    BY <1>2, <2>1, <2>2, <2>3 DEF Has
<1>5. QED
    BY <1>1, <1>3, <1>4

LEMMA RegisterRequest ==
    ASSUME NEW c, CallOK(c), c.fn = 6
    PROVE  LET d == RequestData(c) IN
           /\ Has(d, 4) /\ Word(d, 1) = c.addr /\ Word(d, 3) = c.src[1]
           /\ c.src \in Seq(Word16) /\ Len(c.src) = 1
<1>1. RequestData(c) = Join(Bytes(c.addr), Bytes(c.src[1]))
    BY FunctionNumbers DEF RequestData, Join
<1>2. c.addr \in Word16 /\ c.src \in Seq(Word16) /\ Len(c.src) = 1
    BY CallFacts
<1>3. c.src[1] \in Word16
    BY <1>2
<1>4. QED
    BY <1>1, <1>2, <1>3, TwoWords

LEMMA CoilsRequest ==
    ASSUME NEW c, CallOK(c), ~TooMany(c), c.fn = 15
    PROVE  LET d == RequestData(c) IN
           /\ Has(d, 5 + ByteCount(c.nb)) /\ ByteCount(c.nb) \in Nat /\ ByteCount(c.nb) <= 246
           /\ Word(d, 1) = c.addr /\ Word(d, 3) = c.nb
           /\ c.src \in Seq({0, 1}) /\ Len(c.src) = c.nb
           /\ \A i \in 1..c.nb : Bits(d, 6, c.nb)[i] = c.src[i]
<1> DEFINE a == Join(Bytes(c.addr), Bytes(c.nb))
           h == Join(a, <<ByteCount(c.nb)>>)
           d == RequestData(c)
<1>1. d = Join(h, BitBytes(c.src))
    BY FunctionNumbers DEF RequestData, write_bits, Join
<1>2. c.addr \in Word16 /\ c.nb \in Word16 /\ ~(c.nb > 1968)
    BY CallFacts, FunctionNumbers, Limits DEF TooMany
<1>3. c.src \in Seq({0, 1}) /\ Len(c.src) = c.nb
  <2>1. c.src \in Seq(Word16) /\ Len(c.src) = c.nb /\ \A i \in DOMAIN c.src : c.src[i] \in {0, 1}
    BY CallFacts
  <2>2. QED
    BY <2>1
<1>4. ByteCount(c.nb) \in Byte /\ ByteCount(c.nb) \in Nat /\ ByteCount(c.nb) <= 246
  <2>1. PICK n \in Nat : n = c.nb /\ n <= 1968
    BY <1>2, Numbers
  <2>2. ByteCount(n) \in Nat /\ 8 * ByteCount(n) < n + 8
    BY ByteCounts
  <2>3. ByteCount(n) <= 246
    BY <2>1, <2>2
  <2>4. QED
    BY <2>1, <2>2, <2>3, Numbers
<1>5. Has(a, 4) /\ Word(a, 1) = c.addr /\ Word(a, 3) = c.nb
    BY <1>2, TwoWords
<1> HIDE DEF a
<1>6. Has(h, 5) /\ Word(h, 1) = c.addr /\ Word(h, 3) = c.nb
    BY <1>4, <1>5, PutByte
<1> HIDE DEF h, d
<1>7. h \in Seq(Byte) /\ Len(h) + 1 = 6
    BY <1>6 DEF Has
<1>8. \A i \in 1..c.nb : Bits(d, 6, c.nb)[i] = c.src[i]
  <2>1. \A i \in 1..Len(c.src) :
            Bits(h \o BitBytes(c.src), Len(h) + 1, Len(c.src))[i] = c.src[i]
    BY <1>3, <1>7, BitsBehind
  <2>2. QED
    BY <1>1, <1>3, <1>7, <2>1 DEF Join
<1>9. Has(d, 5 + ByteCount(c.nb)) /\ Word(d, 1) = c.addr /\ Word(d, 3) = c.nb
  <2>1. Has(BitBytes(c.src), ByteCount(c.nb))
    BY <1>3, BitsInBytes DEF Has
  <2>2. ByteCount(c.nb) \in Nat
    BY <1>4
  <2>3. QED
    BY <1>1, <1>6, <2>1, <2>2, PutTail
<1>10. QED
    BY <1>3, <1>4, <1>8, <1>9 DEF d

LEMMA RegistersRequest ==
    ASSUME NEW c, CallOK(c), ~TooMany(c), c.fn = 16
    PROVE  LET d == RequestData(c) IN
           /\ Has(d, 5 + 2 * c.nb) /\ c.nb \in Nat /\ c.nb <= 123
           /\ Word(d, 1) = c.addr /\ Word(d, 3) = c.nb
           /\ c.src \in Seq(Word16) /\ Len(c.src) = c.nb
           /\ \A i \in 1..c.nb : Registers(d, 6, c.nb)[i] = c.src[i]
<1> DEFINE a == Join(Bytes(c.addr), Bytes(c.nb))
           h == Join(a, <<c.nb * 2>>)
           d == RequestData(c)
<1>1. d = Join(h, RegisterBytes(c.src))
    BY FunctionNumbers DEF RequestData, write_registers, Join
<1>2. c.addr \in Word16 /\ c.nb \in Word16 /\ ~(c.nb > 123)
    BY CallFacts, FunctionNumbers, Limits DEF TooMany
<1>3. c.src \in Seq(Word16) /\ Len(c.src) = c.nb
    BY CallFacts
<1>4. c.nb * 2 \in Byte /\ c.nb \in Nat /\ c.nb <= 123
  <2>1. c.nb \in Nat /\ c.nb <= 123
    BY <1>2, Numbers
  <2>2. c.nb * 2 \in Nat /\ c.nb * 2 <= 255
    BY <2>1
  <2>3. QED
    BY <2>1, <2>2, Numbers
<1>5. Has(a, 4) /\ Word(a, 1) = c.addr /\ Word(a, 3) = c.nb
    BY <1>2, TwoWords
<1> HIDE DEF a
<1>6. Has(h, 5) /\ Word(h, 1) = c.addr /\ Word(h, 3) = c.nb
    BY <1>4, <1>5, PutByte
<1> HIDE DEF h, d
<1>7. h \in Seq(Byte) /\ Len(h) + 1 = 6
    BY <1>6 DEF Has
<1>8. \A i \in 1..c.nb : Registers(d, 6, c.nb)[i] = c.src[i]
  <2>1. \A i \in 1..Len(c.src) :
            Registers(h \o RegisterBytes(c.src), Len(h) + 1, Len(c.src))[i] = c.src[i]
    BY <1>3, <1>7, RegistersBehind
  <2>2. QED
    BY <1>1, <1>3, <1>7, <2>1 DEF Join
<1>9. Has(d, 5 + 2 * c.nb) /\ Word(d, 1) = c.addr /\ Word(d, 3) = c.nb
  <2>1. Has(RegisterBytes(c.src), 2 * c.nb)
    BY <1>3, RegistersInBytes DEF Has
  <2>2. 2 * c.nb \in Nat
    BY <1>4
  <2>3. QED
    BY <1>1, <1>6, <2>1, <2>2, PutTail
<1>10. QED
    BY <1>3, <1>4, <1>8, <1>9 DEF d

LEMMA MaskRequest ==
    ASSUME NEW c, CallOK(c), c.fn = 22
    PROVE  LET d == RequestData(c) IN
           /\ Has(d, 6) /\ Word(d, 1) = c.addr
           /\ Word(d, 3) = c.src[1] /\ Word(d, 5) = c.src[2]
           /\ c.src[1] \in Word16 /\ c.src[2] \in Word16
<1> DEFINE a == Join(Bytes(c.addr), Bytes(c.src[1]))
<1>1. RequestData(c) = Join(a, Bytes(c.src[2]))
    BY FunctionNumbers DEF RequestData, mask_write_register, Join
<1>2. c.addr \in Word16 /\ c.src \in Seq(Word16) /\ Len(c.src) = 2
    BY CallFacts
<1>3. c.src[1] \in Word16 /\ c.src[2] \in Word16
    BY <1>2
<1>4. Has(a, 4) /\ Word(a, 1) = c.addr /\ Word(a, 3) = c.src[1]
    BY <1>2, <1>3, TwoWords
<1> HIDE DEF a
<1>5. QED
    BY <1>1, <1>3, <1>4, PutWord

LEMMA BothRequest ==
    ASSUME NEW c, CallOK(c), ~TooMany(c), c.fn = 23
    PROVE  LET d == RequestData(c) IN
           /\ Has(d, 9 + 2 * Len(c.src)) /\ c.src \in Seq(Word16) /\ Len(c.src) \in Nat
           /\ Len(c.src) <= 121
           /\ Word(d, 1) = c.addr /\ Word(d, 3) = c.nb
           /\ Word(d, 5) = c.waddr /\ Word(d, 7) = Len(c.src)
           /\ \A i \in 1..Len(c.src) : Registers(d, 10, Len(c.src))[i] = c.src[i]
<1> DEFINE n == Len(c.src)
           a == Join(Bytes(c.addr), Bytes(c.nb))
           b == Join(a, Bytes(c.waddr))
           e == Join(b, Bytes(n))
           h == Join(e, <<n * 2>>)
           d == RequestData(c)
<1>1. d = Join(h, RegisterBytes(c.src))
    BY FunctionNumbers DEF RequestData, write_and_read_registers, Join
<1>2. c.addr \in Word16 /\ c.nb \in Word16 /\ c.waddr \in Word16 /\ c.src \in Seq(Word16)
    BY CallFacts
<1>3. n \in Nat /\ n <= 121
  <2>1. ~(n > 121)
    BY FunctionNumbers, Limits DEF TooMany
  <2>2. QED
    BY <1>2, <2>1
<1>4. n * 2 \in Byte /\ n \in Word16
  <2>1. n * 2 \in Nat /\ n * 2 <= 255 /\ n <= 65535
    BY <1>3
  <2>2. QED
    BY <1>3, <2>1, Numbers
<1>5. Has(a, 4) /\ Word(a, 1) = c.addr /\ Word(a, 3) = c.nb
    BY <1>2, TwoWords
<1>6. Has(RegisterBytes(c.src), 2 * n) /\ 2 * n \in Nat
    BY <1>2, <1>3, RegistersInBytes DEF Has
<1> HIDE DEF a, n
<1>7. Has(b, 6) /\ Word(b, 1) = c.addr /\ Word(b, 3) = c.nb /\ Word(b, 5) = c.waddr
    BY <1>2, <1>5, PutWord
<1> HIDE DEF b
<1>8. /\ Has(e, 8) /\ Word(e, 1) = c.addr /\ Word(e, 3) = c.nb
      /\ Word(e, 5) = c.waddr /\ Word(e, 7) = n
    BY <1>4, <1>7, PutWord
<1> HIDE DEF e
<1>9. /\ Has(h, 9) /\ Word(h, 1) = c.addr /\ Word(h, 3) = c.nb
      /\ Word(h, 5) = c.waddr /\ Word(h, 7) = n
    BY <1>4, <1>8, PutByte
<1> HIDE DEF h, d
<1>10. h \in Seq(Byte) /\ Len(h) + 1 = 10
    BY <1>9 DEF Has
<1>11. \A i \in 1..n : Registers(d, 10, n)[i] = c.src[i]
  <2>1. \A i \in 1..Len(c.src) :
            Registers(h \o RegisterBytes(c.src), Len(h) + 1, Len(c.src))[i] = c.src[i]
    BY <1>2, <1>10, RegistersBehind
  <2>2. QED
    BY <1>1, <1>10, <2>1 DEF n, Join
<1>12. /\ Has(d, 9 + 2 * n) /\ Word(d, 1) = c.addr /\ Word(d, 3) = c.nb
       /\ Word(d, 5) = c.waddr /\ Word(d, 7) = n
    BY <1>1, <1>6, <1>9, PutTail
<1>13. QED
    BY <1>2, <1>3, <1>11, <1>12 DEF d, n

-----------------------------------------------------------------------------
(* The messages under way, and the server's tables.                        *)

Elems(q) == {q[i] : i \in 1..Len(q)}

LEMMA NoElems == Elems(<<>>) = {}
BY DEF Elems

LEMMA FirstElem ==
    ASSUME NEW S, NEW q \in Seq(S), q # <<>>
    PROVE  /\ Head(q) \in Elems(q) /\ Head(q) \in S /\ Head(q) = q[1]
           /\ Tail(q) \in Seq(S) /\ Elems(Tail(q)) \subseteq Elems(q)
<1>1. Len(q) \in Nat /\ Len(q) >= 1
    OBVIOUS
<1>2. Head(q) = q[1] /\ Tail(q) \in Seq(S) /\ Len(Tail(q)) = Len(q) - 1
    BY <1>1
<1>3. ASSUME NEW i \in 1..Len(q) - 1
      PROVE  Tail(q)[i] = q[i + 1] /\ i + 1 \in 1..Len(q)
    BY <1>1
<1>4. Elems(Tail(q)) \subseteq Elems(q)
    BY <1>2, <1>3 DEF Elems
<1>5. QED
    BY <1>1, <1>2, <1>4 DEF Elems

LEMMA OneMore ==
    ASSUME NEW S, NEW q \in Seq(S), NEW x \in S
    PROVE  Append(q, x) \in Seq(S) /\ Elems(Append(q, x)) \subseteq Elems(q) \cup {x}
<1>1. Append(q, x) \in Seq(S) /\ Len(Append(q, x)) = Len(q) + 1 /\ Len(q) \in Nat
    OBVIOUS
<1>2. ASSUME NEW i \in 1..Len(q) + 1
      PROVE  \/ i \in 1..Len(q) /\ Append(q, x)[i] = q[i]
             \/ Append(q, x)[i] = x
    BY <1>1
<1>3. QED
    BY <1>1, <1>2 DEF Elems

LEMMA Both ==
    ASSUME NEW S, NEW p \in Seq(S), NEW q \in Seq(S)
    PROVE  p \o q \in Seq(S) /\ Elems(p \o q) \subseteq Elems(p) \cup Elems(q)
<1>1. p \o q \in Seq(S) /\ Len(p \o q) = Len(p) + Len(q) /\ Len(p) \in Nat /\ Len(q) \in Nat
    BY ConcatProperties
<1>2. ASSUME NEW i \in 1..Len(p) + Len(q)
      PROVE  \/ i \in 1..Len(p) /\ (p \o q)[i] = p[i]
             \/ i - Len(p) \in 1..Len(q) /\ (p \o q)[i] = q[i - Len(p)]
    BY <1>1, ConcatProperties
<1>3. QED
    BY <1>1, <1>2 DEF Elems

LEMMA Part ==
    ASSUME NEW S, NEW q \in Seq(S), NEW n \in 1..Len(q)
    PROVE  /\ SubSeq(q, n + 1, Len(q)) \in Seq(S)
           /\ Elems(SubSeq(q, n + 1, Len(q))) \subseteq Elems(q)
<1> DEFINE r == SubSeq(q, n + 1, Len(q))
<1>1. r \in Seq(S) /\ Len(r) = Len(q) - n /\ Len(q) \in Nat /\ n \in Nat
    OBVIOUS
<1>2. ASSUME NEW i \in 1..Len(q) - n
      PROVE  r[i] = q[n + i] /\ n + i \in 1..Len(q)
    BY <1>1
<1>3. QED
    BY <1>1, <1>2 DEF Elems

LEMMA Alone ==
    ASSUME NEW S, NEW x \in S
    PROVE  <<x>> \in Seq(S) /\ Elems(<<x>>) = {x}
BY DEF Elems

LEMMA PeekBits ==
    ASSUME NEW t, \A x \in DOMAIN t : t[x] \in {0, 1}, NEW a, NEW nb \in Nat
    PROVE  Peek(t, a, nb) \in Seq({0, 1}) /\ Len(Peek(t, a, nb)) = nb
<1>1. Peek(t, a, nb) \in [1..nb -> {0, 1}]
    BY DEF Peek
<1>2. QED
    BY <1>1

LEMMA PeekWords ==
    ASSUME NEW t, \A x \in DOMAIN t : t[x] \in Word16, NEW a, NEW nb \in Nat
    PROVE  Peek(t, a, nb) \in Seq(Word16) /\ Len(Peek(t, a, nb)) = nb
<1>1. 0 \in Word16
    BY Numbers
<1>2. Peek(t, a, nb) \in [1..nb -> Word16]
    BY <1>1 DEF Peek
<1>3. QED
    BY <1>2

LEMMA PokeFacts ==
    ASSUME NEW S, NEW t, \A x \in DOMAIN t : x \in Nat /\ t[x] \in S,
           NEW a \in Nat, NEW v \in Seq(S)
    PROVE  \A x \in DOMAIN Poke(t, a, v) : x \in Nat /\ Poke(t, a, v)[x] \in S
<1> DEFINE p == Poke(t, a, v)
           n == Len(v)
<1>1. n \in Nat /\ v \in [1..n -> S]
    OBVIOUS
<1>2. p = [x \in DOMAIN t \cup (a..(a + n - 1)) |->
              IF x \in a..(a + n - 1) THEN v[x - a + 1] ELSE t[x]]
    BY DEF Poke
<1>3. ASSUME NEW x \in a..(a + n - 1)
      PROVE  x \in Nat /\ x - a + 1 \in 1..n /\ p[x] = v[x - a + 1]
    BY <1>1, <1>2
<1>4. ASSUME NEW x \in DOMAIN p
      PROVE  x \in Nat /\ p[x] \in S
  <2>1. CASE x \in a..(a + n - 1)
    BY <1>1, <1>3, <2>1
  <2>2. CASE x \notin a..(a + n - 1)
    BY <1>2, <2>2
  <2>3. QED
    BY <2>1, <2>2
<1>5. QED
    BY <1>4

(* What was written is read back.                                          *)
LEMMA PeekPoke ==
    ASSUME NEW S, NEW t, NEW a \in Nat, NEW v \in Seq(S)
    PROVE  Peek(Poke(t, a, v), a, Len(v)) = v
<1> DEFINE p == Poke(t, a, v)
           n == Len(v)
<1>1. n \in Nat /\ v \in [1..n -> S]
    OBVIOUS
<1>2. p = [x \in DOMAIN t \cup (a..(a + n - 1)) |->
              IF x \in a..(a + n - 1) THEN v[x - a + 1] ELSE t[x]]
    BY DEF Poke
<1>3. DOMAIN p = DOMAIN t \cup (a..(a + n - 1))
    BY <1>2
<1>4. ASSUME NEW i \in 1..n
      PROVE  Peek(p, a, n)[i] = v[i]
  <2>1. a + i - 1 \in a..(a + n - 1) /\ (a + i - 1) - a + 1 = i
    BY <1>1
  <2>2. p[a + i - 1] = v[i] /\ a + i - 1 \in DOMAIN p
    BY <1>2, <1>3, <2>1
  <2> HIDE DEF p
  <2>3. QED
    BY <2>2 DEF Peek
<1>5. Peek(p, a, n) = [i \in 1..n |-> Peek(p, a, n)[i]]
    BY DEF Peek
<1>6. v = [i \in 1..n |-> v[i]]
    BY <1>1
<1> HIDE DEF p, n
<1>7. QED
    BY <1>4, <1>5, <1>6 DEF p, n

LEMMA Cells ==
    /\ DOMAIN Cell = {"bits", "input_bits", "registers", "input_registers"}
    /\ Cell["bits"] = {0, 1} /\ Cell["input_bits"] = {0, 1}
    /\ Cell["registers"] = Word16 /\ Cell["input_registers"] = Word16
BY DEF Cell

LEMMA NewTable ==
    ASSUME NEW m, MemoryOK(m), NEW name \in DOMAIN Cell, NEW t,
           \A a \in DOMAIN t : a \in Nat /\ t[a] \in Cell[name]
    PROVE  MemoryOK([m EXCEPT ![name] = t]) /\ [m EXCEPT ![name] = t][name] = t
BY DEF MemoryOK

-----------------------------------------------------------------------------
(* What requests and answers say.                                          *)

Message == [tid : Nat, slave : Int, fn : Nat, data : Seq(Byte), crc : BOOLEAN]
Envelope == [m : Message, of : Nat]
Answer == [m : Message, of : Nat, whole : BOOLEAN, seen : Seq(Nat)]

(* The functions whose answer holds values: of bits, of registers.         *)
WordReads == {3, 4, 23}
Reads == {1, 2, 3, 4, 23}

(* How long the data of an answer is that refuses nothing.                 *)
AnswerLength(c) ==
    CASE c.fn \in ReadBits -> 1 + ByteCount(c.nb)
      [] c.fn \in WordReads -> 1 + 2 * c.nb
      [] c.fn = 17 -> 11
      [] c.fn = 22 -> 6
      [] OTHER -> 4

(* An answer that was not damaged says what was asked for and what the     *)
(* server held.                                                            *)
Says(data, c, seen) ==
    /\ c.fn \in Reads => Len(seen) = c.nb
    /\ c.fn \in ReadBits =>
          /\ data[1] = ByteCount(c.nb)
          /\ \A i \in 1..c.nb : Bits(data, 2, c.nb)[i] = seen[i]
    /\ c.fn \in WordReads =>
          /\ data[1] = 2 * c.nb
          /\ \A i \in 1..c.nb : Registers(data, 2, c.nb)[i] = seen[i]
    /\ c.fn \in WriteMultiple => Word(data, 3) = c.nb

(* The message was made for call n, its slave and its transaction.  Until  *)
(* the transactions have come round, only the call that waits has the      *)
(* newest one.                                                             *)
MadeFor(m, n) ==
    /\ n \in 1..made
    /\ ~TooMany(script[n])
    /\ SlaveTaken(script[n].slave) => m.slave = script[n].slave
    /\ backend = "tcp" /\ Len(script) < 65536 =>
          m.tid <= tid /\ (waiting /\ m.tid = tid => n = made)

RequestOK(e) ==
    /\ e \in Envelope
    /\ MadeFor(e.m, e.of)
    /\ e.m = Request(e.m.slave, e.m.tid, script[e.of])

(* What an answer to call c looks like, whatever the line did to it.       *)
AnswerTo(m, c, seen) ==
    /\ m.fn = c.fn \/ m.fn = c.fn + 128
    /\ Len(m.data) = IF m.fn = c.fn THEN AnswerLength(c) ELSE 1
    /\ m.fn = c.fn => (c.fn \in Reads => c.nb >= 1 /\ c.nb <= 2000) /\ (c.fn \in WordReads => c.nb <= 125)
    /\ m.fn = 17 => m.data[1] = 10
    /\ m.fn = c.fn /\ m.crc => Says(m.data, c, seen)

AnswerOK(w) ==
    /\ w \in Answer
    /\ MadeFor(w.m, w.of)
    /\ AnswerTo(w.m, script[w.of], w.seen)
    /\ backend = "tcp" => w.m.crc

(* The server has obeyed call c, and its tables still show it.             *)
Shows(m, c) ==
    /\ c.fn \in WriteMultiple => Peek(m[Table(c.fn)], c.addr, c.nb) = c.src
    /\ c.fn = 6 => Peek(m["registers"], c.addr, 1) = c.src
    /\ c.fn = 23 => Peek(m["registers"], c.waddr, Len(c.src)) = c.src

-----------------------------------------------------------------------------
(* The server obeys a request.                                             *)

LEMMA Tables ==
    /\ Table(1) = "bits" /\ Table(5) = "bits" /\ Table(15) = "bits"
    /\ Table(2) = "input_bits" /\ Table(4) = "input_registers"
    /\ Table(3) = "registers" /\ Table(6) = "registers" /\ Table(16) = "registers"
    /\ Table(22) = "registers" /\ Table(23) = "registers"
BY FunctionNumbers DEF Table

(* The tables after it, and what they show of it.                          *)
LEMMA WrittenCoil ==
    ASSUME NEW c, CallOK(c), c.fn = 5, NEW m, m.fn = 5, m.data = RequestData(c),
           NEW mem, MemoryOK(mem)
    PROVE  \A a \in DOMAIN Written(m, mem) : a \in Nat /\ Written(m, mem)[a] \in {0, 1}
<1> DEFINE t == mem["bits"]
           v == <<IF Word(m.data, 3) # 0 THEN 1 ELSE 0>>
<1>1. Written(m, mem) = Poke(t, c.addr, v)
    BY CoilRequest, FunctionNumbers, Tables DEF Written
<1>2. v \in Seq({0, 1})
    OBVIOUS
<1>3. \A x \in DOMAIN t : x \in Nat /\ t[x] \in {0, 1}
    BY Cells DEF MemoryOK
<1>4. c.addr \in Nat
    BY CallFacts, Numbers
<1> HIDE DEF t, v
<1>5. QED
    BY <1>1, <1>2, <1>3, <1>4, PokeFacts

LEMMA WrittenRegister ==
    ASSUME NEW c, CallOK(c), c.fn = 6, NEW m, m.fn = 6, m.data = RequestData(c),
           NEW mem, MemoryOK(mem)
    PROVE  /\ \A a \in DOMAIN Written(m, mem) : a \in Nat /\ Written(m, mem)[a] \in Word16
           /\ Peek(Written(m, mem), c.addr, 1) = c.src
           /\ Written(m, mem) = Poke(mem["registers"], c.addr, c.src)
<1> DEFINE t == mem["registers"]
           v == <<Word(m.data, 3)>>
<1>1. Written(m, mem) = Poke(t, c.addr, v)
    BY RegisterRequest, FunctionNumbers, Tables DEF Written
<1>2. v \in Seq(Word16) /\ v = c.src /\ Len(v) = 1
  <2>1. v = <<c.src[1]>> /\ c.src \in Seq(Word16) /\ Len(c.src) = 1
    BY RegisterRequest
  <2>2. <<c.src[1]>> = c.src
    BY <2>1
  <2>3. QED
    BY <2>1, <2>2
<1>3. \A x \in DOMAIN t : x \in Nat /\ t[x] \in Word16
    BY Cells DEF MemoryOK
<1>4. c.addr \in Nat
    BY CallFacts, Numbers
<1> HIDE DEF t, v
<1>5. v \in Seq(Word16)
    BY <1>2
<1>6. \A x \in DOMAIN Poke(t, c.addr, v) : x \in Nat /\ Poke(t, c.addr, v)[x] \in Word16
    BY <1>3, <1>4, <1>5, PokeFacts
<1>7. Peek(Poke(t, c.addr, v), c.addr, Len(v)) = v
    BY <1>4, <1>5, PeekPoke
<1>8. Peek(Poke(t, c.addr, v), c.addr, 1) = v
    BY <1>2, <1>7
<1>9. QED
    BY <1>1, <1>2, <1>6, <1>8 DEF t

LEMMA WrittenCoils ==
    ASSUME NEW c, CallOK(c), ~TooMany(c), c.fn = 15,
           NEW m, m.fn = 15, m.data = RequestData(c), NEW mem, MemoryOK(mem)
    PROVE  /\ \A a \in DOMAIN Written(m, mem) : a \in Nat /\ Written(m, mem)[a] \in {0, 1}
           /\ Peek(Written(m, mem), c.addr, c.nb) = c.src
           /\ Written(m, mem) = Poke(mem["bits"], c.addr, c.src)
<1> DEFINE t == mem["bits"]
           v == Bits(m.data, 6, c.nb)
<1>1. Written(m, mem) = Poke(t, c.addr, v)
    BY CoilsRequest, FunctionNumbers, Tables DEF Written
<1>2. v = c.src
  <2>1. c.src \in Seq({0, 1}) /\ Len(c.src) = c.nb /\ \A i \in 1..c.nb : v[i] = c.src[i]
    BY CoilsRequest
  <2>2. v = [i \in 1..c.nb |-> v[i]]
    BY DEF Bits
  <2>3. c.src = [i \in 1..c.nb |-> c.src[i]]
    BY <2>1
  <2> HIDE DEF v
  <2>4. QED
    BY <2>1, <2>2, <2>3
<1>3. c.src \in Seq({0, 1}) /\ Len(c.src) = c.nb
    BY CoilsRequest
<1>4. \A x \in DOMAIN t : x \in Nat /\ t[x] \in {0, 1}
    BY Cells DEF MemoryOK
<1>5. c.addr \in Nat
    BY CallFacts, Numbers
<1> HIDE DEF v
<1>6. Written(m, mem) = Poke(t, c.addr, c.src)
    BY <1>1, <1>2
<1> HIDE DEF t
<1>7. \A x \in DOMAIN Poke(t, c.addr, c.src) : x \in Nat /\ Poke(t, c.addr, c.src)[x] \in {0, 1}
    BY <1>3, <1>4, <1>5, PokeFacts
<1>8. Peek(Poke(t, c.addr, c.src), c.addr, c.nb) = c.src
    BY <1>3, <1>5, PeekPoke
<1>9. QED
    BY <1>6, <1>7, <1>8 DEF t

LEMMA WrittenRegisters ==
    ASSUME NEW c, CallOK(c), ~TooMany(c), c.fn = 16,
           NEW m, m.fn = 16, m.data = RequestData(c), NEW mem, MemoryOK(mem)
    PROVE  /\ \A a \in DOMAIN Written(m, mem) : a \in Nat /\ Written(m, mem)[a] \in Word16
           /\ Peek(Written(m, mem), c.addr, c.nb) = c.src
           /\ Written(m, mem) = Poke(mem["registers"], c.addr, c.src)
<1> DEFINE t == mem["registers"]
           v == Registers(m.data, 6, c.nb)
<1>1. Written(m, mem) = Poke(t, c.addr, v)
    BY RegistersRequest, FunctionNumbers, Tables DEF Written
<1>2. v = c.src
  <2>1. c.src \in Seq(Word16) /\ Len(c.src) = c.nb /\ \A i \in 1..c.nb : v[i] = c.src[i]
    BY RegistersRequest
  <2>2. v = [i \in 1..c.nb |-> v[i]]
    BY DEF Registers
  <2>3. c.src = [i \in 1..c.nb |-> c.src[i]]
    BY <2>1
  <2> HIDE DEF v
  <2>4. QED
    BY <2>1, <2>2, <2>3
<1>3. c.src \in Seq(Word16) /\ Len(c.src) = c.nb
    BY RegistersRequest
<1>4. \A x \in DOMAIN t : x \in Nat /\ t[x] \in Word16
    BY Cells DEF MemoryOK
<1>5. c.addr \in Nat
    BY CallFacts, Numbers
<1> HIDE DEF v
<1>6. Written(m, mem) = Poke(t, c.addr, c.src)
    BY <1>1, <1>2
<1> HIDE DEF t
<1>7. \A x \in DOMAIN Poke(t, c.addr, c.src) : x \in Nat /\ Poke(t, c.addr, c.src)[x] \in Word16
    BY <1>3, <1>4, <1>5, PokeFacts
<1>8. Peek(Poke(t, c.addr, c.src), c.addr, c.nb) = c.src
    BY <1>3, <1>5, PeekPoke
<1>9. QED
    BY <1>6, <1>7, <1>8 DEF t

(* A byte, and a word, of which every bit is one of two others.            *)
LEMMA MaskedByte ==
    ASSUME NEW old \in Nat, NEW and \in Nat, NEW or \in Nat
    PROVE  maskedByte(old, and, or) \in Byte
<1> DEFINE bit(w) == ((IF (and \div w) % 2 = 1 THEN old ELSE or) \div w) % 2
<1>1. \A w \in {1, 2, 4, 8, 16, 32, 64, 128} : bit(w) \in {0, 1}
  <2>1. ASSUME NEW w \in {1, 2, 4, 8, 16, 32, 64, 128}, NEW x \in Nat
        PROVE  (x \div w) % 2 \in {0, 1}
    BY <2>1
  <2>2. QED
    BY <2>1
<1>2. maskedByte(old, and, or) =
         128 * bit(128) + 64 * bit(64) + 32 * bit(32) + 16 * bit(16)
         + 8 * bit(8) + 4 * bit(4) + 2 * bit(2) + bit(1)
    BY DEF maskedByte
<1> HIDE DEF bit
<1>3. QED
    BY <1>1, <1>2 DEF Byte

LEMMA MaskedWord ==
    ASSUME NEW old \in Word16, NEW and \in Word16, NEW or \in Word16
    PROVE  masked(old, and, or) \in Word16
<1>1. \A w \in Word16 : w \div 256 \in Nat /\ w % 256 \in Nat
    BY DEF Word16
<1>2. PICK h \in Byte : h = maskedByte(old \div 256, and \div 256, or \div 256)
    BY <1>1, MaskedByte
<1>3. PICK l \in Byte : l = maskedByte(old % 256, and % 256, or % 256)
    BY <1>1, MaskedByte
<1>4. masked(old, and, or) = 256 * h + l
    BY <1>2, <1>3 DEF masked
<1>5. QED
    BY <1>4 DEF Byte, Word16

LEMMA WrittenMask ==
    ASSUME NEW c, CallOK(c), c.fn = 22, NEW m, m.fn = 22, m.data = RequestData(c),
           NEW mem, MemoryOK(mem)
    PROVE  /\ \A a \in DOMAIN Written(m, mem) : a \in Nat /\ Written(m, mem)[a] \in Word16
           /\ LET t == mem["registers"]
              IN Written(m, mem) =
                    Poke(t, c.addr, <<masked(Peek(t, c.addr, 1)[1], c.src[1], c.src[2])>>)
<1> DEFINE t == mem["registers"]
           x == masked(Peek(t, c.addr, 1)[1], c.src[1], c.src[2])
           v == <<x>>
<1>1. Written(m, mem) = Poke(t, c.addr, v)
    BY MaskRequest, FunctionNumbers, Tables DEF Written
<1>2. \A a \in DOMAIN t : a \in Nat /\ t[a] \in Word16
    BY Cells DEF MemoryOK
<1>3. 0 \in Word16
    BY Numbers
<1>4. c.addr \in Nat
    BY CallFacts, Numbers
<1>5. Peek(t, c.addr, 1)[1] \in Word16 /\ c.src[1] \in Word16 /\ c.src[2] \in Word16
    BY <1>2, <1>3, MaskRequest DEF Peek
<1>6. x \in Word16
    BY <1>5, MaskedWord
<1> HIDE DEF t, x
<1>7. v \in Seq(Word16)
    BY <1>6
<1> HIDE DEF v
<1>8. \A a \in DOMAIN Poke(t, c.addr, v) : a \in Nat /\ Poke(t, c.addr, v)[a] \in Word16
    BY <1>2, <1>4, <1>7, PokeFacts
<1>9. \A a \in DOMAIN Written(m, mem) : a \in Nat /\ Written(m, mem)[a] \in Word16
    BY <1>1, <1>8
<1>10. Written(m, mem) = Poke(t, c.addr, <<x>>)
    BY <1>1 DEF v
<1>11. QED
    BY <1>9, <1>10 DEF t, x

LEMMA WrittenBoth ==
    ASSUME NEW c, CallOK(c), ~TooMany(c), c.fn = 23,
           NEW m, m.fn = 23, m.data = RequestData(c), NEW mem, MemoryOK(mem)
    PROVE  /\ \A a \in DOMAIN Written(m, mem) : a \in Nat /\ Written(m, mem)[a] \in Word16
           /\ Peek(Written(m, mem), c.waddr, Len(c.src)) = c.src
           /\ Written(m, mem) = Poke(mem["registers"], c.waddr, c.src)
<1> DEFINE t == mem["registers"]
           n == Len(c.src)
           v == Registers(m.data, 10, n)
<1>1. Written(m, mem) = Poke(t, c.waddr, v)
    BY BothRequest, FunctionNumbers, Tables DEF Written
<1>2. c.src \in Seq(Word16) /\ n \in Nat /\ \A i \in 1..n : v[i] = c.src[i]
    BY BothRequest
<1>3. v = c.src
  <2>1. v = [i \in 1..n |-> v[i]]
    BY DEF Registers
  <2>2. c.src = [i \in 1..n |-> c.src[i]]
    BY <1>2
  <2> HIDE DEF v
  <2>3. QED
    BY <1>2, <2>1, <2>2
<1>4. \A x \in DOMAIN t : x \in Nat /\ t[x] \in Word16
    BY Cells DEF MemoryOK
<1>5. c.waddr \in Nat
    BY CallFacts, Numbers
<1> HIDE DEF v
<1>6. Written(m, mem) = Poke(t, c.waddr, c.src)
    BY <1>1, <1>3
<1> HIDE DEF t
<1>7. \A x \in DOMAIN Poke(t, c.waddr, c.src) : x \in Nat /\ Poke(t, c.waddr, c.src)[x] \in Word16
    BY <1>2, <1>4, <1>5, PokeFacts
<1>8. Peek(Poke(t, c.waddr, c.src), c.waddr, Len(c.src)) = c.src
    BY <1>2, <1>5, PeekPoke
<1>9. QED
    BY <1>6, <1>7, <1>8 DEF t

LEMMA WrittenNothing ==
    ASSUME NEW m, m.fn \in {1, 2, 3, 4}, NEW mem
    PROVE  Written(m, mem) = mem[Table(m.fn)]
BY FunctionNumbers DEF Written

LEMMA Obeys ==
    ASSUME NEW c, CallOK(c), ~TooMany(c), c.fn # 17,
           NEW m, m.fn = c.fn, m.data = RequestData(c), NEW mem, MemoryOK(mem)
    PROVE  LET new == [mem EXCEPT ![Table(m.fn)] = Written(m, mem)] IN
           MemoryOK(new) /\ Shows(new, c)
<1> DEFINE t == Written(m, mem)
           new == [mem EXCEPT ![Table(m.fn)] = t]
<1>1. Table(m.fn) \in DOMAIN Cell
    BY CallFacts, Tables, Cells
<1>2. ASSUME \A a \in DOMAIN t : a \in Nat /\ t[a] \in Cell[Table(m.fn)]
      PROVE  MemoryOK(new) /\ new[Table(m.fn)] = t
  <2> HIDE DEF t
  <2>1. QED
    BY <1>1, <1>2, NewTable
<1>3. CASE c.fn \in {1, 2, 3, 4}
  <2>1. t = mem[Table(m.fn)]
    BY <1>3, WrittenNothing
  <2>2. MemoryOK(new)
    BY <1>1, <1>2, <2>1 DEF MemoryOK
  <2>3. QED
    BY <1>3, <2>2, FunctionNumbers DEF Shows
<1>4. CASE c.fn = 5
  <2>1. \A a \in DOMAIN t : a \in Nat /\ t[a] \in Cell[Table(m.fn)]
    BY <1>4, WrittenCoil, Tables, Cells
  <2>2. QED
    BY <1>2, <1>4, <2>1, FunctionNumbers DEF Shows
<1>5. CASE c.fn = 6
  <2>1. \A a \in DOMAIN t : a \in Nat /\ t[a] \in Cell[Table(m.fn)]
    BY <1>5, WrittenRegister, Tables, Cells
  <2>2. Peek(t, c.addr, 1) = c.src
    BY <1>5, WrittenRegister
  <2> HIDE DEF t
  <2>3. MemoryOK(new) /\ new["registers"] = t
    BY <1>2, <1>5, <2>1, Tables
  <2> HIDE DEF new
  <2>4. QED
    BY <1>5, <2>2, <2>3, FunctionNumbers DEF Shows, new, t
<1>6. CASE c.fn = 15
  <2>1. \A a \in DOMAIN t : a \in Nat /\ t[a] \in Cell[Table(m.fn)]
    BY <1>6, WrittenCoils, Tables, Cells
  <2>2. Peek(t, c.addr, c.nb) = c.src
    BY <1>6, WrittenCoils
  <2>3. MemoryOK(new) /\ new[Table(m.fn)] = t
    BY <1>2, <2>1
  <2> HIDE DEF t, new
  <2>4. QED
    BY <1>6, <2>2, <2>3, FunctionNumbers DEF Shows, new, t
<1>7. CASE c.fn = 16
  <2>1. \A a \in DOMAIN t : a \in Nat /\ t[a] \in Cell[Table(m.fn)]
    BY <1>7, WrittenRegisters, Tables, Cells
  <2>2. Peek(t, c.addr, c.nb) = c.src
    BY <1>7, WrittenRegisters
  <2>3. MemoryOK(new) /\ new[Table(m.fn)] = t
    BY <1>2, <2>1
  <2> HIDE DEF t, new
  <2>4. QED
    BY <1>7, <2>2, <2>3, FunctionNumbers DEF Shows, new, t
<1>8. CASE c.fn = 22
  <2>1. \A a \in DOMAIN t : a \in Nat /\ t[a] \in Cell[Table(m.fn)]
    BY <1>8, WrittenMask, Tables, Cells
  <2>2. QED
    BY <1>2, <1>8, <2>1, FunctionNumbers DEF Shows
<1>9. CASE c.fn = 23
  <2>1. \A a \in DOMAIN t : a \in Nat /\ t[a] \in Cell[Table(m.fn)]
    BY <1>9, WrittenBoth, Tables, Cells
  <2>2. Peek(t, c.waddr, Len(c.src)) = c.src
    BY <1>9, WrittenBoth
  <2>3. MemoryOK(new) /\ new["registers"] = t
    BY <1>2, <1>9, <2>1, Tables
  <2> HIDE DEF t, new
  <2>4. QED
    BY <1>9, <2>2, <2>3, FunctionNumbers DEF Shows, new, t
<1>10. QED
    BY <1>3, <1>4, <1>5, <1>6, <1>7, <1>8, <1>9, CallFacts

-----------------------------------------------------------------------------
(* The answers it gives, one lemma for every shape of them.                *)

LEMMA BitsAnswer ==
    ASSUME NEW c, CallOK(c), c.fn \in {1, 2},
           NEW m \in Message, m.fn = c.fn, m.data = RequestData(c), ~IllegalCount(m),
           NEW mem, MemoryOK(mem)
    PROVE  LET d == Response(m, mem).data
               seen == Peek(mem[Table(m.fn)], Word(m.data, 1), Word(m.data, 3))
           IN /\ Response(m, mem) = [m EXCEPT !.data = d]
              /\ d \in Seq(Byte) /\ Len(d) = 1 + ByteCount(c.nb)
              /\ c.nb >= 1 /\ c.nb <= 2000
              /\ seen \in Seq({0, 1}) /\ Len(seen) = c.nb
              /\ d[1] = ByteCount(c.nb)
              /\ \A i \in 1..c.nb : Bits(d, 2, c.nb)[i] = seen[i]
<1> DEFINE t == mem[Table(m.fn)]
           seen == Peek(t, c.addr, c.nb)
           n == ByteCount(c.nb)
           h == <<n>>
           d == h \o BitBytes(seen)
<1>1. Word(m.data, 1) = c.addr /\ Word(m.data, 3) = c.nb
    BY ReadRequest
<1>2. Response(m, mem) = [m EXCEPT !.data = d] /\ Response(m, mem).data = d
  <2>1. m.fn \in ReadBits /\ m.fn \notin ReadRegisters /\ m.fn # FC.WRITE_AND_READ_REGISTERS
        /\ m.fn \notin WriteMultiple
    BY FunctionNumbers
  <2>2. Response(m, mem) = [m EXCEPT !.data = d]
    BY <1>1, <2>1 DEF Response
  <2>3. QED
    BY <2>2 DEF Message
<1>3. c.nb \in Nat
    BY CallFacts, Numbers
<1>4. c.nb >= 1 /\ c.nb <= 2000
  <2>1. c.nb \in 1..MAX.READ_BITS
    BY <1>1, FunctionNumbers DEF IllegalCount
  <2>2. PICK limit \in Nat : limit = MAX.READ_BITS /\ limit = 2000
    BY Limits
  <2>3. QED
    BY <1>3, <2>1, <2>2
<1>5. seen \in Seq({0, 1}) /\ Len(seen) = c.nb
  <2>1. \A x \in DOMAIN t : t[x] \in {0, 1}
    BY Tables, Cells DEF MemoryOK
  <2> HIDE DEF t
  <2>2. QED
    BY <1>3, <2>1, PeekBits
<1>6. n \in Nat /\ n <= 255
  <2>1. ByteCount(c.nb) \in Nat /\ 8 * ByteCount(c.nb) < c.nb + 8
    BY <1>3, ByteCounts
  <2>2. QED
    BY <1>3, <1>4, <2>1
<1>7. n \in Byte
    BY <1>6, Numbers
<1> HIDE DEF seen, n
<1>8. h \in Seq(Byte) /\ Len(h) = 1 /\ h[1] = n
    BY <1>7
<1>9. BitBytes(seen) \in Seq(Byte) /\ Len(BitBytes(seen)) = n
    BY <1>5, BitsInBytes DEF n
<1> HIDE DEF h
<1>10. d \in Seq(Byte) /\ Len(d) = 1 + n
    BY <1>8, <1>9, Joined
<1>11. d[1] = n
  <2>1. \A i \in 1..Len(h) : (h \o BitBytes(seen))[i] = h[i]
    BY <1>8, <1>9, Behind
  <2>2. 1 \in 1..Len(h)
    BY <1>8
  <2>3. QED
    BY <1>8, <2>1, <2>2
<1>12. \A i \in 1..c.nb : Bits(d, 2, c.nb)[i] = seen[i]
  <2>1. \A i \in 1..Len(seen) : Bits(h \o BitBytes(seen), Len(h) + 1, Len(seen))[i] = seen[i]
    BY <1>5, <1>8, BitsBehind
  <2>2. Len(h) + 1 = 2
    BY <1>8
  <2>3. QED
    BY <1>5, <2>1, <2>2
<1> HIDE DEF d
<1>13. QED
    BY <1>1, <1>2, <1>4, <1>5, <1>10, <1>11, <1>12 DEF n, seen

LEMMA WordsAnswer ==
    ASSUME NEW c, CallOK(c), ~TooMany(c), c.fn \in {3, 4, 23},
           NEW m \in Message, m.fn = c.fn, m.data = RequestData(c), ~IllegalCount(m),
           NEW mem, MemoryOK(mem)
    PROVE  LET d == Response(m, mem).data
               seen == Peek(mem[Table(m.fn)], Word(m.data, 1), Word(m.data, 3))
           IN /\ Response(m, mem) = [m EXCEPT !.data = d]
              /\ Has(d, 1 + 2 * c.nb)
              /\ c.nb >= 1 /\ c.nb <= 125
              /\ seen \in Seq(Word16) /\ Len(seen) = c.nb
              /\ d[1] = 2 * c.nb
              /\ \A i \in 1..c.nb : Registers(d, 2, c.nb)[i] = seen[i]
<1> DEFINE t == mem[Table(m.fn)]
           seen == Peek(t, c.addr, c.nb)
           h == <<c.nb * 2>>
           d == h \o RegisterBytes(seen)
<1>1. Word(m.data, 1) = c.addr /\ Word(m.data, 3) = c.nb
  <2>1. CASE c.fn \in {3, 4}
    BY <2>1, ReadRequest
  <2>2. CASE c.fn = 23
    BY <2>2, BothRequest
  <2>3. QED
    BY <2>1, <2>2
<1>2. Response(m, mem) = [m EXCEPT !.data = d] /\ Response(m, mem).data = d
  <2>1. /\ m.fn \notin ReadBits /\ m.fn \notin WriteMultiple
        /\ m.fn \in ReadRegisters \cup {FC.WRITE_AND_READ_REGISTERS}
    BY FunctionNumbers
  <2>2. Response(m, mem) = [m EXCEPT !.data = d]
    BY <1>1, <2>1 DEF Response
  <2>3. QED
    BY <2>2 DEF Message
<1>3. c.nb \in Nat
    BY CallFacts, Numbers
<1>4. c.nb >= 1 /\ c.nb <= 125
  <2>1. c.nb \in 1..MAX.READ_REGISTERS \/ c.nb \in 1..MAX.WR_READ_REGISTERS
    BY <1>1, FunctionNumbers DEF IllegalCount
  <2>2. PICK limit \in Nat : limit = MAX.READ_REGISTERS /\ limit = 125
    BY Limits
  <2>3. MAX.WR_READ_REGISTERS = limit
    BY <2>2, Limits
  <2>4. QED
    BY <1>3, <2>1, <2>2, <2>3
<1>5. seen \in Seq(Word16) /\ Len(seen) = c.nb
  <2>1. \A x \in DOMAIN t : t[x] \in Word16
    BY Tables, Cells DEF MemoryOK
  <2> HIDE DEF t
  <2>2. QED
    BY <1>3, <2>1, PeekWords
<1>6. c.nb * 2 \in Byte /\ c.nb * 2 = 2 * c.nb
  <2>1. c.nb * 2 \in Nat /\ c.nb * 2 <= 255
    BY <1>3, <1>4
  <2>2. QED
    BY <1>3, <2>1, Numbers
<1> HIDE DEF seen
<1>7. h \in Seq(Byte) /\ Len(h) = 1 /\ h[1] = 2 * c.nb
    BY <1>6
<1>8. RegisterBytes(seen) \in Seq(Byte) /\ Len(RegisterBytes(seen)) = 2 * c.nb
    BY <1>5, RegistersInBytes
<1> HIDE DEF h
<1>9. d \in Seq(Byte) /\ Len(d) = 1 + 2 * c.nb
    BY <1>7, <1>8, Joined
<1>10. d[1] = 2 * c.nb
  <2>1. \A i \in 1..Len(h) : (h \o RegisterBytes(seen))[i] = h[i]
    BY <1>7, <1>8, Behind
  <2>2. 1 \in 1..Len(h)
    BY <1>7
  <2>3. QED
    BY <1>7, <2>1, <2>2
<1>11. \A i \in 1..c.nb : Registers(d, 2, c.nb)[i] = seen[i]
  <2>1. \A i \in 1..Len(seen) :
            Registers(h \o RegisterBytes(seen), Len(h) + 1, Len(seen))[i] = seen[i]
    BY <1>5, <1>7, RegistersBehind
  <2>2. Len(h) + 1 = 2
    BY <1>7
  <2>3. QED
    BY <1>5, <2>1, <2>2
<1> HIDE DEF d
<1>12. QED
    BY <1>1, <1>2, <1>4, <1>5, <1>9, <1>10, <1>11 DEF seen, Has

LEMMA WriteManyAnswer ==
    ASSUME NEW c, CallOK(c), ~TooMany(c), c.fn \in {15, 16},
           NEW m \in Message, m.fn = c.fn, m.data = RequestData(c), NEW mem
    PROVE  LET d == Response(m, mem).data IN
           /\ Response(m, mem) = [m EXCEPT !.data = d]
           /\ Has(d, 4) /\ Word(d, 3) = c.nb
<1> DEFINE d == SubSeq(m.data, 1, 4)
<1>1. Response(m, mem) = [m EXCEPT !.data = d] /\ Response(m, mem).data = d
  <2>1. /\ m.fn \notin ReadBits /\ m.fn \in WriteMultiple
        /\ m.fn \notin ReadRegisters \cup {FC.WRITE_AND_READ_REGISTERS}
    BY FunctionNumbers
  <2>2. Response(m, mem) = [m EXCEPT !.data = d]
    BY <2>1 DEF Response
  <2>3. QED
    BY <2>2 DEF Message
<1>2. m.data \in Seq(Byte) /\ Len(m.data) >= 5 /\ Word(m.data, 3) = c.nb
  <2>1. CASE c.fn = 15
    BY <2>1, CoilsRequest DEF Has
  <2>2. CASE c.fn = 16
    BY <2>2, RegistersRequest DEF Has
  <2>3. QED
    BY <2>1, <2>2
<1>3. d \in Seq(Byte) /\ Len(d) = 4 /\ d[3] = m.data[3] /\ d[4] = m.data[4]
    BY <1>2
<1> HIDE DEF d
<1>4. QED
    BY <1>1, <1>2, <1>3 DEF Has, Word, d

LEMMA Echo ==
    ASSUME NEW c, CallOK(c), c.fn \in {5, 6, 22},
           NEW m \in Message, m.fn = c.fn, m.data = RequestData(c), NEW mem
    PROVE  /\ Response(m, mem) = m
           /\ Has(m.data, IF c.fn = 22 THEN 6 ELSE 4)
<1>1. Response(m, mem) = m
  <2>1. /\ m.fn \notin ReadBits /\ m.fn \notin WriteMultiple
        /\ m.fn \notin ReadRegisters \cup {FC.WRITE_AND_READ_REGISTERS}
    BY FunctionNumbers
  <2>2. QED
    BY <2>1 DEF Response
<1>2. QED
    BY <1>1, CoilRequest, RegisterRequest, MaskRequest

LEMMA SlaveIdSays ==
    ASSUME NEW m \in Message
    PROVE  LET d == SlaveIdAnswer(m).data IN
           SlaveIdAnswer(m) = [m EXCEPT !.data = d] /\ Has(d, 11) /\ d[1] = 10
<1> DEFINE d == <<10, 180, 255, 76, 77, 66, 51, 46, 49, 46, 50>>
<1>1. SlaveIdAnswer(m) = [m EXCEPT !.data = d] /\ SlaveIdAnswer(m).data = d
    BY DEF SlaveIdAnswer, Message
<1>2. \A n \in {10, 180, 255, 76, 77, 66, 51, 46, 49, 50} : n \in Byte
    BY DEF Byte
<1>3. d \in Seq(Byte) /\ Len(d) = 11 /\ d[1] = 10
    BY <1>2
<1> HIDE DEF d
<1>4. QED
    BY <1>1, <1>3 DEF Has

(* The one answer that is on its way when a server has replied.            *)
ReplyIs(reply, mem, x) == reply.memory = mem /\ reply.sent = <<x>>

LEMMA ReplyShape ==
    ASSUME NEW m, m.fn \in {1, 2, 3, 4, 5, 6, 15, 16, 17, 22, 23}, NEW mem, NEW size
    PROVE  LET reply == modbus_reply(m, mem, size)
               obeyed == [mem EXCEPT ![Table(m.fn)] = Written(m, mem)]
           IN \/ \E code \in {1, 2, 3} : ReplyIs(reply, mem, response_exception(m, code))
              \/ m.fn = 17 /\ ReplyIs(reply, mem, SlaveIdAnswer(m))
              \/ m.fn # 17 /\ ~IllegalCount(m) /\ ReplyIs(reply, obeyed, Response(m, obeyed))
<1> DEFINE reply == modbus_reply(m, mem, size)
           obeyed == [mem EXCEPT ![Table(m.fn)] = Written(m, mem)]
<1>1. m.fn # FC.READ_EXCEPTION_STATUS
    BY FunctionNumbers
<1>2. CASE m.fn = 17
  <2>1. reply = [memory |-> mem, sent |-> <<SlaveIdAnswer(m)>>, flushed |-> FALSE]
    BY <1>1, <1>2, FunctionNumbers DEF modbus_reply, Known
  <2>2. QED
    BY <1>2, <2>1 DEF ReplyIs
<1>3. CASE m.fn # 17
  <2>1. Known(m.fn) /\ m.fn # FC.REPORT_SLAVE_ID
    BY <1>3, FunctionNumbers DEF Known
  <2>2. reply = IF IllegalCount(m)
                THEN [memory |-> mem, flushed |-> TRUE,
                      sent |-> <<response_exception(m, EXCEPTION.ILLEGAL_DATA_VALUE)>>]
                ELSE IF IllegalAddress(m, size)
                THEN [memory |-> mem, flushed |-> FALSE,
                      sent |-> <<response_exception(m, EXCEPTION.ILLEGAL_DATA_ADDRESS)>>]
                ELSE IF IllegalCoil(m)
                THEN [memory |-> mem, flushed |-> FALSE,
                      sent |-> <<response_exception(m, EXCEPTION.ILLEGAL_DATA_VALUE)>>]
                ELSE [memory |-> obeyed, flushed |-> FALSE, sent |-> <<Response(m, obeyed)>>]
    BY <1>1, <2>1 DEF modbus_reply
  <2>3. EXCEPTION.ILLEGAL_DATA_VALUE = 3 /\ EXCEPTION.ILLEGAL_DATA_ADDRESS = 2
    BY DEF EXCEPTION
  <2> HIDE DEF reply, obeyed
  <2>4. QED
    BY <1>3, <2>2, <2>3 DEF ReplyIs, reply, obeyed
<1>4. QED
    BY <1>2, <1>3

(* Sent(a, e, x): a is the answer x, sent to the request of envelope e.    *)
Sent(a, e, x) ==
    /\ a \in Answer /\ a.m = x /\ a.of = e.of /\ a.whole
    /\ x.tid = e.m.tid /\ x.slave = e.m.slave /\ x.crc = e.m.crc

LEMMA OneAnswer ==
    ASSUME NEW e, NEW x, NEW reply, reply.sent = <<x>>
    PROVE  LET held == Peek(reply.memory[Table(e.m.fn)], Word(e.m.data, 1), Word(e.m.data, 3))
               seen == IF e.m.fn \in Reads /\ x.fn < 128 THEN held ELSE <<>>
           IN Answers(e, reply) = <<[m |-> x, of |-> e.of, whole |-> TRUE, seen |-> seen]>>
<1> DEFINE held == Peek(reply.memory[Table(e.m.fn)], Word(e.m.data, 1), Word(e.m.data, 3))
           seen == IF e.m.fn \in Reads /\ x.fn < 128 THEN held ELSE <<>>
           a == [m |-> x, of |-> e.of, whole |-> TRUE, seen |-> seen]
<1>1. ReadBits \cup ReadRegisters \cup {FC.WRITE_AND_READ_REGISTERS} = Reads
    BY FunctionNumbers DEF Reads
<1>2. Answers(e, reply) =
        [i \in DOMAIN reply.sent |->
            [m |-> reply.sent[i], of |-> e.of, whole |-> TRUE,
             seen |-> IF e.m.fn \in Reads /\ reply.sent[i].fn < 128 THEN held ELSE <<>>]]
    BY <1>1 DEF Answers
<1> HIDE DEF held
<1>3. DOMAIN reply.sent = {1} /\ reply.sent[1] = x
    OBVIOUS
<1>4. Answers(e, reply) = [i \in {1} |-> a]
    BY <1>2, <1>3
<1> HIDE DEF a
<1>5. [i \in {1} |-> a] = <<a>>
    OBVIOUS
<1>6. QED
    BY <1>4, <1>5 DEF a, held

LEMMA ExceptionSays ==
    ASSUME NEW e \in Envelope, NEW c, e.m.fn = c.fn, CallOK(c), NEW code \in {1, 2, 3},
           NEW reply, NEW mem, ReplyIs(reply, mem, response_exception(e.m, code))
    PROVE  \E a \in Answer : /\ Answers(e, reply) = <<a>>
                             /\ Sent(a, e, response_exception(e.m, code))
                             /\ AnswerTo(a.m, c, a.seen) /\ a.m.fn # c.fn
<1> DEFINE x == response_exception(e.m, code)
           a == [m |-> x, of |-> e.of, whole |-> TRUE, seen |-> <<>>]
<1>1. e.m \in Message /\ e.of \in Nat /\ c.fn \in {1, 2, 3, 4, 5, 6, 15, 16, 17, 22, 23}
    BY CallFacts DEF Envelope
<1>2. /\ x.tid = e.m.tid /\ x.slave = e.m.slave /\ x.crc = e.m.crc
      /\ x.fn = c.fn + 128 /\ x.data = <<code>>
    BY <1>1 DEF response_exception, Message
<1>3. x \in Message
  <2>1. code \in Byte
    BY DEF Byte
  <2>2. <<code>> \in Seq(Byte)
    BY <2>1
  <2> DEFINE y == [e.m EXCEPT !.fn = e.m.fn + 128]
  <2>3. x = [y EXCEPT !.data = <<code>>]
    BY DEF response_exception
  <2>4. e.m.fn + 128 \in Nat
    BY <1>1
  <2>5. y \in Message
    BY <1>1, <2>4 DEF Message
  <2> HIDE DEF y
  <2>6. QED
    BY <2>2, <2>3, <2>5 DEF Message
<1> HIDE DEF x
<1>4. a \in Answer /\ Sent(a, e, x)
    BY <1>1, <1>2, <1>3 DEF Answer, Sent
<1>5. Answers(e, reply) = <<a>>
  <2>1. reply.sent = <<x>> /\ ~(x.fn < 128)
    BY <1>1, <1>2 DEF ReplyIs, x
  <2>2. QED
    BY <2>1, OneAnswer
<1>6. AnswerTo(x, c, <<>>) /\ x.fn # c.fn
  <2>1. x.fn # c.fn /\ x.fn # 17 /\ Len(x.data) = 1
    BY <1>1, <1>2
  <2>2. QED
    BY <1>2, <2>1 DEF AnswerTo
<1>7. a.m = x /\ a.seen = <<>>
    OBVIOUS
<1> HIDE DEF a
<1>8. QED
    BY <1>4, <1>5, <1>6, <1>7 DEF x

LEMMA SlaveIdSent ==
    ASSUME NEW e \in Envelope, NEW c, e.m.fn = c.fn, c.fn = 17,
           NEW reply, NEW mem, ReplyIs(reply, mem, SlaveIdAnswer(e.m))
    PROVE  \E a \in Answer : /\ Answers(e, reply) = <<a>>
                             /\ Sent(a, e, SlaveIdAnswer(e.m))
                             /\ AnswerTo(a.m, c, a.seen)
<1> DEFINE x == SlaveIdAnswer(e.m)
           a == [m |-> x, of |-> e.of, whole |-> TRUE, seen |-> <<>>]
<1>1. e.m \in Message /\ e.of \in Nat
    BY DEF Envelope
<1>2. x = [e.m EXCEPT !.data = x.data] /\ Has(x.data, 11) /\ x.data[1] = 10
    BY <1>1, SlaveIdSays
<1> HIDE DEF x
<1>3. x.tid = e.m.tid /\ x.slave = e.m.slave /\ x.crc = e.m.crc /\ x.fn = 17 /\ x \in Message
    BY <1>1, <1>2 DEF Has, Message
<1>4. a \in Answer /\ Sent(a, e, x)
    BY <1>1, <1>3 DEF Answer, Sent
<1>5. Answers(e, reply) = <<a>>
  <2>1. reply.sent = <<x>> /\ e.m.fn \notin Reads
    BY <1>3 DEF ReplyIs, Reads, x
  <2>2. QED
    BY <2>1, OneAnswer
<1>6. AnswerTo(x, c, <<>>)
  <2>1. AnswerLength(c) = 11
    BY FunctionNumbers DEF AnswerLength, WordReads
  <2>2. Says(x.data, c, <<>>)
    BY FunctionNumbers DEF Says, Reads, WordReads
  <2>3. QED
    BY <1>2, <1>3, <2>1, <2>2 DEF AnswerTo, Has, Reads, WordReads
<1>7. a.m = x /\ a.seen = <<>>
    OBVIOUS
<1> HIDE DEF a
<1>8. QED
    BY <1>4, <1>5, <1>6, <1>7 DEF x

(* What the answer to a request that is obeyed says.                       *)
LEMMA BitsSay ==
    ASSUME NEW c, CallOK(c), c.fn \in {1, 2},
           NEW m \in Message, m.fn = c.fn, m.data = RequestData(c), ~IllegalCount(m),
           NEW mem, MemoryOK(mem)
    PROVE  LET x == Response(m, mem)
               seen == Peek(mem[Table(m.fn)], Word(m.data, 1), Word(m.data, 3))
           IN /\ x = [m EXCEPT !.data = x.data] /\ x.data \in Seq(Byte)
              /\ seen \in Seq(Nat) /\ AnswerTo(x, c, seen)
<1> DEFINE x == Response(m, mem)
           seen == Peek(mem[Table(m.fn)], Word(m.data, 1), Word(m.data, 3))
<1>1. /\ x = [m EXCEPT !.data = x.data]
      /\ x.data \in Seq(Byte) /\ Len(x.data) = 1 + ByteCount(c.nb)
      /\ c.nb >= 1 /\ c.nb <= 2000
      /\ seen \in Seq({0, 1}) /\ Len(seen) = c.nb
      /\ x.data[1] = ByteCount(c.nb)
      /\ \A i \in 1..c.nb : Bits(x.data, 2, c.nb)[i] = seen[i]
    BY BitsAnswer
<1> HIDE DEF x, seen
<1>2. seen \in Seq(Nat)
    BY <1>1
<1>3. x.fn = c.fn
    BY <1>1 DEF Message
<1>4. AnswerLength(c) = 1 + ByteCount(c.nb)
  <2>1. c.fn \in ReadBits /\ c.fn \notin WordReads /\ c.fn # 17 /\ c.fn # 22
    BY FunctionNumbers DEF WordReads
  <2>2. QED
    BY <2>1 DEF AnswerLength
<1>5. Says(x.data, c, seen)
    BY <1>1, FunctionNumbers DEF Says, WordReads
<1>6. AnswerTo(x, c, seen)
    BY <1>1, <1>3, <1>4, <1>5 DEF AnswerTo, WordReads
<1>7. QED
    BY <1>1, <1>2, <1>6 DEF x, seen

LEMMA WordsSay ==
    ASSUME NEW c, CallOK(c), ~TooMany(c), c.fn \in {3, 4, 23},
           NEW m \in Message, m.fn = c.fn, m.data = RequestData(c), ~IllegalCount(m),
           NEW mem, MemoryOK(mem)
    PROVE  LET x == Response(m, mem)
               seen == Peek(mem[Table(m.fn)], Word(m.data, 1), Word(m.data, 3))
           IN /\ x = [m EXCEPT !.data = x.data] /\ x.data \in Seq(Byte)
              /\ seen \in Seq(Nat) /\ AnswerTo(x, c, seen)
<1> DEFINE x == Response(m, mem)
           seen == Peek(mem[Table(m.fn)], Word(m.data, 1), Word(m.data, 3))
<1>1. /\ x = [m EXCEPT !.data = x.data]
      /\ Has(x.data, 1 + 2 * c.nb)
      /\ c.nb >= 1 /\ c.nb <= 125
      /\ seen \in Seq(Word16) /\ Len(seen) = c.nb
      /\ x.data[1] = 2 * c.nb
      /\ \A i \in 1..c.nb : Registers(x.data, 2, c.nb)[i] = seen[i]
    BY WordsAnswer
<1> HIDE DEF x, seen
<1>2. seen \in Seq(Nat) /\ x.data \in Seq(Byte) /\ Len(x.data) = 1 + 2 * c.nb
    BY <1>1 DEF Word16, Has
<1>3. x.fn = c.fn
    BY <1>1 DEF Message
<1>4. AnswerLength(c) = 1 + 2 * c.nb
  <2>1. c.fn \notin ReadBits /\ c.fn \in WordReads /\ c.fn # 17 /\ c.fn # 22
    BY FunctionNumbers DEF WordReads
  <2>2. QED
    BY <2>1 DEF AnswerLength
<1>5. Says(x.data, c, seen)
  <2>1. c.fn \notin ReadBits /\ c.fn \notin WriteMultiple
    BY FunctionNumbers
  <2>2. QED
    BY <1>1, <2>1 DEF Says
<1>6. c.nb <= 2000
    BY <1>1, CallFacts, Numbers
<1>7. AnswerTo(x, c, seen)
  <2>1. x.fn # 17 /\ Len(x.data) = AnswerLength(c)
    BY <1>1, <1>2, <1>3, <1>4
  <2>2. QED
    BY <1>1, <1>3, <1>5, <1>6, <2>1 DEF AnswerTo
<1>8. QED
    BY <1>1, <1>2, <1>7 DEF x, seen

LEMMA WritesSay ==
    ASSUME NEW c, CallOK(c), ~TooMany(c), c.fn \in {5, 6, 15, 16, 22},
           NEW m \in Message, m.fn = c.fn, m.data = RequestData(c), NEW mem
    PROVE  LET x == Response(m, mem)
           IN x = [m EXCEPT !.data = x.data] /\ x.data \in Seq(Byte) /\ AnswerTo(x, c, <<>>)
<1> DEFINE x == Response(m, mem)
<1>1. /\ x = [m EXCEPT !.data = x.data]
      /\ Has(x.data, IF c.fn = 22 THEN 6 ELSE 4)
      /\ c.fn \in {15, 16} => Word(x.data, 3) = c.nb
  <2>1. CASE c.fn \in {15, 16}
    BY <2>1, WriteManyAnswer
  <2>2. CASE c.fn \in {5, 6, 22}
    <3>1. x = m /\ Has(m.data, IF c.fn = 22 THEN 6 ELSE 4)
      BY <2>2, Echo
    <3>2. m = [m EXCEPT !.data = m.data]
      BY DEF Message
    <3>3. QED
      BY <2>2, <3>1, <3>2
  <2>3. QED
    BY <2>1, <2>2
<1> HIDE DEF x
<1>2. x.fn = c.fn
    BY <1>1 DEF Message
<1>3. AnswerLength(c) = IF c.fn = 22 THEN 6 ELSE 4
    BY FunctionNumbers DEF AnswerLength, WordReads
<1>4. Says(x.data, c, <<>>)
    BY <1>1, FunctionNumbers DEF Says, Reads, WordReads
<1>5. AnswerTo(x, c, <<>>)
    BY <1>1, <1>2, <1>3, <1>4 DEF AnswerTo, Has, Reads, WordReads
<1>6. QED
    BY <1>1, <1>5 DEF x, Has

LEMMA ResponseSays ==
    ASSUME NEW c, CallOK(c), ~TooMany(c), c.fn # 17,
           NEW m \in Message, m.fn = c.fn, m.data = RequestData(c), ~IllegalCount(m),
           NEW mem, MemoryOK(mem)
    PROVE  LET x == Response(m, mem)
               held == Peek(mem[Table(m.fn)], Word(m.data, 1), Word(m.data, 3))
               seen == IF m.fn \in Reads THEN held ELSE <<>>
           IN /\ x = [m EXCEPT !.data = x.data] /\ x.data \in Seq(Byte)
              /\ seen \in Seq(Nat) /\ AnswerTo(x, c, seen)
<1>1. CASE c.fn \in {1, 2}
  <2>1. m.fn \in Reads
    BY <1>1 DEF Reads
  <2>2. QED
    BY <1>1, <2>1, BitsSay
<1>2. CASE c.fn \in {3, 4, 23}
  <2>1. m.fn \in Reads
    BY <1>2 DEF Reads
  <2>2. QED
    BY <1>2, <2>1, WordsSay
<1>3. CASE c.fn \in {5, 6, 15, 16, 22}
  <2>1. m.fn \notin Reads
    BY <1>3 DEF Reads
  <2>2. QED
    BY <1>3, <2>1, WritesSay
<1>4. QED
    BY <1>1, <1>2, <1>3, CallFacts

LEMMA ResponseSent ==
    ASSUME NEW e \in Envelope, NEW c, e.m.fn = c.fn, e.m.data = RequestData(c),
           CallOK(c), ~TooMany(c), c.fn # 17, ~IllegalCount(e.m),
           NEW reply, NEW mem, MemoryOK(mem), ReplyIs(reply, mem, Response(e.m, mem))
    PROVE  \E a \in Answer : /\ Answers(e, reply) = <<a>>
                             /\ Sent(a, e, Response(e.m, mem))
                             /\ AnswerTo(a.m, c, a.seen)
<1> DEFINE x == Response(e.m, mem)
           held == Peek(mem[Table(e.m.fn)], Word(e.m.data, 1), Word(e.m.data, 3))
           seen == IF e.m.fn \in Reads THEN held ELSE <<>>
           a == [m |-> x, of |-> e.of, whole |-> TRUE, seen |-> seen]
<1>1. e.m \in Message /\ e.of \in Nat /\ c.fn \in {1, 2, 3, 4, 5, 6, 15, 16, 22, 23}
    BY CallFacts DEF Envelope
<1>2. /\ x = [e.m EXCEPT !.data = x.data] /\ x.data \in Seq(Byte)
      /\ seen \in Seq(Nat) /\ AnswerTo(x, c, seen)
    BY <1>1, ResponseSays
<1>3. Answers(e, reply) =
        <<[m |-> x, of |-> e.of, whole |-> TRUE,
           seen |-> IF e.m.fn \in Reads /\ x.fn < 128 THEN held ELSE <<>>]>>
  <2>1. reply.sent = <<x>> /\ reply.memory = mem
    BY DEF ReplyIs
  <2> HIDE DEF x
  <2>2. QED
    BY <2>1, OneAnswer
<1> HIDE DEF x, held
<1>4. x.tid = e.m.tid /\ x.slave = e.m.slave /\ x.crc = e.m.crc /\ x.fn = c.fn /\ x \in Message
    BY <1>1, <1>2 DEF Message
<1>5. x.fn < 128
    BY <1>1, <1>4
<1>6. Answers(e, reply) = <<a>>
    BY <1>3, <1>5
<1> HIDE DEF seen
<1>7. a \in Answer /\ Sent(a, e, x)
    BY <1>1, <1>2, <1>4 DEF Answer, Sent
<1>8. a.m = x /\ a.seen = seen
    OBVIOUS
<1> HIDE DEF a
<1>9. QED
    BY <1>2, <1>6, <1>7, <1>8 DEF x

(* The reply to a request: the tables keep their form, one answer is sent, *)
(* and it refuses nothing only if the tables show what was written.        *)
LEMMA Replied ==
    ASSUME NEW e \in Envelope, NEW c, e.m.fn = c.fn, e.m.data = RequestData(c),
           CallOK(c), ~TooMany(c), NEW mem, MemoryOK(mem), NEW size
    PROVE  LET reply == modbus_reply(e.m, mem, size) IN
           /\ MemoryOK(reply.memory)
           /\ \E a \in Answer : /\ Answers(e, reply) = <<a>>
                                /\ Sent(a, e, a.m) /\ AnswerTo(a.m, c, a.seen)
                                /\ a.m.fn = c.fn => Shows(reply.memory, c)
<1> DEFINE m == e.m
           reply == modbus_reply(m, mem, size)
           obeyed == [mem EXCEPT ![Table(m.fn)] = Written(m, mem)]
<1>1. \/ \E code \in {1, 2, 3} : ReplyIs(reply, mem, response_exception(m, code))
      \/ m.fn = 17 /\ ReplyIs(reply, mem, SlaveIdAnswer(m))
      \/ m.fn # 17 /\ ~IllegalCount(m) /\ ReplyIs(reply, obeyed, Response(m, obeyed))
  <2>1. m.fn \in {1, 2, 3, 4, 5, 6, 15, 16, 17, 22, 23}
    BY CallFacts
  <2>2. QED
    BY <2>1, ReplyShape
<1> HIDE DEF reply
<1>2. ASSUME NEW code \in {1, 2, 3}, ReplyIs(reply, mem, response_exception(m, code))
      PROVE  /\ MemoryOK(reply.memory)
             /\ \E a \in Answer : /\ Answers(e, reply) = <<a>>
                                  /\ Sent(a, e, a.m) /\ AnswerTo(a.m, c, a.seen)
                                  /\ a.m.fn = c.fn => Shows(reply.memory, c)
  <2>1. reply.memory = mem
    BY <1>2 DEF ReplyIs
  <2>2. PICK a \in Answer : /\ Answers(e, reply) = <<a>>
                            /\ Sent(a, e, response_exception(m, code))
                            /\ AnswerTo(a.m, c, a.seen) /\ a.m.fn # c.fn
    BY <1>2, ExceptionSays
  <2>3. Sent(a, e, a.m)
    BY <2>2 DEF Sent
  <2>4. QED
    BY <2>1, <2>2, <2>3
<1>3. CASE m.fn = 17 /\ ReplyIs(reply, mem, SlaveIdAnswer(m))
  <2>1. reply.memory = mem
    BY <1>3 DEF ReplyIs
  <2>2. PICK a \in Answer : /\ Answers(e, reply) = <<a>> /\ Sent(a, e, SlaveIdAnswer(m))
                            /\ AnswerTo(a.m, c, a.seen)
    BY <1>3, SlaveIdSent
  <2>3. Sent(a, e, a.m)
    BY <2>2 DEF Sent
  <2>4. Shows(mem, c)
    BY <1>3, FunctionNumbers DEF Shows
  <2>5. QED
    BY <2>1, <2>2, <2>3, <2>4 DEF reply
<1>4. CASE m.fn # 17 /\ ~IllegalCount(m) /\ ReplyIs(reply, obeyed, Response(m, obeyed))
  <2>1. MemoryOK(obeyed) /\ Shows(obeyed, c)
    BY <1>4, Obeys
  <2> HIDE DEF obeyed
  <2>2. reply.memory = obeyed
    BY <1>4 DEF ReplyIs
  <2>3. PICK a \in Answer : /\ Answers(e, reply) = <<a>> /\ Sent(a, e, Response(m, obeyed))
                            /\ AnswerTo(a.m, c, a.seen)
    BY <1>4, <2>1, ResponseSent
  <2>4. Sent(a, e, a.m)
    BY <2>3 DEF Sent
  <2>5. QED
    BY <2>1, <2>2, <2>3, <2>4 DEF reply
<1>5. QED
    BY <1>1, <1>2, <1>3, <1>4 DEF reply

-----------------------------------------------------------------------------
(* What the line makes of an answer still looks like one to that call.     *)

LEMMA LastByte ==
    ASSUME NEW d \in Seq(Byte)
    PROVE  LET e == [d EXCEPT ![Len(d)] = (d[Len(d)] + 1) % 256] IN
           /\ e \in Seq(Byte) /\ Len(e) = Len(d)
           /\ Len(d) >= 2 => e[1] = d[1]
<1> DEFINE n == Len(d)
           e == [d EXCEPT ![n] = (d[n] + 1) % 256]
<1>1. n \in Nat /\ d \in [1..n -> Byte]
    OBVIOUS
<1>2. n \in 1..n => (d[n] + 1) % 256 \in Byte
  <2>1. ASSUME NEW b \in Byte
        PROVE  (b + 1) % 256 \in Byte
    BY DEF Byte
  <2>2. QED
    BY <1>1, <2>1
<1> HIDE DEF n
<1>3. e \in [1..n -> Byte]
    BY <1>1, <1>2
<1>4. n >= 2 => e[1] = d[1]
    BY <1>1
<1> HIDE DEF e
<1>5. e \in Seq(Byte) /\ Len(e) = n
    BY <1>1, <1>3
<1>6. QED
    BY <1>4, <1>5 DEF e, n

LEMMA DamagedSays ==
    ASSUME NEW a \in Answer, NEW c, CallOK(c), AnswerTo(a.m, c, a.seen)
    PROVE  LET w == Damaged(a) IN
           /\ w \in Answer /\ w.of = a.of /\ w.m.fn = a.m.fn /\ w.m.tid = a.m.tid
           /\ w.m.slave = a.m.slave /\ w.seen = a.seen /\ ~w.m.crc
           /\ AnswerTo(w.m, c, w.seen)
<1> DEFINE d == a.m.data
           e == [d EXCEPT ![Len(d)] = (d[Len(d)] + 1) % 256]
           m == [a.m EXCEPT !.data = e]
           n == [m EXCEPT !.crc = FALSE]
           w == Damaged(a)
<1>1. a.m \in Message /\ a.of \in Nat /\ a.whole \in BOOLEAN /\ a.seen \in Seq(Nat)
    BY DEF Answer
<1>2. d \in Seq(Byte)
    BY <1>1 DEF Message
<1>3. e \in Seq(Byte) /\ Len(e) = Len(d) /\ (Len(d) >= 2 => e[1] = d[1])
    BY <1>2, LastByte
<1>4. w = [a EXCEPT !.m = n]
    BY <1>1 DEF Damaged, Answer, Message
<1> HIDE DEF e
<1>5. m \in Message /\ m.data = e /\ m.fn = a.m.fn /\ m.tid = a.m.tid /\ m.slave = a.m.slave
    BY <1>1, <1>3 DEF Message
<1> HIDE DEF m
<1>6. /\ n \in Message /\ n.data = e /\ n.fn = a.m.fn /\ n.tid = a.m.tid
      /\ n.slave = a.m.slave /\ ~n.crc
    BY <1>5 DEF Message
<1> HIDE DEF n, w
<1>7. w \in Answer /\ w.of = a.of /\ w.m = n /\ w.seen = a.seen
    BY <1>1, <1>4, <1>6 DEF Answer
<1>8. a.m.fn = 17 => Len(d) >= 2
  <2>1. a.m.fn = 17 => c.fn = 17
    BY CallFacts DEF AnswerTo
  <2>2. c.fn = 17 => AnswerLength(c) = 11
    BY FunctionNumbers DEF AnswerLength, WordReads
  <2>3. a.m.fn = 17 => Len(d) = AnswerLength(c)
    BY <2>1 DEF AnswerTo
  <2>4. QED
    BY <2>1, <2>2, <2>3
<1>9. AnswerTo(n, c, a.seen)
  <2>1. n.fn = 17 => n.data[1] = 10
    BY <1>3, <1>6, <1>8 DEF AnswerTo
  <2>2. Len(n.data) = Len(d)
    BY <1>3, <1>6
  <2> HIDE DEF d
  <2>3. QED
    BY <1>6, <2>1, <2>2 DEF AnswerTo, d
<1>10. QED
    BY <1>6, <1>7, <1>9 DEF w

LEMMA Arrived ==
    ASSUME NEW a \in Answer, NEW c, CallOK(c), AnswerTo(a.m, c, a.seen),
           NEW d \in Delivered(<<a>>)
    PROVE  \/ d = <<>>
           \/ \E w \in Answer :
                /\ d = <<w>> /\ w.of = a.of /\ w.m.fn = a.m.fn /\ w.m.tid = a.m.tid
                /\ w.m.slave = a.m.slave /\ w.seen = a.seen /\ AnswerTo(w.m, c, w.seen)
                /\ backend = "tcp" => w = a
<1>1. \/ d = <<a>>
      \/ d = <<>>
      \/ backend # "tcp" /\ d = <<Damaged(a)>>
      \/ backend # "tcp" /\ d = <<[a EXCEPT !.whole = FALSE]>>
  <2>1. <<a>>[1] = a
    OBVIOUS
  <2>2. QED
    BY <2>1 DEF Delivered
<1>2. CASE d = <<a>>
    BY <1>2
<1>3. CASE backend # "tcp" /\ d = <<Damaged(a)>>
    BY <1>3, DamagedSays
<1>4. CASE backend # "tcp" /\ d = <<[a EXCEPT !.whole = FALSE]>>
  <2> DEFINE w == [a EXCEPT !.whole = FALSE]
  <2>1. w \in Answer /\ w.of = a.of /\ w.m = a.m /\ w.seen = a.seen
    BY DEF Answer
  <2> HIDE DEF w
  <2>2. QED
    BY <1>4, <2>1 DEF w
<1>5. QED
    BY <1>1, <1>2, <1>3, <1>4

-----------------------------------------------------------------------------
(* No message is longer than the backend allows.                           *)

LEMMA RequestLength ==
    ASSUME NEW c, CallOK(c), ~TooMany(c)
    PROVE  RequestData(c) \in Seq(Byte) /\ Len(RequestData(c)) <= 251
<1>1. CASE c.fn \in {1, 2, 3, 4, 5, 6}
  <2>1. Has(RequestData(c), 4)
    BY <1>1, ReadRequest, CoilRequest, RegisterRequest
  <2>2. QED
    BY <2>1 DEF Has
<1>2. CASE c.fn = 15
  <2>1. PICK n \in Nat : n = ByteCount(c.nb) /\ n <= 246 /\ Has(RequestData(c), 5 + n)
    BY <1>2, CoilsRequest
  <2>2. 5 + n <= 251
    BY <2>1
  <2>3. QED
    BY <2>1, <2>2 DEF Has
<1>3. CASE c.fn = 16
  <2>1. PICK n \in Nat : n = c.nb /\ n <= 123 /\ Has(RequestData(c), 5 + 2 * n)
    BY <1>3, RegistersRequest
  <2>2. 5 + 2 * n <= 251
    BY <2>1
  <2>3. QED
    BY <2>1, <2>2 DEF Has
<1>4. CASE c.fn = 17
  <2>1. RequestData(c) = <<>>
    BY <1>4, FunctionNumbers DEF RequestData
  <2>2. QED
    BY <2>1
<1>5. CASE c.fn = 22
  <2>1. Has(RequestData(c), 6)
    BY <1>5, MaskRequest
  <2>2. QED
    BY <2>1 DEF Has
<1>6. CASE c.fn = 23
  <2>1. PICK n \in Nat : n = Len(c.src) /\ n <= 121 /\ Has(RequestData(c), 9 + 2 * n)
    BY <1>6, BothRequest
  <2>2. 9 + 2 * n <= 251
    BY <2>1
  <2>3. QED
    BY <2>1, <2>2 DEF Has
<1>7. QED
    BY <1>1, <1>2, <1>3, <1>4, <1>5, <1>6, CallFacts

LEMMA AnswerLengthBound ==
    ASSUME NEW m \in Message, NEW c, CallOK(c), NEW seen, AnswerTo(m, c, seen)
    PROVE  Len(m.data) >= 1 /\ Len(m.data) <= 251
<1>1. CASE m.fn # c.fn
    BY <1>1 DEF AnswerTo
<1>2. CASE m.fn = c.fn /\ c.fn \in {1, 2}
  <2>1. Len(m.data) = 1 + ByteCount(c.nb)
    <3>1. c.fn \in ReadBits /\ c.fn \notin WordReads /\ c.fn # 17 /\ c.fn # 22
      BY <1>2, FunctionNumbers DEF WordReads
    <3>2. QED
      BY <1>2, <3>1 DEF AnswerTo, AnswerLength
  <2>2. c.nb \in Nat /\ c.nb <= 2000
    BY <1>2, CallFacts, Numbers DEF AnswerTo, Reads
  <2>3. PICK n \in Nat : n = c.nb /\ n <= 2000
    BY <2>2
  <2>4. PICK k \in Nat : k = ByteCount(n) /\ 8 * k < n + 8
    BY ByteCounts
  <2>5. k <= 250
    BY <2>3, <2>4
  <2>6. QED
    BY <2>1, <2>3, <2>4, <2>5
<1>3. CASE m.fn = c.fn /\ c.fn \in {3, 4, 23}
  <2>1. Len(m.data) = 1 + 2 * c.nb
    <3>1. c.fn \notin ReadBits /\ c.fn \in WordReads /\ c.fn # 17 /\ c.fn # 22
      BY <1>3, FunctionNumbers DEF WordReads
    <3>2. QED
      BY <1>3, <3>1 DEF AnswerTo, AnswerLength
  <2>2. c.nb \in Nat /\ c.nb <= 125
    BY <1>3, CallFacts, Numbers DEF AnswerTo, WordReads
  <2>3. QED
    BY <2>1, <2>2
<1>4. CASE m.fn = c.fn /\ c.fn \in {5, 6, 15, 16, 17, 22}
  <2>1. c.fn \notin ReadBits /\ c.fn \notin WordReads
    BY <1>4, FunctionNumbers DEF WordReads
  <2>2. AnswerLength(c) \in {4, 6, 11}
    BY <2>1 DEF AnswerLength
  <2>3. QED
    BY <1>4, <2>2 DEF AnswerTo
<1>5. QED
    BY <1>1, <1>2, <1>3, <1>4, CallFacts

LEMMA Fits ==
    ASSUME NEW b \in DOMAIN Backend, NEW m, m.data \in Seq(Byte), Len(m.data) <= 251
    PROVE  Length(b, m) \in Nat /\ Length(b, m) > 0 /\ Length(b, m) <= Backend[b].max_adu
<1>1. PICK n \in Nat : n = Len(m.data) /\ n <= 251
    OBVIOUS
<1>2. Length(b, m) = Backend[b].header + 1 + n + Backend[b].checksum
    BY <1>1 DEF Length
<1>3. CASE b = "tcp"
    BY <1>1, <1>2, <1>3, Backends
<1>4. CASE b \in {"rtu", "rtutcp"}
    BY <1>1, <1>2, <1>4, Backends
<1>5. QED
    BY <1>3, <1>4, Backends

-----------------------------------------------------------------------------
(* The invariant.                                                          *)

FixedOK == backend \in DOMAIN Backend /\ script \in Scripts

CallInv ==
    /\ slave \in Int /\ slave >= -1 /\ (slave <= 247 \/ slave = 255)
    /\ backend = "rtu" => slave # 255
    /\ tid \in Word16
    /\ link \in {"closed", "up", "dead"}
    /\ made \in Nat /\ made <= Len(script)
    /\ waiting \in BOOLEAN
    /\ waiting => made > 0 /\ ~TooMany(script[made])
    /\ made > 0 /\ SlaveTaken(script[made].slave) => slave = script[made].slave
    /\ backend = "tcp" /\ Len(script) < 65536 => tid <= made
    /\ ignore \in BOOLEAN /\ (ignore => backend = "rtu")

ReadingOK ==
    /\ reading \in [step : {"function", "meta", "data"}, length : Nat, left : Nat]
    /\ reading.left > 0
    /\ reading.length + reading.left <= Backend[backend].max_adu

OutcomeOK == outcome.rc \in Int /\ outcome.rc >= -1 /\ outcome.rc <= 2000

Requests == toServer \in Seq(Envelope) /\ \A e \in Elems(toServer) : RequestOK(e)
AnswersOK == wire \in Seq(Answer) /\ \A w \in Elems(wire) : AnswerOK(w)

(* What was read of a message is read of the first one on the wire.        *)
Partly == reading.length > 0 => waiting /\ wire # <<>>

ModInv ==
    /\ FixedOK /\ CallInv /\ ReadingOK /\ Partly /\ OutcomeOK
    /\ Requests /\ AnswersOK /\ MemoryOK(memory)

LEMMA ScriptFacts ==
    ASSUME FixedOK
    PROVE  /\ Len(script) \in Nat
           /\ \A n \in 1..Len(script) : CallOK(script[n])
BY ModbusAssumption DEF FixedOK

(* A message stays one of its call while nothing is called.                *)
LEMMA Steady ==
    ASSUME UNCHANGED <<backend, script, made, tid>>, waiting' => waiting
    PROVE  /\ \A e : RequestOK(e) => RequestOK(e)'
           /\ \A w : AnswerOK(w) => AnswerOK(w)'
<1>1. \A m, n : MadeFor(m, n) => MadeFor(m, n)'
    BY DEF MadeFor, SlaveTaken
<1>2. QED
    BY <1>1 DEF RequestOK, AnswerOK

LEMMA StillOK ==
    ASSUME Requests, AnswersOK, UNCHANGED <<backend, script, made, tid>>, waiting' => waiting
    PROVE  /\ toServer' \in Seq(Envelope) /\ Elems(toServer') \subseteq Elems(toServer) => Requests'
           /\ wire' \in Seq(Answer) /\ Elems(wire') \subseteq Elems(wire) => AnswersOK'
<1>1. \A e : RequestOK(e) => RequestOK(e)'
    BY Steady
<1>2. \A w : AnswerOK(w) => AnswerOK(w)'
    BY Steady
<1>3. toServer' \in Seq(Envelope) /\ Elems(toServer') \subseteq Elems(toServer) => Requests'
    BY <1>1 DEF Requests
<1>4. wire' \in Seq(Answer) /\ Elems(wire') \subseteq Elems(wire) => AnswersOK'
    BY <1>2 DEF AnswersOK
<1>5. QED
    BY <1>3, <1>4

(* After one more call the messages before it are those of earlier calls.  *)
LEMMA Earlier ==
    ASSUME Requests, AnswersOK, UNCHANGED <<backend, script>>, made \in Nat, made' = made + 1,
           backend = "tcp" /\ Len(script) < 65536 =>
              tid \in Nat /\ tid' \in Nat /\ tid <= tid' /\ (waiting' => tid < tid')
    PROVE  /\ \A e \in Elems(toServer) : RequestOK(e)' /\ e.of # made'
           /\ \A w \in Elems(wire) : AnswerOK(w)' /\ w.of # made'
<1>1. ASSUME NEW m \in Message, NEW n, MadeFor(m, n)
      PROVE  MadeFor(m, n)' /\ n # made'
  <2>1. n \in 1..made' /\ n # made'
    BY <1>1 DEF MadeFor
  <2>2. ~TooMany(script[n])' /\ (SlaveTaken(script[n].slave)' => m.slave = script'[n].slave)
    BY <1>1 DEF MadeFor, SlaveTaken
  <2>3. ASSUME backend = "tcp", Len(script) < 65536
        PROVE  m.tid <= tid' /\ (waiting' => m.tid # tid')
    <3>1. m.tid \in Nat /\ m.tid <= tid
      BY <1>1, <2>3 DEF MadeFor, Message
    <3>2. QED
      BY <2>3, <3>1
  <2>4. QED
    BY <2>1, <2>2, <2>3 DEF MadeFor
<1>2. ASSUME NEW e \in Elems(toServer)
      PROVE  RequestOK(e)' /\ e.of # made'
  <2>1. RequestOK(e) /\ e \in Envelope
    BY DEF Requests, RequestOK
  <2>2. e.m \in Message
    BY <2>1 DEF Envelope
  <2>3. MadeFor(e.m, e.of)' /\ e.of # made'
    BY <1>1, <2>1, <2>2 DEF RequestOK
  <2>4. QED
    BY <2>1, <2>3 DEF RequestOK
<1>3. ASSUME NEW w \in Elems(wire)
      PROVE  AnswerOK(w)' /\ w.of # made'
  <2>1. AnswerOK(w) /\ w \in Answer
    BY DEF AnswersOK, AnswerOK
  <2>2. w.m \in Message
    BY <2>1 DEF Answer
  <2>3. MadeFor(w.m, w.of)' /\ w.of # made'
    BY <1>1, <2>1, <2>2 DEF AnswerOK
  <2>4. QED
    BY <2>1, <2>3 DEF AnswerOK
<1>4. QED
    BY <1>2, <1>3

(* The slave and the transaction of a call.                                *)
LEMMA CallMade ==
    ASSUME FixedOK, CallInv, Calling, UNCHANGED <<backend, script>>
    PROVE  /\ made' \in Nat /\ made' > 0 /\ made' \in 1..Len(script) /\ made' = made + 1
           /\ CallOK(script[made'])
           /\ slave' \in Int /\ slave' >= -1 /\ (slave' <= 247 \/ slave' = 255)
           /\ backend = "rtu" => slave' # 255
           /\ SlaveTaken(script[made'].slave) => slave' = script[made'].slave
<1>1. made' \in Nat /\ made' > 0 /\ made' \in 1..Len(script) /\ made' = made + 1
    BY ScriptFacts DEF Calling, CallInv
<1>2. CallOK(script[made'])
    BY <1>1, ScriptFacts
<1>3. slave' = set_slave(script[made'].slave)
    BY <1>1 DEF Calling
<1> DEFINE s == script[made'].slave
<1>4. SlaveTaken(s) => s \in Int /\ s >= -1 /\ (s <= 247 \/ s = 255) /\ (backend = "rtu" => s # 255)
  <2>1. CASE s = MODBUS_TCP_SLAVE /\ backend # "rtu"
    BY <2>1 DEF MODBUS_TCP_SLAVE
  <2>2. CASE s \in 0..247
    BY <2>2
  <2>3. QED
    BY <2>1, <2>2 DEF SlaveTaken
<1> HIDE DEF s
<1>5. /\ slave' \in Int /\ slave' >= -1 /\ (slave' <= 247 \/ slave' = 255)
      /\ backend = "rtu" => slave' # 255
      /\ SlaveTaken(s) => slave' = s
    BY <1>3, <1>4 DEF set_slave, CallInv, s
<1>6. QED
    BY <1>1, <1>2, <1>5 DEF s

LEMMA TidMade ==
    ASSUME FixedOK, CallInv, made < Len(script),
           tid' = IF backend = "tcp" THEN NextTid ELSE 0
    PROVE  /\ tid' \in Word16
           /\ backend = "tcp" /\ Len(script) < 65536 =>
                 tid \in Nat /\ tid' \in Nat /\ tid' = tid + 1 /\ tid' <= made + 1
<1>1. tid \in Nat /\ tid <= 65535 /\ 0 \in Word16 /\ made \in Nat /\ Len(script) \in Nat
    BY Numbers, ScriptFacts DEF CallInv
<1>2. tid' \in Nat /\ tid' <= 65535
    BY <1>1 DEF NextTid
<1>3. ASSUME backend = "tcp", Len(script) < 65536
      PROVE  tid' = tid + 1 /\ tid' <= made + 1
  <2>1. tid <= made
    BY <1>3 DEF CallInv
  <2>2. QED
    BY <1>1, <1>3, <2>1 DEF NextTid
<1>4. QED
    BY <1>1, <1>2, <1>3, Numbers

LEMMA Asks ==
    ASSUME NEW c, CallOK(c), ~TooMany(c), NEW s \in Int, NEW t \in Word16, NEW n \in Nat
    PROVE  [m |-> Request(s, t, c), of |-> n] \in Envelope
<1>1. c.fn \in {1, 2, 3, 4, 5, 6, 15, 16, 17, 22, 23}
    BY CallFacts
<1>2. c.fn \in Nat
    BY <1>1
<1>3. t \in Nat
    BY Numbers
<1>4. RequestData(c) \in Seq(Byte)
    BY RequestLength
<1>5. Request(s, t, c) \in Message
    BY <1>2, <1>3, <1>4 DEF Request, Message
<1>6. QED
    BY <1>5 DEF Envelope

-----------------------------------------------------------------------------
(* The invariant holds initially and is kept, action by action.            *)

LEMMA StartOK ==
    ASSUME backend \in DOMAIN Backend
    PROVE  /\ Start \in [step : {"function", "meta", "data"}, length : Nat, left : Nat]
           /\ Start.left > 0 /\ Start.length + Start.left <= Backend[backend].max_adu
<1>1. FirstLength(backend) \in Nat /\ FirstLength(backend) > 0
      /\ FirstLength(backend) <= Backend[backend].max_adu
  <2>1. backend = "rtu" \/ backend = "tcp" \/ backend = "rtutcp"
    BY Backends
  <2>2. QED
    BY <2>1, Backends DEF FirstLength
<1>2. QED
    BY <1>1 DEF Start

LEMMA ModInit == Init => ModInv
<1> SUFFICES ASSUME Init
             PROVE  ModInv
    OBVIOUS
<1>1. FixedOK
    BY DEF Init, FixedOK
<1>2. CallInv
  <2>1. Len(script) \in Nat
    BY <1>1, ScriptFacts
  <2>2. 0 \in Word16
    BY Numbers
  <2>3. /\ slave \in Int /\ slave >= -1 /\ (slave <= 247 \/ slave = 255)
        /\ backend = "rtu" => slave # 255
    BY DEF Init, MODBUS_TCP_SLAVE
  <2>4. tid = 0 /\ link = "closed" /\ made = 0 /\ waiting = FALSE /\ ignore = FALSE
    BY DEF Init
  <2>5. ~(waiting) /\ ~(made > 0) /\ tid <= made /\ made <= Len(script) /\ made \in Nat
    BY <2>1, <2>4
  <2>6. tid \in Word16 /\ waiting \in BOOLEAN /\ ignore \in BOOLEAN /\ ~ignore
    BY <2>2, <2>4
  <2>7. QED
    BY <2>3, <2>4, <2>5, <2>6 DEF CallInv
<1>3. ReadingOK /\ Partly
  <2>1. backend \in DOMAIN Backend /\ reading = Start /\ reading.length = 0
    BY DEF Init, Start
  <2>2. QED
    BY <2>1, StartOK DEF ReadingOK, Partly
<1>4. OutcomeOK
    BY DEF Init, OutcomeOK, Nothing
<1>5. Requests /\ AnswersOK
  <2>1. toServer = <<>> /\ wire = <<>>
    BY DEF Init
  <2>2. QED
    BY <2>1, NoElems DEF Requests, AnswersOK
<1>6. MemoryOK(memory)
    BY ModbusAssumption DEF Init
<1>7. QED
    BY <1>1, <1>2, <1>3, <1>4, <1>5, <1>6 DEF ModInv

(* Parts of the invariant an action leaves alone.                          *)
LEMMA Alike ==
    ASSUME ModInv
    PROVE  /\ UNCHANGED <<backend, script>> => FixedOK'
           /\ UNCHANGED <<backend, script, slave, tid, link, made, waiting, ignore>> => CallInv'
           /\ UNCHANGED <<backend, reading>> => ReadingOK'
           /\ backend' = backend /\ reading' = Start => ReadingOK' /\ Partly'
           /\ UNCHANGED <<reading, waiting>> /\ (wire # <<>> => wire' # <<>>) => Partly'
           /\ UNCHANGED reading /\ ~waiting => Partly'
           /\ UNCHANGED outcome => OutcomeOK'
           /\ outcome' = Failed => OutcomeOK'
           /\ UNCHANGED memory => MemoryOK(memory)'
<1>1. UNCHANGED <<backend, script>> => FixedOK'
    BY DEF ModInv, FixedOK
<1>2. UNCHANGED <<backend, script, slave, tid, link, made, waiting, ignore>> => CallInv'
    BY DEF ModInv, CallInv, SlaveTaken
<1>3. UNCHANGED <<backend, reading>> => ReadingOK'
    BY DEF ModInv, ReadingOK
<1>4. backend' = backend /\ reading' = Start => ReadingOK' /\ Partly'
    BY StartOK DEF ModInv, ReadingOK, FixedOK, Partly, Start
<1>5. UNCHANGED <<reading, waiting>> /\ (wire # <<>> => wire' # <<>>) => Partly'
    BY DEF ModInv, Partly
<1>6. UNCHANGED reading /\ ~waiting => Partly'
    BY DEF ModInv, Partly
<1>7. UNCHANGED outcome => OutcomeOK'
    BY DEF ModInv, OutcomeOK
<1>8. outcome' = Failed => OutcomeOK'
    BY DEF OutcomeOK, Failed
<1>9. UNCHANGED memory => MemoryOK(memory)'
    BY DEF ModInv, MemoryOK
<1>10. QED
    BY <1>1, <1>2, <1>3, <1>4, <1>5, <1>6, <1>7, <1>8, <1>9

LEMMA OnLine ==
    ASSUME ModInv
    PROVE  /\ toServer \in Seq(Envelope) /\ wire \in Seq(Answer)
           /\ <<>> \in Seq(Envelope) /\ <<>> \in Seq(Answer)
           /\ Elems(<<>>) \subseteq Elems(toServer) /\ Elems(<<>>) \subseteq Elems(wire)
BY NoElems DEF ModInv, Requests, AnswersOK

LEMMA KeepConnect == ModInv /\ (Connect \/ Close) => ModInv'
<1> SUFFICES ASSUME ModInv, Connect \/ Close
             PROVE  ModInv'
    OBVIOUS
<1>1. UNCHANGED <<fixed, slave, tid, made, waiting, reading, outcome, serverVars>>
      /\ link' \in {"closed", "up", "dead"}
      /\ (toServer' = toServer \/ toServer' = <<>>) /\ (wire' = wire \/ wire' = <<>>)
    BY DEF Connect, Close, lineVars
<1>2. UNCHANGED <<backend, script, slave, tid, made, waiting, reading, outcome, memory, ignore>>
    BY <1>1 DEF fixed, serverVars
<1>3. CallInv'
    BY <1>1, <1>2 DEF ModInv, CallInv, SlaveTaken
<1>4. Requests /\ AnswersOK /\ UNCHANGED <<backend, script, made, tid>> /\ (waiting' => waiting)
    BY <1>2 DEF ModInv
<1>5. toServer' \in Seq(Envelope) /\ Elems(toServer') \subseteq Elems(toServer)
    BY <1>1, OnLine
<1>6. wire' \in Seq(Answer) /\ Elems(wire') \subseteq Elems(wire)
    BY <1>1, OnLine
<1>7. Requests' /\ AnswersOK'
    BY <1>4, <1>5, <1>6, StillOK
<1>8. Partly'
    BY <1>2, Alike DEF Connect, Close, lineVars
<1>9. QED
    BY <1>2, <1>3, <1>7, <1>8, Alike DEF ModInv

LEMMA KeepCallRefused == ModInv /\ CallRefused => ModInv'
<1> SUFFICES ASSUME ModInv, CallRefused
             PROVE  ModInv'
    OBVIOUS
<1>1. /\ Calling /\ ~waiting /\ outcome' = Failed
      /\ UNCHANGED <<backend, script, tid, link, waiting, reading, toServer, wire, memory, ignore>>
    BY DEF CallRefused, Calling, fixed, lineVars, serverVars
<1>2. FixedOK /\ CallInv /\ Requests /\ AnswersOK
    BY DEF ModInv
<1>3. tid \in Nat /\ made \in Nat
    BY <1>2, Numbers DEF CallInv
<1>4. CallInv'
    BY <1>1, <1>2, <1>3, CallMade DEF CallInv, SlaveTaken
<1>5. made' = made + 1
    BY <1>1 DEF Calling
<1>6. Requests' /\ AnswersOK'
  <2>1. /\ \A e \in Elems(toServer) : RequestOK(e)'
        /\ \A w \in Elems(wire) : AnswerOK(w)'
    BY <1>1, <1>2, <1>3, <1>5, Earlier
  <2>2. QED
    BY <1>1, <1>2, <2>1 DEF Requests, AnswersOK
<1>7. QED
    BY <1>1, <1>4, <1>6, Alike DEF ModInv

(* The request of the call goes behind those still under way.              *)
LEMMA Requested ==
    ASSUME ModInv, Calling, ~TooMany(script[made + 1]), UNCHANGED <<backend, script>>,
           tid' = IF backend = "tcp" THEN NextTid ELSE 0, waiting',
           NEW q \in Seq(Envelope), Elems(q) \subseteq Elems(toServer),
           toServer' = Append(q, [m |-> Request(slave', tid', script[made + 1]), of |-> made'])
    PROVE  Requests'
<1>1. FixedOK /\ CallInv /\ Requests /\ AnswersOK /\ made < Len(script)
    BY DEF ModInv, Calling
<1>2. /\ made' \in Nat /\ made' \in 1..Len(script) /\ made' = made + 1
      /\ CallOK(script[made']) /\ slave' \in Int
      /\ SlaveTaken(script[made'].slave) => slave' = script[made'].slave
    BY <1>1, CallMade
<1>3. /\ tid' \in Word16
      /\ backend = "tcp" /\ Len(script) < 65536 =>
            tid \in Nat /\ tid' \in Nat /\ tid' = tid + 1 /\ tid' <= made + 1
    BY <1>1, TidMade
<1>4. made \in Nat
    BY <1>1 DEF CallInv
<1>5. PICK s \in Int : s = slave'
    BY <1>2
<1>6. PICK t \in Word16 : t = tid'
    BY <1>3
<1>7. PICK n \in Nat : n = made'
    BY <1>2
<1>8. PICK c : c = script[made']
    OBVIOUS
<1>9. c = script[made'] /\ s = slave' /\ t = tid' /\ n = made'
    BY <1>5, <1>6, <1>7, <1>8
<1>10. CallOK(c) /\ ~TooMany(c) /\ n \in 1..Len(script)
    BY <1>2, <1>9
<1> DEFINE e == [m |-> Request(s, t, c), of |-> n]
<1>11. e \in Envelope
    BY <1>10, Asks
<1>12. e.of = n /\ e.m.slave = s /\ e.m.tid = t /\ e.m = Request(s, t, c)
    BY DEF Request
<1>13. toServer' = Append(q, e)
    BY <1>2, <1>9
<1> HIDE DEF e
<1>14. RequestOK(e)'
  <2>1. script'[n] = c /\ n \in 1..made' /\ n = made' /\ t <= tid'
    <3>1. t \in Nat
      BY Numbers
    <3>2. QED
      BY <1>2, <1>9, <3>1
  <2>2. ~TooMany(script'[n]) /\ (SlaveTaken(script[n].slave)' => s = script'[n].slave)
    BY <1>2, <1>9, <1>10, <2>1 DEF SlaveTaken
  <2>3. MadeFor(e.m, e.of)'
    BY <1>12, <2>1, <2>2 DEF MadeFor
  <2>4. QED
    BY <1>11, <1>12, <2>1, <2>3 DEF RequestOK
<1>15. \A x \in Elems(toServer) : RequestOK(x)'
  <2>1. backend = "tcp" /\ Len(script) < 65536 =>
            tid \in Nat /\ tid' \in Nat /\ tid <= tid' /\ (waiting' => tid < tid')
    BY <1>3
  <2>2. QED
    BY <1>1, <1>2, <1>4, <2>1, Earlier
<1>16. Append(q, e) \in Seq(Envelope) /\ Elems(Append(q, e)) \subseteq Elems(q) \cup {e}
    BY <1>11, OneMore
<1>17. QED
    BY <1>13, <1>14, <1>15, <1>16 DEF Requests

LEMMA KeepSend == ModInv /\ Send => ModInv'
<1> SUFFICES ASSUME ModInv, Send
             PROVE  ModInv'
    OBVIOUS
<1>1. /\ Calling /\ ~waiting /\ made < Len(script) /\ ~TooMany(script[made + 1]) /\ waiting' = TRUE
      /\ tid' = IF backend = "tcp" THEN NextTid ELSE 0
      /\ toServer' = Append(toServer, [m |-> Request(slave', tid', script[made + 1]), of |-> made'])
      /\ reading' = Start
      /\ UNCHANGED <<backend, script, link, outcome, wire, memory, ignore>>
    BY DEF Send, Calling, fixed, serverVars
<1>2. FixedOK /\ CallInv /\ Requests /\ AnswersOK /\ toServer \in Seq(Envelope)
    BY DEF ModInv, Requests
<1>3. made \in Nat
    BY <1>2 DEF CallInv
<1>4. Requests'
    BY <1>1, <1>2, Requested
<1>5. /\ tid' \in Word16
      /\ backend = "tcp" /\ Len(script) < 65536 =>
            tid \in Nat /\ tid' \in Nat /\ tid' = tid + 1 /\ tid' <= made + 1
    BY <1>1, <1>2, TidMade
<1>6. made' = made + 1
    BY <1>1 DEF Calling
<1>7. AnswersOK'
  <2>1. \A w \in Elems(wire) : AnswerOK(w)'
    BY <1>1, <1>2, <1>3, <1>5, <1>6, Earlier
  <2>2. QED
    BY <1>1, <1>2, <2>1 DEF AnswersOK
<1>8. CallInv'
    BY <1>1, <1>2, <1>3, <1>5, <1>6, CallMade DEF CallInv, SlaveTaken
<1>9. QED
    BY <1>1, <1>4, <1>7, <1>8, Alike DEF ModInv

LEMMA KeepSendFails == ModInv /\ SendFails => ModInv'
<1> SUFFICES ASSUME ModInv, SendFails
             PROVE  ModInv'
    OBVIOUS
<1>1. /\ Calling /\ ~waiting /\ made < Len(script) /\ ~TooMany(script[made + 1])
      /\ tid' = IF backend = "tcp" THEN NextTid ELSE 0
      /\ UNCHANGED <<backend, script, memory, ignore>>
    BY DEF SendFails, Calling, fixed, serverVars
<1>2. FixedOK /\ CallInv /\ Requests /\ AnswersOK
      /\ toServer \in Seq(Envelope) /\ wire \in Seq(Answer)
    BY DEF ModInv, Requests, AnswersOK
<1>3. made \in Nat
    BY <1>2 DEF CallInv
<1>4. /\ tid' \in Word16
      /\ backend = "tcp" /\ Len(script) < 65536 =>
            tid \in Nat /\ tid' \in Nat /\ tid' = tid + 1 /\ tid' <= made + 1
    BY <1>1, <1>2, TidMade
<1>5. made' = made + 1
    BY <1>1 DEF Calling
<1>6. /\ \A e \in Elems(toServer) : RequestOK(e)'
      /\ \A w \in Elems(wire) : AnswerOK(w)'
    BY <1>1, <1>2, <1>3, <1>4, <1>5, Earlier
<1>7. CASE "link" \in recovery
  <2>1. /\ link' = "up" /\ wire' = <<>> /\ waiting' = TRUE /\ reading' = Start
        /\ toServer' = Append(IF backend = "tcp" THEN <<>> ELSE toServer,
                              [m |-> Request(slave', tid', script[made + 1]), of |-> made'])
        /\ outcome' = outcome
    BY <1>7 DEF SendFails
  <2>2. PICK q \in Seq(Envelope) :
            q = (IF backend = "tcp" THEN <<>> ELSE toServer) /\ Elems(q) \subseteq Elems(toServer)
    BY <1>2, OnLine
  <2>3. Requests'
    BY <1>1, <2>1, <2>2, Requested
  <2>4. AnswersOK'
    BY <2>1, NoElems DEF AnswersOK
  <2>5. CallInv'
    BY <1>1, <1>2, <1>3, <1>4, <1>5, <2>1, CallMade DEF CallInv, SlaveTaken
  <2>6. QED
    BY <1>1, <2>1, <2>3, <2>4, <2>5, Alike DEF ModInv
<1>8. CASE "link" \notin recovery
  <2>1. outcome' = Failed /\ UNCHANGED <<link, waiting, reading, toServer, wire>>
    BY <1>8 DEF SendFails, lineVars
  <2>2. Requests' /\ AnswersOK'
    BY <1>2, <1>6, <2>1 DEF Requests, AnswersOK
  <2>3. CallInv'
    BY <1>1, <1>2, <1>3, <1>4, <1>5, <2>1, CallMade DEF CallInv, SlaveTaken
  <2>4. QED
    BY <1>1, <2>1, <2>2, <2>3, Alike DEF ModInv
<1>9. QED
    BY <1>7, <1>8

(* The request the server reads.                                           *)
LEMMA ServerReads ==
    ASSUME ModInv, toServer # <<>>
    PROVE  /\ request \in Elems(toServer) /\ RequestOK(request) /\ request \in Envelope
           /\ request = toServer[1]
           /\ Tail(toServer) \in Seq(Envelope) /\ Elems(Tail(toServer)) \subseteq Elems(toServer)
           /\ request.of \in 1..Len(script)
           /\ LET c == script[request.of] IN
              /\ CallOK(c) /\ ~TooMany(c)
              /\ request.m.fn = c.fn /\ request.m.data = RequestData(c) /\ request.m.crc
<1>1. FixedOK /\ CallInv /\ Requests
    BY DEF ModInv
<1>2. /\ request \in Elems(toServer) /\ request = toServer[1]
      /\ Tail(toServer) \in Seq(Envelope) /\ Elems(Tail(toServer)) \subseteq Elems(toServer)
    BY <1>1, FirstElem DEF Requests, request
<1>3. RequestOK(request)
    BY <1>1, <1>2 DEF Requests
<1>4. request.of \in 1..made /\ ~TooMany(script[request.of]) /\ request \in Envelope
      /\ request.m = Request(request.m.slave, request.m.tid, script[request.of])
    BY <1>3 DEF RequestOK, MadeFor
<1>5. request.of \in 1..Len(script)
    BY <1>1, <1>4, ScriptFacts DEF CallInv
<1>6. CallOK(script[request.of])
    BY <1>1, <1>5, ScriptFacts
<1> HIDE DEF request
<1>7. /\ request.m.fn = script[request.of].fn /\ request.m.crc
      /\ request.m.data = RequestData(script[request.of])
    BY <1>4 DEF Request
<1>8. QED
    BY <1>2, <1>3, <1>4, <1>5, <1>6, <1>7

(* What is on the wire after Serve: what was there, and maybe one answer,  *)
(* to the request that was read.                                           *)
LEMMA Served ==
    ASSUME ModInv, Serve
    PROVE  LET c == script[request.of] IN
           /\ UNCHANGED <<backend, script, slave, tid, link, made, waiting, reading, outcome, ignore>>
           /\ toServer # <<>> /\ (toServer' = <<>> \/ toServer' = Tail(toServer))
           /\ MemoryOK(memory)'
           /\ \E d \in Seq(Answer) :
                /\ wire' = wire \/ wire' = wire \o d
                /\ \A w \in Elems(d) : /\ w.of = request.of
                                       /\ w.m.tid = request.m.tid /\ w.m.slave = request.m.slave
                                       /\ AnswerTo(w.m, c, w.seen)
                                       /\ backend = "tcp" => w.m.crc
                                       /\ w.m.fn = c.fn => Shows(memory', c)
<1> DEFINE reply == modbus_reply(request.m, memory, Size)
           c == script[request.of]
<1>1. UNCHANGED <<backend, script, slave, tid, link, made, waiting, reading, outcome, ignore>>
    BY DEF Serve, fixed, clientVars
<1>2. /\ toServer # <<>> /\ (toServer' = <<>> \/ toServer' = Tail(toServer))
      /\ memory' = reply.memory
      /\ \E d \in Delivered(Answers(request, reply)) : wire' = wire \/ wire' = wire \o d
    BY DEF Serve
<1>3. /\ request \in Envelope /\ CallOK(c) /\ ~TooMany(c)
      /\ request.m.fn = c.fn /\ request.m.data = RequestData(c) /\ request.m.crc
    BY <1>2, ServerReads
<1>4. MemoryOK(memory)
    BY DEF ModInv
<1> HIDE DEF c
<1>5. /\ MemoryOK(reply.memory)
      /\ \E a \in Answer : /\ Answers(request, reply) = <<a>>
                           /\ Sent(a, request, a.m) /\ AnswerTo(a.m, c, a.seen)
                           /\ a.m.fn = c.fn => Shows(reply.memory, c)
    BY <1>3, <1>4, Replied
<1> HIDE DEF reply
<1>6. PICK a \in Answer : /\ Answers(request, reply) = <<a>>
                          /\ Sent(a, request, a.m) /\ AnswerTo(a.m, c, a.seen)
                          /\ a.m.fn = c.fn => Shows(reply.memory, c)
    BY <1>5
<1>7. PICK d \in Delivered(<<a>>) : wire' = wire \/ wire' = wire \o d
    BY <1>2, <1>6
<1>8. /\ a.of = request.of /\ a.m.tid = request.m.tid /\ a.m.slave = request.m.slave
      /\ a.m.crc = request.m.crc
    BY <1>6 DEF Sent
<1>9. d \in Seq(Answer) /\ \A w \in Elems(d) :
                              /\ w.of = request.of
                              /\ w.m.tid = request.m.tid /\ w.m.slave = request.m.slave
                              /\ AnswerTo(w.m, c, w.seen)
                              /\ backend = "tcp" => w.m.crc
                              /\ w.m.fn = c.fn => Shows(memory', c)
  <2>1. CASE d = <<>>
    BY <2>1, NoElems
  <2>2. CASE \E w \in Answer :
                /\ d = <<w>> /\ w.of = a.of /\ w.m.fn = a.m.fn /\ w.m.tid = a.m.tid
                /\ w.m.slave = a.m.slave /\ AnswerTo(w.m, c, w.seen)
                /\ backend = "tcp" => w = a
    <3>1. PICK w \in Answer :
                /\ d = <<w>> /\ w.of = a.of /\ w.m.fn = a.m.fn /\ w.m.tid = a.m.tid
                /\ w.m.slave = a.m.slave /\ AnswerTo(w.m, c, w.seen)
                /\ backend = "tcp" => w = a
      BY <2>2
    <3>2. d \in Seq(Answer) /\ Elems(d) = {w}
      BY <3>1, Alone
    <3>3. backend = "tcp" => w.m.crc
      BY <1>3, <1>8, <3>1
    <3>4. w.m.fn = c.fn => Shows(memory', c)
      BY <1>2, <1>6, <3>1
    <3>5. QED
      BY <1>8, <3>1, <3>2, <3>3, <3>4
  <2>3. QED
    BY <1>3, <1>6, <2>1, <2>2, Arrived
<1>10. MemoryOK(memory)'
    BY <1>2, <1>5 DEF MemoryOK
<1>11. QED
    BY <1>1, <1>2, <1>7, <1>9, <1>10 DEF c

LEMMA KeepServe == ModInv /\ Serve => ModInv'
<1> SUFFICES ASSUME ModInv, Serve
             PROVE  ModInv'
    OBVIOUS
<1>1. /\ UNCHANGED <<backend, script, slave, tid, link, made, waiting, reading, outcome, ignore>>
      /\ toServer # <<>> /\ (toServer' = <<>> \/ toServer' = Tail(toServer))
      /\ MemoryOK(memory)'
    BY Served
<1>2. PICK d \in Seq(Answer) :
          /\ wire' = wire \/ wire' = wire \o d
          /\ \A w \in Elems(d) : /\ w.of = request.of
                                 /\ w.m.tid = request.m.tid /\ w.m.slave = request.m.slave
                                 /\ AnswerTo(w.m, script[request.of], w.seen)
                                 /\ backend = "tcp" => w.m.crc
    BY Served
<1>3. /\ RequestOK(request) /\ Tail(toServer) \in Seq(Envelope)
      /\ Elems(Tail(toServer)) \subseteq Elems(toServer)
    BY <1>1, ServerReads
<1>4. Requests /\ AnswersOK /\ wire \in Seq(Answer)
    BY DEF ModInv, AnswersOK
<1>5. \A w \in Elems(d) : AnswerOK(w)
  <2> SUFFICES ASSUME NEW w \in Elems(d)
               PROVE  AnswerOK(w)
    OBVIOUS
  <2>1. w \in Answer
    BY DEF Elems
  <2>2. MadeFor(w.m, w.of)
    BY <1>2, <1>3 DEF RequestOK, MadeFor
  <2>3. AnswerTo(w.m, script[w.of], w.seen) /\ (backend = "tcp" => w.m.crc)
    BY <1>2
  <2>4. QED
    BY <2>1, <2>2, <2>3 DEF AnswerOK
<1>6. Requests'
    BY <1>1, <1>3, <1>4, OnLine, StillOK
<1>7. AnswersOK'
  <2>1. \A w \in Elems(wire) \cup Elems(d) : AnswerOK(w)'
    BY <1>1, <1>4, <1>5, Steady DEF AnswersOK
  <2>2. wire \o d \in Seq(Answer) /\ Elems(wire \o d) \subseteq Elems(wire) \cup Elems(d)
    BY <1>4, Both
  <2>3. QED
    BY <1>2, <1>4, <2>1, <2>2 DEF AnswersOK
<1>8. wire # <<>> => wire' # <<>>
  <2>1. wire # <<>> => wire \o d # <<>>
    BY <1>4
  <2>2. QED
    BY <1>2, <2>1
<1>9. QED
    BY <1>1, <1>6, <1>7, <1>8, Alike DEF ModInv

LEMMA KeepServeNot ==
    ModInv /\ (ServeNot \/ IgnoreMessage \/ IgnoreTimeout \/ RequestLost) => ModInv'
<1> SUFFICES ASSUME ModInv, ServeNot \/ IgnoreMessage \/ IgnoreTimeout \/ RequestLost
             PROVE  ModInv'
    OBVIOUS
<1>1. /\ UNCHANGED <<backend, script, slave, tid, link, made, waiting, reading, outcome, wire, memory>>
      /\ ignore' \in BOOLEAN /\ (ignore' => backend = "rtu")
  <2>1. CASE ServeNot
    BY <2>1 DEF ServeNot, fixed, clientVars
  <2>2. CASE IgnoreMessage
    BY <2>2 DEF IgnoreMessage, fixed, clientVars
  <2>3. CASE IgnoreTimeout
    BY <2>3 DEF IgnoreTimeout, fixed, clientVars, lineVars
  <2>4. CASE RequestLost
    BY <2>4 DEF RequestLost, fixed, clientVars, serverVars, ModInv, CallInv
  <2>5. QED
    BY <2>1, <2>2, <2>3, <2>4
<1>2. CallInv'
    BY <1>1 DEF ModInv, CallInv, SlaveTaken
<1>3. toServer \in Seq(Envelope)
    BY DEF ModInv, Requests
<1>4. toServer' \in Seq(Envelope) /\ Elems(toServer') \subseteq Elems(toServer)
  <2>1. CASE ServeNot \/ RequestLost
    <3>1. toServer # <<>> /\ toServer' = Tail(toServer)
      BY <2>1 DEF ServeNot, RequestLost
    <3>2. QED
      BY <3>1, <1>3, FirstElem
  <2>2. CASE IgnoreMessage
    BY <1>3, <2>2, Part DEF IgnoreMessage
  <2>3. CASE IgnoreTimeout
    BY <1>3, <2>3 DEF IgnoreTimeout, lineVars
  <2>4. QED
    BY <2>1, <2>2, <2>3
<1>5. Requests /\ AnswersOK /\ UNCHANGED <<backend, script, made, tid>> /\ (waiting' => waiting)
    BY <1>1 DEF ModInv
<1>6. Requests'
    BY <1>4, <1>5, StillOK
<1>7. AnswersOK'
  <2>1. wire' \in Seq(Answer) /\ Elems(wire') \subseteq Elems(wire)
    BY <1>1, OnLine
  <2>2. QED
    BY <1>5, <2>1, StillOK
<1>8. QED
    BY <1>1, <1>2, <1>6, <1>7, Alike DEF ModInv

(* The answer the client reads.                                            *)
LEMMA ClientReads ==
    ASSUME ModInv, wire # <<>>
    PROVE  LET w == Head(wire) IN
           /\ w \in Elems(wire) /\ AnswerOK(w) /\ w \in Answer /\ w.m \in Message
           /\ Tail(wire) \in Seq(Answer) /\ Elems(Tail(wire)) \subseteq Elems(wire)
           /\ w.of \in 1..Len(script) /\ CallOK(script[w.of])
           /\ AnswerTo(w.m, script[w.of], w.seen)
           /\ Len(w.m.data) >= 1 /\ Len(w.m.data) <= 251
<1> DEFINE w == Head(wire)
<1>1. FixedOK /\ CallInv /\ AnswersOK
    BY DEF ModInv
<1>2. /\ w \in Elems(wire)
      /\ Tail(wire) \in Seq(Answer) /\ Elems(Tail(wire)) \subseteq Elems(wire)
    BY <1>1, FirstElem DEF AnswersOK
<1>3. AnswerOK(w)
    BY <1>1, <1>2 DEF AnswersOK
<1> HIDE DEF w
<1>4. w.of \in 1..made /\ w \in Answer /\ w.m \in Message /\ AnswerTo(w.m, script[w.of], w.seen)
    BY <1>3 DEF AnswerOK, MadeFor, Answer
<1>5. w.of \in 1..Len(script)
    BY <1>1, <1>4, ScriptFacts DEF CallInv
<1>6. CallOK(script[w.of])
    BY <1>1, <1>5, ScriptFacts
<1>7. Len(w.m.data) >= 1 /\ Len(w.m.data) <= 251
    BY <1>4, <1>6, AnswerLengthBound
<1>8. QED
    BY <1>2, <1>3, <1>4, <1>5, <1>6, <1>7 DEF w

(* How much is left to read never depends on more than the first byte.     *)
LEMMA Advanced ==
    ASSUME backend \in DOMAIN Backend, NEW m \in Message, Len(m.data) >= 1,
           NEW r \in [step : {"function", "meta", "data"}, length : Nat, left : Nat]
    PROVE  /\ Advance(r, m) \in [step : {"function", "meta", "data"}, length : Nat, left : Nat]
           /\ Advance(r, m).length = r.length
<1>1. PICK n \in Nat : n = compute_meta_length_after_function(m.fn, "confirmation")
  <2>1. compute_meta_length_after_function(m.fn, "confirmation") \in {1, 4, 6}
    BY DEF compute_meta_length_after_function
  <2>2. QED
    BY <2>1
<1>2. PICK k \in Nat : k = compute_data_length_after_meta(backend, m, "confirmation")
  <2>1. m.data[1] \in Nat
    BY DEF Message, Byte
  <2>2. Backend[backend].checksum \in Nat
    BY Backends
  <2>3. compute_data_length_after_meta(backend, m, "confirmation") \in
            {Backend[backend].checksum + m.data[1], Backend[backend].checksum + 0}
    BY DEF compute_data_length_after_meta
  <2>4. QED
    BY <2>1, <2>2, <2>3
<1>3. CASE r.left # 0
    BY <1>3 DEF Advance
<1>4. CASE r.left = 0 /\ r.step = "function"
  <2>1. Advance(r, m) = [r EXCEPT !.step = "meta", !.left = n]
    BY <1>1, <1>4 DEF Advance
  <2>2. QED
    BY <2>1
<1>5. CASE r.left = 0 /\ r.step = "meta"
  <2>1. Advance(r, m) = [r EXCEPT !.step = "data", !.left = k]
    BY <1>2, <1>5 DEF Advance
  <2>2. QED
    BY <2>1
<1>6. CASE r.left = 0 /\ r.step = "data"
    BY <1>6 DEF Advance
<1>7. QED
    BY <1>3, <1>4, <1>5, <1>6

(* The client's reading with k bytes more.                                 *)
Longer(k) == [reading EXCEPT !.length = reading.length + k, !.left = reading.left - k]

LEMMA MorePieces ==
    ASSUME ModInv, NEW k \in Pieces(reading.left)
    PROVE  LET r == Longer(k) IN
           /\ r \in [step : {"function", "meta", "data"}, length : Nat, left : Nat]
           /\ r.length > 0
<1>1. reading \in [step : {"function", "meta", "data"}, length : Nat, left : Nat] /\ reading.left > 0
    BY DEF ModInv, ReadingOK
<1>2. PICK n \in Nat : n = reading.left /\ n > 0
    BY <1>1
<1>3. k = n \/ k = (n + 1) \div 2
    BY <1>2 DEF Pieces
<1>4. k \in Nat /\ n - k \in Nat /\ k > 0
    BY <1>2, <1>3
<1>5. reading.length + k \in Nat /\ reading.left - k \in Nat /\ reading.length + k > 0
    BY <1>1, <1>2, <1>4
<1>6. QED
    BY <1>1, <1>5 DEF Longer

LEMMA KeepReceive ==
    ASSUME ModInv, NEW k \in Pieces(reading.left), Receive(k)
    PROVE  ModInv'
<1> DEFINE s == Longer(k)
           r == Advance(s, Head(wire).m)
<1>1. wire # <<>> /\ r.left > 0 /\ ~TooLong(r) /\ reading' = r
    BY DEF Receive, Longer
<1>2. UNCHANGED <<backend, script, slave, tid, link, made, waiting, outcome, toServer, wire, memory,
                  ignore>>
    BY DEF Receive, fixed, lineVars, serverVars
<1>3. s \in [step : {"function", "meta", "data"}, length : Nat, left : Nat]
    BY MorePieces
<1>4. Head(wire).m \in Message /\ Len(Head(wire).m.data) >= 1
    BY <1>1, ClientReads
<1>5. backend \in DOMAIN Backend
    BY DEF ModInv, FixedOK
<1> HIDE DEF s
<1>6. r \in [step : {"function", "meta", "data"}, length : Nat, left : Nat]
    BY <1>3, <1>4, <1>5, Advanced
<1> HIDE DEF r
<1>7. r.length + r.left <= Backend[backend].max_adu
  <2>1. Backend[backend].max_adu \in Nat /\ r.length \in Nat /\ r.left \in Nat
    BY <1>5, <1>6, Backends
  <2>2. QED
    BY <1>1, <2>1 DEF TooLong
<1>8. ReadingOK'
    BY <1>1, <1>2, <1>6, <1>7 DEF ReadingOK
<1>9. Requests /\ AnswersOK /\ UNCHANGED <<backend, script, made, tid>> /\ (waiting' => waiting)
    BY <1>2 DEF ModInv
<1>10. Requests' /\ AnswersOK'
  <2>1. toServer' \in Seq(Envelope) /\ Elems(toServer') \subseteq Elems(toServer)
    BY <1>2, OnLine
  <2>2. wire' \in Seq(Answer) /\ Elems(wire') \subseteq Elems(wire)
    BY <1>2, OnLine
  <2>3. QED
    BY <1>9, <2>1, <2>2, StillOK
<1>11. Partly'
    BY <1>1, <1>2 DEF Receive, Partly
<1>12. QED
    BY <1>2, <1>8, <1>10, <1>11, Alike DEF ModInv

-----------------------------------------------------------------------------
(* What the client takes for the answer to its call.                       *)

LEMMA AskedIs ==
    ASSUME NEW c, CallOK(c), ~TooMany(c), NEW s, NEW t
    PROVE  LET n == Asked(Request(s, t, c)) IN
           /\ c.fn \in {1, 2} => n = ByteCount(c.nb)
           /\ c.fn \in {3, 4, 15, 16, 23} => n = c.nb
           /\ c.fn \in {5, 6, 22} => n = 1
<1> DEFINE req == Request(s, t, c)
<1>1. req.fn = c.fn /\ req.data = RequestData(c)
    BY DEF Request
<1> HIDE DEF req
<1>2. CASE c.fn \in {1, 2}
  <2>1. Word(req.data, 3) = c.nb
    BY <1>1, <1>2, ReadRequest
  <2>2. /\ req.fn \in ReadBits
        /\ req.fn \notin ReadRegisters \cup WriteMultiple \cup {FC.WRITE_AND_READ_REGISTERS}
    BY <1>1, <1>2, FunctionNumbers
  <2>3. QED
    BY <1>2, <2>1, <2>2 DEF Asked, req
<1>3. CASE c.fn \in {3, 4, 15, 16, 23}
  <2>1. Word(req.data, 3) = c.nb
    BY <1>1, <1>3, ReadRequest, CoilsRequest, RegistersRequest, BothRequest
  <2>2. /\ req.fn \notin ReadBits
        /\ req.fn \in ReadRegisters \cup WriteMultiple \cup {FC.WRITE_AND_READ_REGISTERS}
    BY <1>1, <1>3, FunctionNumbers
  <2>3. QED
    BY <1>3, <2>1, <2>2 DEF Asked, req
<1>4. CASE c.fn \in {5, 6, 22}
  <2>1. /\ req.fn \notin ReadBits
        /\ req.fn \notin ReadRegisters \cup WriteMultiple \cup {FC.WRITE_AND_READ_REGISTERS}
    BY <1>1, <1>4, FunctionNumbers
  <2>2. QED
    BY <1>4, <2>1 DEF Asked, req
<1>5. CASE c.fn = 17
    BY <1>5
<1>6. QED
    BY <1>2, <1>3, <1>4, <1>5, CallFacts

LEMMA ComputedLength ==
    ASSUME NEW b \in DOMAIN Backend, NEW c, CallOK(c), ~TooMany(c), c.fn # 17, NEW s, NEW t
    PROVE  LET n == compute_response_length_from_request(b, Request(s, t, c)) IN
           n \in Nat /\ n > 0
<1> DEFINE req == Request(s, t, c)
           x == CASE req.fn \in ReadBits -> 2 + ByteCount(Word(req.data, 3))
                  [] req.fn \in ReadRegisters \cup {FC.WRITE_AND_READ_REGISTERS} ->
                        2 + 2 * Word(req.data, 3)
                  [] req.fn = FC.READ_EXCEPTION_STATUS -> 3
                  [] req.fn = FC.MASK_WRITE_REGISTER -> 7
                  [] OTHER -> 5
<1>1. req.fn = c.fn /\ req.data = RequestData(c)
    BY DEF Request
<1> HIDE DEF req
<1>2. compute_response_length_from_request(b, req) = Backend[b].header + Backend[b].checksum + x
    BY <1>1, FunctionNumbers DEF compute_response_length_from_request
<1>3. x \in Nat
  <2>1. CASE c.fn \in {1, 2}
    <3>1. req.fn \in ReadBits /\ req.fn \notin ReadRegisters \cup {FC.WRITE_AND_READ_REGISTERS}
          /\ req.fn # FC.MASK_WRITE_REGISTER /\ req.fn # FC.READ_EXCEPTION_STATUS
      BY <1>1, <2>1, FunctionNumbers
    <3>2. PICK n \in Nat : n = Word(req.data, 3)
      BY <1>1, <2>1, ReadRequest, CallFacts, Numbers
    <3>3. x = 2 + ByteCount(n)
      BY <3>1, <3>2
    <3>4. QED
      BY <3>3, ByteCounts
  <2>2. CASE c.fn \in {3, 4, 23}
    <3>1. req.fn \notin ReadBits /\ req.fn \in ReadRegisters \cup {FC.WRITE_AND_READ_REGISTERS}
          /\ req.fn # FC.MASK_WRITE_REGISTER /\ req.fn # FC.READ_EXCEPTION_STATUS
      BY <1>1, <2>2, FunctionNumbers
    <3>2. PICK n \in Nat : n = Word(req.data, 3)
      BY <1>1, <2>2, ReadRequest, BothRequest, CallFacts, Numbers
    <3>3. x = 2 + 2 * n
      BY <3>1, <3>2
    <3>4. QED
      BY <3>3
  <2>3. CASE c.fn \in {5, 6, 15, 16, 22}
    <3>1. req.fn \notin ReadBits /\ req.fn \notin ReadRegisters \cup {FC.WRITE_AND_READ_REGISTERS}
          /\ req.fn # FC.READ_EXCEPTION_STATUS
      BY <1>1, <2>3, FunctionNumbers
    <3>2. x \in {5, 7}
      BY <3>1
    <3>3. QED
      BY <3>2
  <2>4. QED
    BY <2>1, <2>2, <2>3, CallFacts
<1> HIDE DEF x
<1>4. Backend[b].header \in Nat /\ Backend[b].header > 0 /\ Backend[b].checksum \in Nat
    BY Backends
<1>5. QED
    BY <1>2, <1>3, <1>4 DEF req

Accepts(b, req, m, length) == check_confirmation(b, req, m, length) # -1

LEMMA Accepted ==
    ASSUME NEW b \in DOMAIN Backend, NEW c, CallOK(c), ~TooMany(c), NEW s, NEW t,
           NEW m, NEW length, Accepts(b, Request(s, t, c), m, length)
    PROVE  /\ m.fn = c.fn /\ m.fn < 128
           /\ pre_check_confirmation(b, Request(s, t, c), m)
           /\ check_confirmation(b, Request(s, t, c), m, length) = Given(m)
           /\ c.fn # 17 => length \in Nat /\ length > 0 /\ Asked(Request(s, t, c)) = Given(m)
<1> DEFINE req == Request(s, t, c)
           computed == compute_response_length_from_request(b, req)
<1>1. req.fn = c.fn
    BY DEF Request
<1>2. /\ pre_check_confirmation(b, req, m) /\ m.fn < 128 /\ m.fn = req.fn
      /\ length = computed \/ computed = MSG_LENGTH_UNDEFINED
      /\ SameCount(req, m)
      /\ check_confirmation(b, req, m, length) = Given(m)
    BY DEF check_confirmation, Accepts
<1>3. c.fn # 17 => computed \in Nat /\ computed > 0
    BY ComputedLength
<1> HIDE DEF req, computed
<1>4. c.fn # 17 => length = computed
    BY <1>2, <1>3 DEF MSG_LENGTH_UNDEFINED
<1>5. c.fn # 17 => Asked(req) = Given(m)
    BY <1>1, <1>2, FunctionNumbers DEF SameCount
<1>6. QED
    BY <1>1, <1>2, <1>3, <1>4, <1>5 DEF req

LEMMA NoException ==
    ASSUME NEW m, NEW asked, CallOK(asked), NEW seen, AnswerTo(m, asked, seen), m.fn < 128
    PROVE  m.fn = asked.fn
<1>1. m.fn = asked.fn \/ m.fn = asked.fn + 128
    BY DEF AnswerTo
<1>2. PICK n \in Nat : n = asked.fn
    BY CallFacts
<1>3. QED
    BY <1>1, <1>2

LEMMA ReturnedCount ==
    ASSUME NEW c, CallOK(c), ~TooMany(c), NEW s, NEW t,
           NEW m, m.fn = c.fn, m.fn = 17 => m.data[1] = 10,
           c.fn # 17 => Asked(Request(s, t, c)) = Given(m)
    PROVE  Returned(c, Given(m)) \in Nat /\ Returned(c, Given(m)) <= 2000
<1>1. c.nb \in Nat
    BY CallFacts, Numbers
<1>2. CASE c.fn \in {1, 2}
  <2>1. ~(c.nb > 2000)
    BY <1>2, FunctionNumbers, Limits DEF TooMany
  <2>2. Given(m) = ByteCount(c.nb)
    BY <1>2, AskedIs
  <2>3. ByteCount(c.nb) \in Nat
    BY <1>1, ByteCounts
  <2>4. Returned(c, Given(m)) = c.nb
    BY <1>2, <2>2, <2>3, FunctionNumbers DEF Returned
  <2>5. QED
    BY <1>1, <2>1, <2>4
<1>3. CASE c.fn \in {3, 4, 15, 16, 23}
  <2>1. ~(c.nb > 2000)
    <3>1. \/ ~(c.nb > 125)
          \/ ~(c.nb > 1968)
          \/ ~(c.nb > 123)
      BY <1>3, FunctionNumbers, Limits DEF TooMany
    <3>2. QED
      BY <1>1, <3>1
  <2>2. Given(m) = c.nb
    BY <1>3, AskedIs
  <2>3. Returned(c, Given(m)) = c.nb
    BY <1>3, <2>2, FunctionNumbers DEF Returned
  <2>4. QED
    BY <1>1, <2>1, <2>3
<1>4. CASE c.fn \in {5, 6, 22}
  <2>1. Given(m) = 1
    BY <1>4, AskedIs
  <2>2. Returned(c, Given(m)) = 1
    BY <1>4, <2>1, FunctionNumbers DEF Returned
  <2>3. QED
    BY <2>2
<1>5. CASE c.fn = 17
  <2>1. Given(m) = 10
    <3>1. /\ m.fn \notin ReadBits /\ m.fn = FC.REPORT_SLAVE_ID /\ m.fn \notin WriteMultiple
          /\ m.fn \notin ReadRegisters \cup {FC.WRITE_AND_READ_REGISTERS}
      BY <1>5, FunctionNumbers
    <3>2. QED
      BY <1>5, <3>1 DEF Given
  <2>2. Returned(c, Given(m)) = 10
    BY <1>5, <2>1, FunctionNumbers DEF Returned
  <2>3. QED
    BY <2>2
<1>6. QED
    BY <1>2, <1>3, <1>4, <1>5, CallFacts

(* An answer is no longer whole when its beginning was read; nothing else  *)
(* of it changes.                                                          *)
LEMMA Begun ==
    ASSUME NEW w, AnswerOK(w)
    PROVE  LET v == [w EXCEPT !.whole = FALSE] IN
           v \in Answer /\ AnswerOK(v) /\ v.of = w.of /\ v.m = w.m
<1>1. w \in Answer
    BY DEF AnswerOK
<1> DEFINE v == [w EXCEPT !.whole = FALSE]
<1>2. v \in Answer /\ v.m = w.m /\ v.of = w.of /\ v.seen = w.seen
    BY <1>1 DEF Answer
<1> HIDE DEF v
<1>3. AnswerOK(v)
    BY <1>2 DEF AnswerOK
<1>4. QED
    BY <1>2, <1>3 DEF v

(* What stays of the wire: each message is one that was there, or what was *)
(* begun of it.                                                            *)
Remains(q) ==
    /\ q \in Seq(Answer)
    /\ \A v \in Elems(q) : \E w \in Elems(wire) : v.of = w.of /\ v.m = w.m /\ AnswerOK(v)

LEMMA RemainsOK ==
    ASSUME ModInv, Remains(wire'), UNCHANGED <<backend, script, made, tid>>, waiting' => waiting
    PROVE  AnswersOK'
<1>1. \A v \in Elems(wire') : AnswerOK(v)
    BY DEF Remains
<1>2. \A v \in Elems(wire') : AnswerOK(v)'
    BY <1>1, Steady
<1>3. QED
    BY <1>2 DEF AnswersOK, Remains

LEMMA WireRemains ==
    ASSUME ModInv
    PROVE  /\ Remains(wire) /\ Remains(<<>>)
           /\ wire # <<>> => Remains(Tail(wire))
           /\ wire # <<>> => Remains(<<[Head(wire) EXCEPT !.whole = FALSE]>> \o Tail(wire))
           /\ Len(wire) > 1 =>
                 Remains(<<[wire[2] EXCEPT !.whole = FALSE]>> \o SubSeq(wire, 3, Len(wire)))
<1>1. wire \in Seq(Answer) /\ \A w \in Elems(wire) : AnswerOK(w)
    BY DEF ModInv, AnswersOK
<1>2. ASSUME NEW q \in Seq(Answer), Elems(q) \subseteq Elems(wire)
      PROVE  Remains(q)
    BY <1>1, <1>2 DEF Remains
<1>3. ASSUME NEW q \in Seq(Answer), Elems(q) \subseteq Elems(wire), NEW w \in Elems(wire)
      PROVE  Remains(<<[w EXCEPT !.whole = FALSE]>> \o q)
  <2> DEFINE v == [w EXCEPT !.whole = FALSE]
  <2>1. AnswerOK(w) /\ v \in Answer /\ AnswerOK(v) /\ v.of = w.of /\ v.m = w.m
    BY <1>1, Begun
  <2> HIDE DEF v
  <2>2. <<v>> \in Seq(Answer) /\ Elems(<<v>>) = {v}
    BY <2>1, Alone
  <2>3. <<v>> \o q \in Seq(Answer) /\ Elems(<<v>> \o q) \subseteq {v} \cup Elems(q)
    BY <2>2, Both
  <2>4. Remains(<<v>> \o q)
    BY <1>1, <1>3, <2>1, <2>3 DEF Remains
  <2>5. QED
    BY <2>4 DEF v
<1>4. Remains(wire) /\ Remains(<<>>)
    BY <1>1, <1>2, OnLine
<1>5. ASSUME wire # <<>>
      PROVE  Remains(Tail(wire)) /\ Remains(<<[Head(wire) EXCEPT !.whole = FALSE]>> \o Tail(wire))
  <2>1. /\ Head(wire) \in Elems(wire)
        /\ Tail(wire) \in Seq(Answer) /\ Elems(Tail(wire)) \subseteq Elems(wire)
    BY <1>1, <1>5, FirstElem
  <2>2. QED
    BY <1>2, <1>3, <2>1
<1>6. ASSUME Len(wire) > 1
      PROVE  Remains(<<[wire[2] EXCEPT !.whole = FALSE]>> \o SubSeq(wire, 3, Len(wire)))
  <2>1. 2 \in 1..Len(wire)
    BY <1>1, <1>6
  <2>2. wire[2] \in Elems(wire)
    BY <2>1 DEF Elems
  <2>3. PICK n \in 1..Len(wire) : n = 2
    BY <2>1
  <2>4. /\ SubSeq(wire, n + 1, Len(wire)) \in Seq(Answer)
        /\ Elems(SubSeq(wire, n + 1, Len(wire))) \subseteq Elems(wire)
    BY <1>1, Part
  <2>5. n + 1 = 3
    BY <2>3
  <2>6. PICK q \in Seq(Answer) : q = SubSeq(wire, 3, Len(wire)) /\ Elems(q) \subseteq Elems(wire)
    BY <2>4, <2>5
  <2>7. Remains(<<[wire[2] EXCEPT !.whole = FALSE]>> \o q)
    BY <1>3, <2>2, <2>6
  <2>8. QED
    BY <2>6, <2>7
<1>7. QED
    BY <1>4, <1>5, <1>6

LEMMA RestRemains ==
    ASSUME ModInv, NEW n, n = 0 \/ wire # <<>>
    PROVE  Remains(Rest(n))
BY WireRemains DEF Rest

LEMMA CallRests ==
    ASSUME CallInv, UNCHANGED <<backend, script, slave, tid, made, ignore>>,
           link' \in {"closed", "up", "dead"}, waiting' \in BOOLEAN, ~waiting'
    PROVE  CallInv'
BY DEF CallInv, SlaveTaken

LEMMA KeepReading ==
    ModInv /\ (ReceiveJunk \/ Timeout \/ Reset) => ModInv'
<1> SUFFICES ASSUME ModInv, ReceiveJunk \/ Timeout \/ Reset
             PROVE  ModInv'
    OBVIOUS
<1>1. /\ UNCHANGED <<backend, script, slave, tid, made, memory, ignore>>
      /\ waiting' = FALSE /\ reading' = Start /\ outcome' = Failed
      /\ link' \in {"closed", "up", "dead"}
      /\ toServer' = toServer \/ toServer' = <<>>
  <2>1. CASE ReceiveJunk
    BY <2>1 DEF ReceiveJunk, fixed, serverVars, ModInv, CallInv
  <2>2. CASE Timeout
    BY <2>2 DEF Timeout, fixed, serverVars, ModInv, CallInv
  <2>3. CASE Reset
    BY <2>3 DEF Reset, fixed, serverVars
  <2>4. QED
    BY <2>1, <2>2, <2>3
<1>2. Remains(wire')
  <2>1. CASE ReceiveJunk
    BY <2>1, WireRemains DEF ReceiveJunk
  <2>2. CASE Timeout
    <3>1. reading.length = 0 \/ wire # <<>>
      BY DEF ModInv, Partly, ReadingOK
    <3>2. QED
      BY <2>2, <3>1, WireRemains, RestRemains DEF Timeout
  <2>3. CASE Reset
    BY <2>3, WireRemains DEF Reset
  <2>4. QED
    BY <2>1, <2>2, <2>3
<1>3. AnswersOK'
    BY <1>1, <1>2, RemainsOK
<1>4. Requests'
  <2>1. Requests /\ AnswersOK /\ UNCHANGED <<backend, script, made, tid>> /\ (waiting' => waiting)
    BY <1>1 DEF ModInv
  <2>2. toServer' \in Seq(Envelope) /\ Elems(toServer') \subseteq Elems(toServer)
    BY <1>1, OnLine
  <2>3. QED
    BY <2>1, <2>2, StillOK
<1>5. CallInv'
  <2>1. CallInv /\ ~waiting' /\ waiting' \in BOOLEAN
    BY <1>1 DEF ModInv
  <2>2. QED
    BY <1>1, <2>1, CallRests
<1>6. QED
    BY <1>1, <1>3, <1>4, <1>5, Alike DEF ModInv

(* What Confirm does: the outcome is a failure or what an accepted answer  *)
(* says.                                                                   *)
LEMMA Confirmed ==
    ASSUME ModInv, NEW k \in Pieces(reading.left), Confirm(k)
    PROVE  /\ UNCHANGED <<backend, script, slave, tid, link, made, toServer, memory, ignore>>
           /\ waiting /\ waiting' = FALSE /\ reading' = Start /\ wire # <<>> /\ Remains(wire')
           /\ \/ outcome' = Failed
              \/ \E n \in Nat :
                    LET w == Head(wire)
                        req == Request(slave, tid, script[made])
                        length == check_integrity(backend, slave, w.m, n)
                        rc == check_confirmation(backend, req, w.m, length)
                    IN /\ rc # -1 /\ length # -1
                       /\ outcome' = [rc |-> Returned(script[made], rc),
                                      dest |-> Dest(script[made], rc, w.m),
                                      of |-> w.of, seen |-> w.seen]
<1> DEFINE s == Longer(k)
           w == Head(wire)
           r == Advance(s, w.m)
           length == check_integrity(backend, slave, w.m, r.length)
           rc == check_confirmation(backend, Request(slave, tid, script[made]), w.m, length)
           result == IF TooLong(r) \/ length = -1 THEN -1 ELSE rc
<1>1. /\ UNCHANGED <<backend, script, slave, tid, link, made, toServer, memory, ignore>>
      /\ waiting /\ waiting' = FALSE /\ reading' = Start /\ wire # <<>>
    BY DEF Confirm, fixed, serverVars
<1>2. /\ wire' = <<>> \/ wire' = Rest(r.length)
      /\ outcome' = IF result = -1 THEN Failed
                    ELSE [rc |-> Returned(script[made], result),
                          dest |-> Dest(script[made], result, w.m),
                          of |-> w.of, seen |-> w.seen]
    BY DEF Confirm, Longer, call
<1>3. r.length \in Nat
  <2>1. s \in [step : {"function", "meta", "data"}, length : Nat, left : Nat]
    BY MorePieces
  <2>2. w.m \in Message /\ Len(w.m.data) >= 1
    BY <1>1, ClientReads
  <2>3. backend \in DOMAIN Backend
    BY DEF ModInv, FixedOK
  <2> HIDE DEF s, w
  <2>4. r.length = s.length
    BY <2>1, <2>2, <2>3, Advanced
  <2>5. QED
    BY <2>1, <2>4
<1>4. Remains(wire')
    BY <1>1, <1>2, WireRemains, RestRemains
<1> HIDE DEF r, w
<1>5. CASE result = -1
    BY <1>1, <1>2, <1>4, <1>5
<1>6. CASE result # -1
  <2>1. length # -1 /\ result = rc
    BY <1>6
  <2>2. QED
    BY <1>1, <1>2, <1>3, <1>4, <1>6, <2>1 DEF w
<1>7. QED
    BY <1>5, <1>6

LEMMA CurrentCall ==
    ASSUME ModInv, waiting
    PROVE  /\ made \in 1..Len(script) /\ CallOK(script[made]) /\ ~TooMany(script[made])
           /\ backend \in DOMAIN Backend
           /\ SlaveTaken(script[made].slave) => slave = script[made].slave
<1>1. FixedOK /\ CallInv
    BY DEF ModInv
<1>2. made \in 1..Len(script)
    BY <1>1, ScriptFacts DEF CallInv
<1>3. CallOK(script[made])
    BY <1>1, <1>2, ScriptFacts
<1>4. QED
    BY <1>1, <1>2, <1>3 DEF CallInv, FixedOK

LEMMA KeepConfirm ==
    ASSUME ModInv, NEW k \in Pieces(reading.left), Confirm(k)
    PROVE  ModInv'
<1>1. /\ UNCHANGED <<backend, script, slave, tid, link, made, toServer, memory, ignore>>
      /\ waiting /\ waiting' = FALSE /\ reading' = Start /\ wire # <<>> /\ Remains(wire')
    BY Confirmed
<1>2. OutcomeOK'
  <2>1. CASE outcome' = Failed
    BY <2>1, Alike
  <2>2. CASE \E n \in Nat :
                LET w == Head(wire)
                    req == Request(slave, tid, script[made])
                    length == check_integrity(backend, slave, w.m, n)
                    rc == check_confirmation(backend, req, w.m, length)
                IN /\ rc # -1 /\ length # -1
                   /\ outcome' = [rc |-> Returned(script[made], rc),
                                  dest |-> Dest(script[made], rc, w.m),
                                  of |-> w.of, seen |-> w.seen]
    <3> DEFINE w == Head(wire)
               c == script[made]
    <3>1. PICK length : 
              LET rc == check_confirmation(backend, Request(slave, tid, c), w.m, length)
              IN rc # -1 /\ outcome'.rc = Returned(c, rc)
      BY <2>2
    <3>2. CallOK(c) /\ ~TooMany(c) /\ backend \in DOMAIN Backend
      BY <1>1, CurrentCall
    <3>3. CallOK(script[w.of]) /\ AnswerTo(w.m, script[w.of], w.seen)
      BY <1>1, ClientReads
    <3> HIDE DEF w, c
    <3> DEFINE rc == check_confirmation(backend, Request(slave, tid, c), w.m, length)
    <3>4. rc # -1
      BY <3>1
    <3>5. /\ w.m.fn = c.fn /\ rc = Given(w.m)
          /\ c.fn # 17 => Asked(Request(slave, tid, c)) = Given(w.m)
      <4>1. Accepts(backend, Request(slave, tid, c), w.m, length)
        BY <3>4 DEF Accepts
      <4>2. QED
        BY <3>2, <4>1, Accepted
    <3>6. /\ w.m.fn = c.fn /\ outcome'.rc = Returned(c, Given(w.m))
          /\ c.fn # 17 => Asked(Request(slave, tid, c)) = Given(w.m)
      BY <3>1, <3>5
    <3>7. w.m.fn = 17 => w.m.data[1] = 10
      BY <3>3 DEF AnswerTo
    <3>8. Returned(c, Given(w.m)) \in Nat /\ Returned(c, Given(w.m)) <= 2000
      BY <3>2, <3>6, <3>7, ReturnedCount
    <3>9. QED
      BY <3>6, <3>8 DEF OutcomeOK
  <2>3. QED
    BY <2>1, <2>2, Confirmed
<1>3. AnswersOK'
    BY <1>1, RemainsOK
<1>4. Requests'
  <2>1. Requests /\ AnswersOK /\ UNCHANGED <<backend, script, made, tid>> /\ (waiting' => waiting)
    BY <1>1 DEF ModInv
  <2>2. toServer' \in Seq(Envelope) /\ Elems(toServer') \subseteq Elems(toServer)
    BY <1>1, OnLine
  <2>3. QED
    BY <2>1, <2>2, StillOK
<1>5. CallInv'
  <2>1. CallInv /\ ~waiting' /\ waiting' \in BOOLEAN
    BY <1>1 DEF ModInv
  <2>2. link' \in {"closed", "up", "dead"}
    BY <1>1, <2>1 DEF CallInv
  <2>3. QED
    BY <1>1, <2>1, <2>2, CallRests
<1>6. QED
    BY <1>1, <1>2, <1>3, <1>4, <1>5, Alike DEF ModInv

(* The invariant is inductive. *)
LEMMA ModNext == ModInv /\ [Next]_vars => ModInv'
<1> SUFFICES ASSUME ModInv, [Next]_vars
             PROVE  ModInv'
    OBVIOUS
<1>1. CASE Connect \/ Close
    BY <1>1, KeepConnect
<1>2. CASE CallRefused
    BY <1>2, KeepCallRefused
<1>3. CASE Send
    BY <1>3, KeepSend
<1>4. CASE SendFails
    BY <1>4, KeepSendFails
<1>5. CASE Serve
    BY <1>5, KeepServe
<1>6. CASE ServeNot \/ IgnoreMessage \/ IgnoreTimeout \/ RequestLost
    BY <1>6, KeepServeNot
<1>7. CASE \E k \in Pieces(reading.left) : Receive(k) \/ Confirm(k)
    BY <1>7, KeepReceive, KeepConfirm
<1>8. CASE ReceiveJunk \/ Timeout \/ Reset
    BY <1>8, KeepReading
<1>9. CASE UNCHANGED vars
  <2>1. UNCHANGED <<backend, script, slave, tid, link, made, waiting, reading, outcome,
                    toServer, wire, memory, ignore>>
    BY <1>9 DEF vars, clientVars, lineVars, serverVars
  <2>2. Requests' /\ AnswersOK'
    <3>1. Requests /\ AnswersOK /\ UNCHANGED <<backend, script, made, tid>> /\ (waiting' => waiting)
      BY <2>1 DEF ModInv
    <3>2. toServer' \in Seq(Envelope) /\ Elems(toServer') \subseteq Elems(toServer)
      BY <2>1, OnLine
    <3>3. wire' \in Seq(Answer) /\ Elems(wire') \subseteq Elems(wire)
      BY <2>1, OnLine
    <3>4. QED
      BY <3>1, <3>2, <3>3, StillOK
  <2>3. QED
    BY <2>1, <2>2, Alike DEF ModInv
<1>10. QED
    BY <1>1, <1>2, <1>3, <1>4, <1>5, <1>6, <1>7, <1>8, <1>9 DEF Next

LEMMA ModAlways == Spec => []ModInv
BY ModInit, ModNext, PTL DEF Spec

-----------------------------------------------------------------------------
(* Every variable keeps its type, for every script, size and contents of   *)
(* the server's tables: ctx->slave stays a slave number of Modbus, what a  *)
(* call returns is -1 or a count, and the tables hold bits and registers.  *)
THEOREM TypeCorrect == Spec => []TypeOK
<1>1. ModInv => TypeOK
  <2> SUFFICES ASSUME ModInv
               PROVE  TypeOK
    OBVIOUS
  <2>1. FixedOK /\ CallInv /\ ReadingOK /\ OutcomeOK /\ MemoryOK(memory)
    BY DEF ModInv
  <2>2. slave \in -1..247 \cup {MODBUS_TCP_SLAVE} /\ (backend = "rtu" => slave # MODBUS_TCP_SLAVE)
    <3>1. \A lo, hi \in Int : slave >= lo /\ slave <= hi => slave \in lo..hi
      BY <2>1 DEF CallInv
    <3>2. QED
      BY <2>1, <3>1 DEF CallInv, MODBUS_TCP_SLAVE
  <2>3. made \in 0..Len(script)
    BY <2>1, ScriptFacts DEF CallInv
  <2>4. outcome.rc \in -1..MAX.READ_BITS
    <3>1. PICK limit \in Nat : limit = MAX.READ_BITS /\ limit = 2000
      BY Limits
    <3>2. outcome.rc \in Int /\ outcome.rc >= -1 /\ outcome.rc <= limit
      BY <2>1, <3>1 DEF OutcomeOK
    <3>3. outcome.rc \in -1..limit
      BY <3>2
    <3>4. QED
      BY <3>1, <3>3
  <2>5. reading.step \in {"function", "meta", "data"} /\ reading.left > 0
    BY <2>1 DEF ReadingOK
  <2>6. tid \in Word16 /\ link \in {"closed", "up", "dead"} /\ waiting \in BOOLEAN
        /\ ignore \in BOOLEAN /\ (ignore => backend = "rtu")
    BY <2>1 DEF CallInv
  <2>7. QED
    BY <2>1, <2>2, <2>3, <2>4, <2>5, <2>6 DEF TypeOK
<1>2. QED
    BY <1>1, ModAlways, PTL

(* No request and no answer is longer than the ADU of its backend, and     *)
(* _modbus_receive_msg never asks for bytes beyond it, for any script.     *)
THEOREM WithinAdu == Spec => []AduBound
<1>1. ModInv => AduBound
  <2> SUFFICES ASSUME ModInv
               PROVE  AduBound
    OBVIOUS
  <2>1. FixedOK /\ CallInv /\ ReadingOK /\ Requests /\ AnswersOK
    BY DEF ModInv
  <2>2. backend \in DOMAIN Backend /\ Len(script) \in Nat
    BY <2>1, ScriptFacts DEF FixedOK
  <2>3. ASSUME NEW n \in 1..made
        PROVE  n \in 1..Len(script) /\ CallOK(script[n])
    <3>1. n \in 1..Len(script)
      BY <2>1, <2>2 DEF CallInv
    <3>2. QED
      BY <2>1, <3>1, ScriptFacts
  <2>4. ASSUME NEW i \in DOMAIN toServer
        PROVE  Length(backend, toServer[i].m) <= Backend[backend].max_adu
    <3> DEFINE e == toServer[i]
    <3>1. RequestOK(e)
      BY <2>1 DEF Requests, Elems
    <3> HIDE DEF e
    <3>2. e.of \in 1..made /\ ~TooMany(script[e.of])
          /\ e.m = Request(e.m.slave, e.m.tid, script[e.of])
      BY <3>1 DEF RequestOK, MadeFor
    <3>3. e.m.data = RequestData(script[e.of])
      BY <3>2 DEF Request
    <3>4. e.m.data \in Seq(Byte) /\ Len(e.m.data) <= 251
      BY <2>3, <3>2, <3>3, RequestLength
    <3>5. QED
      BY <2>2, <3>4, Fits DEF e
  <2>5. ASSUME NEW i \in DOMAIN wire
        PROVE  Length(backend, wire[i].m) <= Backend[backend].max_adu
    <3> DEFINE w == wire[i]
    <3>1. AnswerOK(w)
      BY <2>1 DEF AnswersOK, Elems
    <3> HIDE DEF w
    <3>2. w.of \in 1..made /\ w.m \in Message /\ AnswerTo(w.m, script[w.of], w.seen)
      BY <3>1 DEF AnswerOK, MadeFor, Answer
    <3>3. Len(w.m.data) <= 251
      BY <2>3, <3>2, AnswerLengthBound
    <3>4. w.m.data \in Seq(Byte)
      BY <3>2 DEF Message
    <3>5. QED
      BY <2>2, <3>3, <3>4, Fits DEF w
  <2>6. QED
    BY <2>1, <2>4, <2>5 DEF AduBound, ReadingOK
<1>2. QED
    BY <1>1, ModAlways, PTL

-----------------------------------------------------------------------------
(* A write the client has the answer to.  Of the call made last there is   *)
(* one request at most, the last one under way; once it is answered none   *)
(* is left that could change what it wrote.                                *)
Newest ==
    /\ \A i \in 1..Len(toServer) : toServer[i].of = made => i = Len(toServer)
    /\ \A w \in Elems(wire) :
          w.of = made => toServer = <<>> /\ (w.m.fn = script[made].fn => Shows(memory, script[made]))
    /\ ~waiting /\ made > 0 /\ outcome.of = made => toServer = <<>> /\ Shows(memory, script[made])

(* The end of the requests under way. *)
Remaining(q) ==
    \E n \in 0..Len(toServer) : /\ Len(q) = Len(toServer) - n
                                /\ \A i \in 1..Len(q) : q[i] = toServer[i + n]

LEMMA SomeRemain ==
    ASSUME toServer \in Seq(Envelope)
    PROVE  /\ Remaining(toServer) /\ Remaining(<<>>)
           /\ toServer # <<>> => Remaining(Tail(toServer))
           /\ \A n \in 1..Len(toServer) : Remaining(SubSeq(toServer, n + 1, Len(toServer)))
<1>1. Len(toServer) \in Nat
    OBVIOUS
<1>2. Remaining(toServer)
  <2>1. Len(toServer) = Len(toServer) - 0 /\ \A i \in 1..Len(toServer) : i + 0 = i
    BY <1>1
  <2>2. 0 \in 0..Len(toServer)
    BY <1>1
  <2>3. QED
    BY <2>1, <2>2 DEF Remaining
<1>3. Remaining(<<>>)
  <2>1. Len(toServer) \in 0..Len(toServer) /\ Len(<<>>) = Len(toServer) - Len(toServer)
    BY <1>1
  <2>2. QED
    BY <2>1 DEF Remaining
<1>4. ASSUME toServer # <<>>
      PROVE  Remaining(Tail(toServer))
  <2>1. 1 \in 0..Len(toServer) /\ Len(Tail(toServer)) = Len(toServer) - 1
        /\ \A i \in 1..Len(Tail(toServer)) : Tail(toServer)[i] = toServer[i + 1]
    BY <1>1, <1>4
  <2>2. QED
    BY <2>1 DEF Remaining
<1>5. ASSUME NEW n \in 1..Len(toServer)
      PROVE  Remaining(SubSeq(toServer, n + 1, Len(toServer)))
  <2> DEFINE q == SubSeq(toServer, n + 1, Len(toServer))
  <2>1. n \in 0..Len(toServer) /\ Len(q) = Len(toServer) - n
        /\ \A i \in 1..Len(q) : q[i] = toServer[i + n]
    BY <1>1
  <2> HIDE DEF q
  <2>2. Remaining(q)
    BY <2>1 DEF Remaining
  <2>3. QED
    BY <2>2 DEF q
<1>6. QED
    BY <1>2, <1>3, <1>4, <1>5

LEMMA NewestSteady ==
    ASSUME ModInv, ModInv', Newest, UNCHANGED <<script, made, memory>>,
           Remaining(toServer'), Remains(wire'),
           ~waiting' /\ made > 0 /\ outcome'.of = made =>
              \/ ~waiting /\ outcome.of = made
              \/ toServer = <<>> /\ Shows(memory, script[made])
    PROVE  Newest'
<1>1. toServer \in Seq(Envelope) /\ toServer' \in Seq(Envelope)
    BY DEF ModInv, Requests
<1>2. PICK old \in Nat : old = Len(toServer)
    BY <1>1
<1>3. PICK new \in Nat : new = Len(toServer')
    BY <1>1
<1>4. PICK n \in Nat : /\ n <= old /\ new = old - n
                       /\ \A i \in 1..new : toServer'[i] = toServer[i + n]
  <2>1. \A n \in 0..Len(toServer) : n \in Nat /\ n <= old
    BY <1>2
  <2>2. QED
    BY <1>2, <1>3, <2>1 DEF Remaining
<1>5. ASSUME NEW i \in 1..Len(toServer'), toServer'[i].of = made
      PROVE  i = Len(toServer')
  <2>1. i \in Nat /\ i >= 1 /\ i <= new /\ toServer'[i].of = made
    BY <1>3, <1>5
  <2>2. i + n \in 1..old /\ toServer[i + n].of = made
    BY <1>4, <2>1
  <2>3. i + n = old
    BY <1>2, <2>2 DEF Newest
  <2>4. i = new
    BY <1>4, <2>1, <2>3
  <2>5. QED
    BY <1>3, <2>4
<1>6. toServer = <<>> => toServer' = <<>>
  <2>1. ASSUME toServer = <<>>
        PROVE  new = 0
    <3>1. old = 0
      BY <1>2, <2>1
    <3>2. QED
      BY <1>4, <3>1
  <2>2. QED
    BY <1>1, <1>3, <2>1
<1>7. ASSUME NEW v \in Elems(wire'), v.of = made
      PROVE  toServer' = <<>> /\ (v.m.fn = script[made].fn => Shows(memory, script[made]))
  <2>1. PICK w \in Elems(wire) : v.of = w.of /\ v.m = w.m
    BY DEF Remains
  <2>2. QED
    BY <1>6, <1>7, <2>1 DEF Newest
<1>8. ~waiting' /\ made > 0 /\ outcome'.of = made => toServer' = <<>> /\ Shows(memory, script[made])
    BY <1>6 DEF Newest
<1>9. QED
    BY <1>5, <1>7, <1>8 DEF Newest

(* The steps that neither call nor serve. *)
LEMMA NewestIdle ==
    ASSUME ModInv, ModInv', Newest,
           \/ Connect \/ Close \/ ServeNot \/ IgnoreMessage \/ IgnoreTimeout \/ RequestLost
           \/ UNCHANGED vars
    PROVE  Newest'
<1>1. toServer \in Seq(Envelope)
    BY DEF ModInv, Requests
<1>2. UNCHANGED <<script, made, memory, waiting, outcome>>
    BY DEF Connect, Close, ServeNot, IgnoreMessage, IgnoreTimeout, RequestLost, vars,
           fixed, clientVars, lineVars, serverVars
<1>3. Remaining(toServer')
  <2>1. CASE IgnoreMessage
    BY <1>1, <2>1, SomeRemain DEF IgnoreMessage
  <2>2. CASE ServeNot \/ RequestLost
    <3>1. toServer # <<>> /\ toServer' = Tail(toServer)
      BY <2>2 DEF ServeNot, RequestLost
    <3>2. QED
      BY <1>1, <3>1, SomeRemain
  <2>3. CASE Connect \/ Close \/ IgnoreTimeout \/ UNCHANGED vars
    <3>1. toServer' = toServer \/ toServer' = <<>>
      BY <2>3 DEF Connect, Close, IgnoreTimeout, vars, lineVars
    <3>2. QED
      BY <1>1, <3>1, SomeRemain
  <2>4. QED
    BY <2>1, <2>2, <2>3
<1>4. Remains(wire')
  <2>1. wire' = wire \/ wire' = <<>>
    BY DEF Connect, Close, ServeNot, IgnoreMessage, IgnoreTimeout, RequestLost, vars,
           clientVars, lineVars
  <2>2. QED
    BY <2>1, WireRemains
<1>5. QED
    BY <1>2, <1>3, <1>4, NewestSteady

(* The steps that end a call without an answer. *)
LEMMA NewestFailed ==
    ASSUME ModInv, ModInv', Newest, ReceiveJunk \/ Timeout \/ Reset
    PROVE  Newest'
<1>1. toServer \in Seq(Envelope)
    BY DEF ModInv, Requests
<1>2. /\ UNCHANGED <<script, made, memory>> /\ outcome' = Failed
      /\ toServer' = toServer \/ toServer' = <<>>
    BY DEF ReceiveJunk, Timeout, Reset, fixed, serverVars
<1>3. Remaining(toServer')
    BY <1>1, <1>2, SomeRemain
<1>4. Remains(wire')
  <2>1. CASE ReceiveJunk
    BY <2>1, WireRemains DEF ReceiveJunk
  <2>2. CASE Timeout
    <3>1. reading.length = 0 \/ wire # <<>>
      BY DEF ModInv, Partly, ReadingOK
    <3>2. QED
      BY <2>2, <3>1, WireRemains, RestRemains DEF Timeout
  <2>3. CASE Reset
    BY <2>3, WireRemains DEF Reset
  <2>4. QED
    BY <2>1, <2>2, <2>3
<1>5. made > 0 => outcome'.of # made
    BY <1>2 DEF Failed, ModInv, CallInv
<1>6. QED
    BY <1>2, <1>3, <1>4, <1>5, NewestSteady

(* The steps that read. *)
LEMMA NewestRead ==
    ASSUME ModInv, ModInv', Newest, NEW k \in Pieces(reading.left), Receive(k) \/ Confirm(k)
    PROVE  Newest'
<1>1. toServer \in Seq(Envelope)
    BY DEF ModInv, Requests
<1>2. CASE Receive(k)
  <2>1. UNCHANGED <<script, made, memory, waiting, outcome, toServer, wire>>
    BY <1>2 DEF Receive, fixed, lineVars, serverVars
  <2>2. Remaining(toServer') /\ Remains(wire')
    BY <1>1, <2>1, SomeRemain, WireRemains
  <2>3. QED
    BY <2>1, <2>2, NewestSteady
<1>3. CASE Confirm(k)
  <2>1. /\ UNCHANGED <<script, made, toServer, memory>>
        /\ waiting /\ wire # <<>> /\ Remains(wire')
    BY <1>3, Confirmed
  <2>2. Remaining(toServer')
    BY <1>1, <2>1, SomeRemain
  <2>3. made > 0 /\ outcome'.of = made => toServer = <<>> /\ Shows(memory, script[made])
    <3>1. CASE outcome' = Failed
      BY <3>1 DEF Failed, ModInv, CallInv
    <3>2. CASE outcome' # Failed
      <4> DEFINE w == Head(wire)
                 c == script[made]
      <4>1. w \in Elems(wire)
        BY <2>1, ClientReads
      <4>2. CallOK(c) /\ ~TooMany(c) /\ backend \in DOMAIN Backend
        BY <2>1, CurrentCall
      <4>3. CallOK(script[w.of]) /\ AnswerTo(w.m, script[w.of], w.seen)
        BY <2>1, ClientReads
      <4> HIDE DEF w, c
      <4>4. PICK n \in Nat :
               LET length == check_integrity(backend, slave, w.m, n)
                   rc == check_confirmation(backend, Request(slave, tid, c), w.m, length)
               IN /\ rc # -1
                  /\ outcome' = [rc |-> Returned(c, rc), dest |-> Dest(c, rc, w.m),
                                 of |-> w.of, seen |-> w.seen]
        BY <1>3, <3>2, Confirmed DEF w, c
      <4> DEFINE length == check_integrity(backend, slave, w.m, n)
      <4>5. /\ Accepts(backend, Request(slave, tid, c), w.m, length)
            /\ outcome'.of = w.of
        BY <4>4 DEF Accepts
      <4>6. w.m.fn = c.fn
        BY <4>2, <4>5, Accepted
      <4>7. QED
        BY <4>1, <4>5, <4>6 DEF Newest, c
    <3>3. QED
      BY <3>1, <3>2
  <2>4. QED
    BY <2>1, <2>2, <2>3, NewestSteady
<1>4. QED
    BY <1>2, <1>3

(* A call: no request and no answer under way is its own but the one it    *)
(* sends, the last.                                                        *)
LEMMA NewestCalled ==
    ASSUME ModInv, ModInv', CallRefused \/ Send \/ SendFails
    PROVE  Newest'
<1>1. FixedOK /\ CallInv /\ Requests /\ AnswersOK /\ toServer \in Seq(Envelope)
    BY DEF ModInv, Requests
<1>2. Calling /\ made' = made + 1 /\ made \in Nat /\ UNCHANGED <<backend, script>>
    BY <1>1 DEF CallRefused, Send, SendFails, Calling, CallInv, fixed
<1>3. backend = "tcp" /\ Len(script) < 65536 =>
              tid \in Nat /\ tid' \in Nat /\ tid <= tid' /\ (waiting' => tid < tid')
  <2>1. CASE CallRefused
    <3>1. tid' = tid /\ ~waiting'
      BY <2>1 DEF CallRefused, Calling
    <3>2. tid \in Nat
      BY <1>1, Numbers DEF CallInv
    <3>3. QED
      BY <3>1, <3>2
  <2>2. CASE Send \/ SendFails
    <3>1. tid' = IF backend = "tcp" THEN NextTid ELSE 0
      BY <2>2 DEF Send, SendFails
    <3>2. made < Len(script)
      BY <1>2 DEF Calling
    <3>3. backend = "tcp" /\ Len(script) < 65536 => tid \in Nat /\ tid' \in Nat /\ tid' = tid + 1
      BY <1>1, <3>1, <3>2, TidMade
    <3>4. QED
      BY <3>3
  <2>3. QED
    BY <2>1, <2>2
<1>4. /\ \A e \in Elems(toServer) : e.of # made'
      /\ \A w \in Elems(wire) : w.of # made'
    BY <1>1, <1>2, <1>3, Earlier
<1>5. wire' = wire \/ wire' = <<>>
    BY DEF CallRefused, Send, SendFails, lineVars
<1>6. \A w \in Elems(wire') : w.of # made'
    BY <1>4, <1>5, NoElems
<1>7. waiting' \/ outcome'.of # made'
  <2>1. waiting' \/ outcome' = Failed
    BY DEF CallRefused, Send, SendFails
  <2>2. made' # 0
    BY <1>2
  <2>3. QED
    BY <2>1, <2>2 DEF Failed
<1>8. \A i \in 1..Len(toServer') : toServer'[i].of = made' => i = Len(toServer')
  <2>1. CASE toServer' = toServer
    <3>1. \A i \in 1..Len(toServer) : toServer[i].of # made'
      BY <1>4 DEF Elems
    <3>2. QED
      BY <2>1, <3>1
  <2>2. CASE \E q \in Seq(Envelope) : \E e :
                Elems(q) \subseteq Elems(toServer) /\ toServer' = Append(q, e)
    <3>1. PICK q \in Seq(Envelope) : \E e :
                Elems(q) \subseteq Elems(toServer) /\ toServer' = Append(q, e)
      BY <2>2
    <3>2. \A i \in 1..Len(q) : q[i].of # made'
      BY <1>4, <3>1 DEF Elems
    <3>3. PICK n \in Nat : n = Len(q)
      BY <3>1
    <3>4. Len(toServer') = n + 1 /\ \A i \in 1..n : toServer'[i] = q[i]
      BY <3>1, <3>3
    <3>5. \A i \in 1..(n + 1) : i \in 1..n \/ i = n + 1
      BY <3>3
    <3>6. QED
      BY <3>2, <3>3, <3>4, <3>5
  <2>3. /\ Elems(toServer) \subseteq Elems(toServer)
        /\ <<>> \in Seq(Envelope) /\ Elems(<<>>) \subseteq Elems(toServer)
    BY OnLine
  <2>4. \/ toServer' = toServer
        \/ \E q \in {toServer, <<>>} : \E e : toServer' = Append(q, e)
    BY DEF CallRefused, Send, SendFails, lineVars
  <2>5. QED
    BY <1>1, <2>1, <2>2, <2>3, <2>4
<1>9. QED
    BY <1>6, <1>7, <1>8 DEF Newest

(* What the server writes cannot undo a write that was answered: that was  *)
(* the last request.                                                       *)
LEMMA NewestServed ==
    ASSUME ModInv, ModInv', Newest, Serve
    PROVE  Newest'
<1>1. /\ UNCHANGED <<script, made, waiting, outcome>>
      /\ toServer # <<>> /\ (toServer' = <<>> \/ toServer' = Tail(toServer))
    BY Served
<1>2. PICK d \in Seq(Answer) :
          /\ wire' = wire \/ wire' = wire \o d
          /\ \A w \in Elems(d) :
                w.of = request.of /\ (w.m.fn = script[request.of].fn => Shows(memory', script[request.of]))
    BY Served
<1>3. /\ toServer \in Seq(Envelope) /\ toServer' \in Seq(Envelope) /\ wire \in Seq(Answer)
      /\ request = toServer[1]
    BY <1>1, ServerReads DEF ModInv, Requests, AnswersOK
<1>4. PICK n \in Nat : n = Len(toServer) /\ n > 0
    BY <1>1, <1>3
<1>5. request.of = made => toServer' = <<>>
  <2>1. ASSUME request.of = made
        PROVE  n = 1
    <3>1. 1 \in 1..Len(toServer)
      BY <1>4
    <3>2. QED
      BY <1>3, <1>4, <2>1, <3>1 DEF Newest
  <2>2. n = 1 => Tail(toServer) = <<>>
    <3>1. Tail(toServer) \in Seq(Envelope)
      BY <1>1, ServerReads
    <3>2. PICK m \in Nat : m = Len(Tail(toServer)) /\ m = n - 1
      BY <1>1, <1>3, <1>4
    <3>3. \A q \in Seq(Envelope) : Len(q) = 0 => q = <<>>
      OBVIOUS
    <3>4. PICK q \in Seq(Envelope) : q = Tail(toServer)
      BY <3>1
    <3>5. n = 1 => m = 0
      BY <3>2
    <3>6. m = Len(q)
      BY <3>2, <3>4
    <3>7. QED
      BY <3>3, <3>4, <3>5, <3>6
  <2>3. QED
    BY <1>1, <2>1, <2>2
<1> HIDE DEF request
<1>6. (\A w \in Elems(wire) : w.of # made) /\ (~waiting /\ made > 0 => outcome.of # made)
    BY <1>1 DEF Newest
<1>7. ASSUME NEW w \in Elems(wire'), w.of = made
      PROVE  toServer' = <<>> /\ (w.m.fn = script[made].fn => Shows(memory', script[made]))
  <2>1. w \in Elems(wire) \/ w \in Elems(d)
    BY <1>2, <1>3, Both
  <2>2. w \in Elems(d) /\ request.of = made
    BY <1>2, <1>6, <1>7, <2>1
  <2>3. QED
    BY <1>2, <1>5, <2>2
<1>8. \A i \in 1..Len(toServer') : toServer'[i].of = made => i = Len(toServer')
  <2>1. Remaining(toServer')
    BY <1>1, <1>3, SomeRemain
  <2>2. PICK m \in Nat : m = Len(toServer')
    BY <1>3
  <2>3. PICK k \in Nat : m = n - k /\ \A i \in 1..m : toServer'[i] = toServer[i + k]
    <3>1. \A k \in 0..Len(toServer) : k \in Nat
      BY <1>4
    <3>2. QED
      BY <1>4, <2>1, <2>2, <3>1 DEF Remaining
  <2>4. ASSUME NEW i \in 1..m, toServer'[i].of = made
        PROVE  i = m
    <3>1. i + k \in 1..n /\ toServer[i + k].of = made
      BY <2>3, <2>4
    <3>2. i + k = n
      BY <1>4, <3>1 DEF Newest
    <3>3. QED
      BY <2>3, <3>2
  <2>5. QED
    BY <2>2, <2>4
<1>9. QED
    BY <1>1, <1>6, <1>7, <1>8 DEF Newest

LEMMA NewestAlways == Spec => []Newest
<1>1. Init => Newest
  <2> SUFFICES ASSUME Init
               PROVE  Newest
    OBVIOUS
  <2>1. toServer = <<>> /\ wire = <<>> /\ made = 0
    BY DEF Init
  <2>2. ~(made > 0) /\ Len(toServer) = 0
    BY <2>1
  <2>3. QED
    BY <2>1, <2>2, NoElems DEF Newest
<1>2. ModInv /\ ModInv' /\ Newest /\ [Next]_vars => Newest'
  <2> SUFFICES ASSUME ModInv, ModInv', Newest, [Next]_vars
               PROVE  Newest'
    OBVIOUS
  <2>1. CASE \/ Connect \/ Close \/ ServeNot \/ IgnoreMessage \/ IgnoreTimeout \/ RequestLost
             \/ UNCHANGED vars
    BY <2>1, NewestIdle
  <2>2. CASE CallRefused \/ Send \/ SendFails
    BY <2>2, NewestCalled
  <2>3. CASE Serve
    BY <2>3, NewestServed
  <2>4. CASE \E k \in Pieces(reading.left) : Receive(k) \/ Confirm(k)
    BY <2>4, NewestRead
  <2>5. CASE ReceiveJunk \/ Timeout \/ Reset
    BY <2>5, NewestFailed
  <2>6. QED
    BY <2>1, <2>2, <2>3, <2>4, <2>5 DEF Next
<1>3. QED
    BY <1>1, <1>2, ModAlways, PTL DEF Spec

(* A write the client holds the answer of is in the server's tables when   *)
(* the call returns and until the next call, whatever requests and answers *)
(* of earlier calls were lost, damaged or late: modbus_reply has done what *)
(* the answered request says, and no other request is left to overwrite it. *)
THEOREM WritesAreTaken == Spec => []WriteTaken
<1>1. Newest => WriteTaken
  <2> SUFFICES ASSUME Newest, ~waiting, made > 0, outcome.of = made
               PROVE  LET c == script[made] IN
                      /\ c.fn \in WriteMultiple => Peek(memory[Table(c.fn)], c.addr, c.nb) = c.src
                      /\ c.fn = FC.WRITE_SINGLE_REGISTER => Peek(memory.registers, c.addr, 1) = c.src
                      /\ c.fn = FC.WRITE_AND_READ_REGISTERS =>
                              Peek(memory.registers, c.waddr, Len(c.src)) = c.src
    BY DEF WriteTaken
  <2>1. Shows(memory, script[made])
    BY DEF Newest
  <2>2. QED
    BY <2>1, FunctionNumbers DEF Shows
<1>2. QED
    BY <1>1, NewestAlways, PTL

-----------------------------------------------------------------------------
(* Answers that fit.                                                       *)

(* An answer to the request "asked" that passes for one to call c.         *)
Answering(m, seen, asked, c, s, t) ==
    /\ m.fn = c.fn /\ m.fn = asked.fn /\ AnswerTo(m, asked, seen)
    /\ c.fn # 17 => m.crc /\ Asked(Request(s, t, c)) = Given(m)

(* What such an answer says fits both.                                     *)
LEMMA ValuesFit ==
    ASSUME NEW c, CallOK(c), ~TooMany(c), NEW asked, CallOK(asked), ~TooMany(asked),
           NEW m, NEW seen, NEW s, NEW t, Answering(m, seen, asked, c, s, t)
    PROVE  /\ c.fn \in ReadBits => (c.nb + 7) \div 8 = (asked.nb + 7) \div 8
           /\ c.fn \in ReadRegisters \cup WriteMultiple => c.nb = asked.nb
           /\ c.fn \in Reads =>
                \A i \in 1..Len(seen) : i <= c.nb => Dest(c, Given(m), m)[i] = seen[i]
<1> USE DEF Answering
<1>1. c.nb \in Nat /\ asked.nb \in Nat
    BY CallFacts, Numbers
<1>2. c.fn # 17 => Says(m.data, asked, seen)
    BY DEF AnswerTo
<1>3. CASE c.fn \in {1, 2}
  <2>1. /\ c.fn \in ReadBits /\ c.fn \notin ReadRegisters \cup WriteMultiple
        /\ c.fn \notin ReadRegisters \cup {FC.WRITE_AND_READ_REGISTERS}
        /\ c.fn # FC.REPORT_SLAVE_ID /\ c.fn \in Reads /\ asked.fn \in Reads /\ asked.fn \in ReadBits
    BY <1>3, FunctionNumbers DEF Reads
  <2>2. /\ Len(seen) = asked.nb /\ m.data[1] = ByteCount(asked.nb)
        /\ \A i \in 1..asked.nb : Bits(m.data, 2, asked.nb)[i] = seen[i]
    BY <1>2, <1>3, <2>1 DEF Says
  <2>3. Given(m) = m.data[1]
    BY <2>1 DEF Given
  <2>4. ByteCount(c.nb) = ByteCount(asked.nb)
    <3>1. Asked(Request(s, t, c)) = ByteCount(c.nb)
      BY <1>3, AskedIs
    <3>2. QED
      BY <1>3, <2>2, <2>3, <3>1
  <2>5. (c.nb + 7) \div 8 = (asked.nb + 7) \div 8
    BY <1>1, <2>4, ByteCounts
  <2>6. Dest(c, Given(m), m) = Bits(m.data, 2, c.nb)
    BY <2>1 DEF Dest
  <2>7. ASSUME NEW i \in 1..asked.nb, i <= c.nb
        PROVE  Bits(m.data, 2, c.nb)[i] = Bits(m.data, 2, asked.nb)[i]
    <3>1. i \in 1..c.nb
      BY <1>1, <2>7
    <3>2. QED
      BY <3>1 DEF Bits
  <2>8. QED
    BY <2>1, <2>2, <2>5, <2>6, <2>7
<1>4. CASE c.fn \in {3, 4, 23}
  <2>1. /\ c.fn \notin ReadBits /\ c.fn \notin WriteMultiple
        /\ c.fn \in ReadRegisters \cup {FC.WRITE_AND_READ_REGISTERS}
        /\ c.fn # FC.REPORT_SLAVE_ID /\ c.fn \in Reads /\ asked.fn \in Reads /\ asked.fn \in WordReads
    BY <1>4, FunctionNumbers DEF Reads, WordReads
  <2>2. /\ Len(seen) = asked.nb /\ m.data[1] = 2 * asked.nb
        /\ \A i \in 1..asked.nb : Registers(m.data, 2, asked.nb)[i] = seen[i]
    BY <1>2, <1>4, <2>1 DEF Says
  <2>3. Given(m) = m.data[1] \div 2
    BY <2>1 DEF Given
  <2>4. Given(m) = asked.nb
    BY <1>1, <2>2, <2>3
  <2>5. c.nb = asked.nb
    <3>1. Asked(Request(s, t, c)) = c.nb
      BY <1>4, AskedIs
    <3>2. QED
      BY <1>4, <2>4, <3>1
  <2>6. Dest(c, Given(m), m) = Registers(m.data, 2, asked.nb)
    BY <2>1, <2>4 DEF Dest
  <2>7. QED
    BY <2>1, <2>2, <2>5, <2>6
<1>5. CASE c.fn \in {15, 16}
  <2>1. /\ c.fn \notin ReadBits /\ c.fn \in WriteMultiple /\ asked.fn \in WriteMultiple
        /\ c.fn \notin ReadRegisters \cup {FC.WRITE_AND_READ_REGISTERS} /\ c.fn \notin Reads
        /\ c.fn # FC.REPORT_SLAVE_ID
    BY <1>5, FunctionNumbers DEF Reads
  <2>2. Word(m.data, 3) = asked.nb
    BY <1>2, <1>5, <2>1 DEF Says
  <2>3. Given(m) = Word(m.data, 3)
    BY <2>1 DEF Given
  <2>4. c.nb = asked.nb
    <3>1. Asked(Request(s, t, c)) = c.nb
      BY <1>5, AskedIs
    <3>2. QED
      BY <1>5, <2>2, <2>3, <3>1
  <2>5. QED
    BY <2>1, <2>4
<1>6. CASE c.fn \in {5, 6, 17, 22}
  <2>1. /\ c.fn \notin ReadBits /\ c.fn \notin ReadRegisters \cup WriteMultiple
        /\ c.fn \notin Reads
    BY <1>6, FunctionNumbers DEF Reads
  <2>2. QED
    BY <2>1
<1>7. QED
    BY <1>3, <1>4, <1>5, <1>6, CallFacts

(* So few calls that no transaction is used twice. *)
FewCalls == Len(script) < 65536

(* Which slave's answer it is, and to which call.                          *)
LEMMA SlaveFits ==
    ASSUME ModInv, waiting, NEW w, AnswerOK(w), NEW n,
           NEW length, length = check_integrity(backend, slave, w.m, n),
           Accepts(backend, Request(slave, tid, script[made]), w.m, length)
    PROVE  LET c == script[made]
               asked == script[w.of]
           IN /\ c.fn # 17 => w.m.crc
              /\ backend = "tcp" /\ FewCalls => w.of = made
              /\ /\ backend # "tcp" /\ SlaveTaken(c.slave) /\ SlaveTaken(asked.slave)
                 /\ c.fn = FC.REPORT_SLAVE_ID =>
                        backend = "rtu" /\ c.slave # MODBUS_BROADCAST_ADDRESS
                 => c.slave = asked.slave \/ asked.slave = MODBUS_BROADCAST_ADDRESS
<1> DEFINE c == script[made]
           asked == script[w.of]
<1>1. /\ CallOK(c) /\ ~TooMany(c) /\ backend \in DOMAIN Backend
      /\ SlaveTaken(c.slave) => slave = c.slave
    BY CurrentCall
<1>2. MadeFor(w.m, w.of) /\ (backend = "tcp" => w.m.crc)
    BY DEF AnswerOK
<1>3. /\ pre_check_confirmation(backend, Request(slave, tid, c), w.m)
      /\ c.fn # 17 => length \in Nat /\ length > 0
    BY <1>1, Accepted
<1>4. c.fn # 17 /\ backend # "tcp" => w.m.crc /\ w.m.slave \in {slave, MODBUS_BROADCAST_ADDRESS}
    BY <1>3 DEF check_integrity
<1>5. c.fn # 17 => w.m.crc
    BY <1>2, <1>4
<1>6. SlaveTaken(asked.slave) => w.m.slave = asked.slave
    BY <1>2 DEF MadeFor
<1>7. backend = "tcp" /\ FewCalls => w.of = made
  <2>1. backend = "tcp" => tid = w.m.tid
    BY <1>3 DEF pre_check_confirmation, Request
  <2>2. QED
    BY <1>2, <2>1 DEF MadeFor, FewCalls
<1>8. backend = "rtu" => slave \in {w.m.slave, MODBUS_BROADCAST_ADDRESS}
    BY <1>3 DEF pre_check_confirmation, Request
<1> HIDE DEF c, asked
<1>9. /\ backend # "tcp" /\ SlaveTaken(c.slave) /\ SlaveTaken(asked.slave)
      /\ c.fn = FC.REPORT_SLAVE_ID => backend = "rtu" /\ c.slave # MODBUS_BROADCAST_ADDRESS
      => c.slave = asked.slave \/ asked.slave = MODBUS_BROADCAST_ADDRESS
  <2>1. CASE c.fn # 17
    BY <1>1, <1>4, <1>6, <2>1
  <2>2. CASE c.fn = 17
    BY <1>1, <1>6, <1>8, <2>2, FunctionNumbers
  <2>3. QED
    BY <2>1, <2>2
<1>10. QED
    BY <1>5, <1>7, <1>9 DEF c, asked

LEMMA FitsConfirmed ==
    ASSUME ModInv, FewCalls, NEW k \in Pieces(reading.left), Confirm(k)
    PROVE  AnswerFits'
<1>1. /\ UNCHANGED <<backend, script, made>> /\ waiting /\ wire # <<>>
    BY Confirmed
<1>2. CASE outcome' = Failed
    BY <1>2 DEF AnswerFits, Failed
<1>3. CASE outcome' # Failed
  <2> DEFINE w == Head(wire)
             c == script[made]
             asked == script[w.of]
  <2>1. /\ CallOK(c) /\ ~TooMany(c) /\ backend \in DOMAIN Backend
    BY <1>1, CurrentCall
  <2>2. /\ AnswerOK(w) /\ CallOK(asked) /\ AnswerTo(w.m, asked, w.seen)
    BY <1>1, ClientReads
  <2>3. ~TooMany(asked)
    BY <2>2 DEF AnswerOK, MadeFor
  <2> HIDE DEF w
  <2>4. PICK n \in Nat :
           LET length == check_integrity(backend, slave, w.m, n)
               rc == check_confirmation(backend, Request(slave, tid, c), w.m, length)
           IN /\ rc # -1
              /\ outcome' = [rc |-> Returned(c, rc), dest |-> Dest(c, rc, w.m),
                             of |-> w.of, seen |-> w.seen]
    BY <1>3, Confirmed DEF w
  <2>5. PICK length : length = check_integrity(backend, slave, w.m, n)
    OBVIOUS
  <2>6. Accepts(backend, Request(slave, tid, c), w.m, length)
    BY <2>4, <2>5 DEF Accepts
  <2>7. /\ c.fn # 17 => w.m.crc
        /\ backend = "tcp" => w.of = made
        /\ /\ backend # "tcp" /\ SlaveTaken(c.slave) /\ SlaveTaken(asked.slave)
           /\ c.fn = FC.REPORT_SLAVE_ID =>
                  backend = "rtu" /\ c.slave # MODBUS_BROADCAST_ADDRESS
           => c.slave = asked.slave \/ asked.slave = MODBUS_BROADCAST_ADDRESS
    BY <1>1, <2>2, <2>5, <2>6, SlaveFits
  <2> HIDE DEF c
  <2>8. /\ w.m.fn = c.fn /\ w.m.fn < 128
        /\ check_confirmation(backend, Request(slave, tid, c), w.m, length) = Given(w.m)
        /\ c.fn # 17 => Asked(Request(slave, tid, c)) = Given(w.m)
    BY <2>1, <2>6, Accepted
  <2> HIDE DEF asked
  <2>9. w.m.fn = asked.fn
    BY <2>2, <2>8, NoException
  <2>10. /\ c.fn \in ReadBits => (c.nb + 7) \div 8 = (asked.nb + 7) \div 8
         /\ c.fn \in ReadRegisters \cup WriteMultiple => c.nb = asked.nb
         /\ c.fn \in Reads =>
              \A i \in 1..Len(w.seen) : i <= c.nb => Dest(c, Given(w.m), w.m)[i] = w.seen[i]
    <3>1. c.fn # 17 => w.m.crc /\ Asked(Request(slave, tid, c)) = Given(w.m)
      BY <2>7, <2>8
    <3>2. PICK s, t : s = slave /\ t = tid
      OBVIOUS
    <3>3. c.fn # 17 => w.m.crc /\ Asked(Request(s, t, c)) = Given(w.m)
      BY <3>1, <3>2
    <3>4. PICK m, seen : m = w.m /\ seen = w.seen
      OBVIOUS
    <3>5. Answering(m, seen, asked, c, s, t)
      BY <2>2, <2>8, <2>9, <3>3, <3>4 DEF Answering
    <3>6. /\ c.fn \in ReadBits => (c.nb + 7) \div 8 = (asked.nb + 7) \div 8
          /\ c.fn \in ReadRegisters \cup WriteMultiple => c.nb = asked.nb
          /\ c.fn \in Reads =>
               \A i \in 1..Len(seen) : i <= c.nb => Dest(c, Given(m), m)[i] = seen[i]
      BY <2>1, <2>2, <2>3, <3>5, ValuesFit
    <3>7. QED
      BY <3>4, <3>6
  <2>11. /\ outcome'.of = w.of /\ outcome'.seen = w.seen
         /\ outcome'.dest = Dest(c, Given(w.m), w.m)
    BY <2>4, <2>5, <2>8
  <2>12. c.fn \in ReadBits \cup ReadRegisters \cup {FC.WRITE_AND_READ_REGISTERS} => c.fn \in Reads
    BY FunctionNumbers DEF Reads
  <2>13. script'[made'] = c /\ script'[outcome'.of] = asked /\ backend' = backend
    BY <1>1, <2>11 DEF c, asked
  <2>14. (SlaveTaken(c.slave) <=> SlaveTaken(script[made].slave)')
         /\ (SlaveTaken(asked.slave) <=> SlaveTaken(script[outcome.of].slave)')
    BY <2>13 DEF SlaveTaken
  <2> DEFINE Same == script[made].fn = script[outcome.of].fn
             Own == backend = "tcp" => outcome.of = made
             Slaves == /\ backend # "tcp" /\ SlaveTaken(script[made].slave)
                       /\ SlaveTaken(script[outcome.of].slave)
                       /\ script[made].fn = FC.REPORT_SLAVE_ID =>
                              backend = "rtu" /\ script[made].slave # MODBUS_BROADCAST_ADDRESS
                       => \/ script[made].slave = script[outcome.of].slave
                          \/ script[outcome.of].slave = MODBUS_BROADCAST_ADDRESS
             Counts == /\ script[made].fn \in ReadBits =>
                              (script[made].nb + 7) \div 8 = (script[outcome.of].nb + 7) \div 8
                       /\ script[made].fn \in ReadRegisters \cup WriteMultiple =>
                              script[made].nb = script[outcome.of].nb
             Values == script[made].fn \in ReadBits \cup ReadRegisters \cup {FC.WRITE_AND_READ_REGISTERS} =>
                          \A i \in 1..Len(outcome.seen) :
                             i <= script[made].nb => outcome.dest[i] = outcome.seen[i]
  <2>15. Same'
    BY <2>8, <2>9, <2>13
  <2>16. Own'
    BY <1>1, <2>7, <2>11
  <2>17. Slaves'
    BY <2>7, <2>13, <2>14
  <2>18. Counts'
    BY <2>10, <2>13
  <2>19. Values'
    BY <2>10, <2>11, <2>12, <2>13
  <2>20. (Same /\ Own /\ Slaves /\ Counts /\ Values => AnswerFits)'
    BY DEF AnswerFits
  <2>21. QED
    BY <2>15, <2>16, <2>17, <2>18, <2>19, <2>20
<1>4. QED
    BY <1>2, <1>3

(* Every other step leaves the outcome, makes it a failure or waits.       *)
LEMMA FitsNext ==
    ASSUME ModInv, FewCalls, AnswerFits, [Next]_vars
    PROVE  AnswerFits'
<1>1. CASE UNCHANGED <<backend, script, made, waiting, outcome>>
    BY <1>1 DEF AnswerFits, SlaveTaken
<1>2. CASE outcome' = Failed
    BY <1>2 DEF AnswerFits, Failed
<1>3. CASE waiting' = TRUE
  <2>1. waiting'
    BY <1>3
  <2>2. QED
    BY <2>1 DEF AnswerFits
<1>4. CASE \E k \in Pieces(reading.left) : Confirm(k)
    BY <1>4, FitsConfirmed
<1>5. \/ UNCHANGED <<backend, script, made, waiting, outcome>>
      \/ outcome' = Failed
      \/ waiting' = TRUE
      \/ \E k \in Pieces(reading.left) : Confirm(k)
  <2>1. CASE Connect \/ Close \/ UNCHANGED vars
    BY <2>1 DEF Connect, Close, fixed, vars, clientVars
  <2>2. CASE CallRefused \/ Send \/ SendFails
    BY <2>2 DEF CallRefused, Send, SendFails
  <2>3. CASE Serve \/ ServeNot \/ IgnoreMessage \/ IgnoreTimeout \/ RequestLost
    BY <2>3 DEF Serve, ServeNot, IgnoreMessage, IgnoreTimeout, RequestLost, fixed, clientVars
  <2>4. CASE \E k \in Pieces(reading.left) : Receive(k) \/ Confirm(k)
    BY <2>4 DEF Receive, fixed
  <2>5. CASE ReceiveJunk \/ Timeout \/ Reset
    BY <2>5 DEF ReceiveJunk, Timeout, Reset
  <2>6. QED
    BY <2>1, <2>2, <2>3, <2>4, <2>5 DEF Next
<1>6. QED
    BY <1>1, <1>2, <1>3, <1>4, <1>5

(* A call of a read or a write returns what the server said when it        *)
(* answered a request of that function, slave and count, and over TCP an   *)
(* answer to this very call: what check_confirmation and the checks of the *)
(* backends compare is enough, for every script so short that the 16 bits  *)
(* of the TCP transactions do not come round.                              *)
THEOREM AnswersFit ==
    ASSUME \A s \in Scripts : Len(s) < 65536
    PROVE  Spec => []AnswerFits
<1>1. ModInv => FewCalls
    BY DEF ModInv, FixedOK, FewCalls
<1>2. Init => AnswerFits
    BY DEF Init, Nothing, AnswerFits
<1>3. ModInv /\ AnswerFits /\ [Next]_vars => AnswerFits'
    BY <1>1, FitsNext
<1>4. QED
    BY <1>2, <1>3, ModAlways, PTL DEF Spec


-----------------------------------------------------------------------------
(* Neither side reads a byte too few or too many.                          *)

(* The byte behind a head stays where it is.                               *)
LEMMA ByteThere ==
    ASSUME NEW d, NEW k \in {4, 8}, Has(d, k), NEW b \in Byte, NEW t \in Seq(Byte)
    PROVE  Join(Join(d, <<b>>), t)[k + 1] = b
<1>1. d \in Seq(Byte) /\ Len(d) = k /\ k \in Nat
    BY DEF Has
<1>2. <<b>> \in Seq(Byte) /\ Len(<<b>>) = 1
    OBVIOUS
<1>3. d \o <<b>> \in Seq(Byte) /\ Len(d \o <<b>>) = Len(d) + 1
    BY <1>1, <1>2, Joined
<1>4. (d \o <<b>>)[Len(d) + 1] = b
    BY <1>1
<1>5. ((d \o <<b>>) \o t)[Len(d) + 1] = (d \o <<b>>)[Len(d) + 1]
  <2>1. \A i \in 1..Len(d \o <<b>>) : ((d \o <<b>>) \o t)[i] = (d \o <<b>>)[i]
    BY <1>3, Behind
  <2>2. Len(d) + 1 \in 1..Len(d \o <<b>>)
    BY <1>1, <1>3
  <2>3. QED
    BY <2>1, <2>2
<1>6. QED
    BY <1>1, <1>4, <1>5 DEF Join

(* The count of bytes in a request that writes many.                       *)
LEMMA BytesCounted ==
    ASSUME NEW c, CallOK(c), ~TooMany(c)
    PROVE  /\ c.fn = 15 => RequestData(c)[5] = ByteCount(c.nb)
           /\ c.fn = 16 => RequestData(c)[5] = c.nb * 2
           /\ c.fn = 23 => RequestData(c)[9] = Len(c.src) * 2
<1>1. c.addr \in Word16 /\ c.nb \in Word16 /\ c.waddr \in Word16 /\ c.src \in Seq(Word16)
    BY CallFacts
<1>2. Has(Join(Bytes(c.addr), Bytes(c.nb)), 4)
    BY <1>1, TwoWords
<1>3. RegisterBytes(c.src) \in Seq(Byte)
    BY <1>1, RegistersInBytes
<1>4. ASSUME c.fn = 15 PROVE RequestData(c)[5] = ByteCount(c.nb)
  <2>1. RequestData(c) =
            Join(Join(Join(Bytes(c.addr), Bytes(c.nb)), <<ByteCount(c.nb)>>), BitBytes(c.src))
    BY <1>4, FunctionNumbers DEF RequestData, write_bits, Join
  <2>2. ByteCount(c.nb) \in Byte /\ c.src \in Seq({0, 1})
    <3>1. c.src \in Seq({0, 1}) /\ ByteCount(c.nb) \in Nat /\ ByteCount(c.nb) <= 246
      BY <1>4, CoilsRequest
    <3>2. QED
      BY <3>1, Numbers
  <2>3. BitBytes(c.src) \in Seq(Byte)
    BY <2>2, BitsInBytes
  <2>4. Join(Join(Join(Bytes(c.addr), Bytes(c.nb)), <<ByteCount(c.nb)>>), BitBytes(c.src))[4 + 1]
            = ByteCount(c.nb)
    BY <1>2, <2>2, <2>3, ByteThere
  <2>5. QED
    BY <2>1, <2>4
<1>5. ASSUME c.fn = 16 PROVE RequestData(c)[5] = c.nb * 2
  <2>1. RequestData(c) =
            Join(Join(Join(Bytes(c.addr), Bytes(c.nb)), <<c.nb * 2>>), RegisterBytes(c.src))
    <3>1. RequestData(c) = write_registers(c)
      BY <1>5, FunctionNumbers DEF RequestData
    <3>2. QED
      BY <3>1 DEF write_registers, Join
  <2>2. c.nb * 2 \in Byte
    <3>1. c.nb \in Nat /\ c.nb <= 123
      BY <1>5, RegistersRequest
    <3>2. c.nb * 2 \in Nat /\ c.nb * 2 <= 255
      BY <3>1
    <3>3. QED
      BY <3>2, Numbers
  <2>3. Join(Join(Join(Bytes(c.addr), Bytes(c.nb)), <<c.nb * 2>>), RegisterBytes(c.src))[4 + 1]
            = c.nb * 2
    BY <1>2, <1>3, <2>2, ByteThere
  <2>4. QED
    BY <2>1, <2>3
<1>6. ASSUME c.fn = 23 PROVE RequestData(c)[9] = Len(c.src) * 2
  <2> DEFINE a == Join(Bytes(c.addr), Bytes(c.nb))
             e == Join(Join(a, Bytes(c.waddr)), Bytes(Len(c.src)))
  <2>1. RequestData(c) = Join(Join(e, <<Len(c.src) * 2>>), RegisterBytes(c.src))
    <3>1. RequestData(c) = write_and_read_registers(c)
      BY <1>6, FunctionNumbers DEF RequestData
    <3>2. QED
      BY <3>1 DEF write_and_read_registers, Join
  <2>2. Len(c.src) \in Nat /\ Len(c.src) <= 121
    BY <1>6, BothRequest
  <2>3. Len(c.src) * 2 \in Byte /\ Len(c.src) \in Word16
    <3>1. Len(c.src) * 2 \in Nat /\ Len(c.src) * 2 <= 255 /\ Len(c.src) <= 65535
      BY <2>2
    <3>2. QED
      BY <2>2, <3>1, Numbers
  <2>4. Has(a, 4)
    BY <1>2
  <2> HIDE DEF a
  <2>5. Has(Join(a, Bytes(c.waddr)), 6)
    BY <1>1, <2>4, PutWord
  <2>6. Has(e, 8)
    BY <2>3, <2>5, PutWord
  <2> HIDE DEF e
  <2>7. Join(Join(e, <<Len(c.src) * 2>>), RegisterBytes(c.src))[8 + 1] = Len(c.src) * 2
    BY <1>3, <2>3, <2>6, ByteThere
  <2>8. QED
    BY <2>1, <2>7
<1>7. QED
    BY <1>4, <1>5, <1>6

(* The server reads the whole of every request a client makes.             *)
LEMMA RequestRead ==
    ASSUME NEW b \in DOMAIN Backend, NEW c, CallOK(c), ~TooMany(c), NEW s, NEW t
    PROVE  LET m == Request(s, t, c) IN
           LengthRead(b, m, "indication") = Length(b, m)
<1> DEFINE m == Request(s, t, c)
           d == RequestData(c)
           meta == compute_meta_length_after_function(c.fn, "indication")
           part == CASE c.fn \in WriteMultiple -> d[5]
                     [] c.fn = FC.WRITE_AND_READ_REGISTERS -> d[9]
                     [] OTHER -> 0
<1>1. m.fn = c.fn /\ m.data = d
    BY DEF Request
<1> HIDE DEF m, d
<1>2. LengthRead(b, m, "indication") = Backend[b].header + 1 + meta + (Backend[b].checksum + part)
    BY <1>1 DEF LengthRead, FirstLength, compute_data_length_after_meta
<1>3. Length(b, m) = Backend[b].header + 1 + Len(d) + Backend[b].checksum
    BY <1>1 DEF Length
<1>4. meta \in Nat /\ part \in Nat /\ Len(d) = meta + part
  <2>1. CASE c.fn \in {1, 2, 3, 4, 5, 6}
    <3>1. meta = 4
      BY <2>1, FunctionNumbers DEF compute_meta_length_after_function
    <3>2. part = 0
      BY <2>1, FunctionNumbers
    <3>3. Has(d, 4)
      BY <2>1, ReadRequest, CoilRequest, RegisterRequest DEF d
    <3>4. QED
      BY <3>1, <3>2, <3>3 DEF Has
  <2>2. CASE c.fn \in {15, 16}
    <3>1. meta = 5
      BY <2>2, FunctionNumbers DEF compute_meta_length_after_function
    <3>2. part = d[5]
      BY <2>2, FunctionNumbers
    <3>3. CASE c.fn = 15
      <4>1. Has(d, 5 + ByteCount(c.nb)) /\ ByteCount(c.nb) \in Nat /\ d[5] = ByteCount(c.nb)
        BY <3>3, CoilsRequest, BytesCounted DEF d
      <4>2. QED
        BY <3>1, <3>2, <4>1 DEF Has
    <3>4. CASE c.fn = 16
      <4>1. Has(d, 5 + 2 * c.nb) /\ c.nb \in Nat /\ d[5] = c.nb * 2
        BY <3>4, RegistersRequest, BytesCounted DEF d
      <4>2. QED
        BY <3>1, <3>2, <4>1 DEF Has
    <3>5. QED
      BY <2>2, <3>3, <3>4
  <2>3. CASE c.fn = 22
    <3>1. meta = 6
      BY <2>3, FunctionNumbers DEF compute_meta_length_after_function
    <3>2. part = 0
      BY <2>3, FunctionNumbers
    <3>3. Has(d, 6)
      BY <2>3, MaskRequest DEF d
    <3>4. QED
      BY <3>1, <3>2, <3>3 DEF Has
  <2>4. CASE c.fn = 23
    <3>1. meta = 9
      BY <2>4, FunctionNumbers DEF compute_meta_length_after_function
    <3>2. part = d[9]
      BY <2>4, FunctionNumbers
    <3>3. Has(d, 9 + 2 * Len(c.src)) /\ Len(c.src) \in Nat /\ d[9] = Len(c.src) * 2
      BY <2>4, BothRequest, BytesCounted DEF d
    <3>4. QED
      BY <3>1, <3>2, <3>3 DEF Has
  <2>5. CASE c.fn = 17
    <3>1. meta = 0
      BY <2>5, FunctionNumbers DEF compute_meta_length_after_function
    <3>2. part = 0
      BY <2>5, FunctionNumbers
    <3>3. d = <<>>
      BY <2>5, FunctionNumbers DEF d, RequestData
    <3>4. Len(d) = 0
      BY <3>3
    <3> HIDE DEF meta, part
    <3>5. QED
      BY <3>1, <3>2, <3>4
  <2>6. QED
    BY <2>1, <2>2, <2>3, <2>4, <2>5, CallFacts
<1> HIDE DEF meta, part
<1>5. Backend[b].header \in Nat /\ Backend[b].checksum \in Nat
    BY Backends
<1>6. QED
    BY <1>2, <1>3, <1>4, <1>5 DEF m

(* A coil is written 0 or 65280. *)
LEMMA CoilWord ==
    ASSUME NEW c, CallOK(c), c.fn = 5
    PROVE  /\ Word(RequestData(c), 3) \in {0, 65280}
           /\ Word(RequestData(c), 3) = 0 <=> c.src[1] = 0
<1> DEFINE h == Bytes(c.addr)
<1>1. RequestData(c) = IF c.src[1] # 0 THEN h \o <<255, 0>> ELSE h \o <<0, 0>>
  <2>1. RequestData(c) = write_bit(c)
    BY FunctionNumbers DEF RequestData
  <2>2. QED
    BY <2>1 DEF write_bit
<1>2. h \in Seq(Byte) /\ Len(h) = 2
    BY CallFacts, WordBytes
<1>3. ASSUME NEW x \in {0, 255}
      PROVE  Word(h \o <<x, 0>>, 3) = x * 256
  <2>1. <<x, 0>> \in Seq(Byte) /\ Len(<<x, 0>>) = 2
    <3>1. x \in Byte /\ 0 \in Byte
      BY DEF Byte
    <3>2. QED
      BY <3>1
  <2>2. Word(h \o <<x, 0>>, Len(h) + 1) = Word(<<x, 0>>, 1)
    <3>1. 1 \in Nat \ {0} /\ 1 + 1 <= Len(<<x, 0>>)
      BY <2>1
    <3> DEFINE e == <<x, 0>>
    <3>2. e \in Seq(Byte) /\ 1 + 1 <= Len(e) /\ h \in Seq(Byte)
      BY <1>2, <2>1, <3>1
    <3> HIDE DEF h, e
    <3>3. Word(h \o e, Len(h) + 1) = Word(e, 1)
      BY <3>1, <3>2, WordBehind
    <3>4. QED
      BY <3>3 DEF e
  <2>3. Word(<<x, 0>>, 1) = x * 256
    BY DEF Word
  <2>4. Len(h) + 1 = 3
    BY <1>2
  <2>5. QED
    BY <2>2, <2>3, <2>4
<1>4. Word(h \o <<255, 0>>, 3) = 65280 /\ Word(h \o <<0, 0>>, 3) = 0
  <2>1. 255 * 256 = 65280 /\ 0 * 256 = 0
    OBVIOUS
  <2>2. Word(h \o <<255, 0>>, 3) = 255 * 256 /\ Word(h \o <<0, 0>>, 3) = 0 * 256
    BY <1>3
  <2>3. QED
    BY <2>1, <2>2
<1> DEFINE on == h \o <<255, 0>>
           off == h \o <<0, 0>>
<1>5. (RequestData(c) = IF c.src[1] # 0 THEN on ELSE off) /\ Word(on, 3) = 65280 /\ Word(off, 3) = 0
    BY <1>1, <1>4
<1> HIDE DEF h, on, off
<1>6. QED
    BY <1>5

(* modbus_reply refuses a request. *)
Refuses(m) == IllegalCount(m) \/ IllegalAddress(m, Size) \/ IllegalCoil(m)

LEMMA Ranges ==
    ASSUME NEW n \in Nat
    PROVE  /\ n \in 1..MAX.READ_BITS <=> n >= 1 /\ n <= MAX.READ_BITS
           /\ n \in 1..MAX.WRITE_BITS <=> n >= 1 /\ n <= MAX.WRITE_BITS
           /\ n \in 1..125 <=> n >= 1 /\ n <= 125
           /\ n \in 1..123 <=> n >= 1 /\ n <= 123
<1>1. \A k \in Nat : n \in 1..k <=> n >= 1 /\ n <= k
    OBVIOUS
<1>2. MAX.READ_BITS \in Nat /\ MAX.WRITE_BITS \in Nat /\ 125 \in Nat /\ 123 \in Nat
    BY Limits
<1>3. QED
    BY <1>1, <1>2

(* What the server can do, function by function. *)
LEMMA FeasibleIs ==
    ASSUME NEW c, CallOK(c)
    PROVE  LET room == Size[Table(c.fn)]
               within(limit) == c.nb >= 1 /\ c.addr + c.nb <= room /\ c.nb <= limit
           IN /\ c.fn \in {1, 2} => (Feasible(c) <=> within(MAX.READ_BITS))
              /\ c.fn \in {3, 4} => (Feasible(c) <=> within(125))
              /\ c.fn = 15 => (Feasible(c) <=> within(MAX.WRITE_BITS))
              /\ c.fn = 16 => (Feasible(c) <=> within(123))
              /\ c.fn = 23 => (Feasible(c) <=> /\ within(125)
                                               /\ Len(c.src) \in 1..121
                                               /\ c.waddr + Len(c.src) <= room)
              /\ c.fn = 17 => Feasible(c)
              /\ c.fn \in {5, 6, 22} => (Feasible(c) <=> c.addr < room)
<1> DEFINE room == Size[Table(c.fn)]
<1>1. c.nb \in Nat
    BY CallFacts, Numbers
<1>2. ASSUME c.fn \in {1, 2}
      PROVE  Feasible(c) <=> c.nb >= 1 /\ c.addr + c.nb <= room /\ c.nb <= MAX.READ_BITS
  <2>1. Feasible(c) <=> c.nb \in 1..MAX.READ_BITS /\ c.addr + c.nb <= room
    BY <1>2, FunctionNumbers, Limits DEF Feasible
  <2>2. c.nb \in 1..MAX.READ_BITS <=> c.nb >= 1 /\ c.nb <= MAX.READ_BITS
    BY <1>1, Ranges
  <2>3. QED
    BY <2>1, <2>2, Zenon
<1>3. ASSUME c.fn \in {3, 4}
      PROVE  Feasible(c) <=> c.nb >= 1 /\ c.addr + c.nb <= room /\ c.nb <= 125
  <2>1. Feasible(c) <=> c.nb \in 1..125 /\ c.addr + c.nb <= room
    BY <1>3, FunctionNumbers, Limits DEF Feasible
  <2>2. c.nb \in 1..125 <=> c.nb >= 1 /\ c.nb <= 125
    BY <1>1, Ranges
  <2>3. QED
    BY <2>1, <2>2, Zenon
<1>4. ASSUME c.fn = 15
      PROVE  Feasible(c) <=> c.nb >= 1 /\ c.addr + c.nb <= room /\ c.nb <= MAX.WRITE_BITS
  <2>1. Feasible(c) <=> c.nb \in 1..MAX.WRITE_BITS /\ c.addr + c.nb <= room
    BY <1>4, FunctionNumbers, Limits DEF Feasible
  <2>2. c.nb \in 1..MAX.WRITE_BITS <=> c.nb >= 1 /\ c.nb <= MAX.WRITE_BITS
    BY <1>1, Ranges
  <2>3. QED
    BY <2>1, <2>2, Zenon
<1>5. ASSUME c.fn = 16
      PROVE  Feasible(c) <=> c.nb >= 1 /\ c.addr + c.nb <= room /\ c.nb <= 123
  <2>1. Feasible(c) <=> c.nb \in 1..123 /\ c.addr + c.nb <= room
    BY <1>5, FunctionNumbers, Limits DEF Feasible
  <2>2. c.nb \in 1..123 <=> c.nb >= 1 /\ c.nb <= 123
    BY <1>1, Ranges
  <2>3. QED
    BY <2>1, <2>2, Zenon
<1>6. ASSUME c.fn = 23
      PROVE  Feasible(c) <=> /\ c.nb >= 1 /\ c.addr + c.nb <= room /\ c.nb <= 125
                             /\ Len(c.src) \in 1..121 /\ c.waddr + Len(c.src) <= room
  <2>1. Feasible(c) <=> /\ c.nb \in 1..125 /\ c.addr + c.nb <= room
                        /\ Len(c.src) \in 1..121 /\ c.waddr + Len(c.src) <= room
    BY <1>6, FunctionNumbers DEF Feasible
  <2>2. c.nb \in 1..125 <=> c.nb >= 1 /\ c.nb <= 125
    BY <1>1, Ranges
  <2>3. QED
    BY <2>1, <2>2, Zenon
<1>7. c.fn = 17 => Feasible(c)
    BY FunctionNumbers DEF Feasible
<1>8. ASSUME c.fn \in {5, 6, 22}
      PROVE  Feasible(c) <=> c.addr < room
  <2>1. /\ c.fn \notin ReadBits /\ c.fn \notin ReadRegisters
        /\ c.fn # FC.WRITE_MULTIPLE_COILS /\ c.fn # FC.WRITE_MULTIPLE_REGISTERS
        /\ c.fn # FC.WRITE_AND_READ_REGISTERS /\ c.fn # FC.REPORT_SLAVE_ID
    BY <1>8, FunctionNumbers
  <2>2. QED
    BY <2>1 DEF Feasible
<1>9. QED
    BY <1>2, <1>3, <1>4, <1>5, <1>6, <1>7, <1>8, Zenon

LEMMA RefusesIs ==
    ASSUME NEW c, CallOK(c), ~TooMany(c), c.fn # 17,
           NEW m, m.fn = c.fn, m.data = RequestData(c)
    PROVE  Refuses(m) <=> ~Feasible(c)
<1> DEFINE room == Size[Table(c.fn)]
<1>1. c.nb \in Nat /\ c.addr \in Nat /\ c.waddr \in Nat
    BY CallFacts, Numbers
<1>2. room \in Nat
  <2>1. Table(c.fn) \in DOMAIN Cell
    BY Cells, Tables, CallFacts
  <2>2. QED
    BY <2>1, ModbusAssumption
<1>3. /\ c.addr + c.nb > room <=> ~(c.addr + c.nb <= room)
      /\ c.addr >= room <=> ~(c.addr < room)
  <2> HIDE DEF room
  <2>1. QED
    BY <1>1, <1>2
<1>4. CASE c.fn \in {1, 2}
  <2>1. Word(m.data, 1) = c.addr /\ Word(m.data, 3) = c.nb
    BY <1>4, ReadRequest
  <2>2. IllegalCount(m) <=> c.nb \notin 1..MAX.READ_BITS
    BY <1>4, <2>1, FunctionNumbers, Limits DEF IllegalCount
  <2>3. IllegalAddress(m, Size) <=> c.addr + c.nb > room
    BY <1>4, <2>1, FunctionNumbers DEF IllegalAddress
  <2>4. ~IllegalCoil(m)
    BY <1>4, FunctionNumbers DEF IllegalCoil
  <2>5. Feasible(c) <=> c.nb >= 1 /\ c.addr + c.nb <= room /\ c.nb <= MAX.READ_BITS
    BY <1>4, FeasibleIs
  <2>6. c.nb \in 1..MAX.READ_BITS <=> c.nb >= 1 /\ c.nb <= MAX.READ_BITS
    BY <1>1, Ranges
  <2>7. QED
    BY <1>3, <2>2, <2>3, <2>4, <2>5, <2>6, Zenon DEF Refuses
<1>5. CASE c.fn \in {3, 4}
  <2>1. Word(m.data, 1) = c.addr /\ Word(m.data, 3) = c.nb
    BY <1>5, ReadRequest
  <2>2. IllegalCount(m) <=> c.nb \notin 1..125
    BY <1>5, <2>1, FunctionNumbers, Limits DEF IllegalCount
  <2>3. IllegalAddress(m, Size) <=> c.addr + c.nb > room
    BY <1>5, <2>1, FunctionNumbers DEF IllegalAddress
  <2>4. ~IllegalCoil(m)
    BY <1>5, FunctionNumbers DEF IllegalCoil
  <2>5. Feasible(c) <=> c.nb >= 1 /\ c.addr + c.nb <= room /\ c.nb <= 125
    BY <1>5, FeasibleIs
  <2>6. c.nb \in 1..125 <=> c.nb >= 1 /\ c.nb <= 125
    BY <1>1, Ranges
  <2>7. QED
    BY <1>3, <2>2, <2>3, <2>4, <2>5, <2>6, Zenon DEF Refuses
<1>6. CASE c.fn = 15
  <2>1. Word(m.data, 1) = c.addr /\ Word(m.data, 3) = c.nb
    BY <1>6, CoilsRequest
  <2>2. IllegalCount(m) <=> c.nb \notin 1..MAX.WRITE_BITS
    BY <1>6, <2>1, FunctionNumbers, Limits DEF IllegalCount
  <2>3. IllegalAddress(m, Size) <=> c.addr + c.nb > room
    BY <1>6, <2>1, FunctionNumbers DEF IllegalAddress
  <2>4. ~IllegalCoil(m)
    BY <1>6, FunctionNumbers DEF IllegalCoil
  <2>5. Feasible(c) <=> c.nb >= 1 /\ c.addr + c.nb <= room /\ c.nb <= MAX.WRITE_BITS
    BY <1>6, FeasibleIs
  <2>6. c.nb \in 1..MAX.WRITE_BITS <=> c.nb >= 1 /\ c.nb <= MAX.WRITE_BITS
    BY <1>1, Ranges
  <2>7. QED
    BY <1>3, <2>2, <2>3, <2>4, <2>5, <2>6, Zenon DEF Refuses
<1>7. CASE c.fn = 16
  <2>1. Word(m.data, 1) = c.addr /\ Word(m.data, 3) = c.nb
    BY <1>7, RegistersRequest
  <2>2. IllegalCount(m) <=> c.nb \notin 1..123
    BY <1>7, <2>1, FunctionNumbers, Limits DEF IllegalCount
  <2>3. IllegalAddress(m, Size) <=> c.addr + c.nb > room
    BY <1>7, <2>1, FunctionNumbers DEF IllegalAddress
  <2>4. ~IllegalCoil(m)
    BY <1>7, FunctionNumbers DEF IllegalCoil
  <2>5. Feasible(c) <=> c.nb >= 1 /\ c.addr + c.nb <= room /\ c.nb <= 123
    BY <1>7, FeasibleIs
  <2>6. c.nb \in 1..123 <=> c.nb >= 1 /\ c.nb <= 123
    BY <1>1, Ranges
  <2>7. QED
    BY <1>3, <2>2, <2>3, <2>4, <2>5, <2>6, Zenon DEF Refuses
<1>8. CASE c.fn = 23
  <2>1. /\ Word(m.data, 1) = c.addr /\ Word(m.data, 3) = c.nb
        /\ Word(m.data, 5) = c.waddr /\ Word(m.data, 7) = Len(c.src)
    BY <1>8, BothRequest
  <2>2. m.data[9] = Word(m.data, 7) * 2
    BY <1>8, <2>1, BytesCounted
  <2>3. IllegalCount(m) <=> Word(m.data, 3) \notin 1..125 \/ Word(m.data, 7) \notin 1..121
    BY <1>8, <2>2, FunctionNumbers, Limits DEF IllegalCount
  <2>4. IllegalAddress(m, Size) <=> c.addr + c.nb > room \/ c.waddr + Len(c.src) > room
    BY <1>8, <2>1, FunctionNumbers DEF IllegalAddress
  <2>5. ~IllegalCoil(m)
    BY <1>8, FunctionNumbers DEF IllegalCoil
  <2>6. Feasible(c) <=> /\ c.nb >= 1 /\ c.addr + c.nb <= room /\ c.nb <= 125
                        /\ Len(c.src) \in 1..121 /\ c.waddr + Len(c.src) <= room
    BY <1>8, FeasibleIs
  <2>7. c.waddr + Len(c.src) > room <=> ~(c.waddr + Len(c.src) <= room)
    <3>1. PICK n \in Nat : n = Len(c.src)
      BY <1>8, BothRequest
    <3> HIDE DEF room
    <3>2. QED
      BY <1>1, <1>2, <3>1
  <2>8. c.nb \in 1..125 <=> c.nb >= 1 /\ c.nb <= 125
    BY <1>1, Ranges
  <2>9. QED
    BY <1>3, <2>1, <2>3, <2>4, <2>5, <2>6, <2>7, <2>8, Zenon DEF Refuses
<1>9. CASE c.fn = 5
  <2>1. Word(m.data, 1) = c.addr /\ Word(m.data, 3) \in {0, 65280}
    BY <1>9, CoilRequest, CoilWord
  <2>2. ~IllegalCount(m) /\ ~IllegalCoil(m)
    BY <1>9, <2>1, FunctionNumbers DEF IllegalCount, IllegalCoil
  <2>3. IllegalAddress(m, Size) <=> c.addr >= room
    BY <1>9, <2>1, FunctionNumbers DEF IllegalAddress
  <2>4. Feasible(c) <=> c.addr < room
    BY <1>9, FeasibleIs
  <2>5. QED
    BY <1>3, <2>2, <2>3, <2>4, Zenon DEF Refuses
<1>10. CASE c.fn \in {6, 22}
  <2>1. Word(m.data, 1) = c.addr
    BY <1>10, RegisterRequest, MaskRequest
  <2>2. ~IllegalCount(m) /\ ~IllegalCoil(m)
    BY <1>10, FunctionNumbers DEF IllegalCount, IllegalCoil
  <2>3. IllegalAddress(m, Size) <=> c.addr >= room
    BY <1>10, <2>1, FunctionNumbers DEF IllegalAddress
  <2>4. Feasible(c) <=> c.addr < room
    BY <1>10, FeasibleIs
  <2>5. QED
    BY <1>3, <2>2, <2>3, <2>4, Zenon DEF Refuses
<1>11. QED
    BY <1>4, <1>5, <1>6, <1>7, <1>8, <1>9, <1>10, CallFacts

(* modbus_reply to a request that may be refused. *)
Refusal(m) == response_exception(m, IF IllegalAddress(m, Size) /\ ~IllegalCount(m) THEN 2 ELSE 3)

LEMMA ReplyChoice ==
    ASSUME NEW m, m.fn \in {1, 2, 3, 4, 5, 6, 15, 16, 22, 23}, NEW mem
    PROVE  LET obeyed == [mem EXCEPT ![Table(m.fn)] = Written(m, mem)] IN
           modbus_reply(m, mem, Size) =
              IF IllegalCount(m)
              THEN [memory |-> mem, flushed |-> TRUE, sent |-> <<response_exception(m, 3)>>]
              ELSE IF IllegalAddress(m, Size)
              THEN [memory |-> mem, flushed |-> FALSE, sent |-> <<response_exception(m, 2)>>]
              ELSE IF IllegalCoil(m)
              THEN [memory |-> mem, flushed |-> FALSE, sent |-> <<response_exception(m, 3)>>]
              ELSE [memory |-> obeyed, flushed |-> FALSE, sent |-> <<Response(m, obeyed)>>]
<1>1. Known(m.fn) /\ m.fn # FC.READ_EXCEPTION_STATUS /\ m.fn # FC.REPORT_SLAVE_ID
    BY FunctionNumbers DEF Known
<1>2. EXCEPTION.ILLEGAL_DATA_VALUE = 3 /\ EXCEPTION.ILLEGAL_DATA_ADDRESS = 2
    BY DEF EXCEPTION
<1>3. QED
    BY <1>1, <1>2 DEF modbus_reply

LEMMA Refused ==
    ASSUME NEW m, m.fn \in {1, 2, 3, 4, 5, 6, 15, 16, 22, 23}, NEW mem, Refuses(m)
    PROVE  ReplyIs(modbus_reply(m, mem, Size), mem, Refusal(m))
<1> DEFINE reply == modbus_reply(m, mem, Size)
           obeyed == [mem EXCEPT ![Table(m.fn)] = Written(m, mem)]
           done == [memory |-> obeyed, flushed |-> FALSE, sent |-> <<Response(m, obeyed)>>]
<1>1. reply =
         IF IllegalCount(m)
         THEN [memory |-> mem, flushed |-> TRUE, sent |-> <<response_exception(m, 3)>>]
         ELSE IF IllegalAddress(m, Size)
         THEN [memory |-> mem, flushed |-> FALSE, sent |-> <<response_exception(m, 2)>>]
         ELSE IF IllegalCoil(m)
         THEN [memory |-> mem, flushed |-> FALSE, sent |-> <<response_exception(m, 3)>>]
         ELSE done
    BY ReplyChoice
<1> HIDE DEF reply, done
<1>2. reply.memory = mem /\ reply.sent = <<Refusal(m)>>
    BY <1>1 DEF Refuses, Refusal
<1>3. QED
    BY <1>2 DEF ReplyIs, reply

LEMMA Obeyed ==
    ASSUME NEW m, m.fn \in {1, 2, 3, 4, 5, 6, 15, 16, 22, 23}, NEW mem, ~Refuses(m)
    PROVE  LET obeyed == [mem EXCEPT ![Table(m.fn)] = Written(m, mem)] IN
           ReplyIs(modbus_reply(m, mem, Size), obeyed, Response(m, obeyed))
<1> DEFINE obeyed == [mem EXCEPT ![Table(m.fn)] = Written(m, mem)]
<1>1. ~IllegalCount(m) /\ ~IllegalAddress(m, Size) /\ ~IllegalCoil(m)
    BY DEF Refuses
<1>2. modbus_reply(m, mem, Size) =
         [memory |-> obeyed, flushed |-> FALSE, sent |-> <<Response(m, obeyed)>>]
    BY <1>1, ReplyChoice
<1> HIDE DEF obeyed
<1>3. QED
    BY <1>2 DEF ReplyIs, obeyed

(* The server answers every request that reaches it, and refuses exactly   *)
(* the calls it cannot do.                                                 *)
LEMMA RepliedIf ==
    ASSUME NEW e \in Envelope, NEW c, e.m.fn = c.fn, e.m.data = RequestData(c),
           CallOK(c), ~TooMany(c), NEW mem, MemoryOK(mem)
    PROVE  \E a \in Answer : /\ Answers(e, modbus_reply(e.m, mem, Size)) = <<a>>
                             /\ Sent(a, e, a.m) /\ AnswerTo(a.m, c, a.seen)
                             /\ a.m.fn = c.fn <=> Feasible(c)
<1> DEFINE m == e.m
           reply == modbus_reply(m, mem, Size)
           obeyed == [mem EXCEPT ![Table(m.fn)] = Written(m, mem)]
           says(a) == /\ Answers(e, reply) = <<a>> /\ Sent(a, e, a.m) /\ AnswerTo(a.m, c, a.seen)
                      /\ a.m.fn = c.fn <=> Feasible(c)
<1>1. m \in Message
    BY DEF Envelope
<1>2. CASE c.fn = 17
  <2>1. ReplyIs(reply, mem, SlaveIdAnswer(m))
    BY <1>2, ReplyShape, FunctionNumbers DEF modbus_reply, ReplyIs, Known
  <2> HIDE DEF reply
  <2>2. PICK a \in Answer : /\ Answers(e, reply) = <<a>> /\ Sent(a, e, SlaveIdAnswer(m))
                            /\ AnswerTo(a.m, c, a.seen)
    BY <1>2, <2>1, SlaveIdSent
  <2>3. Sent(a, e, a.m) /\ a.m = SlaveIdAnswer(m)
    BY <2>2 DEF Sent
  <2>4. a.m.fn = c.fn
    BY <1>1, <2>3 DEF SlaveIdAnswer, Message
  <2>5. Feasible(c)
    BY <1>2, FeasibleIs
  <2>6. says(a)
    BY <2>2, <2>3, <2>4, <2>5
  <2>7. QED
    BY <2>6 DEF reply
<1>3. CASE c.fn # 17 /\ ~Feasible(c)
  <2>1. Refuses(m)
    BY <1>3, RefusesIs
  <2>2. m.fn \in {1, 2, 3, 4, 5, 6, 15, 16, 22, 23}
    BY <1>3, CallFacts
  <2>3. ReplyIs(reply, mem, Refusal(m))
    BY <2>1, <2>2, Refused
  <2> HIDE DEF reply
  <2>. PICK code \in {1, 2, 3} : ReplyIs(reply, mem, response_exception(m, code))
    BY <2>3 DEF Refusal
  <2>4. PICK a \in Answer : /\ Answers(e, reply) = <<a>>
                            /\ Sent(a, e, response_exception(m, code))
                            /\ AnswerTo(a.m, c, a.seen) /\ a.m.fn # c.fn
    BY ExceptionSays
  <2>5. Sent(a, e, a.m)
    BY <2>4 DEF Sent
  <2>6. says(a)
    BY <1>3, <2>4, <2>5
  <2>7. QED
    BY <2>6 DEF reply
<1>4. CASE c.fn # 17 /\ Feasible(c)
  <2>1. ~Refuses(m)
    BY <1>4, RefusesIs
  <2>2. m.fn \in {1, 2, 3, 4, 5, 6, 15, 16, 22, 23}
    BY <1>4, CallFacts
  <2>3. ReplyIs(reply, obeyed, Response(m, obeyed))
    BY <2>1, <2>2, Obeyed
  <2>4. MemoryOK(obeyed)
    BY <1>4, Obeys
  <2>5. ~IllegalCount(m)
    BY <2>1 DEF Refuses
  <2> HIDE DEF reply, obeyed
  <2>6. PICK a \in Answer : /\ Answers(e, reply) = <<a>> /\ Sent(a, e, Response(m, obeyed))
                            /\ AnswerTo(a.m, c, a.seen)
    BY <1>4, <2>3, <2>4, <2>5, ResponseSent
  <2>7. Sent(a, e, a.m) /\ a.m = Response(m, obeyed)
    BY <2>6 DEF Sent
  <2>8. a.m.fn = c.fn
    <3>1. PICK x : x = Response(m, obeyed) /\ x = [m EXCEPT !.data = x.data]
      BY <1>1, <1>4, <2>4, <2>5, ResponseSays
    <3>2. x.fn = m.fn
      BY <1>1, <3>1 DEF Message
    <3>3. QED
      BY <2>7, <3>1, <3>2
  <2>9. says(a)
    BY <1>4, <2>6, <2>7, <2>8
  <2>10. QED
    BY <2>9 DEF reply
<1>5. QED
    BY <1>2, <1>3, <1>4

LEMMA AnswerLengths ==
    ASSUME NEW c
    PROVE  /\ c.fn \in {1, 2} => AnswerLength(c) = 1 + ByteCount(c.nb)
           /\ c.fn \in {3, 4, 23} => AnswerLength(c) = 1 + 2 * c.nb
           /\ c.fn = 17 => AnswerLength(c) = 11
           /\ c.fn = 22 => AnswerLength(c) = 6
           /\ c.fn \in {5, 6, 15, 16} => AnswerLength(c) = 4
BY FunctionNumbers DEF AnswerLength, WordReads

(* The client reads the whole of every answer that was not damaged.        *)
LEMMA AnswerRead ==
    ASSUME NEW b \in DOMAIN Backend, NEW c, CallOK(c), NEW m \in Message, m.crc,
           NEW seen, AnswerTo(m, c, seen)
    PROVE  LET meta == compute_meta_length_after_function(m.fn, "confirmation")
               data == compute_data_length_after_meta(b, m, "confirmation")
           IN /\ FirstLength(b) \in Nat /\ meta \in Nat /\ meta > 0 /\ data \in Nat
              /\ LengthRead(b, m, "confirmation") = FirstLength(b) + meta + data
              /\ LengthRead(b, m, "confirmation") = Length(b, m)
              /\ Length(b, m) <= Backend[b].max_adu
<1> DEFINE meta == compute_meta_length_after_function(m.fn, "confirmation")
           data == compute_data_length_after_meta(b, m, "confirmation")
           part == IF m.fn <= FC.READ_INPUT_REGISTERS
                      \/ m.fn \in {FC.REPORT_SLAVE_ID, FC.WRITE_AND_READ_REGISTERS}
                   THEN m.data[1] ELSE 0
<1>1. data = Backend[b].checksum + part
    BY DEF compute_data_length_after_meta
<1>2. Length(b, m) = Backend[b].header + 1 + Len(m.data) + Backend[b].checksum
    BY DEF Length
<1>3. LengthRead(b, m, "confirmation") = FirstLength(b) + meta + data
    BY DEF LengthRead
<1>4. meta \in Nat /\ meta > 0 /\ part \in Nat /\ Len(m.data) = meta + part
  <2>0. c.nb \in Nat /\ c.fn \in Nat /\ m.fn \in Nat
    <3>1. c.nb \in Nat
      BY CallFacts, Numbers
    <3>2. c.fn \in {1, 2, 3, 4, 5, 6, 15, 16, 17, 22, 23}
      BY CallFacts
    <3>3. c.fn \in Nat
      BY <3>2
    <3>4. m.fn \in Nat
      BY DEF Message
    <3>5. QED
      BY <3>1, <3>3, <3>4
  <2>1. CASE m.fn = c.fn /\ c.fn \in {1, 2}
    <3>1. Len(m.data) = 1 + ByteCount(c.nb) /\ m.data[1] = ByteCount(c.nb)
      BY <2>1, AnswerLengths, FunctionNumbers DEF AnswerTo, Says
    <3>2. ByteCount(c.nb) \in Nat
      BY <2>0, ByteCounts
    <3>3. meta = 1 /\ part = m.data[1]
      BY <2>1, FunctionNumbers DEF compute_meta_length_after_function
    <3> HIDE DEF meta, part
    <3>4. QED
      BY <3>1, <3>2, <3>3
  <2>2. CASE m.fn = c.fn /\ c.fn \in {3, 4, 23}
    <3>1. Len(m.data) = 1 + 2 * c.nb /\ m.data[1] = 2 * c.nb
      BY <2>2, AnswerLengths DEF AnswerTo, Says, WordReads
    <3>2. meta = 1 /\ part = m.data[1]
      BY <2>2, FunctionNumbers DEF compute_meta_length_after_function
    <3>3. PICK n \in Nat : n = c.nb
      BY <2>0
    <3>4. 2 * n \in Nat /\ Len(m.data) = 1 + 2 * n /\ m.data[1] = 2 * n
      BY <3>1, <3>3
    <3> HIDE DEF meta, part
    <3>5. QED
      BY <3>2, <3>4
  <2>3. CASE m.fn = c.fn /\ c.fn = 17
    <3>1. Len(m.data) = 11 /\ m.data[1] = 10
      BY <2>3, AnswerLengths DEF AnswerTo
    <3>2. meta = 1 /\ part = m.data[1]
      BY <2>3, FunctionNumbers DEF compute_meta_length_after_function
    <3> HIDE DEF meta, part
    <3>3. QED
      BY <3>1, <3>2
  <2>4. CASE m.fn = c.fn /\ c.fn = 22
    <3>1. Len(m.data) = 6
      BY <2>4, AnswerLengths DEF AnswerTo
    <3>2. meta = 6 /\ part = 0
      BY <2>4, FunctionNumbers DEF compute_meta_length_after_function
    <3> HIDE DEF meta, part
    <3>3. QED
      BY <3>1, <3>2
  <2>5. CASE m.fn = c.fn /\ c.fn \in {5, 6, 15, 16}
    <3>1. Len(m.data) = 4
      BY <2>5, AnswerLengths DEF AnswerTo
    <3>2. meta = 4 /\ part = 0
      BY <2>5, FunctionNumbers DEF compute_meta_length_after_function
    <3> HIDE DEF meta, part
    <3>3. QED
      BY <3>1, <3>2
  <2>6. CASE m.fn # c.fn
    <3>1. Len(m.data) = 1 /\ m.fn > 128
      <4>1. m.fn = c.fn + 128 /\ Len(m.data) = 1
        BY <2>6 DEF AnswerTo
      <4>2. c.fn \in {1, 2, 3, 4, 5, 6, 15, 16, 17, 22, 23}
        BY CallFacts
      <4>3. c.fn \in Nat /\ c.fn > 0
        BY <4>2
      <4>4. QED
        BY <4>1, <4>3
    <3>2. meta = 1 /\ part = 0
      BY <2>0, <3>1, FunctionNumbers DEF compute_meta_length_after_function
    <3> HIDE DEF meta, part
    <3>3. QED
      BY <3>1, <3>2
  <2>7. QED
    BY <2>1, <2>2, <2>3, <2>4, <2>5, <2>6, CallFacts
<1>5. Backend[b].header \in Nat /\ Backend[b].checksum \in Nat
    BY Backends
<1>6. Length(b, m) <= Backend[b].max_adu
  <2>1. m.data \in Seq(Byte) /\ Len(m.data) <= 251
    BY AnswerLengthBound DEF Message
  <2>2. QED
    BY <2>1, Fits
<1> HIDE DEF meta, data, part
<1>7. FirstLength(b) = Backend[b].header + 1
    BY DEF FirstLength
<1>8. FirstLength(b) \in Nat /\ data \in Nat /\ FirstLength(b) + meta + data = Length(b, m)
  <2>1. PICK h \in Nat : h = Backend[b].header
    BY <1>5
  <2>2. PICK k \in Nat : k = Backend[b].checksum
    BY <1>5
  <2>3. PICK n \in Nat : n = meta
    BY <1>4
  <2>4. PICK p \in Nat : p = part
    BY <1>4
  <2>5. data = k + p /\ FirstLength(b) = h + 1 /\ Length(b, m) = h + 1 + (n + p) + k
    BY <1>1, <1>2, <1>4, <1>7, <2>1, <2>2, <2>3, <2>4
  <2>6. QED
    BY <2>3, <2>5
<1>9. QED
    BY <1>3, <1>4, <1>6, <1>8 DEF meta, data

(* The length expected of the answer to a request is that of an answer     *)
(* that refuses nothing.                                                   *)
LEMMA LengthExpected ==
    ASSUME NEW b \in DOMAIN Backend, NEW c, CallOK(c), ~TooMany(c), c.fn # 17,
           NEW s, NEW t, NEW m, m.fn = c.fn, NEW seen, AnswerTo(m, c, seen)
    PROVE  compute_response_length_from_request(b, Request(s, t, c)) = Length(b, m)
<1> DEFINE req == Request(s, t, c)
           x == CASE req.fn \in ReadBits -> 2 + ByteCount(Word(req.data, 3))
                  [] req.fn \in ReadRegisters \cup {FC.WRITE_AND_READ_REGISTERS} ->
                        2 + 2 * Word(req.data, 3)
                  [] req.fn = FC.READ_EXCEPTION_STATUS -> 3
                  [] req.fn = FC.MASK_WRITE_REGISTER -> 7
                  [] OTHER -> 5
<1>1. req.fn = c.fn /\ req.data = RequestData(c)
    BY DEF Request
<1> HIDE DEF req
<1>2. compute_response_length_from_request(b, req) = Backend[b].header + Backend[b].checksum + x
    BY <1>1, FunctionNumbers DEF compute_response_length_from_request
<1>3. Len(m.data) = AnswerLength(c)
    BY DEF AnswerTo
<1>4. AnswerLength(c) \in Nat /\ x = 1 + AnswerLength(c)
  <2>1. CASE c.fn \in {1, 2}
    <3>1. req.fn \in ReadBits /\ req.fn \notin ReadRegisters \cup {FC.WRITE_AND_READ_REGISTERS}
          /\ req.fn # FC.MASK_WRITE_REGISTER /\ req.fn # FC.READ_EXCEPTION_STATUS
      BY <1>1, <2>1, FunctionNumbers
    <3>2. Word(req.data, 3) = c.nb
      BY <1>1, <2>1, ReadRequest
    <3>3. PICK k \in Nat : k = ByteCount(c.nb)
      <4>1. c.nb \in Nat
        BY CallFacts, Numbers
      <4>2. QED
        BY <4>1, ByteCounts
    <3>4. x = 2 + k
      BY <3>1, <3>2, <3>3
    <3>5. AnswerLength(c) = 1 + k
      BY <2>1, <3>3, AnswerLengths
    <3>6. QED
      BY <3>4, <3>5
  <2>2. CASE c.fn \in {3, 4, 23}
    <3>1. req.fn \notin ReadBits /\ req.fn \in ReadRegisters \cup {FC.WRITE_AND_READ_REGISTERS}
          /\ req.fn # FC.MASK_WRITE_REGISTER /\ req.fn # FC.READ_EXCEPTION_STATUS
      BY <1>1, <2>2, FunctionNumbers
    <3>2. Word(req.data, 3) = c.nb
      BY <1>1, <2>2, ReadRequest, BothRequest
    <3>3. PICK k \in Nat : k = c.nb
      BY CallFacts, Numbers
    <3>4. x = 2 + 2 * k
      BY <3>1, <3>2, <3>3
    <3>5. AnswerLength(c) = 1 + 2 * k
      BY <2>2, <3>3, AnswerLengths
    <3>6. QED
      BY <3>4, <3>5
  <2>3. CASE c.fn = 22
    <3>1. x = 7
      BY <1>1, <2>3, FunctionNumbers
    <3>2. AnswerLength(c) = 6
      BY <2>3, AnswerLengths
    <3>3. QED
      BY <3>1, <3>2
  <2>4. CASE c.fn \in {5, 6, 15, 16}
    <3>1. /\ req.fn \notin ReadBits /\ req.fn \notin ReadRegisters \cup {FC.WRITE_AND_READ_REGISTERS}
          /\ req.fn # FC.MASK_WRITE_REGISTER /\ req.fn # FC.READ_EXCEPTION_STATUS
      BY <1>1, <2>4, FunctionNumbers
    <3>2. x = 5
      BY <3>1
    <3>3. AnswerLength(c) = 4
      BY <2>4, AnswerLengths
    <3>4. QED
      BY <3>2, <3>3
  <2>5. QED
    BY <2>1, <2>2, <2>3, <2>4, CallFacts
<1> HIDE DEF x
<1>5. Length(b, m) = Backend[b].header + 1 + AnswerLength(c) + Backend[b].checksum
    BY <1>3 DEF Length
<1>6. Backend[b].header \in Nat /\ Backend[b].checksum \in Nat
    BY Backends
<1>7. QED
  <2>1. PICK h \in Nat : h = Backend[b].header
    BY <1>6
  <2>2. PICK k \in Nat : k = Backend[b].checksum
    BY <1>6
  <2>3. PICK n \in Nat : n = AnswerLength(c)
    BY <1>4
  <2>4. compute_response_length_from_request(b, req) = h + k + (1 + n) /\ Length(b, m) = h + 1 + n + k
    BY <1>2, <1>4, <1>5, <2>1, <2>2, <2>3
  <2>5. QED
    BY <2>4 DEF req

(* The count an answer gives is the count that was asked for.              *)
LEMMA CountGiven ==
    ASSUME NEW c, CallOK(c), ~TooMany(c), NEW s, NEW t,
           NEW m, m.fn = c.fn, m.crc, NEW seen, AnswerTo(m, c, seen)
    PROVE  /\ c.fn # 17 => Asked(Request(s, t, c)) = Given(m)
           /\ Given(m) # -1 /\ Returned(c, Given(m)) = Count(c)
<1>1. c.nb \in Nat
    BY CallFacts, Numbers
<1>2. Says(m.data, c, seen) /\ (m.fn = 17 => m.data[1] = 10)
    BY DEF AnswerTo
<1>3. CASE c.fn \in {1, 2}
  <2>1. m.data[1] = ByteCount(c.nb)
    BY <1>2, <1>3, FunctionNumbers DEF Says
  <2>2. Given(m) = m.data[1]
    BY <1>3, FunctionNumbers DEF Given
  <2>3. Asked(Request(s, t, c)) = ByteCount(c.nb)
    BY <1>3, AskedIs
  <2>4. ByteCount(c.nb) \in Nat
    BY <1>1, ByteCounts
  <2>5. Given(m) # -1
    BY <2>1, <2>2, <2>4
  <2>6. Returned(c, Given(m)) = c.nb
    BY <1>3, <2>5, FunctionNumbers DEF Returned
  <2>7. Count(c) = c.nb
    BY <1>3, FunctionNumbers DEF Count
  <2>8. QED
    BY <2>1, <2>2, <2>3, <2>5, <2>6, <2>7, Zenon
<1>4. CASE c.fn \in {3, 4, 23}
  <2>1. m.data[1] = 2 * c.nb
    BY <1>2, <1>4 DEF Says, WordReads
  <2>2. Given(m) = m.data[1] \div 2
    BY <1>4, FunctionNumbers DEF Given
  <2>3. Given(m) = c.nb
    <3>1. PICK n \in Nat : n = c.nb
      BY <1>1
    <3>2. (2 * n) \div 2 = n
      OBVIOUS
    <3>3. QED
      BY <2>1, <2>2, <3>1, <3>2
  <2>4. Asked(Request(s, t, c)) = c.nb
    BY <1>4, AskedIs
  <2>5. Returned(c, c.nb) = c.nb
    BY <1>4, FunctionNumbers DEF Returned
  <2>6. Count(c) = c.nb
    BY <1>4, FunctionNumbers DEF Count
  <2>7. c.nb # -1
    BY <1>1
  <2>8. QED
    BY <2>3, <2>4, <2>5, <2>6, <2>7, Zenon
<1>5. CASE c.fn \in {15, 16}
  <2>1. Word(m.data, 3) = c.nb
    BY <1>2, <1>5, FunctionNumbers DEF Says
  <2>2. Given(m) = Word(m.data, 3)
    BY <1>5, FunctionNumbers DEF Given
  <2>3. Asked(Request(s, t, c)) = c.nb
    BY <1>5, AskedIs
  <2>4. Returned(c, c.nb) = c.nb
    BY <1>5, FunctionNumbers DEF Returned
  <2>5. Count(c) = c.nb
    BY <1>5, FunctionNumbers DEF Count
  <2>6. c.nb # -1
    BY <1>1
  <2>7. QED
    BY <2>1, <2>2, <2>3, <2>4, <2>5, <2>6, Zenon
<1>6. CASE c.fn \in {5, 6, 22}
  <2>1. Given(m) = 1
    <3>1. /\ m.fn \notin ReadBits /\ m.fn \notin WriteMultiple /\ m.fn # FC.REPORT_SLAVE_ID
          /\ m.fn \notin ReadRegisters \cup {FC.WRITE_AND_READ_REGISTERS}
      BY <1>6, FunctionNumbers
    <3>2. QED
      BY <3>1 DEF Given
  <2>2. Asked(Request(s, t, c)) = 1
    BY <1>6, AskedIs
  <2>3. Returned(c, 1) = 1
    BY <1>6, FunctionNumbers DEF Returned
  <2>4. Count(c) = 1
    BY <1>6, FunctionNumbers DEF Count
  <2>5. QED
    BY <2>1, <2>2, <2>3, <2>4
<1>7. CASE c.fn = 17
  <2>1. Given(m) = 10
    BY <1>2, <1>7, FunctionNumbers DEF Given
  <2>2. Returned(c, 10) = 10 /\ Count(c) = 10
    BY <1>7, FunctionNumbers DEF Returned, Count
  <2>3. QED
    BY <1>7, <2>1, <2>2
<1>8. QED
    BY <1>3, <1>4, <1>5, <1>6, <1>7, CallFacts

(* An answer to the call is accepted, if it refuses nothing.               *)
LEMMA AnswerTaken ==
    ASSUME NEW b \in DOMAIN Backend, NEW c, CallOK(c), ~TooMany(c), NEW s, NEW t,
           NEW m \in Message, m.crc, m.slave = s, m.tid = t, NEW seen, AnswerTo(m, c, seen)
    PROVE  LET rc == check_confirmation(b, Request(s, t, c), m, Length(b, m)) IN
           IF m.fn = c.fn THEN rc # -1 /\ Returned(c, rc) = Count(c) ELSE rc = -1
<1> DEFINE req == Request(s, t, c)
           computed == compute_response_length_from_request(b, req)
<1>1. req.fn = c.fn /\ req.slave = s /\ req.tid = t
    BY DEF Request
<1>2. CASE m.fn # c.fn
  <2> HIDE DEF req
  <2>1. QED
    BY <1>1, <1>2 DEF check_confirmation, req
<1>3. CASE m.fn = c.fn
  <2>1. c.fn # 17 => Asked(req) = Given(m)
    BY <1>3, CountGiven
  <2>2. Given(m) # -1 /\ Returned(c, Given(m)) = Count(c)
    BY <1>3, CountGiven
  <2>3. c.fn # 17 => Length(b, m) = computed
    BY <1>3, LengthExpected
  <2>4. c.fn = 17 => computed = MSG_LENGTH_UNDEFINED
    BY <1>1, FunctionNumbers DEF compute_response_length_from_request
  <2>5. pre_check_confirmation(b, req, m)
    BY <1>1, Backends DEF pre_check_confirmation
  <2>6. m.fn < 128
    <3>1. c.fn \in {1, 2, 3, 4, 5, 6, 15, 16, 17, 22, 23}
      BY CallFacts
    <3>2. QED
      BY <1>3, <3>1
  <2> HIDE DEF req, computed
  <2>7. SameCount(req, m)
    BY <1>3, <2>1, FunctionNumbers DEF SameCount
  <2>8. check_confirmation(b, req, m, Length(b, m)) = Given(m)
    BY <1>1, <1>3, <2>3, <2>4, <2>5, <2>6, <2>7 DEF check_confirmation, computed
  <2>9. QED
    BY <1>3, <2>2, <2>8 DEF req
<1>4. QED
    BY <1>2, <1>3

-----------------------------------------------------------------------------
(* While nothing goes wrong, one message at most is under way: the request *)
(* of the call that waits, or the answer to it, of which what is still to  *)
(* be read is there; or the request has gone to another slave.             *)

(* The outcome that is due. *)
Due(c) == IF Possible(c) THEN Count(c) ELSE -1

(* How far the client has decided to read in each step. *)
ToRead(r, m) ==
    /\ r.step = "function" => r.length + r.left = FirstLength(backend)
    /\ r.step = "meta" =>
          r.length + r.left =
             FirstLength(backend) + compute_meta_length_after_function(m.fn, "confirmation")
    /\ r.step = "data" => r.length + r.left = LengthRead(backend, m, "confirmation")

(* The answer to the call that waits. *)
Reply(w) ==
    /\ w.whole /\ w.m.crc /\ w.m.slave = slave /\ w.m.tid = tid
    /\ AnswerTo(w.m, script[made], w.seen)
    /\ w.m.fn = script[made].fn <=> Possible(script[made])

Settled ==
    ~waiting /\ toServer = <<>> /\ wire = <<>> /\ (made > 0 => outcome.rc = Due(script[made]))
Requesting ==
    /\ waiting /\ wire = <<>> /\ reading = Start
    /\ toServer = <<[m |-> Request(slave, tid, script[made]), of |-> made]>>
Answered ==
    /\ waiting /\ toServer = <<>>
    /\ \E w \in Answer : wire = <<w>> /\ Reply(w) /\ ToRead(reading, w.m)
Unheard ==
    waiting /\ toServer = <<>> /\ wire = <<>> /\ reading = Start /\ ~Possible(script[made])

OneMessage == clean => Settled \/ Requesting \/ Answered \/ Unheard

(* What the server can do of a call depends on nothing that changes while  *)
(* the call waits.                                                         *)
LEMMA PossibleSteady ==
    ASSUME UNCHANGED <<backend, script, slave, made>>
    PROVE  /\ Possible(script[made])' <=> Possible(script[made])
           /\ Due(script[made])' = Due(script[made])
BY DEF Possible, Feasible, Due, Count

LEMMA OneSame ==
    ASSUME OneMessage,
           UNCHANGED <<backend, script, slave, tid, made, waiting, reading, outcome, clean, wire,
                       toServer>>
    PROVE  OneMessage'
<1>1. Settled => Settled'
    BY PossibleSteady DEF Settled
<1>2. Requesting => Requesting'
    BY DEF Requesting, Start
<1>3. Answered => Answered'
    BY PossibleSteady DEF Answered, Reply, ToRead
<1>4. Unheard => Unheard'
    BY PossibleSteady DEF Unheard, Start
<1>5. QED
    BY <1>1, <1>2, <1>3, <1>4 DEF OneMessage

(* Connecting, and calls that are refused or sent.                         *)
LEMMA OneConnect == OneMessage /\ (Connect \/ Close) => OneMessage'
<1> SUFFICES ASSUME OneMessage, Connect \/ Close PROVE OneMessage'
    OBVIOUS
<1>1. UNCHANGED <<backend, script, slave, tid, made, waiting, reading, outcome, clean>>
    BY DEF Connect, Close, fixed
<1>2. CASE Connect
    BY <1>1, <1>2, OneSame DEF Connect, lineVars
<1>3. CASE Close
  <2>1. ~waiting /\ wire' = <<>> /\ (toServer' = <<>> \/ toServer' = toServer)
    BY <1>3 DEF Close
  <2>2. clean => Settled
    BY <2>1 DEF OneMessage, Requesting, Answered, Unheard
  <2>3. clean' => Settled'
    BY <1>1, <2>1, <2>2, PossibleSteady DEF Settled
  <2>4. QED
    BY <2>3 DEF OneMessage
<1>4. QED
    BY <1>2, <1>3

LEMMA Infeasible ==
    ASSUME NEW c, CallOK(c), TooMany(c)
    PROVE  ~Feasible(c)
<1>1. c.nb \in Nat
    BY CallFacts, Numbers
<1>2. c.fn = 23 => Len(c.src) \in Nat
    BY CallFacts
<1>3. CASE c.fn \in {1, 2}
  <2>1. c.nb > MAX.READ_BITS
    BY <1>3, FunctionNumbers DEF TooMany
  <2>2. Feasible(c) => c.nb <= MAX.READ_BITS
    BY <1>3, FeasibleIs
  <2>3. MAX.READ_BITS \in Nat
    BY Limits
  <2>4. QED
    BY <1>1, <2>1, <2>2, <2>3
<1>4. CASE c.fn \in {3, 4}
  <2>1. c.nb > 125
    BY <1>4, FunctionNumbers, Limits DEF TooMany
  <2>2. Feasible(c) => c.nb <= 125
    BY <1>4, FeasibleIs
  <2>3. QED
    BY <1>1, <2>1, <2>2
<1>5. CASE c.fn = 15
  <2>1. c.nb > MAX.WRITE_BITS
    BY <1>5, FunctionNumbers DEF TooMany
  <2>2. Feasible(c) => c.nb <= MAX.WRITE_BITS
    BY <1>5, FeasibleIs
  <2>3. MAX.WRITE_BITS \in Nat
    BY Limits
  <2>4. QED
    BY <1>1, <2>1, <2>2, <2>3
<1>6. CASE c.fn = 16
  <2>1. c.nb > 123
    BY <1>6, FunctionNumbers, Limits DEF TooMany
  <2>2. Feasible(c) => c.nb <= 123
    BY <1>6, FeasibleIs
  <2>3. QED
    BY <1>1, <2>1, <2>2
<1>7. CASE c.fn = 23
  <2>1. Len(c.src) > 121 \/ c.nb > 125
    BY <1>7, FunctionNumbers, Limits DEF TooMany
  <2>2. Feasible(c) => c.nb <= 125 /\ Len(c.src) \in 1..121
    BY <1>7, FeasibleIs
  <2>3. PICK n \in Nat : n = Len(c.src)
    BY <1>2, <1>7
  <2>4. PICK k \in Nat : k = c.nb
    BY <1>1
  <2>5. n > 121 \/ k > 125
    BY <2>1, <2>3, <2>4
  <2>6. Feasible(c) => k <= 125 /\ n \in 1..121
    BY <2>2, <2>3, <2>4, Zenon
  <2>7. QED
    BY <2>5, <2>6
<1>8. CASE c.fn \in {5, 6, 17, 22}
    BY <1>8, FunctionNumbers DEF TooMany
<1>9. QED
    BY <1>3, <1>4, <1>5, <1>6, <1>7, <1>8, CallFacts

LEMMA OneCall == ModInv /\ OneMessage /\ (CallRefused \/ Send \/ SendFails) => OneMessage'
<1> SUFFICES ASSUME ModInv, OneMessage, CallRefused \/ Send \/ SendFails PROVE OneMessage'
    OBVIOUS
<1>1. Calling /\ UNCHANGED <<backend, script>>
    BY DEF CallRefused, Send, SendFails, fixed
<1>2. clean => Settled
    BY <1>1 DEF OneMessage, Requesting, Answered, Unheard, Calling
<1>3. CASE CallRefused
  <2>1. /\ TooMany(script[made']) /\ outcome' = Failed
        /\ UNCHANGED <<waiting, toServer, wire, clean>>
    BY <1>3 DEF CallRefused, Calling, lineVars
  <2>2. CallOK(script[made'])
    BY <1>1, CallMade DEF ModInv
  <2>3. ~Feasible(script[made'])
    BY <2>1, <2>2, Infeasible
  <2>4. ~Possible(script[made])'
    <3>1. script'[made'] = script[made']
      BY <1>1
    <3>2. Possible(script[made])' => Feasible(script'[made'])
      BY DEF Possible
    <3>3. QED
      BY <2>3, <3>1, <3>2
  <2>5. QED
    BY <1>2, <2>1, <2>4 DEF OneMessage, Settled, Due, Failed
<1>4. CASE Send
  <2>1. /\ toServer' = Append(toServer, [m |-> Request(slave', tid', script[made + 1]), of |-> made'])
        /\ waiting' = TRUE /\ reading' = Start /\ UNCHANGED <<wire, clean>>
    BY <1>4 DEF Send
  <2>2. made' = made + 1
    BY <1>1 DEF Calling
  <2>3. reading' = Start'
    BY <1>1, <2>1 DEF Start
  <2>4. clean => Requesting'
    BY <1>1, <1>2, <2>1, <2>2, <2>3 DEF Settled, Requesting
  <2>5. QED
    BY <2>1, <2>4 DEF OneMessage
<1>5. CASE SendFails
    BY <1>5 DEF SendFails, OneMessage
<1>6. QED
    BY <1>3, <1>4, <1>5

(* The server reads the one request there is. *)
LEMMA OneRequest ==
    ASSUME ModInv, OneMessage, clean, toServer # <<>>
    PROVE  /\ Requesting /\ wire = <<>> /\ Tail(toServer) = <<>>
           /\ request \in Envelope /\ request.of = made
           /\ request.m = Request(slave, tid, script[made])
           /\ request.m.fn = script[made].fn /\ request.m.data = RequestData(script[made])
           /\ request.m.slave = slave /\ request.m.tid = tid /\ request.m.crc
           /\ CallOK(script[made]) /\ ~TooMany(script[made])
           /\ Understood
           /\ Addressed <=> backend = "tcp" \/ slave \in {ServerId, MODBUS_BROADCAST_ADDRESS}
<1> DEFINE c == script[made]
           req == Request(slave, tid, c)
<1>1. Requesting
    BY DEF OneMessage, Settled, Answered, Unheard
<1>2. request.m = req /\ request.of = made /\ Tail(toServer) = <<>> /\ wire = <<>>
    BY <1>1 DEF Requesting, request
<1>3. request \in Envelope /\ CallOK(c) /\ ~TooMany(c)
    BY <1>2, ServerReads
<1>4. /\ req.fn = c.fn /\ req.data = RequestData(c) /\ req.slave = slave /\ req.tid = tid
      /\ req.crc = TRUE
    BY DEF Request
<1>5. backend \in DOMAIN Backend
    BY DEF ModInv, FixedOK
<1>6. LengthRead(backend, req, "indication") = Length(backend, req)
    BY <1>3, <1>5, RequestRead
<1>7. Length(backend, req) \in Nat /\ Length(backend, req) > 0
  <2>1. req.data \in Seq(Byte) /\ Len(req.data) <= 251
    BY <1>3, <1>4, RequestLength
  <2> HIDE DEF req
  <2>2. QED
    BY <1>5, <2>1, Fits
<1> HIDE DEF req, c
<1>8. Understood
    BY <1>2, <1>6 DEF Understood
<1>9. Addressed <=> backend = "tcp" \/ slave \in {ServerId, MODBUS_BROADCAST_ADDRESS}
  <2>1. Addressed <=> check_integrity(backend, ServerId, req, Length(backend, req)) > 0
    BY <1>2 DEF Addressed
  <2>2. QED
    BY <1>4, <1>7, <2>1 DEF check_integrity
<1>10. QED
    BY <1>1, <1>2, <1>3, <1>4, <1>8, <1>9 DEF req, c

LEMMA OneServe ==
    ASSUME ModInv, OneMessage, Serve
    PROVE  OneMessage'
<1> SUFFICES ASSUME clean' PROVE Answered'
    BY DEF OneMessage
<1> DEFINE c == script[made]
           reply == modbus_reply(request.m, memory, Size)
           answers == Answers(request, reply)
<1>1. /\ toServer # <<>> /\ Addressed
      /\ toServer' = <<>> \/ toServer' = Tail(toServer)
      /\ UNCHANGED <<backend, script, slave, tid, link, made, waiting, reading, outcome>>
    BY DEF Serve, fixed, clientVars
<1>2. clean /\ wire' = wire \o answers
    BY DEF Serve
<1>3. /\ Requesting /\ wire = <<>> /\ Tail(toServer) = <<>>
      /\ request \in Envelope
      /\ request.m.fn = c.fn /\ request.m.data = RequestData(c)
      /\ request.m.slave = slave /\ request.m.tid = tid /\ request.m.crc
      /\ CallOK(c) /\ ~TooMany(c)
    BY <1>1, <1>2, OneRequest
<1>4. Possible(c) <=> Feasible(c)
  <2>1. backend = "tcp" \/ slave \in {ServerId, MODBUS_BROADCAST_ADDRESS}
    BY <1>1, <1>2, OneRequest
  <2>2. QED
    BY <2>1 DEF Possible
<1>5. MemoryOK(memory)
    BY DEF ModInv
<1>6. PICK a \in Answer : /\ answers = <<a>>
                          /\ Sent(a, request, a.m) /\ AnswerTo(a.m, c, a.seen)
                          /\ a.m.fn = c.fn <=> Feasible(c)
    BY <1>3, <1>5, RepliedIf
<1> HIDE DEF reply, answers
<1>7. wire' = <<a>> /\ toServer' = <<>> /\ waiting'
    BY <1>1, <1>2, <1>3, <1>6 DEF Requesting
<1>8. Reply(a)
    BY <1>3, <1>4, <1>6 DEF Reply, Sent
<1>9. Reply(a)'
    BY <1>1, <1>8, PossibleSteady DEF Reply
<1>10. ToRead(reading, a.m)'
  <2>1. reading' = Start /\ backend' = backend
    BY <1>1, <1>3 DEF Requesting
  <2>2. FirstLength(backend) \in Nat
    BY Backends DEF ModInv, FixedOK, FirstLength
  <2>3. QED
    BY <2>1, <2>2 DEF ToRead, Start
<1>11. QED
    BY <1>7, <1>9, <1>10 DEF Answered

LEMMA OneServeNot ==
    ASSUME ModInv, OneMessage, ServeNot \/ IgnoreMessage \/ IgnoreTimeout \/ RequestLost
    PROVE  OneMessage'
<1>1. CASE ServeNot
  <2> SUFFICES ASSUME clean' PROVE Unheard'
    BY DEF OneMessage
  <2>1. /\ toServer # <<>> /\ ~(Understood /\ Addressed) /\ toServer' = Tail(toServer)
        /\ UNCHANGED <<backend, script, slave, tid, made, waiting, reading, wire, clean>>
    BY <1>1 DEF ServeNot, fixed, clientVars
  <2>2. /\ Requesting /\ wire = <<>> /\ Tail(toServer) = <<>> /\ Understood
        /\ Addressed <=> backend = "tcp" \/ slave \in {ServerId, MODBUS_BROADCAST_ADDRESS}
    BY <2>1, OneRequest
  <2>3. ~Possible(script[made])
    BY <2>1, <2>2 DEF Possible
  <2>4. ~Possible(script[made])'
    BY <2>1, <2>3, PossibleSteady
  <2>5. waiting' /\ toServer' = <<>> /\ wire' = <<>> /\ reading' = Start'
    BY <2>1, <2>2 DEF Requesting, Start
  <2>6. QED
    BY <2>4, <2>5 DEF Unheard
<1>2. CASE IgnoreMessage \/ RequestLost
    BY <1>2 DEF IgnoreMessage, RequestLost, OneMessage
<1>3. CASE IgnoreTimeout
    BY <1>3, OneSame DEF IgnoreTimeout, fixed, clientVars, lineVars
<1>4. QED
    BY <1>1, <1>2, <1>3

(* The client's reading with the next piece, of the answer it waits for:   *)
(* it goes on within the message and ends with its last byte.              *)
LEMMA ReadOn ==
    ASSUME ModInv, waiting, NEW w \in Answer, Reply(w), ToRead(reading, w.m),
           NEW k \in Pieces(reading.left)
    PROVE  LET r == Advance(Longer(k), w.m) IN
           /\ ToRead(r, w.m) /\ ~TooLong(r)
           /\ r.left = 0 => r.length = Length(backend, w.m)
<1> DEFINE s == Longer(k)
           r == Advance(s, w.m)
           meta == compute_meta_length_after_function(w.m.fn, "confirmation")
           data == compute_data_length_after_meta(backend, w.m, "confirmation")
           all == LengthRead(backend, w.m, "confirmation")
           first == FirstLength(backend)
<1>1. s \in [step : {"function", "meta", "data"}, length : Nat, left : Nat] /\ s.length > 0
    BY MorePieces
<1>2. CallOK(script[made]) /\ backend \in DOMAIN Backend
    BY CurrentCall
<1>3. w.m \in Message /\ w.m.crc /\ AnswerTo(w.m, script[made], w.seen)
    BY DEF Reply, Answer
<1>4. /\ first \in Nat /\ meta \in Nat /\ meta > 0 /\ data \in Nat
      /\ all = first + meta + data
      /\ all = Length(backend, w.m)
      /\ Length(backend, w.m) <= Backend[backend].max_adu
    BY <1>2, <1>3, AnswerRead
<1>5. reading \in [step : {"function", "meta", "data"}, length : Nat, left : Nat] /\ reading.left > 0
    BY DEF ModInv, ReadingOK
<1>6. /\ s.step = reading.step /\ s.length + s.left = reading.length + reading.left
  <2>1. s = [reading EXCEPT !.length = reading.length + k, !.left = reading.left - k]
    BY DEF Longer
  <2>2. PICK n \in Nat : n = reading.left /\ n > 0
    BY <1>5
  <2>3. k = n \/ k = (n + 1) \div 2
    BY <2>2 DEF Pieces
  <2>4. k \in Nat
    BY <2>2, <2>3
  <2>5. s.step = reading.step /\ s.length = reading.length + k /\ s.left = reading.left - k
    BY <1>5, <2>1
  <2>6. QED
    BY <1>5, <2>4, <2>5
<1>7. /\ reading.step = "function" => reading.length + reading.left = first
      /\ reading.step = "meta" => reading.length + reading.left = first + meta
      /\ reading.step = "data" => reading.length + reading.left = all
    BY DEF ToRead
<1>8. r = IF s.left # 0 THEN s
          ELSE CASE s.step = "function" -> [s EXCEPT !.step = "meta", !.left = meta]
                 [] s.step = "meta" -> [s EXCEPT !.step = "data", !.left = data]
                 [] s.step = "data" -> s
    BY DEF Advance
<1>9. Backend[backend].max_adu \in Nat
    BY <1>2, Backends
<1>10. Length(backend, w.m) \in Nat
    BY <1>4
<1> HIDE DEF s, r, meta, data, all, first
<1>11. CASE s.left # 0
  <2>1. r = s
    BY <1>8, <1>11
  <2>2. /\ r.step \in {"function", "meta", "data"} /\ r.length \in Nat /\ r.left \in Nat
        /\ r.left # 0
        /\ r.step = "function" => r.length + r.left = first
        /\ r.step = "meta" => r.length + r.left = first + meta
        /\ r.step = "data" => r.length + r.left = all
    BY <1>1, <1>6, <1>7, <1>11, <2>1
  <2>3. r.length + r.left <= Backend[backend].max_adu
    BY <1>4, <1>9, <1>10, <2>2
  <2>4. ToRead(r, w.m)
    BY <2>2 DEF ToRead, first, meta, all
  <2>5. ~TooLong(r)
    BY <1>9, <2>2, <2>3 DEF TooLong
  <2>6. QED
    BY <2>2, <2>4, <2>5 DEF r, s
<1>12. CASE s.left = 0 /\ s.step = "function"
  <2>1. r = [s EXCEPT !.step = "meta", !.left = meta]
    BY <1>8, <1>12
  <2>2. r.step = "meta" /\ r.length = first /\ r.left = meta
    BY <1>1, <1>4, <1>6, <1>7, <1>12, <2>1
  <2>3. r.length + r.left <= Backend[backend].max_adu
    BY <1>4, <1>9, <1>10, <2>2
  <2>4. ToRead(r, w.m)
    BY <2>2 DEF ToRead, first, meta, all
  <2>5. ~TooLong(r) /\ r.left # 0
    BY <1>4, <1>9, <2>2, <2>3 DEF TooLong
  <2>6. QED
    BY <2>4, <2>5 DEF r, s
<1>13. CASE s.left = 0 /\ s.step = "meta"
  <2>1. r = [s EXCEPT !.step = "data", !.left = data]
    BY <1>8, <1>13
  <2>2. r.step = "data" /\ r.length = first + meta /\ r.left = data
    BY <1>1, <1>4, <1>6, <1>7, <1>13, <2>1
  <2>3. r.length + r.left = all /\ r.length + r.left <= Backend[backend].max_adu
    BY <1>4, <1>9, <1>10, <2>2
  <2>4. ToRead(r, w.m)
    BY <2>2, <2>3 DEF ToRead, all
  <2>5. ~TooLong(r)
    BY <1>4, <1>9, <2>2, <2>3 DEF TooLong
  <2>6. r.left = 0 => r.length = Length(backend, w.m)
    BY <1>4, <2>2
  <2>7. QED
    BY <2>4, <2>5, <2>6 DEF r, s
<1>14. CASE s.left = 0 /\ s.step = "data"
  <2>1. r = s
    BY <1>8, <1>14
  <2>2. r.step = "data" /\ r.left = 0 /\ r.length = Length(backend, w.m)
    BY <1>1, <1>4, <1>6, <1>7, <1>14, <2>1
  <2>3. r.length + r.left = all /\ r.length + r.left <= Backend[backend].max_adu
    BY <1>4, <1>9, <1>10, <2>2
  <2>4. ToRead(r, w.m)
    BY <2>2, <2>3 DEF ToRead, all
  <2>5. ~TooLong(r)
    BY <1>9, <1>10, <2>2, <2>3 DEF TooLong
  <2>6. QED
    BY <2>2, <2>4, <2>5 DEF r, s
<1>15. QED
    BY <1>1, <1>11, <1>12, <1>13, <1>14 DEF r, s

LEMMA OneReceive ==
    ASSUME ModInv, OneMessage, NEW k \in Pieces(reading.left), Receive(k)
    PROVE  OneMessage'
<1> SUFFICES ASSUME clean' PROVE Answered'
    BY DEF OneMessage
<1>1. /\ waiting /\ wire # <<>> /\ reading' = Advance(Longer(k), Head(wire).m)
      /\ UNCHANGED <<backend, script, slave, tid, made, waiting, toServer, wire, clean>>
    BY DEF Receive, Longer, fixed, lineVars
<1>2. Answered
    BY <1>1 DEF OneMessage, Settled, Requesting, Unheard
<1>3. PICK w \in Answer : wire = <<w>> /\ Reply(w) /\ ToRead(reading, w.m)
    BY <1>2 DEF Answered
<1>4. ToRead(Advance(Longer(k), w.m), w.m)
    BY <1>1, <1>3, ReadOn
<1>5. ToRead(reading, w.m)'
    BY <1>1, <1>3, <1>4 DEF ToRead
<1>6. Reply(w)'
    BY <1>1, <1>3, PossibleSteady DEF Reply
<1>7. QED
    BY <1>1, <1>2, <1>3, <1>5, <1>6 DEF Answered

LEMMA OneConfirm ==
    ASSUME ModInv, OneMessage, NEW k \in Pieces(reading.left), Confirm(k)
    PROVE  OneMessage'
<1> SUFFICES ASSUME clean' PROVE Settled'
    BY DEF OneMessage
<1> DEFINE c == script[made]
           req == Request(slave, tid, c)
           h == Head(wire)
           r == Advance(Longer(k), h.m)
           length == check_integrity(backend, slave, h.m, r.length)
           rc == IF TooLong(r) \/ length = -1 THEN -1
                 ELSE check_confirmation(backend, req, h.m, length)
           flushed == /\ "protocol" \in recovery
                      /\ rc = -1 /\ ~TooLong(r)
                      /\ \/ h.m.fn < 128 \/ length = -1
                         \/ ~pre_check_confirmation(backend, req, h.m)
<1>1. /\ waiting /\ wire # <<>> /\ waiting' = FALSE
      /\ UNCHANGED <<backend, script, slave, tid, made, toServer, clean>>
      /\ r.left = 0 \/ TooLong(r)
      /\ outcome' = IF rc = -1 THEN Failed
                    ELSE [rc |-> Returned(c, rc), dest |-> Dest(c, rc, h.m),
                          of |-> h.of, seen |-> h.seen]
      /\ wire' = IF flushed THEN <<>> ELSE Rest(r.length)
    BY DEF Confirm, Longer, fixed, call
<1>2. Answered
    BY <1>1 DEF OneMessage, Settled, Requesting, Unheard
<1>3. PICK w \in Answer : wire = <<w>> /\ Reply(w) /\ ToRead(reading, w.m)
    BY <1>2 DEF Answered
<1>4. h = w /\ Tail(wire) = <<>>
    BY <1>3
<1>5. ~TooLong(r) /\ r.left = 0 /\ r.length = Length(backend, w.m)
    BY <1>1, <1>3, <1>4, ReadOn
<1>6. CallOK(c) /\ ~TooMany(c) /\ backend \in DOMAIN Backend
    BY <1>1, CurrentCall
<1>7. /\ w.m \in Message /\ w.m.crc /\ w.m.slave = slave /\ w.m.tid = tid
      /\ AnswerTo(w.m, c, w.seen) /\ (w.m.fn = c.fn <=> Possible(c))
    BY <1>3 DEF Reply, Answer
<1>8. length = Length(backend, w.m)
    BY <1>4, <1>5, <1>7 DEF check_integrity
<1>9. Length(backend, w.m) \in Nat /\ Length(backend, w.m) > 0
  <2>1. FirstLength(backend) \in Nat /\ FirstLength(backend) > 0
    BY <1>6, Backends DEF FirstLength
  <2>2. LET meta == compute_meta_length_after_function(w.m.fn, "confirmation")
            data == compute_data_length_after_meta(backend, w.m, "confirmation")
        IN /\ meta \in Nat /\ meta > 0 /\ data \in Nat
           /\ Length(backend, w.m) = FirstLength(backend) + meta + data
    BY <1>6, <1>7, AnswerRead
  <2>3. QED
    BY <2>1, <2>2
<1>10. rc = check_confirmation(backend, req, w.m, Length(backend, w.m))
    BY <1>4, <1>5, <1>8, <1>9
<1>11. IF w.m.fn = c.fn THEN rc # -1 /\ Returned(c, rc) = Count(c) ELSE rc = -1
    BY <1>6, <1>7, <1>10, AnswerTaken
<1> HIDE DEF rc, flushed, r, length
<1>12. outcome'.rc = Due(c)
  <2>1. CASE Possible(c)
    BY <1>1, <1>7, <1>11, <2>1 DEF Due
  <2>2. CASE ~Possible(c)
    BY <1>1, <1>7, <1>11, <2>2 DEF Due, Failed
  <2>3. QED
    BY <2>1, <2>2
<1>13. wire' = <<>>
  <2>1. Rest(r.length) = <<>>
    BY <1>4, <1>5, <1>9 DEF Rest
  <2>2. QED
    BY <1>1, <2>1
<1>14. toServer' = <<>>
    BY <1>1, <1>2 DEF Answered
<1>15. Due(script[made])' = Due(script[made])
    BY <1>1, PossibleSteady
<1>16. QED
    BY <1>1, <1>12, <1>13, <1>14, <1>15 DEF Settled

(* The call ends without an answer. *)
LEMMA OneEnds ==
    ASSUME ModInv, OneMessage, ReceiveJunk \/ Timeout \/ Reset
    PROVE  OneMessage'
<1>1. CASE ReceiveJunk \/ Reset
    BY <1>1 DEF ReceiveJunk, Reset, OneMessage
<1>2. CASE Timeout
  <2> SUFFICES ASSUME clean' PROVE Settled'
    BY DEF OneMessage
  <2>1. /\ waiting /\ waiting' = FALSE /\ outcome' = Failed
        /\ UNCHANGED <<backend, script, slave, made, toServer>>
        /\ wire' = <<>> \/ wire' = Rest(reading.length)
    BY <1>2 DEF Timeout, fixed
  <2>2. clean /\ toServer = <<>> /\ wire = <<>>
    BY <1>2 DEF Timeout
  <2>3. Unheard
    BY <2>1, <2>2 DEF OneMessage, Settled, Requesting, Answered
  <2>4. wire' = <<>>
    BY <2>1, <2>2, <2>3 DEF Unheard, Rest, Start
  <2>5. outcome'.rc = -1
    BY <2>1 DEF Failed
  <2>6. Due(script[made])' = -1
    BY <2>1, <2>3, PossibleSteady DEF Unheard, Due
  <2>7. QED
    BY <2>1, <2>2, <2>4, <2>5, <2>6 DEF Settled
<1>3. QED
    BY <1>1, <1>2

LEMMA OneNext == ModInv /\ OneMessage /\ [Next]_vars => OneMessage'
<1> SUFFICES ASSUME ModInv, OneMessage, [Next]_vars PROVE OneMessage'
    OBVIOUS
<1>1. CASE Connect \/ Close
    BY <1>1, OneConnect
<1>2. CASE CallRefused \/ Send \/ SendFails
    BY <1>2, OneCall
<1>3. CASE Serve
    BY <1>3, OneServe
<1>4. CASE ServeNot \/ IgnoreMessage \/ IgnoreTimeout \/ RequestLost
    BY <1>4, OneServeNot
<1>5. ASSUME NEW k \in Pieces(reading.left), Receive(k) PROVE OneMessage'
    BY <1>5, OneReceive
<1>6. ASSUME NEW k \in Pieces(reading.left), Confirm(k) PROVE OneMessage'
    BY <1>6, OneConfirm
<1>7. CASE ReceiveJunk \/ Timeout \/ Reset
    BY <1>7, OneEnds
<1>8. CASE UNCHANGED vars
    BY <1>8, OneSame DEF vars, clientVars, lineVars, serverVars
<1>9. QED
    BY <1>1, <1>2, <1>3, <1>4, <1>5, <1>6, <1>7, <1>8 DEF Next

(* As long as nothing was lost, damaged, late or reset (modbus.c,          *)
(* modbus-rtu.c and modbus-tcp.c on both sides), a call over an open       *)
(* connection returns the count it asked for exactly when the server has   *)
(* what it asks for and the protocol allows it, and -1 otherwise; no byte  *)
(* of its request or its answer is left unread.  For every script, every   *)
(* size of the server's tables and all three backends.                     *)
THEOREM CallsUnderstood == Spec => []CleanCall
<1>1. Init => OneMessage
    BY DEF Init, OneMessage, Settled
<1>2. ModInv /\ OneMessage => CleanCall
  <2> SUFFICES ASSUME OneMessage, clean, ~waiting, made > 0
               PROVE  /\ outcome.rc = IF Possible(script[made]) THEN Count(script[made]) ELSE -1
                      /\ wire = <<>> /\ toServer = <<>>
    BY DEF CleanCall
  <2>1. Settled
    BY DEF OneMessage, Requesting, Answered, Unheard
  <2>2. QED
    BY <2>1 DEF Settled, Due
<1>3. QED
    BY <1>1, <1>2, OneNext, ModAlways, PTL DEF Spec
=============================================================================
