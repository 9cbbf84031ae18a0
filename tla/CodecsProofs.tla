---------------------------- MODULE CodecsProofs ----------------------------
(***************************************************************************)
(* The conversions of Codecs, for every address, register and row of bits. *)
(***************************************************************************)
EXTENDS Codecs, SequenceTheorems, TLAPS

LEMMA WhatIsConverted ==
    ASSUME item \in Conversions
    PROVE  /\ item.kind = "address" => item.address \in Address
           /\ item.kind = "register" => item.register \in Register
           /\ item.kind = "bits" => item.bits \in Pattern
<1>1. CASE item \in {[kind |-> "address", address |-> a] : a \in Address}
    BY <1>1
<1>2. CASE item \in {[kind |-> "register", register |-> r] : r \in Register}
    BY <1>2
<1>3. CASE item \in {[kind |-> "bits", bits |-> b] : b \in Pattern}
    BY <1>3
<1>4. QED
    BY <1>1, <1>2, <1>3 DEF Conversions

-----------------------------------------------------------------------------
(* A temperature is at most a hundredth of a degree off, and the order of  *)
(* two temperatures is kept, for any register (owen.cpp).                  *)
THEOREM TemperatureIsClose ==
    ASSUME item \in Conversions
    PROVE  TemperatureClose
<1>1. \A r \in quint16 : Real(r) - TwosComplement(r) \in {0, 1}
    BY DEF Real, TwosComplement, quint16
<1>2. \A r \in quint16, s \in quint16 :
          TwosComplement(s) < TwosComplement(r) => Real(s) <= Real(r)
    BY DEF Real, TwosComplement, quint16
<1>3. Register \subseteq quint16
    BY RegisterAssumption DEF RegisterAssumption
<1>4. item.kind = "register" => item.register \in Register
    BY WhatIsConverted
<1>5. QED
    BY <1>1, <1>2, <1>3, <1>4 DEF TemperatureClose

-----------------------------------------------------------------------------
(* What is sent with its checksum behind it is accepted.                   *)
LEMMA FrameFits ==
    ASSUME NEW S, NEW bytes \in Seq(S)
    PROVE  LET frame == send_msg_pre(bytes) IN
           /\ check_crc(frame) /\ Len(frame) = Len(bytes) + 2
           /\ \A i \in 1..Len(bytes) : frame[i] = bytes[i]
<1>1. PICK x, y : crc16(bytes) = <<x, y>>
    BY DEF crc16
<1>2. PICK T : T = S \cup {x, y}
    OBVIOUS
<1>3. PICK crc \in Seq(T) : crc = crc16(bytes) /\ Len(crc) = 2
  <2>1. x \in T /\ y \in T
    BY <1>2
  <2>2. <<x, y>> \in Seq(T) /\ Len(<<x, y>>) = 2
    BY <2>1
  <2>3. QED
    BY <1>1, <2>2
<1>4. bytes \in Seq(T)
    BY <1>2, SeqMonotonic
<1>5. PICK n \in Nat : n = Len(bytes)
    BY LenProperties
<1>6. PICK frame : frame = bytes \o crc
    OBVIOUS
<1>7. /\ frame \in Seq(T) /\ Len(frame) = n + 2
      /\ \A i \in 1..n + 2 : frame[i] = IF i <= n THEN bytes[i] ELSE crc[i - n]
  <2>1. /\ frame \in Seq(T) /\ Len(frame) = Len(bytes) + Len(crc)
        /\ \A i \in 1..Len(bytes) + Len(crc) :
              frame[i] = IF i <= Len(bytes) THEN bytes[i] ELSE crc[i - Len(bytes)]
    BY <1>3, <1>4, <1>6, ConcatProperties
  <2>2. QED
    BY <1>3, <1>5, <2>1
<1>8. SubSeq(frame, 1, n) = bytes
    BY <1>4, <1>5, <1>7
<1>9. SubSeq(frame, n + 1, n + 2) = crc
  <2>1. \A i \in n + 1..n + 2 : frame[i] \in T
    BY <1>5, <1>7, ElementOfSeq
  <2>2. PICK from \in Int, to \in Int : from = n + 1 /\ to = n + 2
    BY <1>5
  <2>3. PICK cut : cut = SubSeq(frame, from, to)
    OBVIOUS
  <2>4. /\ cut \in Seq(T) /\ Len(cut) = IF from <= to THEN to - from + 1 ELSE 0
        /\ \A i \in 1..to - from + 1 : cut[i] = frame[from + i - 1]
    BY <2>1, <2>2, <2>3, SubSeqProperties
  <2>5. Len(cut) = 2 /\ \A i \in 1..2 : cut[i] = crc[i]
    <3>1. Len(cut) = 2 /\ \A i \in 1..2 : cut[i] = frame[n + i]
      BY <1>5, <2>2, <2>4
    <3>2. frame[n + 1] = crc[1] /\ frame[n + 2] = crc[2]
      <4>1. n + 1 \in 1..n + 2 /\ n + 2 \in 1..n + 2 /\ ~(n + 1 <= n) /\ ~(n + 2 <= n)
            /\ n + 1 - n = 1 /\ n + 2 - n = 2
        BY <1>5
      <4>2. QED
        BY <1>7, <4>1
    <3>3. \A i \in 1..2 : i = 1 \/ i = 2
      OBVIOUS
    <3>4. QED
      BY <3>1, <3>2, <3>3
  <2>6. cut = crc
    BY <1>3, <2>4, <2>5, SeqEqual
  <2>7. QED
    BY <2>2, <2>3, <2>6
<1>10. send_msg_pre(bytes) = frame
    BY <1>3, <1>6 DEF send_msg_pre
<1>11. check_crc(frame)
  <2>1. Len(frame) >= 2 /\ Len(frame) - 2 = n /\ Len(frame) - 1 = n + 1
    BY <1>5, <1>7
  <2>2. QED
    BY <1>3, <1>7, <1>8, <1>9, <2>1, Zenon DEF check_crc
<1>12. QED
    BY <1>5, <1>7, <1>10, <1>11

LEMMA Inserted ==
    ASSUME NEW S, NEW s \in Seq(S), NEW e \in S, NEW i \in 1..Len(s)
    PROVE  LET t == InsertAt(s, i, e) IN
           /\ t \in Seq(S) /\ Len(t) = Len(s) + 1 /\ t[i] = e
           /\ \A j \in 1..i - 1 : t[j] = s[j]
<1>1. PICK n \in Nat : n = Len(s) /\ i \in 1..n
    BY LenProperties
<1>2. \A j \in 1..n : s[j] \in S
    BY <1>1, ElementOfSeq
<1>3. PICK front : front = SubSeq(s, 1, i - 1)
    OBVIOUS
<1>4. PICK back : back = SubSeq(s, i, n)
    OBVIOUS
<1>5. front \in Seq(S) /\ Len(front) = i - 1 /\ \A j \in 1..i - 1 : front[j] = s[j]
  <2>1. PICK to \in Int : to = i - 1
    BY <1>1
  <2>2. \A j \in 1..to : s[j] \in S
    BY <1>1, <1>2, <2>1
  <2>3. /\ front \in Seq(S) /\ Len(front) = IF 1 <= to THEN to - 1 + 1 ELSE 0
        /\ \A j \in 1..to - 1 + 1 : front[j] = s[1 + j - 1]
    BY <1>3, <2>1, <2>2, SubSeqProperties
  <2>4. QED
    BY <1>1, <2>1, <2>3
<1>6. back \in Seq(S) /\ Len(back) = n - i + 1
  <2>1. \A j \in i..n : s[j] \in S
    BY <1>1, <1>2
  <2>2. back \in Seq(S) /\ Len(back) = IF i <= n THEN n - i + 1 ELSE 0
    BY <1>1, <1>4, <2>1, SubSeqProperties
  <2>3. QED
    BY <1>1, <2>2
<1>7. PICK one \in Seq(S) : one = <<e>> /\ Len(one) = 1 /\ one[1] = e
  <2>1. <<e>> \in Seq(S) /\ Len(<<e>>) = 1 /\ <<e>>[1] = e
    OBVIOUS
  <2>2. QED
    BY <2>1
<1>8. PICK some \in Seq(S) :
          /\ some = front \o one /\ Len(some) = i /\ some[i] = e
          /\ \A j \in 1..i - 1 : some[j] = s[j]
  <2>1. /\ front \o one \in Seq(S) /\ Len(front \o one) = Len(front) + Len(one)
        /\ \A j \in 1..Len(front) + Len(one) :
              (front \o one)[j] = IF j <= Len(front) THEN front[j] ELSE one[j - Len(front)]
    BY <1>5, <1>7, ConcatProperties
  <2>2. Len(front) + Len(one) = i
    BY <1>1, <1>5, <1>7
  <2>3. (front \o one)[i] = e /\ \A j \in 1..i - 1 : (front \o one)[j] = s[j]
    BY <1>1, <1>5, <1>7, <2>1, <2>2
  <2>4. QED
    BY <2>1, <2>2, <2>3
<1>9. PICK all \in Seq(S) :
          /\ all = some \o back /\ Len(all) = n + 1
          /\ \A j \in 1..i : all[j] = some[j]
  <2>1. /\ some \o back \in Seq(S) /\ Len(some \o back) = Len(some) + Len(back)
        /\ \A j \in 1..Len(some) + Len(back) :
              (some \o back)[j] = IF j <= Len(some) THEN some[j] ELSE back[j - Len(some)]
    <3>1. some \in Seq(S) /\ back \in Seq(S)
      BY <1>6, <1>8
    <3>2. QED
      BY <3>1, ConcatProperties
  <2>2. Len(some) + Len(back) = n + 1
    BY <1>1, <1>6, <1>8
  <2>3. \A j \in 1..i : (some \o back)[j] = some[j]
    BY <1>1, <1>8, <2>1, <2>2
  <2>4. QED
    BY <2>1, <2>2, <2>3
<1>10. InsertAt(s, i, e) = all
    BY <1>1, <1>3, <1>4, <1>7, <1>8, <1>9 DEF InsertAt
<1>11. all[i] = e /\ \A j \in 1..i - 1 : all[j] = s[j]
    BY <1>1, <1>8, <1>9
<1>12. QED
    BY <1>1, <1>9, <1>10, <1>11

(* A sequence and what is put behind it.                                   *)
LEMMA Longer ==
    ASSUME NEW s \in Seq(quint8), NEW t \in Seq(quint8)
    PROVE  /\ s \o t \in Seq(quint8) /\ Len(s \o t) = Len(s) + Len(t)
           /\ \A i \in 1..Len(s) : (s \o t)[i] = s[i]
<1>1. /\ s \o t \in Seq(quint8) /\ Len(s \o t) = Len(s) + Len(t)
      /\ \A i \in 1..Len(s) + Len(t) : (s \o t)[i] = IF i <= Len(s) THEN s[i] ELSE t[i - Len(s)]
    BY ConcatProperties
<1>2. QED
    BY <1>1

(* The request to a heat meter before its checksum (create_request): the   *)
(* address in front, and the length of the whole frame in its place.       *)
LEMMA HeatRequest ==
    ASSUME NEW address \in Seq(quint8), Len(address) = 4,
           NEW mask \in Seq(quint8), Len(mask) = 4
    PROVE  \E body \in Seq(quint8) :
              /\ create_request(address, mask) = send_msg_pre(body)
              /\ Len(body) = 12 /\ body[6] = 14
              /\ \A i \in 1..4 : body[i] = address[i]
<1>1. PICK one, ids : one = <<1>> /\ ids = <<85, 85>>
    OBVIOUS
<1>2. one \in Seq(quint8) /\ Len(one) = 1 /\ ids \in Seq(quint8) /\ Len(ids) = 2
    BY <1>1 DEF quint8
<1>3. PICK head : head = address \o one \o mask \o ids
    OBVIOUS
<1>4. PICK first : first = address \o one
    OBVIOUS
<1>5. /\ first \in Seq(quint8) /\ Len(first) = Len(address) + Len(one)
      /\ \A i \in 1..Len(address) : first[i] = address[i]
    BY <1>2, <1>4, Longer
<1>6. PICK some : some = first \o mask
    OBVIOUS
<1>7. /\ some \in Seq(quint8) /\ Len(some) = Len(first) + Len(mask)
      /\ \A i \in 1..Len(first) : some[i] = first[i]
    BY <1>5, <1>6, Longer
<1>8. /\ head \in Seq(quint8) /\ Len(head) = Len(some) + Len(ids)
      /\ \A i \in 1..Len(some) : head[i] = some[i]
  <2>1. head = some \o ids
    BY <1>3, <1>4, <1>6
  <2>2. some \in Seq(quint8) /\ ids \in Seq(quint8)
    BY <1>2, <1>7
  <2>3. QED
    BY <2>1, <2>2, Longer
<1>9. Len(head) = 11 /\ \A i \in 1..4 : head[i] = address[i]
    BY <1>2, <1>5, <1>7, <1>8
<1>10. 14 \in quint8 /\ 6 \in 1..Len(head)
    BY <1>9 DEF quint8
<1>11. PICK body : body = InsertAt(head, 6, 14)
    OBVIOUS
<1>12. /\ body \in Seq(quint8) /\ Len(body) = Len(head) + 1 /\ body[6] = 14
       /\ \A i \in 1..6 - 1 : body[i] = head[i]
  <2>1. PICK at \in 1..Len(head), length \in quint8 : at = 6 /\ length = 14
    BY <1>10
  <2>2. body = InsertAt(head, at, length)
    BY <1>11, <2>1
  <2>3. head \in Seq(quint8)
    BY <1>8
  <2>4. /\ body \in Seq(quint8) /\ Len(body) = Len(head) + 1 /\ body[at] = length
        /\ \A i \in 1..at - 1 : body[i] = head[i]
    BY <2>2, <2>3, Inserted
  <2>5. QED
    BY <2>1, <2>4
<1>13. Len(body) = 12 /\ \A i \in 1..4 : body[i] = address[i]
    BY <1>9, <1>12
<1>14. create_request(address, mask) = send_msg_pre(InsertAt(head, POS_L + 1, Len(head) + 2 + 1))
    BY <1>1, <1>3 DEF create_request
<1>15. POS_L + 1 = 6 /\ Len(head) + 2 + 1 = 14
    BY <1>9 DEF POS_L
<1>16. QED
    BY <1>11, <1>12, <1>13, <1>14, <1>15

(* A heat meter takes the request for its own, whatever its address        *)
(* (pulsarclass.cpp).                                                      *)
THEOREM RequestIsRight ==
    ASSUME item \in Conversions
    PROVE  RequestRight
<1>1. SUFFICES ASSUME item.kind = "address"
               PROVE  RequestRight
    BY DEF RequestRight
<1>2. PICK address \in Seq(quint8) : address = item.address /\ Len(address) = 4
    BY <1>1, WhatIsConverted, AddressAssumption DEF AddressAssumption
<1>3. PICK mask : mask = <<64, 0, 0, 0>>
    OBVIOUS
<1>4. mask \in Seq(quint8) /\ Len(mask) = 4
    BY <1>3 DEF quint8
<1>5. PICK sent : sent = create_request(address, mask)
    OBVIOUS
<1>6. PICK body \in Seq(quint8) :
          /\ sent = send_msg_pre(body) /\ Len(body) = 12 /\ body[6] = 14
          /\ \A i \in 1..4 : body[i] = address[i]
    BY <1>2, <1>4, <1>5, HeatRequest
<1>7. /\ check_crc(sent) /\ Len(sent) = Len(body) + 2
      /\ \A i \in 1..Len(body) : sent[i] = body[i]
    BY <1>6, FrameFits
<1>8. Len(sent) = 14 /\ \A i \in 1..12 : sent[i] = body[i]
    BY <1>6, <1>7
<1>9. SubSeq(sent, 1, 4) = address
    BY <1>2, <1>6, <1>7, <1>8
<1>10. sent[POS_L + 1] = 14
    BY <1>6, <1>8 DEF POS_L
<1>11. QED
    BY <1>2, <1>3, <1>5, <1>7, <1>8, <1>9, <1>10 DEF RequestRight

-----------------------------------------------------------------------------
(* Eight bits are a byte and a byte is eight bits.                         *)
LEMMA EachBit ==
    ASSUME NEW b0 \in {0, 1}, NEW b1 \in {0, 1}, NEW b2 \in {0, 1}, NEW b3 \in {0, 1},
           NEW b4 \in {0, 1}, NEW b5 \in {0, 1}, NEW b6 \in {0, 1}, NEW b7 \in {0, 1},
           NEW x, x = b0 + 2 * b1 + 4 * b2 + 8 * b3 + 16 * b4 + 32 * b5 + 64 * b6 + 128 * b7
    PROVE  /\ x \in quint8
           /\ (x \div 1) % 2 = b0 /\ (x \div 2) % 2 = b1 /\ (x \div 4) % 2 = b2
           /\ (x \div 8) % 2 = b3 /\ (x \div 16) % 2 = b4 /\ (x \div 32) % 2 = b5
           /\ (x \div 64) % 2 = b6 /\ (x \div 128) % 2 = b7
<1>1. x \in quint8
    BY DEF quint8
<1>2. (x \div 1) % 2 = b0 /\ (x \div 2) % 2 = b1
    OBVIOUS
<1>3. (x \div 4) % 2 = b2 /\ (x \div 8) % 2 = b3
    OBVIOUS
<1>4. (x \div 16) % 2 = b4 /\ (x \div 32) % 2 = b5
    OBVIOUS
<1>5. (x \div 64) % 2 = b6 /\ (x \div 128) % 2 = b7
    OBVIOUS
<1>6. QED
    BY <1>1, <1>2, <1>3, <1>4, <1>5

LEMMA BitValues ==
    ASSUME NEW x
    PROVE  /\ Bit(x, 0) = (x \div 1) % 2 /\ Bit(x, 1) = (x \div 2) % 2
           /\ Bit(x, 2) = (x \div 4) % 2 /\ Bit(x, 3) = (x \div 8) % 2
           /\ Bit(x, 4) = (x \div 16) % 2 /\ Bit(x, 5) = (x \div 32) % 2
           /\ Bit(x, 6) = (x \div 64) % 2 /\ Bit(x, 7) = (x \div 128) % 2
<1>1. /\ BitValue[0 + 1] = 1 /\ BitValue[1 + 1] = 2 /\ BitValue[2 + 1] = 4 /\ BitValue[3 + 1] = 8
      /\ BitValue[4 + 1] = 16 /\ BitValue[5 + 1] = 32 /\ BitValue[6 + 1] = 64 /\ BitValue[7 + 1] = 128
    BY DEF BitValue
<1>2. QED
    BY <1>1 DEF Bit

LEMMA EightBits ==
    ASSUME NEW f \in [0..7 -> {0, 1}]
    PROVE  OfBits(f) \in quint8 /\ \A i \in 0..7 : Bit(OfBits(f), i) = f[i]
<1>1. PICK b0 \in {0, 1}, b1 \in {0, 1}, b2 \in {0, 1}, b3 \in {0, 1} :
          b0 = f[0] /\ b1 = f[1] /\ b2 = f[2] /\ b3 = f[3]
    OBVIOUS
<1>2. PICK b4 \in {0, 1}, b5 \in {0, 1}, b6 \in {0, 1}, b7 \in {0, 1} :
          b4 = f[4] /\ b5 = f[5] /\ b6 = f[6] /\ b7 = f[7]
    OBVIOUS
<1>3. PICK x : x = OfBits(f)
    OBVIOUS
<1>4. x = b0 + 2 * b1 + 4 * b2 + 8 * b3 + 16 * b4 + 32 * b5 + 64 * b6 + 128 * b7
    BY <1>1, <1>2, <1>3 DEF OfBits
<1>5. /\ x \in quint8
      /\ (x \div 1) % 2 = b0 /\ (x \div 2) % 2 = b1 /\ (x \div 4) % 2 = b2
      /\ (x \div 8) % 2 = b3 /\ (x \div 16) % 2 = b4 /\ (x \div 32) % 2 = b5
      /\ (x \div 64) % 2 = b6 /\ (x \div 128) % 2 = b7
    BY <1>4, EachBit
<1>6. /\ Bit(x, 0) = f[0] /\ Bit(x, 1) = f[1] /\ Bit(x, 2) = f[2] /\ Bit(x, 3) = f[3]
      /\ Bit(x, 4) = f[4] /\ Bit(x, 5) = f[5] /\ Bit(x, 6) = f[6] /\ Bit(x, 7) = f[7]
    BY <1>1, <1>2, <1>5, BitValues
<1>7. \A i \in 0..7 : i = 0 \/ i = 1 \/ i = 2 \/ i = 3 \/ i = 4 \/ i = 5 \/ i = 6 \/ i = 7
    OBVIOUS
<1>8. QED
    BY <1>3, <1>5, <1>6, <1>7

LEMMA BitsOfByte ==
    ASSUME NEW x \in quint8, NEW f, f = [i \in 0..7 |-> Bit(x, i)]
    PROVE  OfBits(f) = x
<1>1. x \in Nat /\ x < 256
    BY DEF quint8
<1>2. /\ f[0] = (x \div 1) % 2 /\ f[1] = (x \div 2) % 2 /\ f[2] = (x \div 4) % 2
      /\ f[3] = (x \div 8) % 2 /\ f[4] = (x \div 16) % 2 /\ f[5] = (x \div 32) % 2
      /\ f[6] = (x \div 64) % 2 /\ f[7] = (x \div 128) % 2
    BY BitValues
<1>3. x = ((x \div 1) % 2) + 2 * ((x \div 2) % 2) + 4 * ((x \div 4) % 2) + 8 * ((x \div 8) % 2)
          + 16 * ((x \div 16) % 2) + 32 * ((x \div 32) % 2) + 64 * ((x \div 64) % 2)
          + 128 * ((x \div 128) % 2)
    BY <1>1
<1>4. QED
    BY <1>2, <1>3 DEF OfBits

-----------------------------------------------------------------------------
(* Bit i of a row is bit i % 8 of its byte i / 8.                          *)
LEMMA PackedBits ==
    ASSUME NEW bits \in Seq({0, 1}), NEW n \in Nat, n = Len(bits),
           NEW k \in 1..(n + 7) \div 8
    PROVE  /\ Packed(bits)[k] \in quint8
           /\ \A r \in 0..7 : 8 * (k - 1) + r < n => Bit(Packed(bits)[k], r) = bits[8 * (k - 1) + 1 + r]
<1>1. PICK m \in Int : m = 8 * (k - 1)
    OBVIOUS
<1>2. m >= 0 /\ m < n
  <2>1. PICK q \in Int : q = (n + 7) \div 8
    OBVIOUS
  <2>2. 8 * q <= n + 7
    BY <2>1
  <2>3. k <= q /\ k >= 1
    BY <2>1
  <2>4. QED
    BY <1>1, <2>2, <2>3
<1>3. PICK nb : nb = (IF n - m < 8 THEN n - m ELSE 8)
    OBVIOUS
<1>4. \A r \in 0..7 : r < nb <=> m + r < n
    BY <1>1, <1>3
<1>5. PICK f : f = [i \in 0..7 |-> IF i < nb THEN bits[m + 1 + i] ELSE 0]
    OBVIOUS
<1>6. ASSUME NEW r \in 0..7
      PROVE  f[r] \in {0, 1} /\ (m + r < n => f[r] = bits[m + 1 + r])
  <2>1. CASE m + r < n
    <3>1. m + 1 + r \in 1..Len(bits)
      BY <1>2, <2>1
    <3>2. QED
      BY <1>4, <1>5, <2>1, <3>1, ElementOfSeq
  <2>2. CASE ~(m + r < n)
    BY <1>4, <1>5, <2>2
  <2>3. QED
    BY <2>1, <2>2
<1>7. f \in [0..7 -> {0, 1}]
    BY <1>5, <1>6
<1>8. Packed(bits)[k] = modbus_get_byte_from_bits(bits, m, nb)
    BY <1>1, <1>3 DEF Packed
<1>9. Packed(bits)[k] = OfBits(f)
    BY <1>5, <1>8 DEF modbus_get_byte_from_bits
<1>10. QED
    BY <1>1, <1>6, <1>7, <1>9, EightBits

(* The row into which the bytes were unpacked behind place "at".           *)
LEMMA Unpacked ==
    ASSUME NEW bits \in Seq({0, 1}), NEW n \in Nat, n = Len(bits), NEW blank, NEW at \in Nat,
           NEW i \in DOMAIN blank, i \in Int
    PROVE  modbus_set_bits_from_bytes(blank, at, n, Packed(bits))[i]
             = IF i \in at + 1..at + n THEN bits[i - at] ELSE blank[i]
<1>1. CASE i \in at + 1..at + n
  <2>1. PICK j \in Nat : j = i - at - 1 /\ j < n
    BY <1>1
  <2>2. PICK q \in Int, r \in Int : q = j \div 8 /\ r = j % 8
    BY <2>1
  <2>3. j = 8 * q + r /\ r \in 0..7 /\ q >= 0
    BY <2>1, <2>2
  <2>4. q + 1 \in 1..(n + 7) \div 8 /\ 8 * (q + 1 - 1) + r = j
    <3>1. PICK p \in Int : p = (n + 7) \div 8
      OBVIOUS
    <3>2. n + 7 < 8 * p + 8
      BY <3>1
    <3>3. QED
      BY <2>1, <2>3, <3>1, <3>2
  <2>5. PICK k \in 1..(n + 7) \div 8 : k = q + 1 /\ 8 * (k - 1) + r = j
    BY <2>4
  <2>6. Bit(Packed(bits)[k], r) = bits[8 * (k - 1) + 1 + r]
    BY <2>1, <2>3, <2>5, PackedBits
  <2>7. 8 * (k - 1) + 1 + r = i - at
    BY <2>1, <2>5
  <2>8. modbus_set_bits_from_bytes(blank, at, n, Packed(bits))[i] = Bit(Packed(bits)[k], r)
    BY <1>1, <2>1, <2>2, <2>5 DEF modbus_set_bits_from_bytes
  <2>9. QED
    BY <1>1, <2>6, <2>7, <2>8
<1>2. CASE i \notin at + 1..at + n
    BY <1>2 DEF modbus_set_bits_from_bytes
<1>3. QED
    BY <1>1, <1>2

(* A byte put among bits is the byte found there.                          *)
LEMMA ByteAmongBits ==
    ASSUME NEW x \in quint8, NEW n \in Nat, NEW blank, DOMAIN blank = 1..n,
           NEW at \in Nat, at + 8 <= n
    PROVE  modbus_get_byte_from_bits(modbus_set_bits_from_byte(blank, at, x), at, 8) = x
<1>1. PICK row : row = modbus_set_bits_from_byte(blank, at, x)
    OBVIOUS
<1>2. \A i \in 0..7 : row[at + 1 + i] = Bit(x, i)
  <2>1. ASSUME NEW i \in 0..7
        PROVE  row[at + 1 + i] = Bit(x, i)
    <3>1. at + 1 + i \in DOMAIN blank /\ at + 1 + i \in at + 1..at + 8 /\ at + 1 + i - at - 1 = i
      OBVIOUS
    <3>2. QED
      BY <1>1, <3>1 DEF modbus_set_bits_from_byte
  <2>2. QED
    BY <2>1
<1>3. PICK f : f = [i \in 0..7 |-> IF i < 8 THEN row[at + 1 + i] ELSE 0]
    OBVIOUS
<1>4. f = [i \in 0..7 |-> Bit(x, i)]
    BY <1>2, <1>3
<1>5. modbus_get_byte_from_bits(row, at, 8) = OfBits(f)
    BY <1>3 DEF modbus_get_byte_from_bits
<1>6. QED
    BY <1>1, <1>4, <1>5, BitsOfByte

(* The bytes of a float, in either order.                                  *)
LEMMA FloatsInvert ==
    ASSUME NEW f, f = [k \in 1..4 |-> f[k]]
    PROVE  /\ modbus_get_float(modbus_set_float(f)) = f
           /\ modbus_get_float_dcba(modbus_set_float_dcba(f)) = f
           /\ modbus_set_float_dcba(f)[1] = Reverse(modbus_set_float(f)[2])
<1>1. ASSUME NEW g, g = [k \in 1..4 |-> g[k]]
      PROVE  modbus_get_float(modbus_set_float(g)) = g
  <2>1. PICK low, high : low = <<g[1], g[2]>> /\ high = <<g[3], g[4]>>
    OBVIOUS
  <2>2. PICK S : S = {g[1], g[2], g[3], g[4]}
    OBVIOUS
  <2>3. /\ low \in Seq(S) /\ Len(low) = 2 /\ low[1] = g[1] /\ low[2] = g[2]
        /\ high \in Seq(S) /\ Len(high) = 2 /\ high[1] = g[3] /\ high[2] = g[4]
    BY <2>1, <2>2
  <2>4. PICK both : both = low \o high
    OBVIOUS
  <2>5. /\ both \in Seq(S) /\ Len(both) = Len(low) + Len(high)
        /\ \A i \in 1..Len(low) + Len(high) :
              both[i] = IF i <= Len(low) THEN low[i] ELSE high[i - Len(low)]
    BY <2>3, <2>4, ConcatProperties
  <2>6. Len(both) = 4 /\ both[1] = g[1] /\ both[2] = g[2] /\ both[3] = g[3] /\ both[4] = g[4]
    BY <2>3, <2>5
  <2>7. both = g
    BY <1>1, <2>5, <2>6
  <2>8. QED
    BY <2>1, <2>4, <2>7 DEF modbus_get_float, modbus_set_float
<1>2. PICK back : back = [k \in 1..4 |-> f[4 - k + 1]]
    OBVIOUS
<1>3. Reverse(f) = back /\ Reverse(back) = f
    BY <1>2 DEF Reverse
<1>4. back = [k \in 1..4 |-> back[k]]
    BY <1>2
<1>5. modbus_get_float_dcba(modbus_set_float_dcba(f)) = f
    BY <1>1, <1>3, <1>4 DEF modbus_get_float_dcba, modbus_set_float_dcba
<1>6. modbus_set_float_dcba(f)[1] = <<f[4], f[3]>>
    BY <1>2, <1>3 DEF modbus_set_float_dcba, modbus_set_float
<1>7. Reverse(modbus_set_float(f)[2]) = <<f[4], f[3]>>
    BY DEF modbus_set_float, Reverse
<1>8. QED
    BY <1>1, <1>5, <1>6, <1>7

(* Bits and floats survive their conversions, for rows of bits of any      *)
(* length (modbus-data.c).                                                 *)
THEOREM ConversionsAreInverse ==
    ASSUME item \in Conversions
    PROVE  ConversionsInvert
<1>1. SUFFICES ASSUME item.kind = "bits"
               PROVE  ConversionsInvert
    BY DEF ConversionsInvert
<1>2. PICK bits \in Seq({0, 1}) : bits = item.bits /\ bits # <<>>
    BY <1>1, WhatIsConverted, PatternAssumption DEF PatternAssumption
<1>3. PICK n \in Nat : n = Len(bits) /\ n > 0
    BY <1>2, LenProperties
<1>4. PICK blank : blank = [i \in 1..n + 16 |-> 2]
    OBVIOUS
<1>5. PICK bytes : bytes = Packed(bits)
    OBVIOUS
<1>6. PICK float : float = [k \in 1..4 |-> (bytes[((k - 1) % Len(bytes)) + 1] + k) % 256]
    OBVIOUS
<1>7. ASSUME NEW at \in 0..16
      PROVE  LET row == modbus_set_bits_from_bytes(blank, at, n, bytes)
             IN \A i \in DOMAIN row : row[i] = IF i \in at + 1..at + n THEN bits[i - at] ELSE 2
  <2>1. DOMAIN modbus_set_bits_from_bytes(blank, at, n, bytes) = 1..n + 16 /\ DOMAIN blank = 1..n + 16
    BY <1>4 DEF modbus_set_bits_from_bytes
  <2>2. \A i \in 1..n + 16 : blank[i] = 2 /\ i \in Int
    BY <1>4
  <2>3. \A i \in 1..n + 16 :
            modbus_set_bits_from_bytes(blank, at, n, bytes)[i]
              = IF i \in at + 1..at + n THEN bits[i - at] ELSE blank[i]
    BY <1>3, <1>5, <2>1, <2>2, Unpacked
  <2>4. QED
    BY <2>1, <2>2, <2>3
<1>8. ASSUME NEW at \in 0..8
      PROVE  modbus_get_byte_from_bits(modbus_set_bits_from_byte(blank, at, bytes[1]), at, 8) = bytes[1]
  <2>1. 1 \in 1..(n + 7) \div 8
    BY <1>3
  <2>2. bytes[1] \in quint8
    BY <1>3, <1>5, <2>1, PackedBits
  <2>3. DOMAIN blank = 1..n + 16 /\ n + 16 \in Nat /\ at \in Nat /\ at + 8 <= n + 16
    BY <1>4
  <2>4. QED
    BY <2>2, <2>3, ByteAmongBits
<1>9. float = [k \in 1..4 |-> float[k]]
    BY <1>6
<1>10. /\ modbus_get_float(modbus_set_float(float)) = float
       /\ modbus_get_float_dcba(modbus_set_float_dcba(float)) = float
       /\ modbus_set_float_dcba(float)[1] = Reverse(modbus_set_float(float)[2])
    BY <1>9, FloatsInvert
<1>11. QED
    BY <1>2, <1>3, <1>4, <1>5, <1>6, <1>7, <1>8, <1>10 DEF ConversionsInvert
=============================================================================
