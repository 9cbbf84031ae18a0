------------------------------- MODULE Codecs -------------------------------
(***************************************************************************)
(* The conversions at byte level: the three implementations of CRC16, the  *)
(* frame around it, the request to a heat meter, the temperatures of Owen, *)
(* and the bits and words of libmodbus.  A byte is a number below 256.     *)
(***************************************************************************)
EXTENDS Integers, Sequences, SequencesExt

CONSTANTS
    Address,    \* addresses of heat meters
    Register,   \* what an Owen register may hold
    Pattern     \* rows of bits

quint8 == 0..255
quint16 == 0..65535

ASSUME AddressAssumption == \A a \in Address : a \in Seq(quint8) /\ Len(a) = 4
ASSUME RegisterAssumption == Register \subseteq quint16
ASSUME PatternAssumption == \A b \in Pattern : b \in Seq({0, 1}) /\ b # <<>>

VARIABLE item       \* what is converted

Conversions ==
    {[kind |-> "address", address |-> a] : a \in Address}
    \cup {[kind |-> "register", register |-> r] : r \in Register}
    \cup {[kind |-> "bits", bits |-> b] : b \in Pattern}

-----------------------------------------------------------------------------
BitValue == <<1, 2, 4, 8, 16, 32, 64, 128>>

Bit(byte, i) == (byte \div BitValue[i + 1]) % 2

OfBits(b) ==
    b[0] + 2 * b[1] + 4 * b[2] + 8 * b[3] + 16 * b[4] + 32 * b[5] + 64 * b[6] + 128 * b[7]

Xor ==
    [a \in quint8 |-> [b \in quint8 |-> OfBits([i \in 0..7 |-> (Bit(a, i) + Bit(b, i)) % 2])]]

XorWord(a, b) == 256 * Xor[a \div 256][b \div 256] + Xor[a % 256][b % 256]

table_crc_hi ==
    <<0, 193, 129, 64, 1, 192, 128, 65, 1, 192, 128, 65, 0, 193, 129, 64, 1, 192, 128, 65, 0, 193,
      129, 64, 0, 193, 129, 64, 1, 192, 128, 65, 1, 192, 128, 65, 0, 193, 129, 64, 0, 193, 129,
      64, 1, 192, 128, 65, 0, 193, 129, 64, 1, 192, 128, 65, 1, 192, 128, 65, 0, 193, 129, 64, 1,
      192, 128, 65, 0, 193, 129, 64, 0, 193, 129, 64, 1, 192, 128, 65, 0, 193, 129, 64, 1, 192,
      128, 65, 1, 192, 128, 65, 0, 193, 129, 64, 0, 193, 129, 64, 1, 192, 128, 65, 1, 192, 128,
      65, 0, 193, 129, 64, 1, 192, 128, 65, 0, 193, 129, 64, 0, 193, 129, 64, 1, 192, 128, 65, 1,
      192, 128, 65, 0, 193, 129, 64, 0, 193, 129, 64, 1, 192, 128, 65, 0, 193, 129, 64, 1, 192,
      128, 65, 1, 192, 128, 65, 0, 193, 129, 64, 0, 193, 129, 64, 1, 192, 128, 65, 1, 192, 128,
      65, 0, 193, 129, 64, 1, 192, 128, 65, 0, 193, 129, 64, 0, 193, 129, 64, 1, 192, 128, 65, 0,
      193, 129, 64, 1, 192, 128, 65, 1, 192, 128, 65, 0, 193, 129, 64, 1, 192, 128, 65, 0, 193,
      129, 64, 0, 193, 129, 64, 1, 192, 128, 65, 1, 192, 128, 65, 0, 193, 129, 64, 0, 193, 129,
      64, 1, 192, 128, 65, 0, 193, 129, 64, 1, 192, 128, 65, 1, 192, 128, 65, 0, 193, 129, 64 >>

table_crc_lo ==
    <<0, 192, 193, 1, 195, 3, 2, 194, 198, 6, 7, 199, 5, 197, 196, 4, 204, 12, 13, 205, 15, 207,
      206, 14, 10, 202, 203, 11, 201, 9, 8, 200, 216, 24, 25, 217, 27, 219, 218, 26, 30, 222, 223,
      31, 221, 29, 28, 220, 20, 212, 213, 21, 215, 23, 22, 214, 210, 18, 19, 211, 17, 209, 208,
      16, 240, 48, 49, 241, 51, 243, 242, 50, 54, 246, 247, 55, 245, 53, 52, 244, 60, 252, 253,
      61, 255, 63, 62, 254, 250, 58, 59, 251, 57, 249, 248, 56, 40, 232, 233, 41, 235, 43, 42,
      234, 238, 46, 47, 239, 45, 237, 236, 44, 228, 36, 37, 229, 39, 231, 230, 38, 34, 226, 227,
      35, 225, 33, 32, 224, 160, 96, 97, 161, 99, 163, 162, 98, 102, 166, 167, 103, 165, 101, 100,
      164, 108, 172, 173, 109, 175, 111, 110, 174, 170, 106, 107, 171, 105, 169, 168, 104, 120,
      184, 185, 121, 187, 123, 122, 186, 190, 126, 127, 191, 125, 189, 188, 124, 180, 116, 117,
      181, 119, 183, 182, 118, 114, 178, 179, 115, 177, 113, 112, 176, 80, 144, 145, 81, 147, 83,
      82, 146, 150, 86, 87, 151, 85, 149, 148, 84, 156, 92, 93, 157, 95, 159, 158, 94, 90, 154,
      155, 91, 153, 89, 88, 152, 136, 72, 73, 137, 75, 139, 138, 74, 78, 142, 143, 79, 141, 77,
      76, 140, 68, 132, 133, 69, 135, 71, 70, 134, 130, 66, 67, 131, 65, 129, 128, 64 >>

(* crc16 of libmodbus and make_crc of Pulsar: the first byte on the wire   *)
(* is the high one of the pair.                                            *)
crc_hi_lo(bytes) ==
    FoldLeft(LAMBDA crc, byte :
                LET i == Xor[crc[1]][byte]
                IN <<Xor[crc[2]][table_crc_hi[i + 1]], table_crc_lo[i + 1]>>,
             <<255, 255>>, bytes)

crc16(bytes) == <<crc_hi_lo(bytes)[1], crc_hi_lo(bytes)[2]>>

Shifted(crc) == IF crc % 2 = 1 THEN XorWord(crc \div 2, 40961) ELSE crc \div 2

(* ModRTU_CRC of Mercury: a word, stored with the low byte first.          *)
ModRTU_CRC(bytes) ==
    LET crc == FoldLeft(LAMBDA c, byte :
                            FoldLeft(LAMBDA x, i : Shifted(x), XorWord(c, byte), <<1, 2, 3, 4, 5, 6, 7, 8>>),
                        65535, bytes)
    IN <<crc % 256, crc \div 256>>

(* A plausible slip: the checksum leaves out the last byte.                *)
send_msg_preShort(bytes) == bytes \o crc16(Front(bytes))

send_msg_pre(bytes) == bytes \o crc16(bytes)

(* check_crc of Pulsar and check_integrity of libmodbus.                   *)
check_crc(frame) ==
    /\ Len(frame) >= 2
    /\ crc16(SubSeq(frame, 1, Len(frame) - 2)) = SubSeq(frame, Len(frame) - 1, Len(frame))

-----------------------------------------------------------------------------
(* Heat meters. *)

POS_L == 5

(* A plausible slip: the length does not count itself.                     *)
create_requestShort(address, mask) ==
    LET head == address \o <<1>> \o mask \o <<85, 85>>
    IN send_msg_pre(InsertAt(head, POS_L + 1, Len(head) + 2))

create_request(address, mask) ==
    LET head == address \o <<1>> \o mask \o <<85, 85>>
    IN send_msg_pre(InsertAt(head, POS_L + 1, Len(head) + 2 + 1))

-----------------------------------------------------------------------------
(* A temperature in hundredths of a degree, of an Owen register.           *)

(* A plausible slip: one bit too few for the sign.                         *)
RealShort(register) == IF register < 16384 THEN register ELSE -(65535 - register)

Real(register) == IF register < 32768 THEN register ELSE -(65535 - register)

-----------------------------------------------------------------------------
(* Bits and words of libmodbus. *)

modbus_set_bits_from_byte(dest, idx, value) ==
    [i \in DOMAIN dest |-> IF i \in idx + 1..idx + 8 THEN Bit(value, i - idx - 1) ELSE dest[i]]

(* A plausible slip: the shift starts with the index.                      *)
modbus_set_bits_shifted(dest, idx, nb_bits, tab_byte) ==
    [i \in DOMAIN dest |->
        IF i \in idx + 1..idx + nb_bits
        THEN Bit(tab_byte[((i - idx - 1) \div 8) + 1], (i - 1) % 8) ELSE dest[i]]

modbus_set_bits_from_bytes(dest, idx, nb_bits, tab_byte) ==
    [i \in DOMAIN dest |->
        IF i \in idx + 1..idx + nb_bits
        THEN Bit(tab_byte[((i - idx - 1) \div 8) + 1], (i - idx - 1) % 8) ELSE dest[i]]

modbus_get_byte_from_bits(src, idx, nb_bits) ==
    OfBits([i \in 0..7 |-> IF i < nb_bits THEN src[idx + 1 + i] ELSE 0])

(* A float is its four bytes, the lowest first; a register is two of them. *)
modbus_set_float(f) == <<<<f[1], f[2]>>, <<f[3], f[4]>>>>
modbus_get_float(src) == src[1] \o src[2]
modbus_set_float_dcba(f) == modbus_set_float(Reverse(f))
modbus_get_float_dcba(src) == Reverse(modbus_get_float(src))

-----------------------------------------------------------------------------
(* A heat meter takes the request for its own: the address is there digit  *)
(* by digit, the length is that of the whole frame, the checksum fits.     *)
RequestRight ==
    item.kind = "address" =>
        LET sent == create_request(item.address, <<64, 0, 0, 0>>)
        IN /\ SubSeq(sent, 1, 4) = item.address
           /\ sent[POS_L + 1] = Len(sent)
           /\ check_crc(sent)

(* A temperature is at most a hundredth of a degree off the two's          *)
(* complement of its register, and of two temperatures the higher is never *)
(* reported as the lower.                                                  *)
TwosComplement(register) == IF register < 32768 THEN register ELSE register - 65536

TemperatureClose ==
    item.kind = "register" =>
        LET r == item.register
        IN /\ Real(r) - TwosComplement(r) \in {0, 1}
           /\ \A s \in Register : TwosComplement(s) < TwosComplement(r) => Real(s) <= Real(r)

(* A row of bits as bytes, packed one after the other.                     *)
Packed(bits) ==
    [k \in 1..(Len(bits) + 7) \div 8 |->
        LET done == 8 * (k - 1)
            left == Len(bits) - done
        IN modbus_get_byte_from_bits(bits, done, IF left < 8 THEN left ELSE 8)]

(* Bits packed into bytes and unpacked elsewhere in a row are the bits that *)
(* were packed, and no other bit of the row is touched; the four bytes of  *)
(* a float survive two registers in either order.                          *)
ConversionsInvert ==
    item.kind = "bits" =>
        LET bits == item.bits
            n == Len(bits)
            blank == [i \in 1..n + 16 |-> 2]
            bytes == Packed(bits)
            float == [k \in 1..4 |-> (bytes[((k - 1) % Len(bytes)) + 1] + k) % 256]
        IN /\ \A at \in 0..16 :
                LET row == modbus_set_bits_from_bytes(blank, at, n, bytes)
                IN \A i \in DOMAIN row : row[i] = IF i \in at + 1..at + n THEN bits[i - at] ELSE 2
           /\ \A at \in 0..8 :
                LET row == modbus_set_bits_from_byte(blank, at, bytes[1])
                IN modbus_get_byte_from_bits(row, at, 8) = bytes[1]
           /\ modbus_get_float(modbus_set_float(float)) = float
           /\ modbus_get_float_dcba(modbus_set_float_dcba(float)) = float
           /\ modbus_set_float_dcba(float)[1] = Reverse(modbus_set_float(float)[2])
=============================================================================
