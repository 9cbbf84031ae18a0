---------------------------- MODULE ModbusFrames ----------------------------
(***************************************************************************)
(* The messages of libmodbus: what a client puts into a request, how many  *)
(* bytes either side reads of a message it has seen the beginning of, what *)
(* a server answers and what a client accepts as the answer.               *)
(*                                                                         *)
(* A message is a record: the transaction of a TCP header, the slave, the  *)
(* function, "data" (the bytes after the function, without the checksum)   *)
(* and "crc", whether the checksum fits.  In the code data[k] is the byte  *)
(* at header_length + k.                                                   *)
(***************************************************************************)
EXTENDS Integers, Sequences

FC == [READ_COILS |-> 1, READ_DISCRETE_INPUTS |-> 2, READ_HOLDING_REGISTERS |-> 3,
       READ_INPUT_REGISTERS |-> 4, WRITE_SINGLE_COIL |-> 5, WRITE_SINGLE_REGISTER |-> 6,
       READ_EXCEPTION_STATUS |-> 7, WRITE_MULTIPLE_COILS |-> 15,
       WRITE_MULTIPLE_REGISTERS |-> 16, REPORT_SLAVE_ID |-> 17,
       MASK_WRITE_REGISTER |-> 22, WRITE_AND_READ_REGISTERS |-> 23]

ReadBits == {FC.READ_COILS, FC.READ_DISCRETE_INPUTS}
ReadRegisters == {FC.READ_HOLDING_REGISTERS, FC.READ_INPUT_REGISTERS}
WriteSingle == {FC.WRITE_SINGLE_COIL, FC.WRITE_SINGLE_REGISTER}
WriteMultiple == {FC.WRITE_MULTIPLE_COILS, FC.WRITE_MULTIPLE_REGISTERS}

(* A plausible slip: as many registers as an ADU of 260 bytes has room for. *)
MAXByAdu == [READ_BITS |-> 2000, WRITE_BITS |-> 1968, READ_REGISTERS |-> 127,
             WRITE_REGISTERS |-> 123, WR_WRITE_REGISTERS |-> 121, WR_READ_REGISTERS |-> 125]

MAX == [READ_BITS |-> 2000, WRITE_BITS |-> 1968, READ_REGISTERS |-> 125,
        WRITE_REGISTERS |-> 123, WR_WRITE_REGISTERS |-> 121, WR_READ_REGISTERS |-> 125]

EXCEPTION == [ILLEGAL_FUNCTION |-> 1, ILLEGAL_DATA_ADDRESS |-> 2, ILLEGAL_DATA_VALUE |-> 3]

MODBUS_BROADCAST_ADDRESS == 0
MODBUS_TCP_SLAVE == 255

(* The three ways a message travels: over a serial line, over TCP, and the *)
(* serial form over a TCP connection to a gateway, which qscada uses.      *)
Backend == [rtu |-> [header |-> 1, checksum |-> 2, max_adu |-> 256],
            tcp |-> [header |-> 7, checksum |-> 0, max_adu |-> 260],
            rtutcp |-> [header |-> 1, checksum |-> 2, max_adu |-> 256]]

Length(b, m) == Backend[b].header + 1 + Len(m.data) + Backend[b].checksum

-----------------------------------------------------------------------------
(* Words, registers and bits as bytes. *)

Word(d, k) == d[k] * 256 + d[k + 1]
Bytes(w) == <<(w \div 256) % 256, w % 256>>

RegisterBytes(regs) == [k \in 1..2 * Len(regs) |-> Bytes(regs[(k + 1) \div 2])[2 - (k % 2)]]
(* A plausible slip: the low byte first. *)
RegistersLowFirst(d, from, nb) ==
    [i \in 1..nb |-> d[from + 2 * i - 1] * 256 + d[from + 2 * i - 2]]

Registers(d, from, nb) == [i \in 1..nb |-> Word(d, from + 2 * i - 2)]

ByteCount(nb) == (nb \div 8) + (IF nb % 8 # 0 THEN 1 ELSE 0)

(* The bits of a byte, the first one of the row in the lowest place.       *)
BitWeight == <<1, 2, 4, 8, 16, 32, 64, 128>>

BitBytes(bits) ==
    [k \in 1..ByteCount(Len(bits)) |->
        LET bit(j) == IF 8 * k - 8 + j > Len(bits) THEN 0 ELSE BitWeight[j] * bits[8 * k - 8 + j]
        IN bit(1) + bit(2) + bit(3) + bit(4) + bit(5) + bit(6) + bit(7) + bit(8)]
Bits(d, from, nb) ==
    [i \in 1..nb |-> (d[from + (i - 1) \div 8] \div BitWeight[((i - 1) % 8) + 1]) % 2]

-----------------------------------------------------------------------------
(* The client's request.  A call names its function, the address and count *)
(* it reads or writes, and "src", the values it writes; a write-and-read   *)
(* has the address it writes to as well.                                   *)

TooMany(c) ==
    \/ c.fn \in ReadBits /\ c.nb > MAX.READ_BITS
    \/ c.fn \in ReadRegisters /\ c.nb > MAX.READ_REGISTERS
    \/ c.fn = FC.WRITE_MULTIPLE_COILS /\ c.nb > MAX.WRITE_BITS
    \/ c.fn = FC.WRITE_MULTIPLE_REGISTERS /\ c.nb > MAX.WRITE_REGISTERS
    \/ /\ c.fn = FC.WRITE_AND_READ_REGISTERS
       /\ \/ Len(c.src) > MAX.WR_WRITE_REGISTERS
          \/ c.nb > MAX.WR_READ_REGISTERS

write_bits(c) == Bytes(c.addr) \o Bytes(c.nb) \o <<ByteCount(c.nb)>> \o BitBytes(c.src)
write_registers(c) == Bytes(c.addr) \o Bytes(c.nb) \o <<c.nb * 2>> \o RegisterBytes(c.src)
(* Over TCP these are 14 bytes, in an array of _MIN_REQ_LENGTH = 12: what  *)
(* the two bytes behind it do to the program is not modelled, the request  *)
(* is sent as it was meant.                                                *)
mask_write_register(c) == Bytes(c.addr) \o Bytes(c.src[1]) \o Bytes(c.src[2])
write_and_read_registers(c) ==
    Bytes(c.addr) \o Bytes(c.nb) \o Bytes(c.waddr) \o Bytes(Len(c.src))
        \o <<Len(c.src) * 2>> \o RegisterBytes(c.src)
write_bit(c) == Bytes(c.addr) \o (IF c.src[1] # 0 THEN <<255, 0>> ELSE <<0, 0>>)

RequestData(c) ==
    CASE c.fn \in ReadBits \cup ReadRegisters -> Bytes(c.addr) \o Bytes(c.nb)
      [] c.fn = FC.WRITE_SINGLE_COIL -> write_bit(c)
      [] c.fn = FC.WRITE_SINGLE_REGISTER -> Bytes(c.addr) \o Bytes(c.src[1])
      [] c.fn = FC.WRITE_MULTIPLE_COILS -> write_bits(c)
      [] c.fn = FC.WRITE_MULTIPLE_REGISTERS -> write_registers(c)
      [] c.fn = FC.MASK_WRITE_REGISTER -> mask_write_register(c)
      [] c.fn = FC.WRITE_AND_READ_REGISTERS -> write_and_read_registers(c)
      [] c.fn = FC.REPORT_SLAVE_ID -> <<>>

Request(slave, tid, c) ==
    [tid |-> tid, slave |-> slave, fn |-> c.fn, data |-> RequestData(c), crc |-> TRUE]

-----------------------------------------------------------------------------
(* How many bytes are read of a message: the function first, then the part *)
(* whose length the function tells, then the part whose length is in it.   *)

FirstLength(b) == Backend[b].header + 1

(* A plausible slip: the mask write taken for one more single write. *)
meta_length_mask_forgotten(fn, type) ==
    IF type = "indication"
    THEN CASE fn <= FC.WRITE_SINGLE_REGISTER \/ fn = FC.MASK_WRITE_REGISTER -> 4
           [] fn \in WriteMultiple -> 5
           [] fn = FC.WRITE_AND_READ_REGISTERS -> 9
           [] OTHER -> 0
    ELSE IF fn \in WriteSingle \cup WriteMultiple THEN 4 ELSE 1

compute_meta_length_after_function(fn, type) ==
    IF type = "indication"
    THEN CASE fn <= FC.WRITE_SINGLE_REGISTER -> 4
           [] fn \in WriteMultiple -> 5
           [] fn = FC.MASK_WRITE_REGISTER -> 6
           [] fn = FC.WRITE_AND_READ_REGISTERS -> 9
           [] OTHER -> 0
    ELSE CASE fn \in WriteSingle \cup WriteMultiple -> 4
           [] fn = FC.MASK_WRITE_REGISTER -> 6
           [] OTHER -> 1

compute_data_length_after_meta(b, m, type) ==
    Backend[b].checksum +
    IF type = "indication"
    THEN CASE m.fn \in WriteMultiple -> m.data[5]
           [] m.fn = FC.WRITE_AND_READ_REGISTERS -> m.data[9]
           [] OTHER -> 0
    ELSE IF \/ m.fn <= FC.READ_INPUT_REGISTERS
            \/ m.fn \in {FC.REPORT_SLAVE_ID, FC.WRITE_AND_READ_REGISTERS}
         THEN m.data[1]
         ELSE 0

LengthRead(b, m, type) ==
    FirstLength(b) + compute_meta_length_after_function(m.fn, type)
        + compute_data_length_after_meta(b, m, type)

-----------------------------------------------------------------------------
(* The server.  Its memory holds the bits and registers written so far,    *)
(* all others are 0; "size" is the number of bits and of registers it has. *)

Table(fn) ==
    CASE fn \in {FC.READ_COILS, FC.WRITE_SINGLE_COIL, FC.WRITE_MULTIPLE_COILS} -> "bits"
      [] fn = FC.READ_DISCRETE_INPUTS -> "input_bits"
      [] fn = FC.READ_INPUT_REGISTERS -> "input_registers"
      [] OTHER -> "registers"

Peek(t, a, nb) == [i \in 1..nb |-> IF a + i - 1 \in DOMAIN t THEN t[a + i - 1] ELSE 0]
Poke(t, a, values) ==
    [x \in DOMAIN t \cup (a..(a + Len(values) - 1)) |->
        IF x \in a..(a + Len(values) - 1) THEN values[x - a + 1] ELSE t[x]]

IllegalCount(m) ==
    LET nb == Word(m.data, 3) IN
    \/ m.fn \in ReadBits /\ nb \notin 1..MAX.READ_BITS
    \/ m.fn \in ReadRegisters /\ nb \notin 1..MAX.READ_REGISTERS
    \/ m.fn = FC.WRITE_MULTIPLE_COILS /\ nb \notin 1..MAX.WRITE_BITS
    \/ m.fn = FC.WRITE_MULTIPLE_REGISTERS /\ nb \notin 1..MAX.WRITE_REGISTERS
    \/ /\ m.fn = FC.WRITE_AND_READ_REGISTERS
       /\ \/ nb \notin 1..MAX.WR_READ_REGISTERS
          \/ Word(m.data, 7) \notin 1..MAX.WR_WRITE_REGISTERS
          \/ m.data[9] # Word(m.data, 7) * 2

IllegalAddress(m, size) ==
    LET room == size[Table(m.fn)]
        address == Word(m.data, 1)
    IN \/ m.fn \in WriteSingle \cup {FC.MASK_WRITE_REGISTER} /\ address >= room
       \/ m.fn \notin WriteSingle \cup {FC.MASK_WRITE_REGISTER}
          /\ address + Word(m.data, 3) > room
       \/ m.fn = FC.WRITE_AND_READ_REGISTERS /\ Word(m.data, 5) + Word(m.data, 7) > room

IllegalCoil(m) == m.fn = FC.WRITE_SINGLE_COIL /\ Word(m.data, 3) \notin {0, 65280}

Known(fn) ==
    fn \in ReadBits \cup ReadRegisters \cup WriteSingle \cup WriteMultiple
           \cup {FC.MASK_WRITE_REGISTER, FC.WRITE_AND_READ_REGISTERS}

(* What a request that is obeyed writes, and where. *)
maskedByte(old, and, or) ==
    LET bit(w) == ((IF (and \div w) % 2 = 1 THEN old ELSE or) \div w) % 2
    IN 128 * bit(128) + 64 * bit(64) + 32 * bit(32) + 16 * bit(16)
       + 8 * bit(8) + 4 * bit(4) + 2 * bit(2) + bit(1)

masked(old, and, or) ==
    256 * maskedByte(old \div 256, and \div 256, or \div 256)
        + maskedByte(old % 256, and % 256, or % 256)

Written(m, memory) ==
    LET t == memory[Table(m.fn)]
        address == Word(m.data, 1)
    IN CASE m.fn = FC.WRITE_SINGLE_COIL ->
                Poke(t, address, <<IF Word(m.data, 3) # 0 THEN 1 ELSE 0>>)
         [] m.fn = FC.WRITE_SINGLE_REGISTER -> Poke(t, address, <<Word(m.data, 3)>>)
         [] m.fn = FC.WRITE_MULTIPLE_COILS ->
                Poke(t, address, Bits(m.data, 6, Word(m.data, 3)))
         [] m.fn = FC.WRITE_MULTIPLE_REGISTERS ->
                Poke(t, address, Registers(m.data, 6, Word(m.data, 3)))
         [] m.fn = FC.MASK_WRITE_REGISTER ->
                Poke(t, address,
                     <<masked(Peek(t, address, 1)[1], Word(m.data, 3), Word(m.data, 5))>>)
         [] m.fn = FC.WRITE_AND_READ_REGISTERS ->
                Poke(t, Word(m.data, 5), Registers(m.data, 10, Word(m.data, 7)))
         [] OTHER -> t

response_exception(m, code) == [m EXCEPT !.fn = @ + 128, !.data = <<code>>]

SlaveIdAnswer(m) == [m EXCEPT !.data = <<10, 180, 255, 76, 77, 66, 51, 46, 49, 46, 50>>]

(* The answer built once the memory is written. *)
Response(m, memory) ==
    LET address == Word(m.data, 1)
        nb == Word(m.data, 3)
        t == memory[Table(m.fn)]
    IN CASE m.fn \in ReadBits ->
                [m EXCEPT !.data = <<ByteCount(nb)>> \o BitBytes(Peek(t, address, nb))]
         [] m.fn \in ReadRegisters \cup {FC.WRITE_AND_READ_REGISTERS} ->
                [m EXCEPT !.data = <<nb * 2>> \o RegisterBytes(Peek(t, address, nb))]
         [] m.fn \in WriteMultiple -> [m EXCEPT !.data = SubSeq(@, 1, 4)]
         [] OTHER -> m

(* modbus_reply: the memory afterwards, the answers sent (one, or none for *)
(* a function left unimplemented) and whether the input was flushed.       *)
modbus_reply(m, memory, size) ==
    LET refuse(code, flush) ==
            [memory |-> memory, sent |-> <<response_exception(m, code)>>, flushed |-> flush]
        obeyed == [memory EXCEPT ![Table(m.fn)] = Written(m, memory)]
    IN CASE m.fn = FC.READ_EXCEPTION_STATUS -> [memory |-> memory, sent |-> <<>>, flushed |-> FALSE]
         [] m.fn = FC.REPORT_SLAVE_ID ->
                [memory |-> memory, sent |-> <<SlaveIdAnswer(m)>>, flushed |-> FALSE]
         [] m.fn # FC.REPORT_SLAVE_ID /\ m.fn # FC.READ_EXCEPTION_STATUS /\ ~Known(m.fn) ->
                refuse(EXCEPTION.ILLEGAL_FUNCTION, FALSE)
         [] Known(m.fn) ->
                IF IllegalCount(m) THEN refuse(EXCEPTION.ILLEGAL_DATA_VALUE, TRUE)
                ELSE IF IllegalAddress(m, size) THEN refuse(EXCEPTION.ILLEGAL_DATA_ADDRESS, FALSE)
                ELSE IF IllegalCoil(m) THEN refuse(EXCEPTION.ILLEGAL_DATA_VALUE, FALSE)
                ELSE [memory |-> obeyed, sent |-> <<Response(m, obeyed)>>, flushed |-> FALSE]

-----------------------------------------------------------------------------
(* The client again: is this the answer to that request?                   *)

MSG_LENGTH_UNDEFINED == -1

compute_response_length_from_request(b, req) ==
    IF req.fn = FC.REPORT_SLAVE_ID
    THEN MSG_LENGTH_UNDEFINED
    ELSE Backend[b].header + Backend[b].checksum +
         CASE req.fn \in ReadBits -> 2 + ByteCount(Word(req.data, 3))
           [] req.fn \in ReadRegisters \cup {FC.WRITE_AND_READ_REGISTERS} ->
                2 + 2 * Word(req.data, 3)
           [] req.fn = FC.READ_EXCEPTION_STATUS -> 3
           [] req.fn = FC.MASK_WRITE_REGISTER -> 7
           [] OTHER -> 5

(* A plausible slip: whatever slave it is for.  *)
check_integrity_any(b, slave, m, length) ==
    IF b = "tcp" \/ (m.crc /\ length = Length(b, m)) THEN length ELSE -1

(* The length read of a message for this slave, 0 for one of another       *)
(* slave, -1 for one whose checksum is wrong or not where it was looked for. *)
check_integrity(b, slave, m, length) ==
    IF b = "tcp" THEN length
    ELSE IF m.slave \notin {slave, MODBUS_BROADCAST_ADDRESS} THEN 0
    ELSE IF m.crc /\ length = Length(b, m) THEN length
    ELSE -1

(* A plausible slip: TCP left without a check of its own, as rtutcp is. *)
pre_check_rtu_only(b, req, rsp) ==
    b = "rtu" => req.slave \in {rsp.slave, MODBUS_BROADCAST_ADDRESS}

pre_check_confirmation(b, req, rsp) ==
    CASE b = "rtu" -> req.slave \in {rsp.slave, MODBUS_BROADCAST_ADDRESS}
      [] b = "tcp" -> req.tid = rsp.tid
      [] b = "rtutcp" -> TRUE

(* The counts that are compared: bytes of bits, registers, or what a write *)
(* of many was told.                                                       *)
Asked(req) ==
    CASE req.fn \in ReadBits -> ByteCount(Word(req.data, 3))
      [] req.fn \in ReadRegisters \cup WriteMultiple \cup {FC.WRITE_AND_READ_REGISTERS} ->
            Word(req.data, 3)
      [] OTHER -> 1
Given(rsp) ==
    CASE rsp.fn \in ReadBits -> rsp.data[1]
      [] rsp.fn \in ReadRegisters \cup {FC.WRITE_AND_READ_REGISTERS} -> rsp.data[1] \div 2
      [] rsp.fn \in WriteMultiple -> Word(rsp.data, 3)
      [] rsp.fn = FC.REPORT_SLAVE_ID -> rsp.data[1]
      [] OTHER -> 1

SameCount(req, rsp) == rsp.fn = FC.REPORT_SLAVE_ID \/ Asked(req) = Given(rsp)

check_confirmation(b, req, rsp, length) ==
    LET computed == compute_response_length_from_request(b, req) IN
    IF /\ pre_check_confirmation(b, req, rsp)
       /\ rsp.fn < 128
       /\ length = computed \/ computed = MSG_LENGTH_UNDEFINED
       /\ rsp.fn = req.fn
       /\ SameCount(req, rsp)
    THEN Given(rsp)
    ELSE -1

(* What the caller gets: the count of values and the values read. *)
Returned(c, rc) == IF rc # -1 /\ c.fn \in ReadBits THEN c.nb ELSE rc
Dest(c, rc, rsp) ==
    CASE c.fn \in ReadBits -> Bits(rsp.data, 2, c.nb)
      [] c.fn \in ReadRegisters \cup {FC.WRITE_AND_READ_REGISTERS} -> Registers(rsp.data, 2, rc)
      [] c.fn = FC.REPORT_SLAVE_ID -> SubSeq(rsp.data, 2, rc + 1)
      [] OTHER -> <<>>
=============================================================================
