------------------------------ MODULE Formats ------------------------------
(***************************************************************************)
(* The languages the program speaks: Modbus calls as a client and a server *)
(* exchange them (module Modbus), and beside them one item at a time: a    *)
(* text handed to the JSON parser, which grows piece by piece as it comes  *)
(* in, a value handed to the serializer, the bytes of a frame, the address *)
(* of a meter, a register and a row of bits.                               *)
(***************************************************************************)
EXTENDS Modbus, QtJson, Codecs

CONSTANTS
    Seed,       \* texts to begin with
    Piece,      \* what comes next in a text
    Value,      \* values to serialize
    Byte,       \* bytes of frames
    MaxSteps    \* pieces and bytes that may come

ASSUME FormatsAssumption == MaxSteps \in Nat

Items ==
    {[kind |-> "text", text |-> s, steps |-> 0] : s \in Seed}
    \cup {[kind |-> "value", value |-> v] : v \in Value}
    \cup {[kind |-> "frame", bytes |-> <<>>, steps |-> 0]}
    \cup Conversions

Calls == [kind |-> "calls"]

(* Either calls are made or an item is looked at while the line is idle.   *)
FormatsInit ==
    \/ Init /\ item = Calls
    \/ /\ item \in Items
       /\ Init /\ backend = "tcp" /\ recovery = {}
       /\ script = CHOOSE s \in Scripts : TRUE

MakeCalls == item = Calls /\ Next /\ UNCHANGED item

TextGrows ==
    /\ item.kind = "text" /\ item.steps < MaxSteps
    /\ \E p \in Piece : item' = [item EXCEPT !.text = @ \o p, !.steps = @ + 1]
    /\ UNCHANGED vars

FrameGrows ==
    /\ item.kind = "frame" /\ item.steps < MaxSteps
    /\ \E b \in Byte : item' = [item EXCEPT !.bytes = Append(@, b), !.steps = @ + 1]
    /\ UNCHANGED vars

Looked == item.kind # "calls" /\ UNCHANGED <<vars, item>>

FormatsNext == MakeCalls \/ TextGrows \/ FrameGrows \/ Looked

FormatsSpec == FormatsInit /\ [][FormatsNext]_<<vars, item>>

-----------------------------------------------------------------------------
(* A value that qscada sends reads back as it was, and the whole text is   *)
(* used (json.cpp: serialize and parse).                                   *)
JsonRoundTrip ==
    item.kind = "value" =>
        LET text == serialize(item.value)
        IN parse(text) = Accepted(item.value, Len(text) + 1)

(* An answer of the server that stops short is not taken for an answer: no *)
(* beginning of the text of a list or a map is accepted.                   *)
JsonTruncated ==
    item.kind = "value" /\ (Is(item.value, "list") \/ Is(item.value, "map")) =>
        LET text == serialize(item.value)
        IN \A n \in 0..Len(text) - 1 : ~parse(SubSeq(text, 1, n)).success

(* Whatever is handed to the parser, well formed or not: it stops within   *)
(* the text, and what it accepts can be written and read again unchanged.  *)
JsonStable ==
    item.kind = "text" =>
        LET first == parse(item.text)
            again == parse(serialize(first.value))
        IN /\ first.index \in 1..Len(item.text) + 1
           /\ first.success => again.success /\ again.value = first.value

(* The checksum by table of libmodbus and of Pulsar is on the wire the     *)
(* bitwise one of Mercury.  A frame is accepted as it was sent and refused *)
(* when one byte or two in a row were changed, those of the checksum among *)
(* them.                                                                   *)
CrcGuards ==
    item.kind = "frame" =>
        LET frame == send_msg_pre(item.bytes)
            damaged(k, x, y) ==
                [i \in DOMAIN frame |->
                    CASE i = k -> Xor[frame[i]][x] [] i = k + 1 -> Xor[frame[i]][y] [] OTHER -> frame[i]]
        IN /\ crc16(item.bytes) = ModRTU_CRC(item.bytes)
           /\ check_crc(frame)
           /\ item.bytes # <<>> =>
                \A k \in DOMAIN frame, x \in Byte \ {0}, y \in Byte :
                    ~check_crc(damaged(k, x, y))
=============================================================================
