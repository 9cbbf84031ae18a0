------------------------------- MODULE Modbus -------------------------------
(***************************************************************************)
(* A libmodbus client and a libmodbus server with a line between them.     *)
(* The client makes the calls of a script one after the other; each sends  *)
(* one request and reads, piece by piece, the next message that comes.     *)
(* The answer may be lost, damaged or late: a late one is still on the     *)
(* wire when the next call reads.                                          *)
(*                                                                         *)
(* Bytes of which the beginning was read or damaged are no message any     *)
(* more (whole = FALSE); what the client makes of them is never accepted:  *)
(* a checksum or a transaction that fits by chance is left out.  So is the *)
(* damage to a slave's number that turns an answer into another slave's.   *)
(***************************************************************************)
EXTENDS ModbusFrames

CONSTANTS
    Scripts,     \* the sequences of calls a client may make
    Recoveries,  \* the error recovery modes it may have chosen
    ServerId,    \* the slave the server answers for
    Size,        \* how many bits and registers of each table the server has
    Inputs       \* the contents of the tables a client cannot write

(* What a bit and a register hold.                                         *)
Word16 == {w \in Nat : w < 65536}
Cell == [bits |-> {0, 1}, input_bits |-> {0, 1},
         registers |-> Word16, input_registers |-> Word16]

MemoryOK(m) ==
    /\ m = [t \in DOMAIN Cell |-> m[t]]
    /\ \A t \in DOMAIN Cell : \A a \in DOMAIN m[t] : a \in Nat /\ m[t][a] \in Cell[t]

(* A call of one of the functions of modbus.h, with 16-bit addresses,      *)
(* counts and values and as many values as it says.                        *)
CallOK(c) ==
    /\ c \in [slave : Int, fn : Int, addr : Word16, nb : Word16,
               src : Seq(Word16), waddr : Word16]
    /\ Known(c.fn) \/ c.fn = FC.REPORT_SLAVE_ID
    /\ c.fn \in WriteSingle => Len(c.src) = 1
    /\ c.fn = FC.MASK_WRITE_REGISTER => Len(c.src) = 2
    /\ c.fn \in WriteMultiple => Len(c.src) = c.nb
    /\ c.fn = FC.WRITE_MULTIPLE_COILS => \A i \in DOMAIN c.src : c.src[i] \in {0, 1}

ASSUME ModbusAssumption ==
    /\ Recoveries \subseteq SUBSET {"link", "protocol"}
    /\ ServerId \in 1..247
    /\ Size \in [DOMAIN Cell -> Nat]
    /\ MemoryOK(Inputs)
    /\ \A s \in Scripts : DOMAIN s = 1..Len(s) /\ Len(s) \in Nat /\ \A i \in DOMAIN s : CallOK(s[i])

VARIABLES
    backend, recovery, script,
    slave,      \* ctx->slave
    tid,        \* the transaction counter of the TCP backend
    link,       \* "closed", "up" or "dead": a socket whose peer is gone
    made,       \* how many calls of the script were made
    waiting,    \* the last one waits for its answer
    reading,    \* _modbus_receive_msg: step, bytes read, bytes to read
    outcome,    \* of the last call that returned
    toServer,   \* requests on their way
    wire,       \* answers on their way, the first one partly read maybe
    memory,     \* the server's tables
    ignore,     \* confirmation_to_ignore of a server on a serial line
    clean       \* nothing was lost, damaged, late or reset so far

clientVars == <<slave, tid, link, made, waiting, reading, outcome>>
lineVars == <<toServer, wire>>
serverVars == <<memory, ignore>>
vars == <<backend, recovery, script, clientVars, lineVars, serverVars, clean>>

call == script[made]
Start == [step |-> "function", length |-> 0, left |-> FirstLength(backend)]
Nothing == [rc |-> 0, dest |-> <<>>, of |-> 0, seen |-> <<>>]
Failed == [rc |-> -1, dest |-> <<>>, of |-> 0, seen |-> <<>>]

Init ==
    /\ backend \in DOMAIN Backend
    /\ recovery \in Recoveries
    /\ script \in Scripts
    /\ slave = IF backend = "rtu" THEN -1 ELSE MODBUS_TCP_SLAVE
    /\ tid = 0
    /\ link = "closed"
    /\ made = 0
    /\ waiting = FALSE
    /\ reading = Start
    /\ outcome = Nothing
    /\ toServer = <<>>
    /\ wire = <<>>
    /\ memory = Inputs
    /\ ignore = FALSE
    /\ clean = TRUE

fixed == <<backend, recovery, script>>
-----------------------------------------------------------------------------
(* Connecting and closing.  A closed TCP connection takes everything under *)
(* way with it; behind a gateway or on a serial line a request that was    *)
(* sent is still answered.                                                 *)

Connect ==
    /\ link = "closed"
    /\ link' = "up"
    /\ UNCHANGED <<fixed, slave, tid, made, waiting, reading, outcome, lineVars, serverVars, clean>>

Close ==
    /\ link # "closed"
    /\ ~waiting
    /\ link' = "closed"
    /\ wire' = <<>>
    /\ toServer' = IF backend = "tcp" THEN <<>> ELSE toServer
    /\ UNCHANGED <<fixed, slave, tid, made, waiting, reading, outcome, serverVars, clean>>

-----------------------------------------------------------------------------
(* A call: set_slave, the check of the count, the request. *)

(* A plausible slip: no range check. *)
set_slave_any(s) == s

SlaveTaken(s) == s \in 0..247 \/ (s = MODBUS_TCP_SLAVE /\ backend # "rtu")

set_slave(s) == IF SlaveTaken(s) THEN s ELSE slave

NextTid == IF tid < 65535 THEN tid + 1 ELSE 0

Calling ==
    /\ ~waiting
    /\ made < Len(script)
    /\ made' = made + 1
    /\ slave' = set_slave(script[made + 1].slave)
    /\ slave' # -1

CallRefused ==
    /\ Calling
    /\ TooMany(script[made + 1])
    /\ outcome' = Failed
    /\ UNCHANGED <<fixed, tid, link, waiting, reading, lineVars, serverVars, clean>>

Send ==
    /\ Calling
    /\ ~TooMany(script[made + 1])
    /\ link = "up"
    /\ tid' = IF backend = "tcp" THEN NextTid ELSE 0
    /\ toServer' = Append(toServer, [m |-> Request(slave', tid', script[made + 1]), of |-> made'])
    /\ waiting' = TRUE
    /\ reading' = Start
    /\ UNCHANGED <<fixed, link, outcome, wire, serverVars, clean>>

(* send returns -1 on a socket that is closed or dead; in link recovery it *)
(* is repeated over new connections until it succeeds.                     *)
SendFails ==
    /\ Calling
    /\ ~TooMany(script[made + 1])
    /\ link # "up"
    /\ tid' = IF backend = "tcp" THEN NextTid ELSE 0
    /\ IF "link" \in recovery
       THEN /\ link' = "up"
            /\ wire' = <<>>
            /\ toServer' = Append(IF backend = "tcp" THEN <<>> ELSE toServer,
                                  [m |-> Request(slave', tid', script[made + 1]), of |-> made'])
            /\ waiting' = TRUE
            /\ reading' = Start
            /\ UNCHANGED outcome
       ELSE /\ outcome' = Failed
            /\ UNCHANGED <<link, waiting, reading, lineVars>>
    /\ clean' = FALSE
    /\ UNCHANGED <<fixed, serverVars>>

-----------------------------------------------------------------------------
(* The server: modbus_receive, then modbus_reply for a request it takes.   *)

(* What the line makes of an answer.  TCP loses and damages nothing. *)
Damaged(w) ==
    LET d == w.m.data
    IN [w EXCEPT !.m.data = [d EXCEPT ![Len(d)] = (d[Len(d)] + 1) % 256], !.m.crc = FALSE]
Delivered(answers) ==
    {answers} \cup
    IF backend = "tcp" \/ answers = <<>> THEN {}
    ELSE {<<>>, <<Damaged(answers[1])>>, <<[answers[1] EXCEPT !.whole = FALSE]>>}

request == Head(toServer)
Understood == LengthRead(backend, request.m, "indication") = Length(backend, request.m)
Addressed == check_integrity(backend, ServerId, request.m, Length(backend, request.m)) > 0

Answers(r, reply) ==
    [i \in DOMAIN reply.sent |->
        [m |-> reply.sent[i], of |-> r.of, whole |-> TRUE,
         seen |-> IF r.m.fn \in ReadBits \cup ReadRegisters \cup {FC.WRITE_AND_READ_REGISTERS}
                     /\ reply.sent[i].fn < 128
                  THEN Peek(reply.memory[Table(r.m.fn)], Word(r.m.data, 1), Word(r.m.data, 3))
                  ELSE <<>>]]

Serve ==
    /\ toServer # <<>>
    /\ ~ignore
    /\ Understood /\ Addressed
    /\ LET reply == modbus_reply(request.m, memory, Size)
           answers == Answers(request, reply)
       IN /\ memory' = reply.memory
          /\ toServer' = IF reply.flushed THEN <<>> ELSE Tail(toServer)
          /\ \E d \in Delivered(answers) :
                /\ wire' = IF link = "closed" THEN wire ELSE wire \o d
                /\ clean' = (clean /\ d = answers /\ link # "closed")
    /\ UNCHANGED <<fixed, clientVars, ignore>>

(* A request for another slave: on a serial line its confirmation is       *)
(* expected next.  A request the server misreads is lost.                  *)
ServeNot ==
    /\ toServer # <<>>
    /\ ~ignore
    /\ ~(Understood /\ Addressed)
    /\ toServer' = Tail(toServer)
    /\ ignore' = (backend = "rtu" /\ Understood)
    /\ UNCHANGED <<fixed, clientVars, wire, memory, clean>>

(* The next message is taken for the confirmation, or none comes in time.  *)
(* A request is longer than the part of it that is read as a confirmation; *)
(* the rest may spoil the request behind it.                               *)
IgnoreMessage ==
    /\ ignore
    /\ toServer # <<>>
    /\ \E n \in 1..Len(toServer) : n <= 2 /\ toServer' = SubSeq(toServer, n + 1, Len(toServer))
    /\ ignore' = FALSE
    /\ clean' = FALSE
    /\ UNCHANGED <<fixed, clientVars, wire, memory>>
IgnoreTimeout ==
    /\ ignore
    /\ ignore' = FALSE
    /\ UNCHANGED <<fixed, clientVars, lineVars, memory, clean>>

RequestLost ==
    /\ backend # "tcp"
    /\ toServer # <<>>
    /\ toServer' = Tail(toServer)
    /\ clean' = FALSE
    /\ UNCHANGED <<fixed, clientVars, wire, serverVars>>

-----------------------------------------------------------------------------
(* The client reads: _modbus_receive_msg and check_confirmation.           *)

Pieces(n) == {n, (n + 1) \div 2}

(* The bytes still to read when the ones asked for have come: the meta     *)
(* part after the function, the data after the meta part.                  *)
Advance(r, m) ==
    IF r.left # 0 THEN r
    ELSE CASE r.step = "function" ->
                [r EXCEPT !.step = "meta",
                          !.left = compute_meta_length_after_function(m.fn, "confirmation")]
           [] r.step = "meta" ->
                [r EXCEPT !.step = "data",
                          !.left = compute_data_length_after_meta(backend, m, "confirmation")]
           [] r.step = "data" -> r

TooLong(r) == r.length + r.left > Backend[backend].max_adu

Flush(mode) == IF mode \in recovery THEN <<>> ELSE wire

(* The first message on the wire when n bytes of it were read. *)
Rest(n) ==
    IF n = 0 THEN wire
    ELSE IF n < Length(backend, Head(wire).m)
    THEN <<[Head(wire) EXCEPT !.whole = FALSE]>> \o Tail(wire)
    ELSE Tail(wire)

Receive(k) ==
    /\ waiting /\ link = "up"
    /\ wire # <<>> /\ Head(wire).whole
    /\ reading.length + k <= Length(backend, Head(wire).m)
    /\ LET r == Advance([reading EXCEPT !.length = @ + k, !.left = @ - k], Head(wire).m)
       IN /\ r.left > 0 /\ ~TooLong(r)
          /\ reading' = r
    /\ UNCHANGED <<fixed, slave, tid, link, made, waiting, outcome, lineVars, serverVars, clean>>

Confirm(k) ==
    /\ waiting /\ link = "up"
    /\ wire # <<>> /\ Head(wire).whole
    /\ reading.length + k <= Length(backend, Head(wire).m)
    /\ LET w == Head(wire)
           r == Advance([reading EXCEPT !.length = @ + k, !.left = @ - k], w.m)
           length == check_integrity(backend, slave, w.m, r.length)
           rc == IF TooLong(r) \/ length = -1 THEN -1
                 ELSE check_confirmation(backend, Request(slave, tid, call), w.m, length)
           flushed == /\ "protocol" \in recovery
                      /\ rc = -1 /\ ~TooLong(r)
                      /\ \/ w.m.fn < 128 \/ length = -1
                         \/ ~pre_check_confirmation(backend, Request(slave, tid, call), w.m)
       IN /\ r.left = 0 \/ TooLong(r)
          /\ outcome' = IF rc = -1 THEN Failed
                        ELSE [rc |-> Returned(call, rc), dest |-> Dest(call, rc, w.m),
                              of |-> w.of, seen |-> w.seen]
          /\ wire' = IF flushed THEN <<>> ELSE Rest(r.length)
    /\ waiting' = FALSE
    /\ reading' = Start
    /\ UNCHANGED <<fixed, slave, tid, link, made, toServer, serverVars, clean>>

(* Bytes that are no message: a wrong checksum, a message too long or one  *)
(* that never ends.                                                        *)
ReceiveJunk ==
    /\ waiting /\ link = "up"
    /\ wire # <<>> /\ ~Head(wire).whole
    /\ outcome' = Failed
    /\ waiting' = FALSE
    /\ reading' = Start
    /\ \/ wire' = Tail(wire)
       \/ wire' = <<>>
       \/ /\ Len(wire) > 1
          /\ wire' = <<[wire[2] EXCEPT !.whole = FALSE]>> \o SubSeq(wire, 3, Len(wire))
    /\ clean' = FALSE
    /\ UNCHANGED <<fixed, slave, tid, link, made, toServer, serverVars>>

(* select returns 0: link recovery waits and flushes what has come, which  *)
(* need not be all that is on its way.  On a serial port recv gives no 0   *)
(* bytes here: a port that is unplugged is not modelled.                   *)
Timeout ==
    /\ waiting
    /\ outcome' = Failed
    /\ waiting' = FALSE
    /\ \/ wire' = Rest(reading.length)
       \/ "link" \in recovery /\ wire' = <<>>
    /\ reading' = Start
    /\ clean' = (clean /\ toServer = <<>> /\ wire = <<>>)
    /\ UNCHANGED <<fixed, slave, tid, link, made, toServer, serverVars>>

(* recv returns 0: the peer has closed the connection. *)
Reset ==
    /\ waiting /\ link = "up" /\ backend # "rtu"
    /\ outcome' = Failed
    /\ waiting' = FALSE
    /\ reading' = Start
    /\ wire' = <<>>
    /\ toServer' = IF backend = "tcp" THEN <<>> ELSE toServer
    /\ IF "link" \in recovery THEN link' \in {"up", "closed"} ELSE link' = "dead"
    /\ clean' = FALSE
    /\ UNCHANGED <<fixed, slave, tid, made, serverVars>>

Next ==
    \/ Connect \/ Close
    \/ CallRefused \/ Send \/ SendFails
    \/ Serve \/ ServeNot \/ IgnoreMessage \/ IgnoreTimeout \/ RequestLost
    \/ \E k \in Pieces(reading.left) : Receive(k) \/ Confirm(k)
    \/ ReceiveJunk \/ Timeout \/ Reset

Spec == Init /\ [][Next]_vars
-----------------------------------------------------------------------------
(* The variables have their types; slave numbers stay those of Modbus.     *)
TypeOK ==
    /\ slave \in -1..247 \cup {MODBUS_TCP_SLAVE}
    /\ backend = "rtu" => slave # MODBUS_TCP_SLAVE
    /\ tid \in Word16
    /\ link \in {"closed", "up", "dead"}
    /\ made \in 0..Len(script)
    /\ waiting \in BOOLEAN
    /\ reading.step \in {"function", "meta", "data"} /\ reading.left > 0
    /\ outcome.rc \in -1..MAX.READ_BITS
    /\ ignore \in BOOLEAN /\ ignore => backend = "rtu"
    /\ MemoryOK(memory)

(* A call that returns values returns what the server held when it answered *)
(* a request for as many of that kind, of that slave; over TCP it is the   *)
(* answer to this call and no other.  What modbus_report_slave_id gets     *)
(* through a gateway may be another slave's: _modbus_rtutcp_check_integrity *)
(* leaves its refusal to check_confirmation, which for this function       *)
(* compares no length and on this backend no slave; on a serial line the   *)
(* same goes for a broadcast.                                              *)
AnswerFits ==
    outcome.of > 0 =>
        LET c == script[made]
            asked == script[outcome.of]
        IN ~waiting =>
            /\ c.fn = asked.fn
            /\ backend = "tcp" => outcome.of = made
            /\ /\ backend # "tcp" /\ SlaveTaken(c.slave) /\ SlaveTaken(asked.slave)
               /\ c.fn = FC.REPORT_SLAVE_ID =>
                      backend = "rtu" /\ c.slave # MODBUS_BROADCAST_ADDRESS
               => c.slave = asked.slave \/ asked.slave = MODBUS_BROADCAST_ADDRESS
            /\ c.fn \in ReadBits => (c.nb + 7) \div 8 = (asked.nb + 7) \div 8
            /\ c.fn \in ReadRegisters \cup WriteMultiple => c.nb = asked.nb
            /\ c.fn \in ReadBits \cup ReadRegisters \cup {FC.WRITE_AND_READ_REGISTERS} =>
                \A i \in 1..Len(outcome.seen) : i <= c.nb => outcome.dest[i] = outcome.seen[i]

(* A reference for what the server can do, from the limits of the protocol, *)
(* and for what it can do of the calls that reach it.                      *)
Feasible(c) ==
    LET room == Size[Table(c.fn)]
        within(limit) == c.nb \in 1..limit /\ c.addr + c.nb <= room
    IN CASE c.fn \in ReadBits -> within(2000)
         [] c.fn \in ReadRegisters -> within(125)
         [] c.fn = FC.WRITE_MULTIPLE_COILS -> within(1968)
         [] c.fn = FC.WRITE_MULTIPLE_REGISTERS -> within(123)
         [] c.fn = FC.WRITE_AND_READ_REGISTERS ->
                 within(125) /\ Len(c.src) \in 1..121 /\ c.waddr + Len(c.src) <= room
         [] c.fn = FC.REPORT_SLAVE_ID -> TRUE
         [] OTHER -> c.addr < room
Possible(c) ==
    (backend = "tcp" \/ slave \in {ServerId, MODBUS_BROADCAST_ADDRESS}) /\ Feasible(c)

Count(c) ==
    CASE c.fn \in WriteSingle \cup {FC.MASK_WRITE_REGISTER} -> 1
      [] c.fn = FC.REPORT_SLAVE_ID -> 10
      [] OTHER -> c.nb

(* As long as the line has done nothing wrong, client and server of every  *)
(* backend understand each other: a call succeeds exactly when the server  *)
(* can do what it asks, and neither side has a byte left over.             *)
CleanCall ==
    clean /\ ~waiting /\ made > 0 /\ link = "up" =>
        /\ outcome.rc = IF Possible(script[made]) THEN Count(script[made]) ELSE -1
        /\ wire = <<>> /\ toServer = <<>>

(* A write the client has its acknowledgement of is in the server's memory, *)
(* whatever else was lost, damaged or late before.                         *)
WriteTaken ==
    ~waiting /\ made > 0 /\ outcome.of = made =>
        LET c == script[made] IN
        /\ c.fn \in WriteMultiple => Peek(memory[Table(c.fn)], c.addr, c.nb) = c.src
        /\ c.fn = FC.WRITE_SINGLE_REGISTER => Peek(memory.registers, c.addr, 1) = c.src
        /\ c.fn = FC.WRITE_AND_READ_REGISTERS =>
                Peek(memory.registers, c.waddr, Len(c.src)) = c.src

(* No message is longer than the backend allows, and the client reads no   *)
(* further than that, however the message comes in pieces.                 *)
AduBound ==
    /\ \A i \in DOMAIN toServer : Length(backend, toServer[i].m) <= Backend[backend].max_adu
    /\ \A i \in DOMAIN wire : Length(backend, wire[i].m) <= Backend[backend].max_adu
    /\ reading.length + reading.left <= Backend[backend].max_adu

-----------------------------------------------------------------------------
(* What a call does to the tables, and what it reads there, whatever the   *)
(* request and the answer that carry it look like.                         *)
Effect(c, m) ==
    CASE c.fn = FC.WRITE_SINGLE_COIL ->
            [m EXCEPT !["bits"] = Poke(m["bits"], c.addr, <<IF c.src[1] # 0 THEN 1 ELSE 0>>)]
      [] c.fn = FC.WRITE_MULTIPLE_COILS ->
            [m EXCEPT !["bits"] = Poke(m["bits"], c.addr, c.src)]
      [] c.fn \in {FC.WRITE_SINGLE_REGISTER, FC.WRITE_MULTIPLE_REGISTERS} ->
            [m EXCEPT !["registers"] = Poke(m["registers"], c.addr, c.src)]
      [] c.fn = FC.MASK_WRITE_REGISTER ->
            [m EXCEPT !["registers"] =
                Poke(m["registers"], c.addr,
                     <<masked(Peek(m["registers"], c.addr, 1)[1], c.src[1], c.src[2])>>)]
      [] c.fn = FC.WRITE_AND_READ_REGISTERS ->
            [m EXCEPT !["registers"] = Poke(m["registers"], c.waddr, c.src)]
      [] OTHER -> m

Held(c, m) ==
    IF c.fn \in ReadBits \cup ReadRegisters \cup {FC.WRITE_AND_READ_REGISTERS}
    THEN Peek(m[Table(c.fn)], c.addr, c.nb)
    ELSE <<>>

(* The promise kept: whatever the line does, client and server are as one  *)
(* set of tables (module RemoteTables) that the calls act on one after the *)
(* other.  No call for another slave and none the server cannot do ever    *)
(* takes effect.                                                           *)
ForAnother(c) ==
    backend # "tcp" /\ SlaveTaken(c.slave) /\ c.slave \notin {ServerId, MODBUS_BROADCAST_ADDRESS}

AsTables == INSTANCE RemoteTables WITH
    denied <- {n \in DOMAIN script : ForAnother(script[n]) \/ ~Feasible(script[n])},
    open <- {toServer[i].of : i \in DOMAIN toServer},
    answers <- {[of |-> wire[i].of, seen |-> wire[i].seen] :
                    i \in {j \in DOMAIN wire : wire[j].whole /\ wire[j].m.fn < 128}},
    result <- [of |-> outcome.of, seen |-> outcome.seen]

ImplementsTables == AsTables!Spec
=============================================================================
