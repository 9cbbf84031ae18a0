------------------------- MODULE RemoteTablesProofs -------------------------
(***************************************************************************)
(* Client, line and server of module Modbus implement module RemoteTables: *)
(* whatever is lost, damaged or late, the calls act on the tables one      *)
(* after the other, each at most once, and return what was held there.     *)
(***************************************************************************)
EXTENDS ModbusProofs

-----------------------------------------------------------------------------
(* What the server writes for a request is the effect of its call.         *)

LEMMA CoilEffect ==
    ASSUME NEW c, CallOK(c), c.fn = 5, NEW m, m.fn = 5, m.data = RequestData(c), NEW mem
    PROVE  Written(m, mem) = Poke(mem["bits"], c.addr, <<IF c.src[1] # 0 THEN 1 ELSE 0>>)
<1>1. Written(m, mem) = Poke(mem["bits"], c.addr, <<IF Word(m.data, 3) # 0 THEN 1 ELSE 0>>)
    BY CoilRequest, FunctionNumbers, Tables DEF Written
<1>2. Word(m.data, 3) = 0 <=> c.src[1] = 0
    BY CoilWord
<1>3. QED
    BY <1>1, <1>2

LEMMA EffectIs ==
    ASSUME NEW c, CallOK(c), ~TooMany(c), c.fn # 17,
           NEW m, m.fn = c.fn, m.data = RequestData(c), NEW mem, MemoryOK(mem)
    PROVE  [mem EXCEPT ![Table(m.fn)] = Written(m, mem)] = Effect(c, mem)
<1>1. CASE c.fn \in {1, 2, 3, 4}
  <2>1. Written(m, mem) = mem[Table(m.fn)]
    BY <1>1, WrittenNothing
  <2>2. mem = [t \in DOMAIN Cell |-> mem[t]]
    BY DEF MemoryOK
  <2>3. [mem EXCEPT ![Table(m.fn)] = mem[Table(m.fn)]] = mem
    BY <2>2
  <2>4. Effect(c, mem) = mem
    BY <1>1, FunctionNumbers DEF Effect
  <2>5. QED
    BY <2>1, <2>3, <2>4
<1>2. CASE c.fn = 5
  <2>1. Written(m, mem) = Poke(mem["bits"], c.addr, <<IF c.src[1] # 0 THEN 1 ELSE 0>>)
    BY <1>2, CoilEffect
  <2>2. Table(m.fn) = "bits"
    BY <1>2, Tables
  <2>3. Effect(c, mem) = [mem EXCEPT !["bits"] = Poke(mem["bits"], c.addr, <<IF c.src[1] # 0 THEN 1 ELSE 0>>)]
    BY <1>2, FunctionNumbers DEF Effect
  <2>4. QED
    BY <2>1, <2>2, <2>3
<1>3. CASE c.fn \in {6, 16}
  <2>1. Written(m, mem) = Poke(mem["registers"], c.addr, c.src)
    BY <1>3, WrittenRegister, WrittenRegisters
  <2>2. Table(m.fn) = "registers"
    BY <1>3, Tables
  <2>3. Effect(c, mem) = [mem EXCEPT !["registers"] = Poke(mem["registers"], c.addr, c.src)]
    BY <1>3, FunctionNumbers DEF Effect
  <2>4. QED
    BY <2>1, <2>2, <2>3
<1>4. CASE c.fn = 15
  <2>1. Written(m, mem) = Poke(mem["bits"], c.addr, c.src)
    BY <1>4, WrittenCoils
  <2>2. Table(m.fn) = "bits"
    BY <1>4, Tables
  <2>3. Effect(c, mem) = [mem EXCEPT !["bits"] = Poke(mem["bits"], c.addr, c.src)]
    BY <1>4, FunctionNumbers DEF Effect
  <2>4. QED
    BY <2>1, <2>2, <2>3
<1>5. CASE c.fn = 22
  <2>1. LET t == mem["registers"]
        IN Written(m, mem) = Poke(t, c.addr, <<masked(Peek(t, c.addr, 1)[1], c.src[1], c.src[2])>>)
    BY <1>5, WrittenMask
  <2>2. Table(m.fn) = "registers"
    BY <1>5, Tables
  <2>3. Effect(c, mem) = [mem EXCEPT !["registers"] = Poke(mem["registers"], c.addr, <<masked(Peek(mem["registers"], c.addr, 1)[1], c.src[1], c.src[2])>>)]
    BY <1>5, FunctionNumbers DEF Effect
  <2>4. QED
    BY <2>1, <2>2, <2>3
<1>6. CASE c.fn = 23
  <2>1. Written(m, mem) = Poke(mem["registers"], c.waddr, c.src)
    BY <1>6, WrittenBoth
  <2>2. Table(m.fn) = "registers"
    BY <1>6, Tables
  <2>3. Effect(c, mem) = [mem EXCEPT !["registers"] = Poke(mem["registers"], c.waddr, c.src)]
    BY <1>6, FunctionNumbers DEF Effect
  <2>4. QED
    BY <2>1, <2>2, <2>3
<1>7. QED
    BY <1>1, <1>2, <1>3, <1>4, <1>5, <1>6, CallFacts

LEMMA HeldIs ==
    ASSUME NEW c, CallOK(c), c.fn \in Reads, ~TooMany(c),
           NEW m, m.fn = c.fn, m.data = RequestData(c), NEW mem
    PROVE  Peek(mem[Table(m.fn)], Word(m.data, 1), Word(m.data, 3)) = Held(c, mem)
<1>1. Word(m.data, 1) = c.addr /\ Word(m.data, 3) = c.nb
  <2>1. CASE c.fn = 23
    BY <2>1, BothRequest
  <2>2. CASE c.fn \in {1, 2, 3, 4}
    BY <2>2, ReadRequest
  <2>3. QED
    BY <2>1, <2>2 DEF Reads
<1>2. QED
    BY <1>1, FunctionNumbers DEF Held, Reads
-----------------------------------------------------------------------------
(* Messages under way are numbered by their calls, in the order in which   *)
(* these were made: the answers first, then the requests.                  *)

Increasing(q) == \A i, j \in 1..Len(q) : i < j => q[i].of < q[j].of

InOrder ==
    /\ Increasing(toServer) /\ Increasing(wire)
    /\ \A w \in Elems(wire) : \A e \in Elems(toServer) : w.of < e.of

(* The end of a sequence of messages; what is left of one that was begun   *)
(* is still there, but not whole.                                          *)
Kept(x, y) == x = y \/ (x.of = y.of /\ ~x.whole)
EndOf(p, q) ==
    \E n \in 0..Len(q) : Len(p) = Len(q) - n /\ \A i \in 1..Len(p) : Kept(p[i], q[i + n])

LEMMA EndIs ==
    ASSUME NEW S, NEW p \in Seq(S), NEW q \in Seq(S), EndOf(p, q)
    PROVE  /\ \A x \in Elems(p) : \E y \in Elems(q) : Kept(x, y)
           /\ Increasing(q) => Increasing(p)
<1>. PICK k \in Nat : k = Len(p)
    OBVIOUS
<1>. PICK l \in Nat : l = Len(q)
    OBVIOUS
<1>1. PICK n \in Nat : k = l - n /\ \A i \in 1..k : Kept(p[i], q[i + n])
  <2>1. \A n \in 0..Len(q) : n \in Nat
    OBVIOUS
  <2>2. QED
    BY <2>1 DEF EndOf
<1>2. ASSUME NEW i \in 1..k
      PROVE  i \in Nat /\ i + n \in 1..l /\ Kept(p[i], q[i + n]) /\ p[i].of = q[i + n].of
  <2>1. Kept(p[i], q[i + n])
    BY <1>1
  <2>2. QED
    BY <1>1, <2>1 DEF Kept
<1>3. \A x \in Elems(p) : \E y \in Elems(q) : Kept(x, y)
    BY <1>1, <1>2 DEF Elems
<1>4. ASSUME Increasing(q), NEW i \in 1..k, NEW j \in 1..k, i < j
      PROVE  p[i].of < p[j].of
  <2>1. i + n < j + n
    BY <1>2, <1>4
  <2>2. q[i + n].of < q[j + n].of
    BY <1>1, <1>2, <1>4, <2>1 DEF Increasing
  <2>3. QED
    BY <1>2, <2>2
<1>5. QED
    BY <1>1, <1>3, <1>4 DEF Increasing

(* The ends there are. *)
LEMMA Ends ==
    ASSUME NEW S, NEW q \in Seq(S)
    PROVE  /\ EndOf(q, q) /\ EndOf(<<>>, q)
           /\ q # <<>> => EndOf(Tail(q), q)
           /\ \A n \in 1..Len(q) : EndOf(SubSeq(q, n + 1, Len(q)), q)
<1>1. PICK l \in Nat : l = Len(q)
    OBVIOUS
<1>2. EndOf(q, q)
  <2>1. 0 \in 0..l /\ l = l - 0 /\ \A i \in 1..l : Kept(q[i], q[i + 0])
    BY <1>1 DEF Kept
  <2>2. QED
    BY <1>1, <2>1 DEF EndOf
<1>3. EndOf(<<>>, q)
  <2>1. l \in 0..l /\ Len(<<>>) = l - l
    BY <1>1
  <2>2. QED
    BY <1>1, <2>1 DEF EndOf
<1>4. ASSUME q # <<>>
      PROVE  EndOf(Tail(q), q)
  <2>1. 1 \in 0..Len(q) /\ Len(Tail(q)) = Len(q) - 1
        /\ \A i \in 1..Len(Tail(q)) : Tail(q)[i] = q[i + 1]
    BY <1>4
  <2>2. QED
    BY <2>1 DEF EndOf, Kept
<1>5. ASSUME NEW n \in 1..Len(q)
      PROVE  EndOf(SubSeq(q, n + 1, Len(q)), q)
  <2> DEFINE p == SubSeq(q, n + 1, Len(q))
  <2>1. n \in 0..Len(q) /\ Len(p) = Len(q) - n /\ \A i \in 1..Len(p) : p[i] = q[i + n]
    OBVIOUS
  <2> HIDE DEF p
  <2>2. EndOf(p, q)
    BY <2>1 DEF EndOf, Kept
  <2>3. QED
    BY <2>2 DEF p
<1>6. QED
    BY <1>2, <1>3, <1>4, <1>5

(* The same with a message that was begun in front. *)
LEMMA BegunEnds ==
    ASSUME NEW q \in Seq(Answer), NEW n \in 1..Len(q), NEW p \in Seq(Answer),
           Len(p) = Len(q) - n, \A i \in 1..Len(p) : p[i] = q[i + n],
           NEW v \in Answer, Kept(v, q[n])
    PROVE  EndOf(<<v>> \o p, q)
<1>. PICK k \in Nat : k = Len(p)
    BY LenProperties, Zenon
<1>. PICK l \in Nat : l = Len(q)
    OBVIOUS
<1>1. n \in Nat /\ n >= 1 /\ n <= l /\ k = l - n
    OBVIOUS
<1> DEFINE r == <<v>> \o p
<1>2. r \in Seq(Answer) /\ Len(r) = k + 1 /\ r[1] = v /\ \A i \in 1..k : r[i + 1] = p[i]
  <2>1. <<v>> \in Seq(Answer) /\ Len(<<v>>) = 1 /\ <<v>>[1] = v
    OBVIOUS
  <2>2. r \in Seq(Answer) /\ Len(r) = 1 + k
    BY <2>1, ConcatProperties
  <2>3. r[1] = v
    BY <2>1, ConcatProperties
  <2>4. ASSUME NEW i \in 1..k
        PROVE  r[i + 1] = p[i]
    <3>1. i + 1 > 1 /\ i + 1 <= 1 + k /\ (i + 1) - 1 = i /\ i + 1 \in 1..(1 + k)
      OBVIOUS
    <3>2. QED
      BY <2>1, <3>1, ConcatProperties
  <2>5. QED
    BY <2>2, <2>3, <2>4
<1> HIDE DEF r
<1>3. ASSUME NEW i \in 1..(k + 1)
      PROVE  Kept(r[i], q[i + (n - 1)])
  <2>1. CASE i = 1
    BY <1>1, <1>2, <2>1
  <2>2. CASE i # 1
    <3>1. PICK j \in 1..k : i = j + 1
      BY <1>1, <2>2
    <3>2. r[i] = q[j + n] /\ j + n = i + (n - 1)
      BY <1>1, <1>2, <3>1
    <3>3. QED
      BY <3>2 DEF Kept
  <2>3. QED
    BY <2>1, <2>2
<1>4. n - 1 \in 0..l /\ k + 1 = l - (n - 1)
    BY <1>1
<1>5. EndOf(r, q)
    BY <1>1, <1>2, <1>3, <1>4 DEF EndOf
<1>6. QED
    BY <1>5 DEF r
-----------------------------------------------------------------------------
(* What Serve does: the tables show the effect of the call, and an answer  *)
(* that comes whole and refuses nothing holds what the call read.          *)

LEMMA SeenIs ==
    ASSUME NEW e, NEW reply, NEW a, Answers(e, reply) = <<a>>
    PROVE  a.seen = IF e.m.fn \in Reads /\ a.m.fn < 128
                    THEN Peek(reply.memory[Table(e.m.fn)], Word(e.m.data, 1), Word(e.m.data, 3))
                    ELSE <<>>
<1> DEFINE held == Peek(reply.memory[Table(e.m.fn)], Word(e.m.data, 1), Word(e.m.data, 3))
<1>1. ReadBits \cup ReadRegisters \cup {FC.WRITE_AND_READ_REGISTERS} = Reads
    BY FunctionNumbers DEF Reads
<1>2. Answers(e, reply) =
        [i \in DOMAIN reply.sent |->
            [m |-> reply.sent[i], of |-> e.of, whole |-> TRUE,
             seen |-> IF e.m.fn \in Reads /\ reply.sent[i].fn < 128 THEN held ELSE <<>>]]
    BY <1>1 DEF Answers
<1> HIDE DEF held
<1>3. DOMAIN <<a>> = {1} /\ <<a>>[1] = a
    OBVIOUS
<1>4. 1 \in DOMAIN reply.sent
    BY <1>2, <1>3
<1>5. a = [m |-> reply.sent[1], of |-> e.of, whole |-> TRUE,
             seen |-> IF e.m.fn \in Reads /\ reply.sent[1].fn < 128 THEN held ELSE <<>>]
    BY <1>2, <1>3, <1>4
<1>6. a.m = reply.sent[1] /\ a.seen = IF e.m.fn \in Reads /\ reply.sent[1].fn < 128 THEN held ELSE <<>>
    BY <1>5
<1>7. QED
    BY <1>6 DEF held

LEMMA MemoryThen ==
    ASSUME NEW m, NEW c, m.fn = c.fn, m.data = RequestData(c), CallOK(c), ~TooMany(c),
           NEW mem, MemoryOK(mem)
    PROVE  modbus_reply(m, mem, Size).memory = IF Feasible(c) THEN Effect(c, mem) ELSE mem
<1> DEFINE reply == modbus_reply(m, mem, Size)
           obeyed == [mem EXCEPT ![Table(m.fn)] = Written(m, mem)]
<1>1. CASE c.fn = 17
  <2>1. reply = [memory |-> mem, sent |-> <<SlaveIdAnswer(m)>>, flushed |-> FALSE]
    BY <1>1, FunctionNumbers DEF modbus_reply, Known
  <2>2. Effect(c, mem) = mem
    BY <1>1, FunctionNumbers DEF Effect
  <2>3. QED
    BY <2>1, <2>2
<1>2. CASE c.fn # 17
  <2>1. m.fn \in {1, 2, 3, 4, 5, 6, 15, 16, 22, 23}
    BY <1>2, CallFacts
  <2>2. Refuses(m) <=> ~Feasible(c)
    BY <1>2, RefusesIs
  <2>3. CASE Refuses(m)
    BY <2>1, <2>2, <2>3, Refused DEF ReplyIs
  <2>4. CASE ~Refuses(m)
    <3>1. reply.memory = obeyed
      BY <2>1, <2>4, Obeyed DEF ReplyIs
    <3>2. obeyed = Effect(c, mem)
      BY <1>2, EffectIs
    <3> HIDE DEF reply, obeyed
    <3>3. QED
      BY <2>2, <2>4, <3>1, <3>2 DEF reply
  <2>5. QED
    BY <2>3, <2>4
<1>3. QED
    BY <1>1, <1>2

LEMMA ServeIs ==
    ASSUME ModInv, Serve
    PROVE  LET c == script[request.of] IN
           /\ UNCHANGED <<backend, script, made, outcome>>
           /\ toServer # <<>> /\ (toServer' = <<>> \/ toServer' = Tail(toServer))
           /\ ~ForAnother(c)
           /\ memory' = IF Feasible(c) THEN Effect(c, memory) ELSE memory
           /\ \/ wire' = wire
              \/ \E w \in Answer :
                    /\ wire' = Append(wire, w) /\ w.of = request.of
                    /\ w.m.fn < 128 => Feasible(c) /\ w.seen = Held(c, memory')
<1> DEFINE reply == modbus_reply(request.m, memory, Size)
           c == script[request.of]
<1>1. UNCHANGED <<backend, script, made, outcome>>
    BY DEF Serve, fixed, clientVars
<1>2. /\ toServer # <<>> /\ (toServer' = <<>> \/ toServer' = Tail(toServer))
      /\ memory' = reply.memory /\ Addressed
      /\ \E d \in Delivered(Answers(request, reply)) : wire' = wire \/ wire' = wire \o d
    BY DEF Serve
<1>3. /\ request \in Envelope /\ CallOK(c) /\ ~TooMany(c)
      /\ request.m.fn = c.fn /\ request.m.data = RequestData(c) /\ request.m.crc
      /\ RequestOK(request)
    BY <1>2, ServerReads
<1>4. MemoryOK(memory) /\ wire \in Seq(Answer)
    BY DEF ModInv, AnswersOK
<1>5. ~ForAnother(c)
  <2>1. SlaveTaken(c.slave) => request.m.slave = c.slave
    BY <1>3 DEF RequestOK, MadeFor
  <2>2. backend # "tcp" => request.m.slave \in {ServerId, MODBUS_BROADCAST_ADDRESS}
    BY <1>2 DEF Addressed, check_integrity
  <2>3. QED
    BY <2>1, <2>2 DEF ForAnother
<1> HIDE DEF c
<1>6. memory' = IF Feasible(c) THEN Effect(c, memory) ELSE memory
    BY <1>2, <1>3, <1>4, MemoryThen
<1>7. PICK a \in Answer : /\ Answers(request, reply) = <<a>>
                          /\ Sent(a, request, a.m) /\ AnswerTo(a.m, c, a.seen)
                          /\ a.m.fn = c.fn <=> Feasible(c)
    BY <1>3, <1>4, RepliedIf
<1>8. a.of = request.of
    BY <1>7 DEF Sent
<1>9. a.m.fn < 128 => a.m.fn = c.fn
  <2>1. c.fn \in {1, 2, 3, 4, 5, 6, 15, 16, 17, 22, 23}
    BY <1>3, CallFacts
  <2>2. a.m.fn = c.fn \/ a.m.fn = c.fn + 128
    BY <1>7 DEF AnswerTo
  <2>3. QED
    BY <2>1, <2>2
<1>10. a.m.fn < 128 => Feasible(c) /\ a.seen = Held(c, memory')
  <2> DEFINE mem == reply.memory
  <2>1. a.seen = IF request.m.fn \in Reads /\ a.m.fn < 128
                 THEN Peek(mem[Table(request.m.fn)], Word(request.m.data, 1), Word(request.m.data, 3))
                 ELSE <<>>
    BY <1>7, SeenIs
  <2>2. memory' = mem
    BY <1>2
  <2> HIDE DEF mem
  <2>3. CASE c.fn \in Reads
    <3>1. Peek(mem[Table(request.m.fn)], Word(request.m.data, 1), Word(request.m.data, 3)) = Held(c, mem)
      BY <1>3, <2>3, HeldIs
    <3>2. QED
      BY <1>3, <1>7, <1>9, <2>1, <2>2, <2>3, <3>1
  <2>4. CASE c.fn \notin Reads
    <3>1. Held(c, mem) = <<>>
      BY <2>4, FunctionNumbers DEF Held, Reads
    <3>2. QED
      BY <1>3, <1>7, <1>9, <2>1, <2>2, <2>4, <3>1
  <2>5. QED
    BY <2>3, <2>4
<1> HIDE DEF reply
<1>11. PICK d \in Delivered(<<a>>) : wire' = wire \/ wire' = wire \o d
    BY <1>2, <1>7
<1>12. \/ wire' = wire
       \/ \E w \in Answer : /\ wire' = Append(wire, w) /\ w.of = request.of
                            /\ w.m.fn = a.m.fn /\ w.seen = a.seen
  <2>1. CASE d = <<>>
    <3>1. wire \o <<>> = wire
      BY <1>4, ConcatEmptySeq
    <3>2. QED
      BY <1>11, <2>1, <3>1
  <2>2. CASE \E w \in Answer : d = <<w>> /\ w.of = a.of /\ w.m.fn = a.m.fn /\ w.seen = a.seen
    <3>1. PICK w \in Answer : d = <<w>> /\ w.of = a.of /\ w.m.fn = a.m.fn /\ w.seen = a.seen
      BY <2>2
    <3>2. wire \o <<w>> = Append(wire, w)
      BY <1>4
    <3>3. QED
      BY <1>8, <1>11, <3>1, <3>2
  <2>3. QED
    BY <1>3, <1>7, <2>1, <2>2, Arrived
<1>13. QED
    BY <1>1, <1>2, <1>5, <1>6, <1>10, <1>12 DEF c
-----------------------------------------------------------------------------
(* What the other steps leave of the line.                                 *)

LEMMA WireEnds ==
    ASSUME ModInv
    PROVE  /\ EndOf(wire, wire) /\ EndOf(<<>>, wire)
           /\ wire # <<>> =>
                 /\ EndOf(Tail(wire), wire)
                 /\ EndOf(<<[Head(wire) EXCEPT !.whole = FALSE]>> \o Tail(wire), wire)
           /\ Len(wire) > 1 =>
                 EndOf(<<[wire[2] EXCEPT !.whole = FALSE]>> \o SubSeq(wire, 3, Len(wire)), wire)
<1>1. wire \in Seq(Answer)
    BY DEF ModInv, AnswersOK
<1>2. ASSUME NEW w \in Answer
      PROVE  LET v == [w EXCEPT !.whole = FALSE] IN v \in Answer /\ Kept(v, w)
    BY DEF Answer, Kept
<1>3. ASSUME wire # <<>>
      PROVE  EndOf(<<[Head(wire) EXCEPT !.whole = FALSE]>> \o Tail(wire), wire)
  <2> DEFINE v == [Head(wire) EXCEPT !.whole = FALSE]
             p == Tail(wire)
  <2>1. Head(wire) \in Answer /\ Head(wire) = wire[1] /\ p \in Seq(Answer)
    BY <1>1, <1>3, FirstElem
  <2>2. PICK n \in 1..Len(wire) : n = 1
    BY <1>1, <1>3
  <2>3. Len(p) = Len(wire) - n /\ \A i \in 1..Len(p) : p[i] = wire[i + n]
    BY <1>1, <1>3, <2>2
  <2>4. v \in Answer /\ Kept(v, wire[n])
    BY <1>2, <2>1, <2>2
  <2> HIDE DEF v, p
  <2>5. EndOf(<<v>> \o p, wire)
    BY <1>1, <2>1, <2>3, <2>4, BegunEnds
  <2>6. QED
    BY <2>5 DEF v, p
<1>4. ASSUME Len(wire) > 1
      PROVE  EndOf(<<[wire[2] EXCEPT !.whole = FALSE]>> \o SubSeq(wire, 3, Len(wire)), wire)
  <2> DEFINE v == [wire[2] EXCEPT !.whole = FALSE]
             p == SubSeq(wire, 3, Len(wire))
  <2>1. PICK n \in 1..Len(wire) : n = 2
    BY <1>1, <1>4
  <2>2. wire[n] \in Answer
    BY <1>1
  <2>3. p \in Seq(Answer) /\ Len(p) = Len(wire) - n /\ \A i \in 1..Len(p) : p[i] = wire[i + n]
    <3> DEFINE r == SubSeq(wire, n + 1, Len(wire))
    <3>1. r \in Seq(Answer) /\ Len(r) = Len(wire) - n /\ \A i \in 1..Len(r) : r[i] = wire[i + n]
      BY <1>1
    <3>2. p = r
      BY <2>1
    <3> HIDE DEF p, r
    <3>3. QED
      BY <3>1, <3>2
  <2>4. v \in Answer /\ Kept(v, wire[n])
    BY <1>2, <2>1, <2>2
  <2> HIDE DEF v, p
  <2>5. EndOf(<<v>> \o p, wire)
    BY <1>1, <2>3, <2>4, BegunEnds
  <2>6. QED
    BY <2>5 DEF v, p
<1>5. QED
    BY <1>1, <1>3, <1>4, Ends

(* The steps that neither call nor serve. *)
Leaves ==
    \/ Connect \/ Close \/ ServeNot \/ IgnoreMessage \/ IgnoreTimeout \/ RequestLost
    \/ \E k \in Pieces(reading.left) : Receive(k) \/ Confirm(k)
    \/ ReceiveJunk \/ Timeout \/ Reset \/ UNCHANGED vars

LEMMA LeavesRequests ==
    ASSUME ModInv, Leaves
    PROVE  EndOf(toServer', toServer)
<1>1. toServer \in Seq(Envelope)
    BY DEF ModInv, Requests
<1>2. CASE IgnoreMessage
    BY <1>1, <1>2, Ends DEF IgnoreMessage
<1>3. CASE ServeNot \/ RequestLost
  <2>1. toServer # <<>> /\ toServer' = Tail(toServer)
    BY <1>3 DEF ServeNot, RequestLost
  <2>2. QED
    BY <1>1, <2>1, Ends
<1>4. CASE \/ Connect \/ Close \/ IgnoreTimeout \/ ReceiveJunk \/ Timeout \/ Reset \/ UNCHANGED vars
           \/ \E k \in Pieces(reading.left) : Receive(k) \/ Confirm(k)
  <2>1. toServer' = toServer \/ toServer' = <<>>
    BY <1>4 DEF Connect, Close, IgnoreTimeout, ReceiveJunk, Timeout, Reset, Receive, Confirm,
                vars, lineVars
  <2>2. QED
    BY <1>1, <2>1, Ends
<1>5. QED
    BY <1>2, <1>3, <1>4 DEF Leaves

LEMMA RestEnds ==
    ASSUME ModInv, NEW n, n = 0 \/ wire # <<>>
    PROVE  EndOf(Rest(n), wire)
BY WireEnds DEF Rest

LEMMA LeavesAnswers ==
    ASSUME ModInv, Leaves
    PROVE  EndOf(wire', wire)
<1>1. CASE \/ Connect \/ Close \/ ServeNot \/ IgnoreMessage \/ IgnoreTimeout \/ RequestLost
           \/ UNCHANGED vars \/ \E k \in Pieces(reading.left) : Receive(k)
  <2>1. wire' = wire \/ wire' = <<>>
    BY <1>1 DEF Connect, Close, ServeNot, IgnoreMessage, IgnoreTimeout, RequestLost, vars,
                Receive, clientVars, lineVars
  <2>2. QED
    BY <2>1, WireEnds
<1>2. CASE \E k \in Pieces(reading.left) : Confirm(k)
  <2>1. wire # <<>> /\ \E n : wire' = <<>> \/ wire' = Rest(n)
    BY <1>2 DEF Confirm
  <2>2. QED
    BY <2>1, WireEnds, RestEnds
<1>3. CASE ReceiveJunk
    BY <1>3, WireEnds DEF ReceiveJunk
<1>4. CASE Timeout
  <2>1. reading.length = 0 \/ wire # <<>>
    BY DEF ModInv, Partly, ReadingOK
  <2>2. QED
    BY <1>4, <2>1, WireEnds, RestEnds DEF Timeout
<1>5. CASE Reset
    BY <1>5, WireEnds DEF Reset
<1>6. QED
    BY <1>1, <1>2, <1>3, <1>4, <1>5 DEF Leaves

-----------------------------------------------------------------------------
(* The order is kept.                                                      *)

LEMMA OrderLeft ==
    ASSUME ModInv, ModInv', InOrder, EndOf(wire', wire), EndOf(toServer', toServer)
    PROVE  InOrder'
<1>1. /\ toServer \in Seq(Envelope) /\ toServer' \in Seq(Envelope)
      /\ wire \in Seq(Answer) /\ wire' \in Seq(Answer)
    BY DEF ModInv, Requests, AnswersOK
<1>2. Increasing(toServer') /\ \A e \in Elems(toServer') : \E x \in Elems(toServer) : Kept(e, x)
    BY <1>1, EndIs DEF InOrder
<1>3. Increasing(wire') /\ \A w \in Elems(wire') : \E y \in Elems(wire) : Kept(w, y)
    BY <1>1, EndIs DEF InOrder
<1>4. \A x, y : Kept(x, y) => x.of = y.of
    BY DEF Kept
<1>5. \A w \in Elems(wire') : \A e \in Elems(toServer') : w.of < e.of
    BY <1>2, <1>3, <1>4 DEF InOrder
<1>6. QED
    BY <1>2, <1>3, <1>5 DEF InOrder, Increasing

(* One message more that is numbered higher than all before. *)
LEMMA NumberedLast ==
    ASSUME NEW S, NEW q \in Seq(S), NEW x \in S, Increasing(q), \A y \in Elems(q) : y.of < x.of
    PROVE  Increasing(Append(q, x))
<1>. PICK l \in Nat : l = Len(q)
    OBVIOUS
<1> DEFINE p == Append(q, x)
<1>1. p \in Seq(S) /\ Len(p) = l + 1 /\ p[l + 1] = x /\ \A i \in 1..l : p[i] = q[i]
    OBVIOUS
<1>2. \A i \in 1..l : q[i].of < x.of
    BY DEF Elems
<1>3. ASSUME NEW i \in 1..(l + 1), NEW j \in 1..(l + 1), i < j
      PROVE  i \in 1..l /\ (j \in 1..l \/ j = l + 1)
    BY <1>3
<1> HIDE DEF p
<1>4. ASSUME NEW i \in 1..(l + 1), NEW j \in 1..(l + 1), i < j
      PROVE  p[i].of < p[j].of
  <2>1. i \in 1..l /\ p[i] = q[i]
    BY <1>1, <1>3, <1>4
  <2>2. CASE j = l + 1
    BY <1>1, <1>2, <2>1, <2>2
  <2>3. CASE j \in 1..l
    BY <1>1, <1>4, <2>1, <2>3 DEF Increasing
  <2>4. QED
    BY <1>3, <1>4, <2>2, <2>3
<1>5. Increasing(p)
    BY <1>1, <1>4 DEF Increasing
<1>6. QED
    BY <1>5 DEF p
(* No message is numbered higher than the calls that were made. *)
LEMMA NoHigher ==
    ASSUME ModInv
    PROVE  /\ made \in Nat
           /\ \A e \in Elems(toServer) : e.of \in Nat /\ e.of <= made
           /\ \A w \in Elems(wire) : w.of \in Nat /\ w.of <= made
<1>1. made \in Nat
    BY DEF ModInv, CallInv
<1>2. \A m, n : MadeFor(m, n) => n \in 1..made
    BY DEF MadeFor
<1>3. \A n \in 1..made : n \in Nat /\ n <= made
    BY <1>1
<1>4. \A e \in Elems(toServer) : e.of \in 1..made
    BY <1>2 DEF ModInv, Requests, RequestOK
<1>5. \A w \in Elems(wire) : w.of \in 1..made
    BY <1>2 DEF ModInv, AnswersOK, AnswerOK
<1>6. QED
    BY <1>1, <1>3, <1>4, <1>5

LEMMA OrderCalled ==
    ASSUME ModInv, ModInv', InOrder, CallRefused \/ Send \/ SendFails
    PROVE  InOrder'
<1>1. toServer \in Seq(Envelope) /\ wire \in Seq(Answer)
    BY DEF ModInv, Requests, AnswersOK
<1>2. wire' = wire \/ wire' = <<>>
    BY DEF CallRefused, Send, SendFails, lineVars
<1>3. EndOf(wire', wire)
    BY <1>2, WireEnds
<1>4. CASE toServer' = toServer
    BY <1>1, <1>3, <1>4, Ends, OrderLeft
<1>5. CASE toServer' # toServer
  <2>1. /\ made' = made + 1
        /\ \E q \in {toServer, <<>>} : \E e : e.of = made' /\ toServer' = Append(q, e)
    BY <1>5 DEF CallRefused, Send, SendFails, Calling, lineVars
  <2>2. PICK q \in {toServer, <<>>} : \E e : e.of = made' /\ toServer' = Append(q, e)
    BY <2>1
  <2>3. PICK e : e.of = made' /\ toServer' = Append(q, e)
    BY <2>2
  <2>4. q \in Seq(Envelope) /\ Elems(q) \subseteq Elems(toServer) /\ Increasing(q)
    <3>1. CASE q = toServer
      BY <1>1, <3>1 DEF InOrder
    <3>2. CASE q = <<>>
      <4>1. <<>> \in Seq(Envelope) /\ Elems(<<>>) \subseteq Elems(toServer) /\ Increasing(<<>>)
        BY NoElems DEF Increasing
      <4>2. QED
        BY <3>2, <4>1
    <3>3. QED
      BY <3>1, <3>2
  <2>5. e \in Envelope
    <3>1. toServer' \in Seq(Envelope)
      BY DEF ModInv, Requests
    <3>2. PICK l \in Nat : l = Len(q)
      BY <2>4
    <3>3. Len(toServer') = l + 1 /\ toServer'[l + 1] = e
      BY <2>3, <2>4, <3>2
    <3>4. QED
      BY <3>1, <3>2, <3>3
  <2>6. /\ \A x \in Elems(toServer) : x.of < made'
        /\ \A w \in Elems(wire) : w.of < made'
    BY <2>1, NoHigher
  <2>7. Increasing(Append(q, e))
    BY <2>3, <2>4, <2>5, <2>6, NumberedLast
  <2>8. Elems(Append(q, e)) \subseteq Elems(toServer) \cup {e}
    BY <2>4, <2>5, OneMore
  <2>9. Increasing(wire') /\ Elems(wire') \subseteq Elems(wire)
    BY <1>2, NoElems DEF InOrder, Increasing
  <2>10. \A w \in Elems(wire') : \A x \in Elems(toServer') : w.of < x.of
    BY <2>3, <2>6, <2>8, <2>9 DEF InOrder
  <2>11. Increasing(toServer')
    BY <2>3, <2>7
  <2>12. QED
    BY <2>9, <2>10, <2>11 DEF InOrder, Increasing
<1>6. QED
    BY <1>4, <1>5

(* The server answers the first request. *)
LEMMA First ==
    ASSUME ModInv, InOrder, toServer # <<>>
    PROVE  /\ request \in Elems(toServer) /\ request.of \in Nat
           /\ \A w \in Elems(wire) : w.of < request.of
           /\ \A e \in Elems(toServer) : request.of <= e.of
           /\ \A e \in Elems(Tail(toServer)) : request.of < e.of
<1>1. toServer \in Seq(Envelope)
    BY DEF ModInv, Requests
<1>. PICK l \in Nat : l = Len(toServer) /\ l >= 1
    BY <1>1
<1>2. request \in Elems(toServer) /\ request = toServer[1]
    BY ServerReads
<1> HIDE DEF request
<1>3. request.of \in Nat
    BY <1>2, NoHigher
<1>4. \A i \in 1..l : i > 1 => request.of < toServer[i].of
    BY <1>2 DEF InOrder, Increasing
<1>5. \A i \in 1..l : i = 1 \/ i > 1
    OBVIOUS
<1>6. \A e \in Elems(toServer) : e.of \in Nat /\ (e = request \/ request.of < e.of)
    BY <1>2, <1>4, <1>5, NoHigher DEF Elems
<1>7. \A e \in Elems(Tail(toServer)) : request.of < e.of
  <2>1. Len(Tail(toServer)) = l - 1 /\ \A i \in 1..(l - 1) : Tail(toServer)[i] = toServer[i + 1]
    BY <1>1
  <2>2. \A i \in 1..(l - 1) : i + 1 \in 1..l /\ i + 1 > 1
    OBVIOUS
  <2>3. QED
    BY <1>4, <2>1, <2>2 DEF Elems
<1>8. QED
    BY <1>2, <1>3, <1>6, <1>7 DEF InOrder

LEMMA OrderServed ==
    ASSUME ModInv, ModInv', InOrder, Serve
    PROVE  InOrder'
<1>1. /\ toServer # <<>> /\ (toServer' = <<>> \/ toServer' = Tail(toServer))
      /\ \/ wire' = wire
         \/ \E w \in Answer : wire' = Append(wire, w) /\ w.of = request.of
    BY ServeIs
<1>2. toServer \in Seq(Envelope) /\ wire \in Seq(Answer)
    BY DEF ModInv, Requests, AnswersOK
<1>3. EndOf(toServer', toServer)
    BY <1>1, <1>2, Ends
<1>4. CASE wire' = wire
    BY <1>3, <1>4, WireEnds, OrderLeft
<1>5. CASE \E w \in Answer : wire' = Append(wire, w) /\ w.of = request.of
  <2>1. PICK w \in Answer : wire' = Append(wire, w) /\ w.of = request.of
    BY <1>5
  <2>2. /\ \A v \in Elems(wire) : v.of < w.of
        /\ \A e \in Elems(Tail(toServer)) : w.of < e.of
    BY <1>1, <2>1, First
  <2>3. Increasing(wire')
    BY <1>2, <2>1, <2>2, NumberedLast DEF InOrder
  <2>4. Elems(wire') \subseteq Elems(wire) \cup {w}
    BY <1>2, <2>1, OneMore
  <2>5. Increasing(toServer')
    <3>1. toServer' \in Seq(Envelope)
      BY DEF ModInv, Requests
    <3>2. QED
      BY <1>2, <1>3, <3>1, EndIs DEF InOrder
  <2>6. Elems(toServer') \subseteq Elems(toServer)
        /\ Elems(toServer') \subseteq Elems(Tail(toServer))
    BY <1>1, ServerReads, NoElems
  <2>7. \A v \in Elems(wire') : \A e \in Elems(toServer') : v.of < e.of
    BY <2>2, <2>4, <2>6 DEF InOrder
  <2>8. QED
    BY <2>3, <2>5, <2>7 DEF InOrder, Increasing
<1>6. QED
    BY <1>1, <1>4, <1>5

LEMMA OrderAlways == Spec => []InOrder
<1>1. Init => InOrder
  <2> SUFFICES ASSUME Init
               PROVE  InOrder
    OBVIOUS
  <2>1. toServer = <<>> /\ wire = <<>>
    BY DEF Init
  <2>2. QED
    BY <2>1, NoElems DEF InOrder, Increasing
<1>2. ModInv /\ ModInv' /\ InOrder /\ [Next]_vars => InOrder'
  <2> SUFFICES ASSUME ModInv, ModInv', InOrder, [Next]_vars
               PROVE  InOrder'
    OBVIOUS
  <2>1. CASE CallRefused \/ Send \/ SendFails
    BY <2>1, OrderCalled
  <2>2. CASE Serve
    BY <2>2, OrderServed
  <2>3. CASE Leaves
    BY <2>3, LeavesRequests, LeavesAnswers, OrderLeft
  <2>4. QED
    BY <2>1, <2>2, <2>3 DEF Next, Leaves
<1>3. QED
    BY <1>1, <1>2, ModAlways, PTL DEF Spec
-----------------------------------------------------------------------------
(* The mapping: what the messages under way stand for in RemoteTables.     *)

CallsOf(q) == {x.of : x \in Elems(q)}
Granted(w) == w.whole /\ w.m.fn < 128
Read(w) == [of |-> w.of, seen |-> w.seen]
Replies(q) == {Read(w) : w \in {x \in Elems(q) : Granted(x)}}
Denied(s) == {n \in DOMAIN s : ForAnother(s[n]) \/ ~Feasible(s[n])}

LEMMA Mapped ==
    ASSUME NEW S, NEW q \in Seq(S)
    PROVE  /\ {q[i].of : i \in DOMAIN q} = CallsOf(q)
           /\ {[of |-> q[i].of, seen |-> q[i].seen] :
                   i \in {j \in DOMAIN q : q[j].whole /\ q[j].m.fn < 128}} = Replies(q)
<1>1. DOMAIN q = 1..Len(q)
    OBVIOUS
<1>2. {q[i].of : i \in 1..Len(q)} = CallsOf(q)
    BY DEF CallsOf, Elems
<1>3. {[of |-> q[i].of, seen |-> q[i].seen] :
          i \in {j \in 1..Len(q) : q[j].whole /\ q[j].m.fn < 128}} = Replies(q)
    BY DEF Replies, Read, Granted, Elems
<1>4. QED
    BY <1>1, <1>2, <1>3

LEMMA EndLess ==
    ASSUME NEW S, NEW p \in Seq(S), NEW q \in Seq(S), EndOf(p, q)
    PROVE  CallsOf(p) \subseteq CallsOf(q) /\ Replies(p) \subseteq Replies(q)
<1>1. \A x \in Elems(p) : \E y \in Elems(q) : Kept(x, y)
    BY EndIs
<1>2. ASSUME NEW x \in Elems(p)
      PROVE  x.of \in CallsOf(q) /\ (Granted(x) => Read(x) \in Replies(q))
  <2>1. PICK y \in Elems(q) : Kept(x, y)
    BY <1>1
  <2>2. CASE x = y
    BY <2>2 DEF CallsOf, Replies
  <2>3. CASE x # y
    BY <2>1, <2>3 DEF Kept, Granted, CallsOf
  <2>4. QED
    BY <2>2, <2>3
<1>3. QED
    BY <1>2 DEF CallsOf, Replies

LEMMA OneReply ==
    ASSUME NEW S, NEW q \in Seq(S), NEW x \in S
    PROVE  /\ CallsOf(Append(q, x)) \subseteq CallsOf(q) \cup {x.of}
           /\ Replies(Append(q, x)) \subseteq Replies(q) \cup (IF Granted(x) THEN {Read(x)} ELSE {})
<1>1. Elems(Append(q, x)) \subseteq Elems(q) \cup {x}
    BY OneMore
<1>2. QED
    BY <1>1 DEF CallsOf, Replies

LEMMA NoCalls == CallsOf(<<>>) = {} /\ Replies(<<>>) = {}
BY NoElems DEF CallsOf, Replies

(* The steps of RemoteTables in these terms. *)
OnLineOK == toServer \in Seq(Envelope) /\ wire \in Seq(Answer)

LEMMA Lines == ModInv => OnLineOK
BY DEF ModInv, Requests, AnswersOK, OnLineOK

LEMMA DeniedSame ==
    ASSUME UNCHANGED <<backend, script>>
    PROVE  Denied(script)' = Denied(script)
BY DEF Denied, ForAnother, SlaveTaken

LEMMA Views ==
    ASSUME OnLineOK, OnLineOK'
    PROVE  /\ {toServer[i].of : i \in DOMAIN toServer} = CallsOf(toServer)
           /\ {toServer'[i].of : i \in DOMAIN toServer'} = CallsOf(toServer')
           /\ {[of |-> wire[i].of, seen |-> wire[i].seen] :
                  i \in {j \in DOMAIN wire : wire[j].whole /\ wire[j].m.fn < 128}} = Replies(wire)
           /\ {[of |-> wire'[i].of, seen |-> wire'[i].seen] :
                  i \in {j \in DOMAIN wire' : wire'[j].whole /\ wire'[j].m.fn < 128}} = Replies(wire')
BY Mapped DEF OnLineOK

LEMMA LoseMaps ==
    ASSUME OnLineOK, OnLineOK', UNCHANGED <<backend, script, memory, made, outcome>>,
           CallsOf(toServer') \subseteq CallsOf(toServer), Replies(wire') \subseteq Replies(wire)
    PROVE  AsTables!Lose
BY DeniedSame, Views DEF AsTables!Lose, Denied

LEMMA CallMaps ==
    ASSUME OnLineOK, OnLineOK', UNCHANGED <<backend, script, memory>>,
           made < Len(script), made' = made + 1,
           CallsOf(toServer') \subseteq CallsOf(toServer) \cup {made'},
           Replies(wire') \subseteq Replies(wire), outcome' \in {outcome, Failed}
    PROVE  AsTables!Call
<1>1. Read(outcome') \in {Read(outcome), AsTables!Failure}
    BY DEF Read, Failed, AsTables!Failure
<1>2. QED
    BY <1>1, DeniedSame, Views DEF AsTables!Call, Denied, Read

LEMMA TakeMaps ==
    ASSUME OnLineOK, OnLineOK', UNCHANGED <<backend, script, made, outcome>>,
           NEW n \in CallsOf(toServer), n \notin Denied(script), \A k \in CallsOf(toServer) : n <= k,
           memory' = Effect(script[n], memory),
           CallsOf(toServer') \subseteq CallsOf(toServer) \ {n},
           Replies(wire') \subseteq Replies(wire) \cup {[of |-> n, seen |-> Held(script[n], memory')]}
    PROVE  AsTables!TakeEffect(n)
BY DeniedSame, Views DEF AsTables!TakeEffect, Denied

LEMMA ReturnMaps ==
    ASSUME OnLineOK, OnLineOK', UNCHANGED <<backend, script, memory, made>>,
           CallsOf(toServer') \subseteq CallsOf(toServer),
           \/ outcome' = Failed /\ Replies(wire') \subseteq Replies(wire)
           \/ /\ Read(outcome') \in Replies(wire)
              /\ Replies(wire') \subseteq Replies(wire) \ {Read(outcome')}
    PROVE  AsTables!Return
<1>1. outcome' = Failed => Read(outcome') = AsTables!Failure
    BY DEF Read, Failed, AsTables!Failure
<1>2. QED
    BY <1>1, DeniedSame, Views DEF AsTables!Return, Denied, Read
-----------------------------------------------------------------------------
(* Step by step.                                                           *)

LEMMA CallStep ==
    ASSUME ModInv, ModInv', CallRefused \/ Send \/ SendFails
    PROVE  AsTables!Call
<1>1. OnLineOK /\ OnLineOK'
    BY Lines DEF OnLineOK, ModInv, Requests, AnswersOK
<1>2. /\ UNCHANGED <<backend, script, memory>> /\ made < Len(script) /\ made' = made + 1
      /\ outcome' \in {outcome, Failed}
    BY DEF CallRefused, Send, SendFails, Calling, fixed, serverVars
<1>3. Replies(wire') \subseteq Replies(wire)
  <2>1. wire' = wire \/ wire' = <<>>
    BY DEF CallRefused, Send, SendFails, lineVars
  <2>2. QED
    BY <2>1, NoCalls
<1>4. CallsOf(toServer') \subseteq CallsOf(toServer) \cup {made'}
  <2>1. CASE toServer' = toServer
    BY <2>1
  <2>2. CASE toServer' # toServer
    <3>1. \E q \in {toServer, <<>>} :
             toServer' = Append(q, [m |-> Request(slave', tid', script[made + 1]), of |-> made'])
      BY <2>2 DEF CallRefused, Send, SendFails, lineVars
    <3>2. PICK q \in {toServer, <<>>} : \E m : toServer' = Append(q, [m |-> m, of |-> made'])
      BY <3>1
    <3>3. PICK m : toServer' = Append(q, [m |-> m, of |-> made'])
      BY <3>2
    <3> DEFINE S == Envelope \cup {[m |-> m, of |-> made']}
    <3>4. q \in Seq(S) /\ [m |-> m, of |-> made'] \in S
      <4>1. toServer \in Seq(Envelope) /\ <<>> \in Seq(S)
        BY <1>1 DEF OnLineOK
      <4>2. Seq(Envelope) \subseteq Seq(S)
        OBVIOUS
      <4>3. QED
        BY <4>1, <4>2
    <3> HIDE DEF S
    <3>5. CallsOf(toServer') \subseteq CallsOf(q) \cup {made'}
      BY <3>3, <3>4, OneReply
    <3>6. CallsOf(q) \subseteq CallsOf(toServer)
      BY NoCalls
    <3>7. QED
      BY <3>5, <3>6
  <2>3. QED
    BY <2>1, <2>2
<1>5. QED
    BY <1>1, <1>2, <1>3, <1>4, CallMaps

LEMMA ServeStep ==
    ASSUME ModInv, ModInv', InOrder, Serve
    PROVE  AsTables!Lose \/ \E n \in CallsOf(toServer) : AsTables!TakeEffect(n)
<1>. PICK n : n = request.of
    OBVIOUS
<1> DEFINE c == script[n]
<1>1. OnLineOK /\ OnLineOK'
    BY Lines DEF OnLineOK, ModInv, Requests, AnswersOK
<1>2. /\ UNCHANGED <<backend, script, made, outcome>>
      /\ toServer # <<>> /\ (toServer' = <<>> \/ toServer' = Tail(toServer))
      /\ ~ForAnother(c)
      /\ memory' = IF Feasible(c) THEN Effect(c, memory) ELSE memory
      /\ \/ wire' = wire
         \/ \E w \in Answer :
               /\ wire' = Append(wire, w) /\ w.of = n
               /\ w.m.fn < 128 => Feasible(c) /\ w.seen = Held(c, memory')
    BY ServeIs
<1>3. n \in CallsOf(toServer) /\ \A k \in CallsOf(toServer) : n <= k
    BY <1>2, First DEF CallsOf
<1>4. CallsOf(toServer') \subseteq CallsOf(toServer) \ {n}
  <2>1. n \notin CallsOf(Tail(toServer))
    BY <1>2, First DEF CallsOf
  <2>2. Elems(Tail(toServer)) \subseteq Elems(toServer)
    BY <1>2, ServerReads
  <2>3. CallsOf(Tail(toServer)) \subseteq CallsOf(toServer)
    BY <2>2 DEF CallsOf
  <2>4. QED
    BY <1>2, <2>1, <2>3, NoCalls
<1>5. Replies(wire') \subseteq
          Replies(wire) \cup (IF Feasible(c) THEN {[of |-> n, seen |-> Held(c, memory')]} ELSE {})
  <2>1. CASE wire' = wire
    BY <2>1
  <2>2. CASE \E w \in Answer :
               /\ wire' = Append(wire, w) /\ w.of = n
               /\ w.m.fn < 128 => Feasible(c) /\ w.seen = Held(c, memory')
    <3>1. PICK w \in Answer :
               /\ wire' = Append(wire, w) /\ w.of = n
               /\ w.m.fn < 128 => Feasible(c) /\ w.seen = Held(c, memory')
      BY <2>2
    <3>2. Replies(wire') \subseteq Replies(wire) \cup (IF Granted(w) THEN {Read(w)} ELSE {})
      BY <1>1, <3>1, OneReply DEF OnLineOK
    <3>3. Granted(w) => Feasible(c) /\ Read(w) = [of |-> n, seen |-> Held(c, memory')]
      BY <3>1 DEF Granted, Read
    <3> HIDE DEF c
    <3>4. QED
      BY <3>2, <3>3
  <2>3. QED
    BY <1>2, <2>1, <2>2
<1>6. CASE Feasible(c)
  <2>1. n \notin Denied(script)
    BY <1>2, <1>6 DEF Denied
  <2>2. memory' = Effect(script[n], memory)
    BY <1>2, <1>6
  <2>3. Replies(wire') \subseteq Replies(wire) \cup {[of |-> n, seen |-> Held(script[n], memory')]}
    BY <1>5, <1>6
  <2>4. AsTables!TakeEffect(n)
    BY <1>1, <1>2, <1>3, <1>4, <2>1, <2>2, <2>3, TakeMaps
  <2>5. QED
    BY <1>3, <2>4
<1>7. CASE ~Feasible(c)
  <2>1. UNCHANGED <<backend, script, memory, made, outcome>>
    BY <1>2, <1>7
  <2>2. CallsOf(toServer') \subseteq CallsOf(toServer) /\ Replies(wire') \subseteq Replies(wire)
    BY <1>4, <1>5, <1>7
  <2>3. AsTables!Lose
    BY <1>1, <2>1, <2>2, LoseMaps
  <2>4. QED
    BY <2>3
<1>8. QED
    BY <1>6, <1>7

(* The steps that neither call nor serve nor end a call, and those that    *)
(* end it without an answer.                                               *)
LEMMA LeavesLess ==
    ASSUME ModInv, ModInv', Leaves
    PROVE  /\ OnLineOK /\ OnLineOK' /\ UNCHANGED <<backend, script, memory, made>>
           /\ CallsOf(toServer') \subseteq CallsOf(toServer) /\ Replies(wire') \subseteq Replies(wire)
<1>1. OnLineOK /\ OnLineOK'
    BY Lines DEF OnLineOK, ModInv, Requests, AnswersOK
<1>2. UNCHANGED <<backend, script, memory, made>>
    BY DEF Leaves, Connect, Close, ServeNot, IgnoreMessage, IgnoreTimeout, RequestLost,
           Receive, Confirm, ReceiveJunk, Timeout, Reset, vars, fixed, clientVars, serverVars
<1>3. CallsOf(toServer') \subseteq CallsOf(toServer)
    BY <1>1, LeavesRequests, EndLess DEF OnLineOK
<1>4. Replies(wire') \subseteq Replies(wire)
    BY <1>1, LeavesAnswers, EndLess DEF OnLineOK
<1>5. QED
    BY <1>1, <1>2, <1>3, <1>4

LEMMA QuietStep ==
    ASSUME ModInv, ModInv',
           \/ Connect \/ Close \/ ServeNot \/ IgnoreMessage \/ IgnoreTimeout \/ RequestLost
           \/ \E k \in Pieces(reading.left) : Receive(k)
           \/ UNCHANGED vars
    PROVE  AsTables!Lose
<1>1. Leaves
    BY DEF Leaves
<1>2. outcome' = outcome
    BY DEF Connect, Close, ServeNot, IgnoreMessage, IgnoreTimeout, RequestLost,
           Receive, vars, clientVars
<1>3. QED
    BY <1>1, <1>2, LeavesLess, LoseMaps

LEMMA FailStep ==
    ASSUME ModInv, ModInv', ReceiveJunk \/ Timeout \/ Reset
    PROVE  AsTables!Return
<1>1. Leaves
    BY DEF Leaves
<1>2. outcome' = Failed
    BY DEF ReceiveJunk, Timeout, Reset
<1>3. QED
    BY <1>1, <1>2, LeavesLess, ReturnMaps
(* An answer that was read does not stay on the wire as a whole one. *)
LEMMA Taken ==
    ASSUME ModInv, NEW k \in Pieces(reading.left), Confirm(k)
    PROVE  \A x \in Elems(wire') : x.whole => x \in Elems(Tail(wire))
<1> DEFINE s == Longer(k)
           w == Head(wire)
           v == [w EXCEPT !.whole = FALSE]
           r == Advance(s, w.m)
<1>1. wire # <<>> /\ (wire' = <<>> \/ wire' = Rest(r.length))
    BY DEF Confirm, Longer
<1>2. r.length \in Nat /\ r.length # 0
  <2>1. s \in [step : {"function", "meta", "data"}, length : Nat, left : Nat] /\ s.length > 0
    BY MorePieces
  <2>2. w.m \in Message /\ Len(w.m.data) >= 1
    BY <1>1, ClientReads
  <2>3. backend \in DOMAIN Backend
    BY DEF ModInv, FixedOK
  <2> HIDE DEF s, w
  <2>4. r.length = s.length
    BY <2>1, <2>2, <2>3, Advanced
  <2>5. s.length \in Nat
    BY <2>1
  <2>6. QED
    BY <2>1, <2>4, <2>5
<1>3. Tail(wire) \in Seq(Answer) /\ v \in Answer /\ ~v.whole
  <2>1. w \in Answer /\ Tail(wire) \in Seq(Answer)
    BY <1>1, ClientReads
  <2> HIDE DEF w
  <2>2. QED
    BY <2>1 DEF Answer
<1> HIDE DEF r
<1>4. wire' = <<>> \/ wire' = Tail(wire) \/ wire' = <<v>> \o Tail(wire)
    BY <1>1, <1>2 DEF Rest
<1> HIDE DEF v
<1>5. Elems(<<v>> \o Tail(wire)) \subseteq {v} \cup Elems(Tail(wire))
  <2>1. <<v>> \in Seq(Answer) /\ Elems(<<v>>) = {v}
    BY <1>3, Alone
  <2>2. QED
    BY <1>3, <2>1, Both
<1>6. QED
    BY <1>3, <1>4, <1>5, NoElems

LEMMA ConfirmStep ==
    ASSUME ModInv, ModInv', InOrder, NEW k \in Pieces(reading.left), Confirm(k)
    PROVE  AsTables!Return
<1>1. Leaves
    BY DEF Leaves
<1>2. /\ OnLineOK /\ OnLineOK' /\ UNCHANGED <<backend, script, memory, made>>
      /\ CallsOf(toServer') \subseteq CallsOf(toServer) /\ Replies(wire') \subseteq Replies(wire)
    BY <1>1, LeavesLess
<1>3. CASE outcome' = Failed
    BY <1>2, <1>3, ReturnMaps
<1>4. CASE outcome' # Failed
  <2> DEFINE w == Head(wire)
             c == script[made]
  <2>1. waiting /\ wire # <<>> /\ w.whole
    BY DEF Confirm
  <2>2. w \in Elems(wire)
    BY <2>1, ClientReads
  <2>3. CallOK(c) /\ ~TooMany(c) /\ backend \in DOMAIN Backend
    BY <2>1, CurrentCall
  <2>4. PICK n \in Nat :
           LET length == check_integrity(backend, slave, w.m, n)
               rc == check_confirmation(backend, Request(slave, tid, c), w.m, length)
           IN /\ rc # -1
              /\ outcome' = [rc |-> Returned(c, rc), dest |-> Dest(c, rc, w.m),
                             of |-> w.of, seen |-> w.seen]
    BY <1>4, Confirmed
  <2>5. Read(outcome') = Read(w)
    <3> HIDE DEF w, c
    <3>1. outcome'.of = w.of /\ outcome'.seen = w.seen
      BY <2>4
    <3>2. QED
      BY <3>1 DEF Read
  <2>6. w.m.fn < 128
    <3> HIDE DEF w, c
    <3> DEFINE length == check_integrity(backend, slave, w.m, n)
    <3>1. Accepts(backend, Request(slave, tid, c), w.m, length)
      BY <2>4 DEF Accepts
    <3>2. QED
      BY <2>3, <3>1, Accepted
  <2>7. Read(w) \in Replies(wire)
    BY <2>1, <2>2, <2>6 DEF Replies, Granted
  <2>8. \A x \in Elems(Tail(wire)) : w.of < x.of
    <3>. PICK l \in Nat : l = Len(wire) /\ l >= 1
      BY <1>2, <2>1 DEF OnLineOK
    <3>1. Len(Tail(wire)) = l - 1 /\ \A i \in 1..(l - 1) : Tail(wire)[i] = wire[i + 1]
      BY <1>2, <2>1 DEF OnLineOK
    <3>2. \A i \in 1..(l - 1) : i + 1 \in 1..l /\ i + 1 > 1
      OBVIOUS
    <3>3. \A i \in 1..l : i > 1 => wire[1].of < wire[i].of
      BY DEF InOrder, Increasing
    <3>4. w = wire[1]
      BY <1>2, <2>1 DEF OnLineOK
    <3> HIDE DEF w
    <3>5. QED
      BY <3>1, <3>2, <3>3, <3>4 DEF Elems
  <2>9. Read(w) \notin Replies(wire')
    <3> HIDE DEF w
    <3>1. ASSUME NEW x \in Elems(wire'), Granted(x)
          PROVE  Read(x) # Read(w)
      <4>1. x \in Elems(Tail(wire))
        BY <3>1, Taken DEF Granted
      <4>2. w.of < x.of /\ w.of \in Nat
        BY <2>2, <2>8, <4>1, NoHigher
      <4>3. x.of # w.of
        BY <4>2
      <4>4. Read(x).of = x.of /\ Read(w).of = w.of
        BY DEF Read
      <4>5. QED
        BY <4>3, <4>4
    <3>2. QED
      BY <3>1 DEF Replies
  <2> HIDE DEF w
  <2>10. Read(outcome') \in Replies(wire) /\ Replies(wire') \subseteq Replies(wire) \ {Read(outcome')}
    BY <1>2, <2>5, <2>7, <2>9
  <2>11. QED
    BY <1>2, <2>10, ReturnMaps
<1>5. QED
    BY <1>3, <1>4

(* Client, line and server are as one set of tables that the calls act on  *)
(* one after the other: for every script of calls, every backend and       *)
(* recovery mode, whatever is lost, damaged, delayed or reset, a call      *)
(* takes effect at most once and whole, after the calls before it, never   *)
(* if it was for another slave or more than modbus_reply allows; and what  *)
(* modbus_read_bits and its like return was held when a call took effect.  *)
THEOREM ModbusIsTables == Spec => ImplementsTables
<1>1. Init => AsTables!Init
  <2> SUFFICES ASSUME Init
               PROVE  AsTables!Init
    OBVIOUS
  <2>1. toServer = <<>> /\ wire = <<>> /\ memory = Inputs /\ made = 0 /\ outcome = Nothing
    BY DEF Init
  <2>2. /\ {toServer[i].of : i \in DOMAIN toServer} = {}
        /\ {[of |-> wire[i].of, seen |-> wire[i].seen] :
               i \in {j \in DOMAIN wire : wire[j].whole /\ wire[j].m.fn < 128}} = {}
    BY <2>1
  <2>3. QED
    BY <2>1, <2>2 DEF AsTables!Init, AsTables!Failure, Nothing
<1>2. ModInv /\ ModInv' /\ InOrder /\ [Next]_vars => [AsTables!Next]_(AsTables!vars)
  <2> SUFFICES ASSUME ModInv, ModInv', InOrder, [Next]_vars
               PROVE  AsTables!Next
    OBVIOUS
  <2>1. {toServer[i].of : i \in DOMAIN toServer} = CallsOf(toServer)
    BY Lines, Mapped DEF OnLineOK
  <2>2. CASE CallRefused \/ Send \/ SendFails
    BY <2>2, CallStep DEF AsTables!Next
  <2>3. CASE Serve
    <3>1. AsTables!Lose \/ \E n \in CallsOf(toServer) : AsTables!TakeEffect(n)
      BY <2>3, ServeStep
    <3>2. QED
      BY <2>1, <3>1 DEF AsTables!Next
  <2>4. CASE \/ Connect \/ Close \/ ServeNot \/ IgnoreMessage \/ IgnoreTimeout \/ RequestLost
             \/ \E k \in Pieces(reading.left) : Receive(k)
             \/ UNCHANGED vars
    BY <2>4, QuietStep DEF AsTables!Next
  <2>5. CASE \E k \in Pieces(reading.left) : Confirm(k)
    BY <2>5, ConfirmStep DEF AsTables!Next
  <2>6. CASE ReceiveJunk \/ Timeout \/ Reset
    BY <2>6, FailStep DEF AsTables!Next
  <2>7. QED
    BY <2>2, <2>3, <2>4, <2>5, <2>6 DEF Next
<1>3. QED
    BY <1>1, <1>2, ModAlways, OrderAlways, PTL DEF Spec, AsTables!Spec, ImplementsTables
=============================================================================
