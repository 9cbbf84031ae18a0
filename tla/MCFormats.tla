----------------------------- MODULE MCFormats -----------------------------
(* Constant values for the run of Formats.                                  *)
EXTENDS Formats

Plain(fn, addr, nb) ==
    [slave |-> 3, fn |-> fn, addr |-> addr, nb |-> nb, src |-> <<>>, waddr |-> 0]
Writing(fn, addr, src) ==
    [slave |-> 3, fn |-> fn, addr |-> addr, nb |-> Len(src), src |-> src, waddr |-> 0]
Both(addr, nb, waddr, src) ==
    [Plain(FC.WRITE_AND_READ_REGISTERS, addr, nb) EXCEPT !.src = src, !.waddr = waddr]
To(s, c) == [c EXCEPT !.slave = s]

OnesAndZeros(n) == [i \in 1..n |-> (i \div 2) % 2]
Words(n) == [i \in 1..n |-> 257 * i + 7]

(* Calls small enough to be combined: one of every function, some of the   *)
(* same shape at another address or for another slave.                     *)
Small ==
    { Plain(FC.READ_COILS, 0, 9), Plain(FC.READ_HOLDING_REGISTERS, 1, 2),
      Plain(FC.READ_HOLDING_REGISTERS, 2, 2), Plain(FC.READ_INPUT_REGISTERS, 1, 2),
      To(4, Plain(FC.READ_HOLDING_REGISTERS, 1, 2)),
      Writing(FC.WRITE_SINGLE_REGISTER, 2, <<515>>),
      Writing(FC.WRITE_MULTIPLE_REGISTERS, 1, Words(2)),
      Both(2, 2, 1, Words(2)), Plain(FC.REPORT_SLAVE_ID, 0, 0),
      To(4, Plain(FC.REPORT_SLAVE_ID, 0, 0)) }

(* Calls at the limits of the protocol and of the server's memory.         *)
Boundary ==
    { Plain(FC.READ_COILS, 0, 2000), Plain(FC.READ_COILS, 0, 2001), Plain(FC.READ_COILS, 1, 2000),
      Plain(FC.READ_DISCRETE_INPUTS, 3, 17), Plain(FC.READ_DISCRETE_INPUTS, 3, 0),
      Plain(FC.READ_HOLDING_REGISTERS, 0, 125), Plain(FC.READ_HOLDING_REGISTERS, 0, 126),
      Plain(FC.READ_HOLDING_REGISTERS, 2, 125), Plain(FC.READ_HOLDING_REGISTERS, 0, 0),
      Plain(FC.READ_INPUT_REGISTERS, 1, 125),
      Writing(FC.WRITE_SINGLE_COIL, 1999, <<1>>), Writing(FC.WRITE_SINGLE_COIL, 2000, <<0>>),
      Writing(FC.WRITE_SINGLE_REGISTER, 126, <<5>>),
      Writing(FC.WRITE_MULTIPLE_COILS, 5, OnesAndZeros(17)),
      Writing(FC.WRITE_MULTIPLE_COILS, 0, OnesAndZeros(1968)),
      Writing(FC.WRITE_MULTIPLE_COILS, 0, OnesAndZeros(1969)),
      Writing(FC.WRITE_MULTIPLE_COILS, 0, <<>>),
      Writing(FC.WRITE_MULTIPLE_REGISTERS, 3, Words(123)),
      Writing(FC.WRITE_MULTIPLE_REGISTERS, 0, Words(124)),
      Writing(FC.WRITE_MULTIPLE_REGISTERS, 4, Words(123)),
      [Writing(FC.MASK_WRITE_REGISTER, 1, <<4080, 43981>>) EXCEPT !.nb = 0],
      [Writing(FC.MASK_WRITE_REGISTER, 126, <<65535, 0>>) EXCEPT !.nb = 0],
      Both(1, 125, 5, Words(121)), Both(0, 1, 0, Words(122)), Both(0, 126, 0, Words(1)),
      Both(0, 0, 0, Words(1)), Both(0, 1, 126, Words(1)),
      To(0, Plain(FC.READ_HOLDING_REGISTERS, 1, 2)),
      To(300, Plain(FC.READ_HOLDING_REGISTERS, 1, 2)),
      To(255, Plain(FC.READ_HOLDING_REGISTERS, 1, 2)) }

(* A slave number that is refused, and a broadcast, after another call.    *)
Refused == {To(s, Plain(FC.READ_HOLDING_REGISTERS, 1, 2)) : s \in {4, 300}}
Anyone == {To(s, Plain(FC.REPORT_SLAVE_ID, 0, 0)) : s \in {0, 3}}

MCScripts ==
    {<<c>> : c \in Boundary} \cup {<<c, d>> : c \in Small, d \in Small}
    \cup {<<c, d>> : c \in Refused, d \in Refused} \cup {<<c, d>> : c \in Anyone, d \in Anyone}
NoneOrBoth == {{}, {"link", "protocol"}}
MCSize == [bits |-> 2000, input_bits |-> 20, registers |-> 126, input_registers |-> 126]
MCInputs ==
    [bits |-> <<>>, registers |-> <<>>,
     input_bits |-> [i \in {4, 5, 12, 19} |-> 1],
     input_registers |-> [i \in {1, 2, 60, 125} |-> 300 * i + 2]]

-----------------------------------------------------------------------------
Text(v) == [string |-> v]
Number(v) == [number |-> v]
Flag(v) == [bool |-> v]
List(v) == [list |-> v]
Map(v) == [map |-> v]

Leaf ==
    { Null, Flag(TRUE), Flag(FALSE), Number(0), Number(7), Number(-12), Number(99),
      [double |-> <<"0">>], [double |-> <<"-", "1", ".", "5">>], [double |-> <<"2", "0">>],
      Text(<<>>), Text(<<"a">>), Text(<<"1">>), Text(<<Quote, Backslash>>),
      Text(<<"n", Backslash, "n">>), Text(<<"\n", "\t", "\r", "\f", "backspace", "/">>),
      Text(<<"}", "]", ",", ":", " ">>) }
Name == {<<"a">>, <<>>, <<Quote, Backslash, ":">>}
Small2 == {List(<<>>), Map(<<>>), List(<<Number(7)>>), Map((<<"a">> :> Text(<<"1">>)))}
Nested ==
    {List(<<x>>) : x \in Leaf \cup Small2}
    \cup {List(<<x, y>>) : x \in Leaf, y \in Leaf \cup Small2}
    \cup {Map((k :> x)) : k \in Name, x \in Leaf \cup Small2}
    \cup {Map((<<"a">> :> x @@ <<"b", Quote>> :> y)) : x \in Small2, y \in Leaf \cup Small2}
MCValues == Leaf \cup Small2 \cup Nested

MCSeeds == {<<>>, <<"{", Quote, "a", Quote, ":">>, <<"[", "1", ",">>}
MCPieces ==
    {<<c>> : c \in {"{", "}", "[", "]", ",", ":", Quote, Backslash, "1", "0", ".", "-", "u"}}
    \cup {Spelled.true, Spelled.null, <<Quote, "a", Quote, ":">>}
MCBytes == {0, 1, 85, 128, 255}
MCAddresses == {<<1, 96, 56, 70>>, <<0, 0, 0, 1>>, <<9, 153, 153, 153>>, <<18, 52, 86, 120>>}
MCRegisters == {0, 1, 2, 100, 2550, 16384, 32767, 32768, 49152, 65434, 65435, 65534, 65535}
MCPatterns == {[i \in 1..n |-> ((i * i * k) \div 3) % 2] : n \in {1, 7, 8, 9, 16, 19}, k \in 1..4}
=============================================================================
