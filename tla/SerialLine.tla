----------------------------- MODULE SerialLine -----------------------------
(***************************************************************************)
(* IODriver::writes: one request on an RS485 line behind a TCP gateway or  *)
(* a serial port, and the bytes that come back before the timeouts.  Every *)
(* call connects, writes, waits, reads what is there once and disconnects; *)
(* nothing ties the bytes it reads to the request it wrote.                *)
(*                                                                         *)
(* A frame is a record with a field "form"; Noise stands for bytes that no *)
(* receiver takes for a frame (a wrong length or a wrong CRC) and Silence  *)
(* for no bytes at all.                                                    *)
(***************************************************************************)
EXTENDS Naturals

CONSTANTS
    LineFaults, \* what the line may do wrong, a subset of LineFaultKind
    Meter,      \* meters of the line
    VisitMod    \* the visits to them are numbered modulo this

ASSUME VisitAssumption == VisitMod \in Nat \ {0}

LineFaultKind ==
    { "no_connection",  \* the gateway or the port cannot be opened
      "request_lost",   \* the device never sees the request
      "answer_lost",    \* the request is obeyed, its answer lost
      "late",           \* the answer comes after the timeout
      "damaged",        \* the answer is damaged on its way
      "cut" }           \* readAll runs before the whole answer is there

ASSUME SerialLineAssumption == LineFaults \subseteq LineFaultKind

Silence == [form |-> "silence"]
Noise == [form |-> "noise"]

If(fault, outcome) == IF fault \in LineFaults THEN {outcome} ELSE {}

(* The request goes out and nothing is left of an earlier one.  "heard":   *)
(* the device has obeyed it; "late": what is still on its way afterwards.  *)
Undisturbed(answer) ==
    {[heard |-> TRUE, bytes |-> answer, late |-> Silence]}
    \cup If("request_lost", [heard |-> FALSE, bytes |-> Silence, late |-> Silence])
    \cup If("answer_lost", [heard |-> TRUE, bytes |-> Silence, late |-> Silence])
    \cup If("late", [heard |-> TRUE, bytes |-> Silence, late |-> answer])
    \cup If("damaged", [heard |-> TRUE, bytes |-> Noise, late |-> Silence])
    \cup If("cut", [heard |-> TRUE, bytes |-> Noise, late |-> Noise])

(* A late answer is still on its way.  It is read in place of the own one, *)
(* which comes late in turn or is lost; or the two run together.           *)
Disturbed(answer, late) ==
    {[heard |-> TRUE, bytes |-> late, late |-> answer],
     [heard |-> TRUE, bytes |-> late, late |-> Silence],
     [heard |-> TRUE, bytes |-> Noise, late |-> Silence]}
    \cup If("request_lost", [heard |-> FALSE, bytes |-> late, late |-> Silence])

Unconnected(late) ==
    If("no_connection", [heard |-> FALSE, bytes |-> Silence, late |-> late])
    \cup If("no_connection", [heard |-> FALSE, bytes |-> Silence, late |-> Silence])

(* What a call of writes may come to.  Of the answers that are late at     *)
(* most one is left: the line is half duplex, a second one collides.       *)
Writes(answer, late) ==
    Undisturbed(answer) \cup Unconnected(late)
    \cup (IF late = Silence THEN {} ELSE Disturbed(answer, late))
=============================================================================
