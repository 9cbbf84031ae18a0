------------------------------- MODULE Pulsar -------------------------------
(***************************************************************************)
(* PulsarClass::read_data: one request to a heat meter and its answer.     *)
(* The answer is taken if its CRC is right; the address and the request ID *)
(* it carries are not compared with those of the request.                  *)
(***************************************************************************)
EXTENDS SerialLine

VARIABLES
    pc,         \* where read_data is
    meter,      \* address, the meter visited
    visit,      \* number of the visit
    response,   \* Response
    late,       \* answer still on its way
    rows        \* what read_data returned (history)

vars == <<pc, meter, visit, response, late, rows>>

-----------------------------------------------------------------------------
Energy(m, v) == [form |-> "energy", meter |-> m, visit |-> v]

EnergyFrame == {Energy(m, v) : m \in Meter, v \in 1..VisitMod}
Frame == EnergyFrame \cup {Noise, Silence}

TypeOK ==
    /\ pc \in {"idle", "exchange", "check"}
    /\ meter \in Meter
    /\ visit \in 0..VisitMod
    /\ response \in Frame /\ late \in Frame
    /\ rows \subseteq [meter : Meter, visit : 1..VisitMod, energy : EnergyFrame]

Init ==
    /\ pc = "idle" /\ meter \in Meter /\ visit = 0
    /\ response = Silence /\ late = Silence /\ rows = {}

(* The address and the guid of the next meter are fetched.                 *)
Begin ==
    /\ pc = "idle"
    /\ meter' \in Meter
    /\ visit' = (visit % VisitMod) + 1
    /\ pc' = "exchange"
    /\ UNCHANGED <<response, late, rows>>

(* Variant: the answer of the last exchange is kept if none has come.      *)
getPKeepsResponse ==
    /\ pc = "exchange"
    /\ \E o \in Writes(Energy(meter, visit), late) :
          /\ response' = IF o.bytes = Silence THEN response ELSE o.bytes
          /\ late' = o.late
    /\ pc' = "check"
    /\ UNCHANGED <<meter, visit, rows>>

(* getP: Response is what writes returns.                                  *)
getP ==
    /\ pc = "exchange"
    /\ \E o \in Writes(Energy(meter, visit), late) :
          /\ response' = o.bytes
          /\ late' = o.late
    /\ pc' = "check"
    /\ UNCHANGED <<meter, visit, rows>>

(* Variant: whatever has come is taken.                                    *)
check_crcAny == response # Silence

check_crc == response.form = "energy"

(* The value is pushed if the CRC is right, otherwise nothing is.          *)
convert_data ==
    /\ pc = "check"
    /\ rows' = IF check_crc
               THEN rows \cup {[meter |-> meter, visit |-> visit, energy |-> response]}
               ELSE rows
    /\ pc' = "idle"
    /\ UNCHANGED <<meter, visit, response, late>>

Next == Begin \/ getP \/ convert_data

Spec == Init /\ [][Next]_vars

-----------------------------------------------------------------------------
(* A row is what its meter has answered in this very visit.                *)
OwnReading == \A r \in rows : r.energy = Energy(r.meter, r.visit)

(* What id.h:18 ("vector of qsl for pair guid - device address") ties      *)
(* together: the energy pushed under a guid was sent by the device of that *)
(* guid's address.                                                         *)
OwnMeter == \A r \in rows : r.energy.meter = r.meter
=============================================================================
