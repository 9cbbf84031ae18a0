------------------------------ MODULE Mercury ------------------------------
(***************************************************************************)
(* MercuryClass::read_data: one visit to an electricity meter, a test of   *)
(* the channel, the opening of a session, the day and the night counter    *)
(* and the closing of the session.  The visits to the meters of a line     *)
(* follow one another (module Polling decides on their order).             *)
(*                                                                         *)
(* A received frame is told from the one that was asked for by its length  *)
(* and its CRC only: neither the address nor the command it echoes is      *)
(* compared with the request.                                              *)
(***************************************************************************)
EXTENDS SerialLine

VARIABLES
    pc,         \* where read_data is
    meter,      \* address, the meter visited
    visit,      \* number of the visit
    prt,        \* o.PRT[0], the day counter as it was decoded
    late,       \* answer still on its way
    session,    \* meters with an open session
    rows        \* what read_data returned (history)

vars == <<pc, meter, visit, prt, late, session, rows>>

-----------------------------------------------------------------------------
Status(code) == [form |-> "status", code |-> code]            \* Result_1b
Energy(m, tariff, v) ==                                       \* Result_4x4b
    [form |-> "energy", meter |-> m, tariff |-> tariff, visit |-> v]

StatusFrame == {Status(c) : c \in {"ok", "permission_denied", "channel_isnt_open"}}
EnergyFrame == {Energy(m, t, v) : m \in Meter, t \in {1, 2}, v \in 1..VisitMod}
Frame == StatusFrame \cup EnergyFrame \cup {Noise, Silence}

TypeOK ==
    /\ pc \in {"idle", "check", "init", "day", "night", "close"}
    /\ meter \in Meter
    /\ visit \in 0..VisitMod
    /\ prt \in EnergyFrame \cup {Silence}
    /\ late \in Frame
    /\ session \subseteq Meter
    /\ rows \subseteq [meter : Meter, visit : 1..VisitMod,
                       day : EnergyFrame, night : EnergyFrame]

Init ==
    /\ pc = "idle" /\ meter \in Meter /\ visit = 0
    /\ prt = Silence /\ late = Silence /\ session = {} /\ rows = {}

-----------------------------------------------------------------------------
(* checkResult_1b: the length, the CRC and the code in the low half byte.  *)
checkResult_1b(bytes) == bytes.form = "status" /\ bytes.code = "ok"

(* Variant: the length is not compared.                                    *)
checkResult_crc(bytes) == bytes.form \in {"energy", "status"}

(* checkResult_4x4b: the length and the CRC.                               *)
checkResult_4x4b(bytes) == bytes.form = "energy"

(* What the meter answers to a request for a counter.                      *)
PowerAnswer(tariff) ==
    IF meter \in session THEN Energy(meter, tariff, visit)
    ELSE Status("channel_isnt_open")

-----------------------------------------------------------------------------
(* The mutex is taken, the address and the guid of the next meter fetched. *)
Begin ==
    /\ pc = "idle"
    /\ meter' \in Meter
    /\ visit' = (visit % VisitMod) + 1
    /\ pc' = "check"
    /\ UNCHANGED <<prt, late, session, rows>>

checkChannel ==
    /\ pc = "check"
    /\ \E o \in Writes(Status("ok"), late) :
          /\ late' = o.late
          /\ pc' = IF checkResult_1b(o.bytes) THEN "init" ELSE "close"
    /\ UNCHANGED <<meter, visit, prt, session, rows>>

(* The meter opens a session if it takes the password.                     *)
initConnection ==
    /\ pc = "init"
    /\ \E code \in {"ok", "permission_denied"} :
       \E o \in Writes(Status(code), late) :
          /\ late' = o.late
          /\ session' = IF o.heard /\ code = "ok" THEN session \cup {meter} ELSE session
          /\ pc' = IF checkResult_1b(o.bytes) THEN "day" ELSE "close"
    /\ UNCHANGED <<meter, visit, prt, rows>>

(* Variant: a counter that was not read is asked for once more.            *)
getDayRetried ==
    /\ pc = "day"
    /\ \E o \in Writes(PowerAnswer(1), late) :
          /\ late' = o.late
          /\ IF checkResult_4x4b(o.bytes)
             THEN pc' = "night" /\ prt' = o.bytes
             ELSE pc' \in {"day", "close"} /\ UNCHANGED prt
    /\ UNCHANGED <<meter, visit, session, rows>>

(* getW(address, &o.PRT[0], PP_RESET, 0, 1).                               *)
getDay ==
    /\ pc = "day"
    /\ \E o \in Writes(PowerAnswer(1), late) :
          /\ late' = o.late
          /\ IF checkResult_4x4b(o.bytes)
             THEN pc' = "night" /\ prt' = o.bytes
             ELSE pc' = "close" /\ UNCHANGED prt
    /\ UNCHANGED <<meter, visit, session, rows>>

(* getW(address, &o.PRT[1], PP_RESET, 0, 2), and the two rows if both were *)
(* read.                                                                   *)
getNight ==
    /\ pc = "night"
    /\ \E o \in Writes(PowerAnswer(2), late) :
          /\ late' = o.late
          /\ IF checkResult_4x4b(o.bytes)
             THEN rows' = rows \cup
                    {[meter |-> meter, visit |-> visit, day |-> prt, night |-> o.bytes]}
             ELSE UNCHANGED rows
    /\ pc' = "close"
    /\ UNCHANGED <<meter, visit, prt, session>>

(* Whatever went before; its result is only logged.                        *)
closeConnection ==
    /\ pc = "close"
    /\ \E o \in Writes(Status("ok"), late) :
          /\ late' = o.late
          /\ session' = IF o.heard THEN session \ {meter} ELSE session
    /\ pc' = "idle"
    /\ UNCHANGED <<meter, visit, prt, rows>>

(* A meter ends a session that has been idle for long.                     *)
Expire ==
    /\ \E m \in session : session' = session \ {m}
    /\ UNCHANGED <<pc, meter, visit, prt, late, rows>>

Next ==
    \/ Begin \/ checkChannel \/ initConnection \/ getDay \/ getNight
    \/ closeConnection \/ Expire

Spec == Init /\ [][Next]_vars

-----------------------------------------------------------------------------
(* The rows of a visit are the day and the night counter of the meter      *)
(* visited, read in this visit, though a late answer to any request may be *)
(* read in place of the answer to the next and the address and the command *)
(* of an answer are not looked at.                                         *)
RightReading ==
    \A r \in rows :
        /\ r.day = Energy(r.meter, 1, r.visit)
        /\ r.night = Energy(r.meter, 2, r.visit)
=============================================================================
