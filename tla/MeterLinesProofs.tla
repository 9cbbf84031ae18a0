-------------------------- MODULE MeterLinesProofs --------------------------
(***************************************************************************)
(* Whatever the lines do, and for any number of meters and visits, the     *)
(* counters of an electricity meter are not mixed up: the lengths of the   *)
(* answers and the order of the requests make up for what read_data does   *)
(* not compare.  The same with heat meters beside, of which the types hold *)
(* on any line and the readings on a line that is prompt.                  *)
(***************************************************************************)
EXTENDS MeterLines, TLAPS

USE DEF Silence, Noise

(* An answer that is a frame is the own one, and then nothing is left on   *)
(* the line, or the late one, and then at most the own one is left.        *)
LEMMA FrameRead ==
  ASSUME NEW answer, NEW l, NEW o \in Writes(answer, l),
         o.bytes # Silence, o.bytes # Noise
  PROVE  \/ o.bytes = answer /\ o.late = Silence
         \/ o.bytes = l /\ o.late \in {answer, Silence}
<1>1. CASE o \in Undisturbed(answer)
  BY <1>1 DEF Undisturbed, If
<1>2. CASE o \in Unconnected(l)
  BY <1>2 DEF Unconnected, If
<1>3. CASE o \in Disturbed(answer, l)
  BY <1>3 DEF Disturbed, If
<1> QED BY <1>1, <1>2, <1>3 DEF Writes

LEMMA OutcomeType ==
  ASSUME NEW answer \in Frame, NEW l \in Frame, NEW o \in Writes(answer, l)
  PROVE  o.bytes \in Frame /\ o.late \in Frame
<1>1. Silence \in Frame /\ Noise \in Frame
  BY DEF Frame
<1>2. CASE o \in Undisturbed(answer)
  BY <1>1, <1>2 DEF Undisturbed, If
<1>3. CASE o \in Unconnected(l)
  BY <1>1, <1>3 DEF Unconnected, If
<1>4. CASE o \in Disturbed(answer, l)
  BY <1>1, <1>4 DEF Disturbed, If
<1> QED BY <1>2, <1>3, <1>4 DEF Writes

-----------------------------------------------------------------------------
(* Once a session has been opened in this visit no counter is on its way,  *)
(* and once the day counter has been read nothing is.                      *)
Undelayed ==
    /\ pc # "idle" => visit \in 1..VisitMod
    /\ pc = "day" => late = Silence \/ late \in StatusFrame
    /\ pc = "night" => late = Silence /\ prt = Energy(meter, 1, visit)

MercuryInv == TypeOK /\ Undelayed /\ RightReading

LEMMA MercuryInit == Init => MercuryInv
BY VisitAssumption DEF Init, MercuryInv, TypeOK, Undelayed, RightReading, Frame

LEMMA MercuryNext == MercuryInv /\ [Next]_vars => MercuryInv'
<1> SUFFICES ASSUME MercuryInv, [Next]_vars PROVE MercuryInv'
  OBVIOUS
<1> USE DEF MercuryInv
<1>1. CASE Begin
  <2>1. visit' \in 1..VisitMod
    BY <1>1, VisitAssumption DEF Begin, TypeOK
  <2>2. TypeOK'
    BY <1>1, <2>1 DEF Begin, TypeOK
  <2> QED BY <1>1, <2>1, <2>2 DEF Begin, Undelayed, RightReading
<1>2. CASE checkChannel
  <2>1. PICK o \in Writes(Status("ok"), late) :
          late' = o.late /\ pc' = IF checkResult_1b(o.bytes) THEN "init" ELSE "close"
    BY <1>2 DEF checkChannel
  <2>2. Status("ok") \in Frame /\ late \in Frame
    BY DEF TypeOK, Frame, StatusFrame
  <2>3. late' \in Frame
    BY <2>1, <2>2, OutcomeType
  <2>4. TypeOK'
    BY <1>2, <2>1, <2>3 DEF checkChannel, TypeOK
  <2> QED BY <1>2, <2>1, <2>4 DEF checkChannel, Undelayed, RightReading
<1>3. CASE initConnection
  <2>0. PICK code \in {"ok", "permission_denied"} :
          \E o \in Writes(Status(code), late) :
             /\ late' = o.late
             /\ session' = IF o.heard /\ code = "ok" THEN session \cup {meter} ELSE session
             /\ pc' = IF checkResult_1b(o.bytes) THEN "day" ELSE "close"
    BY <1>3 DEF initConnection
  <2>1. PICK o \in Writes(Status(code), late) :
          /\ late' = o.late
          /\ session' = IF o.heard /\ code = "ok" THEN session \cup {meter} ELSE session
          /\ pc' = IF checkResult_1b(o.bytes) THEN "day" ELSE "close"
    BY <2>0
  <2>2. Status(code) \in StatusFrame /\ Status(code) \in Frame /\ late \in Frame
    BY DEF TypeOK, Frame, StatusFrame
  <2>3. late' \in Frame
    BY <2>1, <2>2, OutcomeType
  <2>4. TypeOK'
    BY <1>3, <2>1, <2>3 DEF initConnection, TypeOK
  <2>5. ASSUME pc' = "day" PROVE late' = Silence \/ late' \in StatusFrame
    <3>1. o.bytes.form = "status"
      BY <2>1, <2>5 DEF checkResult_1b
    <3>2. o.bytes # Silence /\ o.bytes # Noise
      BY <3>1
    <3>3. o.late \in {Status(code), Silence}
      BY <3>2, FrameRead
    <3> QED BY <2>1, <2>2, <3>3
  <2> QED BY <1>3, <2>1, <2>4, <2>5 DEF initConnection, Undelayed, RightReading
<1>4. CASE getDay
  <2>1. PICK o \in Writes(PowerAnswer(1), late) :
          /\ late' = o.late
          /\ IF checkResult_4x4b(o.bytes)
             THEN pc' = "night" /\ prt' = o.bytes
             ELSE pc' = "close" /\ UNCHANGED prt
    BY <1>4 DEF getDay
  <2>2. pc = "day" /\ visit \in 1..VisitMod /\ UNCHANGED <<meter, visit, session, rows>>
    BY <1>4 DEF getDay, Undelayed
  <2>3. PowerAnswer(1) \in {Energy(meter, 1, visit)} \cup StatusFrame
    BY DEF PowerAnswer, StatusFrame
  <2>4. Energy(meter, 1, visit) \in EnergyFrame
    BY <2>2 DEF TypeOK, EnergyFrame
  <2>5. late' \in Frame
    BY <2>1, <2>3, <2>4, OutcomeType DEF TypeOK, Frame
  <2>6. ASSUME checkResult_4x4b(o.bytes)
        PROVE  o.bytes = Energy(meter, 1, visit) /\ o.late = Silence
    <3>1. o.bytes.form = "energy"
      BY <2>6 DEF checkResult_4x4b
    <3>2. o.bytes # Silence /\ o.bytes # Noise
      BY <3>1
    <3>3. \A f \in StatusFrame : f.form = "status"
      BY DEF StatusFrame, Status
    <3>4. o.bytes # late
      BY <2>2, <3>1, <3>2, <3>3 DEF Undelayed
    <3>5. o.bytes = PowerAnswer(1) /\ o.late = Silence
      BY <3>2, <3>4, FrameRead
    <3> QED BY <2>3, <3>1, <3>3, <3>5
  <2>7. TypeOK'
    BY <2>1, <2>2, <2>4, <2>5, <2>6 DEF TypeOK
  <2>8. Undelayed' /\ RightReading'
    BY <2>1, <2>2, <2>6 DEF Undelayed, RightReading
  <2> QED BY <2>7, <2>8
<1>5. CASE getNight
  <2>1. PICK o \in Writes(PowerAnswer(2), late) :
          /\ late' = o.late
          /\ IF checkResult_4x4b(o.bytes)
             THEN rows' = rows \cup
                    {[meter |-> meter, visit |-> visit, day |-> prt, night |-> o.bytes]}
             ELSE UNCHANGED rows
    BY <1>5 DEF getNight
  <2>2. /\ pc = "night" /\ pc' = "close" /\ visit \in 1..VisitMod
        /\ late = Silence /\ prt = Energy(meter, 1, visit)
        /\ UNCHANGED <<meter, visit, prt, session>>
    BY <1>5 DEF getNight, Undelayed
  <2>3. PowerAnswer(2) \in {Energy(meter, 2, visit)} \cup StatusFrame
    BY DEF PowerAnswer, StatusFrame
  <2>4. Energy(meter, 1, visit) \in EnergyFrame /\ Energy(meter, 2, visit) \in EnergyFrame
    BY <2>2 DEF TypeOK, EnergyFrame
  <2>5. late' \in Frame
    BY <2>1, <2>3, <2>4, OutcomeType DEF TypeOK, Frame
  <2>6. ASSUME checkResult_4x4b(o.bytes)
        PROVE  o.bytes = Energy(meter, 2, visit)
    <3>1. o.bytes.form = "energy"
      BY <2>6 DEF checkResult_4x4b
    <3>2. o.bytes # Silence /\ o.bytes # Noise
      BY <3>1
    <3>3. \A f \in StatusFrame : f.form = "status"
      BY DEF StatusFrame, Status
    <3>4. o.bytes = PowerAnswer(2)
      BY <2>2, <3>2, FrameRead
    <3> QED BY <2>3, <3>1, <3>3, <3>4
  <2>7. \/ rows' = rows
        \/ rows' = rows \cup {[meter |-> meter, visit |-> visit,
                              day |-> Energy(meter, 1, visit),
                              night |-> Energy(meter, 2, visit)]}
    BY <2>1, <2>2, <2>6
  <2>8. TypeOK'
    BY <2>2, <2>4, <2>5, <2>7 DEF TypeOK
  <2>9. Undelayed' /\ RightReading'
    BY <2>2, <2>7 DEF Undelayed, RightReading
  <2> QED BY <2>8, <2>9
<1>6. CASE closeConnection
  <2>1. PICK o \in Writes(Status("ok"), late) :
          /\ late' = o.late
          /\ session' = IF o.heard THEN session \ {meter} ELSE session
    BY <1>6 DEF closeConnection
  <2>2. Status("ok") \in Frame /\ late \in Frame
    BY DEF TypeOK, Frame, StatusFrame
  <2>3. late' \in Frame
    BY <2>1, <2>2, OutcomeType
  <2>4. TypeOK'
    BY <1>6, <2>1, <2>3 DEF closeConnection, TypeOK
  <2> QED BY <1>6, <2>4 DEF closeConnection, Undelayed, RightReading
<1>7. CASE Expire \/ UNCHANGED vars
  <2>1. /\ UNCHANGED <<pc, meter, visit, prt, late, rows>> /\ session' \subseteq session
    BY <1>7 DEF Expire, vars
  <2> QED BY <2>1 DEF TypeOK, Undelayed, RightReading
<1> QED BY <1>1, <1>2, <1>3, <1>4, <1>5, <1>6, <1>7 DEF Next

(* Every variable of read_data keeps its type; the rows it returns hold    *)
(* the counters of two answers to getW and nothing else.                   *)
THEOREM MercuryTypeCorrect == Spec => []TypeOK
<1>1. MercuryInv => TypeOK
  BY DEF MercuryInv
<1> QED BY MercuryInit, MercuryNext, <1>1, PTL DEF Spec

(* Whatever the line loses, damages, cuts or delays, the two rows that     *)
(* read_data returns are the day and the night counter of the meter it     *)
(* visited, read in that visit.                                            *)
THEOREM NoMixUp == Spec => []RightReading
<1>1. MercuryInv => RightReading
  BY DEF MercuryInv
<1> QED BY MercuryInit, MercuryNext, <1>1, PTL DEF Spec

-----------------------------------------------------------------------------
USE DEF Heat!Silence, Heat!Noise

(* The two lines do not disturb each other: the electricity meters are     *)
(* visited as if they were alone.                                          *)
THEOREM LinesAreMercury == LinesSpec => Spec
<1>1. LinesInit => Init
  BY DEF LinesInit
<1>2. [LinesNext]_<<vars, heat>> => [Next]_vars
  BY DEF LinesNext, VisitMercury, VisitPulsar
<1> QED BY <1>1, <1>2, PTL DEF LinesSpec, Spec

(* RightReading, with heat meters beside: the rows of a visit are the day  *)
(* and the night counter of the meter visited, read in that visit.         *)
THEOREM LinesNoMixUp == LinesSpec => []RightReading
BY LinesAreMercury, NoMixUp, PTL

(* Mercury's TypeOK beside heat meters: what getDay and getNight keep and  *)
(* read_data returns are decoded counters of some meter, never a status    *)
(* answer, noise or the silence of a line that failed.                     *)
THEOREM LinesTypeCorrect == LinesSpec => []TypeOK
BY LinesAreMercury, MercuryTypeCorrect, PTL

-----------------------------------------------------------------------------
(* What writes returns and leaves on the line are answers or nothing.      *)
LEMMA HeatOutcomeType ==
  ASSUME NEW answer \in Heat!Frame, NEW l \in Heat!Frame, NEW o \in Heat!Writes(answer, l)
  PROVE  o.bytes \in Heat!Frame /\ o.late \in Heat!Frame
<1>1. Heat!Silence \in Heat!Frame /\ Heat!Noise \in Heat!Frame
  BY DEF Heat!Frame
<1>2. CASE o \in Heat!Undisturbed(answer)
  BY <1>1, <1>2 DEF Heat!Undisturbed, Heat!If
<1>3. CASE o \in Heat!Unconnected(l)
  BY <1>1, <1>3 DEF Heat!Unconnected, Heat!If
<1>4. CASE o \in Heat!Disturbed(answer, l)
  BY <1>1, <1>4 DEF Heat!Disturbed, Heat!If
<1> QED BY <1>2, <1>3, <1>4 DEF Heat!Writes

HeatInv ==
    /\ HeatTypeOK
    /\ heatPc # "idle" => heatVisit \in 1..VisitMod

LEMMA HeatInit == LinesInit => HeatInv
BY VisitAssumption DEF LinesInit, Heat!Init, HeatInv, HeatTypeOK, Heat!TypeOK, Heat!Frame

LEMMA HeatNext == HeatInv /\ [LinesNext]_<<vars, heat>> => HeatInv'
<1> SUFFICES ASSUME HeatInv, [LinesNext]_<<vars, heat>> PROVE HeatInv'
  OBVIOUS
<1> USE DEF HeatInv, HeatTypeOK
<1>1. CASE UNCHANGED heat
  BY <1>1 DEF heat, Heat!TypeOK
<1>2. CASE Heat!Begin
  <2>1. heatVisit' \in 1..VisitMod
    BY <1>2, VisitAssumption DEF Heat!Begin, Heat!TypeOK
  <2> QED BY <1>2, <2>1 DEF Heat!Begin, Heat!TypeOK
<1>3. CASE Heat!getP
  <2>1. PICK o \in Heat!Writes(Heat!Energy(heatMeter, heatVisit), heatLate) :
          response' = o.bytes /\ heatLate' = o.late
    BY <1>3 DEF Heat!getP
  <2>2. heatPc # "idle" /\ heatPc' = "check" /\ UNCHANGED <<heatMeter, heatVisit, heatRows>>
    BY <1>3 DEF Heat!getP
  <2>3. Heat!Energy(heatMeter, heatVisit) \in Heat!Frame
    BY <2>2 DEF Heat!TypeOK, Heat!Frame, Heat!EnergyFrame
  <2>4. response' \in Heat!Frame /\ heatLate' \in Heat!Frame
    BY <2>1, <2>3, HeatOutcomeType DEF Heat!TypeOK
  <2> QED BY <2>2, <2>4 DEF Heat!TypeOK
<1>4. CASE Heat!convert_data
  <2>1. /\ heatPc = "check" /\ heatPc' = "idle"
        /\ UNCHANGED <<heatMeter, heatVisit, response, heatLate>>
    BY <1>4 DEF Heat!convert_data
  <2>2. ASSUME Heat!check_crc PROVE response \in Heat!EnergyFrame
    BY <2>2 DEF Heat!check_crc, Heat!TypeOK, Heat!Frame
  <2>3. heatRows' \subseteq [meter : Meter, visit : 1..VisitMod, energy : Heat!EnergyFrame]
    <3>1. CASE Heat!check_crc
      BY <1>4, <2>1, <2>2, <3>1 DEF Heat!convert_data, Heat!TypeOK
    <3>2. CASE ~Heat!check_crc
      BY <1>4, <3>2 DEF Heat!convert_data, Heat!TypeOK
    <3> QED BY <3>1, <3>2
  <2> QED BY <2>1, <2>3 DEF Heat!TypeOK
<1> QED BY <1>1, <1>2, <1>3, <1>4 DEF LinesNext, VisitMercury, VisitPulsar, Heat!Next

(* HeatTypeOK on any line: a row of a heat meter holds a decoded answer,   *)
(* never the silence or the noise of a line that failed.                   *)
THEOREM HeatTypeCorrect == LinesSpec => []HeatTypeOK
<1>1. HeatInv => HeatTypeOK
  BY DEF HeatInv
<1> QED BY HeatInit, HeatNext, <1>1, PTL DEF LinesSpec

-----------------------------------------------------------------------------
(* A prompt line: an answer comes whole before the timeout or not at all.  *)
Prompt == HeatFaults \cap {"late", "cut"} = {}

(* On a prompt line nothing is ever left for the next exchange.            *)
PromptInv ==
    /\ HeatInv
    /\ heatLate = Heat!Silence
    /\ heatPc = "check" =>
         response \in {Heat!Energy(heatMeter, heatVisit), Heat!Noise, Heat!Silence}
    /\ OwnReading

LEMMA PromptInit == LinesInit => PromptInv
BY HeatInit DEF LinesInit, Heat!Init, PromptInv, OwnReading, Heat!OwnReading

LEMMA PromptNext ==
  ASSUME Prompt, PromptInv, [LinesNext]_<<vars, heat>>
  PROVE  PromptInv'
<1>0. HeatInv'
  BY HeatNext DEF PromptInv
<1> USE DEF PromptInv, OwnReading, Heat!OwnReading
<1>1. CASE UNCHANGED heat
  BY <1>0, <1>1 DEF heat
<1>2. CASE Heat!Begin
  BY <1>0, <1>2 DEF Heat!Begin
<1>3. CASE Heat!getP
  <2>1. PICK o \in Heat!Writes(Heat!Energy(heatMeter, heatVisit), heatLate) :
          response' = o.bytes /\ heatLate' = o.late
    BY <1>3 DEF Heat!getP
  <2>2. o \in Heat!Undisturbed(Heat!Energy(heatMeter, heatVisit)) \cup Heat!Unconnected(heatLate)
    BY <2>1 DEF Heat!Writes
  <2>3. "late" \notin HeatFaults /\ "cut" \notin HeatFaults
    BY DEF Prompt
  <2>4. o.late = Heat!Silence
        /\ o.bytes \in {Heat!Energy(heatMeter, heatVisit), Heat!Noise, Heat!Silence}
    BY <2>2, <2>3 DEF Heat!Undisturbed, Heat!Unconnected, Heat!If
  <2>5. UNCHANGED <<heatMeter, heatVisit, heatRows>>
    BY <1>3 DEF Heat!getP
  <2> QED BY <1>0, <2>1, <2>4, <2>5
<1>4. CASE Heat!convert_data
  <2>1. heatPc = "check" /\ heatPc' = "idle" /\ UNCHANGED <<heatMeter, heatVisit, response, heatLate>>
    BY <1>4 DEF Heat!convert_data
  <2>2. ASSUME Heat!check_crc PROVE response = Heat!Energy(heatMeter, heatVisit)
    BY <2>1, <2>2 DEF Heat!check_crc
  <2>3. \/ heatRows' = heatRows
        \/ heatRows' = heatRows \cup {[meter |-> heatMeter, visit |-> heatVisit,
                                       energy |-> Heat!Energy(heatMeter, heatVisit)]}
    BY <1>4, <2>2 DEF Heat!convert_data
  <2> QED BY <1>0, <2>1, <2>3
<1> QED BY <1>1, <1>2, <1>3, <1>4 DEF LinesNext, VisitMercury, VisitPulsar, Heat!Next

(* OwnReading: as long as an answer comes whole before the timeout or not  *)
(* at all, the energy pushed for a heat meter is what that meter answered  *)
(* in that visit, although neither its address nor the ID of its request   *)
(* is compared.                                                            *)
THEOREM PromptReading ==
    ASSUME Prompt
    PROVE  LinesSpec => []OwnReading
<1>1. PromptInv /\ [LinesNext]_<<vars, heat>> => PromptInv'
  BY PromptNext
<1>2. PromptInv => OwnReading
  BY DEF PromptInv
<1> QED BY PromptInit, <1>1, <1>2, PTL DEF LinesSpec
=============================================================================
