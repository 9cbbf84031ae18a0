----------------------------- MODULE MeterLines -----------------------------
(***************************************************************************)
(* A line of electricity meters and a line of heat meters, each behind a   *)
(* gateway of its own.  They share nothing, so what one of them does shows *)
(* all either can do: a behaviour visits the meters of one line.           *)
(***************************************************************************)
EXTENDS Mercury

CONSTANT HeatFaults     \* what the line of the heat meters may do wrong

ASSUME HeatAssumption == HeatFaults \subseteq LineFaultKind

VARIABLES heatPc, heatMeter, heatVisit, response, heatLate, heatRows

heat == <<heatPc, heatMeter, heatVisit, response, heatLate, heatRows>>

Heat ==
    INSTANCE Pulsar WITH pc <- heatPc, meter <- heatMeter, visit <- heatVisit,
                         late <- heatLate, rows <- heatRows, LineFaults <- HeatFaults

LinesInit == Init /\ Heat!Init

VisitMercury == heatVisit = 0 /\ Next /\ UNCHANGED heat

VisitPulsar == visit = 0 /\ Heat!Next /\ UNCHANGED vars

LinesNext == VisitMercury \/ VisitPulsar

LinesSpec == LinesInit /\ [][LinesNext]_<<vars, heat>>

-----------------------------------------------------------------------------
(* The types of the heat meters' side: what getP leaves in Response is an  *)
(* answer or nothing, and a row holds a decoded answer.                    *)
HeatTypeOK == Heat!TypeOK

(* A row of a heat meter is what the meter has answered in this very       *)
(* visit, as long as no answer is late or cut.                             *)
OwnReading == Heat!OwnReading
=============================================================================
