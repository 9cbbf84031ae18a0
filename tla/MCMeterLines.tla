---------------------------- MODULE MCMeterLines ----------------------------
(* Constant values for the run of MeterLines.                               *)
EXTENDS MeterLines

CONSTANTS m1, m2

TwoMeters == {m1, m2}
AllFaults == LineFaultKind
NeverLate == LineFaultKind \ {"late", "cut"}
=============================================================================
