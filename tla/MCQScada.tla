------------------------------ MODULE MCQScada ------------------------------
(* Constant values for the runs of QScada.                                  *)
EXTENDS QScada

CONSTANTS s1, s2, s3, s4, s5

TwoSamples == {s1, s2}
ThreeSamples == {s1, s2, s3}
FiveSamples == {s1, s2, s3, s4, s5}
NoneUnknown == {}
OneUnknown == {s1}

DeathAndLink == {"answer_lost", "garbled", "crash"}
LinkFaults == {"answer_lost", "fetch_open"}
EverythingButDeath == FaultKind \ {"garbled", "crash"}

TwoMetersThenOne == <<2, 1>>
OneMercuryOnePulsar == <<1, 1>>
MercuryThenPulsar == <<2, 1>>
=============================================================================
