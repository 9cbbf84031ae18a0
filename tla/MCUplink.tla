------------------------------ MODULE MCUplink ------------------------------
(* Constant values for the runs of Uplink.                     *)
EXTENDS Uplink

CONSTANTS s1, s2, s3, s4

TwoSamples == {s1, s2}
ThreeSamples == {s1, s2, s3}
FourSamples == {s1, s2, s3, s4}
NoneUnknown == {}
OneUnknown == {s1}

LinkFaults == {"answer_lost", "fetch_open"}
TolerableFaults == FaultKind \ LossyFault
LethalFaults == FaultKind \ {"delete"}
RejectFault == {"reject"}
=============================================================================
