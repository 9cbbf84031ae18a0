------------------------------ MODULE MCPulsar ------------------------------
(* Constant values for the run of Pulsar.                                   *)
EXTENDS Pulsar

CONSTANTS p1, p2

TwoMeters == {p1, p2}
OnlyLate == {"late"}
=============================================================================
