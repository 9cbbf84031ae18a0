----------------------------- MODULE MCPolling -----------------------------
(* Constant values for the runs of Polling.                                 *)
EXTENDS Polling

CONSTANTS mercury_1, sphera24

OneServed == <<mercury_1>>
Mixed == {mercury_1, sphera24}
TwoEach == [l \in Line |-> 2]
OnlySphera == {sphera24}
OnlyMercury == {mercury_1}
=============================================================================
