------------------------------ MODULE MCOwen ------------------------------
(* Constant values for the run of Owen: a 16D and an 8A on one line, a     *)
(* counter of pulses on another; the channels are listed out of order and  *)
(* the devices share pins.                                                 *)
EXTENDS Owen

main(key, guid, address) == [key |-> key, guid |-> guid, address |-> address]
sub(key, guid, pin) == [key |-> key, guid |-> guid, pin |-> pin]

TwoLines == <<"owen_1", "sphera24_1">>
Sphera == {"sphera24_1"}
Database ==
    [owen_1 |-> [main |-> <<main("1", "d16", 1), main("2", "d8a", 11)>>,
                 sub |-> <<sub("2", "t0", 0), sub("1", "b0", 0), sub("1", "w16", 16)>>],
     sphera24_1 |-> [main |-> <<main("1", "p24", 1)>>, sub |-> <<sub("1", "c0", 0)>>]]

Manager == [owen_1 |-> <<"OwenClass_16D", "OwenClass_8A">>, sphera24_1 |-> <<"Sphera_24CI">>]
=============================================================================
