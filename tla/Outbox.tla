------------------------------- MODULE Outbox -------------------------------
(***************************************************************************)
(* What the store-and-forward part of qscada promises, whatever its queue, *)
(* its table and its flags look like: a sample that is recorded waits in   *)
(* the outbox until the server has it, or until the server refuses it.     *)
(***************************************************************************)
CONSTANTS Sample, Unknown

VARIABLES pending, delivered, produced

vars == <<pending, delivered, produced>>

Init == pending = {} /\ delivered = {} /\ produced = {}

(* A new sample enters the outbox.                                         *)
Record ==
    /\ \E s \in Sample \ produced :
          /\ produced' = produced \cup {s}
          /\ pending' = pending \cup {s}
    /\ UNCHANGED delivered

(* One exchange with the server: it stores some of the waiting samples and *)
(* refuses some of those whose sensor it does not know.                    *)
Exchange ==
    /\ \E stored \in SUBSET (pending \ Unknown), refused \in SUBSET (pending \cap Unknown) :
          /\ delivered' = delivered \cup stored
          /\ pending' = pending \ (stored \cup refused)
    /\ UNCHANGED produced

Spec == Init /\ [][Record \/ Exchange]_vars
=============================================================================
