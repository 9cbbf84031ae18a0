---------------------------- MODULE RemoteTables ----------------------------
(***************************************************************************)
(* What libmodbus promises of the tables of a server, whatever the frames, *)
(* the backend and the line: a call takes effect at most once and all at   *)
(* once, the calls do so in their order, and what a call returns is what   *)
(* the tables held when a call took effect, none of it returned twice.     *)
(***************************************************************************)
EXTENDS Naturals, Sequences

CONSTANTS
    Inputs,         \* the tables at the start
    Effect(_, _),   \* what a call makes of the tables
    Held(_, _)      \* what a call reads of the tables

VARIABLES
    script,     \* the calls to make
    denied,     \* the numbers of those that must never take effect
    memory,     \* the tables
    made,       \* how many calls were made
    open,       \* the numbers of those that may still take effect
    answers,    \* what those that did have read, on its way to the client
    result      \* of the last call that returned

vars == <<script, denied, memory, made, open, answers, result>>

Failure == [of |-> 0, seen |-> <<>>]

Init == memory = Inputs /\ made = 0 /\ open = {} /\ answers = {} /\ result = Failure

(* A call is made; it may fail at once, and it may close the line on       *)
(* earlier ones.                                                           *)
Call ==
    /\ made < Len(script)
    /\ made' = made + 1
    /\ open' \subseteq open \cup {made'}
    /\ answers' \subseteq answers
    /\ result' \in {result, Failure}
    /\ UNCHANGED <<script, denied, memory>>

TakeEffect(n) ==
    /\ n \in open \ denied
    /\ \A k \in open : n <= k
    /\ memory' = Effect(script[n], memory)
    /\ open' \subseteq open \ {n}
    /\ answers' \subseteq answers \cup {[of |-> n, seen |-> Held(script[n], memory')]}
    /\ UNCHANGED <<script, denied, made, result>>

Return ==
    /\ \/ result' = Failure /\ answers' \subseteq answers
       \/ result' \in answers /\ answers' \subseteq answers \ {result'}
    /\ open' \subseteq open
    /\ UNCHANGED <<script, denied, memory, made>>

Lose ==
    /\ open' \subseteq open
    /\ answers' \subseteq answers
    /\ UNCHANGED <<script, denied, memory, made, result>>

Next == Call \/ (\E n \in open : TakeEffect(n)) \/ Return \/ Lose

Spec == Init /\ [][Next]_vars
=============================================================================
