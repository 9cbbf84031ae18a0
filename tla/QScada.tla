------------------------------- MODULE QScada -------------------------------
(***************************************************************************)
(* The program as main() starts it: read_all_sensors walks through the     *)
(* lines, reads the meters of each until hasNext says that the sweep of    *)
(* the line is over, and calls sendToServer (module Uplink) before the     *)
(* first line and after every line.                                        *)
(*                                                                         *)
(* There is one thread, so GuidClass is its iterator per line; the reading *)
(* of a meter is one step that gives all its rows or none (modules Mercury *)
(* and Pulsar), pushed one by one.                                         *)
(***************************************************************************)
EXTENDS Uplink

CONSTANTS
    Meters,     \* how many meters the lines have, in the order of the sweep
    RowsRead    \* rows a reading gives on each line: 2 mercury, 1 pulsar

ASSUME QScadaAssumption ==
    /\ Meters \in Seq(Nat)
    /\ RowsRead \in [DOMAIN Meters -> Nat \ {0}]

VARIABLES
    line,       \* line being swept; 0 before the first one
    mainPos,    \* main_it of every line: how many meters it has passed
    left        \* rows of the last reading that push has not queued yet

sweepVars == <<line, mainPos, left>>
systemVars == <<vars, sweepVars>>

-----------------------------------------------------------------------------
AtFront == [l \in DOMAIN Meters |-> 0]

SystemInit ==
    /\ Init
    /\ line = 0 /\ mainPos = AtFront /\ left = 0

(* Before the first line there is nothing to sweep: getInfoFromServer asks *)
(* for an interval that main() does not use.                               *)
hasNext == line # 0 /\ mainPos[line] < Meters[line]

(* read_data of the line's reader: the next meter gives its rows, or none; *)
(* always none when the samples of the instance are used up.               *)
ReadData ==
    /\ pc = "sweep" /\ left = 0 /\ hasNext
    /\ mainPos' = [mainPos EXCEPT ![line] = @ + 1]
    /\ left' \in {0, RowsRead[line]}
    /\ left' <= Cardinality(Sample \ produced)
    /\ UNCHANGED <<vars, line>>

(* One iteration of push.                                                  *)
PushRow ==
    /\ left > 0 /\ Push
    /\ left' = left - 1
    /\ UNCHANGED <<line, mainPos>>

(* Variants: hasNext does not rewind; sendToServer only before the sweep.  *)
LineDoneNoRewind ==
    /\ left = 0 /\ ~hasNext
    /\ Pop
    /\ UNCHANGED sweepVars

LineDoneSendsOnce ==
    /\ left = 0 /\ ~hasNext
    /\ mainPos' = IF line = 0 THEN mainPos ELSE [mainPos EXCEPT ![line] = 0]
    /\ IF line = 0
       THEN Pop /\ UNCHANGED line
       ELSE pc = "sweep" /\ line' = (line + 1) % (Len(Meters) + 1) /\ UNCHANGED vars
    /\ UNCHANGED left

(* hasNext with no meter left: the iterator goes back to the front, and    *)
(* sendToServer begins.                                                    *)
LineDone ==
    /\ left = 0 /\ ~hasNext
    /\ mainPos' = IF line = 0 THEN mainPos ELSE [mainPos EXCEPT ![line] = 0]
    /\ Pop
    /\ UNCHANGED <<line, left>>

(* Variant: the walk through the lines does not start over.                *)
SendingOn ==
    /\ pc # "sweep" /\ Loop
    /\ line' = IF pc' = "sweep" THEN line + 1 ELSE line
    /\ UNCHANGED <<mainPos, left>>

(* Inside sendToServer; when it returns, the next line is swept, or after  *)
(* the last one and the wait for the interval the next sweep begins.       *)
Sending ==
    /\ pc # "sweep" /\ Loop
    /\ line' = IF pc' = "sweep" THEN (line + 1) % (Len(Meters) + 1) ELSE line
    /\ UNCHANGED <<mainPos, left>>

(* A restart begins with a new table of meters.                            *)
StartAgain ==
    /\ Crash \/ PostGarbled
    /\ line' = 0 /\ mainPos' = AtFront /\ left' = 0

Running == ReadData \/ PushRow \/ LineDone \/ Sending

SystemNext == Running \/ StartAgain

SystemSpec == SystemInit /\ [][SystemNext]_systemVars

(* The thread runs: every call in it has a timeout (curl: 10 s, the        *)
(* exchanges with the meters: theirs).  Nothing is assumed of the link,    *)
(* the server, the database or the meters.                                 *)
RunningSpec == SystemSpec /\ WF_systemVars(Running)

(* Moreover the link is up and the database opens again and again when     *)
(* they are needed.                                                        *)
ConnectedSpec ==
    /\ RunningSpec
    /\ SF_systemVars(Sending /\ PostAnswered /\ stage = "fresh")
    /\ SF_systemVars(Sending /\ PostAnswered /\ stage = "stored")
    /\ SF_systemVars(Sending /\ OpenForFetch)

-----------------------------------------------------------------------------
SweepTypeOK ==
    /\ TypeOK
    /\ line \in 0..Len(Meters)
    /\ mainPos \in [DOMAIN Meters -> Nat]
    /\ \A l \in DOMAIN Meters : mainPos[l] <= Meters[l]
    /\ left \in Nat
    /\ left > 0 => line # 0 /\ left <= RowsRead[line] /\ pc = "sweep"

(* Rows that the first l lines of a sweep can give, and those of a full    *)
(* sweep.                                                                  *)
RowsUpTo[l \in 0..Len(Meters)] ==
    IF l = 0 THEN 0 ELSE RowsUpTo[l - 1] + Meters[l] * RowsRead[l]

SweepRows == RowsUpTo[Len(Meters)]

(* The memory queue does not grow: if the sends of a sweep can take what   *)
(* the sweep reads, the queue never holds more than one sweep's rows,      *)
(* however unevenly the lines fill it.                                     *)
QueueBounded ==
    SweepRows <= (Len(Meters) + 1) * PopMax => Len(queue) <= SweepRows

(* Every meter is asked again and again, whatever the meters, the link,    *)
(* the server and the database do, as long as the process lives.           *)
MetersPolled ==
    \A l \in DOMAIN Meters : \A d \in 1..Meters[l] :
        []<>(line = l /\ mainPos[l] = d)
=============================================================================
