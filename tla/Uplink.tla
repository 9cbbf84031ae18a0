------------------------------- MODULE Uplink -------------------------------
(***************************************************************************)
(* The way of a sample from the memory queue to the server: SqlDriver      *)
(* (queue and sqlite table `data'), HttpsDriver::Send/process_response and *)
(* the loop of main.cpp that drives them (sendToServer).                   *)
(*                                                                         *)
(* One process runs all of it, one statement after the other; what is      *)
(* concurrent with it is the server, the link, sqlite's failures and the   *)
(* death of the process.  A step is one call that can fail on its own or   *)
(* one iteration of a loop that touches the database.                      *)
(*                                                                         *)
(* A row (QStringList of five fields) is abstracted to the sample it       *)
(* carries (guid, value, value flag and time together: a model value) and  *)
(* its error flag, the only field that sendToServer changes.               *)
(***************************************************************************)
EXTENDS Integers, Sequences, FiniteSets

CONSTANTS
    Sample,     \* the samples the meters will ever give
    Unknown,    \* those whose sensor_secret the server does not know
    PopMax,     \* rows taken from the queue for one POST (200)
    FetchMax,   \* rows taken from the table for one POST (500)
    KeyMod,     \* distinct values of the quint8 that numbers the keys (256)
    TableBound, \* a DELETE fails only while the table is smaller than this
    Faults      \* what the environment may do wrong, a subset of FaultKind

FaultKind ==
    { "answer_lost",  \* no answer, whatever the server did with the request
      "reject",       \* the server answers a row with some other error
      "garbled",      \* an answer that is not JSON: qFatal, the process aborts
      "save_open",    \* db.open() fails in toDataTable
      "insert",       \* an INSERT fails
      "fetch_open",   \* db.open() or the SELECT fails in fromDataTable
      "delete",       \* a DELETE fails
      "crash" }       \* power loss or an abort anywhere, then a restart

(* The faults after which rows are gone whatever sendToServer does.        *)
LossyFault == {"reject", "garbled", "save_open", "insert", "crash"}

ASSUME UplinkAssumption ==
    /\ Unknown \subseteq Sample
    /\ {PopMax, FetchMax, KeyMod} \subseteq Nat \ {0}
    /\ TableBound \in Nat
    /\ Faults \subseteq FaultKind

VARIABLES
    produced,   \* samples read from a meter so far (history)
    queue,      \* SqlDriver::queue
    table,      \* rows of the sqlite table `data', told apart by their rowid
    batch,      \* sendData or dataFromTable, the local of sendToServer
    stage,      \* which of the two it is: "fresh" or "stored"
    pc,         \* where the process is
    next,       \* loop counter i of toDataTable
    cursor,     \* rowid of the last row the SELECT of fromDataTable gave
    received    \* samples the server has stored

vars == <<produced, queue, table, batch, stage, pc, next, cursor, received>>

-----------------------------------------------------------------------------
ErrorFlag == 0..2                                \* DATA_ERROR_FLAG0 .. FLAG2
Row == [sample : Sample, flag : ErrorFlag]
TableRow == [sample : Sample, flag : {1, 2}, rowid : Nat \ {0}]
Verdict == {"true", "duplicate", "wrongsecret", "error"}

SamplesOf(rows) == {rows[i].sample : i \in DOMAIN rows}

TypeOK ==
    /\ produced \subseteq Sample
    /\ queue \in Seq(Row)
    /\ table \subseteq TableRow /\ IsFiniteSet(table)
    /\ batch \in Seq(Row)
    /\ stage \in {"fresh", "stored"}
    /\ pc \in {"sweep", "post", "save", "insert", "fetch", "select"}
    /\ next \in Nat \ {0}
    /\ cursor \in Nat
    /\ received \subseteq Sample

(* main() after Guid.init: nothing queued, an empty table on the first     *)
(* start ever.                                                             *)
Init ==
    /\ produced = {} /\ queue = <<>> /\ table = {} /\ batch = <<>>
    /\ stage = "fresh" /\ pc = "sweep" /\ next = 1 /\ cursor = 0
    /\ received = {}

-----------------------------------------------------------------------------
(* Between two sends: the sweep of read_all_sensors pushes what it reads.  *)
(* push() appends the time and DATA_ERROR_FLAG0.                           *)
Push ==
    /\ pc = "sweep"
    /\ \E s \in Sample \ produced :
          /\ produced' = produced \cup {s}
          /\ queue' = Append(queue, [sample |-> s, flag |-> 0])
    /\ UNCHANGED <<table, batch, stage, pc, next, cursor, received>>

(* sqlDriver.pop(200): the first rows of the queue, up to the limit.       *)
Pop ==
    LET n == IF Len(queue) < PopMax THEN Len(queue) ELSE PopMax
    IN  /\ pc = "sweep"
        /\ batch' = SubSeq(queue, 1, n)
        /\ queue' = SubSeq(queue, n + 1, Len(queue))
        /\ stage' = "fresh"
        /\ pc' = "post"
        /\ UNCHANGED <<produced, table, next, cursor, received>>

-----------------------------------------------------------------------------
(* HttpsDriver::Send numbers the rows with a quint8: the row of index i    *)
(* (from 1) gets the key insert_<Key(i)>, and a later row with the same    *)
(* key replaces an earlier one in the JSON object.                         *)
Key(i) == (i - 1) % KeyMod

Keys(rows) == {Key(i) : i \in DOMAIN rows}

LastRow(rows, k) ==
    CHOOSE i \in DOMAIN rows :
        Key(i) = k /\ \A j \in DOMAIN rows : Key(j) = k => j <= i

Request(rows) == [k \in Keys(rows) |-> rows[LastRow(rows, k)].sample]

(* What the server may answer: it stores a sample once, calls any further  *)
(* copy a duplicate, and refuses a sample of a sensor it does not know.    *)
(* "error" stands for every other error code and for a missing entry.      *)
Answers(req) ==
    { a \in [DOMAIN req -> Verdict] :
        \A k \in DOMAIN req :
          /\ (a[k] = "wrongsecret") <=> (req[k] \in Unknown)
          /\ a[k] = "true" =>
                /\ req[k] \notin received
                /\ \A j \in DOMAIN req \ {k} : req[j] = req[k] => a[j] # "true"
          /\ a[k] = "duplicate" =>
                \/ req[k] \in received
                \/ \E j \in DOMAIN req : req[j] = req[k] /\ a[j] = "true"
          /\ a[k] = "error" => "reject" \in Faults }

(* Variant: the lookup counts from 1 while Send counts from 0.             *)
VerdictOfNext(a, i) == IF i \in DOMAIN a THEN a[i] ELSE "error"

(* process_response looks the answer of row i up under insert_<i - 1>,     *)
(* counted by an int: from KeyMod on there is none.                        *)
VerdictOf(a, i) == IF i - 1 \in DOMAIN a THEN a[i - 1] ELSE "error"

NeedSave(rows, a) == \E i \in DOMAIN rows : VerdictOf(a, i) # "true"

(* Variant: once a row failed, every row is marked as accepted.            *)
FlagAfterBlanket(rows, a, i) == IF NeedSave(rows, a) THEN 2 ELSE 0

(* Variant: a DUPLICATE is kept like any other error.                      *)
FlagAfterKeepDuplicate(rows, a, i) ==
    CASE VerdictOf(a, i) = "wrongsecret" -> 0
      [] VerdictOf(a, i) \in {"error", "duplicate"} -> rows[i].flag
      [] VerdictOf(a, i) = "true" -> IF NeedSave(rows, a) THEN 2 ELSE 0

FlagAfter(rows, a, i) ==
    CASE VerdictOf(a, i) \in {"duplicate", "wrongsecret"} -> 0
      [] VerdictOf(a, i) = "error" -> rows[i].flag
      [] VerdictOf(a, i) = "true" -> IF NeedSave(rows, a) THEN 2 ELSE 0

Flagged(rows, a) ==
    [i \in DOMAIN rows |-> [rows[i] EXCEPT !.flag = FlagAfter(rows, a, i)]]

(* Variant: without an answer the flags stay as they are.                  *)
AllFailedForgotten(rows) == rows

AllFailed(rows) == [i \in DOMAIN rows |-> [rows[i] EXCEPT !.flag = 1]]

-----------------------------------------------------------------------------
(* Send() with nothing to send returns at once.                            *)
SkipPost ==
    /\ pc = "post" /\ batch = <<>>
    /\ pc' = "save"
    /\ UNCHANGED <<produced, queue, table, batch, stage, next, cursor, received>>

(* The POST is answered and the answer parsed: process_response sets the   *)
(* error flag of every row.                                                *)
PostAnswered ==
    /\ pc = "post" /\ batch # <<>>
    /\ LET req == Request(batch)
       IN  \E a \in Answers(req) :
             /\ received' = received \cup
                  {req[k] : k \in {j \in DOMAIN req : a[j] = "true"}}
             /\ batch' = Flagged(batch, a)
    /\ pc' = "save"
    /\ UNCHANGED <<produced, queue, table, stage, next, cursor>>

(* curl_send gives "": no connection, or the 10 s are over.  The server    *)
(* may have stored none, some or all of the request.                       *)
PostUnanswered ==
    /\ pc = "post" /\ batch # <<>>
    /\ "answer_lost" \in Faults
    /\ LET req == Request(batch)
       IN  \E stored \in SUBSET {req[k] : k \in DOMAIN req} :
             received' = received \cup (stored \ Unknown)
    /\ batch' = AllFailed(batch)
    /\ pc' = "save"
    /\ UNCHANGED <<produced, queue, table, stage, next, cursor>>

-----------------------------------------------------------------------------
(* Only the order of the rowids matters; they are numbered anew where a    *)
(* scan of the table ends, to keep them small.                             *)
Renumbered(rows) ==
    { [r EXCEPT !.rowid = Cardinality({q \in rows : q.rowid <= r.rowid})] :
        r \in rows }

NewRowid == 1 + Cardinality(table)

(* sendData is done with: sendToServer goes on to the table.               *)
(* dataFromTable is done with: sendToServer returns to the sweep.          *)
LeaveSave ==
    /\ batch' = <<>>
    /\ next' = 1
    /\ IF stage = "fresh"
       THEN pc' = "fetch" /\ stage' = "stored"
       ELSE pc' = "sweep" /\ stage' = "fresh"

(* toDataTable: db.open().  On failure it returns and the rows are gone.   *)
OpenForSave ==
    /\ pc = "save"
    /\ pc' = "insert" /\ next' = 1
    /\ UNCHANGED <<produced, queue, table, batch, stage, cursor, received>>

OpenForSaveFails ==
    /\ pc = "save" /\ "save_open" \in Faults
    /\ LeaveSave
    /\ UNCHANGED <<produced, queue, table, cursor, received>>

(* Variants: every row is saved; only rows the server accepted are saved.  *)
ToSaveAlways(r) == TRUE
ToSaveAccepted(r) == r.flag = 2

(* Rows whose error flag is DATA_ERROR_FLAG0 are done with.                *)
ToSave(r) == r.flag # 0

(* One iteration of toDataTable: a row is inserted unless its flag is 0.   *)
(* A failed INSERT is logged, the loop goes on.                            *)
InsertRow ==
    /\ pc = "insert" /\ next <= Len(batch)
    /\ \/ /\ ToSave(batch[next])
          /\ table' = table \cup
               {[sample |-> batch[next].sample, flag |-> batch[next].flag,
                 rowid |-> NewRowid]}
       \/ /\ ToSave(batch[next]) /\ "insert" \in Faults
          /\ UNCHANGED table
       \/ /\ ~ToSave(batch[next])
          /\ UNCHANGED table
    /\ next' = next + 1
    /\ UNCHANGED <<produced, queue, batch, stage, pc, cursor, received>>

CloseSave ==
    /\ pc = "insert" /\ next > Len(batch)
    /\ LeaveSave
    /\ UNCHANGED <<produced, queue, table, cursor, received>>

-----------------------------------------------------------------------------
(* fromDataTable: db.open() and SELECT * FROM data LIMIT FetchMax.         *)
OpenForFetch ==
    /\ pc = "fetch"
    /\ pc' = "select" /\ cursor' = 0
    /\ UNCHANGED <<produced, queue, table, batch, stage, next, received>>

OpenForFetchFails ==
    /\ pc = "fetch" /\ "fetch_open" \in Faults
    /\ pc' = "post"
    /\ UNCHANGED <<produced, queue, table, batch, stage, next, cursor, received>>

(* The rows the cursor has not given yet.                                  *)
Ahead == {r \in table : r.rowid > cursor}

(* Variant: the WHERE clause of the DELETE never matches.                  *)
SameFieldsNone(r) == {}

SameFields(r) == {q \in table : q.sample = r.sample /\ q.flag = r.flag}

(* One iteration of fromDataTable: the next row in rowid order joins the   *)
(* batch and every row with the same fields is deleted.                    *)
FetchRow ==
    /\ pc = "select" /\ Len(batch) < FetchMax
    /\ \E r \in Ahead :
          /\ \A q \in Ahead : r.rowid <= q.rowid
          /\ batch' = Append(batch, [sample |-> r.sample, flag |-> r.flag])
          /\ cursor' = r.rowid
          /\ \/ table' = table \ SameFields(r)
             \/ /\ "delete" \in Faults /\ Cardinality(table) < TableBound
                /\ UNCHANGED table
    /\ UNCHANGED <<produced, queue, stage, pc, next, received>>

CloseFetch ==
    /\ pc = "select"
    /\ Len(batch) = FetchMax \/ Ahead = {}
    /\ table' = Renumbered(table)
    /\ cursor' = 0
    /\ pc' = "post"
    /\ UNCHANGED <<produced, queue, batch, stage, next, received>>

-----------------------------------------------------------------------------
(* The process dies and systemd starts it again: the table survives, the   *)
(* queue and the locals of sendToServer do not.                            *)
Restart ==
    /\ queue' = <<>> /\ batch' = <<>>
    /\ table' = Renumbered(table)
    /\ pc' = "sweep" /\ stage' = "fresh" /\ next' = 1 /\ cursor' = 0
    /\ UNCHANGED produced

Crash ==
    /\ "crash" \in Faults
    /\ Restart
    /\ UNCHANGED received

(* The answer does not parse: qFatal, after the server has acted.          *)
PostGarbled ==
    /\ pc = "post" /\ batch # <<>> /\ "garbled" \in Faults
    /\ LET req == Request(batch)
       IN  \E stored \in SUBSET {req[k] : k \in DOMAIN req} :
             received' = received \cup (stored \ Unknown)
    /\ Restart

-----------------------------------------------------------------------------
Loop ==
    \/ Pop \/ SkipPost \/ PostAnswered \/ PostUnanswered
    \/ OpenForSave \/ OpenForSaveFails \/ InsertRow \/ CloseSave
    \/ OpenForFetch \/ OpenForFetchFails \/ FetchRow \/ CloseFetch

Next == Push \/ Loop \/ Crash \/ PostGarbled

Spec == Init /\ [][Next]_vars

-----------------------------------------------------------------------------
(* A row of the batch is still in the process's hands while its fate is    *)
(* open: before the answer, and then if its flag says it will be saved and *)
(* the loop of toDataTable has not passed it.                              *)
Pending ==
    { i \in DOMAIN batch :
        \/ pc \in {"select", "post"}
        \/ pc = "save" /\ batch[i].flag # 0
        \/ pc = "insert" /\ i >= next /\ batch[i].flag # 0 }

InQueue == SamplesOf(queue)
InHand  == {batch[i].sample : i \in Pending}
InTable == {r.sample : r \in table}
Held    == InQueue \cup InHand \cup InTable

(* No sample is lost: whatever was read from a meter is in the queue, in   *)
(* the hands of sendToServer, in the table or at the server, unless the    *)
(* server refuses its sensor.  Relates the flags process_response writes,  *)
(* the rows toDataTable skips and the rows fromDataTable deletes before    *)
(* they are sent again.                                                    *)
NoSampleLost == produced \subseteq Held \cup received \cup Unknown

(* DATA_ERROR_FLAG2 is a row the server has accepted and that is kept only *)
(* to be sent again: no row of that kind is unknown to the server, so      *)
(* dropping it on DUPLICATE loses nothing.                                 *)
Flag2MeansReceived ==
    /\ \A i \in DOMAIN batch : batch[i].flag = 2 => batch[i].sample \in received
    /\ \A r \in table : r.flag = 2 => r.sample \in received

(* A sample is kept in one place only: fromDataTable deletes what it       *)
(* hands out, toDataTable saves it once, so no sample is sent twice in one *)
(* request and the table does not grow by sending.                         *)
HeldOnce ==
    /\ \A i, j \in Pending : batch[i].sample = batch[j].sample => i = j
    /\ \A i, j \in DOMAIN queue : queue[i].sample = queue[j].sample => i = j
    /\ \A q, r \in table : q.sample = r.sample => q = r
    /\ InHand \cap InTable = {} /\ InQueue \cap (InHand \cup InTable) = {}

(* What toDataTable is for, sqldriver.cpp:104 ("function for saving data   *)
(* on errors of transmission to the server"): when sendToServer returns,   *)
(* every sample the server has neither stored nor refused is still queued  *)
(* or saved.                                                               *)
UnsentIsSaved ==
    pc = "sweep" => produced \subseteq InQueue \cup InTable \cup received \cup Unknown

(* Every sample that is read reaches the server, unless it is refused.     *)
EventuallyReceived ==
    \A s \in Sample \ Unknown : s \in produced ~> s \in received

(* The table drains: with no more samples to come and a link that works    *)
(* again and again, accepted rows are not saved and sent for ever.         *)
TableDrains == <>[](InTable = {})

(* The promise kept: the store is an outbox (module Outbox) from which a   *)
(* sample leaves only by reaching the server or by being refused.          *)
AsOutbox == INSTANCE Outbox WITH
                pending   <- Held \ received,
                delivered <- received

ImplementsOutbox == AsOutbox!Spec
=============================================================================
