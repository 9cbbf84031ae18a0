------------------------------ MODULE Polling ------------------------------
(***************************************************************************)
(* GuidClass, the table of meters of every RS485 line with its sweep       *)
(* iterators and its queue of requested readings, shared by the threads of *)
(* ThreadManager: one sweeper per line (mercury_1_thread, ...), the thread *)
(* that serves requests (QueueReqFromServer_thread) and those that file    *)
(* them (getInfoFromServer_thread, cmdline_thread).  A meter is its index  *)
(* in the main_guid vector of its line; the exchange with it is one step.  *)
(*                                                                         *)
(* Steps are cut where the code can be interrupted with an effect: hasNext *)
(* holds `mutex', next_iterators `mutex2', addQueue `mutex_queue', so one  *)
(* does not exclude another; read_data of a mercury holds the mutex of its *)
(* object from get_address to the end.                                     *)
(***************************************************************************)
EXTENDS Integers, Sequences, FiniteSets

CONSTANTS
    Line,       \* RS485 lines
    Count,      \* number of meters of every line, a function of Line
    Paired,     \* lines of GUID_TYPE_SUBTABLE
    Served,     \* lines QueueReqFromServer_thread looks at, in its order
    Locked,     \* lines whose reader has a mutex (the mercury ones)
    MaxAsked    \* meters named in the requests of a behaviour

ASSUME PollingAssumption ==
    /\ Count \in [Line -> Nat \ {0}]
    /\ Paired \subseteq Line /\ Locked \subseteq Line
    /\ Served \in Seq(Line)
    /\ "server" \notin Line /\ "none" \notin Line
    /\ MaxAsked \in Nat

(* Of the lines it could serve QueueReqFromServer_thread has only mercury  *)
(* ones left; those of pulsars and spheras are commented out.              *)
ASSUME ServedAssumption ==
    \A i \in DOMAIN Served : Served[i] \in Locked /\ Served[i] \notin Paired

VARIABLES
    mainPos,    \* main_it: how many meters of the line it has passed
    subPos,     \* sub_it, likewise
    current,    \* meter whose guid and address are in current_guid
    currentSub, \* meter whose map is in current_subguid
    requests,   \* GuidQueueVector: requested meters of the line
    filing,     \* addQueue: meters of its list not looked up yet
    filed,      \* those it has, local_vector
    active,     \* GuidActiveStateVector
    pc,         \* where a thread is
    turn,       \* line the serving thread looks at: index into Served
    holder,     \* thread that holds the mutex of the line's reader
    address,    \* address a thread has read from current_guid
    asked,      \* meters named in requests so far
    passed,     \* meters main_it gave since the last sweep ended (history)
    owed,       \* meters requested and not read since (history)
    readings    \* labels of the readings pushed (history)

filingVars == <<filing, filed>>
guidVars == <<mainPos, subPos, current, currentSub, requests, filingVars, active>>
threadVars == <<pc, turn, holder, address>>
history == <<asked, passed, owed, readings>>
vars == <<guidVars, threadVars, history>>

-----------------------------------------------------------------------------
Server == "server"                 \* QueueReqFromServer_thread
Thread == Line \cup {Server}       \* the sweeper of a line is named after it
None == "none"

Meter(l) == 1..Count[l]
AnyMeter == UNION {{<<l, d>> : d \in Meter(l)} : l \in Line}

LineOf(t) == IF t = Server THEN Served[turn] ELSE t

(* What a reading is pushed with: the meter addressed, the meter whose     *)
(* guid it carries and the one whose pins name its channels.               *)
Label == [line : Line, address : Nat, guid : Nat, sub : Nat]

TypeOK ==
    /\ mainPos \in [Line -> Nat] /\ subPos \in [Line -> Nat]
    /\ \A l \in Line : mainPos[l] <= Count[l] /\ subPos[l] <= Count[l]
    /\ current \in [Line -> Nat] /\ currentSub \in [Line -> Nat]
    /\ requests \in [Line -> Seq(Nat)] /\ passed \in [Line -> SUBSET Nat]
    /\ \A l \in Line : requests[l] \in Seq(Meter(l)) /\ passed[l] \subseteq Meter(l)
    /\ filing \in Seq(AnyMeter) /\ filed \subseteq AnyMeter
    /\ active \in [Line -> BOOLEAN]
    /\ pc \in [Thread -> {"check", "rewind", "rest", "lock", "next", "address", "guid"}]
    /\ turn \in 1..(Len(Served) + 1)
    /\ holder \in [Line -> Thread \cup {None}]
    /\ address \in [Thread -> Nat]
    /\ asked \in 0..MaxAsked
    /\ owed \subseteq AnyMeter
    /\ readings \subseteq Label

Init ==
    /\ mainPos = [l \in Line |-> 0] /\ subPos = [l \in Line |-> 0]
    /\ current = [l \in Line |-> 0] /\ currentSub = [l \in Line |-> 0]
    /\ requests = [l \in Line |-> <<>>] /\ filing = <<>> /\ filed = {}
    /\ active = [l \in Line |-> FALSE]
    /\ pc = [t \in Thread |-> "check"]
    /\ turn = 1
    /\ holder = [l \in Line |-> None]
    /\ address = [t \in Thread |-> 0]
    /\ asked = 0
    /\ passed = [l \in Line |-> {}] /\ owed = {} /\ readings = {}

-----------------------------------------------------------------------------
Goto(t, label) == pc' = [pc EXCEPT ![t] = label]

(* hasNext with meters left: the line becomes active, the sweeper reads.   *)
HasNextTrue(l) ==
    /\ pc[l] = "check"
    /\ mainPos[l] < Count[l]
    /\ \A k \in Line : pc[k] # "rewind"
    /\ active' = [active EXCEPT ![l] = TRUE]
    /\ Goto(l, "lock")
    /\ UNCHANGED <<mainPos, subPos, current, currentSub, requests, filingVars,
                   turn, holder, address, history>>

(* hasNext with none left: inactive, and main_it (not sub_it) goes back to *)
(* the front; both under `mutex', which next_iterators does not take.      *)
HasNextFalse(l) ==
    /\ pc[l] = "check"
    /\ mainPos[l] = Count[l]
    /\ \A k \in Line : pc[k] # "rewind"
    /\ active' = [active EXCEPT ![l] = FALSE]
    /\ Goto(l, "rewind")
    /\ UNCHANGED <<mainPos, subPos, current, currentSub, requests, filingVars,
                   turn, holder, address, history>>

(* Variant: toFront() is forgotten.                                        *)
RewindNot(l) ==
    /\ pc[l] = "rewind"
    /\ passed' = [passed EXCEPT ![l] = {}]
    /\ Goto(l, "rest")
    /\ UNCHANGED <<guidVars, turn, holder, address, asked, owed, readings>>

Rewind(l) ==
    /\ pc[l] = "rewind"
    /\ mainPos' = [mainPos EXCEPT ![l] = 0]
    /\ passed' = [passed EXCEPT ![l] = {}]
    /\ Goto(l, "rest")
    /\ UNCHANGED <<subPos, current, currentSub, requests, filingVars, active,
                   turn, holder, address, asked, owed, readings>>

(* doEvery: the thread sleeps until its interval is over.                  *)
Rest(t) ==
    /\ pc[t] = "rest"
    /\ Goto(t, "check")
    /\ turn' = IF t = Server THEN 1 ELSE turn
    /\ UNCHANGED <<guidVars, holder, address, history>>

-----------------------------------------------------------------------------
(* isEmptyQueue for the line whose turn it is: an active line counts as    *)
(* empty, its sweeper will see to the queue.                               *)
LooksEmpty(l) == active[l] \/ requests[l] = <<>>

ServeCheck ==
    /\ pc[Server] = "check"
    /\ turn <= Len(Served)
    /\ \A k \in Line : pc[k] # "rewind"
    /\ IF LooksEmpty(Served[turn])
       THEN turn' = turn + 1 /\ UNCHANGED pc
       ELSE Goto(Server, "lock") /\ UNCHANGED turn
    /\ UNCHANGED <<guidVars, holder, address, history>>

ServeDone ==
    /\ pc[Server] = "check"
    /\ turn > Len(Served)
    /\ Goto(Server, "rest")
    /\ UNCHANGED <<guidVars, turn, holder, address, history>>

-----------------------------------------------------------------------------
(* Variant: read_data without the QMutexLocker, as PulsarClass has it.     *)
LockNone(t) ==
    /\ pc[t] = "lock"
    /\ Goto(t, "next")
    /\ UNCHANGED <<guidVars, turn, holder, address, history>>

(* read_data begins: the mutex of the reader object of the line, if it has *)
(* one.                                                                    *)
Lock(t) ==
    LET l == LineOf(t)
    IN  /\ pc[t] = "lock"
        /\ l \in Locked => holder[l] = None
        /\ holder' = IF l \in Locked THEN [holder EXCEPT ![l] = t] ELSE holder
        /\ Goto(t, "next")
        /\ UNCHANGED <<guidVars, turn, address, history>>

(* Variant: next() at the end without toFront().                           *)
AfterNoWrap(pos, l) == pos[l] + 1

(* Where an iterator stands after hasNext / toFront / next.                *)
After(pos, l) == IF pos[l] < Count[l] THEN pos[l] + 1 ELSE 1

(* next_iterators, nothing requested: the next meter of the sweep, from    *)
(* the front again if there is none; sub_it follows on a paired line.      *)
NextOfSweep(t) ==
    LET l == LineOf(t)
    IN  /\ pc[t] = "next" /\ requests[l] = <<>>
        /\ mainPos' = [mainPos EXCEPT ![l] = After(mainPos, l)]
        /\ current' = [current EXCEPT ![l] = After(mainPos, l)]
        /\ IF l \in Paired
           THEN /\ subPos' = [subPos EXCEPT ![l] = After(subPos, l)]
                /\ currentSub' = [currentSub EXCEPT ![l] = After(subPos, l)]
           ELSE UNCHANGED <<subPos, currentSub>>
        /\ passed' = [passed EXCEPT ![l] = @ \cup {After(mainPos, l)}]
        /\ Goto(t, "address")
        /\ UNCHANGED <<requests, filingVars, active, turn, holder, address, asked, owed, readings>>

(* Variants: a request also moves the sweep on; it leaves current_subguid. *)
NextOfQueueMoves(t) ==
    LET l == LineOf(t)
    IN  /\ pc[t] = "next" /\ requests[l] # <<>> /\ filing = <<>>
        /\ current' = [current EXCEPT ![l] = Head(requests[l])]
        /\ currentSub' = [currentSub EXCEPT ![l] = Head(requests[l])]
        /\ mainPos' = [mainPos EXCEPT ![l] = After(mainPos, l)]
        /\ requests' = [requests EXCEPT ![l] = Tail(@)]
        /\ Goto(t, "address")
        /\ UNCHANGED <<subPos, filingVars, active, turn, holder, address, history>>

NextOfQueueMainOnly(t) ==
    LET l == LineOf(t)
    IN  /\ pc[t] = "next" /\ requests[l] # <<>> /\ filing = <<>>
        /\ current' = [current EXCEPT ![l] = Head(requests[l])]
        /\ requests' = [requests EXCEPT ![l] = Tail(@)]
        /\ Goto(t, "address")
        /\ UNCHANGED <<mainPos, subPos, currentSub, filingVars, active, turn, holder, address, history>>

(* next_iterators, something requested: the oldest request comes first,    *)
(* the sweep stays where it is.  The queue is looked at without            *)
(* mutex_queue, which is held while a list is filed, and taken from with it. *)
NextOfQueue(t) ==
    LET l == LineOf(t)
    IN  /\ pc[t] = "next" /\ requests[l] # <<>> /\ filing = <<>>
        /\ current' = [current EXCEPT ![l] = Head(requests[l])]
        /\ currentSub' = [currentSub EXCEPT ![l] = Head(requests[l])]
        /\ requests' = [requests EXCEPT ![l] = Tail(@)]
        /\ Goto(t, "address")
        /\ UNCHANGED <<mainPos, subPos, filingVars, active, turn, holder, address, history>>

(* get_address reads current_guid after it has left mutex2.                *)
GetAddress(t) ==
    /\ pc[t] = "address"
    /\ address' = [address EXCEPT ![t] = current[LineOf(t)]]
    /\ Goto(t, "guid")
    /\ UNCHANGED <<guidVars, turn, holder, history>>

(* get_guid (and get_subguid on a paired line), the exchange, push and the *)
(* end of read_data.  A sweeper asks hasNext again, the serving thread     *)
(* turns to its next line.                                                 *)
Finish(t) ==
    LET l == LineOf(t)
    IN  /\ pc[t] = "guid"
        /\ readings' = readings \cup
             {[line |-> l, address |-> address[t], guid |-> current[l],
               sub |-> IF l \in Paired THEN currentSub[l] ELSE 0]}
        /\ owed' = owed \ {<<l, address[t]>>}
        /\ holder' = [holder EXCEPT ![l] = None]
        /\ address' = [address EXCEPT ![t] = 0]
        /\ turn' = IF t = Server THEN turn + 1 ELSE turn
        /\ Goto(t, "check")
        /\ UNCHANGED <<guidVars, asked, passed>>

-----------------------------------------------------------------------------
(* Variant: meters are compared by their address, whatever their line.     *)
KnownAnyLine(m, seen) == \E k \in seen : k[2] = m[2]
Known(m, seen) == m \in seen

(* addQueue(list), one meter after the other under mutex_queue: each one   *)
(* that find_guid knows joins the queue of its line, once per list.        *)
(* addQueue(guid) is the list of one.                                      *)
File(list, seen) ==
    LET m == Head(list)
    IN  /\ requests' = IF Known(m, seen) THEN requests
                       ELSE [requests EXCEPT ![m[1]] = Append(@, m[2])]
        /\ owed' = owed \cup {m}
        /\ filing' = Tail(list)
        /\ filed' = IF Tail(list) = <<>> THEN {} ELSE seen \cup {m}
        /\ UNCHANGED <<mainPos, subPos, current, currentSub, active,
                       threadVars, passed, readings>>

AddQueue ==
    /\ filing = <<>>
    /\ \E n \in 1..(MaxAsked - asked) : \E list \in [1..n -> AnyMeter] :
          File(list, {}) /\ asked' = asked + n

AddNext ==
    /\ filing # <<>>
    /\ File(filing, filed)
    /\ UNCHANGED asked

-----------------------------------------------------------------------------
ReadStep(t) ==
    Lock(t) \/ NextOfSweep(t) \/ NextOfQueue(t) \/ GetAddress(t) \/ Finish(t)

Sweeper(l) ==
    HasNextTrue(l) \/ HasNextFalse(l) \/ Rewind(l) \/ Rest(l) \/ ReadStep(l)

Serving == ServeCheck \/ ServeDone \/ Rest(Server) \/ ReadStep(Server)

Next == (\E l \in Line : Sweeper(l)) \/ Serving \/ AddQueue \/ AddNext

Spec == Init /\ [][Next]_vars

(* The threads run and their exchanges time out.  A thread that waits for  *)
(* `mutex' or for the mutex of a reader gets it at last: the first is held *)
(* for a few instructions, and the other user of a line sleeps for minutes *)
(* between its sweeps, long enough for the waiting thread to be woken.     *)
(* A list once begun is filed to its end.                                  *)
Fairness ==
    /\ \A l \in Line : SF_vars(Sweeper(l))
    /\ SF_vars(Serving)
    /\ WF_vars(AddNext)

FairSpec == Spec /\ Fairness

-----------------------------------------------------------------------------
(* A reading is pushed under the guid of the meter it was taken from, and  *)
(* on a paired line its channels are named by the map of that same meter:  *)
(* the address, the guid and the map are fetched in three steps from state *)
(* another thread may move.                                                *)
LabelledRight ==
    \A r \in readings : r.guid = r.address /\ r.sub \in {0, r.address}

(* A sweep is complete: when hasNext says that no meter is left, each one  *)
(* has been given out since the sweep before, also when a thread serving   *)
(* requests has moved the iterator in between.                             *)
SweepComplete ==
    \A l \in Line : pc[l] = "rewind" => passed[l] = Meter(l)

(* main_it and sub_it move together: on a paired line the map in           *)
(* current_subguid belongs to the meter in current_guid.                   *)
Together == \A l \in Paired : current[l] = currentSub[l]

(* A requested meter that has not been read since is still queued or in    *)
(* the hands of the thread that took its request.                          *)
NoRequestLost ==
    \A m \in owed :
        \/ \E i \in DOMAIN requests[m[1]] : requests[m[1]][i] = m[2]
        \/ \E t \in Thread :
              /\ pc[t] \in {"address", "guid"} /\ LineOf(t) = m[1]
              /\ \/ pc[t] = "address" /\ current[m[1]] = m[2]
                 \/ pc[t] = "guid" /\ address[t] = m[2]

(* A request is answered: by the serving thread, or by the sweeper of a    *)
(* line that thread does not look at.                                      *)
RequestsAnswered == \A m \in AnyMeter : (m \in owed) ~> (m \notin owed)

(* The sweeps go on: each meter is given out again and again.              *)
SweepsGoOn ==
    \A l \in Line : \A d \in Meter(l) :
        []<>(\E t \in Thread : pc[t] = "guid" /\ LineOf(t) = l /\ address[t] = d)
=============================================================================
